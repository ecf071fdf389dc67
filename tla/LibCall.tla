------------------------------ MODULE LibCall ------------------------------
(***************************************************************************)
(* A call of the C API: a function of libusb/lib_interface.cpp asks the    *)
(* device manager, once or several times, through the call_xxx functions   *)
(* of the session layer, and makes a return code and output arguments of   *)
(* the answers.  A request is written to the wire, read by the device      *)
(* manager, answered or not, and the answer is read on this side.  Which   *)
(* answer belongs to which request is XSession's concern.                  *)
(***************************************************************************)
EXTENDS Package, Converters

CONSTANTS
    Calls,              \* bound: the calls that are made, see LibInterface
    Values,             \* bound: the values there are, see Converters and Package
    Sends(_, _, _),     \* Sends(t, b, v): v is of type t, as a board of type b sends it
    ErrCodes            \* bound: the error codes of the answers

IsSeq(v) == v \in Seq({v[k] : k \in DOMAIN v})

\* The functions that are given a board by its type and an index.
ByBoard ==
    {"cal_file_start_save", "cal_file_query_progress", "cal_file_complete_save",
     "cal_file_start_read", "DIG_GetBoardExist", "DIG_GetBoardID", "DIG_GetBoardSN",
     "DIG_GetBoardHwVersion", "DIG_GetBoardSoftVersion", "DIG_GetBoardTemp",
     "DIG_GetBoardVol", "DIG_GetBoardMultiTemp", "DIG_GetBoardMultiVol",
     "DIG_GetMutiSerdesState", "DIG_GetClockChipState", "DIG_GetPWMFrequency",
     "DIG_GetSerdesState", "DIG_GetUtpRegister", "DIG_GetUtp102Register",
     "DIG_GetMutiUtpRegister", "DIG_GetMutiUtp102Register", "DIG_BoardPowerOff",
     "DIG_FPGAPowerOff", "DIG_UTP40PowerOff", "DIG_ASICPowerOff", "DIG_FPGA200TPowerOff",
     "DIG_FPGAKU060PowerOff", "DIG_UTP40_MasterPowerOff", "set_4356_frequency"}

\* The functions that are given the first and the last number of an interval.
OfChips     == {"DIG_GetMutiUtpRegister", "DIG_GetMutiUtp102Register"}
OfIntervals ==
    {"DIG_GetBoardMultiTemp", "DIG_GetBoardMultiVol", "DIG_GetMutiSerdesState"} \cup OfChips

\* The types of board are an enum below 256, numbers are ints, a file name is a string.
ASSUME CallsAssumption ==
    \A c \in Calls :
        /\ "type" \in DOMAIN c => c.type \in 0 .. 255
        /\ "index" \in DOMAIN c => c.index \in Int
        /\ c.fn \in OfIntervals => c.lo \in Int /\ c.hi \in Int
        /\ c.fn \in OfChips => c.len \in Int
        /\ c.fn \in {"cal_file_start_save", "cal_file_start_read"} => IsSeq(c.file)
        /\ {"type", "index"} \subseteq DOMAIN c <=> c.fn \in ByBoard

ASSUME ValuesAssumption ==
    \A v \in Values :
        /\ IsSeq(v)
        /\ \A k \in DOMAIN v : "length" \in DOMAIN v[k] => v[k].length \in Nat

ASSUME ErrCodesAssumption == ErrCodes \subseteq Int

VARIABLES
    phase,      \* idle, called, sent, done, or threw: a conversion raised an exception
    arg,        \* the call: its function fn and its arguments
    asked,      \* the packages sent by it
    wire,       \* the last of them on the wire
    given,      \* the answers the device manager gave, None where none came
    got,        \* what call_xxx returned for each of asked: waited or not, and members
    ret,        \* the return code
    out         \* the output arguments, NoOut where they were not written

vars == <<phase, arg, asked, wire, given, got, ret, out>>

None  == [none |-> TRUE]
NoOut == [kept |-> TRUE]

Init ==
    /\ phase = "idle" /\ arg = None /\ asked = <<>> /\ wire = NoBin
    /\ given = <<>> /\ got = <<>> /\ ret = 0 /\ out = NoOut

Enter ==
    /\ phase = "idle"
    /\ phase' = "called"
    /\ arg' \in Calls
    /\ UNCHANGED <<asked, wire, given, got, ret, out>>

In(fn) == phase = "called" /\ arg.fn = fn

-----------------------------------------------------------------------------
(* The call_xxx functions: the package each of them makes.                 *)

NewPackage(type, cmd) == [m_msg_type |-> type, m_msg_cmd |-> cmd, m_session |-> Len(asked) + 1]

Request(cmd) == NewPackage("MT_REQUEST", cmd)

call_ota_start_upgrade(type, version, dst, file) ==
    Request("MC_START") ++ [m_ota_type |-> type, m_ota_version |-> version, m_usb_dst |-> dst,
                            m_calfilename |-> file]

call_cal_read_file(type, version, dst, file) ==
    Request("MC_CAL_READ") ++ [m_ota_type |-> type, m_ota_version |-> version, m_usb_dst |-> dst,
                               m_calfilename |-> file]

call_ota_cancel_upgrade(type, dst) ==
    Request("MC_CANCEL") ++ [m_ota_type |-> type, m_usb_dst |-> dst]

call_ota_query_upgrade(type, dst) ==
    Request("MC_QUERY") ++ [m_ota_type |-> type, m_usb_dst |-> dst]

call_ota_complete_upgrade(type, dst) ==
    NewPackage("MT_NOTIFY", "MC_COMPLETE") ++ [m_ota_type |-> type, m_usb_dst |-> dst]

call_fetch_real_data(dst)  == Request("MC_DATA") ++ [m_usb_dst |-> dst]
call_usb_serials_ids       == Request("MC_USBDSTSerials_ID")
call_asic_junctions_temp   == Request("MC_ASIC_JUNCTION_TEMP")

call_get_value_from_dev(dst, type) ==
    Request("MC_GET_VALUE") ++ [m_usb_dst |-> dst, m_value_type |-> type]

call_powercontrol_req(dst, type, sw, utp40) ==
    Request("MC_COMMAND") ++ [m_usb_dst |-> dst, m_command_type |-> type,
                              m_utp40_id |-> utp40, m_switch |-> sw]

call_set_frequency(dst, type, frequency, channel) ==
    Request("MC_FREQUENCY") ++ [m_usb_dst |-> dst, m_frequency_type |-> type,
                                m_frequency |-> frequency, m_channel |-> channel]

call_get_one_utp_register(dst, chip) ==
    Request("MC_GET_UTP_REGISTER") ++ [m_usb_dst |-> dst, m_utp_chip_id |-> chip]

call_get_one_utp102_register(dst, chip) ==
    Request("MC_GET_UTP102_REGISTER") ++ [m_usb_dst |-> dst, m_utp_chip_id |-> chip]

-----------------------------------------------------------------------------
(* The steps of a call.                                                    *)

AskFor(pkg) ==
    /\ phase' = "sent"
    /\ asked' = Append(asked, pkg)
    /\ wire' = serial_to_bin(pkg)
    /\ UNCHANGED <<arg, given, got, ret, out>>

Return(code, output) ==
    /\ phase' = "done" /\ ret' = code /\ out' = output
    /\ UNCHANGED <<arg, asked, wire, given, got>>

Throw == phase' = "threw" /\ UNCHANGED <<arg, asked, wire, given, got, ret, out>>

Resume(answer, read) ==
    /\ phase' = "called"
    /\ given' = Append(given, answer)
    /\ got' = Append(got, read)
    /\ UNCHANGED <<arg, asked, wire, ret, out>>

TimedOut == [waited |-> FALSE]

\* The type of a board is the low byte of its address.
TypeOf(addr) == addr % 256

\* The answers the device manager may give to a request it has read.
Lists == {"MC_DATA", "MC_USBDSTSerials_ID", "MC_ASIC_JUNCTION_TEMP"}

Answers(s) ==
    LET Items == CASE s.m_msg_cmd = "MC_GET_VALUE" ->
                        {v \in Values : Sends(s.m_value_type, TypeOf(s.m_usb_dst), v)}
                   [] s.m_msg_cmd \in Lists -> {v \in Values : Sends(s.m_msg_cmd, 0, v)}
                   [] OTHER -> {<<>>}
        Progress == IF s.m_msg_cmd = "MC_QUERY" THEN {<<0, 0>>, <<1, 4>>, <<4, 4>>} ELSE {<<0, 0>>}
        Cuts == IF s.m_msg_cmd = "MC_GET_VALUE" THEN {0} ELSE {0, 1}
    IN  {[m_msg_type |-> "MT_RESPOND", m_msg_cmd |-> s.m_msg_cmd, m_session |-> s.m_session,
          m_err_code |-> e, items |-> i, cut |-> c, m_upgrade_progress |-> p[1],
          m_total_len |-> p[2], m_usb_dst |-> IF s.m_msg_cmd = "MC_DATA" THEN s.m_usb_dst ELSE 0] :
            e \in ErrCodes, i \in Items, p \in Progress, c \in Cuts}

\* The requests that are not written (see Package): the registers of one chip, which
\* no reader knows either, and three that parse_request_body does read.
Registers == {"MC_GET_UTP_REGISTER", "MC_GET_UTP102_REGISTER"}
ReadOnly  == {"MC_GET_VALUE", "MC_COMMAND", "MC_FREQUENCY"}
Unwritten == Registers \cup ReadOnly

\* What the device manager knows of a request is what it reads on the wire.  The
\* three are an assumption about it, and no behaviour of this library: their answers
\* are looked at as if it knew the request that was made, for what the functions
\* make of them is in the library, although as they stand they all time out.
Understood ==
    IF Last(asked).m_msg_cmd \in ReadOnly THEN Last(asked) ELSE parse_from_bin(Delivered(wire))

\* The device manager knows of the request and answers it; the answer is read here,
\* and what call_xxx hands out are its members.  Without items nothing is cut.
Answer ==
    /\ phase = "sent"
    /\ LET s == Understood
       IN  /\ s # Refused
           /\ s.m_msg_type = "MT_REQUEST"
           /\ \E a \in Answers(s) :
                 LET r == parse_from_bin(Delivered(serial_to_bin(a)))
                 IN  /\ a.cut <= Len(a.items)
                     /\ r # Refused
                     /\ Resume(a, [waited |-> TRUE] ++ r)

\* No answer in time: none was sent, it was lost, or it was not accepted.
Timeout ==
    /\ phase = "sent"
    /\ Last(asked).m_msg_type = "MT_REQUEST"
    /\ Resume(None, TimedOut)

\* A notification is not answered: send returns, and the result arguments keep
\* the 0 they were initialised with.
Notified ==
    /\ phase = "sent"
    /\ Last(asked).m_msg_type = "MT_NOTIFY"
    /\ \E sent \in BOOLEAN : Resume(None, [waited |-> sent, m_err_code |-> 0])

\* The caller takes the results, and may call again.
Leave ==
    /\ phase \in {"done", "threw"}
    /\ phase' = "idle" /\ arg' = None /\ asked' = <<>> /\ wire' = NoBin
    /\ given' = <<>> /\ got' = <<>> /\ ret' = 0 /\ out' = NoOut

-----------------------------------------------------------------------------
(* What most functions do with an answer.                                  *)

\* The error code is not looked at (a plausible mistake).
Unasked(answer) == ~answer.waited

\* call_xxx fails, or the device manager reports an error.
Fails(answer) == answer.waited => answer.m_err_code < 0

\* One request; where it fails, the call ends with -1.
OneCall(pkg, before, code, output) ==
    \/ got = <<>> /\ AskFor(pkg)
    \/ got # <<>> /\ Fails(got[1]) /\ Return(0 - 1, before)
    \/ got # <<>> /\ ~Fails(got[1]) /\ Return(code, output)

Value == Last(got).m_value_dev

\* One request; its value is an integer in a text, or the output is left alone.
Integer == IF Value = <<>> THEN NoOut ELSE [val |-> Value[1].num]

ExistOut(dst, type) == OneCall(call_get_value_from_dev(dst, type), NoOut, 0, Integer)

\* One request; its value is a text, which must fit buf_len with its end.
TextOut(dst, type) ==
    LET fits == Value = <<>> \/ Len(Value) < arg.buf_len
    IN  OneCall(call_get_value_from_dev(dst, type), NoOut,
            IF fits THEN 0 ELSE 0 - 2,
            IF fits /\ Value # <<>> THEN [text |-> Value] ELSE NoOut)

=============================================================================
