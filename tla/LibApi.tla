------------------------------- MODULE LibApi -------------------------------
(***************************************************************************)
(* The functions of the C API that read sensors and chips of a board or    *)
(* switch its power (libusb/lib_interface.cpp from line 3750 on); then     *)
(* the whole API as a specification, and what it promises its callers.     *)
(***************************************************************************)
EXTENDS LibBoards

Answered == got # <<>> /\ ~Fails(got[1])

\* The size is not compared (a plausible mistake).
AnyInterval(max) == arg.lo <= arg.hi

\* A legal interval of at most max numbers.
Interval(max) == arg.lo <= arg.hi /\ arg.hi - arg.lo + 1 <= max

-----------------------------------------------------------------------------
(* One reading; 0 is reported where there is none.                         *)

One(value, found) ==
    \/ got = <<>> /\ AskFor(GetValue(Board, value))
    \/ got # <<>> /\ ~(Answered /\ found # NoVal) /\ Return(0 - 1, [reading |-> 0])
    \/ got # <<>> /\ Answered /\ found # NoVal /\ Return(0, [reading |-> found])

\* Which boards send their values as binaries; the CP PPS is not in the enum.
BinaryTemps == arg.type \in {CP_DIG, CP_SYNC}
BinaryVolts == arg.type # FT_DIG

DIG_GetBoardTemp ==
    /\ In("DIG_GetBoardTemp")
    /\ One("VALUE_TEMP", IF BinaryTemps THEN find_temp_by_serialnum(Value, arg.n)
                         ELSE find_string_by_serialnum(Value, arg.n))

DIG_GetBoardVol ==
    /\ In("DIG_GetBoardVol")
    /\ One("VALUE_VOL", IF BinaryVolts THEN find_voltage_by_serialnum(Value, arg.n)
                        ELSE find_string_by_serialnum(Value, arg.n))

-----------------------------------------------------------------------------
(* The readings of an interval.                                            *)

Several(value, max, taken) ==
    \/ ~Interval(max) /\ Return(0 - 2, Zeroed)
    \/ Interval(max) /\ got = <<>> /\ AskFor(GetValue(Board, value))
    \/ Interval(max) /\ got # <<>> /\ ~Answered /\ Return(0 - 1, Zeroed)
    \/ Interval(max) /\ Answered /\ taken

\* Of a text, only what is in the interval is converted: stof throws at a
\* reading without a number.
InInterval == find_string_from_start_to_end(Value, arg.lo, arg.hi)

TakeText(found, filled) ==
    \/ found = <<>> /\ Return(0 - 1, Zeroed)
    \/ found # <<>> /\ Unreadable(found) /\ Throw
    \/ found # <<>> /\ ~Unreadable(found) /\ Return(0, filled)

TakeBinary(items, filled) ==
    IF items = Failed THEN Return(0 - 1, Zeroed) ELSE Return(0, filled)

DIG_GetBoardMultiTemp ==
    /\ In("DIG_GetBoardMultiTemp")
    /\ Several("VALUE_TEMP", MAX_MULTI_SIZE,
           IF BinaryTemps
           THEN TakeBinary(parse_comb_temp(Value),
                           find_temp_from_start_to_end(Value, arg.lo, arg.hi))
           ELSE TakeText(InInterval, str_to_multiple_temp(InInterval)))

DIG_GetBoardMultiVol ==
    /\ In("DIG_GetBoardMultiVol")
    /\ Several("VALUE_VOL", MAX_MULTI_SIZE,
           IF BinaryVolts
           THEN TakeBinary(parse_pcbvolt_data(Value),
                           find_voltage_from_start_to_end(Value, arg.lo, arg.hi))
           ELSE TakeText(InInterval, str_to_multiple_volatage(InInterval)))

DIG_GetMutiSerdesState ==
    /\ In("DIG_GetMutiSerdesState")
    /\ Several("VALUE_SERDES_STATUS", MAX_SERDES_SIZE,
           TakeBinary(parse_serdes_state(Value),
                      find_serdes_from_start_to_end(Value, arg.lo, arg.hi)))

-----------------------------------------------------------------------------
(* The state of the chips of a board.                                      *)

AllOf(value, items, filled) ==
    \/ got = <<>> /\ AskFor(GetValue(Board, value))
    \/ got # <<>> /\ ~Answered /\ Return(0 - 1, Zeroed)
    \/ Answered /\ TakeBinary(items, filled)

DIG_GetClockChipState ==
    /\ In("DIG_GetClockChipState")
    /\ CASE arg.clock = 9528 -> AllOf("VALUE_9528_STATUS", xconvert_ad9528_lockdata(Value),
                                      parse_ad9528_lckdata(Value))
         [] arg.clock = 9545 -> AllOf("VALUE_9545_STATUS", xconvert_ad9545_lockdata(Value),
                                      parse_ad9545_lckdata(Value))
         [] OTHER -> Return(0 - 1, Zeroed)

DIG_GetPWMFrequency ==
    /\ In("DIG_GetPWMFrequency")
    /\ AllOf("VALUE_PWM_FREQUENCY", parse_pwm_check(Value), parse_pwm_frequency(Value))

DIG_GetSerdesState ==
    /\ In("DIG_GetSerdesState")
    /\ AllOf("VALUE_SERDES_STATUS", parse_serdes_state(Value), parse_serdes_status(Value))

-----------------------------------------------------------------------------
(* Registers.  What a parser without a return hands back is not known.     *)

OneChip(pkg, parsed) ==
    \/ got = <<>> /\ AskFor(pkg)
    \/ /\ got # <<>>
       /\ LET good == got[1].waited /\ got[1].m_err_code = 0 /\ parsed # Failed
          IN  \E code \in IF good THEN {0, 0 - 1} ELSE {0 - 1} :
                 Return(code, IF good THEN Filled(1, parsed) ELSE Zeroed)

DIG_GetUtpRegister ==
    /\ In("DIG_GetUtpRegister")
    /\ OneChip(call_get_one_utp_register(Board, arg.n), parse_utp_register_info(Value))

DIG_GetUtp102Register ==
    /\ In("DIG_GetUtp102Register")
    /\ OneChip(call_get_one_utp102_register(Board, arg.n), parse_utp102_register_info(Value))

\* The number of the chips found is returned; any error code but 0 is an error.
ChipsIn(value, found) ==
    LET legal == Interval(MAX_UTP_CHIPS) /\ arg.hi - arg.lo + 1 <= arg.len /\ arg.len <= MAX_UTP_CHIPS
        good  == got[1].waited /\ got[1].m_err_code = 0 /\ found # <<>>
    IN  \/ ~legal /\ Return(0 - 2, NoOut)
        \/ legal /\ got = <<>> /\ AskFor(GetValue(Board, value))
        \/ legal /\ got # <<>> /\ ~good /\ Return(0 - 1, Zeroed)
        \/ legal /\ got # <<>> /\ good /\ Return(Len(found), Filled(Len(found), found))

DIG_GetMutiUtpRegister ==
    /\ In("DIG_GetMutiUtpRegister")
    /\ ChipsIn("VALUE_UTP40_REGISTER", find_utp_register_in_interval(Value, arg.lo, arg.hi))

DIG_GetMutiUtp102Register ==
    /\ In("DIG_GetMutiUtp102Register")
    /\ ChipsIn("VALUE_UTP102_REGISTER", find_utp102_register_in_interval(Value, arg.lo, arg.hi))

-----------------------------------------------------------------------------
(* Power and frequency.                                                    *)

\* enum power_switch: master on and off, slave off and on, slaver on and off.
OnOff       == 1 .. 2
AnySwitch   == 1 .. 6

Power(command_type, switches, utp40) ==
    \/ arg.sw \notin switches /\ Return(0 - 1, NoOut)
    \/ /\ arg.sw \in switches
       /\ OneCall(call_powercontrol_req(Board, command_type, arg.sw, utp40), NoOut, 0, NoOut)

DIG_BoardPowerOff    == In("DIG_BoardPowerOff")    /\ Power("BOARD_PS_CONTROL", OnOff, 0)
DIG_FPGAPowerOff     == In("DIG_FPGAPowerOff")     /\ Power("FPGA_PS_CONTROL", AnySwitch, 0)
DIG_UTP40PowerOff    == In("DIG_UTP40PowerOff")    /\ Power("UPT40_PS_CONTROL", OnOff, arg.utp40)
DIG_ASICPowerOff     == In("DIG_ASICPowerOff")     /\ Power("ASIC_PS_CONTROL", OnOff, 0)
DIG_FPGA200TPowerOff == In("DIG_FPGA200TPowerOff") /\ Power("FPGA200T_CONTROL", AnySwitch, 0)
DIG_FPGAKU060PowerOff == In("DIG_FPGAKU060PowerOff") /\ Power("FPGAKU060_CONTROL", OnOff, 0)
DIG_UTP40_MasterPowerOff ==
    In("DIG_UTP40_MasterPowerOff") /\ Power("UTP40_MASTER_CONTROL", OnOff, 0)

set_4356_frequency ==
    /\ In("set_4356_frequency")
    /\ OneCall(call_set_frequency(Board, "FREQUENCY_4356_CONTROL", arg.frequency, arg.channel),
               NoOut, 0, NoOut)

-----------------------------------------------------------------------------
(* The API.                                                                *)

Upgrades ==
    \/ usb_ota_start_upgrade \/ usb_ota_cancel_upgrade \/ usb_ota_query_progress
    \/ usb_ota_complete_upgrade \/ cal_read_file \/ cal_file_start_save
    \/ cal_file_query_progress \/ cal_file_complete_save \/ cal_file_start_read

Queries ==
    \/ usb_fetch_real_data \/ usb_free_real_data \/ usb_get_boardids \/ usb_get_asicjunct_temp
    \/ usb_get_pcb_temp \/ usb_get_utp40_temp \/ usb_get_board_temp \/ usb_get_board_vol
    \/ DIG_GetPgbSlot \/ DIG_GetSyncSlot \/ DIG_GetAsicSlot \/ DIG_GetPpsSlot

Exists ==
    \/ DIG_GetDigExist \/ DIG_GetPpsExist \/ DIG_GetAsicExist \/ DIG_GetPgbExist
    \/ DIG_GetSyncExist \/ DIG_GetBoardExist

Texts ==
    \/ DIG_GetSyncID \/ DIG_GetSyncSN \/ DIG_GetSyncHwVersion \/ DIG_GetSyncSoftVersion
    \/ DIG_GetPgbID \/ DIG_GetPgbSN \/ DIG_GetPgbHwVersion \/ DIG_GetPgbSoftVersion
    \/ DIG_GetPpsID \/ DIG_GetPpsSN \/ DIG_GetPpsHwVersion \/ DIG_GetPpsSoftVersion
    \/ DIG_GetAsicID \/ DIG_GetAsicSN \/ DIG_GetAsicHwVersion \/ DIG_GetAsicSoftVersion
    \/ DIG_GetBoardID \/ DIG_GetBoardSN \/ DIG_GetBoardHwVersion \/ DIG_GetBoardSoftVersion
    \/ DIG_GetDigID \/ DIG_GetDigVersion \/ DIG_GetDsaID \/ DIG_GetBoardInfo

Readings ==
    \/ DIG_GetBoardTemp \/ DIG_GetBoardMultiTemp \/ DIG_GetBoardVol \/ DIG_GetBoardMultiVol
    \/ DIG_GetClockChipState \/ DIG_GetPWMFrequency \/ DIG_GetSerdesState
    \/ DIG_GetMutiSerdesState \/ DIG_GetUtpRegister \/ DIG_GetMutiUtpRegister
    \/ DIG_GetUtp102Register \/ DIG_GetMutiUtp102Register

Switches ==
    \/ DIG_BoardPowerOff \/ DIG_FPGAPowerOff \/ DIG_UTP40PowerOff \/ DIG_ASICPowerOff
    \/ DIG_FPGA200TPowerOff \/ DIG_FPGAKU060PowerOff \/ DIG_UTP40_MasterPowerOff
    \/ set_4356_frequency

Next ==
    \/ Enter \/ Upgrades \/ Queries \/ Exists \/ Texts \/ Readings \/ Switches
    \/ Answer \/ Timeout \/ Notified \/ Leave

Spec == Init /\ [][Next]_vars

-----------------------------------------------------------------------------
(* What the API promises.                                                  *)

\* The members that are read as four bytes, and lose the second of them.
FourBytes == {"m_session", "m_ota_type", "m_usb_dst", "m_utp40_id", "m_switch"}

\* What may arrive of a request: its members as they are read back.  The name of a
\* file whose type is no calibration type is left behind.
Carried(pkg) ==
    [x \in DOMAIN pkg |->
        CASE x \in FourBytes -> Misread(pkg[x])
          [] x = "m_calfilename" /\ ~is_ota_caltype(pkg) -> <<>>
          [] OTHER -> pkg[x]]

\* The load is so short that its length is read back as it was written.
Short(p) == p.len < 14 + 256

\* What the device manager reads of the wire is the request that was made, with
\* every member where it belongs (serial_to_bin, unpack_data and parse_from_bin):
\* upgrades, calibration files, real-time data and the lists.  Nothing is read of
\* the others: values, power, frequency and registers are not written.
RequestArrivesIntact ==
    (phase = "sent" /\ Last(asked).m_msg_cmd \notin Unwritten /\ Short(wire)) =>
        parse_from_bin(Delivered(wire)) = Carried(Last(asked))

\* A short answer is handed to the function as the device manager gave it: its
\* value, all items of its list, its error code as that is read back; one that
\* lost bytes on the way is refused (the parse_..._response_body functions).
AnswerArrivesIntact ==
    \A k \in DOMAIN got :
        given[k] # None =>
            LET a == given[k]
                r == got[k]
            IN  /\ r.m_session = Misread(asked[k].m_session)
                /\ Short(serial_to_bin(a)) =>
                      /\ a.cut = 0
                      /\ r.m_err_code = Misread(a.m_err_code)
                      /\ "m_value_dev" \in DOMAIN r => r.m_value_dev = a.items
                      /\ "m_usbdst_ids" \in DOMAIN r => r.m_usbdst_ids = a.items
                      /\ "m_junctions" \in DOMAIN r => r.m_junctions = a.items
                      /\ "m_rw_data" \in DOMAIN r =>
                            DOMAIN r.m_rw_data = {a.items[i].tid : i \in DOMAIN a.items}

\* A request made for a board is for that board: the low byte of its address is the
\* type the caller named, and above it stands the index, as far as an index fits
\* there.  Of a request that is written, the device manager reads that type.  The
\* address of a DIG board is its index.
BoardAsked ==
    (phase = "sent" /\ {"type", "index"} \subseteq DOMAIN arg /\ ~IsDig /\ arg.index \in 0 .. 255) =>
        /\ TypeOf(Last(asked).m_usb_dst) = arg.type
        /\ Slot(Last(asked).m_usb_dst) = arg.index
        /\ (Last(asked).m_msg_cmd \notin Unwritten /\ Short(wire)) =>
               TypeOf(parse_from_bin(Delivered(wire)).m_usb_dst) = arg.type

\* A call that reports success had an answer to each of its requests, and none
\* was a negative error code.  The functions that make do with less are named.
BestEffort == {"DIG_GetAsicSlot", "DIG_GetPpsSlot", "DIG_GetBoardInfo"}

SuccessMeansAnswered ==
    (phase = "done" /\ ret >= 0 /\ arg.fn \notin BestEffort) =>
        \A k \in DOMAIN got : got[k].waited /\ got[k].m_err_code >= 0

\* What the functions of this module take a value to be, by its type and the type of
\* the board; the device manager, which is not in the repository, is to send it so.
\* Nothing is assumed of how it numbers the readings.
IsReadings(v) == \A k \in DOMAIN v : Bad(v[k]) \/ v[k] = [id |-> v[k].id, val |-> v[k].val]
IsCount(v)    == v # <<>> => DOMAIN v[1] = {"num"}
IsChips(v)    == \A k \in DOMAIN v : Bad(v[k]) \/ DOMAIN v[k] = {"chip", "regs"}

ASSUME SendsAssumption ==
    \A v \in Values, b \in 0 .. 255 :
        /\ Sends("VALUE_TEMP", b, v) \/ Sends("VALUE_SERDES_STATUS", b, v) => IsReadings(v)
        /\ Sends("VALUE_VOL", b, v) => IF b = FT_DIG THEN IsReadings(v) ELSE IsCount(v)
        /\ Sends("VALUE_PWM_FREQUENCY", b, v) => IsCount(v)
        /\ Sends("VALUE_UTP40_REGISTER", b, v) \/ Sends("VALUE_UTP102_REGISTER", b, v) => IsChips(v)

\* The readings in an answer, in the order they were sent in.
InAnswer(v) == IF v # <<>> /\ DOMAIN v[1] = {"num"} THEN Numbered(v) ELSE v
Measured(v) == {InAnswer(v)[k] : k \in DOMAIN InAnswer(v)}

\* The number of a reading, or of a chip.
NumberOf(i) == IF arg.fn \in OfChips THEN i.chip ELSE i.id

\* The places of the readings that a call for an interval asks for.
Inside(items) == {k \in DOMAIN items : ~Bad(items[k]) /\ NumberOf(items[k]) \in arg.lo .. arg.hi}

\* The functions that report one reading, and those that fill an array.
OfOne  == {"DIG_GetBoardTemp", "DIG_GetBoardVol"}
OfAll  == {"DIG_GetClockChipState", "DIG_GetPWMFrequency", "DIG_GetSerdesState"}
OfUtp  == {"DIG_GetUtpRegister", "DIG_GetUtp102Register"}
Arrays == OfIntervals \cup OfAll \cup OfUtp

Reported == phase = "done" /\ ret >= 0 /\ got # <<>>

\* Every reading that is reported is one the board sent, under the number it has
\* there, however the board encoded it.
ReportsMeasured ==
    Reported =>
        /\ arg.fn \in OfOne => [id |-> arg.n, val |-> out.reading] \in Measured(Value)
        /\ arg.fn \in Arrays \ {"DIG_GetClockChipState"} =>
              \A k \in DOMAIN out.arry : out.arry[k] \in Measured(Value)

\* A call for an interval reports every reading and every chip in it, each once and
\* in their order: none is lost behind a malformed piece or at the ends of the interval.
IntervalComplete ==
    (Reported /\ arg.fn \in OfIntervals) =>
        LET items == InAnswer(Value)
        IN  /\ out.sz = Len(out.arry) /\ out.sz = Cardinality(Inside(items))
            /\ \E at \in [1 .. out.sz -> Inside(items)] :
                  /\ \A j, k \in 1 .. out.sz : j < k => at[j] < at[k]
                  /\ \A k \in 1 .. out.sz : out.arry[k] = items[at[k]]

\* The board gave no number of the interval to two readings.
NumberedOnce(items) ==
    \A j, k \in Inside(items) : j # k => NumberOf(items[j]) # NumberOf(items[k])

Room ==
    CASE arg.fn \in {"DIG_GetBoardMultiTemp", "DIG_GetBoardMultiVol"} -> MAX_MULTI_SIZE
      [] arg.fn = "DIG_GetClockChipState" -> MAX_9528_CHIP_SIZE
      [] arg.fn = "DIG_GetPWMFrequency" -> MAX_PWM_CHIP_SIZE
      [] arg.fn \in {"DIG_GetSerdesState", "DIG_GetMutiSerdesState"} -> MAX_SERDES_SIZE
      [] arg.fn \in OfChips -> arg.len
      [] arg.fn \in OfUtp -> 1

\* No function writes behind the end of the array of its caller; the searches of an
\* interval, which do not look at its size, if no number comes twice.
FitsArray ==
    (phase = "done" /\ arg.fn \in Arrays /\ "arry" \in DOMAIN out) =>
        \/ Len(out.arry) <= Room
        \/ Reported /\ arg.fn \in OfIntervals /\ ~NumberedOnce(InAnswer(Value))

\* What is left of a value whose length is read back.
Heard(a) == SubSeq(a.items, 1, Misread(4 + Len(a.items)) - 4)

\* The text reported for a board came from that board, in answer to the request
\* for that text, with no error that can be read, however the requests before it
\* ended; it is as much of it as the length that was read.
OwnBoardOnly ==
    (phase = "done" /\ ret >= 0 /\ arg.fn = "DIG_GetBoardInfo") =>
        \A i \in DOMAIN out.info, j \in 1 .. 3 :
            "text" \in DOMAIN out.info[i].text[j] =>
                \E k \in DOMAIN asked :
                    /\ asked[k].m_usb_dst = out.info[i].id
                    /\ asked[k].m_value_type = BasicInfo[j]
                    /\ Misread(given[k].m_err_code) = 0
                    /\ Heard(given[k]) = out.info[i].text[j].text

=============================================================================
