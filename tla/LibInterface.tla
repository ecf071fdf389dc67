---------------------------- MODULE LibInterface ----------------------------
(***************************************************************************)
(* The functions of the C API, libusb/lib_interface.cpp, one action each:  *)
(* what it asks, and what it returns for every answer.  usb_init and       *)
(* usb_uninit are MgrNetwork's.                                            *)
(***************************************************************************)
EXTENDS LibCall

CONSTANTS
    MAX_MULTI_SIZE,     \* readings in struct multiple_temp and multiple_volatage
    MAX_UTP_CHIPS,      \* chips of one DIG_GetMuti... call (20)
    MAX_IDS,            \* ids in struct boardids (256)
    local_ip            \* the address of this board

ASSUME LibAssumption ==
    \A n \in {MAX_MULTI_SIZE, MAX_UTP_CHIPS, MAX_IDS} : n \in Nat \ {0}

USB_ERR_PARAM   == 0 - 1001
USB_ERR_RETURN  == 0 - 1002
USB_ERR_NETWORK == 0 - 1050

\* enum board_type.
CP_SYNC == 17
CP_PGB  == 18
CP_DPS  == 19
CP_PEM  == 20
CP_RCA  == 21
CP_DIG  == 27
ASIC    == 32
FT_SYNC == 33
FT_PGB  == 34
FT_PPS  == 35
FT_DIG  == 43
TH_MONITOR == 64
MF_MONITOR == 79

-----------------------------------------------------------------------------
(* The address of a board is its slot and, in the low byte, its type.      *)

\* The bytes the other way round (a plausible mistake).
DstSwapped(type, index) == type * 256 + (index % 256)

\* In two's complement: % 256 is & 0xFF.
Dst(type, index) == (index % 256) * 256 + type

Slot(addr) == (addr \div 256) % 256

\* The types of board that a file of an ota_type is for.
BoardsFor(ota_type) ==
    CASE ota_type \in (0 .. 2) \cup (70 .. 75) -> {FT_PGB}
      [] ota_type \in (3 .. 5) \cup (80 .. 85) -> {FT_PPS}
      [] ota_type \in 6 .. 7 -> {FT_SYNC}
      [] ota_type \in (8 .. 10) \cup (31 .. 33) \cup (100 .. 101) -> {ASIC}
      [] ota_type = 11 -> 0 .. 255
      [] ota_type \in 12 .. 14 -> {CP_PGB}
      [] ota_type \in (15 .. 17) \cup (60 .. 65) -> {CP_DPS}
      [] ota_type \in 18 .. 19 -> {CP_SYNC}
      [] ota_type \in (20 .. 22) \cup (29 .. 30) \cup (40 .. 45) \cup (50 .. 53) \cup (90 .. 91) -> {CP_PEM}
      [] ota_type \in {23, 25} -> {TH_MONITOR}
      [] ota_type \in {24, 26} -> {MF_MONITOR}
      [] ota_type = 27 -> {CP_RCA}
      [] ota_type = 28 -> {CP_DIG}
      [] OTHER -> {}

judge_type_serialid(ota_type, addr) == TypeOf(addr) \in BoardsFor(ota_type)

-----------------------------------------------------------------------------
(* Upgrades and calibration files.                                         *)

OtaCode(errcode) == IF errcode = 0 - 1 THEN USB_ERR_RETURN ELSE errcode

\* codes: what may be returned for the error code of an answer.
OtaCall(ota_type, addr, pkg, codes, output) ==
    LET right == judge_type_serialid(ota_type, addr)
    IN  \/ ~right /\ Return(USB_ERR_PARAM, NoOut)
        \/ right /\ got = <<>> /\ AskFor(pkg)
        \/ right /\ got # <<>> /\ ~got[1].waited /\ Return(USB_ERR_NETWORK, NoOut)
        \/ right /\ got # <<>> /\ got[1].waited /\ \E c \in codes : Return(c, output)

Code == {OtaCode(got[1].m_err_code)}

usb_ota_start_upgrade ==
    /\ In("usb_ota_start_upgrade")
    /\ OtaCall(arg.ota_type, arg.addr,
               call_ota_start_upgrade(arg.ota_type, arg.version, arg.addr, <<>>), Code, NoOut)

usb_ota_cancel_upgrade ==
    /\ In("usb_ota_cancel_upgrade")
    /\ OtaCall(arg.ota_type, arg.addr, call_ota_cancel_upgrade(arg.ota_type, arg.addr), Code, NoOut)

\* What handle_query_response made of the lengths: done of total, or 0.
Progress == LET r == got[1]
            IN  IF r.m_total_len = 0 THEN [done |-> 0, of |-> 1]
                ELSE [done |-> r.m_upgrade_progress, of |-> r.m_total_len]

usb_ota_query_progress ==
    /\ In("usb_ota_query_progress")
    /\ OtaCall(arg.ota_type, arg.addr, call_ota_query_upgrade(arg.ota_type, arg.addr), Code, Progress)

usb_ota_complete_upgrade ==
    /\ In("usb_ota_complete_upgrade")
    /\ OtaCall(arg.ota_type, arg.addr, call_ota_complete_upgrade(arg.ota_type, arg.addr), Code, NoOut)

cal_read_file ==
    /\ In("cal_read_file")
    /\ OtaCall(arg.ota_type, arg.addr,
               call_cal_read_file(arg.ota_type, arg.version, arg.addr, <<>>), Code, NoOut)

\* The same for a board given by type and id.
CalAddr == Dst(arg.type, arg.index)

cal_file_start_save ==
    /\ In("cal_file_start_save")
    /\ OtaCall(arg.ota_type, CalAddr,
               call_ota_start_upgrade(arg.ota_type, 1, CalAddr, arg.file), Code, NoOut)

cal_file_query_progress ==
    /\ In("cal_file_query_progress")
    /\ OtaCall(arg.ota_type, CalAddr, call_ota_query_upgrade(arg.ota_type, CalAddr), Code, Progress)

\* Where there is no error the function ends without a return.
cal_file_complete_save ==
    /\ In("cal_file_complete_save")
    /\ OtaCall(arg.ota_type, CalAddr, call_ota_complete_upgrade(arg.ota_type, CalAddr),
               IF got[1].m_err_code < 0 THEN Code ELSE {0, USB_ERR_RETURN}, NoOut)

cal_file_start_read ==
    /\ In("cal_file_start_read")
    /\ OtaCall(arg.ota_type, CalAddr,
               call_cal_read_file(arg.ota_type, 1, CalAddr, arg.file), Code, NoOut)

-----------------------------------------------------------------------------
(* Real-time data and whole-system queries.                                *)

\* The members of real_data that are allocated, and those made of one byte.
Pointers == {"RWA_TEMP", "RWA_VOLTAGE", "RWA_ELE_CURRENT", "RWA_TEMP_SET", "RWA_TEMP_ALARM",
             "RWA_INPUT_STATUS", "RWA_OUTPUT_STATUS"}
OneByte  == {"RWA_POWER_STATUS", "RWA_POS_STATUS", "RWA_BOARD_TYPE", "RWA_SLOT"}
Copied   == {"RWA_BOARD_SN", "RWA_MANU_INFO", "RWA_HW_VER", "RWA_SW_VER", "RWA_REPORT_CYCLE",
             "RWA_COMM_STATUS", "RWA_TOTAL_RUNTIME", "RWA_AD9528_LOCKSTATUS",
             "RWA_AD9545_LOCKSTATUS", "RWA_PWM_CHECK", "RWA_SERDES_STATUS"}

set_real_data(map) ==
    [t \in DOMAIN map \cap (Pointers \cup Copied) |-> map[t].value]
        ++ [t \in DOMAIN map \cap OneByte |->
                <<IF map[t].value = <<>> THEN 0 ELSE Head(map[t].value)>>]

usb_fetch_real_data ==
    /\ In("usb_fetch_real_data")
    /\ OneCall(call_fetch_real_data(arg.addr), NoOut, 0,
           IF DOMAIN got[1].m_rw_data = {} THEN NoOut
           ELSE [fields |-> set_real_data(got[1].m_rw_data),
                 heap |-> DOMAIN got[1].m_rw_data \cap Pointers])

\* The caller frees what a fetch gave it; the struct itself is not modelled.
usb_free_real_data ==
    /\ phase = "done" /\ arg.fn = "usb_fetch_real_data"
    /\ "heap" \in DOMAIN out
    /\ out' = [freed |-> TRUE, left |-> out.heap \ Pointers]
    /\ UNCHANGED <<phase, arg, asked, wire, given, got, ret>>

Sorted(S) ==
    CHOOSE s \in [1 .. Cardinality(S) -> S] : \A j, k \in DOMAIN s : j < k => s[j] < s[k]

\* The ids that fit are copied, the number of all of them is returned.
usb_get_boardids ==
    /\ In("usb_get_boardids")
    /\ LET ids == {got[1].m_usbdst_ids[k].usbdstid : k \in DOMAIN got[1].m_usbdst_ids}
       IN  OneCall(call_usb_serials_ids, NoOut, Cardinality(ids),
               [ids |-> Clamp(Sorted(ids), MAX_IDS)])

usb_get_asicjunct_temp ==
    /\ In("usb_get_asicjunct_temp")
    /\ LET juncts == got[1].m_junctions
       IN  OneCall(call_asic_junctions_temp, NoOut, Len(juncts), [juncts |-> Clamp(juncts, arg.size)])

-----------------------------------------------------------------------------
(* The value as it came.                                                   *)

PassedOn(type) == OneCall(call_get_value_from_dev(arg.addr, type), NoOut, 0, [text |-> Value])

usb_get_pcb_temp   == In("usb_get_pcb_temp")   /\ PassedOn("VALUE_PCB_TMP")
usb_get_utp40_temp == In("usb_get_utp40_temp") /\ PassedOn("VALUE_UTP40_TMP")
usb_get_board_temp == In("usb_get_board_temp") /\ PassedOn("VALUE_TEMP")
usb_get_board_vol  == In("usb_get_board_vol")  /\ PassedOn("VALUE_VOL")

-----------------------------------------------------------------------------
(* Slots: all boards are asked for, and searched.                          *)

AskForBoards == got = <<>> /\ AskFor(call_get_value_from_dev(255, "VALUE_BOARD_ID"))

\* get_all_board: no boards if the call fails.
get_all_board ==
    IF Fails(got[1]) \/ got[1].m_value_dev = <<>> THEN <<>>
    ELSE get_all_data_from_result(got[1].m_value_dev)

\* The boards of some types, in the order of their ids.
BoardsOf(types) == Sorted({b \in DOMAIN get_all_board : TypeOf(b) \in types})
LocalBoards(type) ==
    Sorted({b \in DOMAIN get_all_board : TypeOf(b) = type /\ get_all_board[b] = local_ip})

FirstSlot(boards) ==
    IF boards = <<>> THEN Return(0 - 1, NoOut) ELSE Return(0, [val |-> Slot(boards[1])])

DIG_GetPgbSlot ==
    /\ In("DIG_GetPgbSlot")
    /\ \/ AskForBoards
       \/ got # <<>> /\ FirstSlot(LocalBoards(FT_PGB))

DIG_GetSyncSlot ==
    /\ In("DIG_GetSyncSlot")
    /\ \/ AskForBoards
       \/ got # <<>> /\ FirstSlot(BoardsOf({FT_SYNC, CP_SYNC}))

\* All of them, if there is room.
AllSlots(boards) ==
    IF Len(boards) > arg.size THEN Return(0 - 1, NoOut)
    ELSE Return(0, [slots |-> [k \in DOMAIN boards |-> Slot(boards[k])]])

DIG_GetAsicSlot ==
    /\ In("DIG_GetAsicSlot")
    /\ \/ AskForBoards
       \/ got # <<>> /\ AllSlots(LocalBoards(ASIC))

DIG_GetPpsSlot ==
    /\ In("DIG_GetPpsSlot")
    /\ \/ AskForBoards
       \/ got # <<>> /\ AllSlots(BoardsOf({FT_PPS}))

=============================================================================
