------------------------------- MODULE MCApi -------------------------------
(***************************************************************************)
(* LibApi on small instances: a few arguments of every function, among     *)
(* them those at the limits, and a few values of every type, among them    *)
(* empty, malformed and cut ones.                                          *)
(***************************************************************************)
EXTENDS LibApi

Indexed ==
    {"DIG_GetDigExist", "DIG_GetPpsExist", "DIG_GetAsicExist", "DIG_GetPgbExist"}
DevTexts ==
    {"DIG_GetSyncID", "DIG_GetSyncSN", "DIG_GetSyncHwVersion", "DIG_GetSyncSoftVersion",
     "DIG_GetDigVersion"}
FixedTexts ==
    {"DIG_GetPgbID", "DIG_GetPgbSN", "DIG_GetPgbHwVersion", "DIG_GetPgbSoftVersion",
     "DIG_GetPpsID", "DIG_GetPpsSN", "DIG_GetPpsHwVersion", "DIG_GetPpsSoftVersion",
     "DIG_GetAsicID", "DIG_GetAsicSN", "DIG_GetAsicHwVersion", "DIG_GetAsicSoftVersion",
     "DIG_GetDigID"}
TypedTexts ==
    {"DIG_GetBoardID", "DIG_GetBoardSN", "DIG_GetBoardHwVersion", "DIG_GetBoardSoftVersion"}
Ota ==
    {"usb_ota_start_upgrade", "usb_ota_cancel_upgrade", "usb_ota_query_progress",
     "usb_ota_complete_upgrade", "cal_read_file"}
CalFiles ==
    {"cal_file_start_save", "cal_file_query_progress", "cal_file_complete_save",
     "cal_file_start_read"}
Powers ==
    {"DIG_BoardPowerOff", "DIG_FPGAPowerOff", "DIG_UTP40PowerOff", "DIG_ASICPowerOff",
     "DIG_FPGA200TPowerOff", "DIG_FPGAKU060PowerOff", "DIG_UTP40_MasterPowerOff"}

Text(n) == [k \in 1 .. n |-> [ch |-> "x"]]
Int1(n) == <<[num |-> n]>>
R(id, val) == [id |-> id, val |-> val]
BadItem == [bad |-> TRUE]

Here == 1
There == 2

ApiCalls ==
    [fn : Ota, ota_type : {0, 11, 70, 99}, addr : {Dst(FT_PGB, 1), Dst(CP_RCA, 2)}, version : {7}]
    \cup [fn : CalFiles, ota_type : {0, 11, 70}, type : {FT_PGB, FT_PPS}, index : {1, 258}, file : {<<>>, Text(1), Text(250)}]
    \cup [fn : {"usb_fetch_real_data", "usb_get_pcb_temp", "usb_get_utp40_temp",
                "usb_get_board_temp", "usb_get_board_vol"}, addr : {Dst(FT_PGB, 1)}]
    \cup [fn : {"usb_get_boardids", "DIG_GetPgbSlot", "DIG_GetSyncSlot"}]
    \cup [fn : {"usb_get_asicjunct_temp", "DIG_GetAsicSlot", "DIG_GetPpsSlot"}, size : {1, 2}]
    \cup [fn : Indexed, index : {0 - 1, 2}]
    \cup [fn : {"DIG_GetSyncExist"}, dev : {0, 1, 2}, index : {0 - 1, 2}]
    \cup [fn : DevTexts, dev : {0, 1, 2}, index : {1}, buf_len : {0, 2}]
    \cup [fn : FixedTexts, index : {1}, buf_len : {0, 2}]
    \cup [fn : TypedTexts, type : {FT_PPS, CP_DIG}, index : {3}, buf_len : {2}]
    \cup [fn : {"DIG_GetBoardExist"}, type : {CP_PEM, FT_DIG}, index : {1, 257}]
    \cup [fn : {"DIG_GetDsaID"}, index : {1, 4, 7, 10}]
    \cup [fn : {"DIG_GetBoardInfo"}, type : {FT_PPS, ASIC}, size : {1, 2}]
    \cup [fn : {"DIG_GetBoardTemp", "DIG_GetBoardVol"}, type : {CP_DIG, FT_DIG}, index : {1}, n : 1 .. 3]
    \cup [fn : {"DIG_GetBoardMultiTemp", "DIG_GetBoardMultiVol", "DIG_GetMutiSerdesState"},
          type : {CP_SYNC, FT_DIG}, index : {1}, lo : 1 .. 2, hi : 1 .. 3]
    \cup [fn : {"DIG_GetClockChipState"}, type : {FT_DIG}, index : {1}, clock : {9528, 9545, 0}]
    \cup [fn : {"DIG_GetPWMFrequency", "DIG_GetSerdesState"}, type : {CP_PEM}, index : {1, 17}]
    \cup [fn : {"DIG_GetUtpRegister", "DIG_GetUtp102Register"}, type : {ASIC}, index : {1}, n : {1}]
    \cup [fn : {"DIG_GetMutiUtpRegister", "DIG_GetMutiUtp102Register"}, type : {ASIC}, index : {1},
          lo : {1}, hi : 0 .. 3, len : 1 .. 3]
    \cup [fn : Powers, type : {FT_PPS}, index : {2}, sw : {0, 1, 2, 6, 7}, utp40 : {0, 5}]
    \cup [fn : {"set_4356_frequency"}, type : {FT_SYNC}, index : {1}, frequency : {4}, channel : {1}]

\* Of a DIG and of a CP board the temperatures are binaries, and the text boards
\* send pieces, some without a number; a number may come twice.
TextReadings == {<<>>, <<R(1, 25), R(2, NoVal), R(3, 31)>>, <<R(1, 25), BadItem, R(3, 31)>>,
                 <<R(1, 25), R(2, 25), R(1, 26)>>}
Pairs        == {<<>>, <<R(1, 25), R(3, 31)>>, <<R(1, 25), BadItem>>, <<R(1, 25), R(2, 25), R(1, 25)>>}
Counts       == {<<>>, <<[num |-> 3], [val |-> 12], [val |-> 5], [val |-> 3]>>, <<[num |-> 2], [val |-> 12]>>}
Locks(n)     == <<[num |-> n]>> \o [k \in 1 .. n |-> [ch |-> 1, lock |-> k % 2, n |-> 1]]
Chip(c, n)   == [chip |-> c, regs |-> n]

Boards ==
    {<<>>, <<R(Dst(FT_PGB, 1), Here), R(Dst(FT_SYNC, 2), There), R(Dst(ASIC, 3), There)>>,
     <<R(Dst(FT_PPS, 2), There), R(Dst(ASIC, 4), Here), BadItem, R(Dst(FT_PGB, 1), Here)>>,
     <<R(Dst(FT_PPS, 5), There), R(Dst(FT_PPS, 4), Here), R(Dst(ASIC, 3), Here), R(Dst(ASIC, 4), Here)>>}

Field(t, n) == [tid |-> t, length |-> n, value |-> [k \in 1 .. n |-> k]]

Sent(type, board) ==
    CASE type = "MC_DATA" ->
           {<<>>, <<Field("RWA_TEMP", 2), Field("RWA_SLOT", 1), Field("RWA_INPUT_STATUS", 1)>>,
            <<Field("RWA_VOLTAGE", 1), Field("RWA_BOARD_SN", 0), Field("RWA_VOLTAGE", 2)>>,
            <<Field("RWA_TEMP", 244)>>, <<Field("RWA_SLOT", 4), Field("RWA_TEMP", 252)>>}
      [] type = "MC_USBDSTSerials_ID" ->
           {<<>>, [k \in 1 .. 3 |-> [usbdstid |-> 10 - k]], <<[usbdstid |-> 5], [usbdstid |-> 5]>>}
      [] type = "MC_ASIC_JUNCTION_TEMP" ->
           {<<>>, [k \in 1 .. 2 |-> [m_asicchip_id |-> k, m_temp |-> 40 + k]]}
      [] type = "VALUE_BOARD_ID" -> Boards
      [] type = "VALUE_TEMP" -> IF board \in {CP_DIG, CP_SYNC} THEN Pairs ELSE TextReadings
      [] type = "VALUE_VOL" -> IF board = FT_DIG THEN TextReadings ELSE Counts
      [] type = "VALUE_SERDES_STATUS" -> Pairs \cup {[k \in 1 .. 3 |-> R(k, k % 2)]}
      [] type = "VALUE_PWM_FREQUENCY" -> Counts
      [] type = "VALUE_9528_STATUS" -> {<<>>} \cup {Locks(n) : n \in 0 .. 3}
      [] type = "VALUE_9545_STATUS" ->
           {<<>>} \cup {<<[ch |-> c, lock |-> 1, n |-> 1]>> : c \in 0 .. 2}
      [] type \in {"VALUE_UTP40_REGISTER", "VALUE_UTP102_REGISTER"} ->
           {<<>>, <<Chip(1, UTP_REGISTER_NUM), Chip(2, UTP_REGISTER_NUM)>>, <<Chip(1, 1)>>,
            <<Chip(3, UTP_REGISTER_NUM)>>, <<Chip(1, UTP_REGISTER_NUM), Chip(1, UTP_REGISTER_NUM)>>, <<Chip(1, UTP_REGISTER_NUM), BadItem>>}
      [] type = "VALUE_ASIC_ID" -> {<<>>, Int1(291), Int1(1110)}
      [] type \in {"VALUE_DIG_EXIST", "VALUE_PPS_EXIST", "VALUE_ASIC_EXIST", "VALUE_PGB_EXIST",
                   "VALUE_SYNC_EXIST", "VALUE_BOARD_EXIST"} -> {<<>>, Int1(0), Int1(1)}
      [] type = "VALUE_GET_SN" -> {<<>>, Text(1)}
      [] type \in {"VALUE_GET_HW_VER", "VALUE_GET_SOFT_VER"} -> {Text(1)}
      [] OTHER -> {<<>>, Text(1), Text(2), Text(300)}

\* Every type that is told from the others, and a text; every encoding.
ApiValues ==
    UNION {Sent(type, board) :
        type \in {"MC_DATA", "MC_USBDSTSerials_ID", "MC_ASIC_JUNCTION_TEMP", "VALUE_BOARD_ID",
                  "VALUE_TEMP", "VALUE_VOL", "VALUE_SERDES_STATUS", "VALUE_PWM_FREQUENCY",
                  "VALUE_9528_STATUS", "VALUE_9545_STATUS", "VALUE_UTP40_REGISTER",
                  "VALUE_ASIC_ID", "VALUE_DIG_EXIST", "VALUE_GET_ID"},
        board \in {CP_DIG, FT_DIG, FT_PPS}}

ApiSends(type, board, v) == v \in Sent(type, board)

ApiErrCodes == {0 - 1, 0, 256}
=============================================================================
