----------------------------- MODULE LibBoards -----------------------------
(***************************************************************************)
(* The functions of the C API about one board: is it there, and its texts  *)
(* (libusb/lib_interface.cpp, lines 2115 to 3748).                         *)
(***************************************************************************)
EXTENDS LibInterface

GetValue(dst, type) == call_get_value_from_dev(dst, type)

\* The board named by a type and an index.
Board == Dst(arg.type, arg.index)

-----------------------------------------------------------------------------
(* Is a board there.                                                       *)

IndexedExist(type, value) ==
    \/ arg.index < 0 /\ Return(0 - 1, NoOut)
    \/ arg.index >= 0 /\ ExistOut(Dst(type, arg.index), value)

DIG_GetDigExist  == In("DIG_GetDigExist")  /\ ExistOut(arg.index, "VALUE_DIG_EXIST")
DIG_GetPpsExist  == In("DIG_GetPpsExist")  /\ IndexedExist(FT_PPS, "VALUE_PPS_EXIST")
DIG_GetAsicExist == In("DIG_GetAsicExist") /\ IndexedExist(ASIC, "VALUE_ASIC_EXIST")

\* This function ends without a return where there is no error.
DIG_GetPgbExist ==
    /\ In("DIG_GetPgbExist")
    /\ \/ arg.index < 0 /\ Return(0 - 1, NoOut)
       \/ /\ arg.index >= 0
          /\ \E code \in {0, 0 - 1} :
                OneCall(GetValue(Dst(FT_PGB, arg.index), "VALUE_PGB_EXIST"), NoOut, code, Integer)

\* dev chooses between the CP and the FT board.
DIG_GetSyncExist ==
    /\ In("DIG_GetSyncExist")
    /\ \/ (arg.index < 0 \/ arg.dev \notin {0, 1}) /\ Return(0 - 1, NoOut)
       \/ /\ arg.index >= 0 /\ arg.dev \in {0, 1}
          /\ ExistOut(Dst(IF arg.dev = 0 THEN CP_SYNC ELSE FT_SYNC, arg.index), "VALUE_SYNC_EXIST")

\* The index of a DIG board is its address.
IsDig == arg.type \in {FT_DIG, CP_DIG}

DIG_GetBoardExist ==
    /\ In("DIG_GetBoardExist")
    /\ IF IsDig THEN ExistOut(arg.index, "VALUE_DIG_EXIST")
       ELSE ExistOut(Board, "VALUE_BOARD_EXIST")

-----------------------------------------------------------------------------
(* Texts: identity, serial number, versions.                               *)

\* Of one of two boards.
DevText(cp, ft, value) ==
    \/ arg.dev \notin {0, 1} /\ Return(0 - 1, NoOut)
    \/ arg.dev \in {0, 1} /\ TextOut(Dst(IF arg.dev = 0 THEN cp ELSE ft, arg.index), value)

DIG_GetSyncID          == In("DIG_GetSyncID") /\ DevText(CP_SYNC, FT_SYNC, "VALUE_SYNC_ID")
DIG_GetSyncSN          == In("DIG_GetSyncSN") /\ DevText(CP_SYNC, FT_SYNC, "VALUE_SYNC_SN")
DIG_GetSyncHwVersion   == In("DIG_GetSyncHwVersion") /\ DevText(CP_SYNC, FT_SYNC, "VALUE_SYNC_HW_VER")
DIG_GetSyncSoftVersion == In("DIG_GetSyncSoftVersion") /\ DevText(CP_SYNC, FT_SYNC, "VALUE_SYNC_SOFT_VER")
DIG_GetDigVersion      == In("DIG_GetDigVersion") /\ DevText(CP_DIG, FT_DIG, "VALUE_DIG_LOGIC_VER")

\* Of a board whose type the function names.
DIG_GetPgbID           == In("DIG_GetPgbID") /\ TextOut(Dst(FT_PGB, arg.index), "VALUE_PGB_ID")
DIG_GetPgbSN           == In("DIG_GetPgbSN") /\ TextOut(Dst(FT_PGB, arg.index), "VALUE_PGB_SN")
DIG_GetPgbHwVersion    == In("DIG_GetPgbHwVersion") /\ TextOut(Dst(FT_PGB, arg.index), "VALUE_PGB_HW_VER")
DIG_GetPgbSoftVersion  == In("DIG_GetPgbSoftVersion") /\ TextOut(Dst(FT_PGB, arg.index), "VALUE_PGB_SOFT_VER")
DIG_GetPpsID           == In("DIG_GetPpsID") /\ TextOut(Dst(FT_PPS, arg.index), "VALUE_PPS_ID")
DIG_GetPpsSN           == In("DIG_GetPpsSN") /\ TextOut(Dst(FT_PPS, arg.index), "VALUE_PPS_SN")
DIG_GetPpsHwVersion    == In("DIG_GetPpsHwVersion") /\ TextOut(Dst(FT_PPS, arg.index), "VALUE_PPS_HW_VER")
DIG_GetPpsSoftVersion  == In("DIG_GetPpsSoftVersion") /\ TextOut(Dst(FT_PPS, arg.index), "VALUE_PPS_SOFT_VER")
DIG_GetAsicID          == In("DIG_GetAsicID") /\ TextOut(Dst(ASIC, arg.index), "VALUE_ASIC_ID")
DIG_GetAsicSN          == In("DIG_GetAsicSN") /\ TextOut(Dst(ASIC, arg.index), "VALUE_ASIC_SN")
DIG_GetAsicHwVersion   == In("DIG_GetAsicHwVersion") /\ TextOut(Dst(ASIC, arg.index), "VALUE_ASIC_HW_VER")
DIG_GetAsicSoftVersion == In("DIG_GetAsicSoftVersion") /\ TextOut(Dst(ASIC, arg.index), "VALUE_ASIC_SOFT_VER")

\* BOARDTYPE_DIG is not in the enum; it is taken for the FT board.
DIG_GetDigID == In("DIG_GetDigID") /\ TextOut(Dst(FT_DIG, arg.index), "VALUE_DIG_ID")

\* Of a board whose type the caller names.
DIG_GetBoardID ==
    /\ In("DIG_GetBoardID")
    /\ IF IsDig THEN TextOut(arg.index, "VALUE_DIG_ID") ELSE TextOut(Board, "VALUE_GET_ID")

DIG_GetBoardSN          == In("DIG_GetBoardSN") /\ TextOut(Board, "VALUE_GET_SN")
DIG_GetBoardHwVersion   == In("DIG_GetBoardHwVersion") /\ TextOut(Board, "VALUE_GET_HW_VER")
DIG_GetBoardSoftVersion == In("DIG_GetBoardSoftVersion") /\ TextOut(Board, "VALUE_GET_SOFT_VER")

-----------------------------------------------------------------------------
(* The identity of a DSA is put together from digits of four ASICs.        *)

Digit(k, n) == (got[k].m_value_dev[1].num \div 16 ^ n) % 16

dsa_id(slot) ==
    CASE slot = 0 -> 4096 * Digit(1, 0) + 256 * Digit(2, 2) + 16 * Digit(3, 0) + Digit(4, 2)
      [] slot = 1 -> 65536 * Digit(1, 1) + 4096 * Digit(2, 1) + 16 * Digit(3, 1) + Digit(4, 1)
      [] slot = 2 -> 4096 * Digit(1, 2) + 256 * Digit(2, 0) + 16 * Digit(3, 2) + Digit(4, 0)
      [] OTHER    -> 0

\* Each text is converted as it comes: stoi throws at an empty one.  (The loop of
\* DIG_GetDsaID is closed too early in the source, which does not compile; what
\* uses i behind it is taken to belong inside.)
DIG_GetDsaID ==
    /\ In("DIG_GetDsaID")
    /\ LET good == got # <<>> => ~Fails(Last(got)) /\ Value # <<>>
       IN  \/ ~good /\ Fails(Last(got)) /\ Return(0 - 1, NoOut)
           \/ ~good /\ ~Fails(Last(got)) /\ Throw
           \/ good /\ Len(got) < 4 /\ AskFor(GetValue(Dst(ASIC, arg.index + Len(got)), "VALUE_ASIC_ID"))
           \/ good /\ Len(got) = 4 /\ Return(0, [num |-> dsa_id((arg.index - 1) \div 3)])

-----------------------------------------------------------------------------
(* All boards of a type, three requests for each.  A text that did not     *)
(* come is left as the caller had it; the call succeeds.                   *)

BasicInfo == <<"VALUE_GET_SN", "VALUE_GET_HW_VER", "VALUE_GET_SOFT_VER">>

\* The answer is not looked at before its text is taken (a plausible mistake).
UncheckedText(i, j) ==
    LET answer == got[3 * i + j - 2]
    IN  IF answer.waited THEN [text |-> answer.m_value_dev] ELSE NoOut

\* What is reported as the j-th text of the i-th board.
InfoText(i, j) ==
    LET answer == got[3 * i + j - 2]
    IN  IF answer.waited /\ answer.m_err_code = 0 /\ answer.m_value_dev # <<>>
        THEN [text |-> answer.m_value_dev] ELSE NoOut

BoardInfo(boards) ==
    [i \in 1 .. Len(boards) |-> [id |-> boards[i], slot |-> Slot(boards[i]),
                                  text |-> [j \in 1 .. 3 |-> InfoText(i, j)]]]

DIG_GetBoardInfo ==
    /\ In("DIG_GetBoardInfo")
    /\ LET boards == BoardsOf({arg.type})
           n == Len(boards)
           k == Len(got) - 1
       IN  \/ AskForBoards
           \/ got # <<>> /\ n = 0 /\ Return(0 - 1, NoOut)
           \/ got # <<>> /\ n > arg.size /\ Return(0 - 2, NoOut)
           \/ /\ got # <<>> /\ n \in 1 .. arg.size
              /\ k < 3 * n
              /\ AskFor(GetValue(boards[(k \div 3) + 1], BasicInfo[(k % 3) + 1]))
           \/ /\ got # <<>> /\ n \in 1 .. arg.size
              /\ k = 3 * n
              /\ Return(0, [info |-> BoardInfo(boards)])

=============================================================================
