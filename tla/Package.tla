------------------------------ MODULE Package ------------------------------
(***************************************************************************)
(* The binary form of a package: what xusbadapter_package writes into a    *)
(* buffer and reads out of one (libusb/usbadapter_package.cpp).  A buffer  *)
(* is its length in bytes, the integers in it under their <<offset, width>>*)
(* and the part of variable size behind them, a sequence of items: nothing *)
(* is read out of a buffer but what was written there with that width.     *)
(* The device manager reads requests and writes answers in the same form.  *)
(*                                                                         *)
(* A package is a record with the members its command uses.                *)
(***************************************************************************)
EXTENDS XBasic, Sequences, FiniteSets

\* Two records or buffers in one; what is in both is taken of f.
f ++ g == [x \in DOMAIN f \cup DOMAIN g |-> IF x \in DOMAIN f THEN f[x] ELSE g[x]]

\* write_littleendian, writelong_littleendian, writeFloat_littleendian.
Put(offset, width, value) == [k \in {<<offset, width>>} |-> value]

\* What is read where nothing of that width was written.
Torn == 0 - 1000000

\* What parse_from_bin gives for a buffer it does not accept.
Refused == [refused |-> TRUE]

\* The empty string.
NoBin == [len |-> 0, at |-> <<>>, tail |-> <<>>]

\* What stands there: readlong_littleendian, readFloat_littleendian, and
\* read_littleendian of one byte, of two, or of one of the enums, which are small.
At(p, offset, width) ==
    IF <<offset, width>> \in DOMAIN p.at /\ offset + width <= p.len
    THEN p.at[<<offset, width>>] ELSE Torn

\* read_littleendian of any other four bytes.
Misread(v) == read_littleendian(v, 256)
Int4(p, offset) == Misread(At(p, offset, 4))

\* Bytes in an item of a list: real-time data, junction temperatures, ids.
ItemSize(item) ==
    IF "length" \in DOMAIN item THEN 4 + item.length
    ELSE IF "m_temp" \in DOMAIN item THEN 6 ELSE 2

\* Where the k-th of them ends.
EndOf(items, k) ==
    LET End[j \in 0 .. Len(items)] == IF j = 0 THEN 0 ELSE End[j - 1] + ItemSize(items[j])
    IN  End[k]

-----------------------------------------------------------------------------
(* Writing.                                                                *)

\* serial_msg_header: the version is not modelled.
serial_msg_header(s) ==
    Put(0, 2, "FFA5") ++ Put(2, 1, s.m_msg_type) ++ Put(3, 1, s.m_msg_cmd)
        ++ Put(6, 4, s.m_session)

\* A buffer of len bytes with the header, the load length at 10 and more integers.
Written(s, len, load, ints, tail) ==
    [len |-> len + Len(tail), at |-> serial_msg_header(s) ++ Put(10, 4, load) ++ ints,
     tail |-> tail]

serial_heartbeat(s)             == Written(s, 14, 0, <<>>, <<>>)
serial_usbdstids_request(s)     == Written(s, 14, 0, <<>>, <<>>)
serial_junction_temp_request(s) == Written(s, 14, 0, <<>>, <<>>)
serial_data_request(s)          == Written(s, 18, 4, Put(14, 4, s.m_usb_dst), <<>>)

\* The calibration files, the only types whose requests carry a file name.
is_ota_caltype(s) == s.m_ota_type \in 40 .. 101

\* The start of an upgrade.
serial_start_request(s) ==
    LET name == IF is_ota_caltype(s) THEN s.m_calfilename ELSE <<>>
    IN  Written(s, 30, 16 + Len(name), Put(14, 4, s.m_ota_type)
            ++ Put(18, 8, s.m_ota_version) ++ Put(26, 4, s.m_usb_dst), name)

\* The load does not count the name (a plausible mistake).
serial_cal_read_short(s) ==
    LET name == IF is_ota_caltype(s) THEN s.m_calfilename ELSE <<>>
    IN  Written(s, 30, 16, Put(14, 4, s.m_ota_type)
            ++ Put(18, 8, s.m_ota_version) ++ Put(26, 4, s.m_usb_dst), name)

serial_cal_read_request(s) ==
    LET name == IF is_ota_caltype(s) THEN s.m_calfilename ELSE <<>>
    IN  Written(s, 30, 16 + Len(name), Put(14, 4, s.m_ota_type)
            ++ Put(18, 8, s.m_ota_version) ++ Put(26, 4, s.m_usb_dst), name)

\* Query, cancel and complete name the type and the board.
TypeAndBoard(s) == Put(14, 4, s.m_ota_type) ++ Put(18, 4, s.m_usb_dst)

serial_query_request(s)   == Written(s, 22, 8, TypeAndBoard(s), <<>>)
serial_cancel_request(s)  == Written(s, 22, 8, TypeAndBoard(s), <<>>)
serial_complete_notify(s) == Written(s, 22, 8, TypeAndBoard(s), <<>>)

\* The bodies of these are copies of the readers below: they read members out of a
\* buffer they were not given, and write nothing.
serial_get_value_request(s)     == NoBin
serial_power_switch_request(s)  == NoBin
serial_frequency_set_request(s) == NoBin

\* This one is empty, and writes nothing.
serial_get_utp_register_request(s) == NoBin

\* No case of serail_request is for the UTP102 registers.
serail_request(s) ==
    CASE s.m_msg_cmd = "MC_START"              -> serial_start_request(s)
      [] s.m_msg_cmd = "MC_QUERY"              -> serial_query_request(s)
      [] s.m_msg_cmd = "MC_CANCEL"             -> serial_cancel_request(s)
      [] s.m_msg_cmd = "MC_DATA"               -> serial_data_request(s)
      [] s.m_msg_cmd = "MC_HEARTBEAT"          -> serial_heartbeat(s)
      [] s.m_msg_cmd = "MC_CAL_READ"           -> serial_cal_read_request(s)
      [] s.m_msg_cmd = "MC_USBDSTSerials_ID"   -> serial_usbdstids_request(s)
      [] s.m_msg_cmd = "MC_ASIC_JUNCTION_TEMP" -> serial_junction_temp_request(s)
      [] s.m_msg_cmd = "MC_GET_VALUE"          -> serial_get_value_request(s)
      [] s.m_msg_cmd = "MC_COMMAND"            -> serial_power_switch_request(s)
      [] s.m_msg_cmd = "MC_FREQUENCY"          -> serial_frequency_set_request(s)
      [] s.m_msg_cmd = "MC_GET_UTP_REGISTER"   -> serial_get_utp_register_request(s)
      [] OTHER -> NoBin

\* Answers that are an error code.
ErrorOnly(s) == Written(s, 18, 4, Put(14, 4, s.m_err_code), <<>>)

serial_start_response(s)    == ErrorOnly(s)
serial_cancel_response(s)   == ErrorOnly(s)
serial_cal_read_response(s) == ErrorOnly(s)

serial_query_response(s) ==
    Written(s, 26, 12, Put(14, 4, s.m_upgrade_progress) ++ Put(18, 4, s.m_total_len)
        ++ Put(22, 4, s.m_err_code), <<>>)

\* The serialisers of the other answers are empty here, the device manager has
\* its own: s.items are the items of variable size, of which cut bytes are lost.
OtherResponse(s) ==
    LET size == IF s.m_msg_cmd = "MC_GET_VALUE" THEN Len(s.items)
                ELSE EndOf(s.items, Len(s.items)) - s.cut
        head == IF s.m_msg_cmd = "MC_DATA" THEN 22 ELSE 18
        ints == IF s.m_msg_cmd = "MC_DATA"
                THEN Put(14, 4, s.m_usb_dst) ++ Put(18, 4, s.m_err_code)
                ELSE Put(14, 4, s.m_err_code)
    IN  [Written(s, head, head - 14 + size, ints, s.items) EXCEPT !.len = head + size]

serail_response(s) ==
    CASE s.m_msg_cmd = "MC_START"    -> serial_start_response(s)
      [] s.m_msg_cmd = "MC_QUERY"    -> serial_query_response(s)
      [] s.m_msg_cmd = "MC_CANCEL"   -> serial_cancel_response(s)
      [] s.m_msg_cmd = "MC_CAL_READ" -> serial_cal_read_response(s)
      [] s.m_msg_cmd \in {"MC_COMMAND", "MC_FREQUENCY"} -> ErrorOnly(s)
      [] OTHER -> OtherResponse(s)

\* serial_to_bin; the session id is drawn in XSession.
serial_to_bin(s) ==
    CASE s.m_msg_type = "MT_REQUEST" -> serail_request(s)
      [] s.m_msg_type = "MT_RESPOND" -> serail_response(s)
      [] s.m_msg_type = "MT_NOTIFY"  -> serial_complete_notify(s)

-----------------------------------------------------------------------------
(* Reading.                                                                *)

\* parse_msg_header.
parse_msg_header(p) == p.len >= 10 /\ At(p, 0, 2) = "FFA5"

Header(p) == [m_msg_type |-> At(p, 2, 1), m_msg_cmd |-> At(p, 3, 1), m_session |-> Int4(p, 6)]

\* The header and the members read, if the buffer is long enough.
Members(p, min_len, members) == IF p.len < min_len THEN Refused ELSE Header(p) ++ members

load_len(p) == Int4(p, 10)

\* What the unpacker hands up of a buffer: as much as the length of its load says.
Delivered(p) == [p EXCEPT !.len = 14 + load_len(p)]

\* The start of an upgrade.
parse_start_request_body(p) ==
    LET s == [m_ota_type |-> Int4(p, 14), m_ota_version |-> At(p, 18, 8),
              m_usb_dst |-> Int4(p, 26)]
        name == IF is_ota_caltype(s) THEN SubSeq(p.tail, 1, load_len(p) - 16) ELSE <<>>
    IN  Members(p, 30, s ++ [m_calfilename |-> name])

parse_cal_read_request_body(p) ==
    LET s == [m_ota_type |-> Int4(p, 14), m_ota_version |-> At(p, 18, 8),
              m_usb_dst |-> Int4(p, 26)]
        name == IF is_ota_caltype(s) THEN SubSeq(p.tail, 1, load_len(p) - 16) ELSE <<>>
    IN  Members(p, 30, s ++ [m_calfilename |-> name])

parse_query_request_body(p) ==
    Members(p, 22, [m_ota_type |-> Int4(p, 14), m_usb_dst |-> Int4(p, 18)])

parse_cancel_request_body(p) ==
    Members(p, 22, [m_ota_type |-> Int4(p, 14), m_usb_dst |-> Int4(p, 18)])

parse_complete_notify_body(p) ==
    Members(p, 22, [m_ota_type |-> Int4(p, 14), m_usb_dst |-> Int4(p, 18)])

parse_data_request_body(p) == Members(p, 18, [m_usb_dst |-> Int4(p, 14)])

\* Requests without a load.
parse_heartbeat_body(p) ==
    IF load_len(p) # 0 THEN Refused ELSE Members(p, 14, <<>>)

parse_usbdstids_request_body(p) ==
    IF load_len(p) # 0 THEN Refused ELSE Members(p, 14, <<>>)

parse_junction_temp_request_body(p) ==
    IF load_len(p) # 0 THEN Refused ELSE Members(p, 14, <<>>)

parse_get_value_request_body(p) ==
    IF load_len(p) # 8 THEN Refused
    ELSE Members(p, 22, [m_usb_dst |-> Int4(p, 14), m_value_type |-> At(p, 18, 4)])

\* A load of 16 names a UTP40, one of 12 does not.
parse_power_switch_request_body(p) ==
    LET to == [m_usb_dst |-> Int4(p, 14), m_command_type |-> At(p, 18, 4)]
    IN  IF p.len \notin {26, 30} THEN Refused
        ELSE CASE load_len(p) = 16 ->
                    Members(p, 26, to ++ [m_utp40_id |-> Int4(p, 22), m_switch |-> Int4(p, 26)])
               [] load_len(p) = 12 ->
                    Members(p, 26, to ++ [m_utp40_id |-> 0, m_switch |-> Int4(p, 22)])
               [] OTHER -> Refused

parse_frequency_set_request_body(p) ==
    IF load_len(p) # 14 THEN Refused
    ELSE Members(p, 28, [m_usb_dst |-> Int4(p, 14), m_frequency_type |-> At(p, 18, 4),
                         m_frequency |-> At(p, 22, 4), m_channel |-> At(p, 26, 2)])

parse_request_body(p) ==
    LET cmd == At(p, 3, 1)
    IN  CASE cmd = "MC_START"              -> parse_start_request_body(p)
          [] cmd = "MC_QUERY"              -> parse_query_request_body(p)
          [] cmd = "MC_CANCEL"             -> parse_cancel_request_body(p)
          [] cmd = "MC_DATA"               -> parse_data_request_body(p)
          [] cmd = "MC_HEARTBEAT"          -> parse_heartbeat_body(p)
          [] cmd = "MC_CAL_READ"           -> parse_cal_read_request_body(p)
          [] cmd = "MC_USBDSTSerials_ID"   -> parse_usbdstids_request_body(p)
          [] cmd = "MC_ASIC_JUNCTION_TEMP" -> parse_junction_temp_request_body(p)
          [] cmd = "MC_GET_VALUE"          -> parse_get_value_request_body(p)
          [] cmd = "MC_COMMAND"            -> parse_power_switch_request_body(p)
          [] cmd = "MC_FREQUENCY"          -> parse_frequency_set_request_body(p)
          [] OTHER -> Refused

-----------------------------------------------------------------------------
(* The answers.                                                            *)

ErrorAt14(p) == Members(p, 18, [m_err_code |-> Int4(p, 14)])

parse_start_response_body(p)         == ErrorAt14(p)
parse_cancel_response_body(p)        == ErrorAt14(p)
parse_cal_read_response_body(p)      == ErrorAt14(p)
parse_power_switch_response_body(p)  == ErrorAt14(p)
parse_frequency_set_response_body(p) == ErrorAt14(p)

parse_query_response_body(p) ==
    Members(p, 26, [m_upgrade_progress |-> Int4(p, 14), m_total_len |-> Int4(p, 18),
                    m_err_code |-> Int4(p, 22)])

\* The loops over the items: they stop at the end of the load, and refuse the
\* package if an item goes past it.
\* The end of an item is not compared (a plausible mistake).
OverrunNever(p, size) == FALSE

Reached(p, size)  == {k \in 1 .. Len(p.tail) : EndOf(p.tail, k - 1) < size}
Overrun(p, size)  == \E k \in Reached(p, size) : EndOf(p.tail, k) > size
ItemsRead(p, size) == SubSeq(p.tail, 1, Cardinality(Reached(p, size)))

\* m_data_map: insert does not replace, so the first item of a tid is kept.
DataMap(items) ==
    [t \in {items[k].tid : k \in DOMAIN items} |->
        items[CHOOSE k \in DOMAIN items :
                 items[k].tid = t /\ \A j \in 1 .. k - 1 : items[j].tid # t]]

parse_data_response_body(p) ==
    LET size == load_len(p) - 8
    IN  IF Overrun(p, size) THEN Refused
        ELSE Members(p, 0, [m_usb_dst |-> Int4(p, 14), m_err_code |-> Int4(p, 18),
                            m_rw_data |-> DataMap(ItemsRead(p, size))])

parse_usbdstids_response_body(p) ==
    LET size == load_len(p) - 4
    IN  IF Overrun(p, size) THEN Refused
        ELSE Members(p, 18, [m_err_code |-> Int4(p, 14), m_usbdst_ids |-> ItemsRead(p, size)])

parse_junction_temp_response_body(p) ==
    LET size == load_len(p) - 4
    IN  IF Overrun(p, size) THEN Refused
        ELSE Members(p, 18, [m_err_code |-> Int4(p, 14), m_junctions |-> ItemsRead(p, size)])

\* The value is whatever the load holds, whole or not.
parse_get_value_response_body(p) ==
    IF load_len(p) > p.len - 14 THEN Refused
    ELSE Members(p, 18, [m_err_code |-> Int4(p, 14), m_value_dev |-> SubSeq(p.tail, 1, load_len(p) - 4)])

\* The body of the request's reader once more: no error code and no value.
parse_get_utp_register_response_body(p) ==
    IF load_len(p) # 8 THEN Refused
    ELSE Members(p, 18, [m_usb_dst |-> Int4(p, 14), m_utp_chip_id |-> Int4(p, 18)])

parse_response_body(p) ==
    LET cmd == At(p, 3, 1)
    IN  CASE cmd = "MC_START"              -> parse_start_response_body(p)
          [] cmd = "MC_QUERY"              -> parse_query_response_body(p)
          [] cmd = "MC_CANCEL"             -> parse_cancel_response_body(p)
          [] cmd = "MC_DATA"               -> parse_data_response_body(p)
          [] cmd = "MC_CAL_READ"           -> parse_cal_read_response_body(p)
          [] cmd = "MC_USBDSTSerials_ID"   -> parse_usbdstids_response_body(p)
          [] cmd = "MC_ASIC_JUNCTION_TEMP" -> parse_junction_temp_response_body(p)
          [] cmd = "MC_GET_VALUE"          -> parse_get_value_response_body(p)
          [] cmd = "MC_COMMAND"            -> parse_power_switch_response_body(p)
          [] cmd = "MC_FREQUENCY"          -> parse_frequency_set_response_body(p)
          [] cmd = "MC_GET_UTP_REGISTER"   -> parse_get_utp_register_response_body(p)

parse_from_bin(p) ==
    IF ~parse_msg_header(p) THEN Refused
    ELSE CASE At(p, 2, 1) = "MT_REQUEST" -> parse_request_body(p)
           [] At(p, 2, 1) = "MT_RESPOND" -> parse_response_body(p)
           [] At(p, 2, 1) = "MT_NOTIFY"  -> parse_complete_notify_body(p)

=============================================================================
