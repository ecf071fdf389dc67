---------------------------- MODULE LibApiProofs ----------------------------
(***************************************************************************)
(* What the C API promises, for any callers, values and error codes: the   *)
(* requests and answers are read as they were written (serial_to_bin and   *)
(* parse_from_bin, one lemma for each kind), as far as read_littleendian   *)
(* does, and CallInv holds of every call, because every function asks and  *)
(* returns honestly (FunctionStep).  What the functions that read sensors  *)
(* report follows from SourceInv beside it: where a value came from; and   *)
(* from what a loop over a vector collects (Chosen).                       *)
(***************************************************************************)
EXTENDS LibApi, FiniteSetTheorems, SequenceTheorems, WellFoundedInduction, TLAPS

-----------------------------------------------------------------------------
(* What is read of a buffer that was written.                              *)

\* Four bytes read back: below 256 nothing is lost; the sign and the lowest byte
\* are always kept, and what was lost once is not lost again.
LEMMA MisreadFacts ==
    ASSUME NEW v \in Int
    PROVE  /\ Misread(v) \in Int
           /\ v \in 0 .. 255 => Misread(v) = v
           /\ v >= 0 => Misread(v) >= 0
           /\ v < 0 <=> Misread(v) < 0
           /\ Misread(v) <= v
           /\ Misread(v) % 256 = v % 256
           /\ Misread(Misread(v)) = Misread(v)
<1> DEFINE q == v \div 256
           k == q % 256
           m == v - 256 * k
<1>1. Misread(v) = m
  BY DEF Misread, read_littleendian
<1>2. q \in Int /\ k \in 0 .. 255 /\ m \in Int /\ 256 * q <= v /\ v < 256 * q + 256
  OBVIOUS
<1>3. v \in 0 .. 255 => q = 0
  BY <1>2
<1>4. v >= 0 => q >= 0 /\ k <= q
  BY <1>2
<1>5. m % 256 = v % 256
  BY <1>2
<1>6. m \div 256 = q - k
  <2>1. 256 * (q - k) <= m /\ m < 256 * (q - k) + 256
    BY <1>2
  <2> QED
    BY <1>2, <2>1
<1>7. (q - k) % 256 = 0
  BY <1>2
<1>8. Misread(m) = m
  BY <1>6, <1>7, <1>2 DEF Misread, read_littleendian
<1> HIDE DEF q, k
<1>9. /\ v \in 0 .. 255 => m = v
      /\ v >= 0 => m >= 0
      /\ v < 0 => m < 0
      /\ m <= v
  <2>1. v \in 0 .. 255 => k = 0
    BY <1>2, <1>3 DEF k
  <2> QED
    BY <1>2, <1>4, <2>1
<1> HIDE DEF m
<1> QED
  BY <1>1, <1>2, <1>5, <1>8, <1>9

\* The header, then its length: nothing else stands in the first 14 bytes.
LEMMA HeaderFacts ==
    ASSUME NEW s
    PROVE  LET h == serial_msg_header(s)
           IN  /\ DOMAIN h = {<<0, 2>>, <<2, 1>>, <<3, 1>>, <<6, 4>>}
               /\ h[<<0, 2>>] = "FFA5" /\ h[<<2, 1>>] = s.m_msg_type
               /\ h[<<3, 1>>] = s.m_msg_cmd /\ h[<<6, 4>>] = s.m_session
BY DEF serial_msg_header, ++, Put

\* The left of two functions is kept where both are defined.
LEMMA Merged ==
    ASSUME NEW f, NEW g
    PROVE  /\ DOMAIN (f ++ g) = DOMAIN f \cup DOMAIN g
           /\ \A x \in DOMAIN f : (f ++ g)[x] = f[x]
           /\ \A x \in DOMAIN g : x \notin DOMAIN f => (f ++ g)[x] = g[x]
BY DEF ++

LEMMA HeadWritten ==
    ASSUME NEW s, NEW load
    PROVE  LET h == serial_msg_header(s) ++ Put(10, 4, load)
           IN  /\ DOMAIN h = {<<0, 2>>, <<2, 1>>, <<3, 1>>, <<6, 4>>, <<10, 4>>}
               /\ h[<<0, 2>>] = "FFA5" /\ h[<<2, 1>>] = s.m_msg_type
               /\ h[<<3, 1>>] = s.m_msg_cmd /\ h[<<6, 4>>] = s.m_session
               /\ h[<<10, 4>>] = load
<1> DEFINE f == serial_msg_header(s)
           g == Put(10, 4, load)
           h == f ++ g
<1>1. DOMAIN g = {<<10, 4>>} /\ g[<<10, 4>>] = load
  BY DEF Put
<1>2. /\ DOMAIN f = {<<0, 2>>, <<2, 1>>, <<3, 1>>, <<6, 4>>}
      /\ f[<<0, 2>>] = "FFA5" /\ f[<<2, 1>>] = s.m_msg_type
      /\ f[<<3, 1>>] = s.m_msg_cmd /\ f[<<6, 4>>] = s.m_session
  BY HeaderFacts
<1> HIDE DEF f, g
<1>3. /\ DOMAIN h = DOMAIN f \cup DOMAIN g
      /\ \A x \in DOMAIN f : h[x] = f[x]
      /\ \A x \in DOMAIN g : x \notin DOMAIN f => h[x] = g[x]
  BY Merged, Zenon
<1> HIDE DEF h
<1>4. <<10, 4>> \notin DOMAIN f
  BY <1>2
<1>5. h[<<10, 4>>] = load
  <2>1. <<10, 4>> \in DOMAIN g
    BY <1>1
  <2> QED
    BY <2>1, <1>1, <1>3, <1>4, Zenon
<1>6. /\ h[<<0, 2>>] = "FFA5" /\ h[<<2, 1>>] = s.m_msg_type
      /\ h[<<3, 1>>] = s.m_msg_cmd /\ h[<<6, 4>>] = s.m_session
  BY <1>2, <1>3
<1>7. DOMAIN h = {<<0, 2>>, <<2, 1>>, <<3, 1>>, <<6, 4>>, <<10, 4>>}
  BY <1>1, <1>2, <1>3
<1> QED
  BY <1>5, <1>6, <1>7 DEF h, f, g

\* A buffer of another size, as where bytes are lost.
Resized(q, size) == [q EXCEPT !.len = size]

\* What is read of it is what was written, as far as what is handed up of it reaches.
LEMMA ReadsAsDelivered ==
    ASSUME NEW s, NEW len, NEW load \in Nat, NEW ints, NEW tail, NEW size \in Nat, size >= 14,
           NEW p, p = Delivered(Resized(Written(s, len, load, ints, tail), size))
    PROVE  /\ At(p, 0, 2) = "FFA5" /\ At(p, 2, 1) = s.m_msg_type
           /\ At(p, 3, 1) = s.m_msg_cmd /\ Int4(p, 6) = Misread(s.m_session)
           /\ load_len(p) = Misread(load) /\ p.len = 14 + Misread(load) /\ p.tail = tail
           /\ \A o \in {14, 18, 22, 26} : \A w \in {2, 4, 8} :
                 <<o, w>> \in DOMAIN ints =>
                     At(p, o, w) = IF o + w <= p.len THEN ints[<<o, w>>] ELSE Torn
<1> DEFINE h == serial_msg_header(s) ++ Put(10, 4, load)
           a == h ++ ints
           q == [len |-> size, at |-> a, tail |-> tail]
<1>1. Resized(Written(s, len, load, ints, tail), size) = q
  BY DEF Written, Resized
<1>2. /\ DOMAIN h = {<<0, 2>>, <<2, 1>>, <<3, 1>>, <<6, 4>>, <<10, 4>>}
      /\ h[<<0, 2>>] = "FFA5" /\ h[<<2, 1>>] = s.m_msg_type
      /\ h[<<3, 1>>] = s.m_msg_cmd /\ h[<<6, 4>>] = s.m_session
      /\ h[<<10, 4>>] = load
  BY HeadWritten
<1>3. /\ DOMAIN a = DOMAIN h \cup DOMAIN ints
      /\ \A x \in DOMAIN h : a[x] = h[x]
      /\ \A x \in DOMAIN ints : x \notin DOMAIN h => a[x] = ints[x]
  BY Merged
<1> HIDE DEF h, a
<1>4. load_len(q) = Misread(load)
  BY <1>2, <1>3 DEF load_len, Int4, At
<1>5. Misread(load) \in Nat
  BY MisreadFacts
<1>6. p = [len |-> 14 + Misread(load), at |-> a, tail |-> tail]
  BY <1>1, <1>4 DEF Delivered
<1>7. /\ At(p, 0, 2) = "FFA5" /\ At(p, 2, 1) = s.m_msg_type
      /\ At(p, 3, 1) = s.m_msg_cmd /\ At(p, 6, 4) = s.m_session /\ At(p, 10, 4) = load
  BY <1>2, <1>3, <1>5, <1>6 DEF At
<1>8. ASSUME NEW o \in {14, 18, 22, 26}, NEW w \in {2, 4, 8}, <<o, w>> \in DOMAIN ints
      PROVE  At(p, o, w) = IF o + w <= p.len THEN ints[<<o, w>>] ELSE Torn
  <2>1. <<o, w>> \notin DOMAIN h
    BY <1>2, <1>8
  <2> QED
    BY <2>1, <1>3, <1>6, <1>8 DEF At
<1> QED
  BY <1>6, <1>7, <1>8 DEF load_len, Int4

\* What is read of a buffer p with the header of s, a load of that length and ints.
Reads(p, s, load, ints) ==
    /\ At(p, 0, 2) = "FFA5" /\ At(p, 2, 1) = s.m_msg_type
    /\ At(p, 3, 1) = s.m_msg_cmd /\ Int4(p, 6) = Misread(s.m_session)
    /\ load_len(p) = load /\ p.len = 14 + load
    /\ \A o \in {14, 18, 22, 26} : \A w \in {2, 4, 8} :
          <<o, w>> \in DOMAIN ints /\ o + w <= 14 + load => At(p, o, w) = ints[<<o, w>>]

\* The same where nothing is behind the integers.
LEMMA ReadsAsWritten ==
    ASSUME NEW s, NEW load \in 0 .. 255, NEW len \in Nat, len - load = 14, NEW ints,
           NEW p, p = Delivered(Written(s, len, load, ints, <<>>))
    PROVE  Reads(p, s, load, ints)
<1>1. len + Len(<<>>) = len
  <2>1. Len(<<>>) = 0 /\ len \in Nat
    OBVIOUS
  <2> QED
    BY <2>1
<1>2. Written(s, len, load, ints, <<>>) = Resized(Written(s, len, load, ints, <<>>), len)
  BY <1>1 DEF Written, Resized
<1>3. load \in Nat /\ len \in Nat /\ len >= 14 /\ len = 14 + load
  OBVIOUS
<1>4. Misread(load) = load
  <2>1. load \in Int
    OBVIOUS
  <2> QED
    BY <2>1, MisreadFacts
<1>5. p = Delivered(Resized(Written(s, len, load, ints, <<>>), len))
  BY <1>2
<1> QED
  BY <1>3, <1>4, <1>5, ReadsAsDelivered DEF Reads

-----------------------------------------------------------------------------
(* Requests.                                                               *)

\* MC_DATA: nothing but the address.
LEMMA DataRequest ==
    ASSUME NEW n, NEW dst,
           NEW s, s = [m_msg_type |-> "MT_REQUEST", m_msg_cmd |-> "MC_DATA", m_session |-> n,
                       m_usb_dst |-> dst]
    PROVE  parse_from_bin(Delivered(serial_to_bin(s))) = Carried(s)
<1> DEFINE p == Delivered(serial_to_bin(s))
           ints == Put(14, 4, s.m_usb_dst)
<1>1. p = Delivered(Written(s, 18, 4, ints, <<>>))
  BY DEF serial_to_bin, serail_request, serial_data_request
<1>2. /\ DOMAIN ints = {<<14, 4>>}
      /\ ints[<<14, 4>>] = s.m_usb_dst
  BY DEF ++, Put
<1> HIDE DEF ints, p
<1>3. Reads(p, s, 4, ints)
  <2>1. 4 \in 0 .. 255 /\ 18 \in Nat /\ 18 - 4 = 14
    OBVIOUS
  <2> QED
    BY <1>1, <2>1, ReadsAsWritten
<1>4. /\ p.len = 18 /\ load_len(p) = 4 /\ At(p, 0, 2) = "FFA5"
      /\ At(p, 2, 1) = "MT_REQUEST" /\ At(p, 3, 1) = "MC_DATA" /\ Int4(p, 6) = Misread(n)
  BY <1>3 DEF Reads
<1>5. /\ At(p, 14, 4) = s.m_usb_dst
  BY <1>2, <1>3 DEF Reads
<1>6. parse_from_bin(p) = Header(p) ++ [m_usb_dst |-> Int4(p, 14)]
  BY <1>4 DEF parse_from_bin, parse_msg_header, parse_request_body, parse_data_request_body, Members
<1> QED
  BY <1>4, <1>5, <1>6 DEF Header, ++, Int4, Carried, FourBytes, p

\* MC_USBDSTSerials_ID: a header only.
LEMMA IdsRequest ==
    ASSUME NEW n,
           NEW s, s = [m_msg_type |-> "MT_REQUEST", m_msg_cmd |-> "MC_USBDSTSerials_ID",
                       m_session |-> n]
    PROVE  parse_from_bin(Delivered(serial_to_bin(s))) = Carried(s)
<1> DEFINE p == Delivered(serial_to_bin(s))
           ints == <<>>
<1>1. p = Delivered(Written(s, 14, 0, ints, <<>>))
  BY DEF serial_to_bin, serail_request, serial_usbdstids_request
<1> HIDE DEF ints, p
<1>3. Reads(p, s, 0, ints)
  <2>1. 0 \in 0 .. 255 /\ 14 \in Nat /\ 14 - 0 = 14
    OBVIOUS
  <2> QED
    BY <1>1, <2>1, ReadsAsWritten
<1>4. /\ p.len = 14 /\ load_len(p) = 0 /\ At(p, 0, 2) = "FFA5"
      /\ At(p, 2, 1) = "MT_REQUEST" /\ At(p, 3, 1) = "MC_USBDSTSerials_ID"
      /\ Int4(p, 6) = Misread(n)
  BY <1>3 DEF Reads
<1>6. parse_from_bin(p) = Header(p) ++ <<>>
  BY <1>4 DEF parse_from_bin, parse_msg_header, parse_request_body, parse_usbdstids_request_body,
     Members
<1> QED
  BY <1>4, <1>6 DEF Header, ++, Int4, Carried, FourBytes, p

\* MC_ASIC_JUNCTION_TEMP: a header only.
LEMMA JunctionRequest ==
    ASSUME NEW n,
           NEW s, s = [m_msg_type |-> "MT_REQUEST", m_msg_cmd |-> "MC_ASIC_JUNCTION_TEMP",
                       m_session |-> n]
    PROVE  parse_from_bin(Delivered(serial_to_bin(s))) = Carried(s)
<1> DEFINE p == Delivered(serial_to_bin(s))
           ints == <<>>
<1>1. p = Delivered(Written(s, 14, 0, ints, <<>>))
  BY DEF serial_to_bin, serail_request, serial_junction_temp_request
<1> HIDE DEF ints, p
<1>3. Reads(p, s, 0, ints)
  <2>1. 0 \in 0 .. 255 /\ 14 \in Nat /\ 14 - 0 = 14
    OBVIOUS
  <2> QED
    BY <1>1, <2>1, ReadsAsWritten
<1>4. /\ p.len = 14 /\ load_len(p) = 0 /\ At(p, 0, 2) = "FFA5"
      /\ At(p, 2, 1) = "MT_REQUEST" /\ At(p, 3, 1) = "MC_ASIC_JUNCTION_TEMP"
      /\ Int4(p, 6) = Misread(n)
  BY <1>3 DEF Reads
<1>6. parse_from_bin(p) = Header(p) ++ <<>>
  BY <1>4 DEF parse_from_bin, parse_msg_header, parse_request_body,
     parse_junction_temp_request_body, Members
<1> QED
  BY <1>4, <1>6 DEF Header, ++, Int4, Carried, FourBytes, p

\* MC_QUERY: the type of the file and the address.
LEMMA QueryRequest ==
    ASSUME NEW n, NEW type, NEW dst,
           NEW s, s = [m_msg_type |-> "MT_REQUEST", m_msg_cmd |-> "MC_QUERY", m_session |-> n,
                       m_ota_type |-> type, m_usb_dst |-> dst]
    PROVE  parse_from_bin(Delivered(serial_to_bin(s))) = Carried(s)
<1> DEFINE p == Delivered(serial_to_bin(s))
           ints == Put(14, 4, s.m_ota_type) ++ Put(18, 4, s.m_usb_dst)
<1>1. p = Delivered(Written(s, 22, 8, ints, <<>>))
  BY DEF serial_to_bin, serail_request, serial_query_request, TypeAndBoard
<1>2. /\ DOMAIN ints = {<<14, 4>>, <<18, 4>>}
      /\ ints[<<14, 4>>] = s.m_ota_type
      /\ ints[<<18, 4>>] = s.m_usb_dst
  BY DEF ++, Put
<1> HIDE DEF ints, p
<1>3. Reads(p, s, 8, ints)
  <2>1. 8 \in 0 .. 255 /\ 22 \in Nat /\ 22 - 8 = 14
    OBVIOUS
  <2> QED
    BY <1>1, <2>1, ReadsAsWritten
<1>4. /\ p.len = 22 /\ load_len(p) = 8 /\ At(p, 0, 2) = "FFA5"
      /\ At(p, 2, 1) = "MT_REQUEST" /\ At(p, 3, 1) = "MC_QUERY" /\ Int4(p, 6) = Misread(n)
  BY <1>3 DEF Reads
<1>5. /\ At(p, 14, 4) = s.m_ota_type
      /\ At(p, 18, 4) = s.m_usb_dst
  BY <1>2, <1>3 DEF Reads
<1>6. parse_from_bin(p) = Header(p) ++ [m_ota_type |-> Int4(p, 14), m_usb_dst |-> Int4(p, 18)]
  BY <1>4 DEF parse_from_bin, parse_msg_header, parse_request_body, parse_query_request_body,
     Members
<1> QED
  BY <1>4, <1>5, <1>6 DEF Header, ++, Int4, Carried, FourBytes, p

\* MC_CANCEL: the same.
LEMMA CancelRequest ==
    ASSUME NEW n, NEW type, NEW dst,
           NEW s, s = [m_msg_type |-> "MT_REQUEST", m_msg_cmd |-> "MC_CANCEL", m_session |-> n,
                       m_ota_type |-> type, m_usb_dst |-> dst]
    PROVE  parse_from_bin(Delivered(serial_to_bin(s))) = Carried(s)
<1> DEFINE p == Delivered(serial_to_bin(s))
           ints == Put(14, 4, s.m_ota_type) ++ Put(18, 4, s.m_usb_dst)
<1>1. p = Delivered(Written(s, 22, 8, ints, <<>>))
  BY DEF serial_to_bin, serail_request, serial_cancel_request, TypeAndBoard
<1>2. /\ DOMAIN ints = {<<14, 4>>, <<18, 4>>}
      /\ ints[<<14, 4>>] = s.m_ota_type
      /\ ints[<<18, 4>>] = s.m_usb_dst
  BY DEF ++, Put
<1> HIDE DEF ints, p
<1>3. Reads(p, s, 8, ints)
  <2>1. 8 \in 0 .. 255 /\ 22 \in Nat /\ 22 - 8 = 14
    OBVIOUS
  <2> QED
    BY <1>1, <2>1, ReadsAsWritten
<1>4. /\ p.len = 22 /\ load_len(p) = 8 /\ At(p, 0, 2) = "FFA5"
      /\ At(p, 2, 1) = "MT_REQUEST" /\ At(p, 3, 1) = "MC_CANCEL" /\ Int4(p, 6) = Misread(n)
  BY <1>3 DEF Reads
<1>5. /\ At(p, 14, 4) = s.m_ota_type
      /\ At(p, 18, 4) = s.m_usb_dst
  BY <1>2, <1>3 DEF Reads
<1>6. parse_from_bin(p) = Header(p) ++ [m_ota_type |-> Int4(p, 14), m_usb_dst |-> Int4(p, 18)]
  BY <1>4 DEF parse_from_bin, parse_msg_header, parse_request_body, parse_cancel_request_body,
     Members
<1> QED
  BY <1>4, <1>5, <1>6 DEF Header, ++, Int4, Carried, FourBytes, p

\* MC_COMPLETE, a notification: the same.
LEMMA CompleteNotify ==
    ASSUME NEW n, NEW type, NEW dst,
           NEW s, s = [m_msg_type |-> "MT_NOTIFY", m_msg_cmd |-> "MC_COMPLETE", m_session |-> n,
                       m_ota_type |-> type, m_usb_dst |-> dst]
    PROVE  parse_from_bin(Delivered(serial_to_bin(s))) = Carried(s)
<1> DEFINE p == Delivered(serial_to_bin(s))
           ints == Put(14, 4, s.m_ota_type) ++ Put(18, 4, s.m_usb_dst)
<1>1. p = Delivered(Written(s, 22, 8, ints, <<>>))
  BY DEF serial_to_bin, serial_complete_notify, TypeAndBoard
<1>2. /\ DOMAIN ints = {<<14, 4>>, <<18, 4>>}
      /\ ints[<<14, 4>>] = s.m_ota_type
      /\ ints[<<18, 4>>] = s.m_usb_dst
  BY DEF ++, Put
<1> HIDE DEF ints, p
<1>3. Reads(p, s, 8, ints)
  <2>1. 8 \in 0 .. 255 /\ 22 \in Nat /\ 22 - 8 = 14
    OBVIOUS
  <2> QED
    BY <1>1, <2>1, ReadsAsWritten
<1>4. /\ p.len = 22 /\ load_len(p) = 8 /\ At(p, 0, 2) = "FFA5"
      /\ At(p, 2, 1) = "MT_NOTIFY" /\ At(p, 3, 1) = "MC_COMPLETE" /\ Int4(p, 6) = Misread(n)
  BY <1>3 DEF Reads
<1>5. /\ At(p, 14, 4) = s.m_ota_type
      /\ At(p, 18, 4) = s.m_usb_dst
  BY <1>2, <1>3 DEF Reads
<1>6. parse_from_bin(p) = Header(p) ++ [m_ota_type |-> Int4(p, 14), m_usb_dst |-> Int4(p, 18)]
  BY <1>4 DEF parse_from_bin, parse_msg_header, parse_complete_notify_body, Members
<1> QED
  BY <1>4, <1>5, <1>6 DEF Header, ++, Int4, Carried, FourBytes, p

\* A sequence is one over its own elements.
LEMMA SeqFacts ==
    ASSUME NEW v, IsSeq(v)
    PROVE  Len(v) \in Nat /\ SubSeq(v, 1, Len(v)) = v /\ DOMAIN v = 1 .. Len(v)
BY DEF IsSeq

\* What is read of a package that was sent is the package, if it is short; what it
\* is and to which request it belongs is read of any package.
Arrives(pkg) ==
    LET p == serial_to_bin(pkg)
        s == parse_from_bin(Delivered(p))
    IN  /\ Short(p) => s = Carried(pkg)
        /\ s # Refused =>
              /\ s.m_msg_type = pkg.m_msg_type
              /\ s.m_msg_cmd = pkg.m_msg_cmd
              /\ s.m_session = Misread(pkg.m_session)

LEMMA ShortArrives ==
    ASSUME NEW pkg, parse_from_bin(Delivered(serial_to_bin(pkg))) = Carried(pkg),
           {"m_msg_type", "m_msg_cmd", "m_session"} \subseteq DOMAIN pkg
    PROVE  Arrives(pkg)
<1>1. /\ Carried(pkg).m_msg_type = pkg.m_msg_type
      /\ Carried(pkg).m_msg_cmd = pkg.m_msg_cmd
      /\ Carried(pkg).m_session = Misread(pkg.m_session)
  BY DEF Carried, FourBytes
<1> QED
  BY <1>1 DEF Arrives

\* MC_START and MC_CAL_READ: three numbers, and for a calibration type a file name
\* as long as the load says.
LEMMA FileRequest ==
    ASSUME NEW n, NEW type, NEW version, NEW dst, NEW file, IsSeq(file),
           NEW cmd \in {"MC_START", "MC_CAL_READ"},
           NEW s, s = [m_msg_type |-> "MT_REQUEST", m_msg_cmd |-> cmd, m_session |-> n,
                       m_ota_type |-> type, m_ota_version |-> version, m_usb_dst |-> dst,
                       m_calfilename |-> file]
    PROVE  Arrives(s)
<1> DEFINE p == Delivered(serial_to_bin(s))
           ints == Put(14, 4, s.m_ota_type) ++ Put(18, 8, s.m_ota_version) ++
                   Put(26, 4, s.m_usb_dst)
           name == IF is_ota_caltype(s) THEN file ELSE <<>>
           load == 16 + Len(name)
           read == [m_ota_type |-> Int4(p, 14), m_ota_version |-> At(p, 18, 8),
                    m_usb_dst |-> Int4(p, 26)]
           named == IF is_ota_caltype(read) THEN SubSeq(p.tail, 1, load_len(p) - 16) ELSE <<>>
<1>1. serial_to_bin(s) = Written(s, 30, load, ints, name)
  BY DEF serial_to_bin, serail_request, serial_start_request, serial_cal_read_request
<1>2. /\ DOMAIN ints = {<<14, 4>>, <<18, 8>>, <<26, 4>>}
      /\ ints[<<14, 4>>] = type
      /\ ints[<<18, 8>>] = version
      /\ ints[<<26, 4>>] = dst
  BY DEF ++, Put
<1>3. Len(name) \in Nat /\ SubSeq(name, 1, Len(name)) = name
  <2>1. CASE is_ota_caltype(s)
    BY <2>1, SeqFacts
  <2>2. CASE ~is_ota_caltype(s)
    <3>1. name = <<>>
      BY <2>2
    <3>2. Len(<<>>) = 0 /\ SubSeq(<<>>, 1, 0) = <<>>
      OBVIOUS
    <3> QED
      BY <3>1, <3>2
  <2> QED
    BY <2>1, <2>2
<1>4. load \in Nat /\ 30 + Len(name) \in Nat /\ 30 + Len(name) >= 14
  BY <1>3
<1>5. Carried(s) = [m_msg_type |-> "MT_REQUEST", m_msg_cmd |-> cmd, m_session |-> Misread(n),
                    m_ota_type |-> Misread(type), m_ota_version |-> version,
                    m_usb_dst |-> Misread(dst), m_calfilename |-> name]
  BY DEF Carried, FourBytes
<1>6. is_ota_caltype(s) \/ name = <<>>
  OBVIOUS
<1>7. is_ota_caltype(s) <=> type \in 40 .. 101
  BY DEF is_ota_caltype
<1> HIDE DEF ints, name, load
<1>8. /\ At(p, 0, 2) = "FFA5" /\ At(p, 2, 1) = "MT_REQUEST" /\ At(p, 3, 1) = cmd
      /\ Int4(p, 6) = Misread(n) /\ load_len(p) = Misread(load) /\ p.len = 14 + Misread(load)
      /\ p.tail = name
      /\ \A o \in {14, 18, 22, 26} : \A w \in {2, 4, 8} :
            <<o, w>> \in DOMAIN ints =>
                At(p, o, w) = IF o + w <= p.len THEN ints[<<o, w>>] ELSE Torn
  <2>1. p = Delivered(Resized(Written(s, 30, load, ints, name), 30 + Len(name)))
    BY <1>1 DEF Written, Resized
  <2> HIDE DEF p
  <2> QED
    BY <1>4, <2>1, ReadsAsDelivered
<1> HIDE DEF p
<1>9. Misread(load) \in Nat
  BY <1>4, MisreadFacts
<1>10. parse_from_bin(p) = IF p.len < 30 THEN Refused
                           ELSE Header(p) ++ (read ++ [m_calfilename |-> named])
  <2>1. parse_from_bin(p) = IF cmd = "MC_START" THEN parse_start_request_body(p)
                            ELSE parse_cal_read_request_body(p)
    BY <1>8, <1>9 DEF parse_from_bin, parse_msg_header, parse_request_body
  <2> QED
    BY <2>1 DEF parse_start_request_body, parse_cal_read_request_body, Members
<1>11. Header(p) = [m_msg_type |-> "MT_REQUEST", m_msg_cmd |-> cmd, m_session |-> Misread(n)]
  BY <1>8 DEF Header
<1> DEFINE q == serial_to_bin(s)
<1>12. ASSUME Short(q) PROVE parse_from_bin(p) = Carried(s)
  <2>1. load \in 0 .. 255
    <3>1. q.len = 30 + Len(name)
      BY <1>1 DEF Written
    <3>2. 30 + Len(name) < 14 + 256
      BY <1>12, <3>1 DEF Short
    <3> DEFINE l == Len(name)
    <3>3. l \in Nat /\ 30 + l < 14 + 256
      BY <1>3, <3>2
    <3> HIDE DEF l
    <3>4. 16 + l \in 0 .. 255
      BY <3>3
    <3> QED
      BY <3>4 DEF load, l
  <2>2. load_len(p) = load /\ p.len = 30 + Len(name) /\ load - 16 = Len(name)
    <3>1. Misread(load) = load
      BY <2>1, MisreadFacts
    <3> QED
      BY <1>3, <1>8, <3>1 DEF load
  <2>3. At(p, 14, 4) = type /\ At(p, 18, 8) = version /\ At(p, 26, 4) = dst
    <3>1. 14 + 4 <= p.len /\ 18 + 8 <= p.len /\ 26 + 4 <= p.len
      BY <1>3, <2>2
    <3> QED
      BY <1>2, <1>8, <3>1
  <2>4. read = [m_ota_type |-> Misread(type), m_ota_version |-> version,
                m_usb_dst |-> Misread(dst)]
    BY <2>3 DEF Int4
  <2>5. named = name
    <3>1. SubSeq(p.tail, 1, load_len(p) - 16) = name
      BY <1>3, <1>8, <2>2
    <3>2. CASE is_ota_caltype(s)
      <4>1. Misread(type) = type
        BY <3>2, <1>7, MisreadFacts
      <4>2. is_ota_caltype(read)
        BY <3>2, <1>7, <2>4, <4>1 DEF is_ota_caltype
      <4> QED
        BY <3>1, <4>2
    <3>3. CASE name = <<>>
      BY <3>1, <3>3
    <3> QED
      BY <1>6, <3>2, <3>3
  <2>6. ~(p.len < 30)
    BY <1>3, <2>2
  <2> HIDE DEF read, named
  <2>7. parse_from_bin(p) = Header(p) ++ (read ++ [m_calfilename |-> name])
    BY <1>10, <2>5, <2>6
  <2>8. read ++ [m_calfilename |-> name] = [m_ota_type |-> Misread(type), m_ota_version |-> version,
                                           m_usb_dst |-> Misread(dst), m_calfilename |-> name]
    BY <2>4 DEF ++
  <2> QED
    BY <1>5, <1>11, <2>7, <2>8 DEF ++
<1>13. ASSUME parse_from_bin(p) # Refused
       PROVE  /\ parse_from_bin(p).m_msg_type = "MT_REQUEST"
              /\ parse_from_bin(p).m_msg_cmd = cmd
              /\ parse_from_bin(p).m_session = Misread(n)
  <2> HIDE DEF read, named
  <2>1. PICK members : parse_from_bin(p) = Header(p) ++ members
    BY <1>10, <1>13
  <2> QED
    BY <1>11, <2>1 DEF ++
<1> QED
  BY <1>12, <1>13 DEF Arrives, p

-----------------------------------------------------------------------------
(* The packages that the call_xxx functions make.                          *)

Asks == {"MC_START", "MC_QUERY", "MC_CANCEL", "MC_DATA", "MC_CAL_READ", "MC_USBDSTSerials_ID",
         "MC_ASIC_JUNCTION_TEMP", "MC_GET_VALUE", "MC_COMMAND", "MC_FREQUENCY"}

\* The n-th package of a call: it arrives, or is not written at all.
MadeAs(pkg, n) ==
    /\ IF pkg.m_msg_cmd \in Unwritten THEN serial_to_bin(pkg) = NoBin ELSE Arrives(pkg)
    /\ pkg.m_session = n
    /\ pkg.m_msg_type = IF pkg.m_msg_cmd = "MC_COMPLETE" THEN "MT_NOTIFY" ELSE "MT_REQUEST"
    /\ pkg.m_msg_cmd \in Asks \cup Registers \cup {"MC_COMPLETE"}

Made(pkg) == MadeAs(pkg, Len(asked) + 1)

\* It has an address, and this one.
To(pkg, dst) == "m_usb_dst" \in DOMAIN pkg /\ pkg.m_usb_dst = dst

LEMMA StartMade ==
    ASSUME NEW type, NEW version, NEW dst, NEW file, IsSeq(file)
    PROVE  /\ Made(call_ota_start_upgrade(type, version, dst, file))
           /\ To(call_ota_start_upgrade(type, version, dst, file), dst)
<1> DEFINE s == [m_msg_type |-> "MT_REQUEST", m_msg_cmd |-> "MC_START",
                 m_session |-> Len(asked) + 1, m_ota_type |-> type, m_ota_version |-> version,
                 m_usb_dst |-> dst, m_calfilename |-> file]
<1>1. call_ota_start_upgrade(type, version, dst, file) = s
  BY DEF call_ota_start_upgrade, Request, NewPackage, ++
<1>2. Arrives(s)
  BY FileRequest
<1> QED
  BY <1>1, <1>2 DEF Made, MadeAs, To, Asks, Unwritten, Registers, ReadOnly

LEMMA ReadMade ==
    ASSUME NEW type, NEW version, NEW dst, NEW file, IsSeq(file)
    PROVE  /\ Made(call_cal_read_file(type, version, dst, file))
           /\ To(call_cal_read_file(type, version, dst, file), dst)
<1> DEFINE s == [m_msg_type |-> "MT_REQUEST", m_msg_cmd |-> "MC_CAL_READ",
                 m_session |-> Len(asked) + 1, m_ota_type |-> type, m_ota_version |-> version,
                 m_usb_dst |-> dst, m_calfilename |-> file]
<1>1. call_cal_read_file(type, version, dst, file) = s
  BY DEF call_cal_read_file, Request, NewPackage, ++
<1>2. Arrives(s)
  BY FileRequest
<1> QED
  BY <1>1, <1>2 DEF Made, MadeAs, To, Asks, Unwritten, Registers, ReadOnly

LEMMA CancelMade ==
    ASSUME NEW type, NEW dst
    PROVE  /\ Made(call_ota_cancel_upgrade(type, dst))
           /\ To(call_ota_cancel_upgrade(type, dst), dst)
<1> DEFINE s == [m_msg_type |-> "MT_REQUEST", m_msg_cmd |-> "MC_CANCEL",
                 m_session |-> Len(asked) + 1, m_ota_type |-> type, m_usb_dst |-> dst]
<1>1. call_ota_cancel_upgrade(type, dst) = s
  BY DEF call_ota_cancel_upgrade, Request, NewPackage, ++
<1>2. Arrives(s)
  BY CancelRequest, ShortArrives
<1> QED
  BY <1>1, <1>2 DEF Made, MadeAs, To, Asks, Unwritten, Registers, ReadOnly

LEMMA QueryMade ==
    ASSUME NEW type, NEW dst
    PROVE  /\ Made(call_ota_query_upgrade(type, dst))
           /\ To(call_ota_query_upgrade(type, dst), dst)
<1> DEFINE s == [m_msg_type |-> "MT_REQUEST", m_msg_cmd |-> "MC_QUERY",
                 m_session |-> Len(asked) + 1, m_ota_type |-> type, m_usb_dst |-> dst]
<1>1. call_ota_query_upgrade(type, dst) = s
  BY DEF call_ota_query_upgrade, Request, NewPackage, ++
<1>2. Arrives(s)
  BY QueryRequest, ShortArrives
<1> QED
  BY <1>1, <1>2 DEF Made, MadeAs, To, Asks, Unwritten, Registers, ReadOnly

LEMMA CompleteMade ==
    ASSUME NEW type, NEW dst
    PROVE  /\ Made(call_ota_complete_upgrade(type, dst))
           /\ To(call_ota_complete_upgrade(type, dst), dst)
<1> DEFINE s == [m_msg_type |-> "MT_NOTIFY", m_msg_cmd |-> "MC_COMPLETE",
                 m_session |-> Len(asked) + 1, m_ota_type |-> type, m_usb_dst |-> dst]
<1>1. call_ota_complete_upgrade(type, dst) = s
  BY DEF call_ota_complete_upgrade, Request, NewPackage, ++
<1>2. Arrives(s)
  BY CompleteNotify, ShortArrives
<1> QED
  BY <1>1, <1>2 DEF Made, MadeAs, To, Asks, Unwritten, Registers, ReadOnly

LEMMA DataMade ==
    ASSUME NEW dst
    PROVE  /\ Made(call_fetch_real_data(dst))
           /\ To(call_fetch_real_data(dst), dst)
<1> DEFINE s == [m_msg_type |-> "MT_REQUEST", m_msg_cmd |-> "MC_DATA", m_session |-> Len(asked) + 1,
                 m_usb_dst |-> dst]
<1>1. call_fetch_real_data(dst) = s
  BY DEF call_fetch_real_data, Request, NewPackage, ++
<1>2. Arrives(s)
  BY DataRequest, ShortArrives
<1> QED
  BY <1>1, <1>2 DEF Made, MadeAs, To, Asks, Unwritten, Registers, ReadOnly

LEMMA IdsMade ==
    Made(call_usb_serials_ids)
<1> DEFINE s == [m_msg_type |-> "MT_REQUEST", m_msg_cmd |-> "MC_USBDSTSerials_ID",
                 m_session |-> Len(asked) + 1]
<1>1. call_usb_serials_ids = s
  BY DEF call_usb_serials_ids, Request, NewPackage, ++
<1>2. Arrives(s)
  BY IdsRequest, ShortArrives
<1> QED
  BY <1>1, <1>2 DEF Made, MadeAs, To, Asks, Unwritten, Registers, ReadOnly

LEMMA JunctionMade ==
    Made(call_asic_junctions_temp)
<1> DEFINE s == [m_msg_type |-> "MT_REQUEST", m_msg_cmd |-> "MC_ASIC_JUNCTION_TEMP",
                 m_session |-> Len(asked) + 1]
<1>1. call_asic_junctions_temp = s
  BY DEF call_asic_junctions_temp, Request, NewPackage, ++
<1>2. Arrives(s)
  BY JunctionRequest, ShortArrives
<1> QED
  BY <1>1, <1>2 DEF Made, MadeAs, To, Asks, Unwritten, Registers, ReadOnly

LEMMA ValueMade ==
    ASSUME NEW dst, NEW type
    PROVE  /\ Made(call_get_value_from_dev(dst, type))
           /\ To(call_get_value_from_dev(dst, type), dst)
           /\ call_get_value_from_dev(dst, type).m_value_type = type
<1> DEFINE s == [m_msg_type |-> "MT_REQUEST", m_msg_cmd |-> "MC_GET_VALUE",
                 m_session |-> Len(asked) + 1, m_usb_dst |-> dst, m_value_type |-> type]
<1>1. call_get_value_from_dev(dst, type) = s
  BY DEF call_get_value_from_dev, Request, NewPackage, ++
<1>2. serial_to_bin(s) = NoBin
  BY DEF serial_to_bin, serail_request, serial_get_value_request
<1> QED
  BY <1>1, <1>2 DEF Made, MadeAs, To, Asks, Unwritten, Registers, ReadOnly

LEMMA PowerMade ==
    ASSUME NEW dst, NEW type, NEW sw, NEW utp40
    PROVE  /\ Made(call_powercontrol_req(dst, type, sw, utp40))
           /\ To(call_powercontrol_req(dst, type, sw, utp40), dst)
<1> DEFINE s == [m_msg_type |-> "MT_REQUEST", m_msg_cmd |-> "MC_COMMAND",
                 m_session |-> Len(asked) + 1, m_usb_dst |-> dst, m_command_type |-> type,
                 m_utp40_id |-> utp40, m_switch |-> sw]
<1>1. call_powercontrol_req(dst, type, sw, utp40) = s
  BY DEF call_powercontrol_req, Request, NewPackage, ++
<1>2. serial_to_bin(s) = NoBin
  BY DEF serial_to_bin, serail_request, serial_power_switch_request
<1> QED
  BY <1>1, <1>2 DEF Made, MadeAs, To, Asks, Unwritten, Registers, ReadOnly

LEMMA FrequencyMade ==
    ASSUME NEW dst, NEW type, NEW frequency, NEW channel
    PROVE  /\ Made(call_set_frequency(dst, type, frequency, channel))
           /\ To(call_set_frequency(dst, type, frequency, channel), dst)
<1> DEFINE s == [m_msg_type |-> "MT_REQUEST", m_msg_cmd |-> "MC_FREQUENCY",
                 m_session |-> Len(asked) + 1, m_usb_dst |-> dst, m_frequency_type |-> type,
                 m_frequency |-> frequency, m_channel |-> channel]
<1>1. call_set_frequency(dst, type, frequency, channel) = s
  BY DEF call_set_frequency, Request, NewPackage, ++
<1>2. serial_to_bin(s) = NoBin
  BY DEF serial_to_bin, serail_request, serial_frequency_set_request
<1> QED
  BY <1>1, <1>2 DEF Made, MadeAs, To, Asks, Unwritten, Registers, ReadOnly

LEMMA UtpMade ==
    ASSUME NEW dst, NEW chip
    PROVE  /\ Made(call_get_one_utp_register(dst, chip))
           /\ To(call_get_one_utp_register(dst, chip), dst)
<1> DEFINE s == [m_msg_type |-> "MT_REQUEST", m_msg_cmd |-> "MC_GET_UTP_REGISTER",
                 m_session |-> Len(asked) + 1, m_usb_dst |-> dst, m_utp_chip_id |-> chip]
<1>1. call_get_one_utp_register(dst, chip) = s
  BY DEF call_get_one_utp_register, Request, NewPackage, ++
<1>2. serial_to_bin(s) = NoBin
  BY DEF serial_to_bin, serail_request, serial_get_utp_register_request
<1> QED
  BY <1>1, <1>2 DEF Made, MadeAs, To, Asks, Unwritten, Registers, ReadOnly

LEMMA Utp102Made ==
    ASSUME NEW dst, NEW chip
    PROVE  /\ Made(call_get_one_utp102_register(dst, chip))
           /\ To(call_get_one_utp102_register(dst, chip), dst)
<1> DEFINE s == [m_msg_type |-> "MT_REQUEST", m_msg_cmd |-> "MC_GET_UTP102_REGISTER",
                 m_session |-> Len(asked) + 1, m_usb_dst |-> dst, m_utp_chip_id |-> chip]
<1>1. call_get_one_utp102_register(dst, chip) = s
  BY DEF call_get_one_utp102_register, Request, NewPackage, ++
<1>2. serial_to_bin(s) = NoBin
  BY DEF serial_to_bin, serail_request, serial_get_utp_register_request
<1> QED
  BY <1>1, <1>2 DEF Made, MadeAs, To, Asks, Unwritten, Registers, ReadOnly

-----------------------------------------------------------------------------
(* Where the items of a list end.                                          *)

Smaller == {ss \in Nat \X Nat : ss[1] < ss[2]}

\* A set of numbers that is not empty has a least one.
LEMMA SmallestNat ==
    ASSUME NEW T \in SUBSET Nat, T # {}
    PROVE  \E m \in T : \A n \in T : m <= n
<1>1. IsWellFoundedOn(Smaller, Nat)
  BY NatLessThanWellFounded, Zenon DEF OpToRel, Smaller
<1>2. PICK x \in T : \A y \in T : ~ (<<y, x>> \in Smaller)
  BY <1>1, WFMin, Zenon
<1>3. ASSUME NEW y \in T PROVE x <= y
  <2>1. x \in Nat /\ y \in Nat
    OBVIOUS
  <2>2. y < x => <<y, x>> \in Smaller
    <3>1. <<y, x>> \in Nat \X Nat /\ <<y, x>>[1] = y /\ <<y, x>>[2] = x
      BY <2>1
    <3> QED
      BY <3>1, Zenon DEF Smaller
  <2> QED
    BY <1>2, <2>1, <2>2
<1> QED
  BY <1>3

\* h[j] is where the j-th item ends, for j up to n.
Ends(items, n, h) == h = [j \in 0 .. n |-> IF j = 0 THEN 0 ELSE h[j - 1] + ItemSize(items[j])]

\* No item is shorter than two bytes.
Sized(items) ==
    /\ IsSeq(items)
    /\ \A k \in 1 .. Len(items) : ItemSize(items[k]) \in Nat /\ ItemSize(items[k]) >= 2

\* The sums that EndOf chooses exist,
LEMMA EndsExist ==
    ASSUME NEW items, Sized(items)
    PROVE  \E h \in [0 .. Len(items) -> Nat] : Ends(items, Len(items), h)
<1> DEFINE T == {n \in 0 .. Len(items) : ~ \E h \in [0 .. n -> Nat] : Ends(items, n, h)}
<1>0. Len(items) \in Nat
  BY SeqFacts DEF Sized
<1>1. SUFFICES ASSUME T # {} PROVE FALSE
  BY <1>0
<1>2. PICK m \in T : \A n \in T : m <= n
  <2>1. T \in SUBSET Nat
    BY <1>0
  <2> QED
    BY <1>1, <2>1, SmallestNat, Zenon
<1>3. m # 0
  <2>1. [j \in 0 .. 0 |-> 0] \in [0 .. 0 -> Nat] /\ Ends(items, 0, [j \in 0 .. 0 |-> 0])
    BY DEF Ends
  <2> QED
    BY <2>1
<1>4. m \in 1 .. Len(items) /\ m - 1 \in 0 .. Len(items) /\ m - 1 \notin T
  <2>1. m \in 0 .. Len(items)
    OBVIOUS
  <2>2. m \in 1 .. Len(items) /\ m - 1 \in 0 .. Len(items) /\ ~ (m <= m - 1)
    BY <2>1, <1>3, <1>0
  <2> HIDE DEF T
  <2> QED
    BY <1>2, <2>2
<1>5. PICK g \in [0 .. m - 1 -> Nat] : Ends(items, m - 1, g)
  BY <1>4
<1> DEFINE h == [j \in 0 .. m |-> IF j < m THEN g[j] ELSE g[j - 1] + ItemSize(items[j])]
<1>6. h \in [0 .. m -> Nat]
  BY <1>0, <1>4 DEF Sized
<1>7. Ends(items, m, h)
  <2>1. ASSUME NEW j \in 0 .. m
        PROVE  h[j] = IF j = 0 THEN 0 ELSE h[j - 1] + ItemSize(items[j])
    <3>1. CASE j < m
      <4>1. j \in 0 .. m - 1 /\ h[j] = g[j]
        BY <3>1, <1>4, <1>0
      <4>2. g[j] = IF j = 0 THEN 0 ELSE g[j - 1] + ItemSize(items[j])
        BY <1>5, <4>1 DEF Ends
      <4>3. j # 0 => h[j - 1] = g[j - 1]
        BY <4>1
      <4> QED
        BY <4>1, <4>2, <4>3
    <3>2. CASE j = m
      BY <3>2, <1>4, <1>0
    <3> QED
      BY <3>1, <3>2
  <2>2. h = [j \in 0 .. m |-> h[j]]
    OBVIOUS
  <2> HIDE DEF h
  <2> QED
    BY <2>1, <2>2 DEF Ends
<1> QED
  BY <1>2, <1>6, <1>7

\* and there is one function of them:
LEMMA EndsUnique ==
    ASSUME NEW items, NEW n \in Nat, NEW g, NEW h, Ends(items, n, g), Ends(items, n, h)
    PROVE  g = h
<1> DEFINE T == {i \in 0 .. n : g[i] # h[i]}
<1>1. /\ \A i \in 0 .. n : g[i] = IF i = 0 THEN 0 ELSE g[i - 1] + ItemSize(items[i])
      /\ \A i \in 0 .. n : h[i] = IF i = 0 THEN 0 ELSE h[i - 1] + ItemSize(items[i])
  BY DEF Ends
<1>2. ASSUME T # {} PROVE FALSE
  <2>0. T \in SUBSET Nat
    OBVIOUS
  <2>1. PICK m \in T : \A i \in T : m <= i
    BY <1>2, <2>0, SmallestNat, Zenon
  <2>2. m # 0 => m - 1 \in 0 .. n /\ m - 1 \notin T
    BY <2>1
  <2> QED
    BY <1>1, <2>1, <2>2
<1>3. g = [i \in 0 .. n |-> g[i]] /\ h = [i \in 0 .. n |-> h[i]]
  BY DEF Ends
<1> QED
  BY <1>2, <1>3

\* so that EndOf is the end of the item before, and one item more.
LEMMA EndOfMeans ==
    ASSUME NEW items, Sized(items)
    PROVE  /\ EndOf(items, 0) = 0
           /\ \A k \in 0 .. Len(items) : EndOf(items, k) \in Nat
           /\ \A k \in 1 .. Len(items) : EndOf(items, k) = EndOf(items, k - 1) + ItemSize(items[k])
<1>0. Len(items) \in Nat
  BY SeqFacts DEF Sized
<1>1. PICK h \in [0 .. Len(items) -> Nat] : Ends(items, Len(items), h)
  BY EndsExist
<1>2. \A g : Ends(items, Len(items), g) => g = h
  BY <1>0, <1>1, EndsUnique
<1>3. \A g : g = [j \in 0 .. Len(items) |-> IF j = 0 THEN 0 ELSE g[j - 1] + ItemSize(items[j])]
         => g = h
  BY <1>2 DEF Ends
<1>4. h = [j \in 0 .. Len(items) |-> IF j = 0 THEN 0 ELSE h[j - 1] + ItemSize(items[j])]
  BY <1>1 DEF Ends
<1>5. (CHOOSE g : g = [j \in 0 .. Len(items) |->
                           IF j = 0 THEN 0 ELSE g[j - 1] + ItemSize(items[j])]) = h
  BY <1>3, <1>4, Zenon
<1>6. \A k : EndOf(items, k) = h[k]
  BY <1>5, Zenon DEF EndOf
<1>7. \A k \in 0 .. Len(items) : h[k] = IF k = 0 THEN 0 ELSE h[k - 1] + ItemSize(items[k])
  BY <1>1 DEF Ends
<1>8. EndOf(items, 0) = 0
  BY <1>0, <1>6, <1>7
<1>9. \A k \in 0 .. Len(items) : EndOf(items, k) \in Nat
  BY <1>1, <1>6
<1>10. ASSUME NEW k \in 1 .. Len(items)
       PROVE  EndOf(items, k) = EndOf(items, k - 1) + ItemSize(items[k])
  <2>1. k \in 0 .. Len(items) /\ k # 0
    BY <1>0
  <2>2. h[k] = h[k - 1] + ItemSize(items[k])
    BY <1>7, <2>1
  <2> QED
    BY <1>6, <2>2
<1> QED
  BY <1>8, <1>9, <1>10

\* Every item ends at least two bytes behind the one before it.
LEMMA EndOfGrows ==
    ASSUME NEW items, Sized(items), NEW j \in 0 .. Len(items), NEW k \in 0 .. Len(items), j < k
    PROVE  EndOf(items, j) + 2 <= EndOf(items, k)
<1> DEFINE T == {i \in 0 .. Len(items) : j < i /\ ~(EndOf(items, j) + 2 <= EndOf(items, i))}
<1>0. Len(items) \in Nat
  BY SeqFacts DEF Sized
<1>1. SUFFICES ASSUME T # {} PROVE FALSE
  OBVIOUS
<1>2. PICK m \in T : \A i \in T : m <= i
  <2>1. T \in SUBSET Nat
    BY <1>0
  <2> QED
    BY <1>1, <2>1, SmallestNat, Zenon
<1>3. m - 1 \in 0 .. Len(items) /\ m - 1 \notin T /\ j <= m - 1 /\ m \in 1 .. Len(items)
  <2>1. m \in 0 .. Len(items) /\ j < m
    OBVIOUS
  <2>2. m - 1 \in 0 .. Len(items) /\ ~ (m <= m - 1) /\ j <= m - 1 /\ m \in 1 .. Len(items)
    BY <2>1, <1>0
  <2> HIDE DEF T
  <2> QED
    BY <1>2, <2>2
<1>4. /\ EndOf(items, m) = EndOf(items, m - 1) + ItemSize(items[m])
      /\ EndOf(items, m - 1) \in Nat /\ EndOf(items, j) \in Nat
  BY <1>3, EndOfMeans
<1>5. ItemSize(items[m]) \in Nat /\ ItemSize(items[m]) >= 2
  BY <1>3 DEF Sized
<1>6. EndOf(items, j) <= EndOf(items, m - 1)
  BY <1>3, <1>4
<1> QED
  BY <1>4, <1>5, <1>6

-----------------------------------------------------------------------------
(* Answers.                                                                *)

\* An answer of the device manager to one of the requests.
IsAnswer(a) ==
    /\ a.m_msg_type = "MT_RESPOND" /\ a.m_msg_cmd \in Asks
    /\ a.m_err_code \in Int
    /\ IsSeq(a.items)
    /\ a.cut \in {0, 1} /\ a.cut <= Len(a.items)
    /\ IF a.m_msg_cmd = "MC_GET_VALUE" THEN a.cut = 0
       ELSE IF a.m_msg_cmd \in Lists THEN Sized(a.items)
       ELSE a.items = <<>>

\* What is read of it, if it is short: what was sent.
Whole(a, r) ==
    /\ a.cut = 0
    /\ r.m_err_code = Misread(a.m_err_code)
    /\ "m_value_dev" \in DOMAIN r => r.m_value_dev = a.items
    /\ "m_usbdst_ids" \in DOMAIN r => r.m_usbdst_ids = a.items
    /\ "m_junctions" \in DOMAIN r => r.m_junctions = a.items
    /\ "m_rw_data" \in DOMAIN r =>
          DOMAIN r.m_rw_data = {a.items[i].tid : i \in DOMAIN a.items}

\* What is read of any.
Faithful(a, r) ==
    /\ {"m_err_code", "m_session"} \subseteq DOMAIN r
    /\ r.m_err_code \in Int
    /\ r.m_session = Misread(a.m_session)
    /\ a.m_msg_cmd = "MC_GET_VALUE" =>
          /\ "m_value_dev" \in DOMAIN r
          /\ r.m_value_dev = Heard(a)
          /\ r.m_err_code = Misread(a.m_err_code)
    /\ Short(serial_to_bin(a)) => Whole(a, r)

\* An answer with an error code: no list is read of it.
LEMMA ErrorAnswer ==
    ASSUME NEW a, IsAnswer(a),
           a.m_msg_cmd \in {"MC_START", "MC_CANCEL", "MC_CAL_READ", "MC_COMMAND", "MC_FREQUENCY"}
    PROVE  Faithful(a, parse_from_bin(Delivered(serial_to_bin(a))))
<1> DEFINE p == Delivered(serial_to_bin(a))
           ints == Put(14, 4, a.m_err_code)
<1>1. p = Delivered(Written(a, 18, 4, ints, <<>>))
  BY DEF IsAnswer, serial_to_bin, serail_response, serial_start_response, serial_cancel_response,
         serial_cal_read_response, ErrorOnly
<1>2. DOMAIN ints = {<<14, 4>>} /\ ints[<<14, 4>>] = a.m_err_code
  BY DEF Put
<1> HIDE DEF ints, p
<1>3. Reads(p, a, 4, ints)
  <2>1. 4 \in 0 .. 255 /\ 18 \in Nat /\ 18 - 4 = 14
    OBVIOUS
  <2> QED
    BY <1>1, <2>1, ReadsAsWritten
<1>4. /\ p.len = 18 /\ load_len(p) = 4 /\ At(p, 0, 2) = "FFA5" /\ At(p, 2, 1) = "MT_RESPOND"
      /\ At(p, 3, 1) = a.m_msg_cmd /\ Int4(p, 6) = Misread(a.m_session)
  BY <1>3 DEF Reads, IsAnswer
<1>5. Int4(p, 14) = Misread(a.m_err_code)
  BY <1>2, <1>3 DEF Reads, Int4
<1>6. parse_from_bin(p) = Header(p) ++ [m_err_code |-> Int4(p, 14)]
  BY <1>4 DEF parse_from_bin, parse_msg_header, parse_response_body, parse_start_response_body,
              parse_cancel_response_body, parse_cal_read_response_body,
              parse_power_switch_response_body, parse_frequency_set_response_body,
              ErrorAt14, Members
<1>7. parse_from_bin(p) = [m_msg_type |-> "MT_RESPOND", m_msg_cmd |-> a.m_msg_cmd,
                           m_session |-> Misread(a.m_session),
                           m_err_code |-> Misread(a.m_err_code)]
  BY <1>4, <1>5, <1>6 DEF Header, ++
<1>8. Misread(a.m_err_code) \in Int /\ a.cut = 0
  <2>1. a.items = <<>> /\ Len(<<>>) = 0
    BY DEF IsAnswer, Lists
  <2> QED
    BY <2>1, MisreadFacts DEF IsAnswer
<1> QED
  BY <1>7, <1>8 DEF Faithful, Whole, p

\* The answer that carries two numbers more.
LEMMA QueryAnswer ==
    ASSUME NEW a, IsAnswer(a), a.m_msg_cmd = "MC_QUERY"
    PROVE  Faithful(a, parse_from_bin(Delivered(serial_to_bin(a))))
<1> DEFINE p == Delivered(serial_to_bin(a))
           ints == Put(14, 4, a.m_upgrade_progress) ++ Put(18, 4, a.m_total_len)
                       ++ Put(22, 4, a.m_err_code)
<1>1. p = Delivered(Written(a, 26, 12, ints, <<>>))
  BY DEF IsAnswer, serial_to_bin, serail_response, serial_query_response
<1>2. <<22, 4>> \in DOMAIN ints /\ ints[<<22, 4>>] = a.m_err_code
  BY DEF Put, ++
<1> HIDE DEF ints, p
<1>3. Reads(p, a, 12, ints)
  <2>1. 12 \in 0 .. 255 /\ 26 \in Nat /\ 26 - 12 = 14
    OBVIOUS
  <2> QED
    BY <1>1, <2>1, ReadsAsWritten
<1>4. /\ p.len = 26 /\ load_len(p) = 12 /\ At(p, 0, 2) = "FFA5" /\ At(p, 2, 1) = "MT_RESPOND"
      /\ At(p, 3, 1) = "MC_QUERY" /\ Int4(p, 6) = Misread(a.m_session)
  BY <1>3 DEF Reads, IsAnswer
<1>5. Int4(p, 22) = Misread(a.m_err_code)
  BY <1>2, <1>3 DEF Reads, Int4
<1>6. parse_from_bin(p) = Header(p) ++ [m_upgrade_progress |-> Int4(p, 14),
                                        m_total_len |-> Int4(p, 18), m_err_code |-> Int4(p, 22)]
  BY <1>4 DEF parse_from_bin, parse_msg_header, parse_response_body, parse_query_response_body,
              Members
<1>7. parse_from_bin(p) = [m_msg_type |-> "MT_RESPOND", m_msg_cmd |-> "MC_QUERY",
                           m_session |-> Misread(a.m_session), m_upgrade_progress |-> Int4(p, 14),
                           m_total_len |-> Int4(p, 18), m_err_code |-> Misread(a.m_err_code)]
  BY <1>4, <1>5, <1>6 DEF Header, ++
<1>8. Misread(a.m_err_code) \in Int /\ a.cut = 0
  <2>1. a.items = <<>> /\ Len(<<>>) = 0
    BY DEF IsAnswer, Lists
  <2> QED
    BY <2>1, MisreadFacts DEF IsAnswer
<1> QED
  BY <1>7, <1>8 DEF Faithful, Whole, p

\* A list is read whole if it is whole, and refused if bytes of it are lost.
LEMMA ListRead ==
    ASSUME NEW p, Sized(p.tail), NEW c \in {0, 1}, c <= Len(p.tail),
           NEW size, size = EndOf(p.tail, Len(p.tail)) - c
    PROVE  IF c = 0 THEN ~Overrun(p, size) /\ ItemsRead(p, size) = p.tail
           ELSE Overrun(p, size)
<1> DEFINE v == p.tail
           n == Len(v)
<1>0. n \in Nat
  BY SeqFacts DEF Sized
<1>1. /\ \A k \in 0 .. n : EndOf(v, k) \in Nat
      /\ \A k \in 1 .. n : EndOf(v, k - 1) \in Nat /\ EndOf(v, k - 1) + 2 <= EndOf(v, k)
  <2>1. \A k \in 0 .. n : EndOf(v, k) \in Nat
    BY EndOfMeans
  <2>2. ASSUME NEW k \in 1 .. n PROVE EndOf(v, k - 1) \in Nat /\ EndOf(v, k - 1) + 2 <= EndOf(v, k)
    <3>1. k - 1 \in 0 .. n /\ k \in 0 .. n /\ k - 1 < k
      BY <1>0
    <3> QED
      BY <3>1, <2>1, EndOfGrows
  <2> QED
    BY <2>1, <2>2
<1>2. ASSUME NEW k \in 0 .. n
      PROVE  EndOf(v, k) <= EndOf(v, n)
  <2>1. n \in 0 .. n /\ EndOf(v, k) \in Nat /\ EndOf(v, n) \in Nat
    BY <1>0, <1>1
  <2>2. CASE k < n
    <3>1. EndOf(v, k) + 2 <= EndOf(v, n)
      BY <2>1, <2>2, EndOfGrows
    <3> QED
      BY <2>1, <3>1
  <2>3. CASE k = n
    BY <2>1, <2>3
  <2> QED
    BY <1>0, <2>2, <2>3
<1>3. CASE c = 0
  <2>1. size = EndOf(v, n) /\ size \in Nat
    BY <1>0, <1>1, <1>3
  <2>2. \A k \in 1 .. n : EndOf(v, k - 1) < size
    <3>1. ASSUME NEW k \in 1 .. n PROVE EndOf(v, k - 1) < size
      <4>1. /\ k \in 0 .. n /\ EndOf(v, k) \in Nat /\ EndOf(v, k - 1) \in Nat
            /\ EndOf(v, k - 1) + 2 <= EndOf(v, k)
        BY <1>0, <1>1
      <4>2. EndOf(v, k) <= size
        BY <4>1, <1>2, <2>1
      <4> QED
        BY <4>1, <4>2, <2>1
    <3> QED
      BY <3>1
  <2>3. Reached(p, size) = 1 .. n
    BY <2>2 DEF Reached
  <2>4. ~Overrun(p, size)
    <3>1. ASSUME NEW k \in 1 .. n PROVE ~(EndOf(v, k) > size)
      <4>1. k \in 0 .. n
        BY <1>0
      <4> QED
        BY <4>1, <1>1, <1>2, <2>1
    <3> QED
      BY <2>3, <3>1 DEF Overrun
  <2>5. Cardinality(1 .. n) = n
    BY <1>0, FS_Interval
  <2>6. ItemsRead(p, size) = SubSeq(v, 1, n)
    BY <2>3, <2>5 DEF ItemsRead
  <2>7. SubSeq(v, 1, n) = v
    BY SeqFacts DEF Sized
  <2> QED
    BY <1>3, <2>4, <2>6, <2>7
<1>4. CASE c = 1
  <2>1. n \in 1 .. n /\ n \in 0 .. n
    BY <1>0, <1>4
  <2>2. /\ size = EndOf(v, n) - 1 /\ EndOf(v, n) \in Nat /\ EndOf(v, n - 1) \in Nat
        /\ EndOf(v, n - 1) + 2 <= EndOf(v, n)
    BY <1>1, <1>4, <2>1
  <2>3. n \in Reached(p, size)
    BY <2>1, <2>2 DEF Reached
  <2>4. EndOf(p.tail, n) > size
    BY <2>2
  <2> QED
    BY <1>4, <2>3, <2>4 DEF Overrun
<1> QED
  BY <1>3, <1>4

\* How much of a list is sent.
SentSize(a) == EndOf(a.items, Len(a.items)) - a.cut

LEMMA SentSizeFacts ==
    ASSUME NEW a, IsAnswer(a), a.m_msg_cmd \in Lists
    PROVE  SentSize(a) \in Nat /\ Sized(a.items)
<1>1. Sized(a.items) /\ a.cut \in {0, 1} /\ a.cut <= Len(a.items)
  BY DEF IsAnswer, Lists
<1>2. Len(a.items) \in Nat
  BY <1>1, SeqFacts DEF Sized
<1>3. EndOf(a.items, Len(a.items)) \in Nat
  BY <1>1, <1>2, EndOfMeans
<1>4. CASE a.cut = 0
  BY <1>1, <1>3, <1>4 DEF SentSize
<1>5. CASE a.cut = 1
  <2>1. 0 \in 0 .. Len(a.items) /\ Len(a.items) \in 0 .. Len(a.items) /\ 0 < Len(a.items)
    BY <1>1, <1>2, <1>5
  <2>2. EndOf(a.items, 0) + 2 <= EndOf(a.items, Len(a.items)) /\ EndOf(a.items, 0) = 0
    BY <1>1, <2>1, EndOfGrows, EndOfMeans
  <2> QED
    BY <1>1, <1>3, <1>5, <2>2 DEF SentSize
<1> QED
  BY <1>1, <1>4, <1>5

\* What is read of an answer with items, whose integers end at head and whose list
\* takes size bytes.
AnsweredAt(a, p, head, at, size) ==
    /\ At(p, 0, 2) = "FFA5" /\ At(p, 2, 1) = "MT_RESPOND" /\ At(p, 3, 1) = a.m_msg_cmd
    /\ Int4(p, 6) = Misread(a.m_session) /\ p.tail = a.items
    /\ load_len(p) \in Nat
    /\ p.len = 14 + load_len(p)
    /\ Int4(p, at) \in Int
    /\ at + 4 <= p.len => Int4(p, at) = Misread(a.m_err_code)
    /\ head + size < 14 + 256 => load_len(p) = head - 14 + size

\* The device manager writes it so.
LEMMA OtherRead ==
    ASSUME NEW a, IsAnswer(a), NEW head \in {18, 22}, NEW size \in Nat, NEW ints,
           NEW at \in {14, 18}, at + 4 <= head, <<at, 4>> \in DOMAIN ints,
           ints[<<at, 4>>] = a.m_err_code,
           NEW p, p = Delivered(Resized(Written(a, head, head - 14 + size, ints, a.items),
                                        head + size))
    PROVE  AnsweredAt(a, p, head, at, size)
<1> DEFINE load == head - 14 + size
<1>1. load \in Nat /\ head + size \in Nat /\ head + size >= 14
  OBVIOUS
<1>2. p = Delivered(Resized(Written(a, head, load, ints, a.items), head + size))
  OBVIOUS
<1>3. head + size < 14 + 256 => load \in 0 .. 255
  BY <1>1
<1> HIDE DEF load
<1>4. /\ At(p, 0, 2) = "FFA5" /\ At(p, 2, 1) = a.m_msg_type /\ At(p, 3, 1) = a.m_msg_cmd
      /\ Int4(p, 6) = Misread(a.m_session) /\ p.tail = a.items
      /\ load_len(p) = Misread(load) /\ p.len = 14 + Misread(load)
      /\ \A o \in {14, 18, 22, 26} : \A w \in {2, 4, 8} :
            <<o, w>> \in DOMAIN ints =>
                At(p, o, w) = IF o + w <= p.len THEN ints[<<o, w>>] ELSE Torn
  BY <1>1, <1>2, ReadsAsDelivered
<1>5. Misread(load) \in Nat /\ (load \in 0 .. 255 => Misread(load) = load)
  BY <1>1, MisreadFacts
<1>6. At(p, at, 4) = IF at + 4 <= p.len THEN a.m_err_code ELSE Torn
  BY <1>4
<1>7. a.m_err_code \in Int /\ Torn \in Int
  BY DEF IsAnswer, Torn
<1>8. Int4(p, at) \in Int /\ (at + 4 <= p.len => Int4(p, at) = Misread(a.m_err_code))
  BY <1>6, <1>7, MisreadFacts DEF Int4
<1>9. head + size < 14 + 256 => load_len(p) = load
  BY <1>3, <1>4, <1>5
<1>10. a.m_msg_type = "MT_RESPOND"
  BY DEF IsAnswer
<1> QED
  BY <1>4, <1>5, <1>8, <1>9, <1>10 DEF load, AnsweredAt

\* The three lists,
LEMMA DataAnswer ==
    ASSUME NEW a, IsAnswer(a), a.m_msg_cmd = "MC_DATA",
           NEW r, r = parse_from_bin(Delivered(serial_to_bin(a))), r # Refused
    PROVE  Faithful(a, r)
<1> DEFINE q == serial_to_bin(a)
           p == Delivered(q)
           ints == Put(14, 4, a.m_usb_dst) ++ Put(18, 4, a.m_err_code)
           sent == SentSize(a)
           size == load_len(p) - 8
<1>1. sent \in Nat /\ Sized(a.items)
  BY SentSizeFacts DEF Lists
<1>2. q = Resized(Written(a, 22, 22 - 14 + sent, ints, a.items), 22 + sent)
  BY DEF IsAnswer, serial_to_bin, serail_response, OtherResponse, Resized, SentSize
<1>3. <<18, 4>> \in DOMAIN ints /\ ints[<<18, 4>>] = a.m_err_code
  BY DEF Put, ++
<1>4. q.len = 22 + sent
  BY <1>2 DEF Resized, Written
<1>5. p = Delivered(Resized(Written(a, 22, 22 - 14 + sent, ints, a.items), 22 + sent))
  BY <1>2
<1> HIDE DEF ints, q, p, sent, size
<1>6. /\ At(p, 0, 2) = "FFA5" /\ At(p, 2, 1) = "MT_RESPOND" /\ At(p, 3, 1) = "MC_DATA"
      /\ Int4(p, 6) = Misread(a.m_session) /\ p.tail = a.items
      /\ load_len(p) \in Nat /\ p.len = 14 + load_len(p)
      /\ Int4(p, 18) \in Int
      /\ 18 + 4 <= p.len => Int4(p, 18) = Misread(a.m_err_code)
      /\ 22 + sent < 14 + 256 => load_len(p) = 22 - 14 + sent
  <2>1. 22 \in {18, 22} /\ 18 \in {14, 18} /\ 18 + 4 <= 22
    OBVIOUS
  <2>2. AnsweredAt(a, p, 22, 18, sent)
    BY <1>1, <1>3, <1>5, <2>1, OtherRead
  <2> QED
    BY <2>2 DEF AnsweredAt
<1>7. r = parse_data_response_body(p) \/ r = Refused
  BY <1>6 DEF parse_from_bin, parse_msg_header, parse_response_body, p, q
<1>8. ~Overrun(p, size) /\ r = Header(p) ++ [m_usb_dst |-> Int4(p, 14), m_err_code |-> Int4(p, 18),
                                             m_rw_data |-> DataMap(ItemsRead(p, size))]
  BY <1>6, <1>7 DEF parse_data_response_body, Members, size
<1>9. r = [m_msg_type |-> "MT_RESPOND", m_msg_cmd |-> "MC_DATA",
           m_session |-> Misread(a.m_session), m_usb_dst |-> Int4(p, 14), m_err_code |-> Int4(p, 18),
           m_rw_data |-> DataMap(ItemsRead(p, size))]
  BY <1>6, <1>8 DEF Header, ++
<1>10. ASSUME Short(q) PROVE Whole(a, r)
  <2>1. 22 + sent < 14 + 256
    BY <1>4, <1>10 DEF Short
  <2>2. size = sent /\ 18 + 4 <= p.len
    BY <1>1, <1>6, <2>1 DEF size
  <2>3. a.cut = 0 /\ ItemsRead(p, size) = a.items
    <3>1. size = EndOf(p.tail, Len(p.tail)) - a.cut
      BY <1>6, <2>2 DEF sent, SentSize
    <3>2. Sized(p.tail) /\ a.cut \in {0, 1} /\ a.cut <= Len(p.tail)
      BY <1>1, <1>6 DEF IsAnswer
    <3>3. IF a.cut = 0 THEN ~Overrun(p, size) /\ ItemsRead(p, size) = p.tail ELSE Overrun(p, size)
      BY <3>1, <3>2, ListRead
    <3> QED
      BY <1>6, <1>8, <3>3
  <2>4. DOMAIN DataMap(a.items) = {a.items[i].tid : i \in DOMAIN a.items}
    BY DEF DataMap
  <2> QED
    BY <1>6, <1>9, <2>2, <2>3, <2>4 DEF Whole
<1> QED
  BY <1>6, <1>9, <1>10 DEF Faithful, q

LEMMA IdsAnswer ==
    ASSUME NEW a, IsAnswer(a), a.m_msg_cmd = "MC_USBDSTSerials_ID",
           NEW r, r = parse_from_bin(Delivered(serial_to_bin(a))), r # Refused
    PROVE  Faithful(a, r)
<1> DEFINE q == serial_to_bin(a)
           p == Delivered(q)
           ints == Put(14, 4, a.m_err_code)
           sent == SentSize(a)
           size == load_len(p) - 4
<1>1. sent \in Nat /\ Sized(a.items)
  BY SentSizeFacts DEF Lists
<1>2. q = Resized(Written(a, 18, 18 - 14 + sent, ints, a.items), 18 + sent)
  BY DEF IsAnswer, serial_to_bin, serail_response, OtherResponse, Resized, SentSize
<1>3. <<14, 4>> \in DOMAIN ints /\ ints[<<14, 4>>] = a.m_err_code
  BY DEF Put
<1>4. q.len = 18 + sent
  BY <1>2 DEF Resized, Written
<1>5. p = Delivered(Resized(Written(a, 18, 18 - 14 + sent, ints, a.items), 18 + sent))
  BY <1>2
<1> HIDE DEF ints, q, p, sent, size
<1>6. /\ At(p, 0, 2) = "FFA5" /\ At(p, 2, 1) = "MT_RESPOND" /\ At(p, 3, 1) = "MC_USBDSTSerials_ID"
      /\ Int4(p, 6) = Misread(a.m_session) /\ p.tail = a.items
      /\ load_len(p) \in Nat /\ p.len = 14 + load_len(p)
      /\ Int4(p, 14) \in Int
      /\ 14 + 4 <= p.len => Int4(p, 14) = Misread(a.m_err_code)
      /\ 18 + sent < 14 + 256 => load_len(p) = 18 - 14 + sent
  <2>1. 18 \in {18, 22} /\ 14 \in {14, 18} /\ 14 + 4 <= 18
    OBVIOUS
  <2>2. AnsweredAt(a, p, 18, 14, sent)
    BY <1>1, <1>3, <1>5, <2>1, OtherRead
  <2> QED
    BY <2>2 DEF AnsweredAt
<1>7. r = parse_usbdstids_response_body(p) \/ r = Refused
  BY <1>6 DEF parse_from_bin, parse_msg_header, parse_response_body, p, q
<1>8. ~Overrun(p, size) /\ r = Header(p) ++ [m_err_code |-> Int4(p, 14),
                                             m_usbdst_ids |-> ItemsRead(p, size)]
  BY <1>6, <1>7 DEF parse_usbdstids_response_body, Members, size
<1>9. r = [m_msg_type |-> "MT_RESPOND", m_msg_cmd |-> "MC_USBDSTSerials_ID",
           m_session |-> Misread(a.m_session), m_err_code |-> Int4(p, 14),
           m_usbdst_ids |-> ItemsRead(p, size)]
  BY <1>6, <1>8 DEF Header, ++
<1>10. ASSUME Short(q) PROVE Whole(a, r)
  <2>1. 18 + sent < 14 + 256
    BY <1>4, <1>10 DEF Short
  <2>2. size = sent /\ 14 + 4 <= p.len
    BY <1>1, <1>6, <2>1 DEF size
  <2>3. a.cut = 0 /\ ItemsRead(p, size) = a.items
    <3>1. size = EndOf(p.tail, Len(p.tail)) - a.cut
      BY <1>6, <2>2 DEF sent, SentSize
    <3>2. Sized(p.tail) /\ a.cut \in {0, 1} /\ a.cut <= Len(p.tail)
      BY <1>1, <1>6 DEF IsAnswer
    <3>3. IF a.cut = 0 THEN ~Overrun(p, size) /\ ItemsRead(p, size) = p.tail ELSE Overrun(p, size)
      BY <3>1, <3>2, ListRead
    <3> QED
      BY <1>6, <1>8, <3>3
  <2> QED
    BY <1>6, <1>9, <2>2, <2>3 DEF Whole
<1> QED
  BY <1>6, <1>9, <1>10 DEF Faithful, q

LEMMA JunctionAnswer ==
    ASSUME NEW a, IsAnswer(a), a.m_msg_cmd = "MC_ASIC_JUNCTION_TEMP",
           NEW r, r = parse_from_bin(Delivered(serial_to_bin(a))), r # Refused
    PROVE  Faithful(a, r)
<1> DEFINE q == serial_to_bin(a)
           p == Delivered(q)
           ints == Put(14, 4, a.m_err_code)
           sent == SentSize(a)
           size == load_len(p) - 4
<1>1. sent \in Nat /\ Sized(a.items)
  BY SentSizeFacts DEF Lists
<1>2. q = Resized(Written(a, 18, 18 - 14 + sent, ints, a.items), 18 + sent)
  BY DEF IsAnswer, serial_to_bin, serail_response, OtherResponse, Resized, SentSize
<1>3. <<14, 4>> \in DOMAIN ints /\ ints[<<14, 4>>] = a.m_err_code
  BY DEF Put
<1>4. q.len = 18 + sent
  BY <1>2 DEF Resized, Written
<1>5. p = Delivered(Resized(Written(a, 18, 18 - 14 + sent, ints, a.items), 18 + sent))
  BY <1>2
<1> HIDE DEF ints, q, p, sent, size
<1>6. /\ At(p, 0, 2) = "FFA5" /\ At(p, 2, 1) = "MT_RESPOND" /\ At(p, 3, 1) = "MC_ASIC_JUNCTION_TEMP"
      /\ Int4(p, 6) = Misread(a.m_session) /\ p.tail = a.items
      /\ load_len(p) \in Nat /\ p.len = 14 + load_len(p)
      /\ Int4(p, 14) \in Int
      /\ 14 + 4 <= p.len => Int4(p, 14) = Misread(a.m_err_code)
      /\ 18 + sent < 14 + 256 => load_len(p) = 18 - 14 + sent
  <2>1. 18 \in {18, 22} /\ 14 \in {14, 18} /\ 14 + 4 <= 18
    OBVIOUS
  <2>2. AnsweredAt(a, p, 18, 14, sent)
    BY <1>1, <1>3, <1>5, <2>1, OtherRead
  <2> QED
    BY <2>2 DEF AnsweredAt
<1>7. r = parse_junction_temp_response_body(p) \/ r = Refused
  BY <1>6 DEF parse_from_bin, parse_msg_header, parse_response_body, p, q
<1>8. ~Overrun(p, size) /\ r = Header(p) ++ [m_err_code |-> Int4(p, 14),
                                             m_junctions |-> ItemsRead(p, size)]
  BY <1>6, <1>7 DEF parse_junction_temp_response_body, Members, size
<1>9. r = [m_msg_type |-> "MT_RESPOND", m_msg_cmd |-> "MC_ASIC_JUNCTION_TEMP",
           m_session |-> Misread(a.m_session), m_err_code |-> Int4(p, 14),
           m_junctions |-> ItemsRead(p, size)]
  BY <1>6, <1>8 DEF Header, ++
<1>10. ASSUME Short(q) PROVE Whole(a, r)
  <2>1. 18 + sent < 14 + 256
    BY <1>4, <1>10 DEF Short
  <2>2. size = sent /\ 14 + 4 <= p.len
    BY <1>1, <1>6, <2>1 DEF size
  <2>3. a.cut = 0 /\ ItemsRead(p, size) = a.items
    <3>1. size = EndOf(p.tail, Len(p.tail)) - a.cut
      BY <1>6, <2>2 DEF sent, SentSize
    <3>2. Sized(p.tail) /\ a.cut \in {0, 1} /\ a.cut <= Len(p.tail)
      BY <1>1, <1>6 DEF IsAnswer
    <3>3. IF a.cut = 0 THEN ~Overrun(p, size) /\ ItemsRead(p, size) = p.tail ELSE Overrun(p, size)
      BY <3>1, <3>2, ListRead
    <3> QED
      BY <1>6, <1>8, <3>3
  <2> QED
    BY <1>6, <1>9, <2>2, <2>3 DEF Whole
<1> QED
  BY <1>6, <1>9, <1>10 DEF Faithful, q

\* and a value: as much of it as the length of the load says.
LEMMA ValueAnswer ==
    ASSUME NEW a, IsAnswer(a), a.m_msg_cmd = "MC_GET_VALUE",
           NEW r, r = parse_from_bin(Delivered(serial_to_bin(a))), r # Refused
    PROVE  Faithful(a, r)
<1> DEFINE q == serial_to_bin(a)
           p == Delivered(q)
           ints == Put(14, 4, a.m_err_code)
           sent == Len(a.items)
<1>1. sent \in Nat /\ SubSeq(a.items, 1, sent) = a.items
  BY SeqFacts DEF IsAnswer
<1>2. q = Resized(Written(a, 18, 18 - 14 + sent, ints, a.items), 18 + sent)
  BY DEF IsAnswer, serial_to_bin, serail_response, OtherResponse, Resized
<1>3. <<14, 4>> \in DOMAIN ints /\ ints[<<14, 4>>] = a.m_err_code
  BY DEF Put
<1>4. q.len = 18 + sent
  BY <1>2 DEF Resized, Written
<1>5. p = Delivered(Resized(Written(a, 18, 18 - 14 + sent, ints, a.items), 18 + sent))
  BY <1>2
<1>6. SubSeq(a.items, 1, Misread(4 + sent) - 4) = Heard(a)
  BY DEF Heard
<1> HIDE DEF ints, q, p, sent
<1>7. /\ At(p, 0, 2) = "FFA5" /\ At(p, 2, 1) = "MT_RESPOND" /\ At(p, 3, 1) = "MC_GET_VALUE"
      /\ Int4(p, 6) = Misread(a.m_session) /\ p.tail = a.items
      /\ load_len(p) = Misread(4 + sent) /\ load_len(p) \in Nat
      /\ p.len = 14 + load_len(p)
      /\ 14 + 4 <= p.len => Int4(p, 14) = Misread(a.m_err_code)
      /\ 18 + sent < 14 + 256 => load_len(p) = 18 - 14 + sent
  <2>1. /\ At(p, 0, 2) = "FFA5" /\ At(p, 2, 1) = "MT_RESPOND" /\ At(p, 3, 1) = a.m_msg_cmd
        /\ Int4(p, 6) = Misread(a.m_session) /\ p.tail = a.items
        /\ load_len(p) \in Nat /\ p.len = 14 + load_len(p)
        /\ 14 + 4 <= p.len => Int4(p, 14) = Misread(a.m_err_code)
        /\ 18 + sent < 14 + 256 => load_len(p) = 18 - 14 + sent
    <3>1. 18 \in {18, 22} /\ 14 \in {14, 18} /\ 14 + 4 <= 18
      OBVIOUS
    <3>2. AnsweredAt(a, p, 18, 14, sent)
      BY <1>1, <1>3, <1>5, <3>1, OtherRead
    <3> QED
      BY <3>2 DEF AnsweredAt
  <2>2. load_len(p) = Misread(4 + sent)
    <3> DEFINE load == 18 - 14 + sent
    <3>1. load \in Nat /\ load = 4 + sent /\ 18 + sent \in Nat /\ 18 + sent >= 14
      BY <1>1
    <3>2. p = Delivered(Resized(Written(a, 18, load, ints, a.items), 18 + sent))
      BY <1>5
    <3> HIDE DEF load
    <3>3. load_len(p) = Misread(load)
      BY <3>1, <3>2, ReadsAsDelivered
    <3> QED
      BY <3>1, <3>3
  <2> QED
    BY <2>1, <2>2
<1>8. r = parse_get_value_response_body(p) \/ r = Refused
  BY <1>7 DEF parse_from_bin, parse_msg_header, parse_response_body, p, q
<1>9. /\ ~(p.len < 18)
      /\ r = Header(p) ++ [m_err_code |-> Int4(p, 14),
                           m_value_dev |-> SubSeq(p.tail, 1, load_len(p) - 4)]
  BY <1>7, <1>8 DEF parse_get_value_response_body, Members
<1>10. r = [m_msg_type |-> "MT_RESPOND", m_msg_cmd |-> "MC_GET_VALUE",
            m_session |-> Misread(a.m_session), m_err_code |-> Misread(a.m_err_code),
            m_value_dev |-> Heard(a)]
  <2>1. Int4(p, 14) = Misread(a.m_err_code)
    BY <1>7, <1>9
  <2>2. SubSeq(p.tail, 1, load_len(p) - 4) = Heard(a)
    BY <1>6, <1>7
  <2> QED
    BY <1>7, <1>9, <2>1, <2>2 DEF Header, ++
<1>11. ASSUME Short(q) PROVE Whole(a, r)
  <2>1. 18 + sent < 14 + 256
    BY <1>4, <1>11 DEF Short
  <2>2. Misread(4 + sent) - 4 = sent
    BY <1>1, <1>7, <2>1
  <2>3. Heard(a) = a.items
    BY <1>1, <1>6, <2>2
  <2> QED
    BY <1>10, <2>3 DEF Whole, IsAnswer
<1>12. Misread(a.m_err_code) \in Int
  BY MisreadFacts DEF IsAnswer
<1> QED
  BY <1>10, <1>11, <1>12 DEF Faithful, q

\* Every answer that is accepted is read as it was given, as far as that goes.
LEMMA AnswerRead ==
    ASSUME NEW a, IsAnswer(a), NEW r, r = parse_from_bin(Delivered(serial_to_bin(a))), r # Refused
    PROVE  Faithful(a, r)
BY ErrorAnswer, QueryAnswer, DataAnswer, IdsAnswer, JunctionAnswer, ValueAnswer
DEF IsAnswer, Asks

-----------------------------------------------------------------------------
(* The invariant.                                                          *)

\* Where a call is: a request has been sent when there is one answer less.
FlowInv ==
    /\ phase \in {"idle", "called", "sent", "done", "threw"}
    /\ IsSeq(asked) /\ IsSeq(given) /\ IsSeq(got)
    /\ Len(given) = Len(got)
    /\ Len(asked) = IF phase = "sent" THEN Len(got) + 1 ELSE Len(got)
    /\ IF phase = "idle" THEN asked = <<>> ELSE arg \in Calls

\* The packages were made by the call_xxx functions, the last one is on the wire.
AskedInv ==
    /\ \A k \in 1 .. Len(asked) : MadeAs(asked[k], k)
    /\ phase = "sent" => wire = serial_to_bin(asked[Len(asked)])

\* The answers were given to the requests, and read as they were given as far as that
\* goes; a call without an answer did not wait for it, or was a notification.
Reply(a, r, pkg) ==
    /\ r.waited \in BOOLEAN
    /\ r.waited => r.m_err_code \in Int
    /\ IF a = None THEN r.waited => pkg.m_msg_type = "MT_NOTIFY"
       ELSE /\ IsAnswer(a) /\ Faithful(a, r)
            /\ r.m_session = Misread(pkg.m_session) /\ a.m_msg_cmd = pkg.m_msg_cmd

RepliesInv == \A k \in 1 .. Len(got) : Reply(given[k], got[k], asked[k])

\* Where the board is named by type and index, the address is theirs.
Addressed(pkg) ==
    ({"type", "index"} \subseteq DOMAIN arg /\ ~IsDig /\ arg.index \in 0 .. 255) =>
        /\ "m_usb_dst" \in DOMAIN pkg /\ pkg.m_usb_dst \in Int
        /\ TypeOf(pkg.m_usb_dst) = arg.type /\ Slot(pkg.m_usb_dst) = arg.index

AddressInv == phase = "sent" => Addressed(asked[Len(asked)])

\* All functions but two make one request.
Repeated == {"DIG_GetDsaID", "DIG_GetBoardInfo"}
OneRequestInv == phase # "idle" /\ arg.fn \notin Repeated => Len(asked) <= 1

Good(r) == r.waited /\ r.m_err_code >= 0
AllGood == \A k \in 1 .. Len(got) : Good(got[k])

\* DIG_GetDsaID asks for the next identity only when it has the ones before it.
DsaInv ==
    (phase \in {"called", "sent"} /\ arg.fn = "DIG_GetDsaID") =>
        \A k \in 1 .. Len(got) : Good(got[k]) \/ (phase = "called" /\ k = Len(got))

\* DIG_GetBoardInfo asks for three texts of each board, in the order of the boards.
InfoRequest(pkg, k) ==
    /\ pkg.m_msg_cmd = "MC_GET_VALUE"
    /\ pkg.m_usb_dst = BoardsOf({arg.type})[((k - 2) \div 3) + 1]
    /\ pkg.m_value_type = BasicInfo[((k - 2) % 3) + 1]

InfoInv ==
    (phase # "idle" /\ arg.fn = "DIG_GetBoardInfo") =>
        \A k \in 2 .. Len(asked) : InfoRequest(asked[k], k)

CallInv ==
    /\ FlowInv /\ AskedInv /\ RepliesInv /\ AddressInv /\ OneRequestInv /\ DsaInv /\ InfoInv
    /\ SuccessMeansAnswered /\ OwnBoardOnly

-----------------------------------------------------------------------------
(* The steps of a call.                                                    *)

\* One element more.
LEMMA AppendFacts ==
    ASSUME NEW v, NEW x, IsSeq(v)
    PROVE  /\ IsSeq(Append(v, x))
           /\ Len(v) \in Nat /\ Len(Append(v, x)) = Len(v) + 1
           /\ \A k \in 1 .. Len(v) : Append(v, x)[k] = v[k]
           /\ Append(v, x)[Len(v) + 1] = x
           /\ Append(v, x) # <<>>
<1> DEFINE S == {v[k] : k \in DOMAIN v} \cup {x}
           w == Append(v, x)
<1>1. v \in Seq(S) /\ x \in S
  BY DEF IsSeq
<1>2. /\ w \in Seq(S) /\ Len(v) \in Nat /\ Len(w) = Len(v) + 1
      /\ \A k \in 1 .. Len(v) : w[k] = v[k]
      /\ w[Len(v) + 1] = x
  BY <1>1
<1>3. w # <<>>
  BY <1>2
<1>4. IsSeq(w)
  <2> DEFINE R == {w[k] : k \in DOMAIN w}
  <2>1. DOMAIN w = 1 .. Len(v) + 1 /\ DOMAIN v = 1 .. Len(v)
    BY <1>1, <1>2
  <2>2. \A k \in DOMAIN v : v[k] \in R
    BY <1>2, <2>1
  <2>3. x \in R
    BY <1>2, <2>1
  <2> HIDE DEF R
  <2>4. v \in Seq(R)
    BY <2>2 DEF IsSeq
  <2>5. Append(v, x) \in Seq(R)
    BY <2>3, <2>4
  <2> QED
    BY <2>5 DEF IsSeq, R
<1> QED
  BY <1>2, <1>3, <1>4

LEMMA EmptyFacts == IsSeq(<<>>) /\ Len(<<>>) = 0
BY DEF IsSeq

\* No call is running at first.
LEMMA InitKept == Init => CallInv
BY EmptyFacts DEF Init, CallInv, FlowInv, AskedInv, RepliesInv, AddressInv, OneRequestInv, DsaInv,
   InfoInv, SuccessMeansAnswered, OwnBoardOnly

\* What the lengths say of the sequences.
LEMMA FlowFacts ==
    ASSUME FlowInv
    PROVE  /\ Len(asked) \in Nat /\ Len(given) \in Nat /\ Len(got) \in Nat
           /\ DOMAIN asked = 1 .. Len(asked) /\ DOMAIN given = 1 .. Len(given)
           /\ DOMAIN got = 1 .. Len(got)
           /\ (asked = <<>> <=> Len(asked) = 0)
           /\ (got = <<>> <=> Len(got) = 0)
<1>1. ASSUME NEW v, IsSeq(v)
      PROVE  Len(v) \in Nat /\ DOMAIN v = 1 .. Len(v) /\ (v = <<>> <=> Len(v) = 0)
  <2>1. Len(v) = 0 => v = <<>>
    BY <1>1 DEF IsSeq
  <2> QED
    BY <1>1, <2>1, SeqFacts
<1> QED
  BY <1>1 DEF FlowInv

\* A call begins with nothing asked.
LEMMA EnterKept == CallInv /\ Enter => CallInv'
<1> SUFFICES ASSUME CallInv, Enter PROVE CallInv'
  OBVIOUS
<1>1. /\ phase = "idle" /\ phase' = "called" /\ arg' \in Calls /\ asked' = asked
      /\ wire' = wire /\ given' = given /\ got' = got /\ ret' = ret /\ out' = out
  BY DEF Enter
<1>2. asked = <<>> /\ Len(asked) = 0 /\ Len(got) = 0 /\ FlowInv
  BY <1>1, EmptyFacts, FlowFacts DEF CallInv, FlowInv
<1>3. FlowInv'
  BY <1>1, <1>2 DEF FlowInv
<1>4. AskedInv' /\ RepliesInv' /\ AddressInv' /\ OneRequestInv'
  BY <1>1, <1>2 DEF AskedInv, RepliesInv, AddressInv, OneRequestInv
<1>5. DsaInv' /\ InfoInv'
  BY <1>1, <1>2 DEF DsaInv, InfoInv
<1>6. SuccessMeansAnswered' /\ OwnBoardOnly'
  BY <1>1 DEF SuccessMeansAnswered, OwnBoardOnly
<1> QED
  BY <1>3, <1>4, <1>5, <1>6 DEF CallInv

\* A call leaves nothing behind.
LEMMA LeaveKept == CallInv /\ Leave => CallInv'
<1> SUFFICES ASSUME CallInv, Leave PROVE CallInv'
  OBVIOUS
<1>1. phase' = "idle" /\ asked' = <<>> /\ given' = <<>> /\ got' = <<>>
  BY DEF Leave
<1> QED
  BY <1>1, EmptyFacts DEF CallInv, FlowInv, AskedInv, RepliesInv, AddressInv, OneRequestInv, DsaInv,
     InfoInv, SuccessMeansAnswered, OwnBoardOnly

\* What a function does when it has what it asked for, or begins.
OwnTexts(output) ==
    \A i \in DOMAIN output.info, j \in 1 .. 3 :
        "text" \in DOMAIN output.info[i].text[j] =>
            \E k \in DOMAIN asked :
                /\ asked[k].m_usb_dst = output.info[i].id
                /\ asked[k].m_value_type = BasicInfo[j]
                /\ Misread(given[k].m_err_code) = 0
                /\ Heard(given[k]) = output.info[i].text[j].text

Asking(pkg) ==
    /\ Made(pkg) /\ Addressed(pkg)
    /\ got # <<>> => arg.fn \in Repeated
    /\ arg.fn = "DIG_GetDsaID" => AllGood
    /\ arg.fn = "DIG_GetBoardInfo" /\ got # <<>> => InfoRequest(pkg, Len(got) + 1)

Honest(code, output) ==
    /\ code >= 0 /\ arg.fn \notin BestEffort => AllGood
    /\ code >= 0 /\ arg.fn = "DIG_GetBoardInfo" => OwnTexts(output)

FunctionStep ==
    /\ phase = "called"
    /\ \/ \E pkg : Asking(pkg) /\ AskFor(pkg)
       \/ \E code, output : Honest(code, output) /\ Return(code, output)
       \/ Throw

\* The three steps a function may take.
LEMMA ThrowKept ==
    ASSUME CallInv, phase = "called", Throw
    PROVE  CallInv'
<1>1. /\ phase' = "threw" /\ arg' = arg /\ asked' = asked /\ wire' = wire /\ given' = given
      /\ got' = got /\ ret' = ret /\ out' = out
  BY DEF Throw
<1>2. FlowInv' /\ AskedInv' /\ RepliesInv' /\ AddressInv' /\ OneRequestInv' /\ DsaInv'
  BY <1>1 DEF CallInv, FlowInv, AskedInv, RepliesInv, AddressInv, OneRequestInv, DsaInv
<1>3. BoardsOf({arg.type})' = BoardsOf({arg.type})
  BY <1>1 DEF BoardsOf, get_all_board, Fails
<1>4. InfoInv'
  BY <1>1, <1>3 DEF CallInv, InfoInv, InfoRequest
<1>5. SuccessMeansAnswered' /\ OwnBoardOnly'
  BY <1>1 DEF SuccessMeansAnswered, OwnBoardOnly
<1> QED
  BY <1>2, <1>4, <1>5 DEF CallInv

LEMMA ReturnKept ==
    ASSUME CallInv, phase = "called", NEW code, NEW output, Honest(code, output),
           Return(code, output)
    PROVE  CallInv'
<1>1. /\ phase' = "done" /\ arg' = arg /\ asked' = asked /\ wire' = wire /\ given' = given
      /\ got' = got /\ ret' = code /\ out' = output
  BY DEF Return
<1>2. FlowInv' /\ AskedInv' /\ RepliesInv' /\ AddressInv' /\ OneRequestInv' /\ DsaInv'
  BY <1>1 DEF CallInv, FlowInv, AskedInv, RepliesInv, AddressInv, OneRequestInv, DsaInv
<1>3. BoardsOf({arg.type})' = BoardsOf({arg.type})
  BY <1>1 DEF BoardsOf, get_all_board, Fails
<1>4. InfoInv'
  BY <1>1, <1>3 DEF CallInv, InfoInv, InfoRequest
<1>5. SuccessMeansAnswered'
  <2>1. DOMAIN got = 1 .. Len(got)
    BY FlowFacts DEF CallInv
  <2> QED
    BY <1>1, <2>1 DEF SuccessMeansAnswered, Honest, AllGood, Good
<1>6. OwnBoardOnly'
  BY <1>1 DEF OwnBoardOnly, Honest, OwnTexts
<1> QED
  BY <1>2, <1>4, <1>5, <1>6 DEF CallInv

LEMMA AskForKept ==
    ASSUME CallInv, phase = "called", NEW pkg, Asking(pkg), AskFor(pkg)
    PROVE  CallInv'
<1> DEFINE n == Len(asked)
<1>1. /\ phase' = "sent" /\ arg' = arg /\ asked' = Append(asked, pkg) /\ wire' = serial_to_bin(pkg)
      /\ given' = given /\ got' = got /\ ret' = ret /\ out' = out
  BY DEF AskFor
<1>2. /\ n \in Nat /\ n = Len(got) /\ IsSeq(asked') /\ Len(asked') = n + 1
      /\ \A k \in 1 .. n : asked'[k] = asked[k]
      /\ asked'[n + 1] = pkg
  BY <1>1, AppendFacts DEF CallInv, FlowInv
<1> HIDE DEF n
<1>3. FlowInv'
  BY <1>1, <1>2 DEF CallInv, FlowInv, n
<1>4. AskedInv'
  <2>1. MadeAs(pkg, n + 1)
    BY DEF Asking, Made, n
  <2>2. ASSUME NEW k \in 1 .. n PROVE MadeAs(asked'[k], k)
    BY <1>2 DEF CallInv, AskedInv, n
  <2>3. ASSUME NEW k \in 1 .. n + 1 PROVE MadeAs(asked'[k], k)
    <3>1. k \in 1 .. n \/ k = n + 1
      BY <1>2
    <3> QED
      BY <3>1, <2>1, <2>2, <1>2
  <2>4. wire' = serial_to_bin(asked'[Len(asked')])
    BY <1>1, <1>2
  <2> QED
    BY <2>3, <2>4, <1>2 DEF AskedInv, MadeAs, Arrives, Carried, is_ota_caltype
<1>5. RepliesInv'
  <2>1. ASSUME NEW k \in 1 .. Len(got') PROVE Reply(given'[k], got'[k], asked'[k])
    BY <1>1, <1>2 DEF CallInv, RepliesInv
  <2> QED
    BY <2>1 DEF RepliesInv, Reply, IsAnswer, Faithful, Whole, Sized, IsSeq
<1>6. AddressInv'
  BY <1>1, <1>2 DEF Asking, AddressInv, Addressed, IsDig
<1>7. OneRequestInv'
  BY <1>1, <1>2, FlowFacts DEF Asking, OneRequestInv, CallInv
<1>8. DsaInv'
  BY <1>1 DEF Asking, AllGood, DsaInv, Good
<1>9. InfoInv'
  <2>1. BoardsOf({arg.type})' = BoardsOf({arg.type})
    BY <1>1 DEF BoardsOf, get_all_board, Fails
  <2>2. SUFFICES ASSUME arg.fn = "DIG_GetBoardInfo", NEW k \in 2 .. n + 1
                 PROVE  InfoRequest(asked'[k], k)
    BY <2>1, <1>1, <1>2 DEF InfoInv, InfoRequest
  <2>3. CASE k = n + 1
    <3>1. got # <<>>
      BY <2>3, <1>2, FlowFacts DEF CallInv
    <3> QED
      BY <2>2, <2>3, <3>1, <1>2 DEF Asking
  <2>4. CASE k \in 2 .. n
    <3>1. InfoRequest(asked[k], k)
      BY <2>2, <2>4 DEF CallInv, InfoInv, n
    <3> QED
      BY <2>4, <3>1, <1>2
  <2> QED
    BY <2>3, <2>4, <1>2
<1>10. SuccessMeansAnswered' /\ OwnBoardOnly'
  BY <1>1 DEF SuccessMeansAnswered, OwnBoardOnly
<1> QED
  BY <1>3, <1>4, <1>5, <1>6, <1>7, <1>8, <1>9, <1>10 DEF CallInv

\* What comes back is the answer to the last request.
LEMMA ResumeKept ==
    ASSUME CallInv, phase = "sent", NEW a, NEW r, Resume(a, r), Reply(a, r, asked[Len(asked)])
    PROVE  CallInv'
<1> DEFINE n == Len(got)
<1>1. /\ phase' = "called" /\ arg' = arg /\ asked' = asked /\ wire' = wire
      /\ given' = Append(given, a) /\ got' = Append(got, r) /\ ret' = ret /\ out' = out
  BY DEF Resume
<1>2. /\ n \in Nat /\ Len(given) = n /\ Len(asked) = n + 1
      /\ IsSeq(given') /\ IsSeq(got') /\ Len(given') = n + 1 /\ Len(got') = n + 1
      /\ \A k \in 1 .. n : given'[k] = given[k] /\ got'[k] = got[k]
      /\ given'[n + 1] = a /\ got'[n + 1] = r
  BY <1>1, AppendFacts DEF CallInv, FlowInv
<1> HIDE DEF n
<1>3. FlowInv'
  BY <1>1, <1>2 DEF CallInv, FlowInv, n
<1>4. AskedInv' /\ AddressInv' /\ OneRequestInv'
  BY <1>1 DEF CallInv, AskedInv, AddressInv, OneRequestInv
<1>5. RepliesInv'
  <2>1. ASSUME NEW k \in 1 .. n + 1 PROVE Reply(given'[k], got'[k], asked'[k])
    <3>1. CASE k = n + 1
      BY <3>1, <1>1, <1>2
    <3>2. CASE k \in 1 .. n
      <4>1. Reply(given[k], got[k], asked[k])
        BY <3>2 DEF CallInv, RepliesInv, n
      <4> QED
        BY <4>1, <3>2, <1>1, <1>2
    <3> QED
      BY <3>1, <3>2, <1>2
  <2> QED
    BY <2>1, <1>2 DEF RepliesInv, Reply, IsAnswer, Faithful, Sized, IsSeq
<1>6. DsaInv'
  <2>1. SUFFICES ASSUME arg.fn = "DIG_GetDsaID", NEW k \in 1 .. n + 1
                 PROVE  Good(got'[k]) \/ k = n + 1
    BY <1>1, <1>2 DEF DsaInv, Good
  <2>2. CASE k \in 1 .. n
    <3>1. Good(got[k])
      BY <2>1, <2>2 DEF CallInv, DsaInv, n
    <3> QED
      BY <3>1, <2>2, <1>2
  <2> QED
    BY <2>2, <1>2
<1>7. InfoInv'
  <2>1. CASE n = 0
    BY <2>1, <1>1, <1>2 DEF InfoInv
  <2>2. CASE n # 0
    <3>1. got'[1] = got[1]
      BY <2>2, <1>2
    <3>2. BoardsOf({arg.type})' = BoardsOf({arg.type})
      BY <1>1, <3>1 DEF BoardsOf, get_all_board, Fails
    <3> QED
      BY <1>1, <3>2 DEF CallInv, InfoInv, InfoRequest
  <2> QED
    BY <2>1, <2>2
<1>8. SuccessMeansAnswered' /\ OwnBoardOnly'
  BY <1>1 DEF SuccessMeansAnswered, OwnBoardOnly
<1> QED
  BY <1>3, <1>4, <1>5, <1>6, <1>7, <1>8 DEF CallInv

\* The last request is the one on the wire.
LEMMA LastAsked ==
    ASSUME CallInv, phase = "sent"
    PROVE  /\ Last(asked) = asked[Len(asked)] /\ Len(asked) \in 1 .. Len(asked)
           /\ MadeAs(asked[Len(asked)], Len(asked)) /\ wire = serial_to_bin(asked[Len(asked)])
<1>1. Len(asked) \in 1 .. Len(asked)
  BY FlowFacts DEF CallInv, FlowInv
<1> QED
  BY <1>1 DEF CallInv, AskedInv, Last

\* No answer.
LEMMA TimeoutKept == CallInv /\ Timeout => CallInv'
<1> SUFFICES ASSUME CallInv, Timeout PROVE CallInv'
  OBVIOUS
<1>1. phase = "sent" /\ Resume(None, TimedOut)
  BY DEF Timeout
<1>2. Reply(None, TimedOut, asked[Len(asked)])
  BY DEF Reply, TimedOut
<1> QED
  BY <1>1, <1>2, ResumeKept

\* No answer is waited for.
LEMMA NotifiedKept == CallInv /\ Notified => CallInv'
<1> SUFFICES ASSUME CallInv, Notified PROVE CallInv'
  OBVIOUS
<1>1. PICK sent \in BOOLEAN : Resume(None, [waited |-> sent, m_err_code |-> 0])
  BY DEF Notified
<1>2. phase = "sent" /\ Last(asked).m_msg_type = "MT_NOTIFY"
  BY DEF Notified
<1>3. Reply(None, [waited |-> sent, m_err_code |-> 0], asked[Len(asked)])
  BY <1>2, LastAsked DEF Reply
<1> QED
  BY <1>1, <1>2, <1>3, ResumeKept

\* An item takes at least two bytes: its own header.
LEMMA ListsAreSized ==
    ASSUME NEW v \in Values
    PROVE  IsSeq(v) /\ Sized(v)
<1>1. IsSeq(v) /\ \A k \in DOMAIN v : "length" \in DOMAIN v[k] => v[k].length \in Nat
  BY ValuesAssumption
<1>2. ASSUME NEW k \in 1 .. Len(v) PROVE ItemSize(v[k]) \in Nat /\ ItemSize(v[k]) >= 2
  <2>1. k \in DOMAIN v
    BY <1>1, SeqFacts
  <2> QED
    BY <1>1, <2>1 DEF ItemSize
<1> QED
  BY <1>1, <1>2 DEF Sized

\* The answers are what AnswerRead asks for.
LEMMA AnswersFit ==
    ASSUME NEW s, s.m_msg_cmd \in Asks, NEW a \in Answers(s), a.cut <= Len(a.items)
    PROVE  IsAnswer(a) /\ a # None /\ a.m_session = s.m_session /\ a.m_msg_cmd = s.m_msg_cmd
<1> DEFINE Items == CASE s.m_msg_cmd = "MC_GET_VALUE" ->
                           {v \in Values : Sends(s.m_value_type, TypeOf(s.m_usb_dst), v)}
                      [] s.m_msg_cmd \in Lists -> {v \in Values : Sends(s.m_msg_cmd, 0, v)}
                      [] OTHER -> {<<>>}
           Cuts == IF s.m_msg_cmd = "MC_GET_VALUE" THEN {0} ELSE {0, 1}
<1>1. PICK e \in ErrCodes, i \in Items, p \in {<<0, 0>>, <<1, 4>>, <<4, 4>>}, c \in Cuts :
         a = [m_msg_type |-> "MT_RESPOND", m_msg_cmd |-> s.m_msg_cmd, m_session |-> s.m_session,
              m_err_code |-> e, items |-> i, cut |-> c, m_upgrade_progress |-> p[1],
              m_total_len |-> p[2],
              m_usb_dst |-> IF s.m_msg_cmd = "MC_DATA" THEN s.m_usb_dst ELSE 0]
  BY DEF Answers
<1>2. e \in Int
  BY ErrCodesAssumption
<1>3. /\ IsSeq(i)
      /\ s.m_msg_cmd \in Lists => Sized(i)
      /\ s.m_msg_cmd \notin Lists \cup {"MC_GET_VALUE"} => i = <<>>
  <2>1. CASE s.m_msg_cmd = "MC_GET_VALUE"
    <3>1. i \in Values
      BY <2>1
    <3> QED
      BY <2>1, <3>1, ListsAreSized DEF Lists
  <2>2. CASE s.m_msg_cmd \in Lists
    <3>1. i \in Values
      BY <2>2 DEF Lists
    <3> QED
      BY <2>2, <3>1, ListsAreSized
  <2>3. CASE s.m_msg_cmd \notin Lists \cup {"MC_GET_VALUE"}
    <3>1. i = <<>>
      BY <2>3
    <3> QED
      BY <2>3, <3>1, EmptyFacts
  <2> QED
    BY <2>1, <2>2, <2>3
<1>4. c \in {0, 1} /\ (s.m_msg_cmd = "MC_GET_VALUE" => c = 0)
  OBVIOUS
<1> HIDE DEF Items, Cuts
<1>5. a # None
  BY <1>1 DEF None
<1> QED
  BY <1>1, <1>2, <1>3, <1>4, <1>5 DEF IsAnswer

\* The member that says it was waited for takes nothing away.
LEMMA ReplyMade ==
    ASSUME NEW a, NEW r, NEW pkg, IsAnswer(a), a # None, Faithful(a, r),
           r.m_session = Misread(pkg.m_session), a.m_msg_cmd = pkg.m_msg_cmd
    PROVE  Reply(a, [waited |-> TRUE] ++ r, pkg)
<1> DEFINE q == [waited |-> TRUE] ++ r
<1>1. /\ q.waited = TRUE
      /\ DOMAIN q = DOMAIN r \cup {"waited"}
      /\ \A f \in DOMAIN r : f # "waited" => q[f] = r[f]
  BY DEF ++
<1> HIDE DEF q
<1>2. q.m_err_code = r.m_err_code /\ q.m_session = r.m_session
  BY <1>1 DEF Faithful
<1>3. Whole(a, r) => Whole(a, q)
  BY <1>1, <1>2 DEF Whole
<1>4. Faithful(a, q)
  BY <1>1, <1>2, <1>3 DEF Faithful
<1>5. q.m_err_code \in Int
  BY <1>4 DEF Faithful
<1> QED
  BY <1>1, <1>2, <1>4, <1>5 DEF Reply, q

\* An answer is to the request that was made last.
LEMMA AnswerKept == CallInv /\ Answer => CallInv'
<1> SUFFICES ASSUME CallInv, Answer PROVE CallInv'
  OBVIOUS
<1> DEFINE s == Understood
           pkg == asked[Len(asked)]
<1>1. phase = "sent" /\ s # Refused /\ s.m_msg_type = "MT_REQUEST"
  BY DEF Answer
<1>2. PICK a \in Answers(s) :
         LET r == parse_from_bin(Delivered(serial_to_bin(a)))
         IN  a.cut <= Len(a.items) /\ r # Refused /\ Resume(a, [waited |-> TRUE] ++ r)
  BY DEF Answer
<1>3. MadeAs(pkg, Len(asked)) /\ wire = serial_to_bin(pkg)
  BY <1>1, LastAsked
<1>4. pkg.m_msg_cmd \notin Registers
  <2>1. parse_from_bin(Delivered(NoBin)) = Refused
    <3>1. /\ Delivered(NoBin).at = <<>>
          /\ Delivered(NoBin).len = 14 + load_len(NoBin)
      BY DEF Delivered, NoBin
    <3>2. load_len(NoBin) = Misread(Torn)
      BY DEF load_len, Int4, At, NoBin
    <3>3. Torn \in Int /\ 14 + Torn < 10
      BY SMT DEF Torn
    <3>4. Misread(Torn) \in Int /\ Misread(Torn) <= Torn
      BY <3>3, MisreadFacts
    <3>5. ~ (Delivered(NoBin).len >= 10)
      BY <3>1, <3>2, <3>3, <3>4
    <3> QED
      BY <3>5 DEF parse_from_bin, parse_msg_header
  <2>2. pkg.m_msg_cmd \in Registers => s = parse_from_bin(Delivered(NoBin))
    BY <1>1, <1>3, LastAsked DEF MadeAs, Unwritten, Registers, ReadOnly, Understood
  <2> QED
    BY <1>1, <2>1, <2>2
<1>5. /\ s.m_msg_cmd = pkg.m_msg_cmd /\ s.m_msg_type = pkg.m_msg_type
      /\ s.m_session \in {pkg.m_session, Misread(pkg.m_session)}
  <2>1. CASE pkg.m_msg_cmd \in ReadOnly
    BY <1>1, <2>1, LastAsked DEF Understood
  <2>2. CASE pkg.m_msg_cmd \notin ReadOnly
    <3>1. s = parse_from_bin(Delivered(serial_to_bin(pkg))) /\ Arrives(pkg)
      BY <1>1, <1>3, <1>4, <2>2, LastAsked DEF Understood, MadeAs, Unwritten
    <3> QED
      BY <1>1, <3>1 DEF Arrives
  <2> QED
    BY <2>1, <2>2
<1>6. s.m_msg_cmd \in Asks
  BY <1>1, <1>3, <1>4, <1>5 DEF MadeAs
<1>7. Misread(Misread(pkg.m_session)) = Misread(pkg.m_session)
  <2>1. pkg.m_session \in Int
    BY <1>1, <1>3, FlowFacts DEF MadeAs, CallInv
  <2> QED
    BY <2>1, MisreadFacts
<1> HIDE DEF s, pkg
<1>8. /\ IsAnswer(a) /\ a # None /\ a.m_msg_cmd = pkg.m_msg_cmd
      /\ a.m_session \in {pkg.m_session, Misread(pkg.m_session)}
  BY <1>2, <1>5, <1>6, AnswersFit
<1> DEFINE r == parse_from_bin(Delivered(serial_to_bin(a)))
<1>9. Faithful(a, r)
  BY <1>2, <1>8, AnswerRead
<1>10. Resume(a, [waited |-> TRUE] ++ r)
  BY <1>2
<1> HIDE DEF r
<1>11. r.m_session = Misread(pkg.m_session)
  BY <1>7, <1>8, <1>9 DEF Faithful
<1>12. Reply(a, [waited |-> TRUE] ++ r, pkg)
  BY <1>8, <1>9, <1>11, ReplyMade
<1> QED
  BY <1>1, <1>10, <1>12, ResumeKept DEF pkg

-----------------------------------------------------------------------------
(* The functions.                                                          *)

\* While a function runs.
Running(fn) == CallInv /\ phase = "called" /\ arg.fn = fn

\* Whatever a function does, as long as it asks and returns honestly.
LEMMA FunctionStepKept == CallInv /\ FunctionStep => CallInv'
BY AskForKept, ReturnKept, ThrowKept DEF FunctionStep

\* What the callers are trusted with.
LEMMA CallFacts ==
    ASSUME CallInv, phase = "called"
    PROVE  /\ arg \in Calls
           /\ "type" \in DOMAIN arg => arg.type \in 0 .. 255
           /\ arg.fn \in {"cal_file_start_save", "cal_file_start_read"} => IsSeq(arg.file)
           /\ {"type", "index"} \subseteq DOMAIN arg => arg.fn \in ByBoard
BY CallsAssumption DEF CallInv, FlowInv

\* The one answer of a function that makes one request.
LEMMA OneAnswer ==
    ASSUME CallInv, phase = "called", arg.fn \notin Repeated, got # <<>>
    PROVE  /\ Len(got) = 1 /\ got[1].waited \in BOOLEAN
           /\ got[1].waited => got[1].m_err_code \in Int
           /\ AllGood <=> Good(got[1])
           /\ Fails(got[1]) <=> ~Good(got[1])
<1>1. Len(got) = 1
  BY FlowFacts DEF CallInv, FlowInv, OneRequestInv
<1>2. Reply(given[1], got[1], asked[1])
  BY <1>1 DEF CallInv, RepliesInv
<1>3. got[1].waited \in BOOLEAN /\ (got[1].waited => got[1].m_err_code \in Int)
  BY <1>2 DEF Reply
<1>4. AllGood <=> Good(got[1])
  BY <1>1 DEF AllGood
<1>5. Fails(got[1]) <=> ~Good(got[1])
  BY <1>3 DEF Fails, Good
<1> QED
  BY <1>1, <1>3, <1>4, <1>5

\* Type and index are found again in the address.
LEMMA DstMeans ==
    ASSUME NEW type \in 0 .. 255, NEW index \in 0 .. 255
    PROVE  /\ Dst(type, index) \in Int
           /\ TypeOf(Dst(type, index)) = type
           /\ Slot(Dst(type, index)) = index
<1> DEFINE dst == index * 256 + type
<1>1. Dst(type, index) = dst
  BY DEF Dst
<1>2. dst \in Int /\ dst % 256 = type /\ dst \div 256 = index /\ index % 256 = index
  OBVIOUS
<1> HIDE DEF dst
<1> QED
  BY <1>1, <1>2 DEF TypeOf, Slot

\* The address of the board that the call names.
LEMMA BoardIsAddressed ==
    ASSUME CallInv, phase = "called", NEW pkg,
           IsDig \/ To(pkg, Dst(arg.type, arg.index))
    PROVE  Addressed(pkg)
<1>1. SUFFICES ASSUME {"type", "index"} \subseteq DOMAIN arg, ~IsDig, arg.index \in 0 .. 255
               PROVE  /\ "m_usb_dst" \in DOMAIN pkg /\ pkg.m_usb_dst \in Int
                      /\ TypeOf(pkg.m_usb_dst) = arg.type /\ Slot(pkg.m_usb_dst) = arg.index
  BY DEF Addressed
<1>2. arg.type \in 0 .. 255
  BY <1>1, CallFacts
<1> QED
  BY <1>1, <1>2, DstMeans DEF To

\* The other functions name none.
LEMMA NoBoardIsNamed ==
    ASSUME CallInv, phase = "called", arg.fn \notin ByBoard, NEW pkg
    PROVE  Addressed(pkg)
BY CallFacts DEF Addressed

\* The first request of a function, and its return.
LEMMA FirstAsked ==
    ASSUME CallInv, phase = "called", arg.fn \notin Repeated, NEW pkg, Made(pkg), Addressed(pkg),
           got = <<>>, AskFor(pkg)
    PROVE  FunctionStep
BY DEF FunctionStep, Asking, Repeated

LEMMA Returned ==
    ASSUME CallInv, phase = "called", arg.fn # "DIG_GetBoardInfo", NEW code, NEW output,
           code >= 0 /\ arg.fn \notin BestEffort => AllGood, Return(code, output)
    PROVE  FunctionStep
BY DEF FunctionStep, Honest

\* A function that makes one request.
LEMMA OneCallStep ==
    ASSUME CallInv, phase = "called", arg.fn \notin Repeated, NEW pkg, Made(pkg), Addressed(pkg),
           NEW before, NEW code, NEW output, OneCall(pkg, before, code, output)
    PROVE  FunctionStep
<1>1. CASE got = <<>> /\ AskFor(pkg)
  BY <1>1, FirstAsked
<1>2. CASE got # <<>> /\ Fails(got[1]) /\ Return(0 - 1, before)
  BY <1>2, Returned DEF Repeated
<1>3. CASE got # <<>> /\ ~Fails(got[1]) /\ Return(code, output)
  BY <1>3, OneAnswer, Returned DEF Repeated
<1> QED
  BY <1>1, <1>2, <1>3 DEF OneCall

\* The same, for a value.
LEMMA ValueStep ==
    ASSUME CallInv, phase = "called", arg.fn \notin Repeated, NEW dst, NEW type,
           arg.fn \notin ByBoard \/ IsDig \/ dst = Dst(arg.type, arg.index),
           \/ ExistOut(dst, type)
           \/ TextOut(dst, type)
           \/ \E before, code, output :
                 OneCall(call_get_value_from_dev(dst, type), before, code, output)
    PROVE  FunctionStep
<1> DEFINE pkg == call_get_value_from_dev(dst, type)
<1>1. Made(pkg) /\ To(pkg, dst)
  BY ValueMade
<1>2. Addressed(pkg)
  BY <1>1, BoardIsAddressed, NoBoardIsNamed
<1>3. PICK before, code, output : OneCall(pkg, before, code, output)
  BY DEF ExistOut, TextOut
<1> QED
  BY <1>1, <1>2, <1>3, OneCallStep

\* The functions for files.
LEMMA OtaStep ==
    ASSUME CallInv, phase = "called", arg.fn \notin Repeated, NEW type, NEW addr,
           NEW pkg, Made(pkg), Addressed(pkg), NEW codes,
           got # <<>> /\ got[1].waited => \A c \in codes : c >= 0 => Good(got[1]),
           NEW output, OtaCall(type, addr, pkg, codes, output)
    PROVE  FunctionStep
<1> USE DEF USB_ERR_PARAM, USB_ERR_RETURN, USB_ERR_NETWORK, Repeated
<1>1. CASE Return(USB_ERR_PARAM, NoOut)
  BY <1>1, Returned
<1>2. CASE got = <<>> /\ AskFor(pkg)
  BY <1>2, FirstAsked
<1>3. CASE Return(USB_ERR_NETWORK, NoOut)
  BY <1>3, Returned
<1>4. CASE got # <<>> /\ got[1].waited /\ \E c \in codes : Return(c, output)
  <2>1. PICK c \in codes : Return(c, output)
    BY <1>4
  <2>2. c >= 0 => AllGood
    BY <1>4, OneAnswer
  <2> QED
    BY <2>1, <2>2, Returned
<1> QED
  BY <1>1, <1>2, <1>3, <1>4 DEF OtaCall

\* A return code that is no error comes of an error code that is none.
LEMMA CodeMeans ==
    ASSUME CallInv, phase = "called", arg.fn \notin Repeated, got # <<>>, got[1].waited,
           NEW c \in Code, c >= 0
    PROVE  Good(got[1])
<1>1. got[1].m_err_code \in Int
  BY OneAnswer
<1> QED
  BY <1>1 DEF Code, OtaCode, USB_ERR_RETURN, Good

\* All but one of them return the error code.
LEMMA OtaFunctionStep ==
    ASSUME CallInv, phase = "called", arg.fn \notin Repeated, NEW type, NEW addr,
           arg.fn \notin ByBoard \/ addr = CalAddr,
           NEW pkg, Made(pkg), To(pkg, addr),
           NEW output, OtaCall(type, addr, pkg, Code, output)
    PROVE  FunctionStep
<1>1. Addressed(pkg)
  BY NoBoardIsNamed, BoardIsAddressed DEF CalAddr
<1>2. got # <<>> /\ got[1].waited => \A c \in Code : c >= 0 => Good(got[1])
  BY CodeMeans
<1> QED
  BY <1>1, <1>2, OtaStep

\* Each of them makes its package and looks at its answer.
LEMMA UpgradesStep ==
    ASSUME CallInv, Upgrades
    PROVE  FunctionStep
<1>1. /\ phase = "called" /\ arg.fn \notin Repeated
      /\ arg.fn \in {"cal_file_start_save", "cal_file_start_read"} => IsSeq(arg.file)
  <2>1. phase = "called" /\ arg.fn \notin Repeated
    BY DEF Upgrades, usb_ota_start_upgrade, usb_ota_cancel_upgrade, usb_ota_query_progress,
       usb_ota_complete_upgrade, cal_read_file, cal_file_start_save, cal_file_query_progress,
       cal_file_complete_save, cal_file_start_read, In, Repeated
  <2> QED
    BY <2>1, CallFacts
<1>2. CASE usb_ota_start_upgrade
  <2> DEFINE pkg == call_ota_start_upgrade(arg.ota_type, arg.version, arg.addr, <<>>)
  <2>1. OtaCall(arg.ota_type, arg.addr, pkg, Code, NoOut) /\ In("usb_ota_start_upgrade")
    BY <1>2 DEF usb_ota_start_upgrade
  <2>2. Made(pkg) /\ To(pkg, arg.addr)
    BY <1>1, <2>1, StartMade, EmptyFacts DEF In
  <2> HIDE DEF pkg
  <2> QED
    BY <1>1, <2>1, <2>2, OtaFunctionStep DEF In, ByBoard
<1>3. CASE usb_ota_cancel_upgrade
  <2> DEFINE pkg == call_ota_cancel_upgrade(arg.ota_type, arg.addr)
  <2>1. OtaCall(arg.ota_type, arg.addr, pkg, Code, NoOut) /\ In("usb_ota_cancel_upgrade")
    BY <1>3 DEF usb_ota_cancel_upgrade
  <2>2. Made(pkg) /\ To(pkg, arg.addr)
    BY <1>1, <2>1, CancelMade DEF In
  <2> HIDE DEF pkg
  <2> QED
    BY <1>1, <2>1, <2>2, OtaFunctionStep DEF In, ByBoard
<1>4. CASE usb_ota_query_progress
  <2> DEFINE pkg == call_ota_query_upgrade(arg.ota_type, arg.addr)
  <2>1. OtaCall(arg.ota_type, arg.addr, pkg, Code, Progress) /\ In("usb_ota_query_progress")
    BY <1>4 DEF usb_ota_query_progress
  <2>2. Made(pkg) /\ To(pkg, arg.addr)
    BY <1>1, <2>1, QueryMade DEF In
  <2> HIDE DEF pkg
  <2> QED
    BY <1>1, <2>1, <2>2, OtaFunctionStep DEF In, ByBoard
<1>5. CASE usb_ota_complete_upgrade
  <2> DEFINE pkg == call_ota_complete_upgrade(arg.ota_type, arg.addr)
  <2>1. OtaCall(arg.ota_type, arg.addr, pkg, Code, NoOut) /\ In("usb_ota_complete_upgrade")
    BY <1>5 DEF usb_ota_complete_upgrade
  <2>2. Made(pkg) /\ To(pkg, arg.addr)
    BY <1>1, <2>1, CompleteMade DEF In
  <2> HIDE DEF pkg
  <2> QED
    BY <1>1, <2>1, <2>2, OtaFunctionStep DEF In, ByBoard
<1>6. CASE cal_read_file
  <2> DEFINE pkg == call_cal_read_file(arg.ota_type, arg.version, arg.addr, <<>>)
  <2>1. OtaCall(arg.ota_type, arg.addr, pkg, Code, NoOut) /\ In("cal_read_file")
    BY <1>6 DEF cal_read_file
  <2>2. Made(pkg) /\ To(pkg, arg.addr)
    BY <1>1, <2>1, ReadMade, EmptyFacts DEF In
  <2> HIDE DEF pkg
  <2> QED
    BY <1>1, <2>1, <2>2, OtaFunctionStep DEF In, ByBoard
<1>7. CASE cal_file_start_save
  <2> DEFINE pkg == call_ota_start_upgrade(arg.ota_type, 1, CalAddr, arg.file)
  <2>1. OtaCall(arg.ota_type, CalAddr, pkg, Code, NoOut) /\ In("cal_file_start_save")
    BY <1>7 DEF cal_file_start_save
  <2>2. Made(pkg) /\ To(pkg, CalAddr)
    BY <1>1, <2>1, StartMade DEF In
  <2> HIDE DEF pkg
  <2> QED
    BY <1>1, <2>1, <2>2, OtaFunctionStep DEF In, ByBoard
<1>8. CASE cal_file_query_progress
  <2> DEFINE pkg == call_ota_query_upgrade(arg.ota_type, CalAddr)
  <2>1. OtaCall(arg.ota_type, CalAddr, pkg, Code, Progress) /\ In("cal_file_query_progress")
    BY <1>8 DEF cal_file_query_progress
  <2>2. Made(pkg) /\ To(pkg, CalAddr)
    BY <1>1, <2>1, QueryMade DEF In
  <2> HIDE DEF pkg
  <2> QED
    BY <1>1, <2>1, <2>2, OtaFunctionStep DEF In, ByBoard
<1>9. CASE cal_file_start_read
  <2> DEFINE pkg == call_cal_read_file(arg.ota_type, 1, CalAddr, arg.file)
  <2>1. OtaCall(arg.ota_type, CalAddr, pkg, Code, NoOut) /\ In("cal_file_start_read")
    BY <1>9 DEF cal_file_start_read
  <2>2. Made(pkg) /\ To(pkg, CalAddr)
    BY <1>1, <2>1, ReadMade DEF In
  <2> HIDE DEF pkg
  <2> QED
    BY <1>1, <2>1, <2>2, OtaFunctionStep DEF In, ByBoard
<1>10. CASE cal_file_complete_save
  <2> DEFINE pkg == call_ota_complete_upgrade(arg.ota_type, CalAddr)
             codes == IF got[1].m_err_code < 0 THEN Code ELSE {0, USB_ERR_RETURN}
  <2>1. phase = "called" /\ arg.fn = "cal_file_complete_save"
    BY <1>10 DEF cal_file_complete_save, In
  <2>2. OtaCall(arg.ota_type, CalAddr, pkg, codes, NoOut)
    BY <1>10 DEF cal_file_complete_save, In
  <2>3. Made(pkg) /\ To(pkg, CalAddr)
    BY <2>1, CompleteMade
  <2>4. Addressed(pkg)
    BY <2>1, <2>3, BoardIsAddressed DEF CalAddr
  <2>5. got # <<>> /\ got[1].waited => \A c \in codes : c >= 0 => Good(got[1])
    BY <1>1, <2>1, CodeMeans, OneAnswer DEF Good, USB_ERR_RETURN
  <2> HIDE DEF pkg, codes
  <2> QED
    BY <1>1, <2>1, <2>2, <2>3, <2>4, <2>5, OtaStep
<1> QED
  BY <1>2, <1>3, <1>4, <1>5, <1>6, <1>7, <1>8, <1>9, <1>10 DEF Upgrades

\* Nothing is sorted to nothing.
LEMMA NoBoards == Sorted({}) = <<>>
<1>1. Cardinality({}) = 0
  BY FS_EmptySet
<1>2. <<>> \in [1 .. 0 -> {}]
  OBVIOUS
<1>3. \A s \in [1 .. 0 -> {}] : s = <<>>
  <2>1. ASSUME NEW s \in [1 .. 0 -> {}] PROVE s = <<>>
    <3>1. s \in Seq({}) /\ Len(s) = 0
      OBVIOUS
    <3> QED
      BY <3>1
  <2> QED
    BY <2>1
<1> QED
  BY <1>1, <1>2, <1>3 DEF Sorted

\* Without a good answer there are no boards.
LEMMA BoardsNeedAnswer ==
    ASSUME Fails(got[1]), NEW types
    PROVE  BoardsOf(types) = <<>> /\ LocalBoards(types) = <<>>
<1>1. get_all_board = <<>> /\ DOMAIN <<>> = {}
  BY DEF get_all_board
<1>2. /\ {b \in DOMAIN get_all_board : TypeOf(b) \in types} = {}
      /\ {b \in DOMAIN get_all_board : TypeOf(b) = types /\ get_all_board[b] = local_ip} = {}
  BY <1>1
<1> QED
  BY <1>2, NoBoards DEF BoardsOf, LocalBoards

\* The functions for slots.
LEMMA SlotStep ==
    ASSUME CallInv, phase = "called", arg.fn \notin Repeated, arg.fn \notin ByBoard,
           NEW boards, Fails(got[1]) => boards = <<>>,
           \/ AskForBoards
           \/ got # <<>> /\ FirstSlot(boards)
           \/ got # <<>> /\ AllSlots(boards) /\ arg.fn \in BestEffort
    PROVE  FunctionStep
<1>1. CASE AskForBoards
  <2> DEFINE pkg == call_get_value_from_dev(255, "VALUE_BOARD_ID")
  <2>1. Made(pkg) /\ Addressed(pkg)
    BY ValueMade, NoBoardIsNamed
  <2>2. got = <<>> /\ AskFor(pkg)
    BY <1>1 DEF AskForBoards
  <2> QED
    BY <2>1, <2>2, FirstAsked
<1>2. CASE got # <<>> /\ FirstSlot(boards)
  <2>1. CASE boards = <<>>
    <3>1. Return(0 - 1, NoOut)
      BY <1>2, <2>1 DEF FirstSlot
    <3> QED
      BY <3>1, Returned DEF Repeated
  <2>2. CASE boards # <<>>
    <3>1. Return(0, [val |-> Slot(boards[1])])
      BY <1>2, <2>2 DEF FirstSlot
    <3>2. AllGood
      BY <1>2, <2>2, OneAnswer
    <3> QED
      BY <3>1, <3>2, Returned DEF Repeated
  <2> QED
    BY <2>1, <2>2
<1>3. CASE got # <<>> /\ AllSlots(boards) /\ arg.fn \in BestEffort
  <2>1. PICK code, output : Return(code, output)
    BY <1>3 DEF AllSlots
  <2> QED
    BY <1>3, <2>1, Returned DEF Repeated
<1> QED
  BY <1>1, <1>2, <1>3

\* The memory of a fetch is given back after the call.
LEMMA FreeKept == CallInv /\ usb_free_real_data => CallInv'
<1> SUFFICES ASSUME CallInv, usb_free_real_data PROVE CallInv'
  OBVIOUS
<1>1. /\ phase = "done" /\ arg.fn = "usb_fetch_real_data"
      /\ phase' = phase /\ arg' = arg /\ asked' = asked /\ wire' = wire /\ given' = given
      /\ got' = got /\ ret' = ret
  BY DEF usb_free_real_data
<1>2. FlowInv' /\ AskedInv' /\ RepliesInv' /\ AddressInv' /\ OneRequestInv' /\ DsaInv'
  BY <1>1 DEF CallInv, FlowInv, AskedInv, RepliesInv, AddressInv, OneRequestInv, DsaInv
<1>3. InfoInv' /\ OwnBoardOnly'
  BY <1>1 DEF InfoInv, OwnBoardOnly
<1>4. SuccessMeansAnswered'
  BY <1>1 DEF CallInv, SuccessMeansAnswered
<1> QED
  BY <1>2, <1>3, <1>4 DEF CallInv

\* The functions of the second part of lib_interface.cpp.
LEMMA QueriesStep ==
    ASSUME CallInv, Queries, ~usb_free_real_data
    PROVE  FunctionStep
<1> USE DEF In, Repeated, ByBoard
<1>1. CASE usb_fetch_real_data
  <2> DEFINE pkg == call_fetch_real_data(arg.addr)
  <2>1. phase = "called" /\ arg.fn = "usb_fetch_real_data"
    BY <1>1 DEF usb_fetch_real_data
  <2>2. Made(pkg) /\ Addressed(pkg)
    BY <2>1, DataMade, NoBoardIsNamed
  <2>3. PICK output : OneCall(pkg, NoOut, 0, output)
    BY <1>1 DEF usb_fetch_real_data
  <2> HIDE DEF pkg
  <2> QED
    BY <2>1, <2>2, <2>3, OneCallStep
<1>2. CASE usb_get_boardids
  <2> DEFINE pkg == call_usb_serials_ids
  <2>1. phase = "called" /\ arg.fn = "usb_get_boardids"
    BY <1>2 DEF usb_get_boardids
  <2>2. Made(pkg) /\ Addressed(pkg)
    BY <2>1, IdsMade, NoBoardIsNamed
  <2>3. PICK code, output : OneCall(pkg, NoOut, code, output)
    BY <1>2 DEF usb_get_boardids
  <2> HIDE DEF pkg
  <2> QED
    BY <2>1, <2>2, <2>3, OneCallStep
<1>3. CASE usb_get_asicjunct_temp
  <2> DEFINE pkg == call_asic_junctions_temp
  <2>1. phase = "called" /\ arg.fn = "usb_get_asicjunct_temp"
    BY <1>3 DEF usb_get_asicjunct_temp
  <2>2. Made(pkg) /\ Addressed(pkg)
    BY <2>1, JunctionMade, NoBoardIsNamed
  <2>3. PICK code, output : OneCall(pkg, NoOut, code, output)
    BY <1>3 DEF usb_get_asicjunct_temp
  <2> HIDE DEF pkg
  <2> QED
    BY <2>1, <2>2, <2>3, OneCallStep
<1>4. CASE usb_get_pcb_temp \/ usb_get_utp40_temp \/ usb_get_board_temp \/ usb_get_board_vol
  <2>1. /\ phase = "called" /\ arg.fn \notin Repeated /\ arg.fn \notin ByBoard
        /\ \E type : PassedOn(type)
    BY <1>4 DEF usb_get_pcb_temp, usb_get_utp40_temp, usb_get_board_temp, usb_get_board_vol
  <2>2. PICK type : PassedOn(type)
    BY <2>1
  <2>3. OneCall(call_get_value_from_dev(arg.addr, type), NoOut, 0, [text |-> Value])
    BY <2>2 DEF PassedOn
  <2> QED
    BY <2>1, <2>3, ValueStep
<1>5. CASE DIG_GetPgbSlot \/ DIG_GetSyncSlot
  <2>1. /\ phase = "called" /\ arg.fn \notin Repeated /\ arg.fn \notin ByBoard
        /\ \/ AskForBoards
           \/ got # <<>> /\ FirstSlot(LocalBoards(FT_PGB))
           \/ got # <<>> /\ FirstSlot(BoardsOf({FT_SYNC, CP_SYNC}))
    BY <1>5 DEF DIG_GetPgbSlot, DIG_GetSyncSlot
  <2> QED
    BY <2>1, BoardsNeedAnswer, SlotStep
<1>6. CASE DIG_GetAsicSlot \/ DIG_GetPpsSlot
  <2>1. /\ phase = "called" /\ arg.fn \notin Repeated /\ arg.fn \notin ByBoard
        /\ arg.fn \in BestEffort
        /\ \/ AskForBoards
           \/ got # <<>> /\ AllSlots(LocalBoards(ASIC))
           \/ got # <<>> /\ AllSlots(BoardsOf({FT_PPS}))
    BY <1>6 DEF DIG_GetAsicSlot, DIG_GetPpsSlot, BestEffort
  <2> QED
    BY <2>1, BoardsNeedAnswer, SlotStep
<1> QED
  BY <1>1, <1>2, <1>3, <1>4, <1>5, <1>6 DEF Queries

\* Is a board there.
LEMMA ExistsStep ==
    ASSUME CallInv, Exists
    PROVE  FunctionStep
<1>1. /\ phase = "called" /\ arg.fn \notin Repeated
      /\ arg.fn = "DIG_GetBoardExist" \/ arg.fn \notin ByBoard
  BY DEF Exists, DIG_GetDigExist, DIG_GetPpsExist, DIG_GetAsicExist, DIG_GetPgbExist,
     DIG_GetSyncExist, DIG_GetBoardExist, In, Repeated, ByBoard
<1>2. CASE Return(0 - 1, NoOut)
  BY <1>1, <1>2, Returned DEF Repeated
<1>3. CASE DIG_GetBoardExist
  <2>1. PICK dst, type : ExistOut(dst, type) /\ (IsDig \/ dst = Dst(arg.type, arg.index))
    BY <1>3 DEF DIG_GetBoardExist, Board
  <2> QED
    BY <1>1, <2>1, ValueStep
<1>4. CASE DIG_GetPgbExist /\ ~Return(0 - 1, NoOut)
  <2>1. PICK code : OneCall(GetValue(Dst(FT_PGB, arg.index), "VALUE_PGB_EXIST"), NoOut, code,
                            Integer)
    BY <1>4 DEF DIG_GetPgbExist
  <2>2. OneCall(call_get_value_from_dev(Dst(FT_PGB, arg.index), "VALUE_PGB_EXIST"), NoOut, code,
                Integer)
    BY <2>1 DEF GetValue
  <2>3. arg.fn \notin ByBoard
    BY <1>4 DEF DIG_GetPgbExist, In, ByBoard
  <2> QED
    BY <1>1, <2>2, <2>3, ValueStep
<1>5. CASE /\ DIG_GetDigExist \/ DIG_GetPpsExist \/ DIG_GetAsicExist \/ DIG_GetSyncExist
           /\ ~Return(0 - 1, NoOut)
  <2>1. arg.fn \notin ByBoard /\ \E dst, type : ExistOut(dst, type)
    BY <1>5 DEF DIG_GetDigExist, DIG_GetPpsExist, DIG_GetAsicExist, DIG_GetSyncExist,
       IndexedExist, In, ByBoard
  <2> QED
    BY <1>1, <2>1, ValueStep
<1> QED
  BY <1>2, <1>3, <1>4, <1>5 DEF Exists

\* Texts of one board.
LEMMA TextsStep ==
    ASSUME CallInv, Texts, ~DIG_GetDsaID, ~DIG_GetBoardInfo
    PROVE  FunctionStep
<1> USE DEF In, Repeated, ByBoard
<1>1. CASE DIG_GetSyncID \/ DIG_GetSyncSN \/ DIG_GetSyncHwVersion \/ DIG_GetSyncSoftVersion
           \/ DIG_GetDigVersion
  <2>1. /\ phase = "called" /\ arg.fn \notin Repeated /\ arg.fn \notin ByBoard
        /\ \E cp, ft, type : DevText(cp, ft, type)
    BY <1>1 DEF DIG_GetSyncID, DIG_GetSyncSN, DIG_GetSyncHwVersion, DIG_GetSyncSoftVersion,
       DIG_GetDigVersion
  <2>2. Return(0 - 1, NoOut) \/ \E dst, type : TextOut(dst, type)
    BY <2>1 DEF DevText
  <2> QED
    BY <2>1, <2>2, Returned, ValueStep
<1>2. CASE DIG_GetBoardID \/ DIG_GetBoardSN \/ DIG_GetBoardHwVersion \/ DIG_GetBoardSoftVersion
  <2>1. /\ phase = "called" /\ arg.fn \notin Repeated
        /\ \E dst, type : TextOut(dst, type) /\ (IsDig \/ dst = Dst(arg.type, arg.index))
    BY <1>2 DEF DIG_GetBoardID, DIG_GetBoardSN, DIG_GetBoardHwVersion, DIG_GetBoardSoftVersion,
       Board
  <2> QED
    BY <2>1, ValueStep
<1>3. CASE DIG_GetPgbID \/ DIG_GetPgbSN \/ DIG_GetPgbHwVersion \/ DIG_GetPgbSoftVersion
           \/ DIG_GetPpsID \/ DIG_GetPpsSN \/ DIG_GetPpsHwVersion \/ DIG_GetPpsSoftVersion
           \/ DIG_GetAsicID \/ DIG_GetAsicSN \/ DIG_GetAsicHwVersion \/ DIG_GetAsicSoftVersion
           \/ DIG_GetDigID
  <2>1. /\ phase = "called" /\ arg.fn \notin Repeated /\ arg.fn \notin ByBoard
        /\ \E dst, type : TextOut(dst, type)
    BY <1>3 DEF DIG_GetPgbID, DIG_GetPgbSN, DIG_GetPgbHwVersion, DIG_GetPgbSoftVersion,
       DIG_GetPpsID, DIG_GetPpsSN, DIG_GetPpsHwVersion, DIG_GetPpsSoftVersion, DIG_GetAsicID,
       DIG_GetAsicSN, DIG_GetAsicHwVersion, DIG_GetAsicSoftVersion, DIG_GetDigID
  <2> QED
    BY <2>1, ValueStep
<1> QED
  BY <1>1, <1>2, <1>3 DEF Texts

\* A text that is read came without an error, and the ones before it too.
LEMMA DsaStep ==
    ASSUME CallInv, DIG_GetDsaID
    PROVE  FunctionStep
<1> DEFINE good == got # <<>> => ~Fails(Last(got)) /\ Value # <<>>
           pkg == call_get_value_from_dev(Dst(ASIC, arg.index + Len(got)), "VALUE_ASIC_ID")
<1>1. phase = "called" /\ arg.fn = "DIG_GetDsaID"
  BY DEF DIG_GetDsaID, In
<1>2. good => AllGood
  <2>1. SUFFICES ASSUME good, NEW k \in 1 .. Len(got) PROVE Good(got[k])
    BY DEF AllGood
  <2>2. CASE k = Len(got)
    <3>1. got # <<>> /\ Last(got) = got[k]
      BY <2>2, FlowFacts DEF Last, CallInv
    <3>2. got[k].waited \in BOOLEAN /\ (got[k].waited => got[k].m_err_code \in Int)
      BY DEF CallInv, RepliesInv, Reply
    <3> QED
      BY <2>1, <3>1, <3>2 DEF Fails, Good
  <2> QED
    BY <1>1, <2>2 DEF CallInv, DsaInv
<1>3. CASE Return(0 - 1, NoOut)
  BY <1>1, <1>3, Returned
<1>4. CASE Throw
  BY <1>1, <1>4 DEF FunctionStep
<1>5. CASE good /\ AskFor(pkg)
  <2>1. Made(pkg) /\ Addressed(pkg)
    BY <1>1, ValueMade, NoBoardIsNamed DEF ByBoard
  <2> HIDE DEF pkg, good
  <2>2. Asking(pkg)
    BY <1>1, <1>2, <1>5, <2>1 DEF Asking, Repeated
  <2> QED
    BY <1>1, <1>5, <2>2 DEF FunctionStep
<1>6. CASE good /\ Return(0, [num |-> dsa_id((arg.index - 1) \div 3)])
  BY <1>1, <1>2, <1>6, Returned
<1> QED
  BY <1>3, <1>4, <1>5, <1>6 DEF DIG_GetDsaID, GetValue

\* The answer to the j-th request for the i-th board.
LEMMA TextsAreOwn ==
    ASSUME CallInv, arg.fn = "DIG_GetBoardInfo", phase = "called",
           NEW n \in Nat, Len(got) - 1 = 3 * n, n = Len(BoardsOf({arg.type}))
    PROVE  OwnTexts([info |-> BoardInfo(BoardsOf({arg.type}))])
<1> DEFINE boards == BoardsOf({arg.type})
           info == BoardInfo(boards)
<1>1. \A i \in 1 .. n, j \in 1 .. 3 : info[i].id = boards[i] /\ info[i].text[j] = InfoText(i, j)
  BY DEF BoardInfo
<1>2. DOMAIN info = 1 .. n
  BY DEF BoardInfo
<1> HIDE DEF info, boards
<1>3. ASSUME NEW i \in 1 .. n, NEW j \in 1 .. 3, "text" \in DOMAIN InfoText(i, j)
      PROVE  \E k \in DOMAIN asked :
                /\ asked[k].m_usb_dst = boards[i]
                /\ asked[k].m_value_type = BasicInfo[j]
                /\ Misread(given[k].m_err_code) = 0
                /\ Heard(given[k]) = InfoText(i, j).text
  <2> DEFINE k == 3 * i + j - 2
  <2>1. k \in 2 .. Len(got) /\ k \in 1 .. Len(got) /\ (k - 2) \div 3 + 1 = i /\ ((k - 2) % 3) + 1 = j
    OBVIOUS
  <2>2. got[k].waited /\ got[k].m_err_code = 0 /\ InfoText(i, j).text = got[k].m_value_dev
    BY <1>3 DEF InfoText, NoOut
  <2> HIDE DEF k
  <2>3. Len(asked) = Len(got) /\ DOMAIN asked = 1 .. Len(asked)
    BY FlowFacts DEF CallInv, FlowInv
  <2>4. InfoRequest(asked[k], k)
    BY <2>1, <2>3 DEF CallInv, InfoInv
  <2>5. Reply(given[k], got[k], asked[k]) /\ MadeAs(asked[k], k)
    BY <2>1, <2>3 DEF CallInv, RepliesInv, AskedInv
  <2>6. asked[k].m_msg_cmd = "MC_GET_VALUE" /\ asked[k].m_msg_type = "MT_REQUEST"
    BY <2>4, <2>5 DEF InfoRequest, MadeAs
  <2>7. Misread(given[k].m_err_code) = 0 /\ Heard(given[k]) = got[k].m_value_dev
    BY <2>2, <2>5, <2>6 DEF Reply, Faithful
  <2>8. asked[k].m_usb_dst = boards[i] /\ asked[k].m_value_type = BasicInfo[j]
    BY <2>1, <2>4 DEF InfoRequest, boards
  <2> QED
    BY <2>1, <2>2, <2>3, <2>7, <2>8
<1>4. ASSUME NEW i \in DOMAIN info, NEW j \in 1 .. 3, "text" \in DOMAIN info[i].text[j]
      PROVE  \E k \in DOMAIN asked :
                /\ asked[k].m_usb_dst = info[i].id
                /\ asked[k].m_value_type = BasicInfo[j]
                /\ Misread(given[k].m_err_code) = 0
                /\ Heard(given[k]) = info[i].text[j].text
  <2>1. i \in 1 .. n /\ info[i].id = boards[i] /\ info[i].text[j] = InfoText(i, j)
    BY <1>1, <1>2, Zenon
  <2>2. "text" \in DOMAIN InfoText(i, j)
    BY <1>4, <2>1, Zenon
  <2>3. PICK k \in DOMAIN asked :
           /\ asked[k].m_usb_dst = boards[i]
           /\ asked[k].m_value_type = BasicInfo[j]
           /\ Misread(given[k].m_err_code) = 0
           /\ Heard(given[k]) = InfoText(i, j).text
    BY <1>3, <2>1, <2>2, Zenon
  <2> QED
    BY <2>1, <2>3, Zenon
<1> DEFINE output == [info |-> info]
<1>5. output.info = info
  OBVIOUS
<1> HIDE DEF output
<1>6. OwnTexts(output)
  BY <1>4, <1>5, Zenon DEF OwnTexts
<1> QED
  BY <1>6 DEF info, boards, output

\* Three texts of each board, asked for in the order they are reported in.
LEMMA InfoStep ==
    ASSUME CallInv, DIG_GetBoardInfo
    PROVE  FunctionStep
<1> DEFINE boards == BoardsOf({arg.type})
           n == Len(boards)
           k == Len(got) - 1
<1>1. phase = "called" /\ arg.fn = "DIG_GetBoardInfo" /\ arg.fn \notin ByBoard
  BY DEF DIG_GetBoardInfo, In, ByBoard
<1>2. CASE AskForBoards
  <2> DEFINE pkg == call_get_value_from_dev(255, "VALUE_BOARD_ID")
  <2>1. Made(pkg) /\ Addressed(pkg) /\ got = <<>> /\ AskFor(pkg)
    BY <1>1, <1>2, ValueMade, NoBoardIsNamed DEF AskForBoards
  <2> HIDE DEF pkg
  <2>2. Asking(pkg)
    BY <1>1, <2>1 DEF Asking
  <2> QED
    BY <1>1, <2>1, <2>2 DEF FunctionStep
<1>3. CASE Return(0 - 1, NoOut) \/ Return(0 - 2, NoOut)
  <2>1. Honest(0 - 1, NoOut) /\ Honest(0 - 2, NoOut)
    BY DEF Honest
  <2> QED
    BY <1>1, <1>3, <2>1 DEF FunctionStep
<1>4. CASE got # <<>> /\ AskFor(GetValue(boards[(k \div 3) + 1], BasicInfo[(k % 3) + 1]))
  <2> DEFINE dst == boards[(k \div 3) + 1]
             type == BasicInfo[(k % 3) + 1]
             pkg == call_get_value_from_dev(dst, type)
  <2>1. Made(pkg) /\ Addressed(pkg) /\ pkg.m_usb_dst = dst /\ pkg.m_value_type = type
    BY <1>1, ValueMade, NoBoardIsNamed DEF To
  <2>2. pkg.m_msg_cmd = "MC_GET_VALUE"
    BY DEF call_get_value_from_dev, Request, NewPackage, ++
  <2>3. AskFor(pkg)
    BY <1>4 DEF GetValue
  <2> HIDE DEF pkg
  <2>4. Len(got) + 1 - 2 = k
    BY FlowFacts DEF CallInv
  <2>5. InfoRequest(pkg, Len(got) + 1)
    BY <2>1, <2>2, <2>4 DEF InfoRequest
  <2>6. Asking(pkg)
    BY <1>1, <2>1, <2>5 DEF Asking, Repeated
  <2> QED
    BY <1>1, <2>3, <2>6 DEF FunctionStep
<1>5. CASE n \in 1 .. arg.size /\ k = 3 * n /\ Return(0, [info |-> BoardInfo(boards)])
  <2>1. n \in Nat
    BY <1>5
  <2>2. OwnTexts([info |-> BoardInfo(boards)])
    BY <1>1, <1>5, <2>1, TextsAreOwn
  <2>3. Honest(0, [info |-> BoardInfo(boards)])
    BY <1>1, <2>2 DEF Honest, BestEffort
  <2> QED
    BY <1>1, <1>5, <2>3 DEF FunctionStep
<1> QED
  BY <1>2, <1>3, <1>4, <1>5 DEF DIG_GetBoardInfo

\* What a function that reads a board does: it asks for a value of the board, gives
\* up, or returns; only a good answer makes it succeed.
Outcome ==
    \/ got = <<>> /\ \E value : AskFor(GetValue(Board, value))
    \/ \E code, output : Return(code, output) /\ (code >= 0 => got # <<>> /\ Good(got[1]))
    \/ Throw

\* Such a function asks for its board and returns honestly.
LEMMA OutcomeStep ==
    ASSUME CallInv, phase = "called", arg.fn \notin Repeated, Outcome
    PROVE  FunctionStep
<1>1. CASE got = <<>> /\ \E value : AskFor(GetValue(Board, value))
  <2>1. PICK value : AskFor(call_get_value_from_dev(Board, value))
    BY <1>1 DEF GetValue
  <2> DEFINE pkg == call_get_value_from_dev(Board, value)
  <2>2. Made(pkg) /\ Addressed(pkg)
    BY ValueMade, BoardIsAddressed DEF Board
  <2> HIDE DEF pkg
  <2> QED
    BY <1>1, <2>1, <2>2, FirstAsked DEF pkg
<1>2. CASE \E code, output : Return(code, output) /\ (code >= 0 => got # <<>> /\ Good(got[1]))
  <2>1. PICK code, output : Return(code, output) /\ (code >= 0 => got # <<>> /\ Good(got[1]))
    BY <1>2
  <2>2. code >= 0 => AllGood
    BY <2>1, OneAnswer
  <2> QED
    BY <2>1, <2>2, Returned DEF Repeated
<1>3. CASE Throw
  BY <1>3 DEF FunctionStep
<1> QED
  BY <1>1, <1>2, <1>3 DEF Outcome

\* An error says nothing of the answer.
LEMMA NegativeReturn ==
    ASSUME NEW output, Return(0 - 1, output) \/ Return(0 - 2, output)
    PROVE  Outcome
<1>1. ~(0 - 1 >= 0) /\ ~(0 - 2 >= 0)
  OBVIOUS
<1> QED
  BY <1>1 DEF Outcome

LEMMA GoodReturn ==
    ASSUME NEW code, NEW output, got # <<>>, Good(got[1]), Return(code, output)
    PROVE  Outcome
BY DEF Outcome

\* Good answers, in the words of the functions.
LEMMA AnsweredIsGood ==
    ASSUME CallInv, phase = "called", arg.fn \notin Repeated, Answered
    PROVE  got # <<>> /\ Good(got[1])
BY OneAnswer DEF Answered

LEMMA BinaryTaken ==
    ASSUME NEW items, NEW filled, got # <<>>, Good(got[1]), TakeBinary(items, filled)
    PROVE  Outcome
BY NegativeReturn, GoodReturn DEF TakeBinary

LEMMA TextTaken ==
    ASSUME NEW found, NEW filled, got # <<>>, Good(got[1]), TakeText(found, filled)
    PROVE  Outcome
BY NegativeReturn, GoodReturn DEF TakeText, Outcome

\* One reading, the readings of an interval, all of them, the chips of an interval,
\* the registers of one chip.
LEMMA OneOutcome ==
    ASSUME CallInv, phase = "called", arg.fn \notin Repeated, NEW value, NEW found,
           One(value, found)
    PROVE  Outcome
<1>1. CASE got = <<>> /\ AskFor(GetValue(Board, value))
  BY <1>1 DEF Outcome
<1>2. CASE Return(0 - 1, [reading |-> 0])
  BY <1>2, NegativeReturn
<1>3. CASE Answered /\ Return(0, [reading |-> found])
  BY <1>3, AnsweredIsGood, GoodReturn
<1> QED
  BY <1>1, <1>2, <1>3 DEF One

LEMMA SeveralOutcome ==
    ASSUME CallInv, phase = "called", arg.fn \notin Repeated, NEW value, NEW max,
           \/ \E items, filled : Several(value, max, TakeBinary(items, filled))
           \/ \E found, filled : Several(value, max, TakeText(found, filled))
    PROVE  Outcome
<1>1. \/ Return(0 - 2, Zeroed) \/ Return(0 - 1, Zeroed)
      \/ got = <<>> /\ AskFor(GetValue(Board, value))
      \/ Answered /\ \E items, filled : TakeBinary(items, filled)
      \/ Answered /\ \E found, filled : TakeText(found, filled)
  BY DEF Several
<1>2. CASE Return(0 - 2, Zeroed) \/ Return(0 - 1, Zeroed)
  BY <1>2, NegativeReturn
<1>3. CASE got = <<>> /\ AskFor(GetValue(Board, value))
  BY <1>3 DEF Outcome
<1>4. CASE Answered /\ \E items, filled : TakeBinary(items, filled)
  BY <1>4, AnsweredIsGood, BinaryTaken
<1>5. CASE Answered /\ \E found, filled : TakeText(found, filled)
  BY <1>5, AnsweredIsGood, TextTaken
<1> QED
  BY <1>1, <1>2, <1>3, <1>4, <1>5

LEMMA AllOfOutcome ==
    ASSUME CallInv, phase = "called", arg.fn \notin Repeated, NEW value, NEW items, NEW filled,
           AllOf(value, items, filled)
    PROVE  Outcome
<1>1. CASE got = <<>> /\ AskFor(GetValue(Board, value))
  BY <1>1 DEF Outcome
<1>2. CASE Return(0 - 1, Zeroed)
  BY <1>2, NegativeReturn
<1>3. CASE Answered /\ TakeBinary(items, filled)
  BY <1>3, AnsweredIsGood, BinaryTaken
<1> QED
  BY <1>1, <1>2, <1>3 DEF AllOf

LEMMA ChipsOutcome ==
    ASSUME NEW value, NEW found, ChipsIn(value, found)
    PROVE  Outcome
<1>1. CASE Return(0 - 2, NoOut) \/ Return(0 - 1, Zeroed)
  BY <1>1, NegativeReturn
<1>2. CASE got = <<>> /\ AskFor(GetValue(Board, value))
  BY <1>2 DEF Outcome
<1>3. CASE /\ got # <<>> /\ got[1].waited /\ got[1].m_err_code = 0
           /\ Return(Len(found), Filled(Len(found), found))
  <2>1. Good(got[1])
    BY <1>3 DEF Good
  <2> QED
    BY <1>3, <2>1, GoodReturn
<1> QED
  BY <1>1, <1>2, <1>3 DEF ChipsIn

LEMMA OneChipStep ==
    ASSUME CallInv, phase = "called", arg.fn \notin Repeated, NEW pkg, Made(pkg), Addressed(pkg),
           NEW parsed, OneChip(pkg, parsed)
    PROVE  FunctionStep
<1> DEFINE good == got[1].waited /\ got[1].m_err_code = 0 /\ parsed # Failed
<1>1. CASE got = <<>> /\ AskFor(pkg)
  BY <1>1, FirstAsked
<1>2. CASE got # <<>> /\ ~good /\ Return(0 - 1, Zeroed)
  BY <1>2, NegativeReturn, OutcomeStep
<1>3. CASE got # <<>> /\ good /\ \E code : Return(code, Filled(1, parsed))
  <2>1. Good(got[1])
    BY <1>3 DEF Good
  <2> QED
    BY <1>3, <2>1, GoodReturn, OutcomeStep
<1> QED
  BY <1>1, <1>2, <1>3 DEF OneChip

\* Each of the functions is one of these.
LEMMA ReadingsStep ==
    ASSUME CallInv, Readings
    PROVE  FunctionStep
<1>1. phase = "called" /\ arg.fn \notin Repeated
  BY DEF Readings, DIG_GetBoardTemp, DIG_GetBoardMultiTemp, DIG_GetBoardVol,
     DIG_GetBoardMultiVol, DIG_GetClockChipState, DIG_GetPWMFrequency, DIG_GetSerdesState,
     DIG_GetMutiSerdesState, DIG_GetUtpRegister, DIG_GetMutiUtpRegister, DIG_GetUtp102Register,
     DIG_GetMutiUtp102Register, In, Repeated
<1>2. CASE DIG_GetBoardTemp \/ DIG_GetBoardVol
  <2>1. \E value, found : One(value, found)
    BY <1>2 DEF DIG_GetBoardTemp, DIG_GetBoardVol
  <2> QED
    BY <1>1, <2>1, OneOutcome, OutcomeStep
<1>3. CASE DIG_GetBoardMultiTemp \/ DIG_GetBoardMultiVol \/ DIG_GetMutiSerdesState
  <2>1. \E value, max :
           \/ \E items, filled : Several(value, max, TakeBinary(items, filled))
           \/ \E found, filled : Several(value, max, TakeText(found, filled))
    <3>1. CASE DIG_GetBoardMultiTemp
      <4>1. CASE BinaryTemps
        BY <3>1, <4>1 DEF DIG_GetBoardMultiTemp
      <4>2. CASE ~BinaryTemps
        BY <3>1, <4>2 DEF DIG_GetBoardMultiTemp
      <4> QED
        BY <4>1, <4>2
    <3>2. CASE DIG_GetBoardMultiVol
      <4>1. CASE BinaryVolts
        BY <3>2, <4>1 DEF DIG_GetBoardMultiVol
      <4>2. CASE ~BinaryVolts
        BY <3>2, <4>2 DEF DIG_GetBoardMultiVol
      <4> QED
        BY <4>1, <4>2
    <3>3. CASE DIG_GetMutiSerdesState
      BY <3>3 DEF DIG_GetMutiSerdesState
    <3> QED
      BY <1>3, <3>1, <3>2, <3>3
  <2> QED
    BY <1>1, <2>1, SeveralOutcome, OutcomeStep
<1>4. CASE DIG_GetClockChipState \/ DIG_GetPWMFrequency \/ DIG_GetSerdesState
  <2>1. Return(0 - 1, Zeroed) \/ \E value, items, filled : AllOf(value, items, filled)
    BY <1>4 DEF DIG_GetClockChipState, DIG_GetPWMFrequency, DIG_GetSerdesState
  <2> QED
    BY <1>1, <2>1, NegativeReturn, AllOfOutcome, OutcomeStep
<1>5. CASE DIG_GetMutiUtpRegister \/ DIG_GetMutiUtp102Register
  <2>1. \E value, found : ChipsIn(value, found)
    BY <1>5 DEF DIG_GetMutiUtpRegister, DIG_GetMutiUtp102Register
  <2> QED
    BY <1>1, <2>1, ChipsOutcome, OutcomeStep
<1>6. CASE DIG_GetUtpRegister
  <2> DEFINE pkg == call_get_one_utp_register(Board, arg.n)
  <2>1. Made(pkg) /\ Addressed(pkg)
    BY <1>1, UtpMade, BoardIsAddressed DEF Board
  <2> HIDE DEF pkg
  <2>2. PICK parsed : OneChip(pkg, parsed)
    BY <1>6 DEF DIG_GetUtpRegister, pkg
  <2> QED
    BY <1>1, <2>1, <2>2, OneChipStep
<1>7. CASE DIG_GetUtp102Register
  <2> DEFINE pkg == call_get_one_utp102_register(Board, arg.n)
  <2>1. Made(pkg) /\ Addressed(pkg)
    BY <1>1, Utp102Made, BoardIsAddressed DEF Board
  <2> HIDE DEF pkg
  <2>2. PICK parsed : OneChip(pkg, parsed)
    BY <1>7 DEF DIG_GetUtp102Register, pkg
  <2> QED
    BY <1>1, <2>1, <2>2, OneChipStep
<1> QED
  BY <1>2, <1>3, <1>4, <1>5, <1>6, <1>7 DEF Readings

\* A switch that is legal is one request to the board that is named.
LEMMA SwitchesStep ==
    ASSUME CallInv, Switches
    PROVE  FunctionStep
<1>1. phase = "called" /\ arg.fn \notin Repeated
  BY DEF Switches, DIG_BoardPowerOff, DIG_FPGAPowerOff, DIG_UTP40PowerOff, DIG_ASICPowerOff,
     DIG_FPGA200TPowerOff, DIG_FPGAKU060PowerOff, DIG_UTP40_MasterPowerOff, set_4356_frequency,
     In, Repeated
<1>2. CASE set_4356_frequency
  <2> DEFINE pkg == call_set_frequency(Board, "FREQUENCY_4356_CONTROL", arg.frequency, arg.channel)
  <2>1. Made(pkg) /\ Addressed(pkg)
    BY <1>1, FrequencyMade, BoardIsAddressed DEF Board
  <2> HIDE DEF pkg
  <2>2. OneCall(pkg, NoOut, 0, NoOut)
    BY <1>2 DEF set_4356_frequency, pkg
  <2> QED
    BY <1>1, <2>1, <2>2, OneCallStep
<1>3. CASE ~set_4356_frequency
  <2>1. PICK type, switches, utp40 : Power(type, switches, utp40)
    BY <1>3 DEF Switches, DIG_BoardPowerOff, DIG_FPGAPowerOff, DIG_UTP40PowerOff,
       DIG_ASICPowerOff, DIG_FPGA200TPowerOff, DIG_FPGAKU060PowerOff, DIG_UTP40_MasterPowerOff
  <2> DEFINE pkg == call_powercontrol_req(Board, type, arg.sw, utp40)
  <2>2. Made(pkg) /\ Addressed(pkg)
    BY <1>1, PowerMade, BoardIsAddressed DEF Board
  <2> HIDE DEF pkg
  <2>3. Return(0 - 1, NoOut) \/ OneCall(pkg, NoOut, 0, NoOut)
    BY <2>1 DEF Power, pkg
  <2> QED
    BY <1>1, <2>2, <2>3, NegativeReturn, OutcomeStep, OneCallStep
<1> QED
  BY <1>2, <1>3

-----------------------------------------------------------------------------
(* What the API promises.                                                  *)

\* Every step.
LEMMA StutterKept == CallInv /\ UNCHANGED vars => CallInv'
<1> SUFFICES ASSUME CallInv, UNCHANGED vars PROVE CallInv'
  OBVIOUS
<1>1. /\ phase' = phase /\ arg' = arg /\ asked' = asked /\ wire' = wire /\ given' = given
      /\ got' = got /\ ret' = ret /\ out' = out
  BY DEF vars
<1>2. FlowInv' /\ AskedInv' /\ RepliesInv' /\ OneRequestInv' /\ DsaInv'
  BY <1>1 DEF CallInv, FlowInv, AskedInv, RepliesInv, OneRequestInv, DsaInv, Good
<1>6. AddressInv'
  BY <1>1 DEF CallInv, AddressInv, Addressed, IsDig
<1>3. BoardsOf({arg.type})' = BoardsOf({arg.type})
  BY <1>1 DEF BoardsOf, get_all_board, Fails
<1>4. InfoInv'
  BY <1>1, <1>3 DEF CallInv, InfoInv, InfoRequest
<1>5. SuccessMeansAnswered' /\ OwnBoardOnly'
  BY <1>1 DEF CallInv, SuccessMeansAnswered, OwnBoardOnly
<1> QED
  BY <1>2, <1>6, <1>4, <1>5 DEF CallInv

LEMMA StepKept == CallInv /\ [Next]_vars => CallInv'
<1>1. CallInv /\ (Upgrades \/ Exists \/ Readings \/ Switches) => CallInv'
  BY UpgradesStep, ExistsStep, ReadingsStep, SwitchesStep, FunctionStepKept
<1>2. CallInv /\ Queries => CallInv'
  BY FreeKept, QueriesStep, FunctionStepKept
<1>3. CallInv /\ Texts => CallInv'
  BY TextsStep, DsaStep, InfoStep, FunctionStepKept
<1> QED
  BY <1>1, <1>2, <1>3, EnterKept, AnswerKept, TimeoutKept, NotifiedKept, LeaveKept, StutterKept
  DEF Next

\* CallInv is inductive.
LEMMA CallAlways == Spec => []CallInv
BY InitKept, StepKept, PTL DEF Spec

\* Every short request that is written is read on the wire as it was made, whatever
\* its members, as far as read_littleendian reads them: serial_to_bin, unpack_data and
\* parse_from_bin fit together (the file name of no calibration type is left behind).
\* The requests for values, power, frequency and registers are not written.
THEOREM RequestIntact == Spec => []RequestArrivesIntact
<1>1. CallInv => RequestArrivesIntact
  <2> SUFFICES ASSUME CallInv, phase = "sent", Last(asked).m_msg_cmd \notin Unwritten, Short(wire)
               PROVE  parse_from_bin(Delivered(wire)) = Carried(Last(asked))
    BY DEF RequestArrivesIntact
  <2>1. MadeAs(Last(asked), Len(asked)) /\ wire = serial_to_bin(Last(asked))
    BY LastAsked
  <2> QED
    BY <2>1 DEF MadeAs, Arrives
<1> QED
  BY <1>1, CallAlways, PTL

\* Every answer a function works with bears the session id of its request, as it is
\* read back twice; a short one is the one the device manager gave, whole.
THEOREM AnswerIntact == Spec => []AnswerArrivesIntact
<1>1. CallInv => AnswerArrivesIntact
  <2> SUFFICES ASSUME CallInv, NEW k \in DOMAIN got, given[k] # None
               PROVE  /\ got[k].m_session = Misread(asked[k].m_session)
                      /\ Short(serial_to_bin(given[k])) => Whole(given[k], got[k])
    BY DEF AnswerArrivesIntact, Whole
  <2>1. Reply(given[k], got[k], asked[k])
    BY FlowFacts DEF CallInv, RepliesInv
  <2> QED
    BY <2>1 DEF Reply, Faithful
<1> QED
  BY <1>1, CallAlways, PTL

\* The address in every request for a board is of the type and index the caller gave;
\* where the request is written, and short, the device manager reads that type.
THEOREM RightBoard == Spec => []BoardAsked
<1>1. CallInv => BoardAsked
  <2> DEFINE pkg == asked[Len(asked)]
  <2> SUFFICES ASSUME CallInv, phase = "sent",
                      {"type", "index"} \subseteq DOMAIN arg, ~IsDig, arg.index \in 0 .. 255
               PROVE  /\ TypeOf(Last(asked).m_usb_dst) = arg.type
                      /\ Slot(Last(asked).m_usb_dst) = arg.index
                      /\ Last(asked).m_msg_cmd \notin Unwritten /\ Short(wire) =>
                             TypeOf(parse_from_bin(Delivered(wire)).m_usb_dst) = arg.type
    BY DEF BoardAsked
  <2>1. MadeAs(pkg, Len(asked)) /\ wire = serial_to_bin(pkg) /\ Last(asked) = pkg
    BY LastAsked
  <2>2. pkg.m_msg_cmd \notin Unwritten /\ Short(wire) =>
            parse_from_bin(Delivered(wire)) = Carried(pkg)
    BY <2>1 DEF MadeAs, Arrives
  <2>3. Addressed(pkg)
    BY DEF CallInv, AddressInv
  <2> HIDE DEF pkg
  <2>4. /\ "m_usb_dst" \in DOMAIN pkg /\ pkg.m_usb_dst \in Int
        /\ TypeOf(pkg.m_usb_dst) = arg.type /\ Slot(pkg.m_usb_dst) = arg.index
    BY <2>3 DEF Addressed
  <2>5. Carried(pkg).m_usb_dst = Misread(pkg.m_usb_dst)
    BY <2>4 DEF Carried, FourBytes
  <2>6. TypeOf(Misread(pkg.m_usb_dst)) = TypeOf(pkg.m_usb_dst)
    BY <2>4, MisreadFacts DEF TypeOf
  <2> QED
    BY <2>1, <2>2, <2>4, <2>5, <2>6
<1> QED
  BY <1>1, CallAlways, PTL

\* A call that reports success has had a good answer to each of its requests; only
\* the functions that say so make do with less.
THEOREM SuccessIsAnswered == Spec => []SuccessMeansAnswered
BY CallAlways, PTL DEF CallInv

\* DIG_GetBoardInfo reports a text only for the board that sent it, whatever became
\* of the other requests of the call.
THEOREM OwnTextsOnly == Spec => []OwnBoardOnly
BY CallAlways, PTL DEF CallInv

-----------------------------------------------------------------------------
(* What a loop over a vector collects.                                     *)

\* h[j] is what was collected of the first j items.
Picks(v, places, n, h) ==
    h = [j \in 0 .. n |-> IF j = 0 THEN <<>>
                          ELSE IF j \in places THEN Append(h[j - 1], v[j]) ELSE h[j - 1]]

\* c are the items of v at the places up to n, in their order.
InOrder(v, places, c, n) ==
    /\ IsSeq(c)
    /\ \E at \in [1 .. Len(c) -> places \cap (1 .. n)] :
          /\ \A j, k \in 1 .. Len(c) : j < k => at[j] < at[k]
          /\ \A p \in places \cap (1 .. n) : \E k \in 1 .. Len(c) : at[k] = p
          /\ \A k \in 1 .. Len(c) : c[k] = v[at[k]]

\* At first nothing is collected,
LEMMA NothingInOrder ==
    ASSUME NEW v, NEW places
    PROVE  InOrder(v, places, <<>>, 0)
<1>1. Len(<<>>) = 0 /\ IsSeq(<<>>) /\ 1 .. 0 = {}
  BY EmptyFacts
<1>2. [k \in 1 .. 0 |-> 0] \in [1 .. 0 -> places \cap (1 .. 0)]
  BY <1>1
<1> QED
  BY <1>1, <1>2 DEF InOrder

\* then every item at one of the places is added, and no other.
LEMMA OneMoreInOrder ==
    ASSUME NEW v, NEW places, NEW c, NEW n \in Nat, InOrder(v, places, c, n)
    PROVE  InOrder(v, places,
                   IF n + 1 \in places THEN Append(c, v[n + 1]) ELSE c, n + 1)
<1>1. PICK at \in [1 .. Len(c) -> places \cap (1 .. n)] :
         /\ \A j, k \in 1 .. Len(c) : j < k => at[j] < at[k]
         /\ \A p \in places \cap (1 .. n) : \E k \in 1 .. Len(c) : at[k] = p
         /\ \A k \in 1 .. Len(c) : c[k] = v[at[k]]
  BY DEF InOrder
<1>2. IsSeq(c) /\ Len(c) \in Nat
  BY SeqFacts DEF InOrder
<1>3. CASE n + 1 \notin places
  <2>1. places \cap (1 .. n + 1) = places \cap (1 .. n)
    <3>1. 1 .. n + 1 = (1 .. n) \cup {n + 1}
      OBVIOUS
    <3> QED
      BY <3>1, <1>3, Zenon
  <2> QED
    BY <1>1, <1>2, <1>3, <2>1, Zenon DEF InOrder
<1>4. CASE n + 1 \in places
  <2> DEFINE d == Append(c, v[n + 1])
             m == Len(c)
             to == [k \in 1 .. m + 1 |-> IF k = m + 1 THEN n + 1 ELSE at[k]]
  <2>1. /\ IsSeq(d) /\ Len(d) = m + 1 /\ m \in Nat
        /\ \A k \in 1 .. m : d[k] = c[k]
        /\ d[m + 1] = v[n + 1]
    BY <1>2, AppendFacts
  <2> HIDE DEF d
  <2>2. /\ \A k \in 1 .. m : to[k] = at[k] /\ at[k] \in places /\ at[k] \in 1 .. n
        /\ to[m + 1] = n + 1
    BY <2>1, <1>1
  <2>3. to \in [1 .. m + 1 -> places \cap (1 .. n + 1)]
    <3>1. ASSUME NEW k \in 1 .. m + 1 PROVE to[k] \in places \cap (1 .. n + 1)
      <4>1. CASE k \in 1 .. m
        BY <4>1, <2>2
      <4>2. CASE k = m + 1
        BY <4>2, <2>2, <1>4
      <4> QED
        BY <4>1, <4>2, <2>1
    <3> QED
      BY <3>1
  <2> HIDE DEF to
  <2>4. ASSUME NEW j \in 1 .. m + 1, NEW k \in 1 .. m + 1, j < k PROVE to[j] < to[k]
    <3>1. j \in 1 .. m /\ (k \in 1 .. m \/ k = m + 1)
      BY <2>1, <2>4
    <3> QED
      BY <3>1, <2>1, <2>2, <2>4, <1>1
  <2>5. ASSUME NEW p \in places \cap (1 .. n + 1) PROVE \E k \in 1 .. m + 1 : to[k] = p
    <3>1. CASE p = n + 1
      BY <3>1, <2>1, <2>2
    <3>2. CASE p # n + 1
      <4>1. p \in places \cap (1 .. n)
        BY <3>2
      <4>2. PICK k \in 1 .. m : at[k] = p
        BY <4>1, <1>1
      <4> QED
        BY <4>2, <2>1, <2>2
    <3> QED
      BY <3>1, <3>2
  <2>6. ASSUME NEW k \in 1 .. m + 1 PROVE d[k] = v[to[k]]
    <3>1. k \in 1 .. m \/ k = m + 1
      BY <2>1
    <3> QED
      BY <3>1, <2>1, <2>2, <1>1
  <2>7. InOrder(v, places, d, n + 1)
    <3>1. /\ to \in [1 .. Len(d) -> places \cap (1 .. n + 1)]
          /\ \A j, k \in 1 .. Len(d) : j < k => to[j] < to[k]
          /\ \A p \in places \cap (1 .. n + 1) : \E k \in 1 .. Len(d) : to[k] = p
          /\ \A k \in 1 .. Len(d) : d[k] = v[to[k]]
      BY <2>1, <2>3, <2>4, <2>5, <2>6
    <3> QED
      BY <2>1, <3>1, Zenon DEF InOrder
  <2> QED
    BY <1>4, <2>7 DEF d
<1> QED
  BY <1>3, <1>4

\* The function that Chosen chooses exists,
LEMMA PicksExist ==
    ASSUME NEW v, NEW places, NEW n \in Nat
    PROVE  \E h : Picks(v, places, n, h)
<1> DEFINE T == {m \in Nat : ~ \E h : Picks(v, places, m, h)}
<1>1. SUFFICES ASSUME T # {} PROVE FALSE
  OBVIOUS
<1>2. PICK m \in T : \A i \in T : m <= i
  <2>1. T \in SUBSET Nat
    OBVIOUS
  <2> QED
    BY <1>1, <2>1, SmallestNat, Zenon
<1>3. m # 0
  <2> DEFINE h == [j \in 0 .. 0 |-> <<>>]
  <2>1. h = [j \in 0 .. 0 |-> IF j = 0 THEN <<>>
                              ELSE IF j \in places THEN Append(h[j - 1], v[j]) ELSE h[j - 1]]
    OBVIOUS
  <2>2. Picks(v, places, 0, h)
    BY <2>1, Zenon DEF Picks
  <2> QED
    BY <2>2
<1>4. m \in Nat \ {0} /\ m - 1 \in Nat /\ m - 1 \notin T
  <2>1. m \in Nat
    OBVIOUS
  <2>2. m - 1 \in Nat /\ ~ (m <= m - 1)
    BY <2>1, <1>3
  <2> HIDE DEF T
  <2> QED
    BY <1>2, <1>3, <2>1, <2>2
<1>5. PICK g : Picks(v, places, m - 1, g)
  BY <1>4
<1> DEFINE h == [j \in 0 .. m |-> IF j < m THEN g[j]
                                  ELSE IF j \in places THEN Append(g[j - 1], v[j]) ELSE g[j - 1]]
<1>6. ASSUME NEW j \in 0 .. m
      PROVE  h[j] = IF j = 0 THEN <<>>
                    ELSE IF j \in places THEN Append(h[j - 1], v[j]) ELSE h[j - 1]
  <2>1. j # 0 => j - 1 \in 0 .. m /\ j - 1 < m /\ h[j - 1] = g[j - 1]
    BY <1>4
  <2>2. CASE j < m
    <3>1. j \in 0 .. m - 1 /\ h[j] = g[j]
      BY <2>2, <1>4
    <3>2. g[j] = IF j = 0 THEN <<>>
                 ELSE IF j \in places THEN Append(g[j - 1], v[j]) ELSE g[j - 1]
      BY <1>5, <3>1 DEF Picks
    <3> QED
      BY <3>1, <3>2, <2>1
  <2>3. CASE j = m
    <3>1. h[j] = IF j \in places THEN Append(g[j - 1], v[j]) ELSE g[j - 1]
      BY <2>3, <1>4
    <3> QED
      BY <3>1, <2>1, <2>3, <1>4
  <2> QED
    BY <2>2, <2>3
<1>7. h = [j \in 0 .. m |-> h[j]]
  OBVIOUS
<1> HIDE DEF h
<1>8. Picks(v, places, m, h)
  BY <1>6, <1>7 DEF Picks
<1> QED
  BY <1>2, <1>8

\* and there is one:
LEMMA PicksUnique ==
    ASSUME NEW v, NEW places, NEW n \in Nat, NEW g, NEW h,
           Picks(v, places, n, g), Picks(v, places, n, h)
    PROVE  g = h
<1> DEFINE T == {i \in 0 .. n : g[i] # h[i]}
<1>1. /\ \A i \in 0 .. n : g[i] = IF i = 0 THEN <<>>
              ELSE IF i \in places THEN Append(g[i - 1], v[i]) ELSE g[i - 1]
      /\ \A i \in 0 .. n : h[i] = IF i = 0 THEN <<>>
              ELSE IF i \in places THEN Append(h[i - 1], v[i]) ELSE h[i - 1]
  BY DEF Picks
<1>2. ASSUME T # {} PROVE FALSE
  <2>0. T \in SUBSET Nat
    OBVIOUS
  <2>1. PICK m \in T : \A i \in T : m <= i
    BY <1>2, <2>0, SmallestNat, Zenon
  <2>2. m # 0 => m - 1 \in 0 .. n /\ m - 1 \notin T
    BY <2>1
  <2> QED
    BY <1>1, <2>1, <2>2
<1>3. g = [i \in 0 .. n |-> g[i]] /\ h = [i \in 0 .. n |-> h[i]]
  BY DEF Picks
<1> QED
  BY <1>2, <1>3

\* so that what is chosen are the items at the places, each once and in their order.
LEMMA ChosenInOrder ==
    ASSUME NEW v, NEW places, IsSeq(v)
    PROVE  InOrder(v, places, Chosen(v, places), Len(v))
<1> DEFINE n == Len(v)
<1>1. n \in Nat
  BY SeqFacts
<1>2. PICK h : Picks(v, places, n, h)
  BY <1>1, PicksExist
<1>3. \A g : Picks(v, places, n, g) => g = h
  BY <1>1, <1>2, PicksUnique
<1>4. Chosen(v, places) = h[n]
  <2>1. \A g : g = [j \in 0 .. n |-> IF j = 0 THEN <<>>
                       ELSE IF j \in places THEN Append(g[j - 1], v[j]) ELSE g[j - 1]] => g = h
    BY <1>3 DEF Picks
  <2>2. h = [j \in 0 .. n |-> IF j = 0 THEN <<>>
                ELSE IF j \in places THEN Append(h[j - 1], v[j]) ELSE h[j - 1]]
    BY <1>2 DEF Picks
  <2>3. (CHOOSE g : g = [j \in 0 .. n |-> IF j = 0 THEN <<>>
             ELSE IF j \in places THEN Append(g[j - 1], v[j]) ELSE g[j - 1]]) = h
    BY <2>1, <2>2, Zenon
  <2> QED
    BY <2>3, Zenon DEF Chosen
<1> DEFINE T == {i \in 0 .. n : ~ InOrder(v, places, h[i], i)}
<1>5. \A i \in 0 .. n : h[i] = IF i = 0 THEN <<>>
          ELSE IF i \in places THEN Append(h[i - 1], v[i]) ELSE h[i - 1]
  BY <1>2 DEF Picks
<1>6. ASSUME T # {} PROVE FALSE
  <2>1. T \in SUBSET Nat
    OBVIOUS
  <2>2. PICK m \in T : \A i \in T : m <= i
    BY <1>6, <2>1, SmallestNat, Zenon
  <2>3. m # 0
    BY <1>1, <1>5, NothingInOrder
  <2>4. m \in 0 .. n /\ m - 1 \in 0 .. n /\ m - 1 \in Nat /\ m - 1 \notin T
    BY <2>2, <2>3, <1>1
  <2>5. InOrder(v, places, h[m - 1], m - 1)
    BY <2>4
  <2>6. h[m] = IF m \in places THEN Append(h[m - 1], v[m]) ELSE h[m - 1]
    BY <2>3, <2>4, <1>5
  <2>7. (m - 1) + 1 = m
    BY <2>4
  <2>8. InOrder(v, places, h[m], m)
    BY <2>4, <2>5, <2>6, <2>7, OneMoreInOrder
  <2> QED
    BY <2>2, <2>8
<1> HIDE DEF n
<1>7. InOrder(v, places, h[n], n)
  BY <1>1, <1>6
<1> QED
  BY <1>4, <1>7 DEF n

\* All of them, as many as there are places;
LEMMA ChosenCounts ==
    ASSUME NEW v, IsSeq(v), NEW places \in SUBSET DOMAIN v, NEW c, c = Chosen(v, places)
    PROVE  /\ IsSeq(c) /\ Len(c) \in Nat /\ DOMAIN c = 1 .. Len(c)
           /\ Len(c) = Cardinality(places)
           /\ \E at \in [1 .. Len(c) -> places] :
                 /\ \A j, k \in 1 .. Len(c) : j < k => at[j] < at[k]
                 /\ \A k \in 1 .. Len(c) : c[k] = v[at[k]]
<1> DEFINE n == Len(c)
<1>1. InOrder(v, places, c, Len(v))
  BY ChosenInOrder
<1>2. places \cap (1 .. Len(v)) = places /\ places \subseteq Nat
  BY SeqFacts
<1>3. IsSeq(c) /\ n \in Nat /\ DOMAIN c = 1 .. n
  BY <1>1, SeqFacts DEF InOrder
<1>4. PICK at \in [1 .. n -> places] :
         /\ \A j, k \in 1 .. n : j < k => at[j] < at[k]
         /\ \A p \in places : \E k \in 1 .. n : at[k] = p
         /\ \A k \in 1 .. n : c[k] = v[at[k]]
  BY <1>1, <1>2 DEF InOrder
<1> HIDE DEF n
<1>5. ASSUME NEW j \in 1 .. n, NEW k \in 1 .. n, at[j] = at[k] PROVE j = k
  <2>1. at[j] \in Nat
    BY <1>2, <1>4
  <2>2. ~ (j < k) /\ ~ (k < j)
    BY <1>4, <1>5, <2>1
  <2> QED
    BY <1>3, <2>2
<1>6. at \in Bijection(1 .. n, places)
  BY <1>4, <1>5 DEF Bijection, Injection, Surjection, IsInjective
<1>7. Cardinality(places) = n
  BY <1>3, <1>6, FS_CountingElements DEF ExistsBijection
<1> QED
  BY <1>3, <1>4, <1>7 DEF n

\* if their numbers are of an interval and differ, no more than it has.
LEMMA NumbersCount ==
    ASSUME NEW places, NEW number, NEW lo \in Int, NEW hi \in Int, lo <= hi,
           \A k \in places : number[k] \in lo .. hi,
           \A j, k \in places : number[j] = number[k] => j = k
    PROVE  Cardinality(places) <= hi - lo + 1
<1> DEFINE f == [k \in places |-> number[k]]
<1>1. f \in Injection(places, lo .. hi)
  BY DEF Injection, IsInjective
<1>2. IsFiniteSet(lo .. hi) /\ Cardinality(lo .. hi) = hi - lo + 1
  BY FS_Interval
<1> HIDE DEF f
<1> QED
  BY <1>1, <1>2, FS_Injection

\* As much of a value as was read is what it begins with.
Begins(w, v) ==
    /\ IsSeq(w) /\ IsSeq(v) /\ Len(w) <= Len(v)
    /\ \A k \in 1 .. Len(w) : w[k] = v[k]

\* The first items of a value are its beginning.
LEMMA FirstItems ==
    ASSUME NEW v, IsSeq(v), NEW m \in Int, m <= Len(v)
    PROVE  /\ Begins(SubSeq(v, 1, m), v)
           /\ Len(SubSeq(v, 1, m)) = IF m < 1 THEN 0 ELSE m
<1> DEFINE w == SubSeq(v, 1, m)
           R == {v[k] : k \in DOMAIN v}
<1>1. DOMAIN v = 1 .. Len(v) /\ Len(v) \in Nat /\ v \in Seq(R)
  BY SeqFacts DEF IsSeq
<1>2. \A i \in 1 .. m : v[i] \in R
  BY <1>1
<1>3. 1 \in Int
  OBVIOUS
<1>4. /\ w \in Seq(R)
      /\ Len(w) = IF 1 <= m THEN m - 1 + 1 ELSE 0
      /\ \A i \in 1 .. m - 1 + 1 : w[i] = v[1 + i - 1]
  BY <1>2, <1>3, SubSeqProperties
<1> HIDE DEF w, R
<1>5. /\ Len(w) = IF m < 1 THEN 0 ELSE m
      /\ \A k \in 1 .. Len(w) : w[k] = v[k]
  BY <1>4
<1>6. IsSeq(w)
  <2> DEFINE S == {w[k] : k \in DOMAIN w}
  <2>1. DOMAIN w = 1 .. Len(w) /\ w = [k \in 1 .. Len(w) |-> w[k]] /\ Len(w) \in Nat
    BY <1>4
  <2>2. \A k \in 1 .. Len(w) : w[k] \in S
    BY <2>1
  <2> HIDE DEF S
  <2>3. w \in Seq(S)
    BY <2>1, <2>2
  <2> QED
    BY <2>3 DEF IsSeq, S
<1>7. Len(w) <= Len(v)
  BY <1>1, <1>5
<1> QED
  BY <1>5, <1>6, <1>7 DEF Begins, w

\* What is read of a value whose length lost a byte is its beginning.
LEMMA HeardBegins ==
    ASSUME NEW a, IsSeq(a.items)
    PROVE  Begins(Heard(a), a.items)
<1> DEFINE m == Misread(4 + Len(a.items))
<1>1. Len(a.items) \in Nat /\ 4 + Len(a.items) \in Int
  BY SeqFacts
<1>2. m \in Int /\ m <= 4 + Len(a.items)
  BY <1>1, MisreadFacts
<1> HIDE DEF m
<1>3. m - 4 \in Int /\ m - 4 <= Len(a.items)
  BY <1>1, <1>2
<1> QED
  BY <1>3, FirstItems DEF Heard, m

\* It is encoded as the value is.
LEMMA BeginsEncoded ==
    ASSUME NEW w, NEW v, Begins(w, v)
    PROVE  /\ IsReadings(v) => IsReadings(w)
           /\ IsCount(v) => IsCount(w)
           /\ IsChips(v) => IsChips(w)
<1>1. /\ Len(w) \in Nat /\ Len(v) \in Nat
      /\ DOMAIN w = 1 .. Len(w) /\ DOMAIN v = 1 .. Len(v)
      /\ \A k \in DOMAIN w : k \in DOMAIN v /\ w[k] = v[k]
  BY SeqFacts DEF Begins
<1>2. w # <<>> => v # <<>> /\ w[1] = v[1]
  <2>1. w # <<>> => 1 \in DOMAIN w
    <3>1. Len(w) = 0 => w = <<>>
      BY DEF Begins, IsSeq
    <3> QED
      BY <1>1, <3>1
  <2>2. 1 \in DOMAIN v => v # <<>>
    OBVIOUS
  <2> QED
    BY <1>1, <2>1, <2>2
<1>3. IsReadings(v) => IsReadings(w)
  BY <1>1 DEF IsReadings
<1>4. IsCount(v) => IsCount(w)
  BY <1>2 DEF IsCount
<1>5. IsChips(v) => IsChips(w)
  BY <1>1 DEF IsChips
<1> QED
  BY <1>3, <1>4, <1>5

-----------------------------------------------------------------------------
(* Where a value comes from.                                               *)

\* The functions that ask a board for one value, and what they ask for.
Readers == OfOne \cup OfIntervals \cup OfAll

ValueOf ==
    CASE arg.fn \in {"DIG_GetBoardTemp", "DIG_GetBoardMultiTemp"} -> "VALUE_TEMP"
      [] arg.fn \in {"DIG_GetBoardVol", "DIG_GetBoardMultiVol"} -> "VALUE_VOL"
      [] arg.fn \in {"DIG_GetSerdesState", "DIG_GetMutiSerdesState"} -> "VALUE_SERDES_STATUS"
      [] arg.fn = "DIG_GetPWMFrequency" -> "VALUE_PWM_FREQUENCY"
      [] arg.fn = "DIG_GetMutiUtpRegister" -> "VALUE_UTP40_REGISTER"
      [] arg.fn = "DIG_GetMutiUtp102Register" -> "VALUE_UTP102_REGISTER"
      [] OTHER -> IF arg.clock = 9528 THEN "VALUE_9528_STATUS" ELSE "VALUE_9545_STATUS"

AsksFor(pkg) ==
    /\ pkg.m_msg_type = "MT_REQUEST" /\ pkg.m_msg_cmd = "MC_GET_VALUE"
    /\ To(pkg, Board)
    /\ "m_value_type" \in DOMAIN pkg /\ pkg.m_value_type = ValueOf

\* What they ask for is what they get, as a board of the type they name sends it; the
\* registers of one chip are asked for in vain.
SourceInv ==
    phase # "idle" =>
        /\ arg.fn \in Readers =>
              /\ \A k \in 1 .. Len(asked) : AsksFor(asked[k])
              /\ \A k \in 1 .. Len(got) :
                    given[k] # None =>
                        given[k].items \in Values /\ Sends(ValueOf, arg.type, given[k].items)
        /\ arg.fn \in OfUtp => \A k \in 1 .. Len(asked) : asked[k].m_msg_cmd \in Registers

\* These functions are given a board.
LEMMA ReadersFacts ==
    ASSUME CallInv, phase # "idle", arg.fn \in Readers
    PROVE  /\ arg.fn \in ByBoard /\ arg.fn \notin Repeated
           /\ arg.type \in 0 .. 255 /\ arg.index \in Int
           /\ Board \in Int /\ TypeOf(Board) = arg.type
<1>1. arg.fn \in ByBoard /\ arg.fn \notin Repeated
  BY DEF Readers, OfOne, OfIntervals, OfChips, OfAll, ByBoard, Repeated
<1>2. arg \in Calls
  BY DEF CallInv, FlowInv
<1>3. arg.type \in 0 .. 255 /\ arg.index \in Int
  BY <1>1, <1>2, CallsAssumption
<1> DEFINE i == arg.index
           t == arg.type
           m == i % 256
<1>4. m \in 0 .. 255
  BY <1>3
<1> HIDE DEF m
<1>5. m * 256 + t \in Int /\ (m * 256 + t) % 256 = t
  BY <1>3, <1>4
<1> QED
  BY <1>1, <1>3, <1>5 DEF Board, Dst, TypeOf, m

\* A request for a value is taken to be known to the device manager as it was made.
LEMMA ValueArrives ==
    ASSUME CallInv, SourceInv, phase = "sent", arg.fn \in Readers
    PROVE  /\ Understood.m_msg_cmd = "MC_GET_VALUE" /\ Understood.m_value_type = ValueOf
           /\ TypeOf(Understood.m_usb_dst) = arg.type
<1> DEFINE pkg == asked[Len(asked)]
<1>1. Last(asked) = pkg /\ Len(asked) \in 1 .. Len(asked)
  BY LastAsked
<1>2. AsksFor(pkg)
  BY <1>1 DEF SourceInv
<1> HIDE DEF pkg
<1>3. Understood = pkg
  BY <1>1, <1>2 DEF Understood, AsksFor, ReadOnly
<1> QED
  BY <1>2, <1>3, ReadersFacts DEF AsksFor, To

\* What is sent in answer to it is of that type, and as that board sends it:
LEMMA ValueAnswered ==
    ASSUME NEW s, s.m_msg_cmd = "MC_GET_VALUE", NEW a \in Answers(s)
    PROVE  a.items \in Values /\ Sends(s.m_value_type, TypeOf(s.m_usb_dst), a.items)
<1> DEFINE Items == CASE s.m_msg_cmd = "MC_GET_VALUE" ->
                           {v \in Values : Sends(s.m_value_type, TypeOf(s.m_usb_dst), v)}
                      [] s.m_msg_cmd \in Lists -> {v \in Values : Sends(s.m_msg_cmd, 0, v)}
                      [] OTHER -> {<<>>}
           Steps == IF s.m_msg_cmd = "MC_QUERY" THEN {<<0, 0>>, <<1, 4>>, <<4, 4>>} ELSE {<<0, 0>>}
           Cuts == IF s.m_msg_cmd = "MC_GET_VALUE" THEN {0} ELSE {0, 1}
<1>1. PICK e \in ErrCodes, i \in Items, p \in Steps, c \in Cuts :
         a = [m_msg_type |-> "MT_RESPOND", m_msg_cmd |-> s.m_msg_cmd, m_session |-> s.m_session,
              m_err_code |-> e, items |-> i, cut |-> c, m_upgrade_progress |-> p[1],
              m_total_len |-> p[2],
              m_usb_dst |-> IF s.m_msg_cmd = "MC_DATA" THEN s.m_usb_dst ELSE 0]
  BY DEF Answers
<1>2. i \in Values /\ Sends(s.m_value_type, TypeOf(s.m_usb_dst), i)
  <2> DEFINE Some == {v \in Values : Sends(s.m_value_type, TypeOf(s.m_usb_dst), v)}
  <2>1. i \in Some
    <3>1. s.m_msg_cmd \notin Lists
      BY DEF Lists
    <3>2. Items = Some
      BY <3>1, Zenon DEF Items
    <3> HIDE DEF Items, Some
    <3> QED
      BY <3>2
  <2> QED
    BY <2>1
<1> HIDE DEF Items, Steps, Cuts
<1>3. a.items = i
  BY <1>1
<1> QED
  BY <1>2, <1>3

\* so that it is what was asked for.
LEMMA AnswerFrom == CallInv /\ SourceInv /\ Answer => SourceInv'
<1> SUFFICES ASSUME CallInv, SourceInv, Answer PROVE SourceInv'
  OBVIOUS
<1> DEFINE s == Understood
           n == Len(got)
<1>1. phase = "sent" /\ s # Refused
  BY DEF Answer
<1>2. PICK a \in Answers(s) : \E r : Resume(a, r)
  BY DEF Answer
<1>3. /\ phase' = "called" /\ arg' = arg /\ asked' = asked
      /\ given' = Append(given, a) /\ \E r : got' = Append(got, r)
  BY <1>2 DEF Resume
<1>4. /\ n \in Nat /\ Len(given) = n /\ Len(got') = n + 1
      /\ \A k \in 1 .. n : given'[k] = given[k]
      /\ given'[n + 1] = a
  BY <1>3, AppendFacts DEF CallInv, FlowInv
<1>5. ASSUME arg.fn \in Readers
      PROVE  a.items \in Values /\ Sends(ValueOf, arg.type, a.items)
  <2>1. /\ s.m_msg_cmd = "MC_GET_VALUE" /\ s.m_value_type = ValueOf
        /\ TypeOf(s.m_usb_dst) = arg.type
    BY <1>1, <1>5, ValueArrives
  <2> HIDE DEF s
  <2> QED
    BY <1>2, <2>1, ValueAnswered
<1> HIDE DEF n
<1>6. ASSUME arg.fn \in Readers, NEW k \in 1 .. n + 1, given'[k] # None
      PROVE  given'[k].items \in Values /\ Sends(ValueOf, arg.type, given'[k].items)
  <2>1. CASE k = n + 1
    BY <2>1, <1>4, <1>5, <1>6
  <2>2. CASE k \in 1 .. n
    BY <2>2, <1>1, <1>4, <1>6 DEF SourceInv, n
  <2> QED
    BY <2>1, <2>2, <1>4
<1> QED
  BY <1>1, <1>3, <1>4, <1>6 DEF SourceInv, ValueOf, AsksFor, To, Board

\* No answer changes nothing of that,
LEMMA NothingFrom == CallInv /\ SourceInv /\ (Timeout \/ Notified) => SourceInv'
<1> SUFFICES ASSUME CallInv, SourceInv, Timeout \/ Notified PROVE SourceInv'
  OBVIOUS
<1> DEFINE n == Len(got)
<1>1. phase = "sent" /\ \E r : Resume(None, r)
  BY DEF Timeout, Notified
<1>3. /\ phase' = "called" /\ arg' = arg /\ asked' = asked
      /\ given' = Append(given, None) /\ \E r : got' = Append(got, r)
  BY <1>1 DEF Resume
<1>4. /\ n \in Nat /\ Len(given) = n /\ Len(got') = n + 1
      /\ \A k \in 1 .. n : given'[k] = given[k]
      /\ given'[n + 1] = None
  BY <1>3, AppendFacts DEF CallInv, FlowInv
<1> HIDE DEF n
<1>6. ASSUME arg.fn \in Readers, NEW k \in 1 .. n + 1, given'[k] # None
      PROVE  given'[k].items \in Values /\ Sends(ValueOf, arg.type, given'[k].items)
  <2>1. k \in 1 .. n
    BY <1>4, <1>6
  <2> QED
    BY <2>1, <1>1, <1>4, <1>6 DEF SourceInv, n
<1> QED
  BY <1>1, <1>3, <1>4, <1>6 DEF SourceInv, ValueOf, AsksFor, To, Board

\* and neither does what a function does with it.
LEMMA ReturnFrom ==
    ASSUME SourceInv, phase = "called", Throw \/ \E code, output : Return(code, output)
    PROVE  SourceInv'
BY DEF SourceInv, Throw, Return, ValueOf, AsksFor, To, Board

\* A function asks for what it reads.
LEMMA AskForFrom ==
    ASSUME CallInv, SourceInv, phase = "called", NEW pkg, AskFor(pkg),
           arg.fn \in Readers => AsksFor(pkg),
           arg.fn \in OfUtp => pkg.m_msg_cmd \in Registers
    PROVE  SourceInv'
<1> DEFINE n == Len(asked)
<1>1. /\ phase' = "sent" /\ arg' = arg /\ asked' = Append(asked, pkg)
      /\ given' = given /\ got' = got
  BY DEF AskFor
<1>2. /\ n \in Nat /\ Len(asked') = n + 1
      /\ \A k \in 1 .. n : asked'[k] = asked[k]
      /\ asked'[n + 1] = pkg
  BY <1>1, AppendFacts DEF CallInv, FlowInv
<1>3. \A k \in 1 .. n + 1 : k \in 1 .. n \/ k = n + 1
  BY <1>2
<1> HIDE DEF n
<1>4. arg.fn \in Readers => \A k \in 1 .. n + 1 : AsksFor(asked'[k])
  BY <1>2, <1>3 DEF SourceInv, n
<1>5. arg.fn \in OfUtp => \A k \in 1 .. n + 1 : asked'[k].m_msg_cmd \in Registers
  BY <1>2, <1>3 DEF SourceInv, n
<1>6. ValueOf' = ValueOf /\ Board' = Board
  BY <1>1 DEF ValueOf, Board, Dst
<1>7. \A k \in 1 .. n + 1 : AsksFor(asked'[k]) <=> AsksFor(asked[k])'
  BY <1>6 DEF AsksFor, To
<1> QED
  BY <1>1, <1>2, <1>4, <1>5, <1>6, <1>7 DEF SourceInv

\* What a function finds in its answer is the beginning of a value that was sent for it,
\* encoded as it expects.
LEMMA ValueHeard ==
    ASSUME CallInv, SourceInv, phase = "called", arg.fn \in Readers, got # <<>>, got[1].waited
    PROVE  \E v \in Values : Sends(ValueOf, arg.type, v) /\ Begins(Value, v)
<1> DEFINE a == given[1]
           r == got[1]
<1>1. Len(got) = 1 /\ 1 \in 1 .. Len(got) /\ Last(got) = r
  BY ReadersFacts, OneAnswer DEF Last
<1>2. AsksFor(asked[1])
  BY <1>1 DEF SourceInv, CallInv, FlowInv
<1>3. Reply(a, r, asked[1])
  BY <1>1 DEF CallInv, RepliesInv
<1>4. a # None
  BY <1>2, <1>3 DEF Reply, AsksFor
<1>5. a.items \in Values /\ Sends(ValueOf, arg.type, a.items)
  BY <1>1, <1>4 DEF SourceInv
<1>6. IsAnswer(a) /\ a.m_msg_cmd = "MC_GET_VALUE" /\ Faithful(a, r)
  BY <1>2, <1>3, <1>4 DEF Reply, AsksFor
<1>7. Value = Heard(a)
  BY <1>1, <1>6 DEF Faithful, Value
<1>8. Begins(Value, a.items)
  BY <1>6, <1>7, HeardBegins DEF IsAnswer
<1> QED
  BY <1>5, <1>8

OfReadings == {"DIG_GetBoardTemp", "DIG_GetBoardMultiTemp", "DIG_GetSerdesState",
               "DIG_GetMutiSerdesState"}
OfVoltages == {"DIG_GetBoardVol", "DIG_GetBoardMultiVol"}

\* A value that is read back is of the encoding that the function takes it to be of.
LEMMA ValueEncoded ==
    ASSUME CallInv, SourceInv, phase = "called", arg.fn \in Readers, got # <<>>, got[1].waited
    PROVE  /\ IsSeq(Value)
           /\ arg.fn \in OfReadings \/ (arg.fn \in OfVoltages /\ arg.type = FT_DIG) =>
                 IsReadings(Value)
           /\ (arg.fn \in OfVoltages /\ arg.type # FT_DIG) \/ arg.fn = "DIG_GetPWMFrequency" =>
                 IsCount(Value)
           /\ arg.fn \in OfChips => IsChips(Value)
<1>1. PICK v \in Values : Sends(ValueOf, arg.type, v) /\ Begins(Value, v)
  BY ValueHeard
<1>2. arg.type \in 0 .. 255
  BY ReadersFacts
<1>3. /\ IsReadings(v) => IsReadings(Value)
      /\ IsCount(v) => IsCount(Value)
      /\ IsChips(v) => IsChips(Value)
  BY <1>1, BeginsEncoded
<1>4. CASE arg.fn \in OfReadings
  <2>1. ValueOf \in {"VALUE_TEMP", "VALUE_SERDES_STATUS"}
    BY <1>4 DEF ValueOf, OfReadings
  <2>2. IsReadings(v)
    BY <1>1, <1>2, <2>1, SendsAssumption
  <2> QED
    BY <1>1, <1>3, <1>4, <2>2 DEF Begins, OfReadings, OfVoltages, OfChips
<1>5. CASE arg.fn \in OfVoltages
  <2>1. ValueOf = "VALUE_VOL"
    BY <1>5 DEF ValueOf, OfVoltages
  <2>2. IF arg.type = FT_DIG THEN IsReadings(v) ELSE IsCount(v)
    BY <1>1, <1>2, <2>1, SendsAssumption
  <2> QED
    BY <1>1, <1>3, <1>5, <2>2 DEF Begins, OfReadings, OfVoltages, OfChips
<1>6. CASE arg.fn = "DIG_GetPWMFrequency"
  <2>1. ValueOf = "VALUE_PWM_FREQUENCY"
    BY <1>6 DEF ValueOf
  <2>2. IsCount(v)
    BY <1>1, <1>2, <2>1, SendsAssumption
  <2> QED
    BY <1>1, <1>3, <1>6, <2>2 DEF Begins, OfReadings, OfVoltages, OfChips
<1>7. CASE arg.fn \in OfChips
  <2>1. ValueOf \in {"VALUE_UTP40_REGISTER", "VALUE_UTP102_REGISTER"}
    BY <1>7 DEF ValueOf, OfChips
  <2>2. IsChips(v)
    BY <1>1, <1>2, <2>1, SendsAssumption
  <2> QED
    BY <1>1, <1>3, <1>7, <2>2 DEF Begins, OfReadings, OfVoltages, OfChips
<1>8. CASE arg.fn = "DIG_GetClockChipState"
  BY <1>1, <1>8 DEF Begins, OfReadings, OfVoltages, OfChips
<1> QED
  BY <1>4, <1>5, <1>6, <1>7, <1>8
  DEF Readers, OfOne, OfIntervals, OfChips, OfAll, OfReadings, OfVoltages

\* Which of the two encodings it is can be seen.
LEMMA AsSent ==
    ASSUME NEW v, IsSeq(v)
    PROVE  /\ IsReadings(v) \/ IsChips(v) => InAnswer(v) = v
           /\ IsCount(v) /\ v # <<>> => InAnswer(v) = Numbered(v)
<1>1. v # <<>> => 1 \in DOMAIN v
  <2>1. Len(v) = 0 => v = <<>>
    BY DEF IsSeq
  <2> QED
    BY <2>1, SeqFacts
<1>2. ASSUME v # <<>>, DOMAIN v[1] = {"num"} PROVE ~ IsReadings(v) /\ ~ IsChips(v)
  <2>1. ~ Bad(v[1])
    BY <1>2 DEF Bad
  <2>2. ~ (DOMAIN v[1] = {"chip", "regs"})
    BY <1>2
  <2>3. ASSUME v[1] = [id |-> v[1].id, val |-> v[1].val] PROVE FALSE
    <3>1. DOMAIN v[1] = {"id", "val"}
      <4> DEFINE i == v[1].id
                 x == v[1].val
      <4>1. v[1] = [id |-> i, val |-> x]
        BY <2>3
      <4> HIDE DEF i, x
      <4> QED
        BY <4>1
    <3> QED
      BY <3>1, <1>2
  <2> QED
    BY <1>1, <1>2, <2>1, <2>2, <2>3 DEF IsReadings, IsChips
<1> QED
  BY <1>2 DEF InAnswer, IsCount

-----------------------------------------------------------------------------
(* What is reported.                                                       *)

Promises == ReportsMeasured /\ IntervalComplete /\ FitsArray

\* The items at some places, in their order.
Picked(output, items, places) ==
    /\ output.sz = Len(output.arry) /\ output.sz = Cardinality(places)
    /\ \E at \in [1 .. output.sz -> places] :
          /\ \A j, k \in 1 .. output.sz : j < k => at[j] < at[k]
          /\ \A k \in 1 .. output.sz : output.arry[k] = items[at[k]]

\* What a loop collects are the items at its places.
LEMMA ChosenPicked ==
    ASSUME NEW v, IsSeq(v), NEW places \in SUBSET DOMAIN v, NEW c, c = Chosen(v, places)
    PROVE  Picked(Filled(Len(c), c), v, places)
<1> DEFINE output == Filled(Len(c), c)
<1>1. output.sz = Len(c) /\ output.arry = c
  BY DEF Filled
<1>2. Len(c) = Cardinality(places)
  BY ChosenCounts
<1>3. PICK at \in [1 .. Len(c) -> places] :
         /\ \A j, k \in 1 .. Len(c) : j < k => at[j] < at[k]
         /\ \A k \in 1 .. Len(c) : c[k] = v[at[k]]
  BY ChosenCounts
<1> HIDE DEF output
<1>4. /\ at \in [1 .. output.sz -> places]
      /\ \A j, k \in 1 .. output.sz : j < k => at[j] < at[k]
      /\ \A k \in 1 .. output.sz : output.arry[k] = v[at[k]]
  BY <1>1, <1>3
<1>5. Picked(output, v, places)
  BY <1>1, <1>2, <1>4, Zenon DEF Picked
<1> QED
  BY <1>5 DEF output

\* All that a return has to see to.
LEMMA ReturnPromises ==
    ASSUME NEW code, NEW output, Return(code, output),
           code >= 0 /\ got # <<>> =>
              /\ arg.fn \in OfOne => [id |-> arg.n, val |-> output.reading] \in Measured(Value)
              /\ arg.fn \in Arrays \ {"DIG_GetClockChipState"} =>
                    \A k \in DOMAIN output.arry : output.arry[k] \in Measured(Value)
              /\ arg.fn \in OfIntervals => Picked(output, InAnswer(Value), Inside(InAnswer(Value))),
           arg.fn \in Arrays /\ "arry" \in DOMAIN output =>
              \/ Len(output.arry) <= Room
              \/ /\ code >= 0 /\ got # <<>> /\ arg.fn \in OfIntervals
                 /\ ~NumberedOnce(InAnswer(Value))
    PROVE  Promises'
<1>1. phase' = "done" /\ ret' = code /\ out' = output /\ arg' = arg /\ got' = got
  BY DEF Return
<1>2. /\ Value' = Value /\ Room' = Room
      /\ \A items : Inside(items)' = Inside(items)
      /\ \A items : NumberedOnce(items)' <=> NumberedOnce(items)
  BY <1>1 DEF Value, Room, Inside, NumberedOnce, NumberOf
<1>3. ReportsMeasured'
  BY <1>1, <1>2 DEF ReportsMeasured, Reported
<1>4. IntervalComplete'
  <2>1. SUFFICES ASSUME code >= 0, got # <<>>, arg.fn \in OfIntervals
                 PROVE  Picked(out', InAnswer(Value)', Inside(InAnswer(Value))')
    BY <1>1, Zenon DEF IntervalComplete, Reported, Picked
  <2>2. Inside(InAnswer(Value))' = Inside(InAnswer(Value))
    BY <1>1 DEF Inside, NumberOf, Value
  <2>3. InAnswer(Value)' = InAnswer(Value)
    BY <1>2
  <2>4. Picked(output, InAnswer(Value), Inside(InAnswer(Value)))
    BY <2>1
  <2> QED
    BY <1>1, <2>2, <2>3, <2>4, Zenon
<1>5. FitsArray'
  <2>1. NumberedOnce(InAnswer(Value))' <=> NumberedOnce(InAnswer(Value))
    BY <1>1 DEF NumberedOnce, Inside, NumberOf, Value
  <2> QED
    BY <1>1, <1>2, <2>1 DEF FitsArray, Reported
<1> QED
  BY <1>3, <1>4, <1>5 DEF Promises

\* Errors report nothing; the array is cleared, or left alone.
LEMMA ErrorReturned ==
    ASSUME NEW code \in {0 - 1, 0 - 2}, NEW output, Return(code, output),
           arg.fn \in OfOne \/ output = NoOut \/ (output = Zeroed /\ Room >= 0)
    PROVE  Promises'
<1>1. ~ (code >= 0)
  OBVIOUS
<1>2. arg.fn \in OfOne => arg.fn \notin Arrays
  BY DEF OfOne, Arrays, OfIntervals, OfChips, OfAll, OfUtp
<1>3. output = NoOut => "arry" \notin DOMAIN output
  BY DEF NoOut
<1>4. output = Zeroed => Len(output.arry) = 0
  BY EmptyFacts DEF Zeroed, Filled
<1> QED
  BY <1>1, <1>2, <1>3, <1>4, ReturnPromises

\* One reading.
LEMMA OneReturned ==
    ASSUME arg.fn \in OfOne, NEW found, [id |-> arg.n, val |-> found] \in Measured(Value),
           Return(0, [reading |-> found])
    PROVE  Promises'
<1>1. arg.fn \notin Arrays /\ arg.fn \notin OfIntervals
  BY DEF OfOne, Arrays, OfIntervals, OfChips, OfAll, OfUtp
<1> QED
  BY <1>1, ReturnPromises

\* All there are, as far as there is room.
LEMMA AllReturned ==
    ASSUME arg.fn \in OfAll, NEW output, Len(output.arry) <= Room, Return(0, output),
           \/ arg.fn = "DIG_GetClockChipState"
           \/ \A k \in DOMAIN output.arry : output.arry[k] \in Measured(Value)
    PROVE  Promises'
<1>1. arg.fn \notin OfOne /\ arg.fn \notin OfIntervals
  BY DEF OfOne, OfIntervals, OfChips, OfAll
<1> QED
  BY <1>1, ReturnPromises

\* The readings or the chips of an interval: each of them once, in their order; if no
\* number comes twice there are no more of them than numbers.
LEMMA IntervalReturned ==
    ASSUME arg.fn \in OfIntervals, arg.lo \in Int, arg.hi \in Int, arg.lo <= arg.hi,
           arg.hi - arg.lo + 1 <= Room, Room \in Int,
           NEW items, items = InAnswer(Value), IsSeq(items),
           NEW found, found = Chosen(items, Inside(items)),
           got # <<>>, NEW code, code >= 0, Return(code, Filled(Len(found), found))
    PROVE  Promises'
<1> DEFINE output == Filled(Len(found), found)
           places == Inside(items)
<1>1. places \in SUBSET DOMAIN items
  BY DEF Inside
<1>2. /\ Len(found) \in Nat /\ DOMAIN found = 1 .. Len(found)
      /\ Len(found) = Cardinality(places)
  BY <1>1, ChosenCounts
<1>3. Picked(output, items, places)
  BY <1>1, ChosenPicked
<1>4. output.sz = Len(found) /\ output.arry = found
  BY DEF Filled
<1>6. \A k \in DOMAIN output.arry : output.arry[k] \in Measured(Value)
  BY <1>1, <1>2, <1>3, <1>4 DEF Measured, Picked
<1>7. ASSUME NumberedOnce(items) PROVE Len(output.arry) <= Room
  <2> DEFINE number == [k \in places |-> NumberOf(items[k])]
  <2>1. \A k \in places : number[k] \in arg.lo .. arg.hi
    BY DEF Inside
  <2>2. \A j, k \in places : number[j] = number[k] => j = k
    BY <1>7 DEF NumberedOnce
  <2> HIDE DEF number, places
  <2>3. Cardinality(places) <= arg.hi - arg.lo + 1
    BY <2>1, <2>2, NumbersCount
  <2> QED
    BY <2>3, <1>2, <1>4
<1>8. arg.fn \notin OfOne /\ arg.fn # "DIG_GetClockChipState"
  BY DEF OfOne, OfIntervals, OfChips
<1> HIDE DEF places
<1> QED
  <2>1. Return(code, output)
    OBVIOUS
  <2> HIDE DEF output
  <2> QED
    BY <1>3, <1>6, <1>7, <1>8, <2>1, ReturnPromises DEF places

\* What a step of such a function is to leave behind.
Truthful == SourceInv' /\ Promises'

\* A function that asks, or gives up with an exception, promises nothing yet.
LEMMA NotDone == phase' # "done" => Promises'
BY DEF Promises, ReportsMeasured, IntervalComplete, FitsArray, Reported

\* A function that asks for its value keeps what it is to keep.
LEMMA ValueAsked ==
    ASSUME CallInv, SourceInv, phase = "called", arg.fn \in Readers,
           AskFor(GetValue(Board, ValueOf))
    PROVE  Truthful
<1> DEFINE pkg == call_get_value_from_dev(Board, ValueOf)
<1>1. AskFor(pkg)
  BY DEF GetValue
<1>2. pkg = [m_msg_type |-> "MT_REQUEST", m_msg_cmd |-> "MC_GET_VALUE",
             m_session |-> Len(asked) + 1, m_usb_dst |-> Board, m_value_type |-> ValueOf]
  BY DEF call_get_value_from_dev, Request, NewPackage, ++
<1> HIDE DEF pkg
<1>3. AsksFor(pkg)
  BY <1>2 DEF AsksFor, To
<1>4. arg.fn \notin OfUtp
  BY DEF Readers, OfOne, OfIntervals, OfChips, OfAll, OfUtp
<1>5. SourceInv'
  BY <1>1, <1>3, <1>4, AskForFrom
<1>6. phase' # "done"
  BY <1>1 DEF AskFor
<1> QED
  BY <1>5, <1>6, NotDone DEF Truthful

\* So does one that reports an error.
LEMMA ErrorReads ==
    ASSUME SourceInv, phase = "called", NEW code \in {0 - 1, 0 - 2}, NEW output,
           Return(code, output),
           arg.fn \in OfOne \/ output = NoOut \/ (output = Zeroed /\ Room >= 0)
    PROVE  Truthful
BY ErrorReturned, ReturnFrom DEF Truthful

\* One reading,
LEMMA OneReads ==
    ASSUME CallInv, SourceInv, phase = "called", arg.fn \in OfOne, NEW found, One(ValueOf, found),
           got # <<>> /\ got[1].waited /\ found # NoVal =>
              [id |-> arg.n, val |-> found] \in Measured(Value)
    PROVE  Truthful
<1>1. arg.fn \in Readers /\ arg.fn \notin Repeated
  BY DEF Readers, OfOne, Repeated
<1>2. CASE AskFor(GetValue(Board, ValueOf))
  BY <1>1, <1>2, ValueAsked
<1>3. CASE Return(0 - 1, [reading |-> 0])
  BY <1>3, ErrorReads
<1>4. CASE got # <<>> /\ Answered /\ found # NoVal /\ Return(0, [reading |-> found])
  <2>1. got[1].waited
    BY <1>1, <1>4, AnsweredIsGood DEF Good
  <2> QED
    BY <1>4, <2>1, OneReturned, ReturnFrom DEF Truthful
<1> QED
  BY <1>2, <1>3, <1>4 DEF One

\* the readings of an interval,
LEMMA NoneRead ==
    ASSUME CallInv, SourceInv, phase = "called", arg.fn \in OfIntervals, arg.fn \notin OfChips,
           Room >= 0,
           \/ AskFor(GetValue(Board, ValueOf)) \/ Throw
           \/ Return(0 - 1, Zeroed) \/ Return(0 - 2, Zeroed)
    PROVE  Truthful
<1>1. arg.fn \in Readers
  BY DEF Readers, OfIntervals, OfChips
<1>2. CASE AskFor(GetValue(Board, ValueOf))
  BY <1>1, <1>2, ValueAsked
<1>3. CASE Return(0 - 1, Zeroed) \/ Return(0 - 2, Zeroed)
  BY <1>3, ErrorReads
<1>4. CASE Throw
  <2>1. phase' # "done"
    BY <1>4 DEF Throw
  <2> QED
    BY <1>4, <2>1, ReturnFrom, NotDone DEF Truthful
<1> QED
  BY <1>2, <1>3, <1>4

\* Where the interval is legal and an answer came, its readings are reported,
LEMMA SomeRead ==
    ASSUME CallInv, SourceInv, phase = "called", arg.fn \in OfIntervals, arg.fn \notin OfChips,
           Room \in Nat, Interval(Room), Answered, NEW found, Return(0, Filled(Len(found), found)),
           got # <<>> /\ got[1].waited =>
              /\ IsSeq(InAnswer(Value))
              /\ found = Chosen(InAnswer(Value), Inside(InAnswer(Value)))
    PROVE  Truthful
<1>1. arg.fn \notin Repeated
  BY DEF OfIntervals, OfChips, Repeated
<1>2. arg.lo \in Int /\ arg.hi \in Int
  BY CallsAssumption DEF CallInv, FlowInv
<1>3. got # <<>> /\ got[1].waited
  BY <1>1, AnsweredIsGood DEF Good
<1>4. arg.lo <= arg.hi /\ arg.hi - arg.lo + 1 <= Room
  BY DEF Interval
<1>5. Promises'
  BY <1>2, <1>3, <1>4, IntervalReturned
<1> QED
  BY <1>5, ReturnFrom DEF Truthful

\* those of a binary as they were converted,
LEMMA BinaryReads ==
    ASSUME CallInv, SourceInv, phase = "called", arg.fn \in OfIntervals, arg.fn \notin OfChips,
           NEW max \in Nat, max = Room, NEW items, NEW found,
           Several(ValueOf, max, TakeBinary(items, Filled(Len(found), found))),
           got # <<>> /\ got[1].waited /\ items # Failed =>
              /\ IsSeq(InAnswer(Value))
              /\ found = Chosen(InAnswer(Value), Inside(InAnswer(Value)))
    PROVE  Truthful
<1>1. CASE \/ AskFor(GetValue(Board, ValueOf))
           \/ Return(0 - 1, Zeroed) \/ Return(0 - 2, Zeroed)
  BY <1>1, NoneRead
<1>2. CASE /\ Interval(max) /\ Answered /\ items # Failed
           /\ Return(0, Filled(Len(found), found))
  BY <1>2, SomeRead
<1> QED
  BY <1>1, <1>2 DEF Several, TakeBinary

\* those of a text as they were found in it.
LEMMA TextReads ==
    ASSUME CallInv, SourceInv, phase = "called", arg.fn \in OfIntervals, arg.fn \notin OfChips,
           NEW max \in Nat, max = Room, NEW found,
           Several(ValueOf, max, TakeText(found, Filled(Len(found), found))),
           got # <<>> /\ got[1].waited =>
              /\ IsSeq(InAnswer(Value))
              /\ found = Chosen(InAnswer(Value), Inside(InAnswer(Value)))
    PROVE  Truthful
<1>1. CASE \/ AskFor(GetValue(Board, ValueOf)) \/ Throw
           \/ Return(0 - 1, Zeroed) \/ Return(0 - 2, Zeroed)
  BY <1>1, NoneRead
<1>2. CASE Interval(max) /\ Answered /\ Return(0, Filled(Len(found), found))
  BY <1>2, SomeRead
<1> QED
  BY <1>1, <1>2 DEF Several, TakeText

\* all of them,
LEMMA AllReads ==
    ASSUME CallInv, SourceInv, phase = "called", arg.fn \in OfAll, Room >= 0, NEW items, NEW filled,
           AllOf(ValueOf, items, filled),
           got # <<>> /\ got[1].waited /\ items # Failed =>
              /\ Len(filled.arry) <= Room
              /\ \/ arg.fn = "DIG_GetClockChipState"
                 \/ \A k \in DOMAIN filled.arry : filled.arry[k] \in Measured(Value)
    PROVE  Truthful
<1>1. arg.fn \in Readers /\ arg.fn \notin Repeated
  BY DEF Readers, OfAll, Repeated
<1>3. CASE AskFor(GetValue(Board, ValueOf))
  BY <1>1, <1>3, ValueAsked
<1>4. CASE Return(0 - 1, Zeroed)
  BY <1>4, ErrorReads
<1>5. CASE Answered /\ items # Failed /\ Return(0, filled)
  <2>1. got # <<>> /\ got[1].waited
    BY <1>1, <1>5, AnsweredIsGood DEF Good
  <2>2. Promises'
    BY <1>5, <2>1, AllReturned
  <2> QED
    BY <1>5, <2>2, ReturnFrom DEF Truthful
<1> QED
  BY <1>3, <1>4, <1>5 DEF AllOf, TakeBinary

\* the chips of an interval,
LEMMA ChipsReads ==
    ASSUME CallInv, SourceInv, phase = "called", arg.fn \in OfChips, NEW found,
           ChipsIn(ValueOf, found),
           got # <<>> /\ got[1].waited /\ found # <<>> =>
              /\ IsSeq(InAnswer(Value))
              /\ found = Chosen(InAnswer(Value), Inside(InAnswer(Value)))
    PROVE  Truthful
<1>1. /\ arg.fn \in Readers /\ arg.fn \notin Repeated /\ arg.fn \in OfIntervals
      /\ Room = arg.len
  <2>1. arg.fn \in {"DIG_GetMutiUtpRegister", "DIG_GetMutiUtp102Register"}
    BY DEF OfChips
  <2>2. Room = arg.len
    BY <2>1 DEF Room, OfUtp
  <2> QED
    BY <2>1, <2>2 DEF Readers, OfIntervals, OfChips, Repeated
<1>2. arg.lo \in Int /\ arg.hi \in Int /\ arg.len \in Int
  BY <1>1, CallsAssumption DEF CallInv, FlowInv
<1> DEFINE legal == /\ Interval(MAX_UTP_CHIPS) /\ arg.hi - arg.lo + 1 <= arg.len
                    /\ arg.len <= MAX_UTP_CHIPS
<1>3. CASE Return(0 - 2, NoOut)
  BY <1>3, ErrorReads
<1>4. CASE AskFor(GetValue(Board, ValueOf))
  BY <1>1, <1>4, ValueAsked
<1>5. legal => arg.lo <= arg.hi /\ arg.hi - arg.lo + 1 <= Room /\ Room >= 0
  BY <1>1, <1>2 DEF Interval
<1>6. CASE legal /\ Return(0 - 1, Zeroed)
  BY <1>5, <1>6, ErrorReads
<1>7. CASE /\ legal /\ got # <<>> /\ got[1].waited /\ found # <<>>
           /\ Return(Len(found), Filled(Len(found), found))
  <2>1. /\ IsSeq(InAnswer(Value))
        /\ found = Chosen(InAnswer(Value), Inside(InAnswer(Value)))
    BY <1>7
  <2>2. Len(found) >= 0
    <3>1. Inside(InAnswer(Value)) \in SUBSET DOMAIN InAnswer(Value)
      BY DEF Inside
    <3>2. Len(found) \in Nat
      BY <2>1, <3>1, ChosenCounts
    <3> QED
      BY <3>2
  <2>3. Promises'
    BY <1>1, <1>2, <1>5, <1>7, <2>1, <2>2, IntervalReturned
  <2> QED
    BY <1>7, <2>3, ReturnFrom DEF Truthful
<1> QED
  BY <1>3, <1>4, <1>6, <1>7 DEF ChipsIn

\* and the registers of one chip: nothing is ever answered.
LEMMA UtpReads ==
    ASSUME CallInv, SourceInv, phase = "called", arg.fn \in OfUtp, NEW pkg,
           pkg.m_msg_cmd \in Registers, NEW parsed, OneChip(pkg, parsed)
    PROVE  Truthful
<1>1. Room = 1 /\ arg.fn \notin Repeated /\ arg.fn \notin Readers /\ arg.fn \notin OfOne
  BY DEF Room, OfUtp, OfChips, Repeated, Readers, OfOne, OfIntervals, OfAll
<1>2. CASE AskFor(pkg)
  <2>1. phase' # "done"
    BY <1>2 DEF AskFor
  <2> QED
    BY <1>1, <1>2, <2>1, AskForFrom, NotDone DEF Truthful
<1>3. CASE got # <<>> /\ ~AskFor(pkg)
  <2>1. Len(got) = 1 /\ Len(asked) = 1
    BY <1>1, <1>3, OneAnswer DEF CallInv, FlowInv
  <2>2. asked[1].m_msg_cmd \in Registers
    BY <2>1 DEF SourceInv
  <2>3. MadeAs(asked[1], 1) /\ Reply(given[1], got[1], asked[1])
    BY <2>1 DEF CallInv, AskedInv, RepliesInv
  <2>4. ~ got[1].waited
    <3>1. asked[1].m_msg_type # "MT_NOTIFY"
      BY <2>2, <2>3 DEF MadeAs, Registers
    <3>2. asked[1].m_msg_cmd \notin Asks
      BY <2>2 DEF Asks, Registers
    <3> QED
      BY <2>3, <3>1, <3>2 DEF Reply, IsAnswer
  <2>5. Return(0 - 1, Zeroed)
    BY <1>3, <2>4 DEF OneChip
  <2>6. Room >= 0
    BY <1>1
  <2> QED
    BY <2>5, <2>6, ErrorReads
<1> QED
  BY <1>2, <1>3 DEF OneChip

\* The smallest of some numbers is one of them.
LEMMA MinIsOne ==
    ASSUME NEW S \in SUBSET Nat, S # {}
    PROVE  Min(S) \in S
<1>1. \E x \in S : \A y \in S : x <= y
  BY SmallestNat
<1> QED
  BY <1>1 DEF Min

\* A reading that a search finds is there, under the number that was looked for.
LEMMA ReadingFound ==
    ASSUME NEW items, IsSeq(items), NEW n, IsReadings(items), ~ HasBad(items),
           Reading(items, n) # NoVal
    PROVE  [id |-> n, val |-> Reading(items, n)] \in {items[k] : k \in DOMAIN items}
<1> DEFINE at == {k \in DOMAIN items : items[k].id = n}
           m == Min(at)
<1>1. at \in SUBSET Nat /\ at # {}
  BY SeqFacts DEF Reading
<1>2. m \in DOMAIN items /\ items[m].id = n
  BY <1>1, MinIsOne
<1>3. Reading(items, n) = items[m].val
  BY <1>1 DEF Reading
<1> HIDE DEF m
<1>4. items[m] = [id |-> items[m].id, val |-> items[m].val]
  BY <1>2 DEF IsReadings, HasBad
<1> QED
  BY <1>2, <1>3, <1>4

\* A reading that is found in a text is one of its pieces.
LEMMA TextFound ==
    ASSUME NEW v, IsSeq(v), NEW n, IsReadings(v), find_string_by_serialnum(v, n) # NoVal
    PROVE  [id |-> n, val |-> find_string_by_serialnum(v, n)] \in {v[k] : k \in DOMAIN v}
<1> DEFINE stop == {k \in DOMAIN v : Bad(v[k]) \/ v[k].id = n}
           m == Min(stop)
<1>1. stop \in SUBSET Nat /\ stop # {} /\ ~ Bad(v[m])
  BY SeqFacts DEF find_string_by_serialnum
<1>2. m \in DOMAIN v /\ v[m].id = n
  <2>1. m \in stop
    BY <1>1, MinIsOne
  <2> QED
    BY <1>1, <2>1
<1>3. find_string_by_serialnum(v, n) = v[m].val
  BY <1>1 DEF find_string_by_serialnum
<1> HIDE DEF m, stop
<1>4. v[m] = [id |-> v[m].id, val |-> v[m].val]
  BY <1>1, <1>2 DEF IsReadings
<1> QED
  BY <1>2, <1>3, <1>4

\* A list that is written down item by item.
LEMMA ListIsSeq ==
    ASSUME NEW n \in Nat, NEW f, DOMAIN f = 1 .. n, f = [k \in 1 .. n |-> f[k]]
    PROVE  IsSeq(f) /\ Len(f) = n
<1> DEFINE S == {f[k] : k \in DOMAIN f}
<1>1. \A k \in 1 .. n : f[k] \in S
  OBVIOUS
<1> HIDE DEF S
<1>2. f \in Seq(S) /\ Len(f) = n
  BY <1>1
<1> QED
  BY <1>2 DEF IsSeq, S

\* The numbers behind a count are readings.
LEMMA NumberedFacts ==
    ASSUME NEW v, IsSeq(v), v # <<>>
    PROVE  /\ IsSeq(Numbered(v)) /\ Len(Numbered(v)) = Len(v) - 1
           /\ DOMAIN Numbered(v) = 1 .. Len(v) - 1
           /\ IsReadings(Numbered(v)) /\ ~ HasBad(Numbered(v))
<1>1. Len(v) \in Nat /\ Len(v) # 0
  BY SeqFacts DEF IsSeq
<1> DEFINE n == Len(v) - 1
           f == Numbered(v)
<1>2. n \in Nat
  BY <1>1
<1>3. f = [k \in 1 .. n |-> [id |-> k, val |-> v[k + 1].val]]
  BY DEF Numbered
<1> HIDE DEF n, f
<1>4. DOMAIN f = 1 .. n /\ f = [k \in 1 .. n |-> f[k]]
  BY <1>3
<1>5. IsSeq(f) /\ Len(f) = n
  BY <1>2, <1>4, ListIsSeq
<1>6. ASSUME NEW k \in 1 .. n PROVE f[k] = [id |-> f[k].id, val |-> f[k].val] /\ ~ Bad(f[k])
  <2>1. f[k] = [id |-> k, val |-> v[k + 1].val]
    BY <1>3
  <2> QED
    BY <2>1 DEF Bad
<1> QED
  BY <1>4, <1>5, <1>6 DEF IsReadings, HasBad, n, f

\* What fits of a list is what it begins with.
LEMMA ClampBegins ==
    ASSUME NEW v, IsSeq(v), NEW max \in Nat
    PROVE  Begins(Clamp(v, max), v) /\ Len(Clamp(v, max)) <= max
<1> DEFINE m == IF Len(v) < max THEN Len(v) ELSE max
<1>1. m \in Nat /\ m <= Len(v) /\ m <= max
  BY SeqFacts
<1>2. Clamp(v, max) = SubSeq(v, 1, m)
  BY DEF Clamp
<1> HIDE DEF m
<1>3. m \in Int
  BY <1>1
<1>4. Begins(SubSeq(v, 1, m), v) /\ Len(SubSeq(v, 1, m)) = IF m < 1 THEN 0 ELSE m
  BY <1>1, <1>3, FirstItems
<1> QED
  BY <1>1, <1>2, <1>4

\* The functions that report one reading: a temperature,
LEMMA TempReads == CallInv /\ SourceInv /\ DIG_GetBoardTemp => Truthful
<1> SUFFICES ASSUME CallInv, SourceInv, DIG_GetBoardTemp PROVE Truthful
  OBVIOUS
<1> DEFINE found == IF BinaryTemps THEN find_temp_by_serialnum(Value, arg.n)
                    ELSE find_string_by_serialnum(Value, arg.n)
<1>1. /\ phase = "called" /\ arg.fn = "DIG_GetBoardTemp" /\ One("VALUE_TEMP", found)
  BY DEF DIG_GetBoardTemp, In
<1>2. ValueOf = "VALUE_TEMP" /\ arg.fn \in OfOne /\ arg.fn \in Readers /\ arg.fn \in OfReadings
  BY <1>1 DEF ValueOf, OfOne, Readers, OfReadings
<1>3. ASSUME got # <<>>, got[1].waited, found # NoVal
      PROVE  [id |-> arg.n, val |-> found] \in Measured(Value)
  <2>1. IsSeq(Value) /\ IsReadings(Value)
    BY <1>1, <1>2, <1>3, ValueEncoded
  <2>2. InAnswer(Value) = Value
    BY <2>1, AsSent
  <2>3. CASE BinaryTemps
    <3>1. found = find_temp_by_serialnum(Value, arg.n)
      BY <2>3
    <3>2. ~ HasBad(Value) /\ found = Reading(Value, arg.n)
      BY <1>3, <3>1 DEF find_temp_by_serialnum, parse_comb_temp
    <3> QED
      BY <1>3, <2>1, <2>2, <3>2, ReadingFound DEF Measured
  <2>4. CASE ~ BinaryTemps
    <3>1. found = find_string_by_serialnum(Value, arg.n)
      BY <2>4
    <3> QED
      BY <1>3, <2>1, <2>2, <3>1, TextFound DEF Measured
  <2> QED
    BY <2>3, <2>4
<1> HIDE DEF found
<1> QED
  BY <1>1, <1>2, <1>3, OneReads

\* and a voltage.
LEMMA VolReads == CallInv /\ SourceInv /\ DIG_GetBoardVol => Truthful
<1> SUFFICES ASSUME CallInv, SourceInv, DIG_GetBoardVol PROVE Truthful
  OBVIOUS
<1> DEFINE found == IF BinaryVolts THEN find_voltage_by_serialnum(Value, arg.n)
                    ELSE find_string_by_serialnum(Value, arg.n)
<1>1. /\ phase = "called" /\ arg.fn = "DIG_GetBoardVol" /\ One("VALUE_VOL", found)
  BY DEF DIG_GetBoardVol, In
<1>2. ValueOf = "VALUE_VOL" /\ arg.fn \in OfOne /\ arg.fn \in Readers /\ arg.fn \in OfVoltages
  BY <1>1 DEF ValueOf, OfOne, Readers, OfVoltages
<1>3. ASSUME got # <<>>, got[1].waited, found # NoVal
      PROVE  [id |-> arg.n, val |-> found] \in Measured(Value)
  <2>1. IsSeq(Value) /\ IF BinaryVolts THEN IsCount(Value) ELSE IsReadings(Value)
    BY <1>1, <1>2, <1>3, ValueEncoded DEF BinaryVolts
  <2>3. CASE BinaryVolts
    <3>1. found = find_voltage_by_serialnum(Value, arg.n)
      BY <2>3
    <3>2. Value # <<>> /\ found = Reading(Numbered(Value), arg.n)
      BY <1>3, <3>1 DEF find_voltage_by_serialnum, parse_pcbvolt_data, Counted
    <3>3. InAnswer(Value) = Numbered(Value)
      BY <2>1, <2>3, <3>2, AsSent
    <3>4. IsSeq(Numbered(Value)) /\ IsReadings(Numbered(Value)) /\ ~ HasBad(Numbered(Value))
      BY <2>1, <3>2, NumberedFacts
    <3> QED
      BY <1>3, <3>2, <3>3, <3>4, ReadingFound DEF Measured
  <2>4. CASE ~ BinaryVolts
    <3>1. found = find_string_by_serialnum(Value, arg.n)
      BY <2>4
    <3>2. InAnswer(Value) = Value
      BY <2>1, <2>4, AsSent
    <3> QED
      BY <1>3, <2>1, <2>4, <3>1, <3>2, TextFound DEF Measured
  <2> QED
    BY <2>3, <2>4
<1> HIDE DEF found
<1> QED
  BY <1>1, <1>2, <1>3, OneReads

\* The room in the arrays.
LEMMA RoomFacts ==
    /\ MAX_MULTI_SIZE \in Nat /\ MAX_SERDES_SIZE \in Nat /\ MAX_PWM_CHIP_SIZE \in Nat
    /\ MAX_9528_CHIP_SIZE \in Nat /\ MAX_9528_CHIP_SIZE >= 1
    /\ arg.fn \in {"DIG_GetBoardMultiTemp", "DIG_GetBoardMultiVol"} => Room = MAX_MULTI_SIZE
    /\ arg.fn = "DIG_GetClockChipState" => Room = MAX_9528_CHIP_SIZE
    /\ arg.fn = "DIG_GetPWMFrequency" => Room = MAX_PWM_CHIP_SIZE
    /\ arg.fn \in {"DIG_GetSerdesState", "DIG_GetMutiSerdesState"} => Room = MAX_SERDES_SIZE
<1>1. /\ MAX_MULTI_SIZE \in Nat /\ MAX_SERDES_SIZE \in Nat /\ MAX_PWM_CHIP_SIZE \in Nat
      /\ MAX_9528_CHIP_SIZE \in Nat /\ MAX_9528_CHIP_SIZE >= 1
  BY LibAssumption, SizesAssumption
<1>2. arg.fn \in {"DIG_GetBoardMultiTemp", "DIG_GetBoardMultiVol"} => Room = MAX_MULTI_SIZE
  BY DEF Room, OfChips, OfUtp
<1>3. arg.fn = "DIG_GetClockChipState" => Room = MAX_9528_CHIP_SIZE
  BY DEF Room, OfChips, OfUtp
<1>4. arg.fn = "DIG_GetPWMFrequency" => Room = MAX_PWM_CHIP_SIZE
  BY DEF Room, OfChips, OfUtp
<1>5. arg.fn \in {"DIG_GetSerdesState", "DIG_GetMutiSerdesState"} => Room = MAX_SERDES_SIZE
  BY DEF Room, OfChips, OfUtp
<1> QED
  BY <1>1, <1>2, <1>3, <1>4, <1>5

\* The readings within an interval are those at the places inside it,
LEMMA WithinIsInside ==
    ASSUME arg.fn \in OfIntervals, arg.fn \notin OfChips, NEW v
    PROVE  Within(v, arg.lo, arg.hi) = Chosen(v, Inside(v))
<1>1. Inside(v) = {k \in DOMAIN v : ~Bad(v[k]) /\ v[k].id \in arg.lo .. arg.hi}
  BY DEF Inside, NumberOf
<1> QED
  BY <1>1 DEF Within

\* and the functions that report them report those.
LEMMA MultiTempReads == CallInv /\ SourceInv /\ DIG_GetBoardMultiTemp => Truthful
<1> SUFFICES ASSUME CallInv, SourceInv, DIG_GetBoardMultiTemp PROVE Truthful
  OBVIOUS
<1> DEFINE found == Within(Value, arg.lo, arg.hi)
<1>1. phase = "called" /\ arg.fn = "DIG_GetBoardMultiTemp"
  BY DEF DIG_GetBoardMultiTemp, In
<1>2. /\ ValueOf = "VALUE_TEMP" /\ arg.fn \in OfIntervals /\ arg.fn \notin OfChips
      /\ arg.fn \in Readers /\ arg.fn \in OfReadings /\ Room = MAX_MULTI_SIZE
      /\ MAX_MULTI_SIZE \in Nat
  BY <1>1, RoomFacts DEF ValueOf, OfIntervals, OfChips, Readers, OfReadings
<1>3. ASSUME got # <<>>, got[1].waited
      PROVE  /\ IsSeq(InAnswer(Value)) /\ InAnswer(Value) = Value
             /\ found = Chosen(InAnswer(Value), Inside(InAnswer(Value)))
  <2>1. IsSeq(Value) /\ IsReadings(Value)
    BY <1>1, <1>2, <1>3, ValueEncoded
  <2>2. InAnswer(Value) = Value
    BY <2>1, AsSent
  <2> QED
    BY <1>2, <2>1, <2>2, WithinIsInside
<1>4. CASE BinaryTemps
  <2> DEFINE items == parse_comb_temp(Value)
             some == Within(items, arg.lo, arg.hi)
  <2>1. Several("VALUE_TEMP", MAX_MULTI_SIZE, TakeBinary(items, Filled(Len(some), some)))
    BY <1>4 DEF DIG_GetBoardMultiTemp, find_temp_from_start_to_end
  <2>2. items # Failed => items = Value
    BY DEF parse_comb_temp
  <2>3. got # <<>> /\ got[1].waited /\ items # Failed =>
           /\ IsSeq(InAnswer(Value))
           /\ some = Chosen(InAnswer(Value), Inside(InAnswer(Value)))
    BY <2>2, <1>3
  <2> HIDE DEF items, some
  <2> QED
    BY <1>1, <1>2, <2>1, <2>3, BinaryReads
<1>5. CASE ~ BinaryTemps
  <2>1. Several(ValueOf, MAX_MULTI_SIZE, TakeText(found, Filled(Len(found), found)))
    BY <1>2, <1>5 DEF DIG_GetBoardMultiTemp, InInterval, find_string_from_start_to_end,
       str_to_multiple_temp
  <2> HIDE DEF found
  <2> QED
    BY <1>1, <1>2, <1>3, <2>1, TextReads
<1> QED
  BY <1>4, <1>5

\* The voltages of an interval.
LEMMA MultiVolReads == CallInv /\ SourceInv /\ DIG_GetBoardMultiVol => Truthful
<1> SUFFICES ASSUME CallInv, SourceInv, DIG_GetBoardMultiVol PROVE Truthful
  OBVIOUS
<1>1. phase = "called" /\ arg.fn = "DIG_GetBoardMultiVol"
  BY DEF DIG_GetBoardMultiVol, In
<1>2. /\ ValueOf = "VALUE_VOL" /\ arg.fn \in OfIntervals /\ arg.fn \notin OfChips
      /\ arg.fn \in Readers /\ arg.fn \in OfVoltages /\ Room = MAX_MULTI_SIZE
      /\ MAX_MULTI_SIZE \in Nat
  BY <1>1, RoomFacts DEF ValueOf, OfIntervals, OfChips, Readers, OfVoltages
<1>3. ASSUME got # <<>>, got[1].waited
      PROVE  IsSeq(Value) /\ IF BinaryVolts THEN IsCount(Value) ELSE IsReadings(Value)
  BY <1>1, <1>2, <1>3, ValueEncoded DEF BinaryVolts
<1>4. CASE BinaryVolts
  <2> DEFINE items == parse_pcbvolt_data(Value)
             some == Within(items, arg.lo, arg.hi)
  <2>1. Several("VALUE_VOL", MAX_MULTI_SIZE, TakeBinary(items, Filled(Len(some), some)))
    BY <1>4 DEF DIG_GetBoardMultiVol, find_voltage_from_start_to_end
  <2>2. ASSUME got # <<>>, got[1].waited, items # Failed
        PROVE  /\ IsSeq(InAnswer(Value))
               /\ some = Chosen(InAnswer(Value), Inside(InAnswer(Value)))
    <3>1. Value # <<>> /\ items = Numbered(Value)
      BY <2>2 DEF parse_pcbvolt_data, Counted
    <3>2. InAnswer(Value) = Numbered(Value) /\ IsSeq(Numbered(Value))
      BY <1>3, <1>4, <2>2, <3>1, AsSent, NumberedFacts
    <3> QED
      BY <1>2, <3>1, <3>2, WithinIsInside
  <2> HIDE DEF items, some
  <2> QED
    BY <1>1, <1>2, <2>1, <2>2, BinaryReads
<1>5. CASE ~ BinaryVolts
  <2> DEFINE found == Within(Value, arg.lo, arg.hi)
  <2>1. Several(ValueOf, MAX_MULTI_SIZE, TakeText(found, Filled(Len(found), found)))
    BY <1>2, <1>5 DEF DIG_GetBoardMultiVol, InInterval, find_string_from_start_to_end,
       str_to_multiple_volatage
  <2>2. ASSUME got # <<>>, got[1].waited
        PROVE  /\ IsSeq(InAnswer(Value))
               /\ found = Chosen(InAnswer(Value), Inside(InAnswer(Value)))
    <3>1. InAnswer(Value) = Value
      BY <1>3, <1>5, <2>2, AsSent
    <3> QED
      BY <1>2, <1>3, <2>2, <3>1, WithinIsInside
  <2> HIDE DEF found
  <2> QED
    BY <1>1, <1>2, <2>1, <2>2, TextReads
<1> QED
  BY <1>4, <1>5

\* The links of an interval.
LEMMA MultiSerdesReads == CallInv /\ SourceInv /\ DIG_GetMutiSerdesState => Truthful
<1> SUFFICES ASSUME CallInv, SourceInv, DIG_GetMutiSerdesState PROVE Truthful
  OBVIOUS
<1> DEFINE items == parse_serdes_state(Value)
           some == Within(items, arg.lo, arg.hi)
<1>1. phase = "called" /\ arg.fn = "DIG_GetMutiSerdesState"
  BY DEF DIG_GetMutiSerdesState, In
<1>2. /\ ValueOf = "VALUE_SERDES_STATUS" /\ arg.fn \in OfIntervals /\ arg.fn \notin OfChips
      /\ arg.fn \in Readers /\ arg.fn \in OfReadings /\ Room = MAX_SERDES_SIZE
      /\ MAX_SERDES_SIZE \in Nat
  BY <1>1, RoomFacts DEF ValueOf, OfIntervals, OfChips, Readers, OfReadings
<1>3. Several("VALUE_SERDES_STATUS", MAX_SERDES_SIZE, TakeBinary(items, Filled(Len(some), some)))
  BY DEF DIG_GetMutiSerdesState, find_serdes_from_start_to_end
<1>4. ASSUME got # <<>>, got[1].waited, items # Failed
      PROVE  /\ IsSeq(InAnswer(Value))
             /\ some = Chosen(InAnswer(Value), Inside(InAnswer(Value)))
  <2>1. IsSeq(Value) /\ IsReadings(Value)
    BY <1>1, <1>2, <1>4, ValueEncoded
  <2>2. InAnswer(Value) = Value /\ items = Value
    BY <1>4, <2>1, AsSent DEF parse_serdes_state
  <2> QED
    BY <1>2, <2>1, <2>2, WithinIsInside
<1> HIDE DEF items, some
<1> QED
  BY <1>1, <1>2, <1>3, <1>4, BinaryReads

\* The functions that report the state of all chips.
LEMMA ClockReads == CallInv /\ SourceInv /\ DIG_GetClockChipState => Truthful
<1> SUFFICES ASSUME CallInv, SourceInv, DIG_GetClockChipState PROVE Truthful
  OBVIOUS
<1>1. /\ phase = "called" /\ arg.fn = "DIG_GetClockChipState" /\ arg.fn \in OfAll
      /\ arg.fn \in Readers
  BY DEF DIG_GetClockChipState, In, OfAll, Readers
<1>2. Room = MAX_9528_CHIP_SIZE /\ Room \in Nat \ {0} /\ Room >= 0 /\ 1 <= Room
  BY <1>1, RoomFacts
<1>3. CASE arg.clock = 9528
  <2> DEFINE items == xconvert_ad9528_lockdata(Value)
             filled == parse_ad9528_lckdata(Value)
  <2>1. ValueOf = "VALUE_9528_STATUS" /\ AllOf(ValueOf, items, filled)
    BY <1>1, <1>3 DEF DIG_GetClockChipState, ValueOf
  <2>2. ASSUME got # <<>>, got[1].waited, items # Failed PROVE Len(filled.arry) <= Room
    <3>1. IsSeq(Value)
      BY <1>1, <2>2, ValueEncoded
    <3>2. Value # <<>> /\ items = [k \in 1 .. Len(Value) - 1 |-> [lock |-> Value[k + 1].lock]]
      BY <2>2 DEF xconvert_ad9528_lockdata
    <3>3. Len(Value) - 1 \in Nat
      BY <3>1, <3>2, SeqFacts DEF IsSeq
    <3>4. filled.arry = Clamp(items, MAX_9528_CHIP_SIZE)
      BY DEF parse_ad9528_lckdata, Filled
    <3> HIDE DEF items, filled
    <3>5. DOMAIN items = 1 .. Len(Value) - 1 /\ items = [k \in 1 .. Len(Value) - 1 |-> items[k]]
      BY <3>2
    <3>6. IsSeq(items)
      BY <3>3, <3>5, ListIsSeq
    <3> QED
      BY <1>2, <3>4, <3>6, ClampBegins
  <2> HIDE DEF items, filled
  <2> QED
    BY <1>1, <1>2, <2>1, <2>2, AllReads
<1>4. CASE arg.clock = 9545
  <2> DEFINE items == xconvert_ad9545_lockdata(Value)
             filled == parse_ad9545_lckdata(Value)
  <2>1. ValueOf = "VALUE_9545_STATUS" /\ AllOf(ValueOf, items, filled)
    BY <1>1, <1>4 DEF DIG_GetClockChipState, ValueOf
  <2>2. ASSUME items # Failed PROVE Len(filled.arry) <= Room
    <3>1. items = <<[lock |-> Value[1].lock]>>
      BY <2>2 DEF xconvert_ad9545_lockdata
    <3>2. filled.arry = items
      BY DEF parse_ad9545_lckdata, Filled
    <3>3. Len(items) = 1
      BY <3>1
    <3> QED
      BY <1>2, <3>2, <3>3
  <2> HIDE DEF items, filled
  <2> QED
    BY <1>1, <1>2, <2>1, <2>2, AllReads
<1>5. CASE arg.clock \notin {9528, 9545}
  <2>1. Return(0 - 1, Zeroed)
    BY <1>5 DEF DIG_GetClockChipState
  <2> QED
    BY <1>1, <1>2, <2>1, ErrorReads
<1> QED
  BY <1>3, <1>4, <1>5

\* The channels.
LEMMA PwmReads == CallInv /\ SourceInv /\ DIG_GetPWMFrequency => Truthful
<1> SUFFICES ASSUME CallInv, SourceInv, DIG_GetPWMFrequency PROVE Truthful
  OBVIOUS
<1> DEFINE items == parse_pwm_check(Value)
           filled == parse_pwm_frequency(Value)
<1>1. /\ phase = "called" /\ arg.fn = "DIG_GetPWMFrequency" /\ arg.fn \in OfAll
      /\ arg.fn \in Readers /\ AllOf("VALUE_PWM_FREQUENCY", items, filled)
  BY DEF DIG_GetPWMFrequency, In, OfAll, Readers
<1>2. Room = MAX_PWM_CHIP_SIZE /\ Room \in Nat /\ Room >= 0 /\ ValueOf = "VALUE_PWM_FREQUENCY"
  BY <1>1, RoomFacts DEF ValueOf
<1>3. ASSUME got # <<>>, got[1].waited, items # Failed
      PROVE  /\ Len(filled.arry) <= Room
             /\ \A k \in DOMAIN filled.arry : filled.arry[k] \in Measured(Value)
  <2>1. IsSeq(Value) /\ IsCount(Value)
    BY <1>1, <1>3, ValueEncoded
  <2> DEFINE n == Len(Value) \div 2
  <2>2. /\ Value # <<>>
        /\ items = [j \in 1 .. n |-> Numbered(Value)[2 * j - 1]]
    BY <1>3 DEF parse_pwm_check, Counted
  <2>3. filled.arry = Clamp(items, MAX_PWM_CHIP_SIZE)
    BY DEF parse_pwm_frequency, Filled
  <2>4. n \in Nat /\ \A j \in 1 .. n : 2 * j - 1 \in 1 .. Len(Value) - 1
    <3>1. Len(Value) \in Nat
      BY <2>1, SeqFacts
    <3> QED
      BY <3>1
  <2>5. InAnswer(Value) = Numbered(Value) /\ DOMAIN Numbered(Value) = 1 .. Len(Value) - 1
    BY <2>1, <2>2, AsSent, NumberedFacts
  <2> HIDE DEF items, filled, n
  <2>6. DOMAIN items = 1 .. n /\ items = [k \in 1 .. n |-> items[k]]
    BY <2>2
  <2>7. IsSeq(items) /\ Len(items) = n
    BY <2>4, <2>6, ListIsSeq
  <2>8. \A j \in 1 .. n : items[j] \in Measured(Value)
    BY <2>2, <2>4, <2>5 DEF Measured
  <2>9. Begins(filled.arry, items) /\ Len(filled.arry) <= Room
    BY <1>2, <2>3, <2>7, ClampBegins
  <2>10. ASSUME NEW k \in DOMAIN filled.arry PROVE filled.arry[k] \in Measured(Value)
    <3>1. k \in 1 .. Len(filled.arry) /\ Len(filled.arry) <= n /\ Len(filled.arry) \in Nat
      BY <2>7, <2>9, SeqFacts DEF Begins
    <3>2. k \in 1 .. n /\ filled.arry[k] = items[k]
      BY <2>4, <2>9, <3>1 DEF Begins
    <3> QED
      BY <2>8, <3>2
  <2> QED
    BY <2>9, <2>10
<1> HIDE DEF items, filled
<1> QED
  BY <1>1, <1>2, <1>3, AllReads

\* All links.
LEMMA SerdesReads == CallInv /\ SourceInv /\ DIG_GetSerdesState => Truthful
<1> SUFFICES ASSUME CallInv, SourceInv, DIG_GetSerdesState PROVE Truthful
  OBVIOUS
<1> DEFINE items == parse_serdes_state(Value)
           filled == parse_serdes_status(Value)
<1>1. /\ phase = "called" /\ arg.fn = "DIG_GetSerdesState" /\ arg.fn \in OfAll
      /\ arg.fn \in Readers /\ arg.fn \in OfReadings /\ AllOf("VALUE_SERDES_STATUS", items, filled)
  BY DEF DIG_GetSerdesState, In, OfAll, Readers, OfReadings
<1>2. Room = MAX_SERDES_SIZE /\ Room \in Nat /\ Room >= 0 /\ ValueOf = "VALUE_SERDES_STATUS"
  BY <1>1, RoomFacts DEF ValueOf
<1>3. ASSUME got # <<>>, got[1].waited, items # Failed
      PROVE  /\ Len(filled.arry) <= Room
             /\ \A k \in DOMAIN filled.arry : filled.arry[k] \in Measured(Value)
  <2>1. IsSeq(Value) /\ IsReadings(Value)
    BY <1>1, <1>3, ValueEncoded
  <2>2. items = Value /\ InAnswer(Value) = Value
    BY <1>3, <2>1, AsSent DEF parse_serdes_state
  <2>3. filled.arry = Clamp(items, MAX_SERDES_SIZE)
    BY DEF parse_serdes_status, Filled
  <2> HIDE DEF items, filled
  <2>9. Begins(filled.arry, Value) /\ Len(filled.arry) <= Room
    BY <1>2, <2>1, <2>2, <2>3, ClampBegins
  <2>10. ASSUME NEW k \in DOMAIN filled.arry PROVE filled.arry[k] \in Measured(Value)
    <3>1. /\ k \in 1 .. Len(filled.arry) /\ Len(filled.arry) <= Len(Value)
          /\ Len(filled.arry) \in Nat /\ Len(Value) \in Nat /\ DOMAIN Value = 1 .. Len(Value)
      BY <2>9, SeqFacts DEF Begins
    <3>2. k \in DOMAIN Value /\ filled.arry[k] = Value[k]
      BY <2>9, <3>1 DEF Begins
    <3> QED
      BY <2>2, <3>2 DEF Measured
  <2> QED
    BY <2>9, <2>10
<1> HIDE DEF items, filled
<1> QED
  BY <1>1, <1>2, <1>3, AllReads

\* The chips of an interval, and one chip.
LEMMA ChipsFound ==
    ASSUME CallInv, SourceInv, phase = "called", arg.fn \in OfChips,
           NEW parsed, parsed = Failed \/ (parsed = Value /\ ~ HasBad(Value)),
           NEW found, found = Chips(parsed, arg.lo, arg.hi), ChipsIn(ValueOf, found)
    PROVE  Truthful
<1>1. arg.fn \in Readers
  BY DEF Readers, OfIntervals
<1>2. ASSUME got # <<>>, got[1].waited, found # <<>>
      PROVE  /\ IsSeq(InAnswer(Value))
             /\ found = Chosen(InAnswer(Value), Inside(InAnswer(Value)))
  <2>1. IsSeq(Value) /\ InAnswer(Value) = Value
    BY <1>1, <1>2, ValueEncoded, AsSent
  <2>2. /\ parsed = Value /\ ~ HasBad(Value)
        /\ found = Chosen(Value, {k \in DOMAIN Value : Value[k].chip \in arg.lo .. arg.hi})
    BY <1>2 DEF Chips
  <2>3. Inside(Value) = {k \in DOMAIN Value : Value[k].chip \in arg.lo .. arg.hi}
    BY <2>2 DEF Inside, NumberOf, HasBad
  <2> QED
    BY <2>1, <2>2, <2>3
<1> QED
  BY <1>2, ChipsReads

\* The registers of the chips of an interval.
LEMMA MultiUtpReads ==
    CallInv /\ SourceInv /\ (DIG_GetMutiUtpRegister \/ DIG_GetMutiUtp102Register) => Truthful
<1> SUFFICES ASSUME CallInv, SourceInv, DIG_GetMutiUtpRegister \/ DIG_GetMutiUtp102Register
             PROVE  Truthful
  OBVIOUS
<1>1. phase = "called" /\ arg.fn \in OfChips
  BY DEF DIG_GetMutiUtpRegister, DIG_GetMutiUtp102Register, In, OfChips
<1>2. CASE DIG_GetMutiUtpRegister
  <2> DEFINE parsed == parse_utp40_register(Value)
             found == Chips(parsed, arg.lo, arg.hi)
  <2>1. ChipsIn(ValueOf, found)
    BY <1>2 DEF DIG_GetMutiUtpRegister, In, ValueOf, find_utp_register_in_interval
  <2>2. parsed = Failed \/ (parsed = Value /\ ~ HasBad(Value))
    BY DEF parse_utp40_register
  <2> HIDE DEF parsed
  <2> QED
    BY <1>1, <2>1, <2>2, ChipsFound
<1>3. CASE DIG_GetMutiUtp102Register
  <2> DEFINE parsed == parse_utp102_register(Value)
             found == Chips(parsed, arg.lo, arg.hi)
  <2>1. ChipsIn(ValueOf, found)
    BY <1>3 DEF DIG_GetMutiUtp102Register, In, ValueOf, find_utp102_register_in_interval
  <2>2. parsed = Failed \/ (parsed = Value /\ ~ HasBad(Value))
    BY DEF parse_utp102_register
  <2> HIDE DEF parsed
  <2> QED
    BY <1>1, <2>1, <2>2, ChipsFound
<1> QED
  BY <1>2, <1>3

\* The registers of one chip.
LEMMA OneUtpReads ==
    CallInv /\ SourceInv /\ (DIG_GetUtpRegister \/ DIG_GetUtp102Register) => Truthful
<1> SUFFICES ASSUME CallInv, SourceInv, DIG_GetUtpRegister \/ DIG_GetUtp102Register PROVE Truthful
  OBVIOUS
<1>1. phase = "called" /\ arg.fn \in OfUtp
  BY DEF DIG_GetUtpRegister, DIG_GetUtp102Register, In, OfUtp
<1>2. PICK pkg, parsed : pkg.m_msg_cmd \in Registers /\ OneChip(pkg, parsed)
  <2>1. /\ call_get_one_utp_register(Board, arg.n).m_msg_cmd \in Registers
        /\ call_get_one_utp102_register(Board, arg.n).m_msg_cmd \in Registers
    BY DEF call_get_one_utp_register, call_get_one_utp102_register, Request, NewPackage, ++,
       Registers
  <2> QED
    BY <2>1 DEF DIG_GetUtpRegister, DIG_GetUtp102Register
<1> QED
  BY <1>1, <1>2, UtpReads

-----------------------------------------------------------------------------
(* Every step keeps what was promised.                                     *)

\* The functions of the module,
LEMMA ReadingsReads ==
    ASSUME CallInv, SourceInv, Readings
    PROVE  Truthful
BY TempReads, VolReads, MultiTempReads, MultiVolReads, MultiSerdesReads, ClockReads, PwmReads,
   SerdesReads, MultiUtpReads, OneUtpReads
DEF Readings

\* and those that read no sensor, which promise nothing here.
LEMMA OtherReads ==
    ASSUME arg.fn \notin Readers \cup OfUtp, arg' = arg
    PROVE  Truthful
BY DEF Truthful, SourceInv, Promises, ReportsMeasured, IntervalComplete, FitsArray, Readers, Arrays

\* No function changes the arguments of its call.
LEMMA CallsKept ==
    ASSUME FunctionStep
    PROVE  arg' = arg
BY DEF FunctionStep, AskFor, Return, Throw

\* The functions of upgrades and calibration files,
LEMMA UpgradesReads ==
    ASSUME CallInv, Upgrades
    PROVE  Truthful
<1>1. arg.fn \notin Readers \cup OfUtp
  BY DEF Upgrades, usb_ota_start_upgrade, usb_ota_cancel_upgrade, usb_ota_query_progress,
     usb_ota_complete_upgrade, cal_read_file, cal_file_start_save, cal_file_query_progress,
     cal_file_complete_save, cal_file_start_read, In, Readers, OfOne, OfIntervals, OfChips,
     OfAll, OfUtp
<1> QED
  BY <1>1, UpgradesStep, CallsKept, OtherReads

\* the queries,
LEMMA QueriesReads ==
    ASSUME CallInv, Queries
    PROVE  Truthful
<1>1. arg.fn \notin Readers \cup OfUtp
  BY DEF Queries, usb_fetch_real_data, usb_free_real_data, usb_get_boardids,
     usb_get_asicjunct_temp, usb_get_pcb_temp, usb_get_utp40_temp, usb_get_board_temp,
     usb_get_board_vol, DIG_GetPgbSlot, DIG_GetSyncSlot, DIG_GetAsicSlot, DIG_GetPpsSlot,
     In, Readers, OfOne, OfIntervals, OfChips, OfAll, OfUtp
<1>2. usb_free_real_data => arg' = arg
  BY DEF usb_free_real_data
<1> QED
  BY <1>1, <1>2, QueriesStep, CallsKept, OtherReads

\* those that look for a board,
LEMMA ExistsReads ==
    ASSUME CallInv, Exists
    PROVE  Truthful
<1>1. arg.fn \notin Readers \cup OfUtp
  BY DEF Exists, DIG_GetDigExist, DIG_GetPpsExist, DIG_GetAsicExist, DIG_GetPgbExist,
     DIG_GetSyncExist, DIG_GetBoardExist, In, Readers, OfOne, OfIntervals, OfChips, OfAll, OfUtp
<1> QED
  BY <1>1, ExistsStep, CallsKept, OtherReads

\* the texts,
LEMMA TextsReads ==
    ASSUME CallInv, Texts
    PROVE  Truthful
<1> USE DEF In, Readers, OfOne, OfIntervals, OfChips, OfAll, OfUtp
<1>1. arg.fn \notin Readers \cup OfUtp
  <2>1. \/ DIG_GetSyncID \/ DIG_GetSyncSN \/ DIG_GetSyncHwVersion \/ DIG_GetSyncSoftVersion
        \/ DIG_GetPgbID \/ DIG_GetPgbSN \/ DIG_GetPgbHwVersion \/ DIG_GetPgbSoftVersion
        \/ DIG_GetPpsID \/ DIG_GetPpsSN \/ DIG_GetPpsHwVersion \/ DIG_GetPpsSoftVersion
        => arg.fn \notin Readers \cup OfUtp
    BY DEF DIG_GetSyncID, DIG_GetSyncSN, DIG_GetSyncHwVersion, DIG_GetSyncSoftVersion,
       DIG_GetPgbID, DIG_GetPgbSN, DIG_GetPgbHwVersion, DIG_GetPgbSoftVersion, DIG_GetPpsID,
       DIG_GetPpsSN, DIG_GetPpsHwVersion, DIG_GetPpsSoftVersion
  <2>2. \/ DIG_GetAsicID \/ DIG_GetAsicSN \/ DIG_GetAsicHwVersion \/ DIG_GetAsicSoftVersion
        \/ DIG_GetBoardID \/ DIG_GetBoardSN \/ DIG_GetBoardHwVersion \/ DIG_GetBoardSoftVersion
        \/ DIG_GetDigID \/ DIG_GetDigVersion \/ DIG_GetDsaID \/ DIG_GetBoardInfo
        => arg.fn \notin Readers \cup OfUtp
    BY DEF DIG_GetAsicID, DIG_GetAsicSN, DIG_GetAsicHwVersion, DIG_GetAsicSoftVersion,
       DIG_GetBoardID, DIG_GetBoardSN, DIG_GetBoardHwVersion, DIG_GetBoardSoftVersion,
       DIG_GetDigID, DIG_GetDigVersion, DIG_GetDsaID, DIG_GetBoardInfo
  <2> QED
    BY <2>1, <2>2 DEF Texts
<1> QED
  BY <1>1, TextsStep, DsaStep, InfoStep, CallsKept, OtherReads

\* and the switches.
LEMMA SwitchesReads ==
    ASSUME CallInv, Switches
    PROVE  Truthful
<1>1. arg.fn \notin Readers \cup OfUtp
  BY DEF Switches, DIG_BoardPowerOff, DIG_FPGAPowerOff, DIG_UTP40PowerOff, DIG_ASICPowerOff,
     DIG_FPGA200TPowerOff, DIG_FPGAKU060PowerOff, DIG_UTP40_MasterPowerOff, set_4356_frequency,
     In, Readers, OfOne, OfIntervals, OfChips, OfAll, OfUtp
<1> QED
  BY <1>1, SwitchesStep, CallsKept, OtherReads

\* A call begins with nothing asked.
LEMMA EnterReads == CallInv /\ Enter => Truthful
<1> SUFFICES ASSUME CallInv, Enter PROVE Truthful
  OBVIOUS
<1>1. phase' = "called" /\ asked' = <<>> /\ got' = <<>>
  BY DEF Enter, CallInv, FlowInv
<1>2. SourceInv'
  BY <1>1, EmptyFacts DEF SourceInv
<1> QED
  BY <1>1, <1>2, NotDone DEF Truthful

\* Its results are taken,
LEMMA LeaveReads == Leave => Truthful
BY NotDone DEF Leave, Truthful, SourceInv

\* an answer is read or is not,
LEMMA AnswerReads == CallInv /\ SourceInv /\ (Answer \/ Timeout \/ Notified) => Truthful
<1>1. Answer \/ Timeout \/ Notified => phase' # "done"
  BY DEF Answer, Timeout, Notified, Resume
<1> QED
  BY <1>1, AnswerFrom, NothingFrom, NotDone DEF Truthful

\* and nothing happens.
LEMMA StutterReads == SourceInv /\ Promises /\ UNCHANGED vars => Truthful
<1> SUFFICES ASSUME SourceInv, Promises, UNCHANGED vars PROVE Truthful
  OBVIOUS
<1>1. /\ phase' = phase /\ arg' = arg /\ asked' = asked /\ given' = given /\ got' = got
      /\ ret' = ret /\ out' = out
  BY DEF vars
<1>2. SourceInv'
  BY <1>1 DEF SourceInv, ValueOf, AsksFor, To, Board
<1>3. ReportsMeasured'
  BY <1>1 DEF Promises, ReportsMeasured, Reported, Measured, InAnswer, Value
<1>4. IntervalComplete'
  BY <1>1 DEF Promises, IntervalComplete, Reported, InAnswer, Value, Inside, NumberOf
<1>5. FitsArray'
  BY <1>1 DEF Promises, FitsArray, Reported, InAnswer, Value, Inside, NumberOf, NumberedOnce, Room
<1> QED
  BY <1>2, <1>3, <1>4, <1>5 DEF Truthful, Promises

\* SourceInv is inductive beside CallInv, and every step keeps the promises.
LEMMA StepReads == CallInv /\ SourceInv /\ Promises /\ [Next]_vars => Truthful
BY ReadingsReads, UpgradesReads, QueriesReads, ExistsReads, TextsReads, SwitchesReads,
   EnterReads, AnswerReads, LeaveReads, StutterReads
DEF Next

\* So they hold of every call.
LEMMA ReadsAlways == Spec => [](CallInv /\ SourceInv /\ Promises)
<1>1. Init => SourceInv /\ Promises
  BY DEF Init, SourceInv, Promises, ReportsMeasured, IntervalComplete, FitsArray, Reported
<1>2. CallInv /\ SourceInv /\ Promises /\ [Next]_vars => (CallInv /\ SourceInv /\ Promises)'
  BY StepKept, StepReads DEF Truthful
<1> QED
  BY <1>1, <1>2, InitKept, PTL DEF Spec

\* Every reading and every chip that a function reports is one the board sent in its
\* answer, under the number it has there: whether the board sends binaries without
\* numbers, readings with numbers, or a text (the find_..., parse_... and str_to_...
\* functions of lib_interface.cpp), malformed pieces between them or not.
THEOREM ReportedIsMeasured == Spec => []ReportsMeasured
BY ReadsAlways, PTL DEF Promises

\* A call for an interval reports every reading and every chip in it, each once and in
\* the order they came in, and their number (the find_..._from_start_to_end and
\* find_..._in_interval functions).
THEOREM IntervalIsComplete == Spec => []IntervalComplete
BY ReadsAlways, PTL DEF Promises

\* No function fills more of the caller's array than the API says there is; the searches
\* of an interval do not as long as the board numbers what is in it differently, however
\* many readings it sends.
THEOREM ArraysFit == Spec => []FitsArray
BY ReadsAlways, PTL DEF Promises

=============================================================================
