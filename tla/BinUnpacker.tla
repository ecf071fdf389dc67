---------------------------- MODULE BinUnpacker ----------------------------
(***************************************************************************)
(* How packets are cut out of the byte stream that comes from the device   *)
(* manager: usbadapter_bin_unpacker (libusb/usbadapter_package.cpp) inside *)
(* the receive loop of xtcp_socket (libusb/xbasicasio.hpp), over           *)
(* connections that break and are made again.                              *)
(*                                                                         *)
(* The server sends packets 1, 2, ...; a byte is [pack, off], its place in *)
(* its packet.  The first two bytes of a packet are the mark 0xFFA5 and    *)
(* the last byte of the header stands for the four bytes of the length.    *)
(* Bytes of a body are never mistaken for the mark.  TCP loses, repeats    *)
(* and reorders nothing inside a connection, but it may cut the stream     *)
(* into any segments, and a connection may end between any two bytes.      *)
(***************************************************************************)
EXTENDS XBasic, SequencesExt

CONSTANTS
    HeaderLen,      \* USB_ADAPTER_HEADER_LEN (14 in the code)
    BuffLen,        \* the size of m_raw_buff, MAX_MSG_LEN (16384)
    MaxMsgLen,      \* USB_ADAPTER_MAXMSG_LEN (40960)
    Slack,          \* what prepare_buff keeps free of it (1024)
    Byte,           \* the values of a byte (256)
    BodyLens,       \* the body lengths the server uses
    MaxPack,        \* bound: how many packets the server sends
    MaxConn         \* bound: how many connections are made

ASSUME LengthsAssumption ==
    /\ HeaderLen \in Nat /\ HeaderLen > 2
    /\ BuffLen \in Nat /\ BuffLen >= HeaderLen
    /\ MaxMsgLen \in Nat /\ MaxMsgLen > BuffLen
    /\ Slack \in Nat /\ HeaderLen <= MaxMsgLen - Slack
    /\ Byte \in Nat \ {0} /\ BodyLens \subseteq Nat
    /\ MaxPack \in Nat /\ MaxConn \in Nat

VARIABLES
    lens,           \* lens[p]: the body length of packet p; the packets sent so far
    wire,           \* bytes sent on this connection that no read has returned yet
    up,             \* is there a connection?
    nconn,          \* connections made so far
    m_raw_buff,     \* the first m_data_len bytes of the receive buffer
    m_signed_len,   \* the body length read in the header, or NoLen
    min_recv_len,   \* what the outstanding read waits for
    got,            \* the packets handed up on this connection
    first,          \* history: packets sent before this connection was made
    clean           \* history: did this connection start with an empty buffer?

unpacker == <<m_raw_buff, m_signed_len, min_recv_len>>
vars == <<lens, wire, up, nconn, unpacker, got, first, clean>>

NoLen == -1                                 \* (size_t)-1

Packet(p) == [i \in 1 .. HeaderLen + lens[p] |-> [pack |-> p, off |-> i - 1]]

\* The bytes from b on start with the mark of a packet.
IsHeader(b) == b[1].off = 0 /\ b[2].off = 1

\* The body length of packet p, and of any, as they are read in a header.
Said(p)  == read_littleendian(lens[p], Byte)
LensRead == {read_littleendian(l, Byte) : l \in BodyLens}

\* The length field of the header b starts with.  If the byte there is not a
\* length, it can be read as anything: g.
LengthField(b, g) ==
    IF b[HeaderLen].off = HeaderLen - 1 THEN Said(b[HeaderLen].pack) ELSE g

-----------------------------------------------------------------------------
(* prepare_buff: where the next read goes, and how much it waits for. *)

MinRecv(b, s) ==
    IF Len(b) >= HeaderLen /\ IsHeader(b) /\ s # NoLen THEN s ELSE HeaderLen - Len(b)

\* m_data_len >= USB_ADAPTER_MAXMSG_LEN
Overflows(b) == Len(b) >= MaxMsgLen

\* A size_t below zero has wrapped around, and is too much too.
TooMuch(m) == m < 0 \/ m > MaxMsgLen - Slack

\* The length is forgotten between two reads (a plausible mistake).
PrepareForgets(b, s) ==
    /\ m_raw_buff' = b
    /\ m_signed_len' = NoLen
    /\ min_recv_len' = IF TooMuch(MinRecv(b, s)) THEN HeaderLen ELSE MinRecv(b, s)

PrepareBuff(b, s) ==
    IF Overflows(b) \/ TooMuch(MinRecv(b, s))
    THEN /\ m_raw_buff' = << >>
         /\ m_signed_len' = NoLen
         /\ min_recv_len' = HeaderLen
    ELSE /\ m_raw_buff' = b
         /\ m_signed_len' = s
         /\ min_recv_len' = MinRecv(b, s)

\* The whole buffer is offered to the read, not what is left of it (a plausible mistake).
WholeRoom == BuffLen

\* boost::asio::buffer(m_raw_buff) + m_data_len
Room == BuffLen - Len(m_raw_buff)

\* async_read ends when it has at least min_recv_len bytes or its buffer is
\* full, and at once when there is no buffer; async_read_some (min_recv_len
\* = 0) when it has any.
ReadEnds(n) ==
    /\ n <= Room /\ n <= Len(wire)
    /\ n = Room \/ (n > 0 /\ n >= min_recv_len)

-----------------------------------------------------------------------------
(* unpack_data *)

\* A length was read and the packet it belongs to is all there.
Whole(b, s) == s # NoLen /\ IsHeader(b) /\ Len(b) >= HeaderLen + s

\* Cuts the body off without its header (a plausible mistake).
CutBody(b, s) == SubSeq(b, s + 1, Len(b))

\* What is left behind the packet.
CutPacket(b, s) == SubSeq(b, HeaderLen + s + 1, Len(b))

\* The read returns n bytes (recv_handler, then the next do_recv_data).
\* unpack_data takes out the packet whose header it already knew, if it is
\* whole; then it reads the next header and STOPS, whatever is behind it.
Recv(n, g) ==
    /\ up
    /\ n > 0 /\ ReadEnds(n)
    /\ LET data == m_raw_buff \o SubSeq(wire, 1, n)
           whole == Whole(data, m_signed_len)
           rest == IF whole THEN CutPacket(data, m_signed_len) ELSE data
           known == IF whole THEN NoLen ELSE m_signed_len
       IN  /\ got' = IF whole THEN Append(got, SubSeq(data, 1, HeaderLen + m_signed_len)) ELSE got
           /\ \/ /\ Len(rest) >= HeaderLen => IsHeader(rest)
                 /\ PrepareBuff(rest, IF known = NoLen /\ Len(rest) >= HeaderLen
                                      THEN LengthField(rest, g) ELSE known)
                 /\ wire' = SubSeq(wire, n + 1, Len(wire))
                 /\ UNCHANGED up
              \/ /\ Len(rest) >= HeaderLen /\ ~ IsHeader(rest)
                 /\ PrepareBuff(<< >>, NoLen)       \* reset_data, on_unpack_error
                 /\ wire' = << >>
                 /\ up' = FALSE
    /\ UNCHANGED <<lens, nconn, first, clean>>

\* A read that returns nothing is an error to recv_handler: on_recv_error.
RecvNothing ==
    /\ up
    /\ ReadEnds(0)
    /\ up' = FALSE
    /\ wire' = << >>
    /\ UNCHANGED <<lens, nconn, unpacker, got, first, clean>>

-----------------------------------------------------------------------------
(* The server and the network *)

Send(len) ==
    /\ up
    /\ Len(lens) < MaxPack
    /\ lens' = Append(lens, len)
    /\ wire' = wire \o [i \in 1 .. HeaderLen + len |-> [pack |-> Len(lens) + 1, off |-> i - 1]]
    /\ UNCHANGED <<up, nconn, unpacker, got, first, clean>>

\* The connection ends, by either side or because no data came for too long:
\* reset_socket, close_socket, reset_buff.  None of them calls reset_data.
Lose ==
    /\ up
    /\ up' = FALSE
    /\ wire' = << >>
    /\ UNCHANGED <<lens, nconn, unpacker, got, first, clean>>

\* connected_handler: start_work posts the first read.
Connected ==
    /\ ~ up
    /\ nconn < MaxConn
    /\ up' = TRUE
    /\ nconn' = nconn + 1
    /\ PrepareBuff(m_raw_buff, m_signed_len)
    /\ got' = << >>
    /\ first' = Len(lens)
    /\ clean' = (m_raw_buff = << >>)
    /\ UNCHANGED <<lens, wire>>

\* The last connection of the bound is gone.
Finished ==
    /\ ~ up /\ nconn = MaxConn
    /\ UNCHANGED vars

Init ==
    /\ lens = << >>
    /\ wire = << >>
    /\ up = FALSE
    /\ nconn = 0
    /\ m_raw_buff = << >>
    /\ m_signed_len = NoLen
    /\ min_recv_len = 0
    /\ got = << >>
    /\ first = 0
    /\ clean = TRUE

Next ==
    \/ \E n \in 1 .. Room, g \in LensRead : Recv(n, g)
    \/ RecvNothing
    \/ \E len \in BodyLens : Send(len)
    \/ Lose
    \/ Connected
    \/ Finished

Spec == Init /\ [][Next]_vars

-----------------------------------------------------------------------------
(* Properties *)

Bytes == [pack : 1 .. MaxPack, off : Nat]

\* The buffer never holds more than m_raw_buff has room for, and a read that
\* is waiting waits for a number of bytes that can be asked for.
TypeOK ==
    /\ lens \in Seq(BodyLens) /\ Len(lens) <= MaxPack
    /\ wire \in Seq(Bytes)
    /\ up \in BOOLEAN /\ clean \in BOOLEAN
    /\ nconn \in 0 .. MaxConn /\ first \in 0 .. Len(lens)
    /\ m_raw_buff \in Seq(Bytes) /\ Len(m_raw_buff) <= BuffLen
    /\ m_signed_len \in LensRead \cup {NoLen}
    /\ min_recv_len \in 0 .. MaxMsgLen
    /\ got \in Seq(Seq(Bytes))

\* The packets sent on this connection, as the server wrote them.
SentHere == [i \in 1 .. Len(lens) - first |-> Packet(first + i)]

\* No packet of this connection has a length that is not read back as it was
\* written, or that prepare_buff refuses.
Acceptable ==
    \A p \in first + 1 .. Len(lens) : Said(p) = lens[p] /\ ~ TooMuch(lens[p])

\* On a connection that began with an empty buffer, and however the stream is
\* cut: what was handed up are the packets the server sent, whole, in order
\* and none twice, and every byte not handed up is still in the buffer or on
\* its way.
StreamConserved ==
    up /\ clean /\ Acceptable =>
        /\ IsPrefix(got, SentHere)
        /\ FlattenSeq(got) \o m_raw_buff \o wire = FlattenSeq(SentHere)

\* A whole packet stands at the head of the buffer.
Held == up /\ \E p \in 1 .. Len(lens) : IsPrefix(Packet(p), m_raw_buff)

\* A packet that lies whole in the buffer is not held back longer than to the
\* next read that returns, whatever was in the buffer when the connection began:
\* that read hands it up, and no more than it.
HeldUntilNextRead ==
    [][Held /\ up' /\ m_raw_buff' # m_raw_buff => Len(got') = Len(got) + 1]_vars

=============================================================================
