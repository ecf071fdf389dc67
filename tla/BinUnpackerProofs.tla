------------------------- MODULE BinUnpackerProofs -------------------------
(***************************************************************************)
(* Theorems about BinUnpacker, for any lengths that the code's inequalities *)
(* allow, any packets and any number of connections.                       *)
(***************************************************************************)
EXTENDS BinUnpacker, SequenceTheorems, WellFoundedInduction, TLAPS

-----------------------------------------------------------------------------
(* Induction, as the least element of a set of numbers.                    *)

Smaller == {ss \in Nat \X Nat : ss[1] < ss[2]}

\* A set of numbers that is not empty has a least one.
LEMMA SmallestNat ==
    ASSUME NEW T \in SUBSET Nat, T # {}
    PROVE  \E m \in T : \A n \in T : m <= n
<1>1. IsWellFoundedOn(Smaller, Nat)
  BY NatLessThanWellFounded, Zenon DEF OpToRel, Smaller
<1>2. PICK x \in T : \A y \in T : ~ (<<y, x>> \in Smaller)
  BY <1>1, WFMin, Zenon
<1>3. ASSUME NEW y \in T PROVE x <= y
  <2>1. x \in Nat /\ y \in Nat
    OBVIOUS
  <2>2. y < x => <<y, x>> \in Smaller
    <3>1. <<y, x>> \in Nat \X Nat /\ <<y, x>>[1] = y /\ <<y, x>>[2] = x
      BY <2>1
    <3> QED
      BY <3>1, Zenon DEF Smaller
  <2> QED
    BY <1>2, <2>1, <2>2
<1> QED
  BY <1>3

LEMMA SeqAssoc ==
    ASSUME NEW S, NEW u \in Seq(S), NEW v \in Seq(S), NEW w \in Seq(S)
    PROVE  (u \o v) \o w = u \o (v \o w)
BY ConcatAssociative

LEMMA SeqCancel ==
    ASSUME NEW S, NEW u \in Seq(S), NEW v \in Seq(S), NEW w \in Seq(S), u \o v = u \o w
    PROVE  v = w
BY ConcatSimplifications

-----------------------------------------------------------------------------
(* FlattenSeq, which the properties are stated with.                       *)

\* h[i] is the concatenation of s[1] to s[i], for i up to n.
Sums(s, n, h) == h = [i \in 1 .. n |-> IF i = 1 THEN s[i] ELSE h[i - 1] \o s[i]]

\* There are such sums for every sequence of sequences.
LEMMA SumsExist ==
    ASSUME NEW S, NEW s \in Seq(Seq(S))
    PROVE  \E h \in [1 .. Len(s) -> Seq(S)] : Sums(s, Len(s), h)
<1> DEFINE T == {n \in 0 .. Len(s) : ~ \E h \in [1 .. n -> Seq(S)] : Sums(s, n, h)}
<1>1. SUFFICES ASSUME T # {} PROVE FALSE
  OBVIOUS
<1>2. PICK m \in T : \A n \in T : m <= n
  <2>1. T \in SUBSET Nat
    OBVIOUS
  <2> QED
    BY <1>1, <2>1, SmallestNat, Zenon
<1>3. m # 0
  <2>1. [i \in 1 .. 0 |-> <<>>] \in [1 .. 0 -> Seq(S)] /\ Sums(s, 0, [i \in 1 .. 0 |-> <<>>])
    BY DEF Sums
  <2> QED
    BY <2>1
<1>4. m \in 1 .. Len(s) /\ m - 1 \in 0 .. Len(s) /\ m - 1 \notin T
  <2>1. m \in 0 .. Len(s)
    OBVIOUS
  <2>2. m \in 1 .. Len(s) /\ m - 1 \in 0 .. Len(s) /\ ~ (m <= m - 1)
    BY <2>1, <1>3
  <2> HIDE DEF T
  <2> QED
    BY <1>2, <2>2
<1>5. PICK g \in [1 .. m - 1 -> Seq(S)] : Sums(s, m - 1, g)
  BY <1>4
<1> DEFINE h == [i \in 1 .. m |-> IF i < m THEN g[i] ELSE IF i = 1 THEN s[i] ELSE g[i - 1] \o s[i]]
<1>6. h \in [1 .. m -> Seq(S)]
  BY <1>4, ConcatProperties
<1>7. Sums(s, m, h)
  <2>1. ASSUME NEW i \in 1 .. m
        PROVE  h[i] = IF i = 1 THEN s[i] ELSE h[i - 1] \o s[i]
    <3>1. CASE i < m
      <4>1. i \in 1 .. m - 1 /\ h[i] = g[i]
        BY <3>1, <1>4
      <4>2. g[i] = IF i = 1 THEN s[i] ELSE g[i - 1] \o s[i]
        BY <1>5, <4>1 DEF Sums
      <4>3. i # 1 => h[i - 1] = g[i - 1]
        BY <4>1
      <4> QED
        BY <4>1, <4>2, <4>3
    <3>2. CASE i = m
      BY <3>2, <1>4
    <3> QED
      BY <3>1, <3>2
  <2>2. h = [i \in 1 .. m |-> h[i]]
    OBVIOUS
  <2> HIDE DEF h
  <2> QED
    BY <2>1, <2>2 DEF Sums
<1> QED
  BY <1>2, <1>6, <1>7

\* The sums are determined by the sequence.
LEMMA SumsUnique ==
    ASSUME NEW s, NEW n \in Nat, NEW g, NEW h, Sums(s, n, g), Sums(s, n, h)
    PROVE  g = h
<1> DEFINE T == {i \in 1 .. n : g[i] # h[i]}
<1>1. /\ \A i \in 1 .. n : g[i] = IF i = 1 THEN s[i] ELSE g[i - 1] \o s[i]
      /\ \A i \in 1 .. n : h[i] = IF i = 1 THEN s[i] ELSE h[i - 1] \o s[i]
  BY DEF Sums
<1>2. ASSUME T # {} PROVE FALSE
  <2>0. T \in SUBSET Nat
    OBVIOUS
  <2>1. PICK m \in T : \A i \in T : m <= i
    BY <1>2, <2>0, SmallestNat, Zenon
  <2>2. m # 1 => m - 1 \in 1 .. n /\ m - 1 \notin T
    BY <2>1
  <2> QED
    BY <1>1, <2>1, <2>2
<1>3. g = [i \in 1 .. n |-> g[i]] /\ h = [i \in 1 .. n |-> h[i]]
  BY DEF Sums
<1> QED
  BY <1>2, <1>3

LEMMA FlattenValue ==
    ASSUME NEW S, NEW s \in Seq(Seq(S)), Len(s) # 0, NEW h, Sums(s, Len(s), h)
    PROVE  FlattenSeq(s) = h[Len(s)]
<1>1. \A g : Sums(s, Len(s), g) => g = h
  BY SumsUnique
<1>2. \A g : g = [i \in 1 .. Len(s) |-> IF i = 1 THEN s[i] ELSE g[i - 1] \o s[i]] => g = h
  BY <1>1 DEF Sums
<1>3. h = [i \in 1 .. Len(s) |-> IF i = 1 THEN s[i] ELSE h[i - 1] \o s[i]]
  BY DEF Sums
<1> QED
  BY <1>2, <1>3, Zenon DEF FlattenSeq

LEMMA FlattenEmpty == FlattenSeq(<<>>) = <<>>
BY DEF FlattenSeq

\* Flattening a longer sequence appends to the flattened one.
LEMMA FlattenAppend ==
    ASSUME NEW S, NEW s \in Seq(Seq(S)), NEW x \in Seq(S)
    PROVE  FlattenSeq(Append(s, x)) = FlattenSeq(s) \o x
<1> DEFINE a == Append(s, x)
           n == Len(s)
<1>1. /\ a \in Seq(Seq(S)) /\ Len(a) = n + 1 /\ n \in Nat
      /\ \A i \in 1 .. n : a[i] = s[i]
      /\ a[n + 1] = x
  OBVIOUS
<1> HIDE DEF a
<1>2. PICK h \in [1 .. Len(a) -> Seq(S)] : Sums(a, Len(a), h)
  BY <1>1, SumsExist
<1>3. FlattenSeq(a) = h[n + 1]
  BY <1>1, <1>2, FlattenValue
<1>4. h[n + 1] = IF n = 0 THEN x ELSE h[n] \o x
  <2>1. \A i \in 1 .. n + 1 : h[i] = IF i = 1 THEN a[i] ELSE h[i - 1] \o a[i]
    BY <1>1, <1>2 DEF Sums
  <2>2. n + 1 \in 1 .. n + 1 /\ (n + 1) - 1 = n /\ (n + 1 = 1 <=> n = 0)
    BY <1>1
  <2> QED
    BY <1>1, <2>1, <2>2
<1>5. CASE n = 0
  <2>1. FlattenSeq(s) = <<>>
    BY <1>5 DEF FlattenSeq
  <2> QED
    BY <1>3, <1>4, <1>5, <2>1 DEF a
<1>6. CASE n # 0
  <2> DEFINE g == [i \in 1 .. n |-> h[i]]
  <2>1. Sums(s, n, g)
    <3>1. ASSUME NEW i \in 1 .. n PROVE g[i] = IF i = 1 THEN s[i] ELSE g[i - 1] \o s[i]
      <4>1. i \in 1 .. Len(a)
        BY <1>1
      <4>2. h[i] = IF i = 1 THEN a[i] ELSE h[i - 1] \o a[i]
        BY <4>1, <1>2 DEF Sums
      <4>3. i # 1 => g[i - 1] = h[i - 1]
        BY <1>1
      <4> QED
        BY <1>1, <4>2, <4>3
    <3>2. g = [i \in 1 .. n |-> g[i]]
      OBVIOUS
    <3> HIDE DEF g
    <3> QED
      BY <3>1, <3>2 DEF Sums
  <2>2. FlattenSeq(s) = g[n]
    BY <2>1, <1>6, FlattenValue
  <2>3. g[n] = h[n]
    BY <1>1, <1>6
  <2> QED
    BY <1>3, <1>4, <1>6, <2>2, <2>3 DEF a
<1> QED
  BY <1>5, <1>6

LEMMA FlattenType ==
    ASSUME NEW S, NEW s \in Seq(Seq(S))
    PROVE  FlattenSeq(s) \in Seq(S)
<1>1. CASE Len(s) = 0
  BY <1>1 DEF FlattenSeq
<1>2. CASE Len(s) # 0
  <2>1. PICK h \in [1 .. Len(s) -> Seq(S)] : Sums(s, Len(s), h)
    BY SumsExist
  <2>2. FlattenSeq(s) = h[Len(s)]
    BY <1>2, <2>1, FlattenValue, Zenon
  <2> QED
    BY <1>2, <2>2
<1> QED
  BY <1>1, <1>2

\* The sequence begins with f and then a.
BeginsWith(y, f, a, S) == \E t \in Seq(S) : y = f \o (a \o t)

LEMMA BeginsWithAppend ==
    ASSUME NEW S, NEW f \in Seq(S), NEW a \in Seq(S), NEW x \in Seq(S), NEW y,
           BeginsWith(y, f, a, S), NEW z, z = y \o x
    PROVE  BeginsWith(z, f, a, S)
<1>1. PICK t \in Seq(S) : y = f \o (a \o t)
  BY DEF BeginsWith
<1> DEFINE c == a \o t
<1>2. c \in Seq(S) /\ t \o x \in Seq(S)
  BY ConcatProperties
<1>3. c \o x = a \o (t \o x)
  BY SeqAssoc
<1>4. y = f \o c
  BY <1>1
<1> HIDE DEF c
<1>5. z = f \o (c \o x)
  BY <1>2, <1>4, SeqAssoc
<1>6. z = f \o (a \o (t \o x))
  BY <1>3, <1>5
<1> QED
  BY <1>2, <1>6 DEF BeginsWith

\* The first k + 1 elements stand at the head of the flattened sequence.
LEMMA FlattenSplit ==
    ASSUME NEW S, NEW s \in Seq(Seq(S)), NEW k \in 0 .. Len(s) - 1
    PROVE  BeginsWith(FlattenSeq(s), FlattenSeq(SubSeq(s, 1, k)), s[k + 1], S)
<1> DEFINE G(j) == FlattenSeq(SubSeq(s, 1, j))
           T == {j \in k + 1 .. Len(s) : ~ BeginsWith(G(j), G(k), s[k + 1], S)}
<1>1. ASSUME NEW j \in 0 .. Len(s)
      PROVE  SubSeq(s, 1, j) \in Seq(Seq(S)) /\ G(j) \in Seq(S)
  <2>1. SubSeq(s, 1, j) \in Seq(Seq(S))
    OBVIOUS
  <2> QED
    BY <2>1, FlattenType, Zenon
<1>2. ASSUME NEW j \in 1 .. Len(s) PROVE G(j) = G(j - 1) \o s[j] /\ s[j] \in Seq(S)
  <2>1. SubSeq(s, 1, j) = Append(SubSeq(s, 1, j - 1), s[j])
    OBVIOUS
  <2>2. SubSeq(s, 1, j - 1) \in Seq(Seq(S)) /\ s[j] \in Seq(S)
    BY <1>1
  <2> QED
    BY <2>1, <2>2, FlattenAppend
<1> HIDE DEF G
<1>3. k \in 0 .. Len(s) /\ k + 1 \in 1 .. Len(s) /\ (k + 1) - 1 = k
  OBVIOUS
<1>4. ASSUME T # {} PROVE FALSE
  <2>0. T \in SUBSET Nat
    <3>1. k + 1 .. Len(s) \subseteq Nat
      OBVIOUS
    <3> QED
      BY <3>1, Zenon
  <2>1. PICK m \in T : \A j \in T : m <= j
    BY <1>4, <2>0, SmallestNat, Zenon
  <2>2. CASE m = k + 1
    <3>1. s[k + 1] \in Seq(S) /\ s[k + 1] \o <<>> = s[k + 1] /\ <<>> \in Seq(S)
      BY <1>2, <1>3, ConcatEmptySeq
    <3>2. G(k + 1) = G(k) \o s[k + 1]
      BY <1>2, <1>3
    <3>3. BeginsWith(G(m), G(k), s[k + 1], S)
      BY <2>2, <3>1, <3>2 DEF BeginsWith
    <3> QED
      BY <2>1, <3>3
  <2>3. CASE m # k + 1
    <3>0. m \in k + 1 .. Len(s)
      OBVIOUS
    <3>1. m - 1 \in k + 1 .. Len(s) /\ m \in 1 .. Len(s) /\ m - 1 \notin T
      <4>1. m - 1 \in k + 1 .. Len(s) /\ m \in 1 .. Len(s) /\ ~ (m <= m - 1)
        BY <2>3, <3>0
      <4> HIDE DEF T
      <4> QED
        BY <2>1, <4>1
    <3>2. BeginsWith(G(m - 1), G(k), s[k + 1], S)
      BY <3>1
    <3>3. /\ s[m] \in Seq(S) /\ s[k + 1] \in Seq(S) /\ G(k) \in Seq(S)
          /\ G(m) = G(m - 1) \o s[m]
      BY <1>1, <1>2, <1>3, <3>1
    <3>4. BeginsWith(G(m), G(k), s[k + 1], S)
      BY <3>2, <3>3, BeginsWithAppend, Zenon
    <3> QED
      BY <2>1, <3>4
  <2> QED
    BY <2>2, <2>3
<1>5. BeginsWith(G(Len(s)), G(k), s[k + 1], S)
  <2>1. Len(s) \in k + 1 .. Len(s)
    OBVIOUS
  <2> QED
    BY <1>4, <2>1, Zenon
<1>6. G(Len(s)) = FlattenSeq(s)
  BY SubSeqFull DEF G
<1> QED
  BY <1>5, <1>6 DEF G

-----------------------------------------------------------------------------
(* The inductive invariant.                                                *)

\* The bytes of the packets sent so far.
SentBytes == [pack : 1 .. Len(lens), off : Nat]

\* Types, with every byte from a packet that was sent, and nothing on the wire
\* of no connection.
Types ==
    /\ lens \in Seq(BodyLens) /\ Len(lens) <= MaxPack
    /\ wire \in Seq(SentBytes) /\ (~ up => wire = <<>>)
    /\ up \in BOOLEAN /\ clean \in BOOLEAN
    /\ nconn \in 0 .. MaxConn /\ first \in 0 .. Len(lens)
    /\ m_raw_buff \in Seq(SentBytes) /\ Len(m_raw_buff) <= BuffLen
    /\ m_signed_len \in LensRead \cup {NoLen}
    /\ min_recv_len \in 0 .. MaxMsgLen
    /\ got \in Seq(Seq(SentBytes))

\* A length is known exactly when a header is in the buffer, it can be asked for,
\* and it is the one of that header if the header is all of one packet.
Measured(b, s) ==
    /\ s # NoLen <=> Len(b) >= HeaderLen
    /\ s # NoLen =>
           /\ IsHeader(b) /\ ~ TooMuch(s)
           /\ b[HeaderLen].off = HeaderLen - 1 => s = Said(b[HeaderLen].pack)

BuffInv == Types /\ Measured(m_raw_buff, m_signed_len)

\* A length that is read is no more than the one that was written.
LEMMA ReadLength ==
    ASSUME NEW l \in Nat
    PROVE  read_littleendian(l, Byte) \in Nat /\ read_littleendian(l, Byte) <= l
<1>1. Byte \in Nat \ {0}
  BY LengthsAssumption
<1>2. l \div Byte \in Nat /\ Byte * (l \div Byte) <= l
  BY <1>1
<1>3. PICK q \in Nat : q = l \div Byte
  BY <1>2
<1>4. q % Byte \in Nat /\ q % Byte <= q
  BY <1>1
<1>5. PICK m \in Nat : m = q % Byte
  BY <1>4
<1>6. Byte * m \in Nat /\ Byte * m <= Byte * q /\ Byte * q <= l
  BY <1>1, <1>2, <1>3, <1>4, <1>5
<1>7. read_littleendian(l, Byte) = l - Byte * m
  BY <1>3, <1>5 DEF read_littleendian
<1> QED
  BY <1>1, <1>6, <1>7

\* A length is a number, and no number is NoLen.
LEMMA Lengths ==
    /\ BodyLens \subseteq Nat /\ LensRead \subseteq Nat
    /\ NoLen \in Int /\ NoLen \notin LensRead
<1>1. LensRead \subseteq Nat
  BY LengthsAssumption, ReadLength DEF LensRead
<1> QED
  BY <1>1, LengthsAssumption DEF NoLen

\* A packet that was sent has a length that can be read.
LEMMA SaidLength ==
    ASSUME lens \in Seq(BodyLens), NEW p \in 1 .. Len(lens)
    PROVE  Said(p) \in LensRead /\ Said(p) \in Nat /\ Said(p) <= lens[p]
<1>1. lens[p] \in BodyLens
  OBVIOUS
<1> QED
  BY <1>1, Lengths, ReadLength DEF Said, LensRead

\* prepare_buff: what it makes of a buffer whose header, if there is one, was read.
LEMMA PrepareKeeps ==
    ASSUME NEW b, Len(b) \in Nat, Len(b) <= BuffLen,
           NEW s \in LensRead \cup {NoLen},
           s # NoLen <=> Len(b) >= HeaderLen,
           s # NoLen => /\ IsHeader(b)
                        /\ b[HeaderLen].off = HeaderLen - 1 => s = Said(b[HeaderLen].pack),
           PrepareBuff(b, s), lens' = lens
    PROVE  /\ m_raw_buff' \in {b, <<>>} /\ m_signed_len' \in {s, NoLen}
           /\ min_recv_len' \in 0 .. MaxMsgLen
           /\ Measured(m_raw_buff, m_signed_len)'
           /\ ~ (s # NoLen /\ TooMuch(s)) => m_raw_buff' = b /\ m_signed_len' = s
<1>1. MinRecv(b, s) = IF s # NoLen THEN s ELSE HeaderLen - Len(b)
  BY LengthsAssumption DEF MinRecv
<1>2. ~ Overflows(b)
  BY LengthsAssumption DEF Overflows
<1>3. s = NoLen => ~ TooMuch(MinRecv(b, s)) /\ MinRecv(b, s) \in 0 .. MaxMsgLen
  BY <1>1, LengthsAssumption DEF TooMuch
<1>4. s # NoLen => s \in Nat /\ MinRecv(b, s) = s
  BY <1>1, Lengths
<1>5. CASE TooMuch(MinRecv(b, s))
  <2>1. m_raw_buff' = <<>> /\ m_signed_len' = NoLen /\ min_recv_len' = HeaderLen
    BY <1>5 DEF PrepareBuff
  <2>2. s # NoLen /\ TooMuch(s)
    BY <1>3, <1>4, <1>5
  <2>3. Measured(m_raw_buff, m_signed_len)'
    <3>1. m_signed_len' = NoLen /\ ~ (Len(m_raw_buff') >= HeaderLen)
      BY <2>1, LengthsAssumption
    <3> QED
      BY <3>1 DEF Measured, NoLen
  <2> QED
    BY <2>1, <2>2, <2>3, LengthsAssumption
<1>6. CASE ~ TooMuch(MinRecv(b, s))
  <2>1. m_raw_buff' = b /\ m_signed_len' = s /\ min_recv_len' = MinRecv(b, s)
    BY <1>2, <1>6 DEF PrepareBuff
  <2>2. s # NoLen => ~ TooMuch(s)
    BY <1>4, <1>6
  <2>3. Measured(m_raw_buff, m_signed_len)'
    BY <2>1, <2>2 DEF Measured, Said, IsHeader, TooMuch, NoLen
  <2>4. min_recv_len' \in 0 .. MaxMsgLen
    BY <1>3, <1>4, <2>1, <2>2, LengthsAssumption DEF TooMuch
  <2> QED
    BY <2>1, <2>2, <2>3, <2>4
<1> QED
  BY <1>5, <1>6

\* prepare_buff after a reset: an empty buffer, and a read of one header.
LEMMA PrepareEmpty ==
    ASSUME PrepareBuff(<<>>, NoLen)
    PROVE  m_raw_buff' = <<>> /\ m_signed_len' = NoLen /\ min_recv_len' = HeaderLen
BY LengthsAssumption DEF PrepareBuff, MinRecv

\* What a read makes of the buffer: unpack_data up to its prepare_buff.
Data(n) == m_raw_buff \o SubSeq(wire, 1, n)
Rest(n) == IF Whole(Data(n), m_signed_len) THEN CutPacket(Data(n), m_signed_len) ELSE Data(n)
Known(n) == IF Whole(Data(n), m_signed_len) THEN NoLen ELSE m_signed_len
LenRead(n, g) == IF Known(n) = NoLen /\ Len(Rest(n)) >= HeaderLen
                 THEN LengthField(Rest(n), g) ELSE Known(n)

\* The data of a read are the buffer and the first bytes of the wire, and the rest
\* has its length read if it has a header.
LEMMA RecvFacts ==
    ASSUME BuffInv, NEW n \in 1 .. Room, NEW g \in LensRead, n <= Len(wire)
    PROVE  /\ Data(n) \in Seq(SentBytes) /\ Len(Data(n)) = Len(m_raw_buff) + n
           /\ Len(Data(n)) <= BuffLen
           /\ \A i \in 1 .. Len(m_raw_buff) : Data(n)[i] = m_raw_buff[i]
           /\ Rest(n) \in Seq(SentBytes) /\ Len(Rest(n)) <= Len(Data(n))
           /\ SubSeq(wire, n + 1, Len(wire)) \in Seq(SentBytes)
           /\ LenRead(n, g) \in LensRead \cup {NoLen}
           /\ LenRead(n, g) # NoLen <=> Len(Rest(n)) >= HeaderLen
           /\ Len(Rest(n)) >= HeaderLen /\ Rest(n)[HeaderLen].off = HeaderLen - 1 =>
                  LenRead(n, g) = Said(Rest(n)[HeaderLen].pack)
<1> DEFINE d == Data(n)
           r == Rest(n)
           c == SubSeq(wire, 1, n)
<1>1. /\ wire \in Seq(SentBytes) /\ m_raw_buff \in Seq(SentBytes) /\ Len(m_raw_buff) <= BuffLen
      /\ m_signed_len \in LensRead \cup {NoLen} /\ lens \in Seq(BodyLens)
      /\ Measured(m_raw_buff, m_signed_len)
  BY DEF BuffInv, Types
<1>2. n \in Nat /\ n >= 1 /\ n <= BuffLen - Len(m_raw_buff) /\ BuffLen \in Nat
      /\ HeaderLen \in Nat /\ HeaderLen > 2
  BY <1>1, LengthsAssumption DEF Room
<1>3. c \in Seq(SentBytes) /\ Len(c) = n /\ SubSeq(wire, n + 1, Len(wire)) \in Seq(SentBytes)
  BY <1>1, <1>2
<1>4. /\ d \in Seq(SentBytes) /\ Len(d) = Len(m_raw_buff) + n
      /\ \A i \in 1 .. Len(m_raw_buff) : d[i] = m_raw_buff[i]
  BY <1>1, <1>3, ConcatProperties DEF Data
<1>5. Len(d) <= BuffLen
  BY <1>1, <1>2, <1>4
<1> HIDE DEF d, c
<1>6. r \in Seq(SentBytes) /\ Len(r) <= Len(d)
  <2>1. CASE Whole(d, m_signed_len)
    <3>1. m_signed_len \in Nat
      BY <2>1, <1>1, Lengths DEF Whole
    <3>2. r = SubSeq(d, HeaderLen + m_signed_len + 1, Len(d))
      BY <2>1 DEF Rest, CutPacket, d
    <3> QED
      BY <3>1, <3>2, <1>2, <1>4
  <2>2. CASE ~ Whole(d, m_signed_len)
    BY <2>2, <1>4 DEF Rest, d
  <2> QED
    BY <2>1, <2>2
<1>7. Known(n) # NoLen => /\ Known(n) = m_signed_len /\ r = d /\ m_signed_len \in LensRead
                          /\ Len(m_raw_buff) >= HeaderLen
                          /\ r[HeaderLen] = m_raw_buff[HeaderLen]
  BY <1>1, <1>2, <1>4 DEF Known, Rest, d, Measured
<1> DEFINE s == LenRead(n, g)
<1> HIDE DEF r
<1>8. CASE Known(n) # NoLen
  <2>1. s = m_signed_len /\ s \in LensRead /\ s # NoLen
    BY <1>7, <1>8 DEF LenRead
  <2>2. Len(r) >= HeaderLen
    BY <1>2, <1>4, <1>7, <1>8
  <2>3. r[HeaderLen].off = HeaderLen - 1 => s = Said(r[HeaderLen].pack)
    BY <1>1, <1>7, <1>8, <2>1 DEF Measured
  <2> QED
    BY <1>3, <1>4, <1>5, <1>6, <2>1, <2>2, <2>3 DEF d, r
<1>9. CASE Known(n) = NoLen
  <2>1. s = IF Len(r) >= HeaderLen THEN LengthField(r, g) ELSE NoLen
    BY <1>9 DEF LenRead, r
  <2>2. Len(r) >= HeaderLen => r[HeaderLen] \in SentBytes
    BY <1>2, <1>6
  <2>3. Len(r) >= HeaderLen => LengthField(r, g) \in LensRead
    BY <1>1, <2>2, SaidLength DEF LengthField, SentBytes
  <2>4. Len(r) >= HeaderLen /\ r[HeaderLen].off = HeaderLen - 1 =>
            LengthField(r, g) = Said(r[HeaderLen].pack)
    BY DEF LengthField
  <2> QED
    BY <1>3, <1>4, <1>5, <1>6, <2>1, <2>3, <2>4, Lengths DEF d, r
<1> QED
  BY <1>8, <1>9

\* More packets: what was a byte of a packet sent still is one.
LEMMA MoreSent ==
    ASSUME BuffInv, NEW len \in BodyLens, lens' = Append(lens, len)
    PROVE  /\ SentBytes \subseteq SentBytes'
           /\ wire \in Seq(SentBytes') /\ m_raw_buff \in Seq(SentBytes')
           /\ got \in Seq(Seq(SentBytes'))
           /\ lens' \in Seq(BodyLens) /\ Len(lens') = Len(lens) + 1
           /\ \A i \in 1 .. Len(lens) : lens'[i] = lens[i]
           /\ lens'[Len(lens) + 1] = len
<1>1. /\ lens \in Seq(BodyLens) /\ wire \in Seq(SentBytes) /\ m_raw_buff \in Seq(SentBytes)
      /\ got \in Seq(Seq(SentBytes))
  BY DEF BuffInv, Types
<1>2. /\ lens' \in Seq(BodyLens) /\ Len(lens') = Len(lens) + 1 /\ Len(lens) \in Nat
      /\ \A i \in 1 .. Len(lens) : lens'[i] = lens[i]
      /\ lens'[Len(lens) + 1] = len
  BY <1>1, AppendProperties
<1>3. SentBytes \subseteq SentBytes'
  BY <1>2 DEF SentBytes
<1>4. Seq(SentBytes) \subseteq Seq(SentBytes')
  BY <1>3, SeqMonotonic, Zenon
<1>5. Seq(Seq(SentBytes)) \subseteq Seq(Seq(SentBytes'))
  BY <1>4, SeqMonotonic, Zenon
<1> QED
  BY <1>1, <1>2, <1>3, <1>4, <1>5

-----------------------------------------------------------------------------
(* The invariant is inductive.                                             *)

\* Recv, in the terms above.
LEMMA RecvShape ==
    ASSUME NEW n \in 1 .. Room, NEW g \in LensRead, Recv(n, g)
    PROVE  /\ up /\ n <= Len(wire)
           /\ lens' = lens /\ nconn' = nconn /\ first' = first /\ clean' = clean
           /\ got' = IF Whole(Data(n), m_signed_len)
                     THEN Append(got, SubSeq(Data(n), 1, HeaderLen + m_signed_len)) ELSE got
           /\ \/ /\ Len(Rest(n)) >= HeaderLen => IsHeader(Rest(n))
                 /\ PrepareBuff(Rest(n), LenRead(n, g))
                 /\ wire' = SubSeq(wire, n + 1, Len(wire)) /\ up' = up
              \/ /\ PrepareBuff(<<>>, NoLen)
                 /\ wire' = <<>> /\ up' = FALSE
<1>1. n <= Len(wire)
  BY DEF Recv, ReadEnds
<1> QED
  BY <1>1, Zenon DEF Recv, Data, Rest, Known, LenRead

LEMMA NoBytes ==
    /\ <<>> \in Seq(BodyLens) /\ <<>> \in Seq(SentBytes) /\ <<>> \in Seq(Seq(SentBytes))
    /\ Len(<<>>) = 0 /\ 0 <= BuffLen /\ HeaderLen \in 0 .. MaxMsgLen /\ 0 \in 0 .. MaxMsgLen
<1>1. HeaderLen \in 0 .. MaxMsgLen /\ 0 \in 0 .. MaxMsgLen /\ 0 <= BuffLen
  BY LengthsAssumption
<1>2. \A S : <<>> \in Seq(S)
  BY EmptySeq, Zenon
<1> QED
  BY <1>1, <1>2

LEMMA BuffInit == Init => BuffInv
<1> SUFFICES ASSUME Init PROVE BuffInv
  OBVIOUS
<1>1. Types
  <2>1. /\ lens = <<>> /\ wire = <<>> /\ m_raw_buff = <<>> /\ got = <<>>
        /\ up = FALSE /\ clean = TRUE /\ m_signed_len = NoLen
        /\ nconn = 0 /\ first = 0 /\ min_recv_len = 0
    BY DEF Init
  <2>2. /\ Len(lens) = 0 /\ Len(m_raw_buff) = 0 /\ 0 <= MaxPack
        /\ nconn \in 0 .. MaxConn /\ first \in 0 .. Len(lens)
    BY <2>1, LengthsAssumption
  <2> QED
    BY <2>1, <2>2, NoBytes DEF Types
<1>2. Measured(m_raw_buff, m_signed_len)
  BY LengthsAssumption DEF Init, Measured
<1> QED
  BY <1>1, <1>2 DEF BuffInv

LEMMA BuffRecv ==
    ASSUME BuffInv, NEW n \in 1 .. Room, NEW g \in LensRead, Recv(n, g)
    PROVE  BuffInv'
<1> DEFINE d == Data(n)
           r == Rest(n)
           s == LenRead(n, g)
<1>1. /\ up /\ n <= Len(wire) /\ lens' = lens /\ nconn' = nconn
      /\ first' = first /\ clean' = clean
  BY RecvShape
<1>2. /\ lens \in Seq(BodyLens) /\ Len(lens) <= MaxPack
      /\ up \in BOOLEAN /\ clean \in BOOLEAN
      /\ nconn \in 0 .. MaxConn /\ first \in 0 .. Len(lens)
      /\ m_signed_len \in LensRead \cup {NoLen} /\ got \in Seq(Seq(SentBytes))
  BY DEF BuffInv, Types
<1>3. SentBytes' = SentBytes
  BY <1>1 DEF SentBytes
<1>4. /\ d \in Seq(SentBytes) /\ Len(d) <= BuffLen
      /\ r \in Seq(SentBytes) /\ Len(r) <= BuffLen
      /\ SubSeq(wire, n + 1, Len(wire)) \in Seq(SentBytes)
      /\ s \in LensRead \cup {NoLen}
      /\ s # NoLen <=> Len(r) >= HeaderLen
      /\ Len(r) >= HeaderLen /\ r[HeaderLen].off = HeaderLen - 1 => s = Said(r[HeaderLen].pack)
  <2>1. /\ Len(d) <= BuffLen /\ Len(r) <= Len(d)
        /\ d \in Seq(SentBytes) /\ r \in Seq(SentBytes)
    BY <1>1, RecvFacts
  <2>2. Len(r) <= BuffLen
    BY <2>1, LengthsAssumption
  <2> QED
    BY <1>1, <2>1, <2>2, RecvFacts
<1>5. got' \in Seq(Seq(SentBytes))
  <2>1. Whole(d, m_signed_len) =>
            SubSeq(d, 1, HeaderLen + m_signed_len) \in Seq(SentBytes)
    <3> HIDE DEF d
    <3> SUFFICES ASSUME Whole(d, m_signed_len)
                 PROVE  SubSeq(d, 1, HeaderLen + m_signed_len) \in Seq(SentBytes)
      OBVIOUS
    <3>1. m_signed_len \in Nat /\ Len(d) >= HeaderLen + m_signed_len
      BY <1>2, Lengths DEF Whole
    <3> QED
      BY <1>4, <3>1, LengthsAssumption
  <2>2. got' = IF Whole(d, m_signed_len)
               THEN Append(got, SubSeq(d, 1, HeaderLen + m_signed_len)) ELSE got
    BY RecvShape
  <2> HIDE DEF d
  <2> QED
    BY <1>2, <2>1, <2>2, AppendProperties
<1>6. CASE /\ Len(r) >= HeaderLen => IsHeader(r)
           /\ PrepareBuff(r, s)
           /\ wire' = SubSeq(wire, n + 1, Len(wire)) /\ up' = up
  <2> HIDE DEF d, r, s
  <2>1. /\ m_raw_buff' \in {r, <<>>} /\ m_signed_len' \in {s, NoLen}
        /\ min_recv_len' \in 0 .. MaxMsgLen
        /\ Measured(m_raw_buff, m_signed_len)'
    <3>1. Len(r) \in Nat
      BY <1>4
    <3>2. s # NoLen => /\ IsHeader(r)
                       /\ r[HeaderLen].off = HeaderLen - 1 => s = Said(r[HeaderLen].pack)
      BY <1>4, <1>6
    <3> QED
      BY <1>1, <1>4, <1>6, <3>1, <3>2, PrepareKeeps
  <2>2. m_raw_buff' \in Seq(SentBytes) /\ Len(m_raw_buff') <= BuffLen
    BY <1>4, <2>1, NoBytes
  <2>3. Types'
    BY <1>1, <1>2, <1>3, <1>4, <1>5, <1>6, <2>1, <2>2 DEF Types
  <2> QED
    BY <2>1, <2>3 DEF BuffInv
<1>7. CASE PrepareBuff(<<>>, NoLen) /\ wire' = <<>> /\ up' = FALSE
  <2> HIDE DEF d, r, s
  <2>1. m_raw_buff' = <<>> /\ m_signed_len' = NoLen /\ min_recv_len' = HeaderLen
    BY <1>7, PrepareEmpty
  <2>2. Measured(m_raw_buff, m_signed_len)'
    BY <2>1, LengthsAssumption DEF Measured
  <2>3. Types'
    BY <1>1, <1>2, <1>3, <1>5, <1>7, <2>1, NoBytes DEF Types, NoLen
  <2> QED
    BY <2>2, <2>3 DEF BuffInv
<1> QED
  BY <1>6, <1>7, RecvShape, Zenon

LEMMA BuffSend ==
    ASSUME BuffInv, NEW len \in BodyLens, Send(len)
    PROVE  BuffInv'
<1>1. /\ up' = up /\ nconn' = nconn /\ first' = first /\ clean' = clean /\ got' = got
      /\ m_raw_buff' = m_raw_buff /\ m_signed_len' = m_signed_len /\ min_recv_len' = min_recv_len
      /\ up /\ Len(lens) < MaxPack /\ lens' = Append(lens, len)
      /\ wire' = wire \o [i \in 1 .. HeaderLen + len |-> [pack |-> Len(lens) + 1, off |-> i - 1]]
  BY DEF Send, unpacker
<1>2. /\ wire \in Seq(SentBytes') /\ m_raw_buff \in Seq(SentBytes')
      /\ got \in Seq(Seq(SentBytes'))
      /\ lens' \in Seq(BodyLens) /\ Len(lens') = Len(lens) + 1
      /\ \A i \in 1 .. Len(lens) : lens'[i] = lens[i]
  BY <1>1, MoreSent
<1>3. Types /\ Measured(m_raw_buff, m_signed_len) /\ Len(lens) \in Nat
  BY DEF BuffInv, Types
<1>4. wire' \in Seq(SentBytes')
  <2> DEFINE p == [i \in 1 .. HeaderLen + len |-> [pack |-> Len(lens) + 1, off |-> i - 1]]
  <2>1. HeaderLen + len \in Nat
    BY LengthsAssumption
  <2>2. \A i \in 1 .. HeaderLen + len : [pack |-> Len(lens) + 1, off |-> i - 1] \in SentBytes'
    BY <1>2, <1>3 DEF SentBytes
  <2>3. p \in Seq(SentBytes')
    BY <2>1, <2>2, IsASeq
  <2> HIDE DEF p
  <2> QED
    BY <1>1, <1>2, <2>3, ConcatProperties DEF p
<1>5. Types'
  <2>1. Len(lens') <= MaxPack /\ first' \in 0 .. Len(lens')
    BY <1>1, <1>2, <1>3, LengthsAssumption DEF Types
  <2> QED
    BY <1>1, <1>2, <1>3, <1>4, <2>1 DEF Types
<1>6. Measured(m_raw_buff, m_signed_len)'
  <2>1. Len(m_raw_buff) >= HeaderLen => m_raw_buff[HeaderLen] \in SentBytes
    BY <1>3, LengthsAssumption DEF Types
  <2>2. Len(m_raw_buff) >= HeaderLen => m_raw_buff[HeaderLen].pack \in 1 .. Len(lens)
    BY <2>1 DEF SentBytes
  <2> QED
    BY <1>1, <1>2, <1>3, <2>2 DEF Measured, Said, IsHeader, TooMuch
<1> QED
  BY <1>5, <1>6 DEF BuffInv

LEMMA BuffConnected ==
    ASSUME BuffInv, Connected
    PROVE  BuffInv'
<1>1. Types /\ Measured(m_raw_buff, m_signed_len)
  BY DEF BuffInv
<1>2. /\ ~ up /\ up' = TRUE /\ nconn' = nconn + 1 /\ nconn < MaxConn
      /\ PrepareBuff(m_raw_buff, m_signed_len)
      /\ got' = <<>> /\ first' = Len(lens) /\ clean' = (m_raw_buff = <<>>)
      /\ lens' = lens /\ wire' = wire
  BY DEF Connected
<1>3. /\ m_raw_buff' \in {m_raw_buff, <<>>} /\ m_signed_len' \in {m_signed_len, NoLen}
      /\ min_recv_len' \in 0 .. MaxMsgLen
      /\ Measured(m_raw_buff, m_signed_len)'
  <2>1. Len(m_raw_buff) \in Nat /\ Len(m_raw_buff) <= BuffLen
        /\ m_signed_len \in LensRead \cup {NoLen}
    BY <1>1 DEF Types
  <2> QED
    BY <1>1, <1>2, <2>1, PrepareKeeps DEF Measured
<1>4. SentBytes' = SentBytes
  BY <1>2 DEF SentBytes
<1>5. m_raw_buff' \in Seq(SentBytes) /\ Len(m_raw_buff') <= BuffLen /\ <<>> \in Seq(Seq(SentBytes))
  BY <1>1, <1>3, NoBytes DEF Types
<1>6. Types'
  BY <1>1, <1>2, <1>3, <1>4, <1>5, LengthsAssumption DEF Types
<1> QED
  BY <1>3, <1>6 DEF BuffInv

\* The rest of the actions leave the buffer alone.
LEMMA BuffElse ==
    ASSUME BuffInv, RecvNothing \/ Lose \/ Finished \/ UNCHANGED vars
    PROVE  BuffInv'
<1>1. /\ lens' = lens /\ nconn' = nconn /\ got' = got /\ first' = first /\ clean' = clean
      /\ m_raw_buff' = m_raw_buff /\ m_signed_len' = m_signed_len /\ min_recv_len' = min_recv_len
      /\ (up' = up /\ wire' = wire) \/ (up' = FALSE /\ wire' = <<>>)
  BY DEF RecvNothing, Lose, Finished, vars, unpacker
<1>2. SentBytes' = SentBytes
  BY <1>1 DEF SentBytes
<1>3. Types /\ Measured(m_raw_buff, m_signed_len)
  BY DEF BuffInv
<1>4. Types'
  <2>1. <<>> \in Seq(SentBytes)
    OBVIOUS
  <2> QED
    BY <1>1, <1>2, <1>3, <2>1 DEF Types
<1>5. Measured(m_raw_buff, m_signed_len)'
  BY <1>1, <1>3 DEF Measured, Said, IsHeader, TooMuch
<1> QED
  BY <1>4, <1>5 DEF BuffInv

LEMMA BuffStep == BuffInv /\ [Next]_vars => BuffInv'
BY BuffRecv, BuffSend, BuffConnected, BuffElse, Zenon DEF Next

LEMMA BuffAlways == Spec => []BuffInv
BY BuffInit, BuffStep, PTL DEF Spec

\* The buffer never holds more than m_raw_buff has room for, and a read waits for
\* a number of bytes that can be asked for, whatever the packets, the cuts and the
\* connections.
THEOREM UnpackerTypes == Spec => []TypeOK
<1>1. BuffInv => TypeOK
  <2> SUFFICES ASSUME BuffInv PROVE TypeOK
    OBVIOUS
  <2>1. Types
    BY DEF BuffInv
  <2>2. SentBytes \subseteq Bytes
    BY <2>1, LengthsAssumption DEF Types, SentBytes, Bytes
  <2>3. Seq(SentBytes) \subseteq Seq(Bytes)
    BY <2>2, SeqMonotonic, Zenon
  <2>4. Seq(Seq(SentBytes)) \subseteq Seq(Seq(Bytes))
    BY <2>3, SeqMonotonic, Zenon
  <2> QED
    BY <2>1, <2>3, <2>4 DEF Types, TypeOK
<1> QED
  BY <1>1, BuffAlways, PTL

-----------------------------------------------------------------------------
(* PrefixFacts and packets.                                                   *)

LEMMA PrefixFacts ==
    ASSUME NEW S, NEW s \in Seq(S), NEW t \in Seq(S)
    PROVE  IsPrefix(s, t) <=> Len(s) <= Len(t) /\ \A i \in 1 .. Len(s) : s[i] = t[i]
<1>1. SubSeq(s, 1, Len(s)) = s
  BY SubSeqFull
<1>2. ASSUME Len(s) <= Len(t)
      PROVE  /\ SubSeq(t, 1, Len(s)) \in Seq(S) /\ Len(SubSeq(t, 1, Len(s))) = Len(s)
             /\ \A i \in 1 .. Len(s) : SubSeq(t, 1, Len(s))[i] = t[i]
  BY <1>2
<1>3. ASSUME Len(s) <= Len(t), \A i \in 1 .. Len(s) : s[i] = t[i]
      PROVE  s = SubSeq(t, 1, Len(s))
  <2> DEFINE u == SubSeq(t, 1, Len(s))
  <2>1. u \in Seq(S) /\ Len(u) = Len(s) /\ \A i \in 1 .. Len(s) : s[i] = u[i]
    BY <1>2, <1>3
  <2> HIDE DEF u
  <2>2. s = u
    BY <2>1, SeqEqual
  <2> QED
    BY <2>2 DEF u
<1> QED
  BY <1>1, <1>2, <1>3 DEF IsPrefix

LEMMA PacketFacts ==
    ASSUME BuffInv, NEW p \in 1 .. Len(lens)
    PROVE  /\ lens[p] \in BodyLens /\ lens[p] \in Nat /\ HeaderLen + lens[p] \in Nat
           /\ Packet(p) \in Seq(SentBytes) /\ Len(Packet(p)) = HeaderLen + lens[p]
           /\ HeaderLen \in 1 .. Len(Packet(p))
           /\ Packet(p)[HeaderLen] = [pack |-> p, off |-> HeaderLen - 1]
<1>1. lens[p] \in BodyLens /\ lens[p] \in Nat
  <2>1. lens \in Seq(BodyLens)
    BY DEF BuffInv, Types
  <2>2. lens[p] \in BodyLens
    BY <2>1
  <2> QED
    BY <2>2, Lengths
<1>2. HeaderLen + lens[p] \in Nat /\ HeaderLen \in 1 .. HeaderLen + lens[p]
  BY <1>1, LengthsAssumption
<1>3. \A i \in 1 .. HeaderLen + lens[p] : [pack |-> p, off |-> i - 1] \in SentBytes
  BY DEF SentBytes
<1>4. Packet(p) \in Seq(SentBytes)
  BY <1>2, <1>3, IsASeq DEF Packet
<1>5. Len(Packet(p)) = HeaderLen + lens[p]
  BY <1>2 DEF Packet
<1> QED
  BY <1>1, <1>2, <1>4, <1>5 DEF Packet

LEMMA SentHereFacts ==
    ASSUME BuffInv
    PROVE  /\ SentHere \in Seq(Seq(SentBytes)) /\ Len(SentHere) = Len(lens) - first
           /\ first \in Nat /\ Len(lens) \in Nat /\ first <= Len(lens)
           /\ \A i \in 1 .. Len(SentHere) :
                  first + i \in 1 .. Len(lens) /\ SentHere[i] = Packet(first + i)
<1>1. Len(lens) \in Nat /\ first \in 0 .. Len(lens)
  BY DEF BuffInv, Types
<1>2. \A i \in 1 .. Len(lens) - first : first + i \in 1 .. Len(lens)
  BY <1>1
<1>3. \A i \in 1 .. Len(lens) - first : Packet(first + i) \in Seq(SentBytes)
  BY <1>2, PacketFacts
<1>4. Len(lens) - first \in Nat
  BY <1>1
<1>5. SentHere \in Seq(Seq(SentBytes))
  BY <1>3, <1>4, IsASeq DEF SentHere
<1>6. Len(SentHere) = Len(lens) - first
  BY <1>4 DEF SentHere
<1> QED
  BY <1>1, <1>2, <1>5, <1>6 DEF SentHere

LEMMA SentHereTypes ==
    BuffInv => SentHere \in Seq(Seq(SentBytes)) /\ Len(SentHere) = Len(lens) - first
BY SentHereFacts, Zenon

\* The same of the next state.
LEMMA SentHereNext ==
    ASSUME BuffInv'
    PROVE  /\ SentHere' \in Seq(Seq(SentBytes')) /\ Len(SentHere') = Len(lens') - first'
           /\ \A i \in 1 .. Len(SentHere') :
                  SentHere'[i] = [j \in 1 .. HeaderLen + lens'[first' + i] |->
                                      [pack |-> first' + i, off |-> j - 1]]
<1>1. (SentHere \in Seq(Seq(SentBytes)) /\ Len(SentHere) = Len(lens) - first)'
  BY SentHereTypes, PTL
<1> QED
  BY <1>1 DEF SentHere, Packet

\* g handed up, r in the buffer and w on the wire are what was sent here.
Conserves(g, r, w) ==
    /\ IsPrefix(g, SentHere)
    /\ FlattenSeq(g) \o (r \o w) = FlattenSeq(SentHere)

\* If a header is in the buffer, then it is the one of the first packet that was not
\* handed up, and the stream goes on with that packet.
LEMMA HeadIsPacket ==
    ASSUME BuffInv, NEW g \in Seq(Seq(SentBytes)),
           NEW r \in Seq(SentBytes), NEW w \in Seq(SentBytes),
           Conserves(g, r, w), Len(r) >= HeaderLen
    PROVE  /\ Len(g) + 1 \in 1 .. Len(SentHere)
           /\ SentHere[Len(g) + 1] = Packet(first + Len(g) + 1)
           /\ first + Len(g) + 1 \in first + 1 .. Len(lens)
           /\ first + Len(g) + 1 \in 1 .. Len(lens)
           /\ r[HeaderLen] = [pack |-> first + Len(g) + 1, off |-> HeaderLen - 1]
           /\ \E t \in Seq(SentBytes) : r \o w = Packet(first + Len(g) + 1) \o t
<1> DEFINE k == Len(g)
           x == r \o w
           p == first + k + 1
<1>1. /\ k \in Nat /\ k <= Len(SentHere) /\ x \in Seq(SentBytes)
      /\ Len(x) = Len(r) + Len(w) /\ Len(r) \in Nat /\ Len(w) \in Nat
      /\ FlattenSeq(g) \in Seq(SentBytes)
      /\ FlattenSeq(SentHere) \in Seq(SentBytes)
      /\ SentHere \in Seq(Seq(SentBytes))
      /\ HeaderLen \in Nat /\ HeaderLen > 2
  BY SentHereFacts, FlattenType, LengthsAssumption DEF Conserves, IsPrefix
<1>2. SubSeq(SentHere, 1, k) = g
  BY <1>1, SubSeqFull DEF Conserves, IsPrefix
<1>3. \A a, b, c \in Seq(SentBytes) : a \o b = a \o c => b = c
  BY SeqCancel
<1>4. k # Len(SentHere)
  <2> SUFFICES ASSUME k = Len(SentHere) PROVE FALSE
    OBVIOUS
  <2>1. g = SentHere
    BY <1>1, <1>2, SubSeqFull
  <2>2. FlattenSeq(g) \o x = FlattenSeq(g)
    BY <2>1 DEF Conserves
  <2>3. x = <<>>
    BY <1>1, <2>2, ConcatEqualIffEmpty
  <2> QED
    BY <1>1, <2>3
<1>5. k \in 0 .. Len(SentHere) - 1 /\ k + 1 \in 1 .. Len(SentHere)
  BY <1>1, <1>4
<1>6. PICK t \in Seq(SentBytes) :
          FlattenSeq(SentHere) = FlattenSeq(g) \o (SentHere[k + 1] \o t)
  <2>1. BeginsWith(FlattenSeq(SentHere), FlattenSeq(SubSeq(SentHere, 1, k)),
                   SentHere[k + 1], SentBytes)
    <3> HIDE DEF k
    <3> QED
      BY <1>1, <1>5, FlattenSplit, Zenon
  <2> QED
    BY <1>2, <2>1, Zenon DEF BeginsWith
<1>7. /\ p \in 1 .. Len(lens) /\ p \in first + 1 .. Len(lens)
      /\ SentHere[k + 1] = Packet(p)
  <2>1. first + (k + 1) = p /\ first \in Nat
    BY <1>1, SentHereFacts
  <2> QED
    BY <1>1, <1>5, <2>1, SentHereFacts
<1>8. Packet(p) \o t \in Seq(SentBytes) /\ Packet(p) \in Seq(SentBytes)
  BY <1>7, PacketFacts, ConcatProperties
<1>9. x = Packet(p) \o t
  <2>1. FlattenSeq(g) \o x = FlattenSeq(g) \o (Packet(p) \o t)
    BY <1>6, <1>7 DEF Conserves
  <2> HIDE DEF x, p
  <2> QED
    BY <1>1, <1>3, <1>8, <2>1
<1>10. r[HeaderLen] = [pack |-> p, off |-> HeaderLen - 1]
  <2>1. HeaderLen \in 1 .. Len(r)
    BY <1>1
  <2>2. r[HeaderLen] = x[HeaderLen]
    BY <2>1
  <2>3. HeaderLen \in 1 .. Len(Packet(p))
    BY <1>7, PacketFacts
  <2>4. (Packet(p) \o t)[HeaderLen] = Packet(p)[HeaderLen]
    BY <1>8, <2>3
  <2> QED
    BY <1>7, <1>9, <2>2, <2>4, PacketFacts
<1> QED
  BY <1>5, <1>7, <1>9, <1>10

\* A packet that is cut off the buffer is the next one that was sent, and the rest of
\* the buffer goes on behind it.
LEMMA CutConserves ==
    ASSUME BuffInv, NEW g \in Seq(Seq(SentBytes)),
           NEW r \in Seq(SentBytes), NEW w \in Seq(SentBytes),
           Conserves(g, r, w), Len(r) >= HeaderLen,
           NEW l, l = lens[first + Len(g) + 1], Len(r) >= HeaderLen + l
    PROVE  /\ SubSeq(r, 1, HeaderLen + l) \in Seq(SentBytes)
           /\ CutPacket(r, l) \in Seq(SentBytes)
           /\ Conserves(Append(g, SubSeq(r, 1, HeaderLen + l)), CutPacket(r, l), w)
<1> DEFINE p == first + Len(g) + 1
           q == Packet(p)
           n == HeaderLen + l
           a == SubSeq(r, 1, n)
           c == CutPacket(r, l)
<1>1. /\ Len(g) + 1 \in 1 .. Len(SentHere) /\ SentHere[Len(g) + 1] = q
      /\ p \in 1 .. Len(lens) /\ \E t \in Seq(SentBytes) : r \o w = q \o t
  BY HeadIsPacket
<1>2. PICK t \in Seq(SentBytes) : r \o w = q \o t
  BY <1>1
<1>3. q \in Seq(SentBytes) /\ Len(q) = n /\ n \in Nat /\ l \in Nat /\ n >= 1
  <2>1. /\ lens[p] \in Nat /\ HeaderLen + lens[p] \in Nat
        /\ q \in Seq(SentBytes) /\ Len(q) = HeaderLen + lens[p]
    <3> HIDE DEF p
    <3> QED
      BY <1>1, PacketFacts, Zenon
  <2> QED
    BY <2>1, LengthsAssumption
<1>4. /\ a \in Seq(SentBytes) /\ Len(a) = n /\ \A i \in 1 .. n : a[i] = r[i]
      /\ c \in Seq(SentBytes)
  <2>1. c = SubSeq(r, n + 1, Len(r))
    BY DEF CutPacket
  <2>2. n <= Len(r) /\ Len(r) \in Nat
    OBVIOUS
  <2> HIDE DEF c, n
  <2>3. a \in Seq(SentBytes) /\ Len(a) = n /\ \A i \in 1 .. n : a[i] = r[i]
    BY <1>3, <2>2
  <2>4. SubSeq(r, n + 1, Len(r)) \in Seq(SentBytes)
    BY <1>3, <2>2
  <2> QED
    BY <2>1, <2>3, <2>4
<1> HIDE DEF q, n
<1>5. a = q
  <2>1. ASSUME NEW i \in 1 .. n PROVE a[i] = q[i]
    <3>1. i \in 1 .. Len(r)
      BY <1>3 DEF n
    <3>2. r[i] = (r \o w)[i]
      BY <3>1
    <3>3. q[i] = (q \o t)[i]
      BY <1>3
    <3> QED
      BY <1>2, <1>4, <3>2, <3>3
  <2> HIDE DEF a
  <2> QED
    BY <1>3, <1>4, <2>1, SeqEqual
<1>6. r = a \o c
  <2>1. SubSeq(r, 1, n) \o SubSeq(r, n + 1, Len(r)) = SubSeq(r, 1, Len(r))
    <3>1. 1 \in 1 .. Len(r) + 1 /\ n \in 1 - 1 .. Len(r) /\ Len(r) \in n .. Len(r)
      BY <1>3 DEF n
    <3> QED
      BY <3>1, ConcatAdjacentSubSeq
  <2>2. SubSeq(r, 1, Len(r)) = r
    BY SubSeqFull
  <2>3. c = SubSeq(r, n + 1, Len(r))
    BY DEF CutPacket, n
  <2> HIDE DEF c
  <2> QED
    BY <2>1, <2>2, <2>3
<1> HIDE DEF a, c
<1> DEFINE f == FlattenSeq(g)
<1>7. FlattenSeq(Append(g, a)) = f \o a /\ f \in Seq(SentBytes)
  BY <1>4, FlattenAppend, FlattenType
<1> HIDE DEF f
<1>8. (f \o a) \o (c \o w) = f \o (r \o w)
  <2>1. \A u, v, z \in Seq(SentBytes) : (u \o v) \o z = u \o (v \o z)
    <3> TAKE u, v, z \in Seq(SentBytes)
    <3> QED
      BY SeqAssoc, SMTT(60)
  <2>2. c \o w \in Seq(SentBytes)
    BY <1>4, ConcatProperties
  <2>3. (f \o a) \o (c \o w) = f \o (a \o (c \o w))
    BY <1>4, <1>7, <2>1, <2>2
  <2>4. (a \o c) \o w = a \o (c \o w)
    BY <1>4, <2>1
  <2> QED
    BY <1>6, <2>3, <2>4
<1>9. FlattenSeq(Append(g, a)) \o (c \o w) = FlattenSeq(SentHere)
  BY <1>7, <1>8, Zenon DEF Conserves, f
<1>10. IsPrefix(Append(g, a), SentHere)
  <2> DEFINE h == Append(g, a)
  <2>1. /\ h \in Seq(Seq(SentBytes)) /\ Len(h) = Len(g) + 1 /\ h[Len(g) + 1] = a
        /\ \A i \in 1 .. Len(g) : h[i] = g[i]
    BY <1>4, AppendProperties
  <2>2. SentHere \in Seq(Seq(SentBytes)) /\ IsPrefix(g, SentHere)
    BY SentHereFacts DEF Conserves
  <2>3. \A i \in 1 .. Len(g) : g[i] = SentHere[i]
    BY <2>2, PrefixFacts
  <2> HIDE DEF h
  <2>4. ASSUME NEW i \in 1 .. Len(h) PROVE h[i] = SentHere[i]
    <3>1. CASE i = Len(g) + 1
      BY <3>1, <1>1, <1>5, <2>1
    <3>2. CASE i # Len(g) + 1
      <4>1. i \in 1 .. Len(g)
        BY <3>2, <2>1
      <4> QED
        BY <4>1, <2>1, <2>3
    <3> QED
      BY <3>1, <3>2
  <2>5. Len(h) <= Len(SentHere)
    BY <1>1, <2>1
  <2>6. IsPrefix(h, SentHere)
    BY <2>1, <2>2, <2>4, <2>5, PrefixFacts
  <2> QED
    BY <2>6 DEF h
<1> QED
  BY <1>4, <1>9, <1>10 DEF Conserves, a, c, n

-----------------------------------------------------------------------------
(* The stream.                                                             *)

\* What the invariant says of a connection that began with an empty buffer.
StreamInv == BuffInv /\ StreamConserved

\* StreamConserved, with the buffer and the wire in brackets.
LEMMA StreamForm ==
    ASSUME BuffInv
    PROVE  StreamConserved <=> (up /\ clean /\ Acceptable => Conserves(got, m_raw_buff, wire))
<1>1. /\ got \in Seq(Seq(SentBytes)) /\ m_raw_buff \in Seq(SentBytes) /\ wire \in Seq(SentBytes)
  BY DEF BuffInv, Types
<1>2. FlattenSeq(got) \in Seq(SentBytes)
  BY <1>1, FlattenType
<1>3. (FlattenSeq(got) \o m_raw_buff) \o wire = FlattenSeq(got) \o (m_raw_buff \o wire)
  BY <1>1, <1>2, SeqAssoc
<1> QED
  BY <1>3 DEF StreamConserved, Conserves

\* Bytes that a read takes off the wire are in the data of that read.
LEMMA ReadMoves ==
    ASSUME BuffInv, NEW n \in 1 .. Len(wire)
    PROVE  Data(n) \o SubSeq(wire, n + 1, Len(wire)) = m_raw_buff \o wire
<1> DEFINE a == SubSeq(wire, 1, n)
           c == SubSeq(wire, n + 1, Len(wire))
<1>1. m_raw_buff \in Seq(SentBytes) /\ wire \in Seq(SentBytes)
  BY DEF BuffInv, Types
<1>2. a \in Seq(SentBytes) /\ c \in Seq(SentBytes)
  BY <1>1
<1>3. a \o c = wire
  <2>1. a \o c = SubSeq(wire, 1, Len(wire))
    <3>1. 1 \in 1 .. Len(wire) + 1 /\ n \in 1 - 1 .. Len(wire) /\ Len(wire) \in n .. Len(wire)
      BY <1>1
    <3> QED
      BY <1>1, <3>1, ConcatAdjacentSubSeq
  <2> HIDE DEF a, c
  <2> QED
    BY <1>1, <2>1, SubSeqFull
<1> HIDE DEF a, c
<1>4. (m_raw_buff \o a) \o c = m_raw_buff \o (a \o c)
  BY <1>1, <1>2, SeqAssoc, SMTT(60)
<1> QED
  BY <1>3, <1>4 DEF Data, a, c

\* A read that does not end the connection conserves the stream.
LEMMA StreamRecv ==
    ASSUME StreamInv, NEW n \in 1 .. Room, NEW g \in LensRead, Recv(n, g)
    PROVE  StreamConserved'
<1> DEFINE d == Data(n)
           r == Rest(n)
           s == LenRead(n, g)
           w == SubSeq(wire, n + 1, Len(wire))
           p == first + Len(got) + 1
<1>1. BuffInv /\ BuffInv'
  BY BuffRecv DEF StreamInv
<1>2. /\ up /\ n <= Len(wire) /\ lens' = lens /\ nconn' = nconn
      /\ first' = first /\ clean' = clean
  BY RecvShape
<1>3. SUFFICES ASSUME up', clean, Acceptable
               PROVE  Conserves(got, m_raw_buff, wire)'
  <2>1. Acceptable' <=> Acceptable
    BY <1>2 DEF Acceptable, Said, TooMuch
  <2>2. StreamConserved' <=>
            (up' /\ clean' /\ Acceptable' => Conserves(got, m_raw_buff, wire)')
    BY <1>1, StreamForm, PTL
  <2> QED
    BY <1>2, <2>1, <2>2
<1>4. /\ PrepareBuff(r, s) /\ wire' = w
      /\ Len(r) >= HeaderLen => IsHeader(r)
  BY <1>3, RecvShape, Zenon
<1>5. /\ d \in Seq(SentBytes) /\ r \in Seq(SentBytes) /\ w \in Seq(SentBytes)
      /\ Len(d) <= BuffLen /\ Len(r) <= BuffLen /\ Len(d) = Len(m_raw_buff) + n
      /\ \A i \in 1 .. Len(m_raw_buff) : d[i] = m_raw_buff[i]
      /\ s \in LensRead \cup {NoLen}
      /\ s # NoLen <=> Len(r) >= HeaderLen
      /\ Len(r) >= HeaderLen /\ r[HeaderLen].off = HeaderLen - 1 => s = Said(r[HeaderLen].pack)
  <2>1. /\ Len(d) <= BuffLen /\ Len(r) <= Len(d)
        /\ d \in Seq(SentBytes) /\ r \in Seq(SentBytes)
    BY <1>1, <1>2, RecvFacts
  <2>2. Len(r) <= BuffLen
    BY <2>1, LengthsAssumption
  <2> QED
    BY <1>1, <1>2, <2>1, <2>2, RecvFacts
<1>6. /\ got \in Seq(Seq(SentBytes)) /\ lens \in Seq(BodyLens)
      /\ m_signed_len \in LensRead \cup {NoLen} /\ Measured(m_raw_buff, m_signed_len)
      /\ m_raw_buff \in Seq(SentBytes) /\ wire \in Seq(SentBytes)
  BY <1>1 DEF BuffInv, Types
<1>7. got' = IF Whole(d, m_signed_len)
             THEN Append(got, SubSeq(d, 1, HeaderLen + m_signed_len)) ELSE got
  BY RecvShape
<1>8. Conserves(got, d, w)
  <2>1. Conserves(got, m_raw_buff, wire)
    BY <1>1, <1>2, <1>3, StreamForm DEF StreamInv
  <2>2. n \in 1 .. Len(wire)
    BY <1>2, <1>6, LengthsAssumption DEF Room
  <2>3. d \o w = m_raw_buff \o wire
    BY <1>1, <2>2, ReadMoves
  <2> QED
    BY <2>1, <2>3 DEF Conserves
<1> HIDE DEF d, s, w
<1>9. Conserves(got', r, w)
  <2>1. CASE Whole(d, m_signed_len)
    <3> DEFINE l == m_signed_len
    <3>1. l # NoLen /\ Len(d) >= HeaderLen + l /\ l \in Nat
      BY <1>6, <2>1, Lengths DEF Whole
    <3>2. Len(m_raw_buff) >= HeaderLen /\ HeaderLen \in 1 .. Len(m_raw_buff)
          /\ d[HeaderLen] = m_raw_buff[HeaderLen] /\ Len(d) >= HeaderLen
      BY <1>5, <1>6, <3>1, LengthsAssumption DEF Measured
    <3>3. d[HeaderLen] = [pack |-> p, off |-> HeaderLen - 1]
      BY <1>1, <1>5, <1>6, <1>8, <3>2, HeadIsPacket
    <3>4. l = lens[p]
      <4>1. p \in first + 1 .. Len(lens)
        BY <1>1, <1>5, <1>6, <1>8, <3>2, HeadIsPacket
      <4> QED
        BY <1>3, <1>6, <3>1, <3>2, <3>3, <4>1 DEF Measured, Acceptable
    <3> HIDE DEF l
    <3>5. Conserves(Append(got, SubSeq(d, 1, HeaderLen + l)), CutPacket(d, l), w)
      BY <1>1, <1>5, <1>6, <1>8, <3>1, <3>2, <3>4, CutConserves
    <3>6. r = CutPacket(d, l)
      BY <2>1 DEF Rest, d, l
    <3> QED
      BY <1>7, <2>1, <3>5, <3>6 DEF l
  <2>2. CASE ~ Whole(d, m_signed_len)
    <3>1. r = d
      BY <2>2 DEF Rest, d
    <3> QED
      BY <1>7, <1>8, <2>2, <3>1
  <2> QED
    BY <2>1, <2>2
<1> HIDE DEF r
<1>10. ~ (s # NoLen /\ TooMuch(s))
  <2> SUFFICES ASSUME s # NoLen PROVE ~ TooMuch(s)
    OBVIOUS
  <2> DEFINE q == first + Len(got') + 1
  <2>1. Len(r) >= HeaderLen
    BY <1>5
  <2>2. got' \in Seq(Seq(SentBytes))
    <3>1. SentBytes' = SentBytes
      BY <1>2 DEF SentBytes
    <3> QED
      BY <1>1, <3>1 DEF BuffInv, Types
  <2>3. r[HeaderLen] = [pack |-> q, off |-> HeaderLen - 1] /\ q \in first + 1 .. Len(lens)
    BY <1>1, <1>5, <1>9, <2>1, <2>2, HeadIsPacket
  <2>4. s = lens[q]
    BY <1>3, <1>5, <2>1, <2>3 DEF Acceptable
  <2> QED
    BY <1>3, <2>3, <2>4 DEF Acceptable
<1>11. m_raw_buff' = r
  <2>1. Len(r) \in Nat
    BY <1>5
  <2>2. s # NoLen => /\ IsHeader(r)
                     /\ r[HeaderLen].off = HeaderLen - 1 => s = Said(r[HeaderLen].pack)
    BY <1>4, <1>5
  <2> QED
    BY <1>2, <1>4, <1>5, <1>10, <2>1, <2>2, PrepareKeeps
<1>12. SentHere' = SentHere
  BY <1>2 DEF SentHere, Packet
<1> QED
  BY <1>4, <1>9, <1>11, <1>12 DEF Conserves

\* A packet that the server sends goes to the end of the stream.
LEMMA StreamSend ==
    ASSUME StreamInv, NEW len \in BodyLens, Send(len)
    PROVE  StreamConserved'
<1> DEFINE pk == [i \in 1 .. HeaderLen + len |-> [pack |-> Len(lens) + 1, off |-> i - 1]]
<1>1. BuffInv /\ BuffInv'
  BY BuffSend DEF StreamInv
<1>2. /\ up' = up /\ first' = first /\ clean' = clean /\ got' = got
      /\ m_raw_buff' = m_raw_buff /\ lens' = Append(lens, len) /\ wire' = wire \o pk
  BY DEF Send, unpacker
<1>3. /\ got \in Seq(Seq(SentBytes')) /\ m_raw_buff \in Seq(SentBytes')
      /\ wire \in Seq(SentBytes')
      /\ Len(lens') = Len(lens) + 1 /\ lens'[Len(lens) + 1] = len
      /\ \A i \in 1 .. Len(lens) : lens'[i] = lens[i]
  BY <1>1, <1>2, MoreSent
<1>4. SUFFICES ASSUME up, clean, Acceptable
               PROVE  Conserves(got, m_raw_buff, wire)'
  <2>1. Acceptable' => Acceptable
    <3>1. \A q \in first + 1 .. Len(lens) : q \in first + 1 .. Len(lens) + 1 /\ q \in 1 .. Len(lens)
      BY <1>1, SentHereFacts
    <3> QED
      BY <1>2, <1>3, <3>1 DEF Acceptable, Said, TooMuch
  <2>2. StreamConserved' <=>
            (up' /\ clean' /\ Acceptable' => Conserves(got, m_raw_buff, wire)')
    BY <1>1, StreamForm, PTL
  <2> QED
    BY <1>2, <2>1, <2>2
<1>5. Conserves(got, m_raw_buff, wire)
  BY <1>1, <1>4, StreamForm DEF StreamInv
<1>6. /\ SentHere \in Seq(Seq(SentBytes)) /\ Len(SentHere) = Len(lens) - first
      /\ first \in Nat /\ Len(lens) \in Nat /\ first <= Len(lens)
      /\ \A i \in 1 .. Len(SentHere) :
             first + i \in 1 .. Len(lens) /\ SentHere[i] = Packet(first + i)
  BY <1>1, SentHereFacts
<1>7. /\ SentHere' \in Seq(Seq(SentBytes')) /\ Len(SentHere') = Len(lens') - first'
      /\ \A i \in 1 .. Len(SentHere') :
             SentHere'[i] = [j \in 1 .. HeaderLen + lens'[first' + i] |-> [pack |-> first' + i, off |-> j - 1]]
  BY <1>1, SentHereNext, Zenon
<1>8. SentHere \in Seq(Seq(SentBytes'))
  <2>1. SentBytes \subseteq SentBytes'
    BY <1>1, <1>2, MoreSent
  <2>2. Seq(SentBytes) \subseteq Seq(SentBytes')
    BY <2>1, SeqMonotonic, Zenon
  <2>3. Seq(Seq(SentBytes)) \subseteq Seq(Seq(SentBytes'))
    BY <2>2, SeqMonotonic, Zenon
  <2> QED
    BY <1>6, <2>3
<1>9. pk \in Seq(SentBytes')
  <2>1. HeaderLen + len \in Nat
    BY LengthsAssumption
  <2>2. \A i \in 1 .. HeaderLen + len : [pack |-> Len(lens) + 1, off |-> i - 1] \in SentBytes'
    BY <1>3, <1>6 DEF SentBytes
  <2> QED
    BY <2>1, <2>2, IsASeq
<1>10. SentHere' = Append(SentHere, pk)
  <2> DEFINE a == Append(SentHere, pk)
             z == SentHere'
  <2>1. /\ a \in Seq(Seq(SentBytes')) /\ Len(a) = Len(SentHere) + 1
        /\ \A i \in 1 .. Len(SentHere) : a[i] = SentHere[i]
        /\ a[Len(SentHere) + 1] = pk
    <3> HIDE DEF pk
    <3> QED
      BY <1>8, <1>9, AppendProperties
  <2>2. z \in Seq(Seq(SentBytes')) /\ Len(z) = Len(SentHere) + 1
    BY <1>2, <1>3, <1>6, <1>7
  <2>3. ASSUME NEW i \in 1 .. Len(SentHere) PROVE z[i] = SentHere[i]
    <3>1. i \in 1 .. Len(z) /\ first + i \in 1 .. Len(lens)
      BY <1>6, <2>2
    <3>2. lens'[first + i] = lens[first + i]
      BY <1>3, <3>1
    <3>3. z[i] = [j \in 1 .. HeaderLen + lens[first + i] |-> [pack |-> first + i, off |-> j - 1]]
      BY <1>2, <1>7, <3>1, <3>2
    <3> QED
      BY <1>6, <3>3 DEF Packet
  <2>4. z[Len(SentHere) + 1] = pk
    <3>1. Len(SentHere) + 1 \in 1 .. Len(z) /\ first + (Len(SentHere) + 1) = Len(lens) + 1
      BY <1>6, <2>2
    <3>2. z[Len(SentHere) + 1] =
              [j \in 1 .. HeaderLen + lens'[first + (Len(SentHere) + 1)] |->
                  [pack |-> first + (Len(SentHere) + 1), off |-> j - 1]]
      BY <1>2, <1>7, <3>1
    <3> QED
      BY <1>3, <3>1, <3>2
  <2> HIDE DEF a, z, pk
  <2>5. ASSUME NEW i \in 1 .. Len(a) PROVE a[i] = z[i]
    <3>1. i \in 1 .. Len(SentHere) \/ i = Len(SentHere) + 1
      BY <1>6, <2>1
    <3> QED
      BY <2>1, <2>3, <2>4, <3>1
  <2>6. a = z
    BY <2>1, <2>2, <2>5, SeqEqual
  <2> QED
    BY <2>6 DEF a, z
<1> HIDE DEF pk
<1>11. IsPrefix(got, SentHere')
  <2>1. Len(got) <= Len(SentHere) /\ \A i \in 1 .. Len(got) : got[i] = SentHere[i]
    BY <1>3, <1>5, <1>8, PrefixFacts DEF Conserves
  <2>2. /\ SentHere' \in Seq(Seq(SentBytes')) /\ Len(SentHere') = Len(SentHere) + 1
        /\ \A i \in 1 .. Len(SentHere) : SentHere'[i] = SentHere[i]
    BY <1>8, <1>9, <1>10, AppendProperties
  <2>3. Len(got) <= Len(SentHere') /\ \A i \in 1 .. Len(got) : got[i] = SentHere'[i]
    BY <1>3, <1>6, <2>1, <2>2
  <2> QED
    BY <1>3, <2>2, <2>3, PrefixFacts
<1>12. FlattenSeq(got) \o (m_raw_buff \o (wire \o pk)) = FlattenSeq(SentHere')
  <2> DEFINE f == FlattenSeq(got)
             x == m_raw_buff \o wire
  <2>1. f \in Seq(SentBytes') /\ x \in Seq(SentBytes')
    BY <1>3, FlattenType, ConcatProperties
  <2>2. f \o x = FlattenSeq(SentHere)
    BY <1>5 DEF Conserves
  <2>3. FlattenSeq(SentHere') = FlattenSeq(SentHere) \o pk
    BY <1>8, <1>9, <1>10, FlattenAppend
  <2>4. x \o pk = m_raw_buff \o (wire \o pk)
    BY <1>3, <1>9, SeqAssoc, SMTT(60)
  <2> HIDE DEF f, x
  <2>5. (f \o x) \o pk = f \o (x \o pk)
    BY <1>9, <2>1, SeqAssoc, SMTT(60)
  <2> QED
    BY <2>2, <2>3, <2>4, <2>5 DEF f
<1> QED
  BY <1>2, <1>11, <1>12 DEF Conserves

\* A connection that begins with an empty buffer begins with nothing to conserve.
LEMMA StreamConnected ==
    ASSUME StreamInv, Connected
    PROVE  StreamConserved'
<1>1. BuffInv /\ BuffInv'
  BY BuffConnected DEF StreamInv
<1>2. /\ ~ up /\ PrepareBuff(m_raw_buff, m_signed_len) /\ got' = <<>>
      /\ first' = Len(lens) /\ clean' = (m_raw_buff = <<>>) /\ lens' = lens /\ wire' = wire
  BY DEF Connected
<1>3. /\ wire = <<>> /\ m_raw_buff \in Seq(SentBytes) /\ Len(lens) \in Nat
      /\ m_signed_len # NoLen <=> Len(m_raw_buff) >= HeaderLen
  BY <1>1, <1>2 DEF BuffInv, Types, Measured
<1>4. SUFFICES ASSUME clean' PROVE Conserves(got, m_raw_buff, wire)'
  <2>1. StreamConserved' <=>
            (up' /\ clean' /\ Acceptable' => Conserves(got, m_raw_buff, wire)')
    BY <1>1, StreamForm, PTL
  <2> QED
    BY <2>1
<1>5. m_raw_buff = <<>> /\ m_signed_len = NoLen
  <2>1. m_raw_buff = <<>>
    BY <1>2, <1>4, Zenon
  <2> QED
    BY <2>1, <1>3, LengthsAssumption
<1>6. m_raw_buff' = <<>>
  BY <1>2, <1>5, PrepareEmpty
<1>7. SentHere' = <<>>
  <2>1. Len(lens') - first' = 0
    BY <1>2, <1>3
  <2> QED
    BY <2>1 DEF SentHere
<1>8. <<>> \o (<<>> \o <<>>) = <<>> /\ IsPrefix(<<>>, <<>>)
  BY DEF IsPrefix
<1> QED
  BY <1>2, <1>3, <1>6, <1>7, <1>8, FlattenEmpty DEF Conserves

LEMMA StreamElse ==
    ASSUME StreamInv, RecvNothing \/ Lose \/ Finished \/ UNCHANGED vars
    PROVE  StreamConserved'
<1>1. /\ lens' = lens /\ got' = got /\ first' = first /\ clean' = clean
      /\ m_raw_buff' = m_raw_buff
      /\ (up' = up /\ wire' = wire) \/ up' = FALSE
  BY DEF RecvNothing, Lose, Finished, vars, unpacker
<1>2. SentHere' = SentHere
  BY <1>1 DEF SentHere, Packet
<1>3. Acceptable' = Acceptable
  BY <1>1 DEF Acceptable, Said, TooMuch
<1> QED
  BY <1>1, <1>2, <1>3 DEF StreamInv, StreamConserved

LEMMA StreamStep == StreamInv /\ [Next]_vars => StreamInv'
<1> SUFFICES ASSUME StreamInv, [Next]_vars PROVE StreamInv'
  OBVIOUS
<1>1. BuffInv'
  BY BuffStep DEF StreamInv
<1>2. StreamConserved'
  BY StreamRecv, StreamSend, StreamConnected, StreamElse, Zenon DEF Next
<1> QED
  BY <1>1, <1>2 DEF StreamInv

\* On a connection that began with an empty buffer, what was handed up are the packets
\* the server sent, whole, in order and none twice, and every other byte is in the
\* buffer or on its way, however the stream is cut.
THEOREM StreamIsConserved == Spec => []StreamConserved
<1>1. Init => StreamInv
  <2>1. Init => StreamConserved
    BY DEF Init, StreamConserved
  <2> QED
    BY <2>1, BuffInit DEF StreamInv
<1>2. StreamInv => StreamConserved
  BY DEF StreamInv
<1> QED
  BY <1>1, <1>2, StreamStep, PTL DEF Spec

-----------------------------------------------------------------------------
(* The steps.                                                              *)

\* A packet that lies whole in the buffer has its length read.
LEMMA HeldIsWhole ==
    ASSUME BuffInv, Held
    PROVE  /\ m_signed_len # NoLen /\ IsHeader(m_raw_buff)
           /\ m_signed_len \in Nat
           /\ Len(m_raw_buff) >= HeaderLen + m_signed_len
<1>1. PICK p \in 1 .. Len(lens) : IsPrefix(Packet(p), m_raw_buff)
  BY DEF Held
<1>2. /\ lens[p] \in Nat /\ Packet(p) \in Seq(SentBytes) /\ Len(Packet(p)) = HeaderLen + lens[p]
      /\ HeaderLen \in 1 .. Len(Packet(p))
      /\ Packet(p)[HeaderLen] = [pack |-> p, off |-> HeaderLen - 1]
  BY PacketFacts
<1>3. m_raw_buff \in Seq(SentBytes) /\ Measured(m_raw_buff, m_signed_len)
  BY DEF BuffInv, Types
<1>4. /\ Len(Packet(p)) <= Len(m_raw_buff)
      /\ \A i \in 1 .. Len(Packet(p)) : Packet(p)[i] = m_raw_buff[i]
  BY <1>1, <1>2, <1>3, PrefixFacts
<1>5. m_raw_buff[HeaderLen] = [pack |-> p, off |-> HeaderLen - 1] /\ Len(m_raw_buff) >= HeaderLen
  <2>1. m_raw_buff[HeaderLen] = Packet(p)[HeaderLen]
    BY <1>2, <1>4
  <2>2. HeaderLen <= Len(Packet(p)) /\ Len(Packet(p)) \in Nat /\ Len(m_raw_buff) \in Nat
        /\ HeaderLen \in Nat
    BY <1>2, <1>3, LengthsAssumption
  <2> QED
    BY <1>2, <1>4, <2>1, <2>2
<1>6. m_signed_len # NoLen /\ IsHeader(m_raw_buff) /\ m_signed_len = Said(p)
  BY <1>3, <1>5 DEF Measured
<1>7. Said(p) \in Nat /\ Said(p) <= lens[p]
  BY SaidLength DEF BuffInv, Types
<1> QED
  BY <1>2, <1>3, <1>4, <1>6, <1>7, LengthsAssumption

\* A packet that lies whole in the buffer is handed up by the next read that returns,
\* and that read hands up no other.
THEOREM HeldIsHandedUp == Spec => HeldUntilNextRead
<1>1. BuffInv /\ [Next]_vars =>
          [Held /\ up' /\ m_raw_buff' # m_raw_buff => Len(got') = Len(got) + 1]_vars
  <2> SUFFICES ASSUME BuffInv, Next, Held, up', m_raw_buff' # m_raw_buff
               PROVE  Len(got') = Len(got) + 1
    OBVIOUS
  <2>1. up
    BY DEF Held
  <2>2. ~ (RecvNothing \/ Lose \/ Connected \/ Finished \/ \E len \in BodyLens : Send(len))
    BY <2>1 DEF RecvNothing, Lose, Connected, Finished, Send, vars, unpacker
  <2>3. PICK n \in 1 .. Room, g \in LensRead : Recv(n, g)
    BY <2>2, Zenon DEF Next
  <2>4. /\ m_signed_len # NoLen /\ IsHeader(m_raw_buff) /\ m_signed_len \in Nat
        /\ Len(m_raw_buff) >= HeaderLen + m_signed_len
    BY HeldIsWhole
  <2>5. n <= Len(wire)
    BY <2>3, RecvShape
  <2>6. /\ Len(Data(n)) = Len(m_raw_buff) + n /\ Data(n) \in Seq(SentBytes)
        /\ \A i \in 1 .. Len(m_raw_buff) : Data(n)[i] = m_raw_buff[i]
    BY <2>5, RecvFacts
  <2>7. m_raw_buff \in Seq(SentBytes) /\ got \in Seq(Seq(SentBytes)) /\ n \in Nat
    BY LengthsAssumption DEF BuffInv, Types
  <2>8. Whole(Data(n), m_signed_len)
    <3>1. 1 \in 1 .. Len(m_raw_buff) /\ 2 \in 1 .. Len(m_raw_buff)
      BY <2>4, <2>7, LengthsAssumption
    <3>2. IsHeader(Data(n))
      BY <2>4, <2>6, <3>1 DEF IsHeader
    <3>3. Len(Data(n)) >= HeaderLen + m_signed_len
      BY <2>4, <2>6, <2>7, LengthsAssumption
    <3> QED
      BY <2>4, <3>2, <3>3 DEF Whole
  <2>9. got' = Append(got, SubSeq(Data(n), 1, HeaderLen + m_signed_len))
    BY <2>3, <2>8, RecvShape
  <2> QED
    BY <2>7, <2>9
<1>2. Spec => [][Held /\ up' /\ m_raw_buff' # m_raw_buff => Len(got') = Len(got) + 1]_vars
  BY <1>1, BuffAlways, PTL DEF Spec
<1> QED
  BY <1>2 DEF HeldUntilNextRead

=============================================================================
