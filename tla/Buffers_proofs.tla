--------------------------- MODULE Buffers_proofs ---------------------------
(***************************************************************************)
(* Proofs about two buffers bytes go through.  The first part is about     *)
(* AsyncLog, for rings, polls and lines of every size.  TypeOK, RingHolds  *)
(* and BytesInOrder are inductive together: RingHolds says what Get will   *)
(* find, TypeOK that the flags tell a full ring from an empty one, and     *)
(* BytesInOrder what the writer did with it.                               *)
(*                                                                         *)
(* The second part is about InputStream: every frame reaches the script    *)
(* whole and in order, whatever the network cuts the bytes into.           *)
(***************************************************************************)
EXTENDS AsyncLog, InputStream, SequenceTheorems, WellFoundedInduction, TLAPS

IInv == TypeOK /\ RingHolds /\ BytesInOrder

\* An index stays inside the buffer, however far it goes around it.
LEMMA AdvancedInside ==
  ASSUME NEW index \in 0 .. Size - 1, NEW n \in 0 .. Size
  PROVE  Advanced(index, n) \in 0 .. Size - 1
BY LogAssumption DEF Advanced

\* Offset undoes Advanced, and Advanced undoes Offset.
LEMMA OffsetOfAdvanced ==
  ASSUME NEW index \in 0 .. Size - 1
  PROVE  /\ \A n \in 0 .. Size - 1 : Offset(index, Advanced(index, n)) = n
         /\ \A i \in 0 .. Size - 1 : Offset(index, i) \in 0 .. Size - 1
BY LogAssumption DEF Advanced, Offset

\* Going on from where one got to is going all the way at once.
LEMMA AdvancedTwice ==
  ASSUME NEW index \in 0 .. Size - 1, NEW m \in 0 .. Size, NEW n \in 0 .. Size, m + n <= Size
  PROVE  Advanced(Advanced(index, m), n) = Advanced(index, m + n)
BY LogAssumption DEF Advanced

\* Two ways that are not longer than once around end in two places.
LEMMA AdvancedInjective ==
  ASSUME NEW index \in 0 .. Size - 1, NEW m \in 1 .. Size, NEW n \in 1 .. Size,
         Advanced(index, m) = Advanced(index, n)
  PROVE  m = n
BY LogAssumption DEF Advanced

\* The way that is left of n when m of it has been gone.
LEMMA AdvancedRest ==
  ASSUME NEW index \in 0 .. Size - 1, NEW n \in 0 .. Size, NEW m \in 1 .. n - 1,
         NEW rest \in 1 .. Size - 1,
         Advanced(Advanced(index, m), rest) = Advanced(index, n)
  PROVE  rest = n - m
BY LogAssumption DEF Advanced

\* What elog_async_get_buf_used returns, and where the bytes in use end.
UsedBounds ==
  /\ Used \in 0 .. Size
  /\ write_index = Advanced(read_index, Used)
  /\ Used = 0 <=> buf_is_empty
  /\ Used = Size <=> buf_is_full

LEMMA UsedIsBounded == TypeOK => UsedBounds
BY LogAssumption DEF TypeOK, UsedBounds, Used, Advanced

LEMMA UsedIsBoundedNext == TypeOK' => UsedBounds'
BY UsedIsBounded, PTL

LEMMA InitIInv == Init => IInv
<1> SUFFICES ASSUME Init PROVE IInv
  OBVIOUS
<1>1. TypeOK
  <2>1. ring \in [0 .. Size - 1 -> Nat] /\ poll_get_buf \in [1 .. PollSize -> Nat]
    BY DEF Init
  <2>2. 0 \in 0 .. Size - 1 /\ 0 \in 0 .. PollSize
    BY LogAssumption
  <2> QED
    BY <2>1, <2>2 DEF Init, TypeOK
<1>2. Used = 0
  BY DEF Init, Used
<1>3. RingHolds /\ BytesInOrder
  BY <1>2 DEF Init, RingHolds, BytesInOrder
<1> QED
  BY <1>1, <1>3 DEF IInv

\* Log puts its bytes behind those in the ring and overwrites none of them.
LEMMA LogStep ==
  ASSUME IInv, NEW t \in Loggers, NEW n \in Lengths, Log(t, n)
  PROVE  IInv'
<1> DEFINE m == IF Space <= n THEN Space ELSE n
<1>i. TypeOK /\ RingHolds /\ BytesInOrder
  BY DEF IInv
<1>a. /\ n \in Nat \ {0}
      /\ Size \in Nat \ {0} /\ PollSize \in Nat \ {0}
  BY LogAssumption
<1>t. /\ write_index \in 0 .. Size - 1 /\ read_index \in 0 .. Size - 1
      /\ ring \in [0 .. Size - 1 -> Nat] /\ put \in Nat /\ got \in Nat
      /\ buf_is_full \in BOOLEAN /\ buf_is_empty \in BOOLEAN
  BY <1>i DEF TypeOK
<1>b. /\ Used \in 0 .. Size
      /\ write_index = Advanced(read_index, Used)
      /\ Used = 0 <=> buf_is_empty
      /\ Used = Size <=> buf_is_full
  BY <1>i, UsedIsBounded DEF UsedBounds
<1>u. /\ Space > 0
      /\ ring' = [i \in 0 .. Size - 1 |->
                    IF Offset(write_index, i) < m
                    THEN put + 1 + Offset(write_index, i) ELSE ring[i]]
      /\ write_index' = Advanced(write_index, m)
      /\ put' = put + m
      /\ buf_is_full' = (buf_is_full \/ Space <= n)
      /\ buf_is_empty' = FALSE
      /\ logging' = t
      /\ UNCHANGED <<read_index, notice, pc, polled, poll_get_buf, got, written>>
  BY DEF Log
<1>m. /\ m \in 1 .. Size - Used
      /\ m = Size - Used <=> Space <= n
  BY <1>a, <1>b, <1>u DEF Space
<1>f. ~buf_is_full
  BY <1>a, <1>b, <1>m
<1>v. /\ read_index' = read_index /\ got' = got
      /\ ~buf_is_empty'
      /\ buf_is_full' <=> Space <= n
  BY <1>f, <1>u, Zenon
<1> HIDE DEF m
<1>w. write_index' = Advanced(read_index, Used + m)
  <2>1. m \in 0 .. Size /\ Used + m <= Size
    BY <1>a, <1>b, <1>m
  <2>2. Advanced(Advanced(read_index, Used), m) = Advanced(read_index, Used + m)
    BY <1>b, <1>t, <2>1, AdvancedTwice
  <2> QED
    BY <1>b, <1>u, <2>2
<1>1. ring' \in [0 .. Size - 1 -> Nat]
  <2>1. ASSUME NEW i \in 0 .. Size - 1
        PROVE  (IF Offset(write_index, i) < m
                THEN put + 1 + Offset(write_index, i) ELSE ring[i]) \in Nat
    <3>1. Offset(write_index, i) \in Nat
      BY <1>t, OffsetOfAdvanced
    <3> QED
      BY <3>1, <1>t
  <2> QED
    BY <1>u, <2>1
<1>2. TypeOK'
  <2>1. write_index' \in 0 .. Size - 1
    BY <1>a, <1>w, <1>t, <1>m, <1>b, AdvancedInside
  <2>2. buf_is_full' <=> m = Size - Used
    BY <1>f, <1>m, <1>u
  <2>3. write_index' = read_index <=> m = Size - Used
    BY <1>a, <1>t, <1>w, <1>m, <1>b DEF Advanced
  <2>4. put' \in Nat
    BY <1>t, <1>u, <1>m
  <2> QED
    BY <1>i, <1>u, <1>1, <2>1, <2>2, <2>3, <2>4 DEF TypeOK
<1>3. Used' = Used + m
  <2>1. /\ Used' \in 0 .. Size
        /\ write_index' = Advanced(read_index, Used')
        /\ Used' # 0
        /\ Used' = Size <=> buf_is_full'
    BY <1>2, <1>v, UsedIsBoundedNext DEF UsedBounds, Advanced
  <2>2. buf_is_full' <=> Used + m = Size
    BY <1>a, <1>m, <1>v, <1>b
  <2>3. Advanced(read_index, Used') = Advanced(read_index, Used + m)
    BY <2>1, <1>w
  <2>4. Used' \in 1 .. Size /\ Used + m \in 1 .. Size
    BY <2>1, <1>m, <1>b, <1>a
  <2> QED
    BY <2>3, <2>4, <1>t, AdvancedInjective
<1>4. RingHolds'
  <2>1. put' = got' + Used'
    BY <1>i, <1>u, <1>3, <1>t, <1>b, <1>m DEF RingHolds
  <2>2. ASSUME NEW i \in 0 .. Used' - 1
        PROVE  ring'[Advanced(read_index, i)] = got + 1 + i
    <3>1. i \in 0 .. Used + m - 1 /\ i \in 0 .. Size - 1 /\ i \in 0 .. Size
      BY <1>3, <1>m, <1>b, <1>a
    <3>a. Advanced(read_index, i) \in 0 .. Size - 1
      BY <3>1, <1>t, AdvancedInside
    <3>2. CASE i < Used
      <4>1. ring[Advanced(read_index, i)] = got + 1 + i
        BY <1>i, <3>1, <3>2, <1>b DEF RingHolds
      <4>2. ~(Offset(write_index, Advanced(read_index, i)) < m)
        BY <1>a, <1>t, <1>b, <1>m, <3>1, <3>2 DEF Advanced, Offset
      <4> QED
        BY <1>u, <3>a, <4>1, <4>2
    <3>3. CASE i >= Used
      <4>1. i - Used \in 0 .. m - 1 /\ i - Used \in 0 .. Size - 1
        BY <3>1, <3>3, <1>b, <1>m, <1>a
      <4>2. Advanced(read_index, i) = Advanced(write_index, i - Used)
        BY <1>b, <1>t, <1>a, <4>1, <3>1, AdvancedTwice
      <4>3. Offset(write_index, Advanced(read_index, i)) = i - Used
        BY <4>1, <4>2, <1>t, OffsetOfAdvanced
      <4>4. ring'[Advanced(read_index, i)] = put + 1 + (i - Used)
        BY <1>u, <3>a, <4>1, <4>3, <1>m
      <4>5. put = got + Used
        BY <1>i DEF RingHolds
      <4> QED
        BY <4>4, <4>5, <1>t, <1>b, <3>1
    <3> QED
      BY <3>1, <3>2, <3>3, <1>b
  <2> QED
    BY <2>1, <2>2, <1>u DEF RingHolds, Advanced
<1>5. BytesInOrder'
  BY <1>i, <1>u DEF BytesInOrder
<1> QED
  BY <1>2, <1>4, <1>5 DEF IInv

\* Get takes the oldest bytes out of the ring, and leaves the others in it.
LEMMA GetStep ==
  ASSUME IInv, Get
  PROVE  IInv'
<1> DEFINE m == IF Used <= PollSize THEN Used ELSE PollSize
<1>i. TypeOK /\ RingHolds /\ BytesInOrder
  BY DEF IInv
<1>a. Size \in Nat \ {0} /\ PollSize \in Nat \ {0}
  BY LogAssumption
<1>t. /\ write_index \in 0 .. Size - 1 /\ read_index \in 0 .. Size - 1
      /\ ring \in [0 .. Size - 1 -> Nat] /\ put \in Nat /\ got \in Nat /\ written \in Nat
      /\ buf_is_full \in BOOLEAN /\ buf_is_empty \in BOOLEAN
      /\ poll_get_buf \in [1 .. PollSize -> Nat]
  BY <1>i DEF TypeOK
<1>b. /\ Used \in 0 .. Size
      /\ write_index = Advanced(read_index, Used)
      /\ Used = 0 <=> buf_is_empty
      /\ Used = Size <=> buf_is_full
  BY <1>i, UsedIsBounded DEF UsedBounds
<1>u. /\ Used > 0 /\ pc = "get"
      /\ poll_get_buf' = [i \in 1 .. PollSize |->
                            IF i <= m THEN ring[Advanced(read_index, i - 1)] ELSE poll_get_buf[i]]
      /\ polled' = m
      /\ read_index' = Advanced(read_index, m)
      /\ got' = got + m
      /\ buf_is_empty' = (buf_is_empty \/ Used <= PollSize)
      /\ buf_is_full' = FALSE
      /\ pc' = "write"
      /\ UNCHANGED <<ring, write_index, notice, logging, put, written>>
  BY DEF Get
<1>m. /\ m \in 1 .. Used /\ m \in 1 .. PollSize
      /\ m = Used <=> Used <= PollSize
  BY <1>a, <1>b, <1>u
<1>v. /\ write_index' = write_index /\ read_index' = Advanced(read_index, m) /\ got' = got + m
      /\ buf_is_empty' <=> m = Used
      /\ ~buf_is_full'
  <2>1. buf_is_empty' <=> buf_is_empty \/ Used <= PollSize
    BY <1>u, Zenon
  <2>2. ~buf_is_empty
    BY <1>b, <1>u
  <2>3. ~buf_is_full' /\ write_index' = write_index /\ read_index' = Advanced(read_index, m) /\ got' = got + m
    BY <1>u, Zenon
  <2> QED
    BY <2>1, <2>2, <2>3, <1>m
<1> HIDE DEF m
<1>1. ASSUME NEW i \in 1 .. m
      PROVE  /\ Advanced(read_index, i - 1) \in 0 .. Size - 1
             /\ ring[Advanced(read_index, i - 1)] = got + i
  <2>1. i - 1 \in 0 .. Used - 1 /\ i - 1 \in 0 .. Size
    BY <1>m, <1>b, <1>a
  <2>2. ring[Advanced(read_index, i - 1)] = got + 1 + (i - 1)
    BY <1>i, <2>1 DEF RingHolds
  <2> QED
    BY <2>1, <2>2, <1>t, <1>m, AdvancedInside
<1>2. TypeOK'
  <2>1. read_index' \in 0 .. Size - 1
    <3>1. m \in 0 .. Size
      BY <1>a, <1>m, <1>b
    <3> QED
      BY <3>1, <1>t, <1>v, AdvancedInside
  <2>2. poll_get_buf' \in [1 .. PollSize -> Nat]
    <3>1. ASSUME NEW i \in 1 .. PollSize
          PROVE  (IF i <= m THEN ring[Advanced(read_index, i - 1)] ELSE poll_get_buf[i]) \in Nat
      BY <1>1, <1>t, <1>m
    <3> QED
      BY <1>u, <3>1
  <2>3. buf_is_empty' <=> m = Used
    BY <1>v
  <2>4. read_index' = write_index <=> m = Used
    <3>1. m \in 1 .. Size /\ Used \in 1 .. Size
      BY <1>a, <1>m, <1>b
    <3> QED
      BY <3>1, <1>t, <1>u, <1>b, AdvancedInjective
  <2>5. got' \in Nat /\ polled' \in 0 .. PollSize
    BY <1>t, <1>u, <1>m
  <2> QED
    BY <1>i, <1>u, <2>1, <2>2, <2>3, <2>4, <2>5 DEF TypeOK
<1>3. Used' = Used - m
  <2>1. /\ Used' \in 0 .. Size
        /\ write_index = Advanced(read_index', Used')
        /\ Used' = 0 <=> buf_is_empty'
        /\ Used' # Size
    BY <1>2, <1>v, <1>a, UsedIsBoundedNext DEF UsedBounds, Advanced
  <2>2. buf_is_empty' <=> m = Used
    BY <1>v
  <2> QED
    <3>1. CASE m = Used
      BY <3>1, <2>1, <2>2, <1>m, <1>b
    <3>2. CASE m # Used
      <4>1. /\ m \in 0 .. Size /\ Used' \in 1 .. Size - 1 /\ m \in 1 .. Used - 1
        BY <3>2, <2>1, <2>2, <1>m, <1>b, <1>a
      <4>2. Advanced(Advanced(read_index, m), Used') = Advanced(read_index, Used)
        BY <2>1, <1>b, <1>u
      <4> QED
        BY <4>1, <4>2, <1>t, <1>b, AdvancedRest
    <3> QED
      BY <3>1, <3>2
<1>4. RingHolds'
  <2>1. put' = got' + Used'
    BY <1>i, <1>u, <1>3, <1>t, <1>b, <1>m DEF RingHolds
  <2>2. ASSUME NEW i \in 0 .. Used' - 1
        PROVE  ring[Advanced(read_index', i)] = got' + 1 + i
    <3>1. m + i \in 0 .. Used - 1 /\ i \in 0 .. Size /\ m \in 0 .. Size /\ m + i <= Size
      BY <1>3, <1>m, <1>b, <1>a
    <3>2. Advanced(read_index', i) = Advanced(read_index, m + i)
      BY <1>u, <1>t, <3>1, AdvancedTwice
    <3>3. ring[Advanced(read_index, m + i)] = got + 1 + (m + i)
      BY <1>i, <3>1 DEF RingHolds
    <3> QED
      BY <3>1, <3>2, <3>3, <1>u, <1>t, <1>m
  <2> QED
    BY <2>1, <2>2, <1>u DEF RingHolds, Advanced
<1>5. BytesInOrder'
  <2>1. written = got
    BY <1>i, <1>u, <1>t DEF BytesInOrder
  <2>2. \A i \in 1 .. m : poll_get_buf'[i] = written + i
    BY <2>1, <1>1, <1>u, <1>m, <1>a
  <2> QED
    BY <2>1, <2>2, <1>u DEF BytesInOrder
<1> QED
  BY <1>2, <1>4, <1>5 DEF IInv

LEMMA NextIInv == IInv /\ [Next]_vars => IInv'
<1> SUFFICES ASSUME IInv, [Next]_vars PROVE IInv'
  OBVIOUS
<1>i. TypeOK /\ RingHolds /\ BytesInOrder
  BY DEF IInv
<1>1. ASSUME NEW t \in Loggers, NEW n \in Lengths, Log(t, n) PROVE IInv'
  BY <1>1, LogStep
<1>2. CASE Notice
  BY <1>2, <1>i DEF IInv, Notice, TypeOK, RingHolds, BytesInOrder, Used, Advanced, flags
<1>3. CASE Wait
  BY <1>3, <1>i DEF IInv, Wait, TypeOK, RingHolds, BytesInOrder, Used, Advanced, flags
<1>4. CASE Get
  BY <1>4, GetStep
<1>5. CASE GetNothing
  BY <1>5, <1>i DEF IInv, GetNothing, TypeOK, RingHolds, BytesInOrder, Used, Advanced, flags
<1>6. CASE Write
  BY <1>6, <1>i, LogAssumption
  DEF IInv, Write, TypeOK, RingHolds, BytesInOrder, Used, Advanced, flags
<1>7. CASE UNCHANGED vars
  BY <1>7, <1>i DEF IInv, vars, flags, TypeOK, RingHolds, BytesInOrder, Used, Advanced
<1> QED
  BY <1>1, <1>2, <1>3, <1>4, <1>5, <1>6, <1>7 DEF Next, WriterStep

\* For every size of the ring, of the polls and of the lines, the three
\* invariants of the log hold.
THEOREM LogInvariant == Spec => []IInv
<1>1. Init => IInv
  BY InitIInv
<1>2. IInv /\ [Next]_vars => IInv'
  BY NextIInv
<1> QED
  BY <1>1, <1>2, PTL DEF Spec

\* The indices stay inside the buffer and the flags are right. (async_put_log,
\* elog_async_get_log)
THEOREM LogTypeOK == Spec => []TypeOK
<1>1. IInv => TypeOK
  BY DEF IInv
<1> QED
  BY <1>1, LogInvariant, PTL

\* The ring holds what went in and has not come out, in order.
THEOREM LogRingHolds == Spec => []RingHolds
<1>1. IInv => RingHolds
  BY DEF IInv
<1> QED
  BY <1>1, LogInvariant, PTL

\* The writer writes the bytes in the order in which they were logged, without
\* loss and without repetition.
THEOREM LogBytesInOrder == Spec => []BytesInOrder
<1>1. IInv => BytesInOrder
  BY DEF IInv
<1> QED
  BY <1>1, LogInvariant, PTL

-----------------------------------------------------------------------------
(* InputStream *)

\* The bytes the receiver has not looked at for the last time, in its buffer and
\* on their way to it.
Total == Unread + Len(wire)
Ahead(i) == IF i <= Unread THEN At(i) ELSE wire[i - Unread]

\* A frame with this payload is there behind p bytes.
FrameEnd(p, payload) == p + HeadSize + Len(payload)

HoldsFrame(p, payload) ==
  /\ HasBaseType(Ahead(p + 1)) /\ Ahead(p + HeadSize) = Len(payload)
  /\ \A i \in 1 .. Len(payload) : Ahead(p + HeadSize + i) = payload[i]

Undelivered == Len(delivered) + 1 .. Len(sent)

\* The frames that have not been delivered are there behind as many bytes as at
\* says, one behind the other, and elsewhere nothing looks like a head.
LaidOut(at) ==
  /\ \A j \in Undelivered : FrameEnd(at[j], sent[j]) <= Total /\ HoldsFrame(at[j], sent[j])
  /\ \A i, j \in Undelivered : i < j => FrameEnd(at[i], sent[i]) <= at[j]
  /\ \A p \in 1 .. Total : HasBaseType(Ahead(p)) =>
       \E j \in Undelivered : at[j] < p /\ p <= FrameEnd(at[j], sent[j])

Offsets == [1 .. MaxFrames -> Nat]

\* What has been delivered, and what is still to come.
Streamed ==
  /\ Len(delivered) <= Len(sent) /\ Len(sent) <= MaxFrames
  /\ \A j \in 1 .. Len(delivered) : delivered[j] = sent[j]
  /\ \E at \in Offsets : LaidOut(at)

\* The analysis stops for want of bytes only.
StoppedShort ==
  ~reading => Unread < HeadSize \/ (IsMagic(At(1)) /\ Unread < PackageSize)

InputIInv == InputTypeOK /\ StoppedShort /\ (~dropped => Streamed)

LEMMA HeadIsMagic == \A b \in Byte : IsMagic(b) => HasBaseType(b)
BY DEF Byte, IsMagic, HasBaseType, CDE, CROSS_DOMAIN

LEMMA TotalIs ==
  ASSUME InputTypeOK
  PROVE  /\ Unread \in Nat /\ Len(wire) \in Nat /\ Total \in Nat
         /\ \A i \in 1 .. Total : Ahead(i) \in Byte
<1>1. buff \in Seq(Byte) /\ wire \in Seq(Byte) /\ rtag \in 0 .. Len(buff)
  BY DEF InputTypeOK
<1>2. Unread \in Nat /\ Len(wire) \in Nat /\ Total \in Nat
  BY <1>1 DEF Unread, Total
<1>3. ASSUME NEW i \in 1 .. Total PROVE Ahead(i) \in Byte
  <2>1. CASE i <= Unread
    <3>1. rtag + i \in 1 .. Len(buff)
      BY <1>1, <2>1 DEF Unread
    <3>. QED BY <1>1, <2>1, <3>1 DEF Ahead, At
  <2>2. CASE ~(i <= Unread)
    <3>1. i - Unread \in 1 .. Len(wire)
      BY <1>2, <2>2 DEF Total
    <3>. QED BY <1>1, <2>2, <3>1 DEF Ahead
  <2>. QED BY <2>1, <2>2
<1>. QED BY <1>2, <1>3

\* A frame that is there lies within the bytes that are.
LEMMA FrameWithin ==
  ASSUME InputTypeOK, Len(sent) <= MaxFrames, NEW at \in Offsets, LaidOut(at), NEW j \in Undelivered
  PROVE  /\ j \in 1 .. Len(sent) /\ at[j] \in Nat /\ sent[j] \in Seq(Byte) /\ Len(sent[j]) \in Byte
         /\ FrameEnd(at[j], sent[j]) \in Nat /\ FrameEnd(at[j], sent[j]) <= Total
         /\ at[j] + HeadSize <= FrameEnd(at[j], sent[j]) /\ at[j] + 1 \in 1 .. Total
         /\ at[j] + HeadSize \in 1 .. Total
<1>1. sent \in Seq(Payloads) /\ Len(delivered) \in Nat
  BY DEF InputTypeOK
<1>2. j \in 1 .. Len(sent) /\ j \in 1 .. MaxFrames
  BY <1>1, StreamAssumption DEF Undelivered
<1>3. sent[j] \in Seq(Byte) /\ Len(sent[j]) \in Byte /\ Len(sent[j]) \in Nat
  BY <1>1, <1>2, StreamAssumption DEF Byte
<1>4. at[j] \in Nat
  BY <1>2 DEF Offsets
<1>5. FrameEnd(at[j], sent[j]) <= Total
  BY DEF LaidOut
<1>6. HeadSize \in Nat /\ HeadSize >= 2 /\ Total \in Nat
  BY StreamAssumption, TotalIs
<1>7. FrameEnd(at[j], sent[j]) \in Nat /\ at[j] + HeadSize <= FrameEnd(at[j], sent[j])
  BY <1>3, <1>4, <1>6 DEF FrameEnd
<1>8. at[j] + 1 \in 1 .. Total /\ at[j] + HeadSize \in 1 .. Total
  BY <1>4, <1>5, <1>6, <1>7
<1>. QED BY <1>2, <1>3, <1>4, <1>5, <1>7, <1>8

\* Places in a frame behind a bytes that moves up by n.
LEMMA PlaceMoves ==
  ASSUME NEW a \in Nat, NEW n \in Nat, NEW t \in Nat, NEW h \in Nat, NEW l \in Nat,
         NEW i \in 1 .. h + l, a - n \in Nat, a + h + l <= t
  PROVE  (a - n) + i \in 1 .. t - n /\ n + ((a - n) + i) = a + i
  OBVIOUS

LEMMA PlacesInFrame ==
  ASSUME NEW h \in Nat, h >= 2, NEW l \in Nat
  PROVE  /\ 1 \in 1 .. h + l /\ h \in 1 .. h + l
         /\ \A i \in 1 .. l : h + i \in 1 .. h + l
         /\ \A a \in Nat, i \in 1 .. l : a + (h + i) = a + h + i
  OBVIOUS

\* The receiver is done with the first n bytes.
LEMMA LookedAt ==
  ASSUME InputTypeOK, Len(sent) <= MaxFrames, NEW at \in Offsets, LaidOut(at),
         NEW n \in Nat, n <= Total, Total' = Total - n,
         \A i \in 1 .. Total - n : Ahead(i)' = Ahead(n + i),
         sent' = sent, Len(delivered') \in Nat, Len(delivered') >= Len(delivered),
         \A j \in Undelivered' : at[j] >= n,
         \A j \in Undelivered : j \notin Undelivered' => FrameEnd(at[j], sent[j]) <= n
  PROVE  \E at2 \in Offsets : LaidOut(at2)'
<1>1. sent \in Seq(Payloads) /\ Len(delivered) \in Nat /\ Total \in Nat
  BY TotalIs DEF InputTypeOK
<1>2. HeadSize \in Nat /\ HeadSize >= 2 /\ MaxFrames \in Nat
  BY StreamAssumption
<1>3. \A j \in Undelivered' : j \in Undelivered
  BY <1>1 DEF Undelivered
<1>4. PICK at2 \in Offsets : \A j \in Undelivered' : at2[j] = at[j] - n
  <2> DEFINE a == [j \in 1 .. MaxFrames |-> IF j \in Undelivered' THEN at[j] - n ELSE 0]
  <2>1. \A j \in Undelivered' : j \in 1 .. MaxFrames /\ at[j] \in Nat /\ at[j] - n \in Nat
    <3> SUFFICES ASSUME NEW j \in Undelivered'
                 PROVE  j \in 1 .. MaxFrames /\ at[j] \in Nat /\ at[j] - n \in Nat
      OBVIOUS
    <3>1. j \in 1 .. Len(sent) /\ at[j] \in Nat
      BY <1>3, FrameWithin
    <3>. QED BY <1>1, <1>2, <3>1
  <2>2. a \in Offsets
    BY <2>1 DEF Offsets
  <2>3. \A j \in Undelivered' : a[j] = at[j] - n
    BY <2>1
  <2>. QED BY <2>2, <2>3
<1>5. ASSUME NEW j \in Undelivered'
      PROVE  /\ j \in Undelivered /\ at[j] \in Nat /\ at[j] - n \in Nat /\ at2[j] = at[j] - n
             /\ FrameEnd(at2[j], sent[j]) = FrameEnd(at[j], sent[j]) - n
             /\ FrameEnd(at[j], sent[j]) \in Nat /\ Len(sent[j]) \in Nat
  <2>1. j \in Undelivered /\ at[j] >= n /\ at2[j] = at[j] - n
    BY <1>3, <1>4
  <2>2. at[j] \in Nat /\ Len(sent[j]) \in Nat /\ FrameEnd(at[j], sent[j]) \in Nat
    BY <2>1, FrameWithin DEF Byte
  <2>3. at[j] - n \in Nat
    BY <2>1, <2>2
  <2>4. FrameEnd(at2[j], sent[j]) = FrameEnd(at[j], sent[j]) - n
    <3>1. (at[j] - n) + HeadSize + Len(sent[j]) = (at[j] + HeadSize + Len(sent[j])) - n
      BY <1>2, <2>2
    <3>. QED BY <2>1, <3>1 DEF FrameEnd
  <2>. QED BY <2>1, <2>2, <2>3, <2>4
<1>6. ASSUME NEW j \in Undelivered'
      PROVE  FrameEnd(at2[j], sent'[j]) <= Total' /\ HoldsFrame(at2[j], sent[j])'
  <2>1. /\ at[j] \in Nat /\ at[j] - n \in Nat /\ at2[j] = at[j] - n
        /\ FrameEnd(at2[j], sent[j]) = FrameEnd(at[j], sent[j]) - n /\ FrameEnd(at[j], sent[j]) \in Nat
        /\ Len(sent[j]) \in Nat
    BY <1>5
  <2>2. FrameEnd(at[j], sent[j]) <= Total /\ HoldsFrame(at[j], sent[j])
    BY <1>5 DEF LaidOut
  <2>3. FrameEnd(at2[j], sent'[j]) <= Total'
    BY <1>1, <2>1, <2>2
  <2>4. \A i \in 1 .. HeadSize + Len(sent[j]) :
          at2[j] + i \in 1 .. Total - n /\ n + (at2[j] + i) = at[j] + i
    <3> SUFFICES ASSUME NEW i \in 1 .. HeadSize + Len(sent[j])
                 PROVE  at2[j] + i \in 1 .. Total - n /\ n + (at2[j] + i) = at[j] + i
      OBVIOUS
    <3> DEFINE a == at[j]
               l == Len(sent[j])
               t == Total
    <3>1. a + HeadSize + l <= t
      BY <2>2 DEF FrameEnd
    <3>2. /\ a \in Nat /\ a - n \in Nat /\ l \in Nat /\ t \in Nat /\ HeadSize \in Nat
          /\ i \in 1 .. HeadSize + l
      BY <1>1, <1>2, <2>1
    <3>. HIDE DEF a, l, t
    <3>3. (a - n) + i \in 1 .. t - n /\ n + ((a - n) + i) = a + i
      BY <3>1, <3>2, PlaceMoves
    <3>. QED BY <2>1, <3>3 DEF a, t
  <2>5. \A i \in 1 .. HeadSize + Len(sent[j]) : Ahead(at2[j] + i)' = Ahead(at[j] + i)
    BY <2>4
  <2>6. 1 \in 1 .. HeadSize + Len(sent[j]) /\ HeadSize \in 1 .. HeadSize + Len(sent[j])
        /\ \A i \in 1 .. Len(sent[j]) : HeadSize + i \in 1 .. HeadSize + Len(sent[j])
    BY <1>2, <2>1, PlacesInFrame
  <2>7. \A i \in 1 .. Len(sent[j]) : /\ at2[j] + (HeadSize + i) = at2[j] + HeadSize + i
                                     /\ at[j] + (HeadSize + i) = at[j] + HeadSize + i
    <3>1. at2[j] \in Nat /\ at[j] \in Nat /\ Len(sent[j]) \in Nat
      BY <2>1
    <3>. QED BY <1>2, <3>1, PlacesInFrame
  <2>8. \A i \in 1 .. Len(sent[j]) : Ahead(at2[j] + HeadSize + i)' = Ahead(at[j] + HeadSize + i)
    BY <2>5, <2>6, <2>7
  <2>9. /\ Ahead(at2[j] + 1)' = Ahead(at[j] + 1)
        /\ Ahead(at2[j] + HeadSize)' = Ahead(at[j] + HeadSize)
    BY <2>5, <2>6
  <2>10. HoldsFrame(at2[j], sent[j])'
    BY <2>2, <2>8, <2>9 DEF HoldsFrame, HasBaseType, IsMagic
  <2>. QED BY <2>3, <2>10
<1>7. ASSUME NEW i \in Undelivered', NEW j \in Undelivered', i < j
      PROVE  FrameEnd(at2[i], sent'[i]) <= at2[j]
  <2>1. FrameEnd(at[i], sent[i]) <= at[j]
    BY <1>3, <1>7 DEF LaidOut
  <2>2. FrameEnd(at2[i], sent[i]) = FrameEnd(at[i], sent[i]) - n /\ FrameEnd(at[i], sent[i]) \in Nat
    BY <1>5
  <2>3. at2[j] = at[j] - n /\ at[j] \in Nat
    BY <1>5
  <2>. QED BY <2>1, <2>2, <2>3
<1>8. ASSUME NEW p \in 1 .. Total', HasBaseType(Ahead(p))'
      PROVE  \E j \in Undelivered' : at2[j] < p /\ p <= FrameEnd(at2[j], sent'[j])
  <2>1. p \in Nat /\ p > 0 /\ n + p \in 1 .. Total /\ HasBaseType(Ahead(n + p))
    <3>1. p \in 1 .. Total - n
      OBVIOUS
    <3>2. Ahead(p)' = Ahead(n + p)
      BY <3>1
    <3>3. HasBaseType(Ahead(n + p))
      BY <1>8, <3>2 DEF HasBaseType, IsMagic
    <3>. QED BY <1>1, <3>1, <3>3
  <2>2. PICK j \in Undelivered : at[j] < n + p /\ n + p <= FrameEnd(at[j], sent[j])
    BY <2>1 DEF LaidOut
  <2>3. FrameEnd(at[j], sent[j]) \in Nat /\ at[j] \in Nat
    BY FrameWithin
  <2>4. j \in Undelivered'
    <3>1. ~(FrameEnd(at[j], sent[j]) <= n)
      BY <2>1, <2>2, <2>3
    <3>. QED BY <3>1
  <2>5. at2[j] < p /\ p <= FrameEnd(at2[j], sent'[j])
    <3>1. at2[j] = at[j] - n /\ FrameEnd(at2[j], sent[j]) = FrameEnd(at[j], sent[j]) - n
      BY <1>5, <2>4
    <3>2. at[j] - n < p /\ p <= FrameEnd(at[j], sent[j]) - n
      BY <2>1, <2>2, <2>3
    <3>. QED BY <3>1, <3>2
  <2>. QED BY <2>4, <2>5
<1>9. LaidOut(at2)'
  BY <1>6, <1>7, <1>8 DEF LaidOut
<1>. QED BY <1>9

LEMMA InputAtTheStart == InputInit => InputIInv
<1> SUFFICES ASSUME InputInit PROVE InputIInv
  OBVIOUS
<1>1. /\ wire = << >> /\ noise = 0 /\ buff = << >> /\ rtag = 0 /\ reading = FALSE
      /\ sent = << >> /\ delivered = << >> /\ dropped = FALSE
  BY DEF InputInit
<1>2. /\ HeadSize \in Nat /\ HeadSize >= 2 /\ Capacity \in Nat /\ MaxFrames \in Nat /\ MaxNoise \in Nat
  BY StreamAssumption
<1>3. InputTypeOK
  <2>1. << >> \in Seq(Byte) /\ << >> \in Seq(Payloads) /\ << >> \in Seq(Seq(Byte)) /\ Len(<< >>) = 0
    OBVIOUS
  <2>2. 0 \in 0 .. MaxNoise /\ 0 <= Capacity /\ 0 \in 0 .. 0
    BY <1>2
  <2>. QED BY <1>1, <2>1, <2>2 DEF InputTypeOK
<1>4. Unread = 0 /\ Total = 0
  BY <1>1 DEF Unread, Total
<1>5. StoppedShort
  BY <1>2, <1>4 DEF StoppedShort
<1>6. Streamed
  <2> DEFINE at == [j \in 1 .. MaxFrames |-> 0]
  <2>1. at \in Offsets
    BY DEF Offsets
  <2>2. Undelivered = {}
    BY <1>1 DEF Undelivered
  <2>3. LaidOut(at)
    BY <1>4, <2>2 DEF LaidOut
  <2>. QED BY <1>1, <1>2, <2>1, <2>3 DEF Streamed
<1>. QED BY <1>3, <1>5, <1>6 DEF InputIInv

\* The peer sends bytes behind those that are there.
LEMMA PeerAhead ==
  ASSUME InputTypeOK, NEW x \in Seq(Byte), wire' = wire \o x, UNCHANGED <<buff, rtag>>
  PROVE  /\ wire' \in Seq(Byte) /\ Unread' = Unread /\ Total' = Total + Len(x)
         /\ \A i \in 1 .. Total : Ahead(i)' = Ahead(i)
         /\ \A i \in 1 .. Total + Len(x) : i > Total => Ahead(i)' = x[i - Total]
<1>1. wire \in Seq(Byte) /\ Len(wire) \in Nat /\ Unread \in Nat /\ Total = Unread + Len(wire)
  BY TotalIs DEF InputTypeOK, Total
<1>2. /\ wire \o x \in Seq(Byte) /\ Len(wire \o x) = Len(wire) + Len(x)
      /\ \A i \in 1 .. Len(wire) + Len(x) :
           (wire \o x)[i] = IF i <= Len(wire) THEN wire[i] ELSE x[i - Len(wire)]
  BY <1>1, ConcatProperties
<1>3. Len(x) \in Nat
  OBVIOUS
<1>4. Unread' = Unread /\ \A i : At(i)' = At(i)
  BY DEF Unread, At
<1>5. Total' = Total + Len(x)
  BY <1>1, <1>2, <1>3, <1>4 DEF Total
<1>6. ASSUME NEW i \in 1 .. Total PROVE Ahead(i)' = Ahead(i)
  <2>1. CASE i <= Unread
    BY <1>4, <2>1 DEF Ahead
  <2>2. CASE ~(i <= Unread)
    <3>1. i - Unread \in 1 .. Len(wire) + Len(x) /\ i - Unread <= Len(wire)
      BY <1>1, <1>3, <2>2
    <3>2. wire'[i - Unread] = wire[i - Unread]
      BY <1>2, <3>1
    <3>. QED BY <1>4, <2>2, <3>2 DEF Ahead
  <2>. QED BY <2>1, <2>2
<1>7. ASSUME NEW i \in 1 .. Total + Len(x), i > Total PROVE Ahead(i)' = x[i - Total]
  <2>1. /\ ~(i <= Unread) /\ i - Unread = Len(wire) + (i - Total)
        /\ i - Unread \in 1 .. Len(wire) + Len(x) /\ ~(i - Unread <= Len(wire))
        /\ (i - Unread) - Len(wire) = i - Total
    BY <1>1, <1>3, <1>7
  <2>2. wire'[i - Unread] = x[i - Total]
    BY <1>2, <2>1
  <2>. QED BY <1>4, <2>1, <2>2 DEF Ahead
<1>. QED BY <1>1, <1>2, <1>4, <1>5, <1>6, <1>7

LEMMA FrameIs ==
  ASSUME NEW magic \in Byte, NEW pad \in Byte, NEW payload \in Seq(Byte), Len(payload) \in Byte,
         NEW x, x = Frame(magic, pad, payload)
  PROVE  /\ x \in Seq(Byte) /\ Len(x) = HeadSize + Len(payload)
         /\ x[1] = magic /\ x[HeadSize] = Len(payload)
         /\ \A i \in 1 .. Len(payload) : x[HeadSize + i] = payload[i]
<1> DEFINE pads == [i \in 1 .. HeadSize - 2 |-> pad]
           a == <<magic>> \o pads
           b == a \o <<Len(payload)>>
<1>0. x = b \o payload
  BY DEF Frame
<1>1. HeadSize \in Nat /\ HeadSize >= 2 /\ HeadSize - 2 \in Nat
  BY StreamAssumption
<1>2. pads \in Seq(Byte) /\ Len(pads) = HeadSize - 2
  BY <1>1
<1>. HIDE DEF pads
<1>3. /\ a \in Seq(Byte) /\ Len(a) = 1 + Len(pads)
      /\ \A i \in 1 .. 1 + Len(pads) : a[i] = IF i <= 1 THEN <<magic>>[i] ELSE pads[i - 1]
  <2>1. <<magic>> \in Seq(Byte) /\ Len(<<magic>>) = 1
    OBVIOUS
  <2>. QED BY <1>2, <2>1, ConcatProperties
<1>4. Len(a) = HeadSize - 1 /\ a[1] = magic
  BY <1>1, <1>2, <1>3
<1>. HIDE DEF a
<1>5. /\ b \in Seq(Byte) /\ Len(b) = Len(a) + 1
      /\ \A i \in 1 .. Len(a) + 1 : b[i] = IF i <= Len(a) THEN a[i] ELSE <<Len(payload)>>[i - Len(a)]
  <2>1. <<Len(payload)>> \in Seq(Byte) /\ Len(<<Len(payload)>>) = 1
    OBVIOUS
  <2>. QED BY <1>3, <2>1, ConcatProperties
<1>6. Len(b) = HeadSize /\ b[1] = magic /\ b[HeadSize] = Len(payload)
  <2>1. /\ 1 \in 1 .. (HeadSize - 1) + 1 /\ 1 <= HeadSize - 1
        /\ HeadSize \in 1 .. (HeadSize - 1) + 1 /\ ~(HeadSize <= HeadSize - 1)
        /\ HeadSize - (HeadSize - 1) = 1 /\ (HeadSize - 1) + 1 = HeadSize
    BY <1>1
  <2>2. Len(b) = HeadSize /\ b[1] = magic
    BY <1>4, <1>5, <2>1
  <2>3. b[HeadSize] = <<Len(payload)>>[1]
    BY <1>4, <1>5, <2>1
  <2>. QED BY <2>2, <2>3
<1>. HIDE DEF b
<1>7. /\ x \in Seq(Byte) /\ Len(x) = Len(b) + Len(payload)
      /\ \A i \in 1 .. Len(b) + Len(payload) : x[i] = IF i <= Len(b) THEN b[i] ELSE payload[i - Len(b)]
  <2> DEFINE y == b \o payload
  <2>1. /\ y \in Seq(Byte) /\ Len(y) = Len(b) + Len(payload)
        /\ \A i \in 1 .. Len(b) + Len(payload) : y[i] = IF i <= Len(b) THEN b[i] ELSE payload[i - Len(b)]
    <3>1. b \in Seq(Byte) /\ payload \in Seq(Byte)
      BY <1>5
    <3>. QED BY <3>1, ConcatProperties
  <2>2. x = y
    BY <1>0
  <2>. HIDE DEF y
  <2>. QED BY <2>1, <2>2
<1>8. Len(payload) \in Nat
  OBVIOUS
<1>9. x[1] = magic /\ x[HeadSize] = Len(payload)
  <2>1. /\ 1 \in 1 .. HeadSize + Len(payload) /\ 1 <= HeadSize
        /\ HeadSize \in 1 .. HeadSize + Len(payload) /\ HeadSize <= HeadSize
    BY <1>1, <1>8
  <2>. QED BY <1>6, <1>7, <2>1
<1>10. ASSUME NEW i \in 1 .. Len(payload) PROVE x[HeadSize + i] = payload[i]
  <2>1. /\ HeadSize + i \in 1 .. HeadSize + Len(payload) /\ ~(HeadSize + i <= HeadSize)
        /\ (HeadSize + i) - HeadSize = i
    BY <1>1, <1>8
  <2>. QED BY <1>6, <1>7, <2>1
<1>. QED BY <1>6, <1>7, <1>9, <1>10

\* Bytes the peer sends change nothing for a receiver that waits.
LEMMA StillStopped ==
  ASSUME StoppedShort, UNCHANGED <<buff, rtag, reading>> PROVE StoppedShort'
BY DEF StoppedShort, Unread, At, PackageSize, IsMagic

LEMMA PeerFrameKeeps ==
  ASSUME InputIInv, NEW p \in Payloads, PeerFrame(p) PROVE InputIInv'
<1>1. PICK magic \in Magics, pad \in Padding : wire' = wire \o Frame(magic, pad, p)
  BY DEF PeerFrame
<1>2. /\ Len(sent) < MaxFrames /\ sent' = Append(sent, p)
      /\ UNCHANGED <<buff, rtag, reading, noise, delivered, dropped>>
  BY DEF PeerFrame
<1>3. InputTypeOK /\ StoppedShort
  BY DEF InputIInv
<1>4. magic \in Byte /\ pad \in Byte /\ p \in Seq(Byte) /\ Len(p) \in Byte /\ Len(p) \in Nat /\ HasBaseType(magic)
  BY StreamAssumption, PeerAssumption DEF Byte, HasBaseType, IsMagic
<1>5. HeadSize \in Nat /\ HeadSize >= 2 /\ MaxFrames \in Nat
  BY StreamAssumption
<1>6. PICK x : x = Frame(magic, pad, p)
  OBVIOUS
<1>7. /\ x \in Seq(Byte) /\ Len(x) = HeadSize + Len(p) /\ x[1] = magic /\ x[HeadSize] = Len(p)
      /\ \A i \in 1 .. Len(p) : x[HeadSize + i] = p[i]
  <2>1. x \in Seq(Byte) /\ Len(x) = HeadSize + Len(p) /\ x[1] = magic
    BY <1>4, <1>6, FrameIs
  <2>2. x[HeadSize] = Len(p)
    BY <1>4, <1>6, FrameIs
  <2>3. \A i \in 1 .. Len(p) : x[HeadSize + i] = p[i]
    BY <1>4, <1>6, FrameIs
  <2>. QED BY <2>1, <2>2, <2>3
<1>8. /\ wire' \in Seq(Byte) /\ Unread' = Unread /\ Total' = Total + Len(x)
      /\ \A i \in 1 .. Total : Ahead(i)' = Ahead(i)
      /\ \A i \in 1 .. Total + Len(x) : i > Total => Ahead(i)' = x[i - Total]
  BY <1>1, <1>2, <1>3, <1>6, <1>7, PeerAhead
<1>9. /\ sent \in Seq(Payloads) /\ sent' \in Seq(Payloads) /\ Len(sent) \in Nat
      /\ Len(sent') = Len(sent) + 1 /\ sent'[Len(sent) + 1] = p
      /\ \A j \in 1 .. Len(sent) : sent'[j] = sent[j]
  BY <1>2, <1>3 DEF InputTypeOK
<1>10. InputTypeOK'
  BY <1>2, <1>3, <1>8, <1>9 DEF InputTypeOK
<1>11. StoppedShort'
  BY <1>2, <1>3, StillStopped
<1>12. ASSUME ~dropped' PROVE Streamed'
  <2>1. Streamed
    BY <1>2, <1>12 DEF InputIInv
  <2>2. PICK at \in Offsets : LaidOut(at)
    BY <2>1 DEF Streamed
  <2>3. Len(delivered) \in Nat /\ Len(delivered) <= Len(sent) /\ Total \in Nat
    BY <1>3, <2>1, TotalIs DEF InputTypeOK, Streamed
  <2>4. PICK m \in Nat, t \in Nat, h \in Nat, l \in Nat :
          m = Len(sent) + 1 /\ t = Total /\ h = HeadSize /\ l = Len(p)
    <3>1. Len(sent) + 1 \in Nat /\ Total \in Nat /\ HeadSize \in Nat /\ Len(p) \in Nat
      BY <1>4, <1>5, <1>9, <2>3
    <3>. QED BY <3>1
  <2>5. PICK at2 \in Offsets : at2[m] = t /\ \A j \in Undelivered : at2[j] = at[j]
    <3> DEFINE a == [at EXCEPT ![m] = t]
    <3>1. m \in 1 .. MaxFrames /\ \A j \in Undelivered : j \in 1 .. MaxFrames /\ j # m
      BY <1>2, <1>5, <1>9, <2>3, <2>4 DEF Undelivered
    <3>2. a \in Offsets /\ a[m] = t /\ \A j \in Undelivered : a[j] = at[j]
      BY <3>1 DEF Offsets
    <3>. QED BY <3>2
  <2>6. Undelivered' = Undelivered \cup {m} /\ m \notin Undelivered
    BY <1>2, <1>9, <2>3, <2>4 DEF Undelivered
  <2>7. ASSUME NEW j \in Undelivered
        PROVE  /\ j \in 1 .. Len(sent) /\ sent'[j] = sent[j] /\ at2[j] = at[j] /\ at[j] \in Nat
               /\ FrameEnd(at[j], sent[j]) \in Nat /\ FrameEnd(at[j], sent[j]) <= t
               /\ Len(sent[j]) \in Nat /\ HoldsFrame(at[j], sent[j])
    <3>1. /\ j \in 1 .. Len(sent) /\ at[j] \in Nat /\ FrameEnd(at[j], sent[j]) \in Nat
          /\ FrameEnd(at[j], sent[j]) <= Total /\ Len(sent[j]) \in Nat
      BY <1>2, <1>3, <1>9, <1>5, <2>2, FrameWithin DEF Byte
    <3>2. HoldsFrame(at[j], sent[j])
      BY <2>2 DEF LaidOut
    <3>. QED BY <1>9, <2>4, <2>5, <3>1, <3>2
  <2>8. Total' = t + (h + l) /\ FrameEnd(at2[m], sent'[m]) = t + h + l
    BY <1>7, <1>8, <1>9, <2>4, <2>5 DEF FrameEnd
  <2>9. ASSUME NEW j \in Undelivered
        PROVE  FrameEnd(at2[j], sent'[j]) <= Total' /\ HoldsFrame(at2[j], sent[j])'
    <3>1. FrameEnd(at2[j], sent'[j]) <= Total'
      BY <2>7, <2>8
    <3> DEFINE b == at[j]
               k == Len(sent[j])
    <3>2. b \in Nat /\ k \in Nat /\ b + h + k <= t
      BY <2>4, <2>7 DEF FrameEnd
    <3>. HIDE DEF b, k
    <3>3. \A i \in 1 .. h + k : b + i \in 1 .. t
      BY <3>2
    <3>4. 1 \in 1 .. h + k /\ h \in 1 .. h + k /\ \A i \in 1 .. k : h + i \in 1 .. h + k /\ b + (h + i) = b + h + i
      BY <1>5, <2>4, <3>2
    <3>5. \A i \in 1 .. h + k : Ahead(b + i)' = Ahead(b + i)
      BY <1>8, <2>4, <3>3
    <3>6. /\ Ahead(b + 1)' = Ahead(b + 1) /\ Ahead(b + h)' = Ahead(b + h)
          /\ \A i \in 1 .. k : Ahead(b + h + i)' = Ahead(b + h + i)
      BY <3>4, <3>5
    <3>7. HoldsFrame(b, sent[j]) /\ sent'[j] = sent[j]
      BY <2>7 DEF b
    <3>8. HasBaseType(Ahead(b + 1))' = HasBaseType(Ahead(b + 1))
      BY <3>6 DEF HasBaseType, IsMagic
    <3>9. HoldsFrame(b, sent[j])'
      BY <2>4, <3>6, <3>7, <3>8 DEF HoldsFrame, k
    <3>. QED BY <2>7, <3>1, <3>9 DEF b
  <2>10. HoldsFrame(at2[m], sent[m])'
    <3>1. 1 \in 1 .. h + l /\ h \in 1 .. h + l /\ \A i \in 1 .. l : h + i \in 1 .. h + l /\ t + (h + i) = t + h + i
      BY <1>5, <2>4
    <3>2. \A i \in 1 .. h + l : t + i \in 1 .. t + (h + l) /\ t + i > t /\ (t + i) - t = i
      OBVIOUS
    <3>3. \A i \in 1 .. h + l : Ahead(t + i)' = x[i]
      BY <1>7, <1>8, <2>4, <3>2
    <3>4. /\ Ahead(t + 1)' = magic /\ Ahead(t + h)' = l
          /\ \A i \in 1 .. l : Ahead(t + h + i)' = p[i]
      BY <1>7, <2>4, <3>1, <3>3
    <3>5. HoldsFrame(t, p)'
      BY <1>4, <2>4, <3>4 DEF HoldsFrame, HasBaseType, IsMagic
    <3>6. HoldsFrame(t, sent[m])'
      BY <1>9, <2>4, <3>5 DEF HoldsFrame
    <3>. QED BY <2>5, <3>6
  <2>11. ASSUME NEW i \in Undelivered', NEW j \in Undelivered', i < j
         PROVE  FrameEnd(at2[i], sent'[i]) <= at2[j]
    <3>1. i \in Undelivered
      <4>1. i # m
        BY <1>9, <2>4, <2>6, <2>7, <2>11
      <4>. QED BY <2>6, <4>1
    <3>2. CASE j = m
      BY <2>5, <2>7, <3>1, <3>2
    <3>3. CASE j # m
      <4>1. j \in Undelivered
        BY <2>6, <3>3
      <4>2. FrameEnd(at[i], sent[i]) <= at[j]
        BY <2>2, <2>11, <3>1, <4>1 DEF LaidOut
      <4>. QED BY <2>7, <3>1, <4>1, <4>2
    <3>. QED BY <3>2, <3>3
  <2>12. ASSUME NEW q \in 1 .. Total', HasBaseType(Ahead(q))'
         PROVE  \E j \in Undelivered' : at2[j] < q /\ q <= FrameEnd(at2[j], sent'[j])
    <3>1. CASE q > t
      <4>1. at2[m] < q /\ q <= FrameEnd(at2[m], sent'[m])
        BY <2>5, <2>8, <3>1
      <4>. QED BY <2>6, <4>1
    <3>2. CASE ~(q > t)
      <4>1. q \in 1 .. t
        BY <2>8, <3>2
      <4>2. HasBaseType(Ahead(q))
        BY <1>8, <2>4, <2>12, <4>1 DEF HasBaseType, IsMagic
      <4>3. PICK j \in Undelivered : at[j] < q /\ q <= FrameEnd(at[j], sent[j])
        BY <2>2, <2>4, <4>1, <4>2 DEF LaidOut
      <4>. QED BY <2>6, <2>7, <4>3
    <3>. QED BY <3>1, <3>2
  <2>13. LaidOut(at2)'
    <3>1. \A j \in Undelivered' : FrameEnd(at2[j], sent'[j]) <= Total' /\ HoldsFrame(at2[j], sent[j])'
      <4>1. FrameEnd(at2[m], sent'[m]) <= Total'
        BY <2>8
      <4>. QED BY <2>6, <2>9, <2>10, <4>1
    <3>. QED BY <2>11, <2>12, <3>1 DEF LaidOut
  <2>14. Len(delivered') <= Len(sent') /\ Len(sent') <= MaxFrames
    BY <1>2, <1>5, <1>9, <2>3
  <2>15. \A j \in 1 .. Len(delivered') : delivered'[j] = sent'[j]
    BY <1>2, <1>9, <2>1, <2>3 DEF Streamed
  <2>. QED BY <2>13, <2>14, <2>15 DEF Streamed, Offsets
<1>. QED BY <1>10, <1>11, <1>12 DEF InputIInv

LEMMA PeerNoiseKeeps ==
  ASSUME InputIInv, NEW b \in Noise, PeerNoise(b) PROVE InputIInv'
<1>1. /\ noise < MaxNoise /\ noise' = noise + 1 /\ wire' = Append(wire, b)
      /\ UNCHANGED <<buff, rtag, reading, sent, delivered, dropped>>
  BY DEF PeerNoise
<1>2. InputTypeOK /\ StoppedShort /\ b \in Byte /\ ~HasBaseType(b)
  BY StreamAssumption, PeerAssumption DEF InputIInv, HasBaseType, IsMagic
<1>3. wire' = wire \o <<b>> /\ <<b>> \in Seq(Byte) /\ Len(<<b>>) = 1 /\ <<b>>[1] = b
  <2>1. wire \in Seq(Byte)
    BY <1>2 DEF InputTypeOK
  <2>. QED BY <1>1, <1>2, <2>1, AppendIsConcat
<1>4. PICK x \in Seq(Byte) : x = <<b>>
  BY <1>3
<1>5. /\ wire' \in Seq(Byte) /\ Unread' = Unread /\ Total' = Total + 1
      /\ \A i \in 1 .. Total : Ahead(i)' = Ahead(i)
      /\ \A i \in 1 .. Total + 1 : i > Total => Ahead(i)' = x[i - Total]
  <2>1. /\ wire' \in Seq(Byte) /\ Unread' = Unread /\ Total' = Total + Len(x)
        /\ \A i \in 1 .. Total : Ahead(i)' = Ahead(i)
        /\ \A i \in 1 .. Total + Len(x) : i > Total => Ahead(i)' = x[i - Total]
    BY <1>1, <1>2, <1>3, <1>4, PeerAhead
  <2>. QED BY <1>3, <1>4, <2>1
<1>6. InputTypeOK'
  <2>1. noise' \in 0 .. MaxNoise
    BY <1>1, <1>2, StreamAssumption DEF InputTypeOK
  <2>. QED BY <1>1, <1>2, <1>5, <2>1 DEF InputTypeOK
<1>7. StoppedShort'
  BY <1>1, <1>2, StillStopped
<1>8. ASSUME ~dropped' PROVE Streamed'
  <2>1. Streamed
    BY <1>1, <1>8 DEF InputIInv
  <2>2. PICK at \in Offsets : LaidOut(at)
    BY <2>1 DEF Streamed
  <2>3. PICK t \in Nat : t = Total
    BY <1>2, TotalIs
  <2>4. Undelivered' = Undelivered
    BY <1>1 DEF Undelivered
  <2>5. ASSUME NEW j \in Undelivered
        PROVE  /\ at[j] \in Nat /\ FrameEnd(at[j], sent[j]) \in Nat /\ FrameEnd(at[j], sent[j]) <= t
               /\ Len(sent[j]) \in Nat /\ HoldsFrame(at[j], sent[j])
    <3>1. /\ at[j] \in Nat /\ FrameEnd(at[j], sent[j]) \in Nat
          /\ FrameEnd(at[j], sent[j]) <= Total /\ Len(sent[j]) \in Nat
      BY <1>2, <2>1, <2>2, FrameWithin DEF Byte, Streamed
    <3>. QED BY <2>2, <2>3, <3>1 DEF LaidOut
  <2>6. ASSUME NEW j \in Undelivered
        PROVE  FrameEnd(at[j], sent'[j]) <= Total' /\ HoldsFrame(at[j], sent[j])'
    <3>1. FrameEnd(at[j], sent'[j]) <= Total'
      BY <1>1, <1>5, <2>3, <2>5
    <3> DEFINE c == at[j]
               k == Len(sent[j])
    <3>2. PICK h \in Nat : h = HeadSize
      BY StreamAssumption
    <3>3. c \in Nat /\ k \in Nat /\ c + h + k <= t /\ h >= 2
      BY <2>5, <3>2, StreamAssumption DEF FrameEnd
    <3>. HIDE DEF c, k
    <3>4. \A i \in 1 .. h + k : c + i \in 1 .. t
      BY <3>3
    <3>5. 1 \in 1 .. h + k /\ h \in 1 .. h + k /\ \A i \in 1 .. k : h + i \in 1 .. h + k /\ c + (h + i) = c + h + i
      BY <3>3
    <3>6. \A i \in 1 .. h + k : Ahead(c + i)' = Ahead(c + i)
      BY <1>5, <2>3, <3>4
    <3>7. /\ Ahead(c + 1)' = Ahead(c + 1) /\ Ahead(c + h)' = Ahead(c + h)
          /\ \A i \in 1 .. k : Ahead(c + h + i)' = Ahead(c + h + i)
      BY <3>5, <3>6
    <3>8. HoldsFrame(c, sent[j])'
      BY <1>1, <2>5, <3>2, <3>7 DEF HoldsFrame, HasBaseType, IsMagic, k, c
    <3>. QED BY <3>1, <3>8 DEF c
  <2>7. ASSUME NEW q \in 1 .. Total', HasBaseType(Ahead(q))'
        PROVE  \E j \in Undelivered : at[j] < q /\ q <= FrameEnd(at[j], sent[j])
    <3>1. q \in 1 .. t
      <4>1. Ahead(t + 1)' = b
        <5>1. t + 1 \in 1 .. t + 1 /\ t + 1 > t /\ (t + 1) - t = 1
          OBVIOUS
        <5>. QED BY <1>3, <1>4, <1>5, <2>3, <5>1
      <4>2. q # t + 1
        BY <1>2, <2>7, <4>1 DEF HasBaseType, IsMagic
      <4>. QED BY <1>5, <2>3, <4>2
    <3>2. HasBaseType(Ahead(q))
      BY <1>5, <2>3, <2>7, <3>1 DEF HasBaseType, IsMagic
    <3>. QED BY <2>2, <2>3, <3>1, <3>2 DEF LaidOut
  <2>8. LaidOut(at)'
    BY <1>1, <2>2, <2>4, <2>6, <2>7 DEF LaidOut, FrameEnd
  <2>. QED BY <1>1, <2>1, <2>8 DEF Streamed, Offsets
<1>. QED BY <1>6, <1>7, <1>8 DEF InputIInv

\* A chunk that fits is read.
LEMMA ReceiveKeeps ==
  ASSUME InputIInv, NEW n \in 1 .. MaxChunk, Receive(n) PROVE InputIInv'
<1>1. /\ n <= Len(wire) /\ wire' = SubSeq(wire, n + 1, Len(wire)) /\ reading' = TRUE
      /\ UNCHANGED <<rtag, noise, sent, delivered>>
      /\ \/ Capacity - Len(buff) < n /\ dropped' = TRUE /\ buff' = buff
         \/ /\ ~(Capacity - Len(buff) < n) /\ dropped' = dropped
            /\ buff' = buff \o SubSeq(wire, 1, n)
  BY DEF Receive
<1>2. InputTypeOK
  BY DEF InputIInv
<1>3. /\ wire \in Seq(Byte) /\ buff \in Seq(Byte) /\ rtag \in 0 .. Len(buff) /\ Len(buff) <= Capacity
      /\ Len(wire) \in Nat /\ Len(buff) \in Nat /\ n \in Nat /\ n > 0
      /\ Capacity \in Nat
  BY <1>2, StreamAssumption DEF InputTypeOK
<1>4. /\ wire' \in Seq(Byte) /\ Len(wire') = Len(wire) - n
      /\ \A i \in 1 .. Len(wire) - n : wire'[i] = wire[n + i]
  <2> DEFINE rest == SubSeq(wire, n + 1, Len(wire))
  <2>1. n + 1 \in 1 .. Len(wire) + 1 /\ Len(wire) \in n .. Len(wire)
        /\ \A i \in 1 .. Len(wire) - n : (n + 1) + i - 1 = n + i
    BY <1>1, <1>3
  <2>2. rest \in Seq(Byte) /\ Len(rest) = Len(wire) - n /\ \A i \in 1 .. Len(wire) - n : rest[i] = wire[n + i]
    BY <1>1, <1>3, <2>1
  <2>. QED BY <1>1, <2>2
<1>5. PICK x : x = SubSeq(wire, 1, n)
  OBVIOUS
<1>6. x \in Seq(Byte) /\ Len(x) = n /\ \A i \in 1 .. n : x[i] = wire[i]
  BY <1>1, <1>3, <1>5
<1>7. /\ buff \o x \in Seq(Byte) /\ Len(buff \o x) = Len(buff) + n
      /\ \A i \in 1 .. Len(buff) + n : (buff \o x)[i] = IF i <= Len(buff) THEN buff[i] ELSE x[i - Len(buff)]
  BY <1>3, <1>6, ConcatProperties
<1>8. InputTypeOK'
  <2>1. buff' \in Seq(Byte) /\ Len(buff') <= Capacity /\ rtag' \in 0 .. Len(buff')
    <3>1. CASE buff' = buff
      BY <1>1, <1>3, <3>1
    <3>2. CASE ~(Capacity - Len(buff) < n) /\ buff' = buff \o SubSeq(wire, 1, n)
      <4>1. Len(buff') = Len(buff) + n /\ buff' \in Seq(Byte)
        BY <1>5, <1>7, <3>2
      <4>. QED BY <1>1, <1>3, <3>2, <4>1
    <3>. QED BY <1>1, <3>1, <3>2
  <2>. QED BY <1>1, <1>2, <1>4, <2>1 DEF InputTypeOK
<1>9. StoppedShort'
  BY <1>1 DEF StoppedShort
<1>10. ASSUME ~dropped' PROVE Streamed'
  <2>1. Streamed /\ buff' = buff \o x
    BY <1>1, <1>5, <1>10 DEF InputIInv
  <2>2. PICK at \in Offsets : LaidOut(at)
    BY <2>1 DEF Streamed
  <2>3. /\ Unread \in Nat /\ Total \in Nat /\ Total = Unread + Len(wire) /\ Unread = Len(buff) - rtag
        /\ Unread' = Unread + n /\ Total' = Total
    <3>1. Len(buff') = Len(buff) + n
      BY <1>7, <2>1
    <3>2. Unread = Len(buff) - rtag /\ Unread' = Len(buff') - rtag
      BY <1>1 DEF Unread
    <3>3. Total = Unread + Len(wire) /\ Total' = Unread' + Len(wire')
      BY DEF Total
    <3>. QED BY <1>3, <1>4, <3>1, <3>2, <3>3
  <2>4. ASSUME NEW i \in 1 .. Total PROVE Ahead(i)' = Ahead(i)
    <3>1. CASE i <= Unread
      <4>1. rtag + i \in 1 .. Len(buff) + n /\ rtag + i <= Len(buff) /\ i <= Unread + n
        BY <1>3, <2>3, <3>1
      <4>2. buff'[rtag + i] = buff[rtag + i]
        BY <1>7, <2>1, <4>1
      <4>. QED BY <1>1, <2>3, <3>1, <4>1, <4>2 DEF Ahead, At
    <3>2. CASE ~(i <= Unread) /\ i <= Unread + n
      <4>1. /\ rtag + i \in 1 .. Len(buff) + n /\ ~(rtag + i <= Len(buff))
            /\ (rtag + i) - Len(buff) = i - Unread /\ i - Unread \in 1 .. n
        BY <1>3, <2>3, <3>2
      <4>2. buff'[rtag + i] = wire[i - Unread]
        BY <1>6, <1>7, <2>1, <4>1
      <4>. QED BY <1>1, <2>3, <3>2, <4>2 DEF Ahead, At
    <3>3. CASE ~(i <= Unread + n)
      <4>1. /\ ~(i <= Unread) /\ i - (Unread + n) \in 1 .. Len(wire) - n
            /\ n + (i - (Unread + n)) = i - Unread
        BY <1>3, <2>3, <3>3
      <4>2. wire'[i - (Unread + n)] = wire[i - Unread]
        BY <1>4, <4>1
      <4>. QED BY <2>3, <3>3, <4>1, <4>2 DEF Ahead
    <3>. QED BY <3>1, <3>2, <3>3
  <2>5. PICK z \in Nat : z = 0
    OBVIOUS
  <2>6. z <= Total /\ Total' = Total - z /\ \A i \in 1 .. Total - z : Ahead(i)' = Ahead(z + i)
    <3>1. \A i \in 1 .. Total - z : i \in 1 .. Total /\ z + i = i
      BY <2>3, <2>5
    <3>2. z <= Total /\ Total' = Total - z
      BY <2>3, <2>5
    <3>. QED BY <2>4, <3>1, <3>2
  <2>7. Undelivered' = Undelivered /\ \A j \in Undelivered : at[j] >= z
    <3>1. Undelivered' = Undelivered
      BY <1>1 DEF Undelivered
    <3>2. \A j \in Undelivered : at[j] \in Nat
      BY <1>2, <2>1, <2>2, FrameWithin DEF Streamed
    <3>. QED BY <2>5, <3>1, <3>2
  <2>8. /\ Len(sent) <= MaxFrames /\ sent' = sent /\ Len(delivered') \in Nat
        /\ Len(delivered') >= Len(delivered)
    BY <1>1, <1>2, <2>1 DEF InputTypeOK, Streamed
  <2>9. \E at2 \in Offsets : LaidOut(at2)'
    BY <1>2, <2>2, <2>6, <2>7, <2>8, LookedAt
  <2>. QED BY <1>1, <2>1, <2>9 DEF Streamed, Offsets
<1>. QED BY <1>8, <1>9, <1>10 DEF InputIInv

LEMMA WaitKeeps == ASSUME InputIInv, AnalyseWait PROVE InputIInv'
<1>1. /\ Unread < HeadSize \/ (IsMagic(At(1)) /\ Unread < PackageSize)
      /\ reading' = FALSE /\ UNCHANGED <<wire, buff, rtag, noise, sent, delivered, dropped>>
  BY DEF AnalyseWait
<1>2. InputTypeOK' /\ StoppedShort'
  BY <1>1 DEF InputIInv, InputTypeOK, StoppedShort, Unread, At, PackageSize, IsMagic
<1>3. ASSUME Streamed PROVE Streamed'
  <2>1. Undelivered' = Undelivered /\ Total' = Total /\ \A i : Ahead(i)' = Ahead(i)
    BY <1>1 DEF Undelivered, Total, Ahead, At, Unread
  <2>2. ASSUME NEW at \in Offsets, LaidOut(at) PROVE LaidOut(at)'
    <3>1. \A p, x : HoldsFrame(p, x) => HoldsFrame(p, x)'
      BY <2>1 DEF HoldsFrame, HasBaseType, IsMagic
    <3>. QED BY <1>1, <2>1, <2>2, <3>1 DEF LaidOut, FrameEnd, HasBaseType, IsMagic
  <2>. QED BY <1>1, <1>3, <2>2 DEF Streamed, Offsets
<1>. QED BY <1>1, <1>2, <1>3 DEF InputIInv

\* Where a head is, the next frame is.
LEMMA NextFrame ==
  ASSUME InputTypeOK, Len(sent) <= MaxFrames, NEW at \in Offsets, LaidOut(at),
         Unread >= HeadSize, IsMagic(At(1))
  PROVE  LET j == Len(delivered) + 1 IN
         /\ j \in Undelivered /\ at[j] = 0
         /\ PackageSize = HeadSize + Len(sent[j]) /\ FrameEnd(at[j], sent[j]) = PackageSize
<1> DEFINE j == Len(delivered) + 1
<1>1. HeadSize \in Nat /\ HeadSize >= 2 /\ Unread \in Nat /\ Total \in Nat /\ Len(wire) \in Nat
      /\ Total = Unread + Len(wire) /\ Len(delivered) \in Nat
  BY StreamAssumption, TotalIs DEF Total, InputTypeOK
<1>2. 1 \in 1 .. Total /\ Ahead(1) = At(1) /\ Ahead(HeadSize) = At(HeadSize)
  BY <1>1 DEF Ahead
<1>3. HasBaseType(Ahead(1))
  <2>1. Ahead(1) \in Byte
    BY <1>2, TotalIs
  <2>. QED BY <1>2, <2>1, HeadIsMagic
<1>4. PICK k \in Undelivered : at[k] < 1
  BY <1>2, <1>3 DEF LaidOut
<1>5. at[k] = 0
  BY <1>4, FrameWithin
<1>6. j \in Undelivered
  BY <1>1, <1>4 DEF Undelivered
<1>7. k = j
  <2> SUFFICES ASSUME j < k PROVE FALSE
    BY <1>1, <1>4 DEF Undelivered
  <2>1. FrameEnd(at[j], sent[j]) <= at[k]
    BY <1>6 DEF LaidOut
  <2>2. at[j] \in Nat /\ at[j] + HeadSize <= FrameEnd(at[j], sent[j]) /\ FrameEnd(at[j], sent[j]) \in Nat
    BY <1>6, FrameWithin
  <2>. HIDE DEF j
  <2>. QED BY <1>1, <1>5, <2>1, <2>2
<1>8. Ahead(HeadSize) = Len(sent[j])
  <2>1. HoldsFrame(at[j], sent[j])
    BY <1>6 DEF LaidOut
  <2>2. at[j] + HeadSize = HeadSize
    BY <1>1, <1>5, <1>7
  <2>. QED BY <2>1, <2>2 DEF HoldsFrame
<1>9. PackageSize = HeadSize + Len(sent[j])
  BY <1>2, <1>8 DEF PackageSize
<1>10. FrameEnd(at[j], sent[j]) = PackageSize
  <2>1. 0 + HeadSize = HeadSize
    BY <1>1
  <2>. QED BY <1>5, <1>7, <1>9, <2>1 DEF FrameEnd
<1>. QED BY <1>5, <1>6, <1>7, <1>9, <1>10

\* The receiver drops the first n bytes of its buffer, and reads on in front.
LEMMA BufferAhead ==
  ASSUME InputTypeOK, NEW k \in Nat, k <= Len(buff), NEW n \in Nat, k = rtag + n,
         buff' = SubSeq(buff, k + 1, Len(buff)), rtag' = 0, wire' = wire
  PROVE  /\ buff' \in Seq(Byte) /\ Len(buff') = Len(buff) - k /\ n <= Total
         /\ Unread' = Unread - n /\ Total' = Total - n
         /\ \A i \in 1 .. Total - n : Ahead(i)' = Ahead(n + i)
<1>1. /\ buff \in Seq(Byte) /\ wire \in Seq(Byte) /\ Len(buff) \in Nat /\ Len(wire) \in Nat
      /\ rtag \in Nat /\ Unread \in Nat /\ Unread = Len(buff) - rtag /\ Total = Unread + Len(wire)
  BY TotalIs DEF InputTypeOK, Unread, Total
<1>2. /\ buff' \in Seq(Byte) /\ Len(buff') = Len(buff) - k
      /\ \A i \in 1 .. Len(buff) - k : buff'[i] = buff[k + i]
  <2> DEFINE rest == SubSeq(buff, k + 1, Len(buff))
  <2>1. \A i \in 1 .. Len(buff) - k : (k + 1) + i - 1 = k + i
    BY <1>1
  <2>2. rest \in Seq(Byte) /\ Len(rest) = Len(buff) - k /\ \A i \in 1 .. Len(buff) - k : rest[i] = buff[k + i]
    BY <1>1, <2>1
  <2>. QED BY <2>2
<1>3. Unread' = Unread - n /\ n <= Unread
  <2>1. Unread' = Len(buff') - 0
    BY DEF Unread
  <2>. QED BY <1>1, <1>2, <2>1
<1>4. Total' = Total - n /\ n <= Total
  <2>1. Total' = Unread' + Len(wire)
    BY DEF Total
  <2>. QED BY <1>1, <1>3, <2>1
<1>5. ASSUME NEW i \in 1 .. Total - n PROVE Ahead(i)' = Ahead(n + i)
  <2>1. CASE i <= Unread - n
    <3>1. n + i <= Unread /\ i \in 1 .. Len(buff) - k /\ k + i = rtag + (n + i) /\ 0 + i = i
      BY <1>1, <2>1
    <3>2. buff'[0 + i] = buff[rtag + (n + i)]
      BY <1>2, <3>1
    <3>. QED BY <1>3, <2>1, <3>1, <3>2 DEF Ahead, At
  <2>2. CASE ~(i <= Unread - n)
    <3>1. ~(n + i <= Unread) /\ i - (Unread - n) = (n + i) - Unread
      BY <1>1, <2>2
    <3>. QED BY <1>3, <2>2, <3>1 DEF Ahead
  <2>. QED BY <2>1, <2>2
<1>. QED BY <1>2, <1>3, <1>4, <1>5

\* The frame that is taken out is the next one.
LEMMA FrameKeeps == ASSUME InputIInv, AnalyseFrame PROVE InputIInv'
<1>1. /\ reading /\ Unread >= HeadSize /\ IsMagic(At(1)) /\ Unread >= PackageSize
      /\ delivered' = Append(delivered, SubSeq(buff, rtag + HeadSize + 1, rtag + PackageSize))
      /\ buff' = SubSeq(buff, rtag + PackageSize + 1, Len(buff)) /\ rtag' = 0
      /\ UNCHANGED <<wire, reading, noise, sent, dropped>>
  BY DEF AnalyseFrame, AfterFrame
<1>2. InputTypeOK
  BY DEF InputIInv
<1>3. /\ HeadSize \in Nat /\ HeadSize >= 2 /\ Capacity \in Nat /\ MaxFrames \in Nat
      /\ Unread \in Nat /\ Total \in Nat /\ Len(wire) \in Nat /\ Total = Unread + Len(wire)
      /\ buff \in Seq(Byte) /\ Len(buff) \in Nat /\ rtag \in Nat /\ rtag <= Len(buff)
      /\ Unread = Len(buff) - rtag /\ Len(buff) <= Capacity
      /\ delivered \in Seq(Seq(Byte)) /\ Len(delivered) \in Nat
  BY <1>2, StreamAssumption, TotalIs DEF InputTypeOK, Total, Unread
<1>4. PICK n \in Nat : n = PackageSize /\ n >= HeadSize
  <2>1. At(HeadSize) \in Byte
    <3>1. HeadSize \in 1 .. Total /\ Ahead(HeadSize) = At(HeadSize)
      BY <1>1, <1>3 DEF Ahead
    <3>. QED BY <1>2, <3>1, TotalIs
  <2>2. At(HeadSize) \in Nat
    BY <2>1 DEF Byte
  <2>3. PackageSize = HeadSize + At(HeadSize) /\ HeadSize \in Nat
    BY <1>3 DEF PackageSize
  <2>4. PackageSize \in Nat /\ PackageSize >= HeadSize
    BY <2>2, <2>3
  <2>. QED BY <2>4
<1>5. PICK k \in Nat : k = rtag + n /\ k <= Len(buff)
  BY <1>1, <1>3, <1>4
<1>6. /\ buff' \in Seq(Byte) /\ Len(buff') = Len(buff) - k /\ n <= Total
      /\ Unread' = Unread - n /\ Total' = Total - n
      /\ \A i \in 1 .. Total - n : Ahead(i)' = Ahead(n + i)
  <2>1. buff' = SubSeq(buff, k + 1, Len(buff)) /\ wire' = wire /\ rtag' = 0
    BY <1>1, <1>4, <1>5
  <2>. QED BY <1>2, <1>5, <2>1, BufferAhead
<1>7. PICK x : x = SubSeq(buff, rtag + HeadSize + 1, rtag + PackageSize)
  OBVIOUS
<1>8. /\ x \in Seq(Byte) /\ Len(x) = n - HeadSize
      /\ \A i \in 1 .. n - HeadSize : x[i] = At(HeadSize + i)
  <2> DEFINE b == rtag + HeadSize + 1
  <2>1. x = SubSeq(buff, b, k) /\ b \in 1 .. Len(buff) + 1 /\ k \in b - 1 .. Len(buff)
    BY <1>3, <1>4, <1>5, <1>7
  <2>2. k - b + 1 = n - HeadSize
    BY <1>3, <1>4, <1>5
  <2>3. \A i \in 1 .. n - HeadSize : b + i - 1 = rtag + (HeadSize + i)
    BY <1>3, <1>4
  <2>4. x \in Seq(Byte) /\ Len(x) = k - b + 1 /\ \A i \in 1 .. k - b + 1 : x[i] = buff[b + i - 1]
    <3>. HIDE DEF b
    <3>. QED BY <1>3, <2>1
  <2>. HIDE DEF b
  <2>. QED BY <2>2, <2>3, <2>4 DEF At
<1>9. InputTypeOK'
  <2>1. Len(buff') <= Capacity /\ rtag' \in 0 .. Len(buff')
    <3>1. Len(buff') = Len(buff) - k /\ Len(buff) \in Nat /\ Len(buff) <= Capacity /\ k <= Len(buff) /\ rtag' = 0
      BY <1>1, <1>3, <1>5, <1>6
    <3>. QED BY <1>3, <3>1
  <2>2. delivered' \in Seq(Seq(Byte))
    BY <1>1, <1>3, <1>7, <1>8
  <2>. QED BY <1>1, <1>2, <1>6, <2>1, <2>2 DEF InputTypeOK
<1>10. StoppedShort'
  BY <1>1 DEF StoppedShort
<1>11. ASSUME ~dropped' PROVE Streamed'
  <2>1. Streamed
    BY <1>1, <1>11 DEF InputIInv
  <2>2. PICK at \in Offsets : LaidOut(at)
    BY <2>1 DEF Streamed
  <2>3. PICK j \in Nat : j = Len(delivered) + 1
    BY <1>3
  <2>4. /\ j \in Undelivered /\ at[j] = 0 /\ n = HeadSize + Len(sent[j])
        /\ FrameEnd(at[j], sent[j]) = n
    <3>1. LET m == Len(delivered) + 1 IN
            /\ m \in Undelivered /\ at[m] = 0
            /\ PackageSize = HeadSize + Len(sent[m]) /\ FrameEnd(at[m], sent[m]) = PackageSize
      BY <1>1, <1>2, <2>1, <2>2, NextFrame DEF Streamed
    <3>. QED BY <1>4, <2>3, <3>1
  <2>5. /\ sent[j] \in Seq(Byte) /\ Len(sent[j]) \in Nat /\ j \in 1 .. Len(sent) /\ Len(sent) \in Nat
        /\ HoldsFrame(at[j], sent[j])
    <3>1. sent[j] \in Seq(Byte) /\ Len(sent[j]) \in Byte /\ j \in 1 .. Len(sent)
      BY <1>2, <2>1, <2>2, <2>4, FrameWithin DEF Streamed
    <3>2. HoldsFrame(at[j], sent[j]) /\ Len(sent) \in Nat
      BY <1>2, <2>2, <2>4 DEF LaidOut, InputTypeOK
    <3>. QED BY <3>1, <3>2 DEF Byte
  <2>6. x = sent[j]
    <3>1. Len(x) = Len(sent[j])
      BY <1>3, <1>8, <2>4, <2>5
    <3>2. ASSUME NEW i \in 1 .. Len(sent[j]) PROVE x[i] = sent[j][i]
      <4>1. i \in 1 .. n - HeadSize /\ HeadSize + i <= Unread /\ (0 + HeadSize) + i = HeadSize + i
        <5> DEFINE l == Len(sent[j])
        <5>1. l \in Nat /\ n = HeadSize + l /\ HeadSize \in Nat /\ i \in 1 .. l
          BY <1>3, <2>4, <2>5
        <5>2. n <= Unread /\ Unread \in Nat
          BY <1>1, <1>3, <1>4
        <5>. HIDE DEF l
        <5>. QED BY <5>1, <5>2
      <4>2. x[i] = At(HeadSize + i) /\ Ahead(HeadSize + i) = At(HeadSize + i)
        BY <1>8, <4>1 DEF Ahead
      <4>3. Ahead(HeadSize + i) = sent[j][i]
        BY <2>4, <2>5, <4>1 DEF HoldsFrame
      <4>. QED BY <4>2, <4>3
    <3>. QED BY <1>8, <2>5, <3>1, <3>2, SeqEqual
  <2>7. /\ Len(delivered') = Len(delivered) + 1 /\ delivered'[j] = sent[j]
        /\ \A i \in 1 .. Len(delivered) : delivered'[i] = delivered[i]
    <3>1. x \in Seq(Byte) /\ delivered \in Seq(Seq(Byte)) /\ delivered' = Append(delivered, x)
      BY <1>1, <1>3, <1>7, <1>8
    <3>2. /\ Len(delivered') = Len(delivered) + 1 /\ delivered'[Len(delivered) + 1] = x
          /\ \A i \in 1 .. Len(delivered) : delivered'[i] = delivered[i]
      BY <3>1, AppendProperties
    <3>. QED BY <2>3, <2>6, <3>2
  <2>8. Len(delivered') <= Len(sent') /\ Len(sent') <= MaxFrames
    BY <1>1, <2>1, <2>3, <2>5, <2>7 DEF Streamed
  <2>9. \A i \in 1 .. Len(delivered') : delivered'[i] = sent'[i]
    <3>1. \A i \in 1 .. Len(delivered') : i = j \/ i \in 1 .. Len(delivered)
      BY <1>3, <2>3, <2>7
    <3>2. \A i \in 1 .. Len(delivered) : delivered'[i] = sent[i]
      BY <2>1, <2>7 DEF Streamed
    <3>. QED BY <1>1, <2>7, <3>1, <3>2
  <2>10. Undelivered' = j + 1 .. Len(sent) /\ Undelivered = j .. Len(sent)
    BY <1>1, <2>3, <2>7 DEF Undelivered
  <2>11. ASSUME NEW i \in Undelivered' PROVE at[i] >= n
    <3>1. i \in Undelivered /\ j < i
      BY <2>3, <2>5, <2>10
    <3>. QED BY <2>2, <2>4, <3>1 DEF LaidOut
  <2>12. ASSUME NEW i \in Undelivered, i \notin Undelivered' PROVE FrameEnd(at[i], sent[i]) <= n
    <3>1. i = j
      BY <2>3, <2>5, <2>10, <2>12
    <3>. QED BY <2>4, <3>1
  <2>13. /\ Len(sent) <= MaxFrames /\ sent' = sent /\ Len(delivered') \in Nat
         /\ Len(delivered') >= Len(delivered)
    <3>1. Len(sent) <= MaxFrames /\ sent' = sent
      BY <1>1, <1>3, <2>1, <2>7 DEF Streamed
    <3>2. Len(delivered') \in Nat /\ Len(delivered') >= Len(delivered)
      BY <1>1, <1>3, <2>1, <2>7 DEF Streamed
    <3>. QED BY <3>1, <3>2
  <2>14. \E at2 \in Offsets : LaidOut(at2)'
    BY <1>2, <1>6, <2>2, <2>11, <2>12, <2>13, LookedAt
  <2>. QED BY <2>8, <2>9, <2>14 DEF Streamed, Offsets
<1>. QED BY <1>9, <1>10, <1>11 DEF InputIInv

\* In front of the first byte a head could begin with there is no frame.
LEMMA HeadKeeps == ASSUME InputIInv, FindHead PROVE InputIInv'
<1>1. PICK i \in 1 .. Unread :
        /\ HasBaseType(At(i)) /\ (\A m \in 1 .. i - 1 : ~HasBaseType(At(m))) /\ rtag' = rtag + i - 1
  BY DEF FindHead
<1>2. reading /\ UNCHANGED <<wire, buff, reading, noise, sent, delivered, dropped>>
  BY DEF FindHead
<1>3. InputTypeOK
  BY DEF InputIInv
<1>4. /\ Unread \in Nat /\ Total \in Nat /\ Len(wire) \in Nat /\ Total = Unread + Len(wire)
      /\ Len(buff) \in Nat /\ rtag \in Nat /\ Unread = Len(buff) - rtag
  BY <1>3, TotalIs DEF InputTypeOK, Total, Unread
<1>5. PICK n \in Nat : n = i - 1 /\ n < Unread /\ rtag' = rtag + n
  BY <1>1, <1>4
<1>6. Unread' = Unread - n /\ Total' = Total - n /\ n <= Total
  <2>1. Unread' = Len(buff) - (rtag + n) /\ Total' = Unread' + Len(wire)
    BY <1>2, <1>5 DEF Unread, Total
  <2>. QED BY <1>4, <1>5, <2>1
<1>7. ASSUME NEW m \in 1 .. Total - n PROVE Ahead(m)' = Ahead(n + m)
  <2>1. rtag' + m = rtag + (n + m) /\ (m <= Unread - n <=> n + m <= Unread)
        /\ m - (Unread - n) = (n + m) - Unread
    BY <1>4, <1>5
  <2>. QED BY <1>2, <1>6, <2>1 DEF Ahead, At
<1>8. InputTypeOK'
  <2>1. rtag' \in 0 .. Len(buff)
    BY <1>4, <1>5
  <2>. QED BY <1>2, <1>3, <2>1 DEF InputTypeOK
<1>9. StoppedShort'
  BY <1>2 DEF StoppedShort
<1>10. ASSUME ~dropped' PROVE Streamed'
  <2>1. Streamed
    BY <1>2, <1>10 DEF InputIInv
  <2>2. PICK at \in Offsets : LaidOut(at)
    BY <2>1 DEF Streamed
  <2>3. Undelivered' = Undelivered
    BY <1>2 DEF Undelivered
  <2>4. ASSUME NEW j \in Undelivered PROVE at[j] >= n
    <3>1. at[j] \in Nat /\ HasBaseType(Ahead(at[j] + 1))
      BY <1>3, <2>1, <2>2, FrameWithin DEF Streamed, LaidOut, HoldsFrame
    <3>2. CASE at[j] < n
      <4>1. at[j] + 1 \in 1 .. i - 1 /\ at[j] + 1 <= Unread
        BY <1>4, <1>5, <3>1, <3>2
      <4>. QED BY <1>1, <3>1, <4>1 DEF Ahead
    <3>. QED BY <3>1, <3>2
  <2>5. /\ Len(sent) <= MaxFrames /\ sent' = sent /\ Len(delivered') \in Nat
        /\ Len(delivered') >= Len(delivered)
    BY <1>2, <1>3, <2>1 DEF InputTypeOK, Streamed
  <2>6. \E at2 \in Offsets : LaidOut(at2)'
    BY <1>3, <1>6, <1>7, <2>2, <2>3, <2>4, <2>5, LookedAt
  <2>. QED BY <1>2, <2>1, <2>6 DEF Streamed, Offsets
<1>. QED BY <1>8, <1>9, <1>10 DEF InputIInv

\* Nor is there one when no byte could begin a head.
LEMMA NoHeadKeeps == ASSUME InputIInv, FindNoHead PROVE InputIInv'
<1>1. /\ reading /\ Unread >= HeadSize /\ \A i \in 1 .. Unread : ~HasBaseType(At(i))
      /\ buff' = SubSeq(buff, Len(buff) - HeadSize + 2, Len(buff)) /\ rtag' = 0
      /\ UNCHANGED <<wire, reading, noise, sent, delivered, dropped>>
  BY DEF FindNoHead
<1>2. InputTypeOK
  BY DEF InputIInv
<1>3. /\ Unread \in Nat /\ Total \in Nat /\ Len(wire) \in Nat /\ Total = Unread + Len(wire)
      /\ Len(buff) \in Nat /\ rtag \in Nat /\ Unread = Len(buff) - rtag
      /\ HeadSize \in Nat /\ HeadSize >= 2 /\ Len(buff) <= Capacity /\ Capacity \in Nat
  BY <1>2, StreamAssumption, TotalIs DEF InputTypeOK, Total, Unread
<1>4. PICK n \in Nat : n = Unread - (HeadSize - 1) /\ n <= Unread
  <2>1. Unread \in Nat /\ HeadSize \in Nat /\ HeadSize >= 2 /\ Unread >= HeadSize
    BY <1>1, <1>3
  <2>2. Unread - (HeadSize - 1) \in Nat /\ Unread - (HeadSize - 1) <= Unread
    BY <2>1
  <2>. QED BY <2>2
<1>5. PICK k \in Nat : k = rtag + n /\ k <= Len(buff) /\ k + 1 = Len(buff) - HeadSize + 2
  <2> DEFINE k == rtag + n
             b == Len(buff)
  <2>1. k \in Nat /\ k <= b /\ k + 1 = b - HeadSize + 2
    <3>1. b \in Nat /\ rtag \in Nat /\ Unread = b - rtag /\ HeadSize \in Nat
      BY <1>3
    <3>. HIDE DEF b
    <3>. QED BY <1>4, <3>1
  <2>. QED BY <2>1
<1>6. /\ buff' \in Seq(Byte) /\ Len(buff') = Len(buff) - k /\ n <= Total
      /\ Unread' = Unread - n /\ Total' = Total - n
      /\ \A i \in 1 .. Total - n : Ahead(i)' = Ahead(n + i)
  <2>1. buff' = SubSeq(buff, k + 1, Len(buff)) /\ wire' = wire /\ rtag' = 0
    BY <1>1, <1>5
  <2>. QED BY <1>2, <1>5, <2>1, BufferAhead
<1>7. InputTypeOK'
  <2>1. Len(buff') <= Capacity /\ rtag' \in 0 .. Len(buff')
    <3>1. Len(buff') = Len(buff) - k /\ Len(buff) \in Nat /\ Len(buff) <= Capacity /\ k <= Len(buff) /\ rtag' = 0
      BY <1>1, <1>3, <1>5, <1>6
    <3>. QED BY <1>3, <3>1
  <2>. QED BY <1>1, <1>2, <1>6, <2>1 DEF InputTypeOK
<1>8. StoppedShort'
  BY <1>1 DEF StoppedShort
<1>9. ASSUME ~dropped' PROVE Streamed'
  <2>1. Streamed
    BY <1>1, <1>9 DEF InputIInv
  <2>2. PICK at \in Offsets : LaidOut(at)
    BY <2>1 DEF Streamed
  <2>3. Undelivered' = Undelivered
    BY <1>1 DEF Undelivered
  <2>4. ASSUME NEW j \in Undelivered PROVE at[j] >= n
    <3>1. at[j] \in Nat /\ HasBaseType(Ahead(at[j] + 1))
      BY <1>2, <2>1, <2>2, FrameWithin DEF Streamed, LaidOut, HoldsFrame
    <3>2. CASE at[j] < n
      <4>1. at[j] + 1 \in 1 .. Unread /\ at[j] + 1 <= Unread
        BY <1>3, <1>4, <3>1, <3>2
      <4>. QED BY <1>1, <3>1, <4>1 DEF Ahead
    <3>. QED BY <3>1, <3>2
  <2>5. /\ Len(sent) <= MaxFrames /\ sent' = sent /\ Len(delivered') \in Nat
        /\ Len(delivered') >= Len(delivered)
    BY <1>1, <1>2, <2>1 DEF InputTypeOK, Streamed
  <2>6. \E at2 \in Offsets : LaidOut(at2)'
    BY <1>2, <1>6, <2>2, <2>3, <2>4, <2>5, LookedAt
  <2>. QED BY <1>1, <2>1, <2>6 DEF Streamed, Offsets
<1>. QED BY <1>7, <1>8, <1>9 DEF InputIInv

LEMMA InputStep == InputIInv /\ [InputNext]_inputVars => InputIInv'
<1> SUFFICES ASSUME InputIInv, [InputNext]_inputVars PROVE InputIInv'
  OBVIOUS
<1>1. CASE \E p \in Payloads : PeerFrame(p)
  BY <1>1, PeerFrameKeeps
<1>2. CASE \E b \in Noise : PeerNoise(b)
  BY <1>2, PeerNoiseKeeps
<1>3. CASE \E n \in 1 .. MaxChunk : Receive(n)
  BY <1>3, ReceiveKeeps
<1>4. CASE Analyse
  BY <1>4, WaitKeeps, FrameKeeps, HeadKeeps, NoHeadKeeps DEF Analyse
<1>5. CASE UNCHANGED inputVars
  <2>1. InputTypeOK' /\ StoppedShort'
    BY <1>5 DEF inputVars, InputIInv, InputTypeOK, StoppedShort, Unread, At, PackageSize, IsMagic
  <2>2. ASSUME Streamed PROVE Streamed'
    <3>1. Undelivered' = Undelivered /\ Total' = Total /\ \A i : Ahead(i)' = Ahead(i)
      BY <1>5 DEF inputVars, Undelivered, Total, Ahead, At, Unread
    <3>2. ASSUME NEW at \in Offsets, LaidOut(at) PROVE LaidOut(at)'
      <4>1. \A p, x : HoldsFrame(p, x) => HoldsFrame(p, x)'
        BY <3>1 DEF HoldsFrame, HasBaseType, IsMagic
      <4>. QED BY <1>5, <3>1, <3>2, <4>1 DEF inputVars, LaidOut, FrameEnd, HasBaseType, IsMagic
    <3>. QED BY <1>5, <2>2, <3>2 DEF inputVars, Streamed, Offsets
  <2>. QED BY <1>5, <2>1, <2>2 DEF inputVars, InputIInv
<1>. QED BY <1>1, <1>2, <1>3, <1>4, <1>5 DEF InputNext

LEMMA WholeFollows == InputIInv => FramesArriveWhole
<1> SUFFICES ASSUME InputIInv, ~dropped
             PROVE  /\ IsPrefix(delivered, sent)
                    /\ wire = << >> /\ ~reading => delivered = sent
  BY DEF FramesArriveWhole
<1>1. InputTypeOK /\ Streamed /\ StoppedShort
  BY DEF InputIInv
<1>2. /\ delivered \in Seq(Seq(Byte)) /\ sent \in Seq(Payloads)
      /\ Len(delivered) \in Nat /\ Len(sent) \in Nat
  BY <1>1 DEF InputTypeOK
<1>3. Len(delivered) <= Len(sent) /\ \A j \in 1 .. Len(delivered) : delivered[j] = sent[j]
  BY <1>1 DEF Streamed
<1>4. IsPrefix(delivered, sent)
  <2>1. SubSeq(delivered, 1, Len(delivered)) = SubSeq(sent, 1, Len(delivered))
    BY <1>2, <1>3
  <2>. QED BY <1>3, <2>1 DEF IsPrefix
<1>5. ASSUME wire = << >>, ~reading, Len(delivered) # Len(sent) PROVE FALSE
  <2>1. PICK at \in Offsets : LaidOut(at)
    BY <1>1 DEF Streamed
  <2>2. PICK j : j = Len(delivered) + 1
    OBVIOUS
  <2>3. j \in Undelivered
    BY <1>2, <1>3, <1>5, <2>2 DEF Undelivered
  <2>4. /\ at[j] \in Nat /\ FrameEnd(at[j], sent[j]) <= Total /\ FrameEnd(at[j], sent[j]) \in Nat
        /\ at[j] + HeadSize <= FrameEnd(at[j], sent[j])
    BY <1>1, <2>1, <2>3, FrameWithin DEF Streamed
  <2>5. Total = Unread /\ Unread \in Nat /\ HeadSize \in Nat
    <3>1. Len(wire) = 0 /\ Unread \in Nat /\ HeadSize \in Nat
      BY <1>1, <1>5, StreamAssumption, TotalIs
    <3>. QED BY <3>1 DEF Total
  <2>6. ~(Unread < HeadSize)
    BY <2>4, <2>5
  <2>7. IsMagic(At(1)) /\ Unread < PackageSize
    BY <1>1, <1>5, <2>6 DEF StoppedShort
  <2>8. FrameEnd(at[j], sent[j]) = PackageSize
    <3>1. LET m == Len(delivered) + 1 IN FrameEnd(at[m], sent[m]) = PackageSize
      BY <1>1, <2>1, <2>5, <2>6, <2>7, NextFrame DEF Streamed
    <3>. QED BY <2>2, <3>1
  <2>. QED BY <2>4, <2>5, <2>7, <2>8
<1>6. ASSUME wire = << >>, ~reading PROVE delivered = sent
  <2>1. Len(delivered) = Len(sent)
    BY <1>5, <1>6
  <2>2. DOMAIN delivered = 1 .. Len(sent) /\ DOMAIN sent = 1 .. Len(sent)
    BY <1>2, <2>1
  <2>3. delivered = [i \in 1 .. Len(sent) |-> delivered[i]] /\ sent = [i \in 1 .. Len(sent) |-> sent[i]]
    BY <1>2, <2>2
  <2>. QED BY <1>3, <2>1, <2>3
<1>. QED BY <1>4, <1>6

\* The inductive invariant of the receiving side: the frames that are on their way
\* are laid out in what the receiver has not looked at.  (input_stream_write,
\* input_stream_analyse_data, input_stream_findhead)
THEOREM InputInvariant == InputSpec => []InputIInv
BY InputAtTheStart, InputStep, PTL DEF InputSpec

\* The indices stay in the buffer.  (input_stream_write, input_stream_findhead)
THEOREM InputTypeCorrect == InputSpec => []InputTypeOK
<1>1. InputIInv => InputTypeOK
  BY DEF InputIInv
<1>. QED BY <1>1, InputInvariant, PTL

\* However the stream is cut, and whatever is between the frames, what a peer sends
\* arrives whole and in order, as long as no chunk is thrown away.
\* (input_stream_analyse_data)
THEOREM InputFramesWhole == InputSpec => []FramesArriveWhole
BY InputInvariant, WholeFollows, PTL

=============================================================================
