---------------------------- MODULE Parts_proofs ----------------------------
(***************************************************************************)
(* Theorems about parts that share no state with each other: the           *)
(* configuration in shared memory (ShareMem), a line of the log (LogLine), *)
(* the files it goes to (LogFile) and the frames that leave by a socket    *)
(* (SocketSend).                                                           *)
(***************************************************************************)
EXTENDS ShareMem, LogLine, LogFile, SocketSend, SequenceTheorems, WellFoundedInduction, TLAPS

-----------------------------------------------------------------------------
(* Facts about numbers and sequences that the parts need. *)

LEMMA LeastThereIs ==
  ASSUME NEW S \in SUBSET Nat, NEW n \in S
  PROVE  Min(S) \in S /\ \A i \in S : Min(S) <= i
<1>1. \E m \in S : \A i \in S : ~(i < m)
  <2>1. \A i, j \in Nat : <<i, j>> \in OpToRel(<, Nat) <=> i < j
    BY DEF OpToRel
  <2>2. \E m \in S : \A i \in S : <<i, m>> \notin OpToRel(<, Nat)
    BY NatLessThanWellFounded, WFMin
  <2>. QED BY <2>1, <2>2
<1>2. \E m \in S : \A i \in S : m <= i
  BY <1>1
<1>. QED BY <1>2 DEF Min

LEMMA BeginningIs ==
  ASSUME NEW S, NEW s \in Seq(S), NEW n \in Nat, n <= Len(s)
  PROVE  /\ SubSeq(s, 1, n) \in Seq(S) /\ Len(SubSeq(s, 1, n)) = n
         /\ \A i \in 1 .. n : SubSeq(s, 1, n)[i] = s[i]
<1>1. n \in Int /\ 1 \in Int /\ \A i \in 1 .. n : s[i] \in S
  OBVIOUS
<1>2. /\ SubSeq(s, 1, n) \in Seq(S)
      /\ Len(SubSeq(s, 1, n)) = IF 1 <= n THEN n - 1 + 1 ELSE 0
      /\ \A i \in 1 .. n - 1 + 1 : SubSeq(s, 1, n)[i] = s[1 + i - 1]
  BY <1>1, SubSeqProperties
<1>. QED BY <1>2

\* The place of the first 0, or the end.
EndsAt(s, n) == (\A i \in 1 .. n : s[i] # 0) /\ (n < Len(s) => s[n + 1] = 0)

LEMMA StrLenIs ==
  ASSUME NEW s \in Seq(Nat)
  PROVE  StrLen(s) \in 0 .. Len(s) /\ EndsAt(s, StrLen(s))
<1>1. \E n \in 0 .. Len(s) : EndsAt(s, n)
  <2> DEFINE I == {i \in 1 .. Len(s) : s[i] = 0}
  <2>1. CASE I = {}
    <3>1. Len(s) \in 0 .. Len(s) /\ EndsAt(s, Len(s))
      BY <2>1 DEF EndsAt
    <3>. QED BY <3>1
  <2>2. CASE I # {}
    <3>1. I \in SUBSET Nat
      OBVIOUS
    <3>2. PICK j \in I : TRUE
      BY <2>2
    <3>3. Min(I) \in I /\ \A i \in I : Min(I) <= i
      BY <3>1, <3>2, LeastThereIs
    <3> DEFINE n == Min(I) - 1
    <3>4. Min(I) \in 1 .. Len(s) /\ s[Min(I)] = 0
      BY <3>3
    <3>5. n \in 0 .. Len(s) /\ n + 1 = Min(I)
      BY <3>4
    <3>6. \A i \in 1 .. n : s[i] # 0
      BY <3>3, <3>4
    <3>. HIDE DEF n
    <3>7. EndsAt(s, n)
      BY <3>4, <3>5, <3>6 DEF EndsAt
    <3>. QED BY <3>5, <3>7
  <2>. QED BY <2>1, <2>2
<1>. QED BY <1>1 DEF StrLen, EndsAt

LEMMA CStringIs ==
  ASSUME NEW s \in Seq(Nat)
  PROVE  /\ CString(s) \in Seq(Nat) /\ Len(CString(s)) = StrLen(s)
         /\ \A i \in 1 .. StrLen(s) : CString(s)[i] = s[i]
BY StrLenIs, BeginningIs DEF CString

\* Bytes that begin with a text begin with it as C strings.
LEMMA StringBegins ==
  ASSUME NEW text \in Seq(Nat), NEW data \in Seq(Nat), Len(text) <= Len(data),
         \A i \in 1 .. Len(text) : data[i] = text[i]
  PROVE  /\ IsPrefix(CString(text), CString(data))
         /\ 0 \in Range(text) => CString(data) = CString(text)
<1> DEFINE m == StrLen(text)
           n == StrLen(data)
<1>1. /\ Len(text) \in Nat /\ Len(data) \in Nat
      /\ m \in 0 .. Len(text) /\ EndsAt(text, m) /\ n \in 0 .. Len(data) /\ EndsAt(data, n)
  BY StrLenIs
<1>2. /\ CString(text) \in Seq(Nat) /\ Len(CString(text)) = m
      /\ CString(data) \in Seq(Nat) /\ Len(CString(data)) = n
      /\ \A i \in 1 .. m : CString(text)[i] = text[i]
      /\ \A i \in 1 .. n : CString(data)[i] = data[i]
  BY CStringIs
<1>. HIDE DEF m, n
<1>3. m <= n
  <2> SUFFICES ASSUME n < m PROVE FALSE
    BY <1>1
  <2>1. n + 1 \in 1 .. m /\ n + 1 \in 1 .. Len(text) /\ n < Len(data)
    BY <1>1
  <2>2. data[n + 1] = 0 /\ text[n + 1] # 0
    BY <1>1, <2>1 DEF EndsAt
  <2>. QED BY <2>1, <2>2
<1>4. m < Len(text) => n = m
  <2> SUFFICES ASSUME m < Len(text), m < n PROVE FALSE
    BY <1>1, <1>3
  <2>1. m + 1 \in 1 .. n /\ m + 1 \in 1 .. Len(text)
    BY <1>1
  <2>2. text[m + 1] = 0 /\ data[m + 1] # 0
    BY <1>1, <2>1 DEF EndsAt
  <2>. QED BY <2>1, <2>2
<1>5. 0 \in Range(text) => m < Len(text)
  <2> SUFFICES ASSUME 0 \in Range(text) PROVE m # Len(text)
    BY <1>1
  <2>1. PICK i \in 1 .. Len(text) : text[i] = 0
    BY DEF Range
  <2>. QED BY <1>1, <2>1 DEF EndsAt
<1>6. ASSUME NEW i \in 1 .. m PROVE CString(data)[i] = CString(text)[i]
  <2>1. i \in 1 .. n /\ i \in 1 .. Len(text)
    BY <1>1, <1>3
  <2>2. CString(data)[i] = data[i] /\ CString(text)[i] = text[i]
    BY <1>2, <2>1
  <2>. QED BY <2>1, <2>2
<1>7. IsPrefix(CString(text), CString(data))
  <2>1. /\ SubSeq(CString(text), 1, m) \in Seq(Nat) /\ Len(SubSeq(CString(text), 1, m)) = m
        /\ \A i \in 1 .. m : SubSeq(CString(text), 1, m)[i] = CString(text)[i]
    BY <1>1, <1>2, BeginningIs
  <2>2. /\ SubSeq(CString(data), 1, m) \in Seq(Nat) /\ Len(SubSeq(CString(data), 1, m)) = m
        /\ \A i \in 1 .. m : SubSeq(CString(data), 1, m)[i] = CString(data)[i]
    BY <1>1, <1>2, <1>3, BeginningIs
  <2>3. SubSeq(CString(text), 1, m) = SubSeq(CString(data), 1, m)
    BY <1>6, <2>1, <2>2, SeqEqual
  <2>. QED BY <1>2, <1>3, <2>3 DEF IsPrefix
<1>8. 0 \in Range(text) => CString(data) = CString(text)
  BY <1>2, <1>4, <1>5, <1>6, SeqEqual
<1>. QED BY <1>7, <1>8

Flattens(s, f) == f = [i \in 1 .. Len(s) |-> IF i = 1 THEN s[i] ELSE f[i - 1] \o s[i]]

\* What is built up like a flattened sequence ends in it.
LEMMA FlattenIs ==
  ASSUME NEW s, Len(s) \in Nat \ {0}, NEW g, Flattens(s, g)
  PROVE  FlattenSeq(s) = g[Len(s)]
<1> DEFINE f == CHOOSE f : Flattens(s, f)
<1>1. Flattens(s, f)
  OBVIOUS
<1>2. FlattenSeq(s) = f[Len(s)]
  BY DEF FlattenSeq, Flattens
<1>. HIDE DEF f
<1>3. \A i \in 1 .. Len(s) : /\ f[i] = IF i = 1 THEN s[i] ELSE f[i - 1] \o s[i]
                             /\ g[i] = IF i = 1 THEN s[i] ELSE g[i - 1] \o s[i]
  BY <1>1 DEF Flattens
<1> DEFINE Apart == {i \in 1 .. Len(s) : f[i] # g[i]}
<1>4. Apart = {}
  <2> SUFFICES ASSUME NEW k \in Apart PROVE FALSE
    OBVIOUS
  <2> DEFINE m == Min(Apart)
  <2>1. m \in Apart /\ \A i \in Apart : m <= i
    <3>1. Apart \in SUBSET Nat
      OBVIOUS
    <3>. HIDE DEF Apart
    <3>. QED BY <3>1, LeastThereIs
  <2>. HIDE DEF m
  <2>2. m \in 1 .. Len(s) /\ f[m] # g[m]
    BY <2>1
  <2>3. m # 1
    BY <1>3, <2>2
  <2>4. m - 1 \in 1 .. Len(s) /\ m - 1 < m
    BY <2>2, <2>3
  <2>5. f[m - 1] = g[m - 1]
    BY <2>1, <2>4
  <2>. QED BY <1>3, <2>2, <2>3, <2>5
<1>. QED BY <1>2, <1>4

-----------------------------------------------------------------------------
(* ShareMem *)

FileRecord == [name : Names, text : Contents]

ShareTypeOK ==
  /\ DOMAIN place = Loaders \cup Readers
  /\ DOMAIN buffer = Loaders
  /\ DOMAIN wanted = Readers /\ DOMAIN config = Readers
  /\ shm = Absent \/ shm \in SharedJSON
  /\ longest \in Nat
  /\ \A l \in Loaders : place[l] \in {"create", "head", "data"} => buffer[l] \in FileRecord

\* A load that met no other is the only one, its memory is long enough, and when
\* it has written the head nobody has written it since.
LoadAlone ==
  \A l \in Writing :
    /\ shm \in SharedJSON
    /\ l \notin torn =>
         /\ Writing = {l}
         /\ Len(buffer[l].text) + 1 <= Len(shm.json_data)
         /\ place[l] = "data" =>
              shm.filename = buffer[l].name /\ shm.data_size = Len(buffer[l].text)

\* Between two loads the memory holds what the last one put there.
Settled ==
  Writing = {} /\ latest # Absent =>
    /\ latest \in FileRecord /\ shm \in SharedJSON
    /\ shm.filename = latest.name /\ shm.data_size = Len(latest.text)
    /\ Len(latest.text) <= Len(shm.json_data)
    /\ \A i \in 1 .. Len(latest.text) : shm.json_data[i] = latest.text[i]

\* Behind the longest text and its stray byte nobody has written.
ZerosBehind ==
  shm # Absent => \A i \in 1 .. Len(shm.json_data) : i > longest + 1 => shm.json_data[i] = 0

\* While a reader that met no load is at work no load begins to write, and the
\* name it has compared is still the one in the memory.
ReadAlone ==
  \A r \in Reading :
    /\ shm \in SharedJSON
    /\ r \notin torn =>
         /\ Writing = {}
         /\ place[r] = "copy" => shm.filename = wanted[r]

ShareIInv == ShareTypeOK /\ LoadAlone /\ Settled /\ ZerosBehind /\ ReadAlone /\ ConfigWhole

\* The pages hold the text they were taken for and the stray byte.
LEMMA RoomIsEnough == ASSUME NEW n \in Nat PROVE Room(n) \in Nat /\ Room(n) >= n + 1
<1>1. Header \in Nat /\ Page \in Nat \ {0}
  BY ShareAssumption
<1> DEFINE m == Header + 1 + n + Page - 1
           q == m \div Page
<1>2. m \in Nat /\ q \in Nat /\ m = Page * q + (m % Page) /\ m % Page \in 0 .. Page - 1
  BY <1>1
<1>3. Page * q >= Header + 1 + n
  <2>. HIDE DEF q
  <2>1. Page * q \in Nat
    BY <1>1, <1>2
  <2>. QED BY <1>1, <1>2, <2>1
<1>4. q * Page = Page * q /\ q * Page \in Nat
  BY <1>1, <1>2
<1>. QED BY <1>1, <1>3, <1>4 DEF Room

LEMMA OverIs ==
  ASSUME NEW text \in Seq(Nat), NEW memory \in Seq(Nat)
  PROVE  /\ Over(text, memory) \in Seq(Nat) /\ Len(Over(text, memory)) = Len(memory)
         /\ \A i \in 1 .. Len(memory) :
              Over(text, memory)[i] = IF i \in 1 .. Len(text) THEN text[i] ELSE memory[i]
<1>1. DOMAIN memory = 1 .. Len(memory) /\ DOMAIN text = 1 .. Len(text)
  OBVIOUS
<1>2. \A i \in 1 .. Len(memory) : Over(text, memory)[i] = IF i \in 1 .. Len(text) THEN text[i] ELSE memory[i]
  BY <1>1 DEF Over
<1>3. Over(text, memory) \in [1 .. Len(memory) -> Nat]
  BY <1>1 DEF Over
<1>. QED BY <1>2, <1>3

LEMMA ZerosIs == ASSUME NEW n \in Nat PROVE Zeros(n) \in Seq(Nat) /\ Len(Zeros(n)) = n
BY DEF Zeros

\* What a file that may be loaded is.
LEMMA FileText ==
  ASSUME NEW f \in FileRecord
  PROVE  f.name \in Names /\ f.text \in Seq(Nat) /\ Len(f.text) \in Nat
BY ShareAssumption DEF FileRecord

LEMMA ShareInitial == ShareInit => ShareIInv
<1> SUFFICES ASSUME ShareInit PROVE ShareIInv
  OBVIOUS
<1>1. Writing = {} /\ Reading = {} /\ \A p \in Loaders \cup Readers : place[p] = "idle"
  BY DEF ShareInit, Writing, Reading
<1>2. ShareTypeOK
  BY <1>1 DEF ShareInit, ShareTypeOK
<1>3. Settled
  BY DEF ShareInit, Settled
<1>4. ConfigWhole
  BY DEF ShareInit, ConfigWhole, NoResult
<1>5. ZerosBehind
  BY DEF ShareInit, ZerosBehind
<1>. QED BY <1>1, <1>2, <1>3, <1>4, <1>5 DEF ShareIInv, LoadAlone, ReadAlone

\* What moving one script does to the sets of those that read and write.
LEMMA MovedIs ==
  ASSUME ShareTypeOK, NEW p \in Loaders \cup Readers, NEW to, Moved(p, to)
  PROVE  /\ DOMAIN place' = Loaders \cup Readers
         /\ place'[p] = to
         /\ \A q \in (Loaders \cup Readers) \ {p} : place'[q] = place[q]
         /\ Writing' = IF p \in Loaders /\ to \in {"head", "data"} THEN Writing \cup {p} ELSE Writing \ {p}
         /\ Reading' = IF p \in Readers /\ to \in {"check", "copy"} THEN Reading \cup {p} ELSE Reading \ {p}
<1>1. /\ DOMAIN place' = Loaders \cup Readers /\ place'[p] = to
      /\ \A q \in (Loaders \cup Readers) \ {p} : place'[q] = place[q]
  BY DEF ShareTypeOK, Moved
<1>2. Writing' = IF p \in Loaders /\ to \in {"head", "data"} THEN Writing \cup {p} ELSE Writing \ {p}
  BY <1>1 DEF Writing
<1>3. Reading' = IF p \in Readers /\ to \in {"check", "copy"} THEN Reading \cup {p} ELSE Reading \ {p}
  BY <1>1 DEF Reading
<1>. QED BY <1>1, <1>2, <1>3

LEMMA LoadReadStep ==
  ASSUME ShareIInv, NEW l \in Loaders, NEW n \in Names, NEW text \in Contents, LoadRead(l, n, text)
  PROVE  ShareIInv'
<1>1. ShareTypeOK /\ LoadAlone /\ Settled /\ ZerosBehind /\ ReadAlone /\ ConfigWhole
  BY DEF ShareIInv
<1>2. /\ place[l] = "idle" /\ Moved(l, "create")
      /\ buffer' = [buffer EXCEPT ![l] = [name |-> n, text |-> text]]
      /\ UNCHANGED <<windows, shm, wanted, config, latest, torn, longest>>
  BY DEF LoadRead
<1>3. /\ place'[l] = "create" /\ DOMAIN place' = Loaders \cup Readers
      /\ \A q \in (Loaders \cup Readers) \ {l} : place'[q] = place[q]
      /\ Writing' = Writing /\ Reading' = Reading /\ l \notin Writing /\ l \notin Reading
  BY <1>1, <1>2, MovedIs DEF Writing, Reading
<1>4. /\ DOMAIN buffer' = Loaders /\ buffer'[l] \in FileRecord
      /\ \A q \in Loaders \ {l} : buffer'[q] = buffer[q]
  BY <1>1, <1>2 DEF ShareTypeOK, FileRecord
<1>5. ShareTypeOK'
  BY <1>1, <1>2, <1>3, <1>4 DEF ShareTypeOK
<1>6. LoadAlone'
  BY <1>1, <1>2, <1>3, <1>4 DEF LoadAlone, Writing
<1>7. Settled'
  BY <1>1, <1>2, <1>3 DEF Settled
<1>8. ReadAlone'
  BY <1>1, <1>2, <1>3 DEF ReadAlone, Reading
<1>9. ConfigWhole'
  BY <1>1, <1>2 DEF ConfigWhole
<1>10. ZerosBehind'
  BY <1>1, <1>2 DEF ZerosBehind
<1>. QED BY <1>5, <1>6, <1>7, <1>8, <1>9, <1>10 DEF ShareIInv

LEMMA LoadCreateStep ==
  ASSUME ShareIInv, NEW l \in Loaders, LoadCreate(l)
  PROVE  ShareIInv'
<1>1. ShareTypeOK /\ LoadAlone /\ Settled /\ ZerosBehind /\ ReadAlone /\ ConfigWhole
  BY DEF ShareIInv
<1> DEFINE room == Room(Len(buffer[l].text))
<1>2. /\ place[l] = "create" /\ buffer[l] \in FileRecord
      /\ UNCHANGED <<windows, wanted, config, latest, longest>>
      /\ torn' = (torn \ {l}) \cup Reading \cup Writing \cup (IF Writing = {} THEN {} ELSE {l})
      /\ buffer' = IF place'[l] = "idle" THEN [buffer EXCEPT ![l] = Absent] ELSE buffer
  BY <1>1 DEF LoadCreate, ShareTypeOK
<1>3. room \in Nat /\ Len(buffer[l].text) \in Nat /\ Len(buffer[l].text) + 1 <= room
  BY <1>2, FileText, RoomIsEnough
<1>4. \/ /\ Moved(l, "head") /\ shm' \in SharedJSON
         /\ Len(buffer[l].text) + 1 <= Len(shm'.json_data)
      \/ Moved(l, "idle") /\ shm' = shm
  <2>1. CASE /\ shm = Absent /\ Moved(l, "head")
             /\ shm' = [filename |-> Absent, data_size |-> 0, json_data |-> Zeros(room)]
    BY <1>3, <2>1, ZerosIs DEF SharedJSON
  <2>2. CASE /\ shm # Absent /\ shm' = shm
             /\ Moved(l, IF room <= Len(shm.json_data) THEN "head" ELSE "idle")
    <3>1. shm \in SharedJSON /\ Len(shm.json_data) \in Nat
      BY <1>1, <2>2 DEF ShareTypeOK, SharedJSON
    <3>. QED BY <1>3, <2>2, <3>1
  <2>3. CASE /\ shm # Absent /\ Moved(l, "head")
             /\ shm' = [shm EXCEPT !.json_data = Over(@, Zeros(room))]
    <3>1. shm \in SharedJSON /\ shm.json_data \in Seq(Nat)
      BY <1>1, <2>3 DEF ShareTypeOK, SharedJSON
    <3>2. /\ Over(shm.json_data, Zeros(room)) \in Seq(Nat)
          /\ Len(Over(shm.json_data, Zeros(room))) = room
      BY <1>3, <3>1, ZerosIs, OverIs
    <3>3. shm' \in SharedJSON /\ shm'.json_data = Over(shm.json_data, Zeros(room))
      BY <2>3, <3>1, <3>2 DEF SharedJSON
    <3>. QED BY <1>3, <2>3, <3>2, <3>3
  <2>. QED BY <2>1, <2>2, <2>3 DEF LoadCreate
<1>5. /\ DOMAIN place' = Loaders \cup Readers
      /\ \A q \in (Loaders \cup Readers) \ {l} : place'[q] = place[q]
      /\ place'[l] \in {"head", "idle"} /\ l \notin Writing /\ l \notin Reading
      /\ Reading' = Reading /\ Writing' = IF place'[l] = "head" THEN Writing \cup {l} ELSE Writing
  <2>1. l \notin Writing /\ l \notin Reading
    BY <1>2 DEF Writing, Reading
  <2>2. CASE Moved(l, "head")
    <3>1. /\ DOMAIN place' = Loaders \cup Readers /\ place'[l] = "head"
          /\ \A q \in (Loaders \cup Readers) \ {l} : place'[q] = place[q]
          /\ Writing' = Writing \cup {l}
          /\ Reading' = Reading \ {l}
      BY <1>1, <2>2, MovedIs
    <3>. QED BY <2>1, <3>1
  <2>3. CASE Moved(l, "idle")
    <3>1. /\ DOMAIN place' = Loaders \cup Readers /\ place'[l] = "idle"
          /\ \A q \in (Loaders \cup Readers) \ {l} : place'[q] = place[q]
          /\ Writing' = Writing \ {l}
          /\ Reading' = Reading \ {l}
      BY <1>1, <2>3, MovedIs
    <3>. QED BY <2>1, <3>1
  <2>. QED BY <1>4, <2>2, <2>3
<1>6. /\ DOMAIN buffer' = Loaders /\ \A q \in Loaders \ {l} : buffer'[q] = buffer[q]
      /\ place'[l] = "head" => buffer'[l] = buffer[l]
  BY <1>1, <1>2, <1>5 DEF ShareTypeOK
<1>7. /\ place'[l] = "head" => shm' \in SharedJSON /\ Len(buffer[l].text) + 1 <= Len(shm'.json_data)
      /\ place'[l] = "idle" => shm' = shm
      /\ shm \in SharedJSON => shm' \in SharedJSON
      /\ shm' = Absent \/ shm' \in SharedJSON
  BY <1>1, <1>4, <1>5, MovedIs DEF ShareTypeOK
<1>8. ShareTypeOK'
  BY <1>1, <1>2, <1>5, <1>6, <1>7 DEF ShareTypeOK
<1>9. LoadAlone'
  <2> SUFFICES ASSUME NEW k \in Writing'
               PROVE  /\ shm' \in SharedJSON
                      /\ k \notin torn' =>
                           /\ Writing' = {k}
                           /\ Len(buffer'[k].text) + 1 <= Len(shm'.json_data)
                           /\ place'[k] # "data"
    BY DEF LoadAlone
  <2>1. shm' \in SharedJSON
    BY <1>1, <1>5, <1>7 DEF LoadAlone
  <2>2. k \notin torn' => k = l /\ Writing = {} /\ place'[l] = "head"
    BY <1>2, <1>5
  <2>. QED BY <1>5, <1>6, <1>7, <2>1, <2>2
<1>10. Settled'
  BY <1>1, <1>2, <1>5, <1>7 DEF Settled
<1>11. ReadAlone'
  BY <1>1, <1>2, <1>5, <1>7 DEF ReadAlone
<1>12. ConfigWhole'
  BY <1>1, <1>2 DEF ConfigWhole
<1>13. ZerosBehind'
  <2>1. shm' = shm \/ \A i \in 1 .. Len(shm'.json_data) : i > longest + 1 => shm'.json_data[i] = 0
    <3>1. CASE shm' = [filename |-> Absent, data_size |-> 0, json_data |-> Zeros(room)]
      BY <1>3, <3>1, ZerosIs DEF Zeros
    <3>2. CASE shm # Absent /\ shm' = [shm EXCEPT !.json_data = Over(@, Zeros(room))]
      <4> DEFINE old == shm.json_data
      <4>1. shm \in SharedJSON /\ old \in Seq(Nat) /\ longest \in Nat
        BY <1>1, <3>2 DEF ShareTypeOK, SharedJSON
      <4>2. Zeros(room) \in Seq(Nat) /\ Len(Zeros(room)) = room /\ \A i \in 1 .. room : Zeros(room)[i] = 0
        BY <1>3, ZerosIs DEF Zeros
      <4>3. \A i \in 1 .. Len(old) : i > longest + 1 => old[i] = 0
        BY <1>1, <3>2 DEF ZerosBehind
      <4>4. shm'.json_data = Over(old, Zeros(room))
        BY <3>2, <4>1 DEF SharedJSON
      <4>. HIDE DEF old, room
      <4>5. /\ Len(Over(old, Zeros(room))) = room
            /\ \A i \in 1 .. room : Over(old, Zeros(room))[i] = IF i \in 1 .. Len(old) THEN old[i] ELSE Zeros(room)[i]
        BY <4>1, <4>2, OverIs
      <4>. QED BY <4>2, <4>3, <4>4, <4>5
    <3>. QED BY <3>1, <3>2 DEF LoadCreate
  <2>. QED BY <1>1, <1>2, <2>1 DEF ZerosBehind
<1>. QED BY <1>8, <1>9, <1>10, <1>11, <1>12, <1>13 DEF ShareIInv

LEMMA LoadHeadStep ==
  ASSUME ShareIInv, NEW l \in Loaders, LoadHead(l)
  PROVE  ShareIInv'
<1>1. ShareTypeOK /\ LoadAlone /\ Settled /\ ZerosBehind /\ ReadAlone /\ ConfigWhole
  BY DEF ShareIInv
<1>2. /\ place[l] = "head" /\ Moved(l, "data") /\ torn' = torn \cup Reading
      /\ shm' = [shm EXCEPT !.filename = buffer[l].name, !.data_size = Len(buffer[l].text)]
      /\ UNCHANGED <<windows, buffer, wanted, config, latest, longest>>
  BY DEF LoadHead
<1>3. l \in Writing /\ buffer[l] \in FileRecord /\ shm \in SharedJSON
  BY <1>1, <1>2 DEF Writing, LoadAlone, ShareTypeOK
<1>4. /\ DOMAIN place' = Loaders \cup Readers /\ place'[l] = "data"
      /\ \A q \in (Loaders \cup Readers) \ {l} : place'[q] = place[q]
      /\ Reading' = Reading /\ Writing' = Writing /\ l \notin Reading
  BY <1>1, <1>2, <1>3, MovedIs DEF Writing, Reading
<1>5. /\ shm' \in SharedJSON /\ shm'.json_data = shm.json_data
      /\ shm'.filename = buffer[l].name /\ shm'.data_size = Len(buffer[l].text)
  BY <1>2, <1>3, FileText DEF SharedJSON
<1>6. ShareTypeOK'
  BY <1>1, <1>2, <1>3, <1>4, <1>5 DEF ShareTypeOK
<1>7. LoadAlone'
  BY <1>1, <1>2, <1>3, <1>4, <1>5 DEF LoadAlone
<1>8. Settled'
  BY <1>3, <1>4 DEF Settled
<1>9. ReadAlone'
  BY <1>2, <1>4, <1>5 DEF ReadAlone
<1>10. ConfigWhole'
  BY <1>1, <1>2 DEF ConfigWhole
<1>11. ZerosBehind'
  BY <1>1, <1>2, <1>3, <1>5, ShareAssumption DEF ZerosBehind
<1>. QED BY <1>6, <1>7, <1>8, <1>9, <1>10, <1>11 DEF ShareIInv

\* What scripts have been given is still within the bounds when they grow.
LEMMA LongerStill ==
  ASSUME ShareTypeOK, ConfigWhole, UNCHANGED <<wanted, config>>, longest' \in Nat, longest <= longest'
  PROVE  ConfigWhole'
<1> SUFFICES ASSUME NEW r \in Readers, config[r].text # Absent
             PROVE  Len(config[r].text) <= longest' + 1
  BY DEF ConfigWhole
<1>. QED BY DEF ConfigWhole, ShareTypeOK

LEMMA LoadDataStep ==
  ASSUME ShareIInv, NEW l \in Loaders, NEW stray \in Stray, LoadData(l, stray)
  PROVE  ShareIInv'
<1>1. ShareTypeOK /\ LoadAlone /\ Settled /\ ZerosBehind /\ ReadAlone /\ ConfigWhole
  BY DEF ShareIInv
<1> DEFINE text == buffer[l].text
           bytes == Append(text, stray)
<1>2. /\ place[l] = "data" /\ torn' = (torn \cup Reading) \ {l}
      /\ latest' = (IF l \in torn THEN Absent ELSE buffer[l])
      /\ buffer' = [buffer EXCEPT ![l] = Absent]
      /\ UNCHANGED <<windows, wanted, config>>
      /\ IF Len(text) + 1 <= Len(shm.json_data)
         THEN /\ shm' = [shm EXCEPT !.json_data = Over(bytes, @)] /\ Moved(l, "idle")
              /\ longest' = IF Len(text) > longest THEN Len(text) ELSE longest
         ELSE Moved(l, "crashed") /\ shm' = shm /\ longest' = longest
  BY DEF LoadData
<1>3. l \in Writing /\ buffer[l] \in FileRecord /\ shm \in SharedJSON
  BY <1>1, <1>2 DEF Writing, LoadAlone, ShareTypeOK
<1>4. /\ DOMAIN place' = Loaders \cup Readers /\ place'[l] \in {"idle", "crashed"}
      /\ \A q \in (Loaders \cup Readers) \ {l} : place'[q] = place[q]
      /\ Reading' = Reading /\ Writing' = Writing \ {l} /\ l \notin Reading
  <2>1. l \notin Reading
    BY <1>2 DEF Reading
  <2>2. CASE Moved(l, "idle")
    <3>1. /\ DOMAIN place' = Loaders \cup Readers /\ place'[l] = "idle"
          /\ \A q \in (Loaders \cup Readers) \ {l} : place'[q] = place[q]
          /\ Writing' = Writing \ {l}
          /\ Reading' = Reading \ {l}
      BY <1>1, <2>2, MovedIs
    <3>. QED BY <2>1, <3>1
  <2>3. CASE Moved(l, "crashed")
    <3>1. /\ DOMAIN place' = Loaders \cup Readers /\ place'[l] = "crashed"
          /\ \A q \in (Loaders \cup Readers) \ {l} : place'[q] = place[q]
          /\ Writing' = Writing \ {l}
          /\ Reading' = Reading \ {l}
      BY <1>1, <2>3, MovedIs
    <3>. QED BY <2>1, <3>1
  <2>. QED BY <1>2, <2>2, <2>3
<1>5. /\ text \in Seq(Nat) /\ shm.json_data \in Seq(Nat) /\ Len(text) \in Nat
      /\ bytes \in Seq(Nat) /\ Len(bytes) = Len(text) + 1
      /\ \A i \in 1 .. Len(text) : bytes[i] = text[i]
  <2>1. text \in Seq(Nat) /\ shm.json_data \in Seq(Nat) /\ stray \in Nat
    BY <1>3, FileText, ShareAssumption DEF SharedJSON
  <2>. HIDE DEF text
  <2>. QED BY <2>1, AppendProperties
<1>6. /\ shm' \in SharedJSON /\ Len(shm'.json_data) = Len(shm.json_data)
      /\ shm'.filename = shm.filename /\ shm'.data_size = shm.data_size
      /\ Len(text) + 1 <= Len(shm.json_data) => shm'.json_data = Over(bytes, shm.json_data)
  <2>1. /\ Over(bytes, shm.json_data) \in Seq(Nat)
        /\ Len(Over(bytes, shm.json_data)) = Len(shm.json_data)
    BY <1>5, OverIs
  <2>2. CASE Len(text) + 1 <= Len(shm.json_data)
    <3>1. shm' = [shm EXCEPT !.json_data = Over(bytes, shm.json_data)]
      BY <1>2, <2>2
    <3>. HIDE DEF text, bytes
    <3>. QED BY <1>3, <2>1, <2>2, <3>1 DEF SharedJSON
  <2>3. CASE ~(Len(text) + 1 <= Len(shm.json_data))
    BY <1>2, <1>3, <2>3
  <2>. QED BY <2>2, <2>3
<1>7. DOMAIN buffer' = Loaders /\ \A q \in Loaders \ {l} : buffer'[q] = buffer[q]
  BY <1>1, <1>2 DEF ShareTypeOK
<1>13. longest \in Nat /\ longest' \in Nat /\ longest <= longest' /\ (longest' = longest \/ longest' >= Len(text))
  BY <1>1, <1>2, <1>5 DEF ShareTypeOK
<1>8. ShareTypeOK'
  BY <1>1, <1>2, <1>4, <1>6, <1>7, <1>13 DEF ShareTypeOK
<1>9. LoadAlone'
  <2>1. ASSUME NEW k \in Writing' PROVE k \in torn'
    BY <1>1, <1>2, <1>3, <1>4, <2>1 DEF LoadAlone
  <2>. QED BY <1>6, <2>1 DEF LoadAlone
<1>10. Settled'
  <2> SUFFICES ASSUME latest' # Absent PROVE Settled'
    BY DEF Settled
  <2>1. l \notin torn /\ latest' = buffer[l]
    BY <1>2
  <2>2. shm.filename = buffer[l].name /\ shm.data_size = Len(text) /\ Len(text) + 1 <= Len(shm.json_data)
    BY <1>1, <1>2, <1>3, <2>1 DEF LoadAlone
  <2>3. \A i \in 1 .. Len(text) : shm'.json_data[i] = text[i]
    <3>1. Len(text) \in Nat /\ Len(shm.json_data) \in Nat
      BY <1>5
    <3>2. \A i \in 1 .. Len(shm.json_data) :
            Over(bytes, shm.json_data)[i] = IF i \in 1 .. Len(bytes) THEN bytes[i] ELSE shm.json_data[i]
      BY <1>5, OverIs
    <3>3. Len(bytes) = Len(text) + 1 /\ \A i \in 1 .. Len(text) : bytes[i] = text[i]
      BY <1>5
    <3>4. shm'.json_data = Over(bytes, shm.json_data)
      BY <1>6, <2>2
    <3>. HIDE DEF text, bytes
    <3>. QED BY <2>2, <3>1, <3>2, <3>3, <3>4
  <2>. QED BY <1>3, <1>6, <2>1, <2>2, <2>3 DEF Settled
<1>11. ReadAlone'
  BY <1>2, <1>4, <1>6 DEF ReadAlone
<1>12. ConfigWhole'
  BY <1>1, <1>2, <1>13, LongerStill DEF ShareTypeOK
<1>14. ZerosBehind'
  <2> SUFFICES ASSUME NEW i \in 1 .. Len(shm'.json_data), i > longest' + 1
               PROVE  shm'.json_data[i] = 0
    BY DEF ZerosBehind
  <2>1. i \in 1 .. Len(shm.json_data) /\ i > longest + 1 /\ shm.json_data[i] = 0
    <3>1. Len(shm.json_data) \in Nat /\ i \in 1 .. Len(shm.json_data)
      BY <1>5, <1>6
    <3>2. i > longest + 1
      <4> DEFINE now == longest'
      <4>1. longest \in Nat /\ now \in Nat /\ longest <= now /\ i \in Nat
        BY <1>13, <3>1
      <4>2. i > now + 1
        OBVIOUS
      <4>. HIDE DEF now
      <4>. QED BY <4>1, <4>2
    <3>3. shm # Absent
      BY <1>3, ShareAssumption
    <3>. QED BY <1>1, <3>1, <3>2, <3>3 DEF ZerosBehind
  <2>2. CASE Len(text) + 1 <= Len(shm.json_data)
    <3>1. longest' >= Len(text) /\ ~(i \in 1 .. Len(bytes))
      BY <1>2, <1>5, <1>13, <2>2
    <3>2. \A k \in 1 .. Len(shm.json_data) :
            Over(bytes, shm.json_data)[k] = IF k \in 1 .. Len(bytes) THEN bytes[k] ELSE shm.json_data[k]
      BY <1>5, OverIs
    <3>. QED BY <1>6, <2>1, <2>2, <3>1, <3>2
  <2>3. CASE ~(Len(text) + 1 <= Len(shm.json_data))
    BY <1>2, <2>1, <2>3
  <2>. QED BY <2>2, <2>3
<1>. QED BY <1>8, <1>9, <1>10, <1>11, <1>12, <1>14 DEF ShareIInv

LEMMA ReadMapStep ==
  ASSUME ShareIInv, NEW r \in Readers, NEW n \in Names, ReadMap(r, n)
  PROVE  ShareIInv'
<1>1. ShareTypeOK /\ LoadAlone /\ Settled /\ ZerosBehind /\ ReadAlone /\ ConfigWhole
  BY DEF ShareIInv
<1>2. /\ place[r] = "idle" /\ shm \in SharedJSON
      /\ wanted' = [wanted EXCEPT ![r] = n] /\ config' = [config EXCEPT ![r] = NoResult]
      /\ Moved(r, IF windows THEN "check" ELSE "crashed")
      /\ torn' = (IF Writing = {} THEN torn \ {r} ELSE torn \cup {r})
      /\ UNCHANGED <<windows, shm, buffer, latest, longest>>
  BY <1>1 DEF ReadMap, ShareTypeOK
<1>3. /\ DOMAIN place' = Loaders \cup Readers /\ place'[r] \in {"check", "crashed"}
      /\ \A q \in (Loaders \cup Readers) \ {r} : place'[q] = place[q]
      /\ Reading' \subseteq Reading \cup {r} /\ Writing' = Writing /\ r \notin Writing
  BY <1>1, <1>2, MovedIs DEF Writing, Reading
<1>4. ShareTypeOK'
  BY <1>1, <1>2, <1>3 DEF ShareTypeOK
<1>5. LoadAlone'
  BY <1>1, <1>2, <1>3 DEF LoadAlone, Writing
<1>6. Settled'
  BY <1>1, <1>2, <1>3 DEF Settled
<1>7. ReadAlone'
  BY <1>1, <1>2, <1>3 DEF ReadAlone, ShareTypeOK, Reading
<1>8. ConfigWhole'
  BY <1>1, <1>2 DEF ConfigWhole, ShareTypeOK, NoResult
<1>9. ZerosBehind'
  BY <1>1, <1>2 DEF ZerosBehind
<1>. QED BY <1>4, <1>5, <1>6, <1>7, <1>8, <1>9 DEF ShareIInv

LEMMA ReadCheckStep ==
  ASSUME ShareIInv, NEW r \in Readers, ReadCheck(r)
  PROVE  ShareIInv'
<1>1. ShareTypeOK /\ LoadAlone /\ Settled /\ ZerosBehind /\ ReadAlone /\ ConfigWhole
  BY DEF ShareIInv
<1>2. /\ place[r] = "check"
      /\ Moved(r, IF shm.filename = wanted[r] /\ shm.data_size \in 1 .. MaxConfig THEN "copy" ELSE "idle")
      /\ UNCHANGED <<windows, shm, buffer, wanted, config, latest, torn, longest>>
  BY DEF ReadCheck
<1>3. /\ DOMAIN place' = Loaders \cup Readers /\ place'[r] \in {"copy", "idle"}
      /\ place'[r] = "copy" => shm.filename = wanted[r]
      /\ \A q \in (Loaders \cup Readers) \ {r} : place'[q] = place[q]
      /\ r \in Reading /\ Reading' \subseteq Reading /\ Writing' = Writing /\ r \notin Writing
  BY <1>1, <1>2, MovedIs DEF Writing, Reading
<1>4. ShareTypeOK'
  BY <1>1, <1>2, <1>3 DEF ShareTypeOK
<1>5. LoadAlone'
  BY <1>1, <1>2, <1>3 DEF LoadAlone, Writing
<1>6. Settled'
  BY <1>1, <1>2, <1>3 DEF Settled
<1>7. ReadAlone'
  BY <1>1, <1>2, <1>3 DEF ReadAlone, Reading
<1>8. ConfigWhole'
  BY <1>1, <1>2 DEF ConfigWhole
<1>9. ZerosBehind'
  BY <1>1, <1>2 DEF ZerosBehind
<1>. QED BY <1>4, <1>5, <1>6, <1>7, <1>8, <1>9 DEF ShareIInv

LEMMA ReadCopyStep ==
  ASSUME ShareIInv, NEW r \in Readers, ReadCopy(r)
  PROVE  ShareIInv'
<1>1. ShareTypeOK /\ LoadAlone /\ Settled /\ ZerosBehind /\ ReadAlone /\ ConfigWhole
  BY DEF ShareIInv
<1>2. place[r] = "copy" /\ torn' = torn \ {r} /\ UNCHANGED <<windows, shm, buffer, wanted, latest, longest>>
  BY DEF ReadCopy
<1>3. r \in Reading /\ shm \in SharedJSON
  BY <1>1, <1>2 DEF Reading, ReadAlone
<1>4. /\ DOMAIN place' = Loaders \cup Readers /\ place'[r] \in {"idle", "crashed"}
      /\ \A q \in (Loaders \cup Readers) \ {r} : place'[q] = place[q]
      /\ Reading' \subseteq Reading /\ Writing' = Writing /\ r \notin Writing
  <2>1. Moved(r, "idle") \/ Moved(r, "crashed")
    BY DEF ReadCopy
  <2>. QED BY <1>1, <1>2, <1>3, <2>1, MovedIs DEF Writing, Reading
<1>5. config' = config \/ \E c : config' = [config EXCEPT ![r] = c]
  BY DEF ReadCopy
<1>6. ShareTypeOK'
  BY <1>1, <1>2, <1>4, <1>5 DEF ShareTypeOK
<1>7. LoadAlone'
  BY <1>1, <1>2, <1>4 DEF LoadAlone, Writing
<1>8. Settled'
  BY <1>1, <1>2, <1>4 DEF Settled
<1>9. ReadAlone'
  BY <1>1, <1>2, <1>4 DEF ReadAlone, Reading
<1>10. ConfigWhole'
  <2>1. CASE config' = config
    BY <1>1, <1>2, <2>1 DEF ConfigWhole
  <2> DEFINE data == shm.json_data
             copied == CString(data)
             due == IF r \in torn THEN Absent ELSE latest
  <2>2. CASE 0 \in Range(data)
    <3>0. config' = [config EXCEPT ![r] = [text |-> copied, due |-> due]]
      BY <2>2 DEF ReadCopy
    <3>1. /\ config'[r].text = copied /\ config'[r].due = due
          /\ \A q \in Readers \ {r} : config'[q] = config[q]
      BY <1>1, <3>0 DEF ShareTypeOK
    <3>2. data \in Seq(Nat) /\ Len(data) \in Nat
      BY <1>3 DEF SharedJSON
    <3>3. ASSUME due # Absent
          PROVE  /\ due.name = wanted[r]
                 /\ IsPrefix(CString(due.text), copied)
                 /\ 0 \in Range(due.text) => copied = CString(due.text)
      <4>1. r \notin torn /\ due = latest /\ latest # Absent
        BY <3>3
      <4>2. Writing = {} /\ shm.filename = wanted[r]
        BY <1>1, <1>2, <1>3, <4>1 DEF ReadAlone
      <4>3. /\ latest \in FileRecord /\ wanted[r] = latest.name
            /\ Len(latest.text) <= Len(data)
            /\ \A i \in 1 .. Len(latest.text) : data[i] = latest.text[i]
        BY <1>1, <4>1, <4>2 DEF Settled
      <4>4. latest.text \in Seq(Nat)
        BY <4>3, FileText
      <4>. HIDE DEF data, due
      <4>5. /\ IsPrefix(CString(latest.text), CString(data))
            /\ 0 \in Range(latest.text) => CString(data) = CString(latest.text)
        BY <3>2, <4>3, <4>4, StringBegins
      <4>. QED BY <4>1, <4>3, <4>5
    <3>4. Len(copied) <= longest + 1
      <4>1. longest \in Nat /\ \A i \in 1 .. Len(data) : i > longest + 1 => data[i] = 0
        BY <1>1, <1>3, ShareAssumption DEF ShareTypeOK, ZerosBehind
      <4>. HIDE DEF data
      <4>2. StrLen(data) \in 0 .. Len(data) /\ EndsAt(data, StrLen(data)) /\ Len(copied) = StrLen(data)
        BY <3>2, StrLenIs, CStringIs
      <4>3. StrLen(data) > 0 => data[StrLen(data)] # 0
        BY <3>2, <4>2 DEF EndsAt
      <4>. HIDE DEF copied
      <4>. QED BY <3>2, <4>1, <4>2, <4>3
    <3>. HIDE DEF copied, due
    <3>. QED BY <1>1, <1>2, <3>1, <3>3, <3>4 DEF ConfigWhole
  <2>. QED BY <2>1, <2>2 DEF ReadCopy
<1>11. ZerosBehind'
  BY <1>1, <1>2 DEF ZerosBehind
<1>. QED BY <1>6, <1>7, <1>8, <1>9, <1>10, <1>11 DEF ShareIInv

LEMMA ShareStep == ShareIInv /\ [ShareNext]_shareVars => ShareIInv'
<1> SUFFICES ASSUME ShareIInv, [ShareNext]_shareVars PROVE ShareIInv'
  OBVIOUS
<1>1. CASE UNCHANGED shareVars
  BY <1>1 DEF shareVars, ShareIInv, ShareTypeOK, LoadAlone, Settled, ZerosBehind, ReadAlone, ConfigWhole,
     Writing, Reading
<1>2. CASE ShareNext
  BY <1>2, LoadReadStep, LoadCreateStep, LoadHeadStep, LoadDataStep,
     ReadMapStep, ReadCheckStep, ReadCopyStep DEF ShareNext
<1>. QED BY <1>1, <1>2

\* The invariant holds in every state the scripts can bring the memory to.
\* (load_json_to_shm, get_json_config)
THEOREM ShareInvariant == ShareSpec => []ShareIInv
BY ShareInitial, ShareStep, PTL DEF ShareSpec

\* A script that met no load got a string that begins with the whole text of the
\* file it asked for, and nobody a string longer than the longest text with its stray
\* byte: for any number of scripts and files, whatever is in the files and in the
\* stray byte, and for any size of a page.  (load_json_to_shm, get_json_config)
THEOREM ShareConfigWhole == ShareSpec => []ConfigWhole
<1>1. ShareIInv => ConfigWhole
  BY DEF ShareIInv
<1>. QED BY <1>1, ShareInvariant, PTL
-----------------------------------------------------------------------------
(* LogLine *)

\* The line b holds the beginning of t, as much as there is room for before n.
Holding(b, t, n) ==
  /\ b.log_len = Smaller(n, Len(t))
  /\ \A i \in 1 .. b.log_len : b.bytes[i] = t[i]

IsString(s) == s \in Seq(Range(s))

LEMMA StringsAre ==
  /\ IsString(Colour) /\ IsString(ColourEnd) /\ IsString(Newline)
  /\ \A s \in Heads \cup LogTexts : IsString(s)
BY LineAssumption DEF IsString

LEMMA JoinedIs ==
  ASSUME NEW s, IsString(s), NEW t, IsString(t)
  PROVE  /\ IsString(s \o t) /\ Len(s) \in Nat /\ Len(t) \in Nat
         /\ DOMAIN s = 1 .. Len(s) /\ DOMAIN t = 1 .. Len(t)
         /\ Len(s \o t) = Len(s) + Len(t)
         /\ \A i \in 1 .. Len(s) + Len(t) :
              (s \o t)[i] = IF i <= Len(s) THEN s[i] ELSE t[i - Len(s)]
<1> DEFINE S == Range(s) \cup Range(t)
<1>1. s \in Seq(S) /\ t \in Seq(S)
  BY SeqMonotonic DEF IsString
<1>. HIDE DEF S
<1>2. /\ s \o t \in Seq(S) /\ Len(s) \in Nat /\ Len(t) \in Nat
      /\ DOMAIN s = 1 .. Len(s) /\ DOMAIN t = 1 .. Len(t)
      /\ Len(s \o t) = Len(s) + Len(t)
      /\ \A i \in 1 .. Len(s) + Len(t) :
              (s \o t)[i] = IF i <= Len(s) THEN s[i] ELSE t[i - Len(s)]
  BY <1>1
<1>3. \A u \in Seq(S) : IsString(u)
  <2> TAKE u \in Seq(S)
  <2>1. /\ u \in [1 .. Len(u) -> S] /\ Len(u) \in Nat
    OBVIOUS
  <2>2. u \in [1 .. Len(u) -> Range(u)]
    BY <2>1 DEF Range
  <2>. QED BY <2>1, <2>2 DEF IsString
<1>. QED BY <1>2, <1>3

\* elog_strcpy goes on where the line has got to.
LEMMA CopiedHolds ==
  ASSUME NEW b, NEW t, NEW s, IsString(t), IsString(s), Holding(b, t, LineSize)
  PROVE  Holding(Copied(b, s), t \o s, LineSize)
<1>1. /\ Len(s) \in Nat /\ Len(t) \in Nat /\ DOMAIN s = 1 .. Len(s) /\ LineSize \in Nat
      /\ Len(t \o s) = Len(t) + Len(s)
      /\ \A i \in 1 .. Len(t) + Len(s) :
              (t \o s)[i] = IF i <= Len(t) THEN t[i] ELSE s[i - Len(t)]
  BY JoinedIs, LineAssumption
<1>2. /\ b.log_len = (IF LineSize < Len(t) THEN LineSize ELSE Len(t))
      /\ \A i \in 1 .. b.log_len : b.bytes[i] = t[i]
  BY DEF Holding, Smaller
<1> DEFINE c == Copied(b, s)
<1>3. /\ c.log_len = (IF LineSize < b.log_len + Len(s) THEN LineSize ELSE b.log_len + Len(s))
      /\ \A i \in 1 .. LineSize :
           c.bytes[i] = IF i - b.log_len \in DOMAIN s THEN s[i - b.log_len] ELSE b.bytes[i]
  BY DEF Copied, LineOf, Smaller
<1>. HIDE DEF c
<1>4. c.log_len = IF LineSize < Len(t \o s) THEN LineSize ELSE Len(t \o s)
  BY <1>1, <1>2, <1>3
<1>5. ASSUME NEW i \in 1 .. c.log_len PROVE c.bytes[i] = (t \o s)[i]
  <2>1. i \in 1 .. LineSize /\ i \in 1 .. Len(t) + Len(s)
    BY <1>1, <1>4, <1>5
  <2>2. CASE i <= b.log_len
    BY <1>1, <1>2, <1>3, <2>1, <2>2
  <2>3. CASE ~(i <= b.log_len)
    <3>1. b.log_len = Len(t) /\ i - Len(t) \in DOMAIN s
      BY <1>1, <1>2, <2>1, <2>3
    <3>. QED BY <1>1, <1>3, <2>1, <2>3, <3>1
  <2>. QED BY <2>2, <2>3
<1>. QED BY <1>4, <1>5 DEF Holding, Smaller, c

\* What the message may take up.
Usage == LineSize - Len(ColourEnd) - Len(Newline)

LEMMA UsageIs == Usage \in Nat /\ Usage < LineSize /\ Usage + Len(ColourEnd) + Len(Newline) = LineSize
<1>1. Len(ColourEnd) \in Nat /\ Len(Newline) \in Nat
  BY StringsAre DEF IsString
<1>. QED BY <1>1, LineAssumption DEF Usage

\* Only the last byte of the buffer can be the Nul of vsnprintf, and that one is
\* not in what the end of the line leaves of it.
LEMMA PrintedHolds ==
  ASSUME NEW b, NEW t, NEW s, IsString(t), IsString(s), Holding(b, t, LineSize)
  PROVE  Holding(Reserved(Printed(b, s)), t \o s, Usage)
<1>1. /\ Len(s) \in Nat /\ Len(t) \in Nat /\ DOMAIN s = 1 .. Len(s) /\ LineSize \in Nat
      /\ Len(t \o s) = Len(t) + Len(s)
      /\ \A i \in 1 .. Len(t) + Len(s) :
              (t \o s)[i] = IF i <= Len(t) THEN t[i] ELSE s[i - Len(t)]
  BY JoinedIs, LineAssumption
<1>2. /\ b.log_len = (IF LineSize < Len(t) THEN LineSize ELSE Len(t))
      /\ \A i \in 1 .. b.log_len : b.bytes[i] = t[i]
  BY DEF Holding, Smaller
<1> DEFINE room == LineSize - b.log_len
           m == Smaller(Len(s), room - 1)
           text == Append(SubSeq(s, 1, m), Nul)
           p == Printed(b, s)
           r == Reserved(p)
<1>3. /\ p.bytes = (IF room = 0 THEN b.bytes ELSE Copied(b, text).bytes)
      /\ p.log_len = (IF LineSize < b.log_len + Len(s) THEN LineSize ELSE b.log_len + Len(s))
  BY DEF Printed, LineOf, Smaller
<1>4. r.bytes = p.bytes /\ r.log_len = IF p.log_len < Usage THEN p.log_len ELSE Usage
  BY DEF Reserved, LineOf, Smaller, Usage
<1>5. ASSUME room # 0
      PROVE  \A i \in 1 .. Len(t) + Len(s) : i < LineSize => p.bytes[i] = (t \o s)[i]
  <2>1. room \in Nat \ {0} /\ b.log_len = Len(t)
    BY <1>1, <1>2, <1>5
  <2>2. m \in Nat /\ m <= Len(s) /\ (m = Len(s) \/ m = LineSize - Len(t) - 1)
    BY <1>1, <2>1 DEF Smaller
  <2>. HIDE DEF m, room
  <2>3. /\ DOMAIN text = 1 .. m + 1
        /\ \A i \in 1 .. m : text[i] = s[i]
    <3>1. \A i \in 1 .. m : s[i] \in Range(s)
      <4>1. s \in Seq(Range(s)) /\ \A i \in 1 .. m : i \in 1 .. Len(s)
        BY <2>2 DEF IsString
      <4>. QED BY <4>1, ElementOfSeq
    <3>2. /\ SubSeq(s, 1, m) \in Seq(Range(s)) /\ Len(SubSeq(s, 1, m)) = m
          /\ \A i \in 1 .. m : SubSeq(s, 1, m)[i] = s[i]
      <4>1. m \in Int /\ 1 \in Int
        BY <2>2
      <4>2. /\ SubSeq(s, 1, m) \in Seq(Range(s))
            /\ Len(SubSeq(s, 1, m)) = IF 1 <= m THEN m - 1 + 1 ELSE 0
            /\ \A i \in 1 .. m - 1 + 1 : SubSeq(s, 1, m)[i] = s[1 + i - 1]
        BY <3>1, <4>1, SubSeqProperties
      <4>. QED BY <2>2, <4>2
    <3>3. /\ SubSeq(s, 1, m) \in Seq(Range(s) \cup {Nul})
      BY <3>2, SeqMonotonic
    <3>. QED BY <2>2, <3>2, <3>3, AppendProperties
  <2>4. p.bytes = [i \in 1 .. LineSize |->
                     IF i - Len(t) \in DOMAIN text THEN text[i - Len(t)] ELSE b.bytes[i]]
    BY <1>3, <1>5, <2>1 DEF Copied, LineOf
  <2>. HIDE DEF text, p
  <2>5. SUFFICES ASSUME NEW i \in 1 .. Len(t) + Len(s), i < LineSize
                 PROVE  p.bytes[i] = (t \o s)[i]
    OBVIOUS
  <2>6. p.bytes[i] = IF i - Len(t) \in 1 .. m + 1 THEN text[i - Len(t)] ELSE b.bytes[i]
    BY <1>1, <2>3, <2>4, <2>5
  <2>7. CASE i <= Len(t)
    BY <1>1, <1>2, <2>1, <2>6, <2>7
  <2>8. CASE ~(i <= Len(t))
    <3>1. i - Len(t) \in 1 .. m
      <4>1. Len(t) \in Nat /\ Len(s) \in Nat /\ LineSize \in Nat
        BY <1>1
      <4>. QED BY <2>2, <2>5, <2>8, <4>1
    <3>2. p.bytes[i] = s[i - Len(t)]
      BY <2>2, <2>3, <2>6, <3>1
    <3>. QED BY <1>1, <2>5, <2>8, <3>2
  <2>. QED BY <2>7, <2>8
<1>6. ASSUME room = 0
      PROVE  \A i \in 1 .. LineSize : p.bytes[i] = (t \o s)[i]
  <2>1. b.log_len = LineSize /\ LineSize <= Len(t)
    BY <1>1, <1>2, <1>6
  <2>. QED BY <1>1, <1>2, <1>3, <1>6, <2>1
<1>. HIDE DEF room, m, text, p, r
<1>7. r.log_len = IF Usage < Len(t \o s) THEN Usage ELSE Len(t \o s)
  BY <1>1, <1>2, <1>3, <1>4, UsageIs
<1>8. ASSUME NEW i \in 1 .. r.log_len PROVE r.bytes[i] = (t \o s)[i]
  <2>1. i \in 1 .. Len(t) + Len(s) /\ i < LineSize /\ i \in 1 .. LineSize
    BY <1>1, <1>7, <1>8, UsageIs
  <2>. QED BY <1>4, <1>5, <1>6, <2>1
<1>. QED BY <1>7, <1>8 DEF Holding, Smaller, r, p

\* Behind a line that leaves room there is room.
LEMMA CopiedFits ==
  ASSUME NEW b, NEW s, IsString(s), b.log_len \in Nat, b.log_len + Len(s) <= LineSize
  PROVE  LET c == Copied(b, s) IN
         /\ c.log_len = b.log_len + Len(s)
         /\ \A i \in 1 .. b.log_len : c.bytes[i] = b.bytes[i]
         /\ \A i \in 1 .. Len(s) : c.bytes[b.log_len + i] = s[i]
<1> DEFINE c == Copied(b, s)
<1>1. Len(s) \in Nat /\ DOMAIN s = 1 .. Len(s) /\ LineSize \in Nat
  BY LineAssumption DEF IsString
<1>2. /\ c.log_len = (IF LineSize < b.log_len + Len(s) THEN LineSize ELSE b.log_len + Len(s))
      /\ \A i \in 1 .. LineSize :
           c.bytes[i] = IF i - b.log_len \in DOMAIN s THEN s[i - b.log_len] ELSE b.bytes[i]
  BY DEF Copied, LineOf, Smaller
<1>. HIDE DEF c
<1>3. ASSUME NEW i \in 1 .. b.log_len PROVE c.bytes[i] = b.bytes[i]
  BY <1>1, <1>2
<1>4. ASSUME NEW i \in 1 .. Len(s) PROVE c.bytes[b.log_len + i] = s[i]
  <2>1. b.log_len + i \in 1 .. LineSize /\ (b.log_len + i) - b.log_len = i
    BY <1>1, <1>4
  <2>. QED BY <1>1, <1>2, <1>4, <2>1
<1>. QED BY <1>1, <1>2, <1>3, <1>4 DEF c

\* IsSuffix, element by element.
LEMMA SuffixIs ==
  ASSUME NEW S, NEW e \in Seq(S), NEW l \in Seq(S), Len(e) <= Len(l),
         \A i \in 1 .. Len(e) : l[Len(l) - Len(e) + i] = e[i]
  PROVE  IsSuffix(e, l)
<1> DEFINE n == Len(e)
           k == Len(l)
<1>1. n \in Nat /\ k \in Nat /\ n <= k
  OBVIOUS
<1> DEFINE er == [i \in 1 .. n |-> e[(n - i) + 1]]
           lr == [i \in 1 .. k |-> l[(k - i) + 1]]
<1>2. er = Reverse(e) /\ lr = Reverse(l)
  BY DEF Reverse
<1>3. \A i \in 1 .. n : e[(n - i) + 1] \in S
  OBVIOUS
<1>4. \A i \in 1 .. k : l[(k - i) + 1] \in S
  OBVIOUS
<1>5. er \in Seq(S) /\ Len(er) = n /\ lr \in Seq(S) /\ Len(lr) = k
  BY <1>1, <1>3, <1>4
<1>6. \A i \in 1 .. n : er[i] = lr[i]
  <2> TAKE i \in 1 .. n
  <2>1. (n - i) + 1 \in 1 .. n /\ k - n + ((n - i) + 1) = (k - i) + 1
    BY <1>1
  <2>. QED BY <1>1, <2>1
<1>. HIDE DEF er, lr
<1>7. SubSeq(er, 1, n) = SubSeq(lr, 1, n)
  <2>1. /\ SubSeq(er, 1, n) \in Seq(S) /\ Len(SubSeq(er, 1, n)) = n
        /\ \A i \in 1 .. n : SubSeq(er, 1, n)[i] = er[i]
    BY <1>1, <1>5
  <2>2. /\ SubSeq(lr, 1, n) \in Seq(S) /\ Len(SubSeq(lr, 1, n)) = n
        /\ \A i \in 1 .. n : SubSeq(lr, 1, n)[i] = lr[i]
    BY <1>1, <1>5
  <2>. QED BY <1>6, <2>1, <2>2, SeqEqual
<1>. QED BY <1>1, <1>2, <1>5, <1>7 DEF IsSuffix, IsPrefix

\* A line of n bytes of what was meant and its end.
Ended(bytes, m, n, e) ==
  /\ \A i \in 1 .. n : bytes[i] = m[i]
  /\ \A i \in 1 .. Len(e) : bytes[n + i] = e[i]

LEMMA LineIs ==
  ASSUME NEW m, IsString(m), NEW e, IsString(e), NEW n \in Nat, n <= Len(m),
         NEW bytes, Ended(bytes, m, n, e),
         NEW l, l = SubSeq(bytes, 1, n + Len(e))
  PROVE  /\ Len(l) = n + Len(e)
         /\ IsSuffix(e, l)
         /\ SubSeq(l, 1, Len(l) - Len(e)) = SubSeq(m, 1, n)
<1> DEFINE S == Range(m) \cup Range(e)
           k == n + Len(e)
<1>1. m \in Seq(S) /\ e \in Seq(S)
  BY SeqMonotonic DEF IsString
<1>0. /\ \A i \in 1 .. n : bytes[i] = m[i]
      /\ \A i \in 1 .. Len(e) : bytes[n + i] = e[i]
  BY DEF Ended
<1>. HIDE DEF S
<1>2. Len(e) \in Nat /\ k \in Nat /\ Len(m) \in Nat
  BY <1>1
<1>3. \A i \in 1 .. k : bytes[i] \in S
  <2> SUFFICES ASSUME NEW i \in 1 .. k PROVE bytes[i] \in S
    OBVIOUS
  <2>1. CASE i <= n
    BY <1>0, <1>1, <2>1
  <2>2. CASE ~(i <= n)
    <3>1. i - n \in 1 .. Len(e) /\ n + (i - n) = i
      BY <1>2, <2>2
    <3>2. e[i - n] \in S
      BY <1>1, <3>1, ElementOfSeq
    <3>3. bytes[n + (i - n)] = e[i - n]
      BY <1>0, <3>1
    <3>. QED BY <3>1, <3>2, <3>3
  <2>. QED BY <2>1, <2>2
<1>4. /\ l \in Seq(S) /\ Len(l) = k
      /\ \A i \in 1 .. k : l[i] = bytes[i]
  <2>1. k \in Int /\ 1 \in Int
    BY <1>2
  <2>2. /\ l \in Seq(S) /\ Len(l) = IF 1 <= k THEN k - 1 + 1 ELSE 0
        /\ \A i \in 1 .. k - 1 + 1 : l[i] = bytes[1 + i - 1]
    BY <1>3, <2>1, SubSeqProperties
  <2>. QED BY <1>2, <2>2
<1>5. IsSuffix(e, l)
  <2>1. Len(e) <= Len(l) /\ \A i \in 1 .. Len(e) : l[Len(l) - Len(e) + i] = e[i]
    <3>1. Len(l) - Len(e) = n /\ Len(e) <= Len(l)
      BY <1>2, <1>4
    <3>2. ASSUME NEW i \in 1 .. Len(e) PROVE l[n + i] = e[i]
      <4>1. n + i \in 1 .. k
        BY <1>2
      <4>. QED BY <1>0, <1>4, <4>1
    <3>. QED BY <3>1, <3>2
  <2>. QED BY <1>1, <1>4, <2>1, SuffixIs
<1>6. SubSeq(l, 1, Len(l) - Len(e)) = SubSeq(m, 1, n)
  <2>1. Len(l) - Len(e) = n
    BY <1>2, <1>4
  <2>2. /\ SubSeq(m, 1, n) \in Seq(S) /\ Len(SubSeq(m, 1, n)) = n
        /\ \A i \in 1 .. n : SubSeq(m, 1, n)[i] = m[i]
    BY <1>1, BeginningIs
  <2>3. /\ SubSeq(l, 1, n) \in Seq(S) /\ Len(SubSeq(l, 1, n)) = n
        /\ \A i \in 1 .. n : SubSeq(l, 1, n)[i] = l[i]
    BY <1>2, <1>4, BeginningIs
  <2>4. \A i \in 1 .. n : l[i] = m[i]
    BY <1>0, <1>2, <1>4
  <2>. QED BY <2>1, <2>2, <2>3, <2>4, SeqEqual
<1>. QED BY <1>4, <1>5, <1>6

LineIInv == coloured \in BOOLEAN /\ filtered \in BOOLEAN /\ LineWhole

LEMMA NothingYet == IsString(<< >>) /\ Len(<< >>) = 0 /\ \A s : IsString(s) => << >> \o s = s
<1>1. IsString(<< >>)
  BY DEF IsString, Range
<1>2. ASSUME NEW s, IsString(s) PROVE << >> \o s = s
  BY <1>2, ConcatEmptySeq DEF IsString
<1>. QED BY <1>1, <1>2

\* What the message leaves in the buffer, and how much of it is the line.
Body(head, text, fails) ==
  LET begun == IF coloured THEN Copied(LineOf(log_buf, 0), Colour) ELSE LineOf(log_buf, 0) IN
  Reserved(IF fails THEN PrintFailed(Copied(begun, head), text) ELSE Printed(Copied(begun, head), text))

LEMMA BodyIs ==
  ASSUME coloured \in BOOLEAN, NEW head \in Heads, NEW text \in LogTexts, NEW fails \in BOOLEAN
  PROVE  LET body == Body(head, text, fails)
             m == (IF coloured THEN Colour ELSE << >>) \o head \o text
         IN /\ body.log_len \in 0 .. Usage
            /\ IsString(m)
            /\ ~fails => Holding(body, m, Usage)
<1> DEFINE begun == IF coloured THEN Copied(LineOf(log_buf, 0), Colour) ELSE LineOf(log_buf, 0)
           open == IF coloured THEN Colour ELSE << >>
           body == Body(head, text, fails)
           m == open \o head \o text
<1>2. /\ IsString(head) /\ IsString(text) /\ IsString(open) /\ IsString(Colour)
  BY StringsAre, NothingYet
<1>3. Holding(begun, open, LineSize)
  <2>1. Holding(LineOf(log_buf, 0), << >>, LineSize)
    BY NothingYet, LineAssumption DEF Holding, LineOf, Smaller
  <2>2. Holding(Copied(LineOf(log_buf, 0), Colour), << >> \o Colour, LineSize)
    BY <1>2, <2>1, NothingYet, CopiedHolds
  <2>. QED BY <1>2, <2>1, <2>2, NothingYet
<1>4. IsString(open \o head) /\ IsString(m)
  BY <1>2, JoinedIs
<1>5. body = Reserved(IF fails THEN PrintFailed(Copied(begun, head), text) ELSE Printed(Copied(begun, head), text))
  BY DEF Body
<1>. HIDE DEF begun, open, body
<1>6. Holding(Copied(begun, head), open \o head, LineSize)
  BY <1>2, <1>3, CopiedHolds
<1>7. CASE fails
  <2>1. body.log_len = Smaller(LineSize, LineSize - Len(ColourEnd) - Len(Newline))
    BY <1>5, <1>7 DEF Reserved, PrintFailed, LineOf
  <2>2. body.log_len = Usage
    BY <2>1, UsageIs, LineAssumption DEF Smaller, Usage
  <2>3. body.log_len \in 0 .. Usage
    BY <2>2, UsageIs
  <2>. QED BY <1>4, <1>7, <2>3 DEF m, open, body
<1>8. CASE ~fails
  <2>1. Holding(body, m, Usage)
    BY <1>2, <1>4, <1>5, <1>6, <1>8, PrintedHolds
  <2>2. Len(m) \in Nat
    BY <1>4 DEF IsString
  <2>. HIDE DEF m
  <2>3. body.log_len \in 0 .. Usage
    BY <2>1, <2>2, UsageIs DEF Holding, Smaller
  <2>. QED BY <1>4, <1>8, <2>1, <2>3 DEF m, open, body
<1>. QED BY <1>7, <1>8

LEMMA OutputStep ==
  ASSUME LineIInv, NEW head \in Heads, NEW text \in LogTexts, NEW fails \in BOOLEAN, Output(head, text, fails)
  PROVE  LineIInv'
<1> DEFINE body == Body(head, text, fails)
           whole == IF coloured THEN Copied(body, ColourEnd) ELSE body
           done == Copied(whole, Newline)
           n == body.log_len
           shown == SubSeq(body.bytes, 1, n)
           close == IF coloured THEN ColourEnd ELSE << >>
           m == (IF coloured THEN Colour ELSE << >>) \o head \o text
           end == close \o Newline
<1>1. UNCHANGED <<coloured, filtered>> /\ coloured \in BOOLEAN /\ filtered \in BOOLEAN /\ LineWhole
  BY DEF Output, LineIInv
<1>2. CASE filtered /\ ~KeywordIn(body)
  BY <1>1, <1>2 DEF Output, Body, LineIInv, LineWhole
<1>3. CASE ~(filtered /\ ~KeywordIn(body))
  <2>1. line' = SubSeq(done.bytes, 1, done.log_len) /\ meant' = m /\ unprinted' = fails
    BY <1>3 DEF Output, Body
  <2>2. /\ IsString(close) /\ IsString(Newline) /\ IsString(ColourEnd)
        /\ IsString(m) /\ IsString(end)
    <3>1. /\ IsString(close) /\ IsString(Newline) /\ IsString(ColourEnd)
      BY StringsAre, NothingYet
    <3>2. IsString(m)
      BY <1>1, BodyIs
    <3>. QED BY <3>1, <3>2, JoinedIs
  <2>3. n \in 0 .. Usage /\ (~fails => Holding(body, m, Usage))
    BY <1>1, BodyIs
  <2>. HIDE DEF body, m
  <2>4. n \in Nat /\ n <= Usage /\ Usage \in Nat
    BY <2>3, UsageIs
  <2>5. /\ IsString(shown) /\ Len(shown) = n
        /\ \A i \in 1 .. n : shown[i] = body.bytes[i]
    <3> DEFINE S == {body.bytes[i] : i \in 1 .. n}
    <3>1. n \in Int /\ 1 \in Int /\ \A i \in 1 .. n : body.bytes[i] \in S
      BY <2>4
    <3>. HIDE DEF S
    <3>2. /\ shown \in Seq(S) /\ Len(shown) = IF 1 <= n THEN n - 1 + 1 ELSE 0
          /\ \A i \in 1 .. n - 1 + 1 : shown[i] = body.bytes[1 + i - 1]
      BY <3>1, SubSeqProperties
    <3>. HIDE DEF shown
    <3>3. shown \in [1 .. Len(shown) -> Range(shown)] /\ Len(shown) \in Nat
      BY <3>2 DEF Range
    <3>4. IsString(shown)
      BY <3>3 DEF IsString
    <3>. QED BY <2>4, <3>2, <3>4
  <2>8. /\ Len(close) \in Nat /\ Len(Newline) \in Nat /\ Len(ColourEnd) \in Nat
        /\ Len(close) <= Len(ColourEnd) /\ Len(end) = Len(close) + Len(Newline)
        /\ \A i \in 1 .. Len(end) : end[i] = IF i <= Len(close) THEN close[i] ELSE Newline[i - Len(close)]
    <3>1. Len(ColourEnd) \in Nat /\ Len(close) <= Len(ColourEnd)
      BY <2>2, NothingYet DEF IsString
    <3>. QED BY <2>2, <3>1, JoinedIs
  <2>9. /\ whole.log_len = n + Len(close)
        /\ \A i \in 1 .. n : whole.bytes[i] = body.bytes[i]
        /\ \A i \in 1 .. Len(close) : whole.bytes[n + i] = close[i]
    <3>1. CASE coloured
      <4>1. whole = Copied(body, ColourEnd) /\ close = ColourEnd /\ n + Len(ColourEnd) <= LineSize
        BY <2>4, <2>8, <3>1, UsageIs
      <4>. QED BY <2>2, <2>4, <4>1, CopiedFits
    <3>2. CASE ~coloured
      BY <2>4, <3>2, NothingYet
    <3>. QED BY <3>1, <3>2
  <2>. HIDE DEF whole, close
  <2>10. /\ done.log_len = n + Len(end)
         /\ \A i \in 1 .. n : done.bytes[i] = body.bytes[i]
         /\ \A i \in 1 .. Len(end) : done.bytes[n + i] = end[i]
    <3>1. whole.log_len \in Nat /\ whole.log_len + Len(Newline) <= LineSize
      BY <2>4, <2>8, <2>9, UsageIs
    <3>2. /\ done.log_len = whole.log_len + Len(Newline)
          /\ \A i \in 1 .. whole.log_len : done.bytes[i] = whole.bytes[i]
          /\ \A i \in 1 .. Len(Newline) : done.bytes[whole.log_len + i] = Newline[i]
      BY <2>2, <3>1, CopiedFits
    <3>. HIDE DEF done, end
    <3>3. ASSUME NEW i \in 1 .. Len(end) PROVE done.bytes[n + i] = end[i]
      <4>1. CASE i <= Len(close)
        <5>1. i \in 1 .. Len(close) /\ n + i \in 1 .. whole.log_len
          BY <2>4, <2>8, <2>9, <4>1
        <5>2. done.bytes[n + i] = whole.bytes[n + i] /\ whole.bytes[n + i] = close[i]
          BY <2>9, <3>2, <5>1
        <5>. QED BY <2>8, <4>1, <5>2
      <4>2. CASE ~(i <= Len(close))
        <5>1. i - Len(close) \in 1 .. Len(Newline) /\ whole.log_len + (i - Len(close)) = n + i
          BY <2>4, <2>8, <2>9, <4>2
        <5>2. done.bytes[whole.log_len + (i - Len(close))] = Newline[i - Len(close)]
          BY <3>2, <5>1
        <5>. QED BY <2>8, <4>2, <5>1, <5>2
      <4>. QED BY <4>1, <4>2
    <3>4. \A i \in 1 .. n : i \in 1 .. whole.log_len
      BY <2>4, <2>8, <2>9
    <3>. QED BY <2>4, <2>8, <2>9, <3>2, <3>3, <3>4
  <2>. HIDE DEF done, end
  <2>11. /\ Len(line') = n + Len(end) /\ IsSuffix(end, line')
         /\ SubSeq(line', 1, Len(line') - Len(end)) = shown
    <3>1. line' = SubSeq(done.bytes, 1, n + Len(end))
      BY <2>1, <2>10
    <3>2. /\ IsString(shown) /\ IsString(end) /\ n \in Nat /\ n <= Len(shown)
          /\ Ended(done.bytes, shown, n, end)
      BY <2>2, <2>4, <2>5, <2>10 DEF Ended
    <3>6. SubSeq(shown, 1, n) = shown
      BY <2>5, SubSeqFull DEF IsString
    <3>. HIDE DEF n
    <3>. HIDE DEF shown
    <3>3. Len(line') = n + Len(end)
      BY <3>1, <3>2, LineIs
    <3>4. IsSuffix(end, line')
      BY <3>1, <3>2, LineIs, Zenon
    <3>5. SubSeq(line', 1, Len(line') - Len(end)) = SubSeq(shown, 1, n)
      BY <3>1, <3>2, LineIs
    <3>. QED BY <3>3, <3>4, <3>5, <3>6
  <2>12. ASSUME ~fails
         PROVE  /\ IsPrefix(shown, m)
                /\ shown = m \/ Len(m) + Len(ColourEnd) + Len(Newline) > LineSize
    <3> DEFINE S == Range(m)
               c == SubSeq(m, 1, n)
    <3>1. m \in Seq(S) /\ Len(m) \in Nat
      BY <2>2 DEF IsString
    <3>2. /\ n <= Len(m) /\ (n = Len(m) \/ n = Usage)
          /\ \A i \in 1 .. n : body.bytes[i] = m[i]
      BY <2>3, <2>4, <2>12, <3>1 DEF Holding, Smaller
    <3>. HIDE DEF S
    <3>3. c \in Seq(S) /\ Len(c) = n /\ \A i \in 1 .. n : c[i] = m[i]
      BY <2>4, <3>1, <3>2, BeginningIs
    <3>. HIDE DEF c, n
    <3>4. shown \in Seq(S) /\ shown = c
      <4>1. shown = [i \in 1 .. n |-> shown[i]]
        <5> DEFINE T == Range(shown)
        <5>1. shown \in Seq(T) /\ Len(shown) = n
          BY <2>5 DEF IsString
        <5>. HIDE DEF T, shown
        <5>. QED BY <5>1
      <4>2. shown \in Seq(S)
        <5>1. \A i \in 1 .. n : shown[i] \in S
          <6> TAKE i \in 1 .. n
          <6>1. shown[i] = c[i] /\ c[i] \in S
            BY <2>5, <3>2, <3>3
          <6>. QED BY <6>1
        <5>. HIDE DEF shown
        <5>2. [i \in 1 .. n |-> shown[i]] \in Seq(S)
          BY <2>4, <5>1 DEF n
        <5>. QED BY <4>1, <5>2
      <4>3. \A i \in 1 .. Len(shown) : shown[i] = c[i]
        BY <2>5, <3>2, <3>3
      <4>. HIDE DEF shown
      <4>. QED BY <2>5, <3>3, <4>2, <4>3, SeqEqual
    <3>5. SubSeq(c, 1, Len(c)) = c
      BY <3>3, SubSeqFull
    <3>6. n = Len(m) => c = m
      BY <3>1, <3>3, SeqEqual
    <3>7. IsPrefix(c, m)
      BY <3>2, <3>3, <3>5 DEF IsPrefix, c
    <3>8. n = Usage => n = Len(m) \/ Len(m) + Len(ColourEnd) + Len(Newline) > LineSize
      BY <2>4, <2>8, <3>1, <3>2, UsageIs
    <3>. QED BY <3>2, <3>4, <3>6, <3>7, <3>8
  <2>15. filtered => Keyword \in Range(shown)
    <3> SUFFICES ASSUME KeywordIn(body) PROVE Keyword \in Range(shown)
      BY <1>3
    <3>1. PICK i \in 1 .. n : body.bytes[i] = Keyword
      BY DEF KeywordIn
    <3>2. shown[i] = Keyword /\ DOMAIN shown = 1 .. n
      BY <2>5, <3>1 DEF IsString
    <3>. QED BY <3>1, <3>2 DEF Range
  <2>16. end = (IF coloured' THEN ColourEnd ELSE << >>) \o Newline
    BY <1>1 DEF end, close
  <2>. HIDE DEF shown
  <2>17. LineWhole'
    BY <1>1, <2>1, <2>11, <2>12, <2>15, <2>16 DEF LineWhole
  <2>. QED BY <1>1, <2>17 DEF LineIInv
<1>. QED BY <1>2, <1>3

LEMMA LineStep == LineIInv /\ [LineNext]_lineVars => LineIInv'
<1>1. ASSUME LineIInv, UNCHANGED lineVars PROVE LineIInv'
  BY <1>1 DEF LineIInv, LineWhole, lineVars
<1>2. ASSUME LineIInv, LineNext PROVE LineIInv'
  BY <1>2, OutputStep DEF LineNext
<1>. QED BY <1>1, <1>2

\* A line that goes out is what was meant, or the beginning of it when that does
\* not fit, unless vsnprintf failed, and closes its colour, ends with a newline and
\* holds the keyword in every case, whatever the size of the buffer, the colours and
\* the messages are.  (elog_output, elog_strcpy)
THEOREM LineWholeAlways == LineSpec => []LineWhole
<1>1. LineInit => LineIInv
  BY DEF LineInit, LineIInv, LineWhole
<1>2. LineIInv => LineWhole
  BY DEF LineIInv
<1>. QED BY <1>1, <1>2, LineStep, PTL DEF LineSpec

-----------------------------------------------------------------------------
(* LogFile *)

FileTypeOK ==
  /\ files \in [Days -> [0 .. MaxRotate -> Seq(Nat)]] /\ lines \in [Days -> Seq(Nat)]
  /\ today \in Days /\ cur_day \in Days /\ fp \in Days \cup {0}
  /\ wpc \in [Writers -> {"idle", "lock", "measure", "config", "check", "write", "unlock", "rotate"}]
  /\ file_size \in [Writers -> Nat] /\ copy \in [Writers -> 0 .. MaxRotate]

\* The lines from the one after a up to b.
Numbers(a, b) == [i \in 1 .. b - a |-> a + i]

\* The files of a day hold its lines as cut says: at n those from the one after
\* cut[n + 1] up to cut[n].
Laid(d, cut) ==
  /\ cut[0] = Len(lines[d]) /\ lines[d] = Numbers(0, cut[0])
  /\ \A n \in 0 .. MaxRotate :
       cut[n + 1] <= cut[n] /\ files[d][n] = Numbers(cut[n + 1], cut[n])

\* The copy a rotation has taken away and not yet replaced.
Emptied(d, n) ==
  \E w \in Writers : wpc[w] = "rotate" /\ d = cur_day /\ n = copy[w] /\ copy[w] < MaxRotate

\* Lines are lost only when there are all the copies there may be.
Spared(d, cut) ==
  semid /\ ~failed /\ cut[MaxRotate + 1] > 0 =>
    \A n \in 1 .. MaxRotate : Emptied(d, n) \/ files[d][n] # << >>

Cuts == [0 .. MaxRotate + 1 -> 0 .. MaxLines]
InOrder == \A d \in Days : \E cut \in Cuts : Laid(d, cut) /\ Spared(d, cut)

\* While a writer rotates the file is closed and the others are not in its way.
RotatesAlone ==
  \A w \in Writers : wpc[w] = "rotate" =>
    /\ fp = 0
    /\ copy[w] < MaxRotate => files[cur_day][copy[w]] = << >>
    /\ \A v \in Writers \ {w} : wpc[v] \in {"idle", "lock", "measure"}

\* What the semaphore is for.
OneInside == semid => \A w \in Writers : Inside(w) => sem = w

\* The size that has been measured is that of the file of the day, until it is
\* written to or rotated.
Measured ==
  /\ (\A w \in Writers : wpc[w] # "config") => fp \in {0, cur_day}
  /\ \A w \in Writers :
       /\ wpc[w] = "check" => fp = cur_day /\ file_size[w] = Len(files[fp][0])
       /\ wpc[w] = "write" /\ fp # 0 => Len(files[fp][0]) <= MaxFileSize
       /\ wpc[w] = "rotate" /\ copy[w] > 0 => TooLarge(Len(files[cur_day][0]))

SizeKnown == semid => Measured

Sized ==
  semid =>
    \A d \in Days :
      /\ \A n \in 0 .. MaxRotate : Len(files[d][n]) <= MaxFileSize + 1
      /\ \A n \in 1 .. MaxRotate : files[d][n] # << >> => TooLarge(Len(files[d][n]))

\* Among the copies nothing is missing.
NoGaps ==
  semid /\ ~failed =>
    \A d \in Days : \A m, n \in 1 .. MaxRotate :
      m < n /\ files[d][n] # << >> => Emptied(d, m) \/ files[d][m] # << >>

FileIInv ==
  ~ruined => /\ FileTypeOK /\ InOrder /\ RotatesAlone /\ OneInside
             /\ SizeKnown /\ Sized /\ NoGaps

LEMMA NumbersIs ==
  ASSUME NEW a \in Nat, NEW b \in Nat, a <= b
  PROVE  /\ Numbers(a, b) \in Seq(Nat) /\ Len(Numbers(a, b)) = b - a
         /\ \A i \in 1 .. b - a : Numbers(a, b)[i] = a + i
         /\ Numbers(a, b) = << >> <=> a = b
<1>1. b - a \in Nat
  OBVIOUS
<1>2. /\ Numbers(a, b) \in Seq(Nat) /\ Len(Numbers(a, b)) = b - a
      /\ \A i \in 1 .. b - a : Numbers(a, b)[i] = a + i
  BY <1>1 DEF Numbers
<1>3. Numbers(a, b) = << >> <=> a = b
  BY <1>1, <1>2
<1>. QED BY <1>2, <1>3

LEMMA NumbersJoin ==
  ASSUME NEW a \in Nat, NEW b \in Nat, NEW c \in Nat, a <= b, b <= c
  PROVE  Numbers(a, b) \o Numbers(b, c) = Numbers(a, c)
<1> DEFINE x == Numbers(a, b)
           y == Numbers(b, c)
           z == Numbers(a, c)
<1>1. /\ x \in Seq(Nat) /\ Len(x) = b - a /\ \A i \in 1 .. b - a : x[i] = a + i
      /\ y \in Seq(Nat) /\ Len(y) = c - b /\ \A i \in 1 .. c - b : y[i] = b + i
      /\ z \in Seq(Nat) /\ Len(z) = c - a /\ \A i \in 1 .. c - a : z[i] = a + i
  <2>1. x \in Seq(Nat) /\ Len(x) = b - a /\ \A i \in 1 .. b - a : x[i] = a + i
    BY NumbersIs
  <2>2. y \in Seq(Nat) /\ Len(y) = c - b /\ \A i \in 1 .. c - b : y[i] = b + i
    BY NumbersIs
  <2>3. z \in Seq(Nat) /\ Len(z) = c - a /\ \A i \in 1 .. c - a : z[i] = a + i
    <3>1. a <= c
      OBVIOUS
    <3>. QED BY <3>1, NumbersIs
  <2>. QED BY <2>1, <2>2, <2>3
<1>. HIDE DEF x, y, z
<1>2. /\ x \o y \in Seq(Nat) /\ Len(x \o y) = c - a
      /\ \A i \in 1 .. c - a : (x \o y)[i] = IF i <= b - a THEN x[i] ELSE y[i - (b - a)]
  <2>1. /\ x \o y \in Seq(Nat) /\ Len(x \o y) = Len(x) + Len(y)
        /\ \A i \in 1 .. Len(x) + Len(y) : (x \o y)[i] = IF i <= Len(x) THEN x[i] ELSE y[i - Len(x)]
    BY <1>1, ConcatProperties
  <2>2. Len(x) + Len(y) = c - a
    BY <1>1
  <2>. QED BY <1>1, <2>1, <2>2
<1>3. \A i \in 1 .. c - a : (x \o y)[i] = z[i]
  <2> SUFFICES ASSUME NEW i \in 1 .. c - a PROVE (x \o y)[i] = z[i]
    OBVIOUS
  <2>1. CASE i <= b - a
    BY <1>1, <1>2, <2>1
  <2>2. CASE ~(i <= b - a)
    <3>1. i - (b - a) \in 1 .. c - b /\ b + (i - (b - a)) = a + i
      BY <2>2
    <3>2. y[i - (b - a)] = b + (i - (b - a))
      BY <1>1, <3>1
    <3>. QED BY <1>1, <1>2, <2>2, <3>1, <3>2
  <2>. QED BY <2>1, <2>2
<1>. QED BY <1>1, <1>2, <1>3, SeqEqual DEF x, y, z

\* What a reader finds in files that are laid as cut says.
LEMMA FoundIs ==
  ASSUME NEW d \in Days, NEW cut \in Cuts, Laid(d, cut)
  PROVE  /\ cut[MaxRotate + 1] <= cut[0]
         /\ Found(d) = Numbers(cut[MaxRotate + 1], cut[0])
<1>1. MaxRotate \in Nat \ {0} /\ MaxLines \in Nat
  BY LogFileAssumption
<1>2. \A n \in 0 .. MaxRotate + 1 : cut[n] \in Nat
  BY <1>1 DEF Cuts
<1>3. \A n \in 0 .. MaxRotate : cut[n + 1] <= cut[n] /\ files[d][n] = Numbers(cut[n + 1], cut[n])
  BY DEF Laid
<1> DEFINE last == MaxRotate + 1
           base == cut[last]
<1>4. \A n \in 0 .. last : base <= cut[n]
  <2> DEFINE Less == {k \in 0 .. last : ~(base <= cut[last - k])}
  <2>1. ASSUME NEW j \in Less PROVE FALSE
    <3> DEFINE k == Min(Less)
    <3>1. Less \in SUBSET Nat
      OBVIOUS
    <3>2. k \in Less /\ \A i \in Less : k <= i
      <4>. HIDE DEF Less
      <4>. QED BY <2>1, <3>1, LeastThereIs
    <3>. HIDE DEF k
    <3>3. k \in 0 .. last /\ ~(base <= cut[last - k])
      BY <3>2
    <3>4. k # 0
      BY <1>1, <1>2, <3>3
    <3>5. k - 1 \in 0 .. last /\ last - (k - 1) = (last - k) + 1 /\ last - k \in 0 .. MaxRotate
      BY <1>1, <3>3, <3>4
    <3>6. base <= cut[last - (k - 1)]
      BY <3>2, <3>5
    <3>7. cut[(last - k) + 1] <= cut[last - k]
      BY <1>3, <3>5
    <3>8. base \in Nat /\ cut[last - k] \in Nat /\ cut[(last - k) + 1] \in Nat
      BY <1>1, <1>2, <3>5
    <3>. HIDE DEF base, last
    <3>. QED BY <3>3, <3>5, <3>6, <3>7, <3>8
  <2>2. SUFFICES ASSUME NEW n \in 0 .. last PROVE base <= cut[n]
    OBVIOUS
  <2>3. last - n \in 0 .. last /\ last - (last - n) = n
    BY <1>1, <2>2
  <2>. QED BY <2>1, <2>3
<1> DEFINE s == [i \in 1 .. last |-> files[d][MaxRotate + 1 - i]]
           g == [i \in 1 .. last |-> Numbers(base, cut[last - i])]
<1>5. Found(d) = FlattenSeq(s)
  BY DEF Found
<1>6. Len(s) = last /\ last \in Nat \ {0}
  BY <1>1
<1>7. Flattens(s, g)
  <2>1. ASSUME NEW i \in 1 .. last
        PROVE  g[i] = IF i = 1 THEN s[i] ELSE g[i - 1] \o s[i]
    <3>1. last - i \in 0 .. MaxRotate /\ (last - i) + 1 \in 0 .. last
      BY <1>1
    <3>2. s[i] = Numbers(cut[(last - i) + 1], cut[last - i])
      <4>1. MaxRotate + 1 - i = last - i
        BY <1>1
      <4>2. s[i] = files[d][last - i]
        BY <4>1
      <4>. QED BY <1>3, <3>1, <4>2
    <3>3. g[i] = Numbers(base, cut[last - i])
      OBVIOUS
    <3>4. CASE i = 1
      <4>1. (last - i) + 1 = last
        BY <1>1, <3>4
      <4>. QED BY <3>2, <3>3, <3>4, <4>1
    <3>5. CASE i # 1
      <4>1. i - 1 \in 1 .. last /\ last - (i - 1) = (last - i) + 1
        BY <1>1, <3>5
      <4>2. g[i - 1] = Numbers(base, cut[(last - i) + 1])
        BY <4>1
      <4>3. /\ base \in Nat /\ cut[(last - i) + 1] \in Nat /\ cut[last - i] \in Nat
            /\ base <= cut[(last - i) + 1] /\ cut[(last - i) + 1] <= cut[last - i]
        BY <1>1, <1>2, <1>3, <1>4, <3>1
      <4>. HIDE DEF base, last, g, s
      <4>4. Numbers(base, cut[(last - i) + 1]) \o Numbers(cut[(last - i) + 1], cut[last - i])
              = Numbers(base, cut[last - i])
        BY <4>3, NumbersJoin
      <4>. QED BY <3>2, <3>3, <3>5, <4>2, <4>4
    <3>. QED BY <3>4, <3>5
  <2>2. g = [i \in 1 .. last |-> IF i = 1 THEN s[i] ELSE g[i - 1] \o s[i]]
    <3>1. DOMAIN g = 1 .. last /\ g = [i \in 1 .. last |-> g[i]]
      OBVIOUS
    <3>. HIDE DEF g, s, last
    <3>. QED BY <2>1, <3>1
  <2>. QED BY <1>6, <2>2 DEF Flattens
<1>8. FlattenSeq(s) = g[last]
  <2>. HIDE DEF s, g, last
  <2>. QED BY <1>6, <1>7, FlattenIs
<1>9. last \in 1 .. last /\ last - last = 0
  BY <1>1
<1>10. g[last] = Numbers(base, cut[0])
  BY <1>9
<1>. QED BY <1>1, <1>4, <1>5, <1>8, <1>10

LEMMA OrderFollows == FileIInv => LinesInOrder
<1> SUFFICES ASSUME FileIInv, ~ruined, NEW d \in Days PROVE IsSuffix(Found(d), lines[d])
  BY DEF LinesInOrder
<1>1. PICK cut \in Cuts : Laid(d, cut)
  BY DEF FileIInv, InOrder
<1> DEFINE a == cut[MaxRotate + 1]
           b == cut[0]
<1>2. a \in Nat /\ b \in Nat /\ a <= b /\ Found(d) = Numbers(a, b) /\ lines[d] = Numbers(0, b)
  <2>1. 0 \in 0 .. MaxRotate + 1 /\ MaxRotate + 1 \in 0 .. MaxRotate + 1 /\ MaxLines \in Nat
    BY LogFileAssumption
  <2>2. a \in Nat /\ b \in Nat
    BY <2>1 DEF Cuts
  <2>. QED BY <1>1, <2>2, FoundIs DEF Laid
<1>. HIDE DEF a, b
<1> DEFINE e == Numbers(a, b)
           l == Numbers(0, b)
<1>3. /\ e \in Seq(Nat) /\ Len(e) = b - a /\ \A i \in 1 .. b - a : e[i] = a + i
      /\ l \in Seq(Nat) /\ Len(l) = b /\ \A i \in 1 .. b : l[i] = i
  <2>1. e \in Seq(Nat) /\ Len(e) = b - a /\ \A i \in 1 .. b - a : e[i] = a + i
    BY <1>2, NumbersIs
  <2>2. l \in Seq(Nat) /\ Len(l) = b - 0 /\ \A i \in 1 .. b - 0 : l[i] = 0 + i
    <3>1. 0 \in Nat /\ 0 <= b
      BY <1>2
    <3>. QED BY <1>2, <3>1, NumbersIs
  <2>. QED BY <1>2, <2>1, <2>2
<1>. HIDE DEF e, l
<1>4. Len(e) <= Len(l) /\ \A i \in 1 .. Len(e) : l[Len(l) - Len(e) + i] = e[i]
  <2>1. ASSUME NEW i \in 1 .. Len(e) PROVE l[Len(l) - Len(e) + i] = e[i]
    <3>1. i \in 1 .. b - a /\ Len(l) - Len(e) + i = a + i /\ a + i \in 1 .. b
      BY <1>2, <1>3
    <3>. QED BY <1>3, <3>1
  <2>. QED BY <1>2, <1>3, <2>1
<1>. QED BY <1>2, <1>3, <1>4, SuffixIs DEF e, l

\* When all the copies are there, but for the one a rotation has emptied while the
\* file was large, that many lines are there.
LEMMA ManyFollow ==
  ASSUME FileIInv, ~ruined, semid, ~failed,
         NEW d \in Days, NEW cut \in Cuts, Laid(d, cut), Spared(d, cut), cut[MaxRotate + 1] > 0
  PROVE  cut[0] - cut[MaxRotate + 1] >= MaxRotate * (MaxFileSize + 1)
<1>1. /\ MaxRotate \in Nat \ {0} /\ MaxLines \in Nat /\ MaxFileSize \in Nat
      /\ FileTypeOK /\ RotatesAlone /\ SizeKnown /\ Sized
  BY LogFileAssumption DEF FileIInv
<1>2. \A n \in 0 .. MaxRotate + 1 : cut[n] \in Nat
  BY <1>1 DEF Cuts
<1> DEFINE large == MaxFileSize + 1
<1>3. large \in Nat
  BY <1>1
<1>4. \A n \in 0 .. MaxRotate :
        cut[n + 1] <= cut[n] /\ Len(files[d][n]) = cut[n] - cut[n + 1]
  <2> SUFFICES ASSUME NEW n \in 0 .. MaxRotate
               PROVE  cut[n + 1] <= cut[n] /\ Len(files[d][n]) = cut[n] - cut[n + 1]
    OBVIOUS
  <2>1. cut[n + 1] <= cut[n] /\ files[d][n] = Numbers(cut[n + 1], cut[n])
    BY DEF Laid
  <2>2. cut[n] \in Nat /\ cut[n + 1] \in Nat
    BY <1>1, <1>2
  <2>. QED BY <2>1, <2>2, NumbersIs
<1>5. \A n \in 1 .. MaxRotate : ~Emptied(d, n) => cut[n] >= cut[n + 1] + large
  <2> SUFFICES ASSUME NEW n \in 1 .. MaxRotate, ~Emptied(d, n) PROVE cut[n] >= cut[n + 1] + large
    OBVIOUS
  <2>1. files[d][n] # << >>
    BY DEF Spared
  <2>2. Len(files[d][n]) > MaxFileSize
    BY <1>1, <2>1 DEF Sized, TooLarge
  <2>3. cut[n] \in Nat /\ cut[n + 1] \in Nat /\ Len(files[d][n]) = cut[n] - cut[n + 1]
    BY <1>1, <1>2, <1>4
  <2>. QED BY <1>1, <2>2, <2>3
\* From the oldest copy on.
<1> DEFINE top == MaxRotate + 1
           Enough(k) == cut[top - k] >= cut[top] + k * large
           EnoughBut(k) == k > 0 => cut[top - k] >= cut[top] + (k - 1) * large
<1>6. ASSUME NEW k \in Nat, k < MaxRotate
      PROVE  /\ top - (k + 1) \in 1 .. MaxRotate /\ (top - (k + 1)) + 1 = top - k
             /\ (k + 1) * large = k * large + large
             /\ k * large \in Nat
             /\ cut[top - k] \in Nat /\ cut[top - (k + 1)] \in Nat /\ cut[top] \in Nat
  <2>1. /\ top - (k + 1) \in 1 .. MaxRotate /\ (top - (k + 1)) + 1 = top - k
        /\ top - k \in 0 .. top /\ top - (k + 1) \in 0 .. top /\ top \in 0 .. top
    BY <1>1, <1>6
  <2>2. (k + 1) * large = k * large + large /\ k * large \in Nat
    <3>. HIDE DEF large
    <3>. QED BY <1>3, <1>6
  <2>. QED BY <1>2, <2>1, <2>2
<1>7. CASE \A n \in 1 .. MaxRotate : ~Emptied(d, n)
  <2> DEFINE Short == {k \in 0 .. MaxRotate : ~Enough(k)}
  <2>1. ASSUME NEW j \in Short PROVE FALSE
    <3> DEFINE m == Min(Short)
    <3>1. m \in Short /\ \A i \in Short : m <= i
      <4>1. Short \in SUBSET Nat
        OBVIOUS
      <4>. HIDE DEF Short
      <4>. QED BY <2>1, <4>1, LeastThereIs
    <3>. HIDE DEF m
    <3>2. m \in 0 .. MaxRotate /\ ~Enough(m)
      BY <3>1
    <3>3. m # 0
      <4>1. Enough(0)
        <5>1. 0 * large = 0 /\ top - 0 = top /\ cut[top] \in Nat
          BY <1>1, <1>2, <1>3
        <5>. QED BY <5>1
      <4>. QED BY <3>2, <4>1
    <3>4. m - 1 \in Nat /\ m - 1 < MaxRotate /\ (m - 1) + 1 = m /\ m \in Nat /\ m - 1 \in 0 .. MaxRotate
      BY <1>1, <3>2, <3>3
    <3>5. Enough(m - 1)
      BY <3>1, <3>4
    <3>6. cut[top - m] >= cut[top - (m - 1)] + large
      BY <1>5, <1>6, <1>7, <3>4
    <3>7. /\ m * large = (m - 1) * large + large /\ (m - 1) * large \in Nat
          /\ cut[top - (m - 1)] \in Nat /\ cut[top - m] \in Nat /\ cut[top] \in Nat
      BY <1>6, <3>4
    <3>. HIDE DEF large, top
    <3>. QED BY <1>3, <3>2, <3>5, <3>6, <3>7
  <2>2. Enough(MaxRotate)
    BY <1>1, <2>1
  <2>3. top - MaxRotate = 1 /\ cut[1] <= cut[0] /\ cut[0] \in Nat /\ cut[1] \in Nat /\ cut[top] \in Nat
    <3>1. 0 \in 0 .. MaxRotate /\ 0 + 1 = 1 /\ 1 \in 0 .. top /\ 0 \in 0 .. top /\ top \in 0 .. top
          /\ top - MaxRotate = 1
      BY <1>1
    <3>. QED BY <1>2, <1>4, <3>1
  <2>4. MaxRotate * large \in Nat
    BY <1>1, <1>3
  <2>. HIDE DEF top
  <2>5. cut[0] - cut[top] >= MaxRotate * large
    <3>. HIDE DEF large
    <3>. QED BY <2>2, <2>3, <2>4
  <2>. QED BY <2>5 DEF top
<1>8. CASE \E n \in 1 .. MaxRotate : Emptied(d, n)
  <2>1. PICK h \in 1 .. MaxRotate : Emptied(d, h)
    BY <1>8
  <2>2. PICK w \in Writers : wpc[w] = "rotate" /\ d = cur_day /\ h = copy[w] /\ copy[w] < MaxRotate
    BY <2>1 DEF Emptied
  <2>3. \A n \in 1 .. MaxRotate : n # h => ~Emptied(d, n)
    BY <1>1, <2>2 DEF Emptied, RotatesAlone
  <2>4. Len(files[d][0]) >= large
    <3>1. TooLarge(Len(files[d][0]))
      <4>1. wpc[w] = "rotate" /\ d = cur_day /\ copy[w] > 0
        BY <2>2
      <4>. QED BY <1>1, <4>1 DEF SizeKnown, Measured
    <3>2. Len(files[d][0]) \in Nat
      <4>1. files[d] \in [0 .. MaxRotate -> Seq(Nat)] /\ 0 \in 0 .. MaxRotate
        BY <1>1 DEF FileTypeOK
      <4>. QED BY <4>1
    <3>. QED BY <1>1, <3>1, <3>2 DEF TooLarge
  <2> DEFINE Right(k) == IF k < top - h THEN Enough(k) ELSE EnoughBut(k)
             Short == {k \in 0 .. MaxRotate : ~Right(k)}
  <2>5. ASSUME NEW j \in Short PROVE FALSE
    <3> DEFINE m == Min(Short)
    <3>1. m \in Short /\ \A i \in Short : m <= i
      <4>1. Short \in SUBSET Nat
        OBVIOUS
      <4>. HIDE DEF Short
      <4>. QED BY <2>5, <4>1, LeastThereIs
    <3>. HIDE DEF m
    <3>2. m \in 0 .. MaxRotate /\ ~Right(m)
      BY <3>1
    <3>3. m # 0
      <4>1. Enough(0) /\ 0 < top - h
        <5>1. 0 * large = 0 /\ top - 0 = top /\ cut[top] \in Nat /\ 0 < top - h
          BY <1>1, <1>2, <1>3
        <5>. QED BY <5>1
      <4>. QED BY <3>2, <4>1
    <3>4. m - 1 \in Nat /\ m - 1 < MaxRotate /\ (m - 1) + 1 = m /\ m \in Nat /\ m - 1 \in 0 .. MaxRotate
      BY <1>1, <3>2, <3>3
    <3>5. Right(m - 1)
      BY <3>1, <3>4
    <3>6. /\ m * large = (m - 1) * large + large /\ (m - 1) * large \in Nat
          /\ cut[top - (m - 1)] \in Nat /\ cut[top - m] \in Nat /\ cut[top] \in Nat
          /\ top - m \in 1 .. MaxRotate /\ (top - m) + 1 = top - (m - 1)
      BY <1>6, <3>4
    <3>7. top - m # h => cut[top - m] >= cut[top - (m - 1)] + large
      BY <1>5, <2>3, <3>6
    <3>8. cut[top - m] >= cut[top - (m - 1)]
      <4>1. top - m \in 0 .. MaxRotate
        BY <3>6
      <4>. QED BY <1>4, <3>6, <4>1
    <3>9. m - 1 > 0 => /\ (m - 1) * large = ((m - 1) - 1) * large + large
                       /\ ((m - 1) - 1) * large \in Nat
      <4> SUFFICES ASSUME m - 1 > 0 PROVE /\ (m - 1) * large = ((m - 1) - 1) * large + large
                                          /\ ((m - 1) - 1) * large \in Nat
        OBVIOUS
      <4> DEFINE k == (m - 1) - 1
      <4>1. k \in Nat /\ k < MaxRotate /\ k + 1 = m - 1
        BY <1>1, <3>4
      <4>. HIDE DEF k
      <4>2. (k + 1) * large = k * large + large /\ k * large \in Nat
        BY <1>6, <4>1
      <4>. QED BY <4>1, <4>2 DEF k
    <3>10. top \in Nat /\ h \in Nat
      BY <1>1
    <3>. HIDE DEF large, top
    <3>11. CASE m < top - h
      <4>1. m - 1 < top - h /\ top - m # h
        BY <3>4, <3>10, <3>11
      <4>. QED BY <1>3, <3>2, <3>5, <3>6, <3>7, <3>11, <4>1
    <3>12. CASE m = top - h
      <4>1. m - 1 < top - h /\ ~(m < top - h)
        BY <3>4, <3>10, <3>12
      <4>. QED BY <1>3, <3>2, <3>4, <3>5, <3>6, <3>8, <4>1
    <3>13. CASE m > top - h
      <4>1. ~(m - 1 < top - h) /\ top - m # h /\ ~(m < top - h) /\ m - 1 > 0
        BY <3>4, <3>10, <3>13, <1>1, <2>2 DEF top
      <4>. QED BY <1>3, <3>2, <3>4, <3>5, <3>6, <3>7, <3>9, <4>1
    <3>. QED BY <3>4, <3>10, <3>11, <3>12, <3>13
  <2>6. Right(MaxRotate)
    BY <1>1, <2>5
  <2>7. EnoughBut(MaxRotate) /\ MaxRotate > 0
    BY <1>1, <2>6
  <2>8. /\ top - MaxRotate = 1 /\ cut[0] \in Nat /\ cut[1] \in Nat /\ cut[top] \in Nat
        /\ cut[0] >= cut[1] + large
    <3>1. 0 \in 0 .. MaxRotate /\ 0 + 1 = 1 /\ 1 \in 0 .. top /\ 0 \in 0 .. top /\ top \in 0 .. top
          /\ top - MaxRotate = 1
      BY <1>1
    <3>2. cut[0] \in Nat /\ cut[1] \in Nat /\ cut[top] \in Nat /\ Len(files[d][0]) = cut[0] - cut[1]
      BY <1>2, <1>4, <3>1
    <3>. HIDE DEF top
    <3>. QED BY <1>3, <2>4, <3>1, <3>2
  <2>9. MaxRotate * large = (MaxRotate - 1) * large + large /\ (MaxRotate - 1) * large \in Nat
    <3> DEFINE k == MaxRotate - 1
    <3>1. k \in Nat /\ k < MaxRotate /\ k + 1 = MaxRotate
      BY <1>1
    <3>. HIDE DEF k
    <3>2. (k + 1) * large = k * large + large /\ k * large \in Nat
      BY <1>6, <3>1
    <3>. QED BY <3>1, <3>2 DEF k
  <2>. HIDE DEF top
  <2>10. cut[0] - cut[top] >= MaxRotate * large
    <3>. HIDE DEF large
    <3>. QED BY <1>3, <2>7, <2>8, <2>9
  <2>. QED BY <2>10 DEF top
<1>. QED BY <1>7, <1>8

LEMMA OldestFollows == FileIInv => OnlyOldestLost
<1> SUFFICES ASSUME FileIInv, semid, ~ruined, NEW d \in Days,
                    ~failed, Len(Found(d)) < Len(lines[d])
             PROVE  Len(Found(d)) >= MaxRotate * (MaxFileSize + 1)
  BY DEF OnlyOldestLost, FileIInv, Sized
<1>1. PICK cut \in Cuts : Laid(d, cut) /\ Spared(d, cut)
  BY DEF FileIInv, InOrder
<1> DEFINE a == cut[MaxRotate + 1]
           b == cut[0]
<1>2. a \in Nat /\ b \in Nat /\ a <= b /\ Found(d) = Numbers(a, b) /\ Len(lines[d]) = b
  <2>1. 0 \in 0 .. MaxRotate + 1 /\ MaxRotate + 1 \in 0 .. MaxRotate + 1 /\ MaxLines \in Nat
    BY LogFileAssumption
  <2>2. a \in Nat /\ b \in Nat
    BY <2>1 DEF Cuts
  <2>. QED BY <1>1, <2>2, FoundIs DEF Laid
<1>3. Len(Found(d)) = b - a
  <2>. HIDE DEF a, b
  <2>. QED BY <1>2, NumbersIs
<1>4. a > 0
  BY <1>2, <1>3
<1>. QED BY <1>1, <1>3, <1>4, ManyFollow

LEMMA NumbersNext ==
  ASSUME NEW a \in Nat, NEW b \in Nat, a <= b
  PROVE  Append(Numbers(a, b), b + 1) = Numbers(a, b + 1)
<1>1. /\ Numbers(a, b) \in Seq(Nat) /\ Len(Numbers(a, b)) = b - a
      /\ \A i \in 1 .. b - a : Numbers(a, b)[i] = a + i
  BY NumbersIs
<1>2. /\ Numbers(a, b + 1) \in Seq(Nat) /\ Len(Numbers(a, b + 1)) = (b + 1) - a
      /\ \A i \in 1 .. (b + 1) - a : Numbers(a, b + 1)[i] = a + i
  <2>1. b + 1 \in Nat /\ a <= b + 1
    OBVIOUS
  <2>. QED BY <2>1, NumbersIs
<1> DEFINE x == Numbers(a, b)
           y == Numbers(a, b + 1)
           e == Append(x, b + 1)
<1>3. e \in Seq(Nat) /\ Len(e) = (b + 1) - a
  <2>1. x \in Seq(Nat) /\ Len(x) = b - a /\ b + 1 \in Nat
    BY <1>1
  <2>. HIDE DEF x
  <2>2. e \in Seq(Nat) /\ Len(e) = Len(x) + 1
    BY <2>1
  <2>. HIDE DEF e
  <2>. QED BY <2>1, <2>2
<1>4. \A i \in 1 .. Len(e) : e[i] = y[i]
  <2> SUFFICES ASSUME NEW i \in 1 .. (b + 1) - a PROVE e[i] = y[i]
    BY <1>3
  <2>1. y[i] = a + i
    BY <1>2
  <2>2. e[i] = IF i <= Len(x) THEN x[i] ELSE b + 1
    BY <1>1, <1>3
  <2>3. i <= b - a => i \in 1 .. b - a
    OBVIOUS
  <2>4. ~(i <= b - a) => a + i = b + 1
    OBVIOUS
  <2>. QED BY <1>1, <2>1, <2>2, <2>3, <2>4
<1>. QED BY <1>2, <1>3, <1>4, SeqEqual

\* The semaphore lets one thread in.
LEMMA OthersWait ==
  ASSUME FileIInv, ~ruined, semid, NEW w \in Writers, Inside(w)
  PROVE  \A v \in Writers \ {w} : wpc[v] \in {"idle", "lock"}
BY DEF FileIInv, OneInside, Inside

LEMMA FileAtTheStart == FileInit => FileIInv
<1> SUFFICES ASSUME FileInit PROVE FileIInv
  OBVIOUS
<1>1. /\ MaxFileSize \in Nat /\ MaxRotate \in Nat \ {0} /\ MaxLines \in Nat /\ MaxDays \in Nat \ {0}
  BY LogFileAssumption
<1>2. \A d \in Days : lines[d] = << >> /\ \A n \in 0 .. MaxRotate : files[d][n] = << >>
  BY DEF FileInit
<1>3. FileTypeOK
  <2>1. << >> \in Seq(Nat) /\ 1 \in Days /\ 0 \in 0 .. MaxRotate
    BY <1>1 DEF Days
  <2>. QED BY <2>1 DEF FileInit, FileTypeOK
<1>4. InOrder
  <2> SUFFICES ASSUME NEW d \in Days PROVE \E cut \in Cuts : Laid(d, cut) /\ Spared(d, cut)
    BY DEF InOrder
  <2> DEFINE cut == [n \in 0 .. MaxRotate + 1 |-> 0]
  <2>1. cut \in Cuts
    BY <1>1 DEF Cuts
  <2>2. \A n \in 0 .. MaxRotate + 1 : cut[n] = 0
    OBVIOUS
  <2>. HIDE DEF cut
  <2>3. Numbers(0, 0) = << >>
    BY NumbersIs
  <2>4. 0 \in 0 .. MaxRotate + 1 /\ MaxRotate + 1 \in 0 .. MaxRotate + 1
        /\ \A n \in 0 .. MaxRotate : n \in 0 .. MaxRotate + 1 /\ n + 1 \in 0 .. MaxRotate + 1
    BY <1>1
  <2>5. Laid(d, cut)
    BY <1>2, <2>2, <2>3, <2>4 DEF Laid
  <2>6. Spared(d, cut)
    BY <2>2, <2>4 DEF Spared
  <2>. QED BY <2>1, <2>5, <2>6
<1>5. RotatesAlone /\ OneInside
  BY DEF FileInit, RotatesAlone, OneInside, Inside
<1>6. SizeKnown
  BY DEF FileInit, SizeKnown, Measured
<1>7. Sized
  <2> SUFFICES ASSUME NEW d \in Days
               PROVE  /\ \A n \in 0 .. MaxRotate : Len(files[d][n]) <= MaxFileSize + 1
                      /\ \A n \in 1 .. MaxRotate : files[d][n] = << >>
    BY DEF Sized
  <2>1. \A n \in 1 .. MaxRotate : n \in 0 .. MaxRotate
    OBVIOUS
  <2>. QED BY <1>1, <1>2, <2>1
<1>8. NoGaps
  <2>1. \A n \in 1 .. MaxRotate : n \in 0 .. MaxRotate
    OBVIOUS
  <2>. QED BY <1>2, <2>1 DEF NoGaps
<1>. QED BY <1>3, <1>4, <1>5, <1>6, <1>7, <1>8 DEF FileIInv

\* The files are as they were, and of a rotation that goes on nothing has changed.
LEMMA FilesKept ==
  ASSUME FileIInv, ~ruined, UNCHANGED <<files, lines, semid>>, failed => failed',
         semid /\ ~failed' =>
           \A w \in Writers : wpc[w] = "rotate" /\ copy[w] > 0 =>
             wpc'[w] = "rotate" /\ copy'[w] = copy[w] /\ cur_day' = cur_day
  PROVE  InOrder' /\ Sized' /\ NoGaps'
<1>1. FileTypeOK /\ InOrder /\ Sized /\ NoGaps
  BY DEF FileIInv
<1>2. semid /\ ~failed' => \A d \in Days : \A n \in 1 .. MaxRotate : Emptied(d, n) => Emptied(d, n)'
  <2> SUFFICES ASSUME semid, ~failed', NEW d \in Days, NEW n \in 1 .. MaxRotate, Emptied(d, n)
               PROVE  Emptied(d, n)'
    OBVIOUS
  <2>1. PICK w \in Writers : wpc[w] = "rotate" /\ d = cur_day /\ n = copy[w] /\ copy[w] < MaxRotate
    BY DEF Emptied
  <2>2. copy[w] > 0
    BY <2>1
  <2>. QED BY <2>1, <2>2 DEF Emptied
<1>3. InOrder'
  <2> SUFFICES ASSUME NEW d \in Days PROVE \E cut \in Cuts : Laid(d, cut)' /\ Spared(d, cut)'
    BY DEF InOrder, Cuts
  <2>1. PICK cut \in Cuts : Laid(d, cut) /\ Spared(d, cut)
    BY <1>1 DEF InOrder
  <2>2. Laid(d, cut)'
    BY <2>1 DEF Laid, Numbers
  <2>3. Spared(d, cut)'
    BY <1>2, <2>1 DEF Spared
  <2>. QED BY <2>2, <2>3
<1>4. Sized'
  BY <1>1 DEF Sized, TooLarge
<1>5. NoGaps'
  BY <1>1, <1>2 DEF NoGaps
<1>. QED BY <1>3, <1>4, <1>5

LEMMA EnterKeeps == ASSUME FileIInv, ~ruined, NEW w \in Writers, Enter(w) PROVE FileIInv'
<1>1. /\ wpc[w] = "idle" /\ wpc' = [wpc EXCEPT ![w] = "lock"]
      /\ UNCHANGED <<files, today, cur_day, fp, semid, sem, file_size, copy, lines, failed, ruined>>
  BY DEF Enter, FGoto
<1>2. FileTypeOK /\ RotatesAlone /\ OneInside /\ SizeKnown
  BY DEF FileIInv
<1>3. \A v \in Writers : wpc'[v] = IF v = w THEN "lock" ELSE wpc[v]
  BY <1>1, <1>2 DEF FileTypeOK
<1>4. FileTypeOK'
  BY <1>1, <1>2, <1>3 DEF FileTypeOK
<1>5. RotatesAlone'
  BY <1>1, <1>2, <1>3 DEF RotatesAlone
<1>6. OneInside'
  BY <1>1, <1>2, <1>3 DEF OneInside, Inside
<1>7. SizeKnown'
  <2> SUFFICES ASSUME semid PROVE Measured'
    BY <1>1 DEF SizeKnown
  <2>1. (\A v \in Writers : wpc'[v] # "config") => \A v \in Writers : wpc[v] # "config"
    BY <1>1, <1>3
  <2>. QED BY <1>1, <1>2, <1>3, <2>1 DEF SizeKnown, Measured, TooLarge
<1>8. InOrder' /\ Sized' /\ NoGaps'
  BY <1>1, <1>3, FilesKept
<1>. QED BY <1>4, <1>5, <1>6, <1>7, <1>8 DEF FileIInv

LEMMA LockKeeps == ASSUME FileIInv, ~ruined, NEW w \in Writers, Lock(w) PROVE FileIInv'
<1>1. /\ wpc[w] = "lock" /\ wpc' = [wpc EXCEPT ![w] = "measure"]
      /\ semid => sem = NoWriter /\ sem' = w
      /\ UNCHANGED <<files, today, cur_day, fp, semid, file_size, copy, lines, failed, ruined>>
  BY DEF Lock, FGoto
<1>2. FileTypeOK /\ RotatesAlone /\ OneInside /\ SizeKnown
  BY DEF FileIInv
<1>3. \A v \in Writers : wpc'[v] = IF v = w THEN "measure" ELSE wpc[v]
  BY <1>1, <1>2 DEF FileTypeOK
<1>4. FileTypeOK'
  BY <1>1, <1>2, <1>3 DEF FileTypeOK
<1>5. RotatesAlone'
  BY <1>1, <1>2, <1>3 DEF RotatesAlone
<1>6. semid => \A v \in Writers : wpc[v] \in {"idle", "lock"}
  BY <1>1, <1>2, LogFileAssumption DEF OneInside, Inside
<1>7. OneInside'
  BY <1>1, <1>3, <1>6 DEF OneInside, Inside
<1>8. SizeKnown'
  BY <1>1, <1>2, <1>3, <1>6 DEF SizeKnown, Measured
<1>9. InOrder' /\ Sized' /\ NoGaps'
  BY <1>1, <1>3, FilesKept
<1>. QED BY <1>4, <1>5, <1>7, <1>8, <1>9 DEF FileIInv

\* A writer that measures the file of another one's rotation finds it closed.
LEMMA MeasureKeeps == ASSUME FileIInv, ~ruined, NEW w \in Writers, Measure(w) PROVE FileIInv'
<1> SUFFICES ASSUME ~ruined' PROVE FileIInv'
  BY DEF FileIInv
<1> DEFINE next == IF cur_day = today THEN "check" ELSE "config"
           size == Len(files[fp][0])
<1>1. /\ wpc[w] = "measure" /\ wpc' = [wpc EXCEPT ![w] = next]
      /\ fp # 0 /\ file_size' = [file_size EXCEPT ![w] = size] /\ cur_day' = today
      /\ UNCHANGED <<files, today, fp, semid, sem, copy, lines, failed>>
  BY DEF Measure, FGoto
<1>2. FileTypeOK /\ RotatesAlone /\ OneInside /\ SizeKnown
  BY DEF FileIInv
<1>3. \A v \in Writers : /\ wpc'[v] = IF v = w THEN next ELSE wpc[v]
                         /\ file_size'[v] = IF v = w THEN size ELSE file_size[v]
  BY <1>1, <1>2 DEF FileTypeOK
<1>4. FileTypeOK'
  <2>1. size \in Nat
    <3>1. fp \in Days /\ 0 \in 0 .. MaxRotate
      BY <1>1, <1>2, LogFileAssumption DEF FileTypeOK
    <3>2. files[fp][0] \in Seq(Nat)
      BY <1>2, <3>1 DEF FileTypeOK
    <3>. QED BY <3>2
  <2>. HIDE DEF size
  <2>2. wpc' \in [Writers -> {"idle", "lock", "measure", "config", "check", "write", "unlock", "rotate"}]
    BY <1>1, <1>2 DEF FileTypeOK
  <2>3. file_size' \in [Writers -> Nat]
    BY <1>1, <1>2, <2>1 DEF FileTypeOK
  <2>. QED BY <1>1, <1>2, <2>2, <2>3 DEF FileTypeOK
<1>5. \A v \in Writers : wpc[v] # "rotate" /\ wpc'[v] # "rotate"
  BY <1>1, <1>2, <1>3 DEF RotatesAlone
<1>6. RotatesAlone'
  BY <1>5 DEF RotatesAlone
<1>7. semid => \A v \in Writers \ {w} : wpc[v] \in {"idle", "lock"}
  BY <1>1, OthersWait DEF Inside
<1>8. OneInside'
  BY <1>1, <1>2, <1>3 DEF OneInside, Inside
<1>9. SizeKnown'
  <2> SUFFICES ASSUME semid PROVE Measured'
    BY <1>1 DEF SizeKnown
  <2>1. fp = cur_day
    BY <1>1, <1>2, <1>7 DEF SizeKnown, Measured
  <2>2. wpc'[w] # "config" => cur_day' = cur_day
    BY <1>1, <1>3
  <2>3. \A v \in Writers : wpc'[v] \in {"check", "config", "idle", "lock"} /\ (v # w => wpc'[v] # "check")
    BY <1>3, <1>7
  <2>4. wpc'[w] = "check" => fp' = cur_day' /\ file_size'[w] = Len(files'[fp'][0])
    BY <1>1, <1>3, <2>1, <2>2
  <2>. QED BY <1>1, <2>1, <2>2, <2>3, <2>4 DEF Measured
<1>10. InOrder' /\ Sized' /\ NoGaps'
  BY <1>1, <1>5, FilesKept
<1>. QED BY <1>4, <1>6, <1>8, <1>9, <1>10 DEF FileIInv

LEMMA ConfigKeeps == ASSUME FileIInv, ~ruined, NEW w \in Writers, Config(w) PROVE FileIInv'
<1> SUFFICES ASSUME ~ruined' PROVE FileIInv'
  BY DEF FileIInv
<1>1. /\ wpc[w] = "config" /\ wpc' = [wpc EXCEPT ![w] = "check"]
      /\ ~semid /\ ~OthersInside(w) /\ fp' \in {0, cur_day}
      /\ UNCHANGED <<files, today, cur_day, semid, sem, file_size, copy, lines, failed>>
  BY DEF Config, FGoto, Opened
<1>2. FileTypeOK
  BY DEF FileIInv
<1>3. \A v \in Writers : wpc'[v] = IF v = w THEN "check" ELSE wpc[v]
  BY <1>1, <1>2 DEF FileTypeOK
<1>4. FileTypeOK'
  BY <1>1, <1>2, <1>3 DEF FileTypeOK
<1>5. RotatesAlone'
  BY <1>1, <1>3 DEF RotatesAlone, OthersInside, Inside
<1>6. OneInside' /\ SizeKnown'
  BY <1>1 DEF OneInside, SizeKnown
<1>7. InOrder' /\ Sized' /\ NoGaps'
  BY <1>1, FilesKept
<1>. QED BY <1>4, <1>5, <1>6, <1>7 DEF FileIInv

LEMMA CheckKeeps == ASSUME FileIInv, ~ruined, NEW w \in Writers, Check(w) PROVE FileIInv'
<1> SUFFICES ASSUME ~ruined' PROVE FileIInv'
  BY DEF FileIInv
<1> DEFINE Stays == /\ ~TooLarge(file_size[w]) /\ wpc' = [wpc EXCEPT ![w] = "write"]
                    /\ UNCHANGED <<fp, copy>>
           Turns == /\ TooLarge(file_size[w]) /\ wpc' = [wpc EXCEPT ![w] = "rotate"]
                    /\ fp # 0 /\ fp' = 0 /\ ~OthersInside(w)
                    /\ copy' = [copy EXCEPT ![w] = MaxRotate]
<1>1. /\ wpc[w] = "check" /\ (Stays \/ Turns)
      /\ file_size' = [file_size EXCEPT ![w] = 0]
      /\ UNCHANGED <<files, today, cur_day, semid, sem, lines, failed>>
  BY DEF Check, FGoto
<1>2. FileTypeOK /\ RotatesAlone /\ OneInside /\ SizeKnown
  BY DEF FileIInv
<1>3. MaxRotate \in 0 .. MaxRotate /\ MaxFileSize \in Nat
  BY LogFileAssumption
<1>4. \A v \in Writers : wpc[v] # "rotate"
  BY <1>1, <1>2 DEF RotatesAlone
<1>5. semid => \A v \in Writers \ {w} : wpc[v] \in {"idle", "lock"}
  BY <1>1, OthersWait DEF Inside
<1>6. semid => fp = cur_day /\ file_size[w] = Len(files[fp][0])
  BY <1>1, <1>2 DEF SizeKnown, Measured
<1>7. InOrder' /\ Sized' /\ NoGaps'
  BY <1>1, <1>4, FilesKept
<1>8. CASE Stays
  <2>1. \A v \in Writers : wpc'[v] = IF v = w THEN "write" ELSE wpc[v]
    BY <1>2, <1>8 DEF FileTypeOK
  <2>2. FileTypeOK'
    BY <1>1, <1>2, <1>8, <2>1 DEF FileTypeOK
  <2>3. RotatesAlone'
    BY <1>4, <2>1 DEF RotatesAlone
  <2>4. OneInside'
    BY <1>1, <1>2, <2>1 DEF OneInside, Inside
  <2>5. SizeKnown'
    <3> SUFFICES ASSUME semid PROVE Measured'
      BY <1>1 DEF SizeKnown
    <3>1. fp' = cur_day' /\ files' = files /\ fp' = fp /\ cur_day' = cur_day
      BY <1>1, <1>6, <1>8
    <3>2. Len(files[fp][0]) <= MaxFileSize
      <4>1. file_size[w] \in Nat
        BY <1>2 DEF FileTypeOK
      <4>. QED BY <1>3, <1>6, <1>8, <4>1 DEF TooLarge
    <3>3. \A v \in Writers : wpc'[v] \in {"write", "idle", "lock"}
      BY <1>5, <2>1
    <3>. QED BY <3>1, <3>2, <3>3 DEF Measured
  <2>. QED BY <1>7, <2>2, <2>3, <2>4, <2>5 DEF FileIInv
<1>9. CASE Turns
  <2>1. \A v \in Writers : /\ wpc'[v] = IF v = w THEN "rotate" ELSE wpc[v]
                           /\ copy'[v] = IF v = w THEN MaxRotate ELSE copy[v]
    BY <1>2, <1>9 DEF FileTypeOK
  <2>2. FileTypeOK'
    BY <1>1, <1>2, <1>3, <1>9, <2>1 DEF FileTypeOK
  <2>3. RotatesAlone'
    <3>1. ~(MaxRotate < MaxRotate)
      BY <1>3
    <3>. QED BY <1>4, <1>9, <2>1, <3>1 DEF RotatesAlone, OthersInside, Inside
  <2>4. OneInside'
    BY <1>1, <1>2, <2>1 DEF OneInside, Inside
  <2>5. SizeKnown'
    <3> SUFFICES ASSUME semid PROVE Measured'
      BY <1>1 DEF SizeKnown
    <3>1. TooLarge(Len(files'[cur_day'][0]))
      BY <1>1, <1>6, <1>9
    <3>2. \A v \in Writers : wpc'[v] \in {"rotate", "idle", "lock"} /\ (v # w => wpc'[v] # "rotate")
      BY <1>5, <2>1
    <3>. QED BY <1>9, <3>1, <3>2 DEF Measured, TooLarge
  <2>. QED BY <1>7, <2>2, <2>3, <2>4, <2>5 DEF FileIInv
<1>. QED BY <1>1, <1>8, <1>9

LEMMA UnlockKeeps == ASSUME FileIInv, ~ruined, NEW w \in Writers, Unlock(w) PROVE FileIInv'
<1>1. /\ wpc[w] = "unlock" /\ wpc' = [wpc EXCEPT ![w] = "idle"] /\ copy' = [copy EXCEPT ![w] = 0]
      /\ sem' = NoWriter
      /\ UNCHANGED <<files, today, cur_day, fp, semid, file_size, lines, failed, ruined>>
  BY DEF Unlock, FGoto
<1>2. FileTypeOK /\ RotatesAlone /\ OneInside /\ SizeKnown
  BY DEF FileIInv
<1>3. \A v \in Writers : /\ wpc'[v] = IF v = w THEN "idle" ELSE wpc[v]
                         /\ copy'[v] = IF v = w THEN 0 ELSE copy[v]
  BY <1>1, <1>2 DEF FileTypeOK
<1>4. FileTypeOK'
  <2>1. 0 \in 0 .. MaxRotate
    BY LogFileAssumption
  <2>. QED BY <1>1, <1>2, <1>3, <2>1 DEF FileTypeOK
<1>5. RotatesAlone'
  BY <1>1, <1>2, <1>3 DEF RotatesAlone
<1>6. semid => \A v \in Writers \ {w} : wpc[v] \in {"idle", "lock"}
  BY <1>1, OthersWait DEF Inside
<1>7. OneInside'
  BY <1>1, <1>3, <1>6 DEF OneInside, Inside
<1>8. SizeKnown'
  <2> SUFFICES ASSUME semid PROVE Measured'
    BY <1>1 DEF SizeKnown
  <2>1. \A v \in Writers : wpc[v] # "config" /\ wpc'[v] \in {"idle", "lock"}
    BY <1>1, <1>3, <1>6
  <2>. QED BY <1>1, <1>2, <2>1 DEF SizeKnown, Measured
<1>9. InOrder' /\ Sized' /\ NoGaps'
  BY <1>1, <1>3, FilesKept
<1>. QED BY <1>4, <1>5, <1>7, <1>8, <1>9 DEF FileIInv

LEMMA ReopenKeeps == ASSUME FileIInv, ~ruined, NEW w \in Writers, Reopen(w) PROVE FileIInv'
<1>1. /\ wpc[w] = "rotate" /\ copy[w] = 0 /\ fp' \in {0, cur_day}
      /\ wpc' = [wpc EXCEPT ![w] = "write"]
      /\ UNCHANGED <<files, today, cur_day, semid, sem, file_size, copy, lines, failed, ruined>>
  BY DEF Reopen, FGoto, Opened
<1>2. FileTypeOK /\ RotatesAlone /\ OneInside /\ SizeKnown
  BY DEF FileIInv
<1>3. \A v \in Writers : wpc'[v] = IF v = w THEN "write" ELSE wpc[v]
  BY <1>1, <1>2 DEF FileTypeOK
<1>4. FileTypeOK'
  BY <1>1, <1>2, <1>3 DEF FileTypeOK
<1>5. \A v \in Writers \ {w} : wpc[v] \in {"idle", "lock", "measure"}
  BY <1>1, <1>2 DEF RotatesAlone
<1>6. RotatesAlone'
  BY <1>1, <1>3, <1>5 DEF RotatesAlone
<1>7. OneInside'
  BY <1>1, <1>2, <1>3 DEF OneInside, Inside
<1>8. SizeKnown'
  <2> SUFFICES ASSUME semid PROVE Measured'
    BY <1>1 DEF SizeKnown
  <2>1. files[cur_day][0] = << >>
    BY <1>1, <1>2, LogFileAssumption DEF RotatesAlone
  <2>2. fp' # 0 => Len(files'[fp'][0]) <= MaxFileSize
    BY <1>1, <2>1, LogFileAssumption
  <2>3. \A v \in Writers : wpc'[v] \in {"write", "idle", "lock", "measure"}
    BY <1>3, <1>5
  <2>. QED BY <1>1, <2>2, <2>3 DEF Measured
<1>9. InOrder' /\ Sized' /\ NoGaps'
  BY <1>1, <1>3, <1>5, FilesKept
<1>. QED BY <1>4, <1>6, <1>7, <1>8, <1>9 DEF FileIInv

LEMMA MidnightKeeps == ASSUME FileIInv, ~ruined, Midnight PROVE FileIInv'
<1>1. /\ today < MaxDays /\ today' = today + 1
      /\ UNCHANGED <<files, cur_day, fp, semid, sem, wpc, file_size, copy, lines, failed, ruined>>
  BY DEF Midnight
<1>2. FileTypeOK /\ RotatesAlone /\ OneInside /\ SizeKnown
  BY DEF FileIInv
<1>3. FileTypeOK'
  <2>1. today' \in Days
    BY <1>1, <1>2, LogFileAssumption DEF FileTypeOK, Days
  <2>. QED BY <1>1, <1>2, <2>1 DEF FileTypeOK
<1>4. RotatesAlone' /\ OneInside'
  BY <1>1, <1>2 DEF RotatesAlone, OneInside, Inside
<1>5. SizeKnown'
  BY <1>1, <1>2 DEF SizeKnown, Measured, TooLarge
<1>6. InOrder' /\ Sized' /\ NoGaps'
  BY <1>1, FilesKept
<1>. QED BY <1>3, <1>4, <1>5, <1>6 DEF FileIInv

LEMMA RestartKeeps == ASSUME FileIInv, ~ruined, Restart PROVE FileIInv'
<1>1. /\ cur_day' = today /\ fp' \in {0, today}
      /\ wpc' = [v \in Writers |-> "idle"]
      /\ file_size' = [v \in Writers |-> 0] /\ copy' = [v \in Writers |-> 0]
      /\ failed' = (failed \/ \E v \in Writers : wpc[v] = "rotate")
      /\ UNCHANGED <<files, today, semid, lines, ruined>>
  BY DEF Restart, Opened
<1>2. FileTypeOK
  BY DEF FileIInv
<1>3. FileTypeOK'
  <2>1. 0 \in 0 .. MaxRotate
    BY LogFileAssumption
  <2>. QED BY <1>1, <1>2, <2>1 DEF FileTypeOK
<1>4. RotatesAlone' /\ OneInside'
  BY <1>1 DEF RotatesAlone, OneInside, Inside
<1>5. SizeKnown'
  BY <1>1 DEF SizeKnown, Measured
<1>6. InOrder' /\ Sized' /\ NoGaps'
  BY <1>1, FilesKept
<1>. QED BY <1>3, <1>4, <1>5, <1>6 DEF FileIInv

\* A day whose files and lines, and whose hole among the copies, are as they were.
LEMMA DayKept ==
  ASSUME InOrder, NEW d \in Days, files'[d] = files[d], lines'[d] = lines[d],
         UNCHANGED semid, failed => failed',
         semid /\ ~failed' => \A n \in 1 .. MaxRotate : Emptied(d, n) => Emptied(d, n)'
  PROVE  \E cut \in Cuts : Laid(d, cut)' /\ Spared(d, cut)'
<1>1. PICK cut \in Cuts : Laid(d, cut) /\ Spared(d, cut)
  BY DEF InOrder
<1>2. Laid(d, cut)'
  BY <1>1 DEF Laid, Numbers
<1>3. Spared(d, cut)'
  BY <1>1 DEF Spared
<1>. QED BY <1>2, <1>3

LEMMA WriteKeeps == ASSUME FileIInv, ~ruined, NEW w \in Writers, Write(w) PROVE FileIInv'
<1> SUFFICES ASSUME ~ruined' PROVE FileIInv'
  BY DEF FileIInv
<1> DEFINE next == Len(lines[fp]) + 1
<1>1. /\ wpc[w] = "write" /\ wpc' = [wpc EXCEPT ![w] = "unlock"] /\ fp # 0 /\ next <= MaxLines
      /\ files' = [files EXCEPT ![fp][0] = Append(@, next)]
      /\ lines' = [lines EXCEPT ![fp] = Append(@, next)]
      /\ UNCHANGED <<today, cur_day, fp, semid, sem, file_size, copy, failed>>
  BY DEF Write, FGoto
<1>2. FileTypeOK /\ InOrder /\ RotatesAlone /\ OneInside /\ SizeKnown /\ Sized /\ NoGaps
  BY DEF FileIInv
<1>3. MaxRotate \in Nat \ {0} /\ MaxLines \in Nat /\ MaxFileSize \in Nat /\ 0 \in 0 .. MaxRotate
  BY LogFileAssumption
<1>4. fp \in Days
  BY <1>1, <1>2 DEF FileTypeOK
<1>5. \A v \in Writers : wpc'[v] = IF v = w THEN "unlock" ELSE wpc[v]
  BY <1>1, <1>2 DEF FileTypeOK
<1>6. \A v \in Writers : wpc[v] # "rotate" /\ wpc'[v] # "rotate"
  BY <1>1, <1>2, <1>5 DEF RotatesAlone
<1>7. semid => \A v \in Writers \ {w} : wpc[v] \in {"idle", "lock"}
  BY <1>1, OthersWait DEF Inside
<1>8. files[fp][0] \in Seq(Nat) /\ lines[fp] \in Seq(Nat)
  BY <1>2, <1>3, <1>4 DEF FileTypeOK
<1>9. next \in Nat /\ Append(files[fp][0], next) \in Seq(Nat) /\ Append(lines[fp], next) \in Seq(Nat)
  <2>1. next \in Nat
    BY <1>8
  <2>. HIDE DEF next
  <2>. QED BY <1>8, <2>1
<1>10. /\ files'[fp][0] = Append(files[fp][0], next) /\ lines'[fp] = Append(lines[fp], next)
       /\ \A d \in Days : d # fp => files'[d] = files[d] /\ lines'[d] = lines[d]
       /\ \A d \in Days : \A n \in 0 .. MaxRotate : n # 0 => files'[d][n] = files[d][n]
  <2>. HIDE DEF next
  <2>. QED BY <1>1, <1>2, <1>3, <1>4 DEF FileTypeOK
<1>. HIDE DEF next
<1>11. FileTypeOK'
  BY <1>1, <1>2, <1>3, <1>4, <1>5, <1>9 DEF FileTypeOK
<1>12. InOrder'
  <2> SUFFICES ASSUME NEW d \in Days PROVE \E cut \in Cuts : Laid(d, cut)' /\ Spared(d, cut)'
    BY DEF InOrder, Cuts
  <2>1. \A n \in 1 .. MaxRotate : ~Emptied(d, n) /\ ~Emptied(d, n)'
    BY <1>6 DEF Emptied
  <2>2. CASE d # fp
    BY <1>1, <1>2, <1>10, <2>1, <2>2, DayKept
  <2>3. CASE d = fp
    <3>1. PICK cut \in Cuts : Laid(d, cut) /\ Spared(d, cut)
      BY <1>2 DEF InOrder
    <3> DEFINE cut2 == [cut EXCEPT ![0] = cut[0] + 1]
    <3>2. /\ \A n \in 0 .. MaxRotate + 1 : cut[n] \in Nat
          /\ \A n \in 0 .. MaxRotate : n \in 0 .. MaxRotate + 1 /\ n + 1 \in 1 .. MaxRotate + 1
          /\ cut[0] \in Nat /\ cut[1] \in Nat /\ cut[1] <= cut[0]
          /\ files[d][0] = Numbers(cut[1], cut[0]) /\ lines[d] = Numbers(0, cut[0])
          /\ next = cut[0] + 1
      <4>1. 0 \in 0 .. MaxRotate + 1 /\ 1 \in 0 .. MaxRotate + 1 /\ 0 + 1 = 1
        BY <1>3
      <4>2. \A n \in 0 .. MaxRotate + 1 : cut[n] \in Nat
        BY <1>3 DEF Cuts
      <4>3. \A n \in 0 .. MaxRotate : n \in 0 .. MaxRotate + 1 /\ n + 1 \in 1 .. MaxRotate + 1
        BY <1>3
      <4>4. cut[1] <= cut[0] /\ files[d][0] = Numbers(cut[1], cut[0])
        BY <1>3, <3>1, <4>1 DEF Laid
      <4>. QED BY <2>3, <3>1, <4>1, <4>2, <4>3, <4>4 DEF Laid, next
    <3>3. cut2 \in Cuts /\ cut2[0] = next /\ \A n \in 1 .. MaxRotate + 1 : cut2[n] = cut[n]
      <4>1. cut[0] + 1 \in 0 .. MaxLines
        BY <1>1, <1>3, <3>2
      <4>2. 0 \in 0 .. MaxRotate + 1 /\ \A n \in 1 .. MaxRotate + 1 : n # 0 /\ n \in 0 .. MaxRotate + 1
        BY <1>3
      <4>. QED BY <3>2, <4>1, <4>2 DEF Cuts
    <3>. HIDE DEF cut2
    <3>4. files'[d][0] = Numbers(cut[1], next) /\ lines'[d] = Numbers(0, next)
      <4>1. 0 \in Nat /\ 0 <= cut[0]
        BY <3>2
      <4>2. Append(Numbers(0, cut[0]), cut[0] + 1) = Numbers(0, cut[0] + 1)
        BY <3>2, <4>1, NumbersNext
      <4>3. Append(Numbers(cut[1], cut[0]), cut[0] + 1) = Numbers(cut[1], cut[0] + 1)
        BY <3>2, NumbersNext
      <4>. QED BY <1>10, <2>3, <3>2, <4>2, <4>3
    <3>5. Laid(d, cut2)'
      <4>1. next = Len(lines'[d])
        <5>1. Len(Numbers(0, next)) = next - 0
          <6>1. 0 \in Nat /\ 0 <= next /\ next \in Nat
            BY <1>9
          <6>. QED BY <6>1, NumbersIs
        <5>. QED BY <1>9, <3>4, <5>1
      <4>2. ASSUME NEW n \in 0 .. MaxRotate
            PROVE  cut2[n + 1] <= cut2[n] /\ files'[d][n] = Numbers(cut2[n + 1], cut2[n])
        <5>1. CASE n = 0
          <6>1. cut2[n + 1] = cut[1] /\ cut2[n] = next
            BY <1>3, <3>3, <5>1
          <6>. QED BY <3>2, <3>4, <5>1, <6>1
        <5>2. CASE n # 0
          <6>1. cut2[n + 1] = cut[n + 1] /\ cut2[n] = cut[n]
            BY <3>2, <3>3, <5>2
          <6>2. cut[n + 1] <= cut[n] /\ files[d][n] = Numbers(cut[n + 1], cut[n])
            BY <3>1 DEF Laid
          <6>. QED BY <1>10, <5>2, <6>1, <6>2
        <5>. QED BY <5>1, <5>2
      <4>. QED BY <3>3, <3>4, <4>1, <4>2 DEF Laid, Numbers
    <3>6. Spared(d, cut2)'
      <4>1. cut2[MaxRotate + 1] = cut[MaxRotate + 1]
        BY <1>3, <3>3
      <4>2. \A n \in 1 .. MaxRotate : files'[d][n] = files[d][n]
        BY <1>10
      <4>. QED BY <1>1, <2>1, <3>1, <4>1, <4>2 DEF Spared
    <3>. QED BY <3>3, <3>5, <3>6
  <2>. QED BY <2>2, <2>3
<1>13. RotatesAlone'
  BY <1>6 DEF RotatesAlone
<1>14. OneInside'
  BY <1>1, <1>2, <1>5 DEF OneInside, Inside
<1>15. SizeKnown'
  <2> SUFFICES ASSUME semid PROVE Measured'
    BY <1>1 DEF SizeKnown
  <2>1. \A v \in Writers : wpc[v] # "config" /\ wpc'[v] \in {"unlock", "idle", "lock"}
    BY <1>1, <1>5, <1>7
  <2>. QED BY <1>1, <1>2, <2>1 DEF SizeKnown, Measured
<1>16. Sized'
  <2> SUFFICES ASSUME semid, NEW d \in Days
               PROVE  /\ \A n \in 0 .. MaxRotate : Len(files'[d][n]) <= MaxFileSize + 1
                      /\ \A n \in 1 .. MaxRotate : files'[d][n] # << >> => TooLarge(Len(files'[d][n]))
    BY <1>1 DEF Sized, TooLarge
  <2>1. \A n \in 1 .. MaxRotate : files'[d][n] = files[d][n]
    BY <1>10
  <2>2. Len(files'[d][0]) <= MaxFileSize + 1
    <3>1. CASE d = fp
      <4>1. Len(files[fp][0]) <= MaxFileSize
        BY <1>1, <1>2 DEF SizeKnown, Measured
      <4>2. Len(Append(files[fp][0], next)) = Len(files[fp][0]) + 1
        BY <1>8, <1>9
      <4>3. Len(files[fp][0]) \in Nat
        BY <1>8
      <4>. QED BY <1>3, <1>10, <3>1, <4>1, <4>2, <4>3
    <3>2. CASE d # fp
      BY <1>2, <1>3, <1>10, <3>2 DEF Sized
    <3>. QED BY <3>1, <3>2
  <2>. QED BY <1>2, <2>1, <2>2 DEF Sized
<1>17. NoGaps'
  <2>1. \A d \in Days : \A n \in 1 .. MaxRotate : ~Emptied(d, n) /\ files'[d][n] = files[d][n]
    BY <1>6, <1>10 DEF Emptied
  <2>. QED BY <1>1, <1>2, <2>1 DEF NoGaps
<1>. QED BY <1>11, <1>12, <1>13, <1>14, <1>15, <1>16, <1>17 DEF FileIInv

\* The day of which a rotation moves the copies.
RotationIs(w) ==
  /\ cur_day \in Days /\ copy[w] \in 1 .. MaxRotate
  /\ copy[w] < MaxRotate => files[cur_day][copy[w]] = << >>
  /\ \A v \in Writers \ {w} : wpc[v] \in {"idle", "lock", "measure"}
  /\ \A d \in Days : \A n \in 1 .. MaxRotate :
       Emptied(d, n) => d = cur_day /\ n = copy[w] /\ copy[w] < MaxRotate
  /\ \A d \in Days : \A n \in 0 .. MaxRotate : files[d][n] \in Seq(Nat)

LEMMA RotationFacts ==
  ASSUME FileIInv, ~ruined, NEW w \in Writers, wpc[w] = "rotate", copy[w] > 0
  PROVE  RotationIs(w)
<1>1. FileTypeOK /\ RotatesAlone
  BY DEF FileIInv
<1>2. cur_day \in Days /\ copy[w] \in 1 .. MaxRotate
  BY <1>1, LogFileAssumption DEF FileTypeOK
<1>3. copy[w] < MaxRotate => files[cur_day][copy[w]] = << >>
  BY <1>1 DEF RotatesAlone
<1>4. \A v \in Writers \ {w} : wpc[v] \in {"idle", "lock", "measure"}
  BY <1>1 DEF RotatesAlone
<1>5. \A d \in Days : \A n \in 1 .. MaxRotate :
        Emptied(d, n) => d = cur_day /\ n = copy[w] /\ copy[w] < MaxRotate
  BY <1>4 DEF Emptied
<1>6. \A d \in Days : \A n \in 0 .. MaxRotate : files[d][n] \in Seq(Nat)
  BY <1>1 DEF FileTypeOK
<1>. QED BY <1>2, <1>3, <1>4, <1>5, <1>6 DEF RotationIs

\* The copies before and after one pass of the loop.
Moves(w) ==
  LET n == copy[w] IN
  /\ \A d \in Days : d # cur_day => files'[d] = files[d]
  /\ files'[cur_day][n] = files[cur_day][n - 1] /\ files'[cur_day][n - 1] = << >>
  /\ \A m \in 0 .. MaxRotate : m # n /\ m # n - 1 => files'[cur_day][m] = files[cur_day][m]

LEMMA MovesCuts ==
  ASSUME NEW w \in Writers, RotationIs(w), Moves(w), lines' = lines, cur_day' = cur_day,
         NEW cut \in Cuts, Laid(cur_day, cut)
  PROVE  \E cut2 \in Cuts :
           /\ Laid(cur_day, cut2)'
           /\ cut2[MaxRotate + 1] = IF copy[w] < MaxRotate THEN cut[MaxRotate + 1] ELSE cut[MaxRotate]
<1>0. PICK n : n = copy[w]
  OBVIOUS
<1>1. MaxRotate \in Nat \ {0} /\ MaxLines \in Nat
  BY LogFileAssumption
<1>2. cur_day \in Days /\ n \in 1 .. MaxRotate /\ (n < MaxRotate => files[cur_day][n] = << >>)
  BY <1>0 DEF RotationIs
<1>3. \A k \in 0 .. MaxRotate + 1 : cut[k] \in Nat
  BY <1>1 DEF Cuts
<1>4. \A k \in 0 .. MaxRotate :
        /\ k \in 0 .. MaxRotate + 1 /\ k + 1 \in 0 .. MaxRotate + 1
        /\ cut[k + 1] <= cut[k] /\ files[cur_day][k] = Numbers(cut[k + 1], cut[k])
  BY <1>1 DEF Laid
<1>5. n < MaxRotate => cut[n + 1] = cut[n]
  <2> SUFFICES ASSUME n < MaxRotate PROVE cut[n + 1] = cut[n]
    OBVIOUS
  <2>1. n \in 0 .. MaxRotate
    BY <1>1, <1>2
  <2>2. cut[n] \in Nat /\ cut[n + 1] \in Nat /\ cut[n + 1] <= cut[n] /\ Numbers(cut[n + 1], cut[n]) = << >>
    BY <1>2, <1>3, <1>4, <2>1
  <2>. QED BY <2>2, NumbersIs
<1>6. PICK cut2 \in Cuts :
        /\ cut2[n + 1] = cut[n] /\ cut2[n] = cut[n - 1]
        /\ \A k \in 0 .. MaxRotate + 1 : k # n /\ k # n + 1 => cut2[k] = cut[k]
  <2>1. /\ n \in 0 .. MaxRotate + 1 /\ n + 1 \in 0 .. MaxRotate + 1 /\ n - 1 \in 0 .. MaxRotate + 1
        /\ n # n + 1
    BY <1>1, <1>2
  <2>2. cut[n] \in 0 .. MaxLines /\ cut[n - 1] \in 0 .. MaxLines
    BY <2>1 DEF Cuts
  <2> DEFINE c == [cut EXCEPT ![n + 1] = cut[n], ![n] = cut[n - 1]]
  <2>3. c \in Cuts /\ c[n + 1] = cut[n] /\ c[n] = cut[n - 1]
        /\ \A k \in 0 .. MaxRotate + 1 : k # n /\ k # n + 1 => c[k] = cut[k]
    BY <2>1, <2>2 DEF Cuts
  <2>. QED BY <2>3
<1>7. /\ files'[cur_day][n] = files[cur_day][n - 1] /\ files'[cur_day][n - 1] = << >>
      /\ \A m \in 0 .. MaxRotate : m # n /\ m # n - 1 => files'[cur_day][m] = files[cur_day][m]
  BY <1>0 DEF Moves
<1>8. cut2[0] = Len(lines'[cur_day]) /\ lines'[cur_day] = Numbers(0, cut2[0])
  <2>1. 0 # n /\ 0 # n + 1 /\ 0 \in 0 .. MaxRotate + 1
    BY <1>1, <1>2
  <2>2. cut2[0] = cut[0]
    BY <1>6, <2>1
  <2>. QED BY <2>2 DEF Laid
<1>9. ASSUME NEW k \in 0 .. MaxRotate
      PROVE  cut2[k + 1] <= cut2[k] /\ files'[cur_day][k] = Numbers(cut2[k + 1], cut2[k])
  <2>1. CASE k = n
    <3>1. n - 1 \in 0 .. MaxRotate /\ (n - 1) + 1 = n
      BY <1>1, <1>2
    <3>2. cut[n] <= cut[n - 1] /\ files[cur_day][n - 1] = Numbers(cut[n], cut[n - 1])
      BY <1>4, <3>1
    <3>. QED BY <1>6, <1>7, <2>1, <3>2
  <2>2. CASE k = n - 1
    <3>1. k + 1 = n /\ k # n /\ k # n + 1 /\ k \in 0 .. MaxRotate + 1
      BY <1>1, <1>2, <2>2
    <3>2. cut2[k + 1] = cut[k] /\ cut2[k] = cut[k] /\ cut[k] \in Nat
      BY <1>3, <1>6, <2>2, <3>1
    <3>3. Numbers(cut[k], cut[k]) = << >>
      <4>1. cut[k] <= cut[k]
        BY <3>2
      <4>. QED BY <3>2, <4>1, NumbersIs
    <3>. QED BY <1>7, <2>2, <3>2, <3>3
  <2>3. CASE k = n + 1
    <3>1. n < MaxRotate /\ k # n /\ k # n - 1 /\ k + 1 # n /\ k + 1 # n + 1 /\ k + 1 \in 0 .. MaxRotate + 1
      BY <1>1, <1>2, <2>3
    <3>2. cut2[k + 1] = cut[k + 1] /\ cut2[k] = cut[k]
      BY <1>5, <1>6, <2>3, <3>1
    <3>. QED BY <1>4, <1>7, <3>1, <3>2
  <2>4. CASE k # n /\ k # n - 1 /\ k # n + 1
    <3>1. k + 1 # n /\ k + 1 # n + 1
      BY <1>2, <2>4
    <3>2. cut2[k + 1] = cut[k + 1] /\ cut2[k] = cut[k]
      BY <1>4, <1>6, <2>4, <3>1
    <3>. QED BY <1>4, <1>7, <2>4, <3>2
  <2>. QED BY <2>1, <2>2, <2>3, <2>4
<1>10. Laid(cur_day, cut2)'
  BY <1>8, <1>9 DEF Laid, Numbers
<1>11. cut2[MaxRotate + 1] = IF n < MaxRotate THEN cut[MaxRotate + 1] ELSE cut[MaxRotate]
  <2>1. n < MaxRotate => MaxRotate + 1 # n /\ MaxRotate + 1 # n + 1 /\ MaxRotate + 1 \in 0 .. MaxRotate + 1
    BY <1>1, <1>2
  <2>2. ~(n < MaxRotate) => n = MaxRotate
    BY <1>1, <1>2
  <2>. QED BY <1>6, <2>1, <2>2
<1>. QED BY <1>0, <1>10, <1>11

\* When the oldest lines are being lost, only the copy a rotation moves into may
\* be missing.
LEMMA CopiesFull ==
  ASSUME FileIInv, ~ruined, semid, ~failed, NEW w \in Writers, RotationIs(w),
         NEW cut \in Cuts, Laid(cur_day, cut), Spared(cur_day, cut),
         (IF copy[w] < MaxRotate THEN cut[MaxRotate + 1] ELSE cut[MaxRotate]) > 0
  PROVE  \A n \in 1 .. MaxRotate :
           (n = copy[w] /\ copy[w] < MaxRotate) \/ files[cur_day][n] # << >>
<1> SUFFICES ASSUME NEW n \in 1 .. MaxRotate, ~(n = copy[w] /\ copy[w] < MaxRotate)
             PROVE  files[cur_day][n] # << >>
  OBVIOUS
<1>1. MaxRotate \in Nat \ {0} /\ MaxLines \in Nat /\ cur_day \in Days /\ copy[w] \in 1 .. MaxRotate
  BY LogFileAssumption DEF RotationIs
<1>2. ~Emptied(cur_day, n)
  BY <1>1 DEF RotationIs
<1>3. CASE cut[MaxRotate + 1] > 0
  BY <1>2, <1>3 DEF Spared
<1>4. CASE ~(cut[MaxRotate + 1] > 0)
  <2>1. copy[w] = MaxRotate /\ cut[MaxRotate] > 0
    BY <1>1, <1>4
  <2>2. MaxRotate \in 0 .. MaxRotate + 1 /\ MaxRotate + 1 \in 0 .. MaxRotate + 1 /\ MaxRotate \in 0 .. MaxRotate
    BY <1>1
  <2>3. cut[MaxRotate] \in Nat /\ cut[MaxRotate + 1] = 0
    BY <1>1, <1>4, <2>2 DEF Cuts
  <2>4. files[cur_day][MaxRotate] = Numbers(0, cut[MaxRotate])
    BY <2>2, <2>3 DEF Laid
  <2>5. files[cur_day][MaxRotate] # << >>
    <3>1. 0 \in Nat /\ 0 <= cut[MaxRotate] /\ 0 # cut[MaxRotate]
      BY <2>1, <2>3
    <3>2. Numbers(0, cut[MaxRotate]) # << >>
      BY <2>3, <3>1, NumbersIs
    <3>. QED BY <2>4, <3>2
  <2>6. CASE n = MaxRotate
    BY <2>5, <2>6
  <2>7. CASE n # MaxRotate
    <3>1. n < MaxRotate /\ MaxRotate \in 1 .. MaxRotate
      BY <1>1, <2>7
    <3>. QED BY <1>1, <1>2, <2>5, <3>1 DEF FileIInv, NoGaps
  <2>. QED BY <2>6, <2>7
<1>. QED BY <1>3, <1>4

LEMMA RenameKeeps == ASSUME FileIInv, ~ruined, NEW w \in Writers, Rename(w) PROVE FileIInv'
<1>1. /\ wpc[w] = "rotate" /\ copy[w] > 0 /\ copy' = [copy EXCEPT ![w] = @ - 1]
      /\ files' = [files EXCEPT ![cur_day][copy[w]] = files[cur_day][copy[w] - 1],
                                ![cur_day][copy[w] - 1] = << >>]
      /\ UNCHANGED <<today, cur_day, fp, semid, sem, wpc, file_size, lines, failed, ruined>>
  BY DEF Rename
<1>2. FileTypeOK /\ InOrder /\ RotatesAlone /\ OneInside /\ SizeKnown /\ Sized /\ NoGaps
  BY DEF FileIInv
<1>3. MaxRotate \in Nat \ {0} /\ MaxFileSize \in Nat
  BY LogFileAssumption
<1>4. RotationIs(w)
  BY <1>1, RotationFacts
<1>5. PICK n \in 1 .. MaxRotate : n = copy[w]
  BY <1>4 DEF RotationIs
<1>6. n \in 0 .. MaxRotate /\ n - 1 \in 0 .. MaxRotate /\ n - 1 # n /\ n - 1 < MaxRotate
  BY <1>3
<1>7. cur_day \in Days /\ \A d \in Days : \A m \in 0 .. MaxRotate : files[d][m] \in Seq(Nat)
  BY <1>4 DEF RotationIs
<1>8. files \in [Days -> [0 .. MaxRotate -> Seq(Nat)]] /\ << >> \in Seq(Nat)
  BY <1>2 DEF FileTypeOK
<1>9. /\ files' \in [Days -> [0 .. MaxRotate -> Seq(Nat)]]
      /\ \A d \in Days : d # cur_day => files'[d] = files[d]
      /\ files'[cur_day][n] = files[cur_day][n - 1] /\ files'[cur_day][n - 1] = << >>
      /\ \A m \in 0 .. MaxRotate : m # n /\ m # n - 1 => files'[cur_day][m] = files[cur_day][m]
  BY <1>1, <1>5, <1>6, <1>7, <1>8
<1>10. Moves(w)
  BY <1>5, <1>9 DEF Moves
<1>11. \A v \in Writers : copy'[v] = IF v = w THEN n - 1 ELSE copy[v]
  BY <1>1, <1>2, <1>5 DEF FileTypeOK
<1>12. FileTypeOK'
  <2>1. copy' \in [Writers -> 0 .. MaxRotate]
    BY <1>1, <1>2, <1>5, <1>6 DEF FileTypeOK
  <2>. QED BY <1>1, <1>2, <1>9, <2>1 DEF FileTypeOK
<1>13. \A v \in Writers \ {w} : wpc[v] \in {"idle", "lock", "measure"}
  BY <1>4 DEF RotationIs
<1>14. \A d \in Days : \A m \in 1 .. MaxRotate : Emptied(d, m) => d = cur_day /\ m = n /\ n < MaxRotate
  BY <1>4, <1>5 DEF RotationIs
<1>15. n - 1 \in 1 .. MaxRotate => Emptied(cur_day, n - 1)'
  BY <1>1, <1>6, <1>11 DEF Emptied
<1>16. semid => TooLarge(Len(files[cur_day][0])) /\ files[cur_day][0] # << >>
  <2>1. semid => TooLarge(Len(files[cur_day][0]))
    BY <1>1, <1>2 DEF SizeKnown, Measured
  <2>2. files[cur_day][0] = << >> => Len(files[cur_day][0]) = 0
    OBVIOUS
  <2>. QED BY <1>3, <2>1, <2>2 DEF TooLarge
<1>17. InOrder'
  <2> SUFFICES ASSUME NEW d \in Days PROVE \E cut \in Cuts : Laid(d, cut)' /\ Spared(d, cut)'
    BY DEF InOrder, Cuts
  <2>1. CASE d # cur_day
    <3>1. \A m \in 1 .. MaxRotate : ~Emptied(d, m)
      BY <1>14, <2>1
    <3>. QED BY <1>1, <1>2, <1>9, <2>1, <3>1, DayKept
  <2>2. CASE d = cur_day
    <3>1. PICK cut \in Cuts : Laid(cur_day, cut) /\ Spared(cur_day, cut)
      BY <1>2, <1>7 DEF InOrder
    <3>2. PICK cut2 \in Cuts :
            /\ Laid(cur_day, cut2)'
            /\ cut2[MaxRotate + 1] = IF copy[w] < MaxRotate THEN cut[MaxRotate + 1] ELSE cut[MaxRotate]
      BY <1>1, <1>4, <1>10, <3>1, MovesCuts
    <3>3. ASSUME semid, ~failed, cut2[MaxRotate + 1] > 0, NEW k \in 1 .. MaxRotate
          PROVE  Emptied(cur_day, k)' \/ files'[cur_day][k] # << >>
      <4>1. \A m \in 1 .. MaxRotate : (m = n /\ n < MaxRotate) \/ files[cur_day][m] # << >>
        BY <1>4, <1>5, <3>1, <3>2, <3>3, CopiesFull
      <4>2. CASE k = n - 1
        BY <1>15, <4>2
      <4>3. CASE k = n
        <5>1. CASE n = 1
          BY <1>9, <1>16, <3>3, <4>3, <5>1
        <5>2. CASE n # 1
          <6>1. n - 1 \in 1 .. MaxRotate /\ n - 1 # n
            BY <1>3, <5>2
          <6>. QED BY <1>9, <4>1, <4>3, <6>1
        <5>. QED BY <5>1, <5>2
      <4>4. CASE k # n /\ k # n - 1
        <5>1. k \in 0 .. MaxRotate
          OBVIOUS
        <5>2. files'[cur_day][k] = files[cur_day][k]
          BY <1>9, <4>4, <5>1
        <5>. QED BY <4>1, <4>4, <5>2
      <4>. QED BY <4>2, <4>3, <4>4
    <3>4. Spared(cur_day, cut2)'
      BY <1>1, <3>3 DEF Spared
    <3>. QED BY <1>1, <2>2, <3>2, <3>4
  <2>. QED BY <2>1, <2>2
<1>18. RotatesAlone'
  <2>1. fp' = 0
    BY <1>1, <1>2 DEF RotatesAlone
  <2>2. files'[cur_day'][copy'[w]] = << >>
    BY <1>1, <1>9, <1>11
  <2>3. \A v \in Writers \ {w} : wpc'[v] # "rotate"
    BY <1>1, <1>13
  <2>. QED BY <1>1, <1>13, <2>1, <2>2, <2>3 DEF RotatesAlone
<1>19. OneInside'
  BY <1>1, <1>2 DEF OneInside, Inside
<1>20. SizeKnown'
  <2> SUFFICES ASSUME semid PROVE Measured'
    BY <1>1 DEF SizeKnown
  <2>1. fp' = 0
    BY <1>1, <1>2 DEF RotatesAlone
  <2>2. ASSUME copy'[w] > 0 PROVE TooLarge(Len(files'[cur_day'][0]))
    <3>1. 0 \in 0 .. MaxRotate /\ 0 # n /\ 0 # n - 1
      BY <1>3, <1>11, <2>2
    <3>. QED BY <1>1, <1>9, <1>16, <3>1
  <2>3. \A v \in Writers : wpc'[v] # "check" /\ wpc'[v] # "write" /\ (v # w => wpc'[v] # "rotate")
    BY <1>1, <1>13
  <2>. QED BY <2>1, <2>2, <2>3 DEF Measured, TooLarge
<1>21. Sized'
  <2> SUFFICES ASSUME semid, NEW d \in Days
               PROVE  /\ \A m \in 0 .. MaxRotate : Len(files'[d][m]) <= MaxFileSize + 1
                      /\ \A m \in 1 .. MaxRotate : files'[d][m] # << >> => TooLarge(Len(files'[d][m]))
    BY <1>1 DEF Sized, TooLarge
  <2>1. /\ \A e \in Days : \A m \in 0 .. MaxRotate : Len(files[e][m]) <= MaxFileSize + 1
        /\ \A e \in Days : \A m \in 1 .. MaxRotate : files[e][m] # << >> => TooLarge(Len(files[e][m]))
    BY <1>2 DEF Sized
  <2>2. CASE d # cur_day
    BY <1>9, <2>1, <2>2
  <2>3. CASE d = cur_day
    <3>1. TooLarge(Len(files[cur_day][n - 1])) \/ files[cur_day][n - 1] = << >>
      <4>1. CASE n = 1
        BY <1>16, <4>1
      <4>2. CASE n # 1
        <5>1. n - 1 \in 1 .. MaxRotate
          BY <1>3, <4>2
        <5>. QED BY <1>7, <2>1, <5>1
      <4>. QED BY <4>1, <4>2
    <3>2. Len(<< >>) <= MaxFileSize + 1
      BY <1>3
    <3>3. \A m \in 0 .. MaxRotate : Len(files'[d][m]) <= MaxFileSize + 1
      BY <1>6, <1>7, <1>9, <2>1, <2>3, <3>2
    <3>4. ASSUME NEW m \in 1 .. MaxRotate, files'[d][m] # << >> PROVE TooLarge(Len(files'[d][m]))
      <4>1. m # n - 1 /\ m \in 0 .. MaxRotate
        BY <1>9, <2>3, <3>4
      <4>. QED BY <1>7, <1>9, <2>1, <2>3, <3>1, <3>4, <4>1
    <3>. QED BY <3>3, <3>4
  <2>. QED BY <2>2, <2>3
<1>22. NoGaps'
  <2> SUFFICES ASSUME semid, ~failed, NEW d \in Days, NEW m \in 1 .. MaxRotate, NEW k \in 1 .. MaxRotate,
                      m < k, files'[d][k] # << >>
               PROVE  Emptied(d, m)' \/ files'[d][m] # << >>
    BY <1>1 DEF NoGaps
  <2>1. \A e \in Days : \A i, j \in 1 .. MaxRotate :
          i < j /\ files[e][j] # << >> => Emptied(e, i) \/ files[e][i] # << >>
    BY <1>2 DEF NoGaps
  <2>2. CASE d # cur_day
    BY <1>9, <1>14, <2>1, <2>2
  <2>3. CASE d = cur_day
    <3>1. k # n - 1 /\ k \in 0 .. MaxRotate /\ m \in 0 .. MaxRotate
      <4>1. k # n - 1
        BY <1>9, <2>3
      <4>2. k \in 0 .. MaxRotate /\ m \in 0 .. MaxRotate
        OBVIOUS
      <4>. QED BY <4>1, <4>2
    <3>2. CASE m = n - 1
      <4>1. Emptied(cur_day, m)'
        BY <1>15, <3>2
      <4>. QED BY <1>1, <2>3, <4>1
    <3>3. CASE k = n /\ m # n - 1
      <4>1. n - 1 \in 1 .. MaxRotate /\ m < n - 1 /\ m # n
        BY <1>3, <3>3
      <4>2. files[cur_day][n - 1] # << >>
        BY <1>9, <2>3, <3>3
      <4>3. ~Emptied(cur_day, m)
        BY <1>7, <1>14, <4>1
      <4>. QED BY <1>7, <1>9, <2>1, <2>3, <3>1, <3>3, <4>1, <4>2, <4>3
    <3>4. CASE m = n
      <4>1. files[cur_day][k] # << >>
        <5>1. k # n
          BY <3>4
        <5>. QED BY <1>9, <2>3, <3>1, <5>1
      <4>2. files[cur_day][n - 1] # << >>
        <5>1. CASE n = 1
          BY <1>16, <5>1
        <5>2. CASE n # 1
          <6>1. n - 1 \in 1 .. MaxRotate /\ n - 1 < k /\ n - 1 # n
            BY <1>3, <3>4, <5>2
          <6>2. ~Emptied(cur_day, n - 1)
            BY <1>7, <1>14, <6>1
          <6>. QED BY <1>7, <2>1, <4>1, <6>1, <6>2
        <5>. QED BY <5>1, <5>2
      <4>. QED BY <1>9, <2>3, <3>4, <4>2
    <3>5. CASE m # n - 1 /\ m # n /\ k # n
      <4>1. files[cur_day][k] # << >> /\ ~Emptied(cur_day, m)
        BY <1>7, <1>9, <1>14, <2>3, <3>1, <3>5
      <4>. QED BY <1>7, <1>9, <2>1, <2>3, <3>1, <3>5, <4>1
    <3>. QED BY <3>2, <3>3, <3>4, <3>5
  <2>. QED BY <2>2, <2>3
<1>. QED BY <1>12, <1>17, <1>18, <1>19, <1>20, <1>21, <1>22 DEF FileIInv

\* The older copy that is removed before a rename fails: the oldest, or the one
\* the last rename has taken.
LEMMA RenameFailsKeeps ==
  ASSUME FileIInv, ~ruined, NEW w \in Writers, RenameFails(w) PROVE FileIInv'
<1>1. /\ wpc[w] = "rotate" /\ copy[w] > 0 /\ wpc' = [wpc EXCEPT ![w] = "unlock"]
      /\ files' = [files EXCEPT ![cur_day][copy[w]] = << >>]
      /\ failed' = TRUE /\ fp' \in {0, cur_day}
      /\ UNCHANGED <<today, cur_day, semid, sem, file_size, copy, lines, ruined>>
  BY DEF RenameFails, FGoto, Opened
<1>2. FileTypeOK /\ InOrder /\ RotatesAlone /\ OneInside /\ Sized
  BY DEF FileIInv
<1>3. MaxRotate \in Nat \ {0} /\ MaxLines \in Nat /\ MaxFileSize \in Nat
  BY LogFileAssumption
<1>4. RotationIs(w)
  BY <1>1, RotationFacts
<1>5. PICK n \in 1 .. MaxRotate : n = copy[w]
  BY <1>4 DEF RotationIs
<1>6. n \in 0 .. MaxRotate /\ cur_day \in Days
  BY <1>3, <1>4 DEF RotationIs
<1>7. files \in [Days -> [0 .. MaxRotate -> Seq(Nat)]] /\ << >> \in Seq(Nat)
  BY <1>2 DEF FileTypeOK
<1>8. /\ files' \in [Days -> [0 .. MaxRotate -> Seq(Nat)]]
      /\ \A d \in Days : d # cur_day => files'[d] = files[d]
      /\ files'[cur_day][n] = << >>
      /\ \A m \in 0 .. MaxRotate : m # n => files'[cur_day][m] = files[cur_day][m]
  BY <1>1, <1>5, <1>6, <1>7
<1>9. \A v \in Writers : wpc'[v] = IF v = w THEN "unlock" ELSE wpc[v]
  BY <1>1, <1>2 DEF FileTypeOK
<1>10. \A v \in Writers \ {w} : wpc[v] \in {"idle", "lock", "measure"}
  BY <1>4 DEF RotationIs
<1>11. FileTypeOK'
  BY <1>1, <1>2, <1>6, <1>8, <1>9 DEF FileTypeOK
<1>12. InOrder'
  <2> SUFFICES ASSUME NEW d \in Days PROVE \E cut \in Cuts : Laid(d, cut)'
    BY <1>1 DEF InOrder, Cuts, Spared
  <2>1. PICK cut \in Cuts : Laid(d, cut)
    BY <1>2 DEF InOrder
  <2>2. CASE d # cur_day
    <3>1. Laid(d, cut)'
      BY <1>1, <1>8, <2>1, <2>2 DEF Laid, Numbers
    <3>. QED BY <3>1
  <2>3. CASE d = cur_day /\ n < MaxRotate
    <3>1. files[d][n] = << >>
      BY <1>4, <1>5, <2>3 DEF RotationIs
    <3>2. \A m \in 0 .. MaxRotate : files'[d][m] = files[d][m]
      BY <1>8, <2>3, <3>1
    <3>3. Laid(d, cut)'
      BY <1>1, <2>1, <3>2 DEF Laid, Numbers
    <3>. QED BY <3>3
  <2>4. CASE d = cur_day /\ n = MaxRotate
    <3>1. PICK cut2 \in Cuts :
            /\ cut2[MaxRotate + 1] = cut[MaxRotate]
            /\ \A k \in 0 .. MaxRotate : cut2[k] = cut[k]
      <4> DEFINE c == [cut EXCEPT ![MaxRotate + 1] = cut[MaxRotate]]
      <4>1. MaxRotate \in 0 .. MaxRotate + 1 /\ MaxRotate + 1 \in 0 .. MaxRotate + 1
            /\ \A k \in 0 .. MaxRotate : k \in 0 .. MaxRotate + 1 /\ k # MaxRotate + 1
        BY <1>3
      <4>2. cut[MaxRotate] \in 0 .. MaxLines
        BY <4>1 DEF Cuts
      <4>3. c \in Cuts /\ c[MaxRotate + 1] = cut[MaxRotate] /\ \A k \in 0 .. MaxRotate : c[k] = cut[k]
        BY <4>1, <4>2 DEF Cuts
      <4>. QED BY <4>3
    <3>2. cut2[0] = Len(lines'[d]) /\ lines'[d] = Numbers(0, cut2[0])
      <4>1. cut2[0] = cut[0]
        BY <1>3, <3>1
      <4>. QED BY <1>1, <2>1, <4>1 DEF Laid
    <3>3. ASSUME NEW k \in 0 .. MaxRotate
          PROVE  cut2[k + 1] <= cut2[k] /\ files'[d][k] = Numbers(cut2[k + 1], cut2[k])
      <4>1. CASE k = n
        <5>1. cut2[k + 1] = cut[k] /\ cut2[k] = cut[k]
          BY <2>4, <3>1, <4>1
        <5>2. cut[k] \in Nat /\ cut[k] <= cut[k]
          <6>1. k \in 0 .. MaxRotate + 1
            BY <1>3
          <6>2. cut[k] \in Nat
            BY <1>3, <6>1 DEF Cuts
          <6>. QED BY <6>2
        <5>3. Numbers(cut[k], cut[k]) = << >>
          BY <5>2, NumbersIs
        <5>. QED BY <1>8, <2>4, <4>1, <5>1, <5>2, <5>3
      <4>2. CASE k # n
        <5>1. k + 1 \in 0 .. MaxRotate
          BY <1>3, <2>4, <4>2
        <5>2. cut2[k + 1] = cut[k + 1] /\ cut2[k] = cut[k]
          BY <3>1, <5>1
        <5>. QED BY <1>8, <2>1, <2>4, <4>2, <5>2 DEF Laid
      <4>. QED BY <4>1, <4>2
    <3>4. Laid(d, cut2)'
      BY <3>2, <3>3 DEF Laid, Numbers
    <3>. QED BY <3>4
  <2>5. n < MaxRotate \/ n = MaxRotate
    BY <1>3
  <2>. QED BY <2>2, <2>3, <2>4, <2>5
<1>13. RotatesAlone'
  BY <1>9, <1>10 DEF RotatesAlone
<1>14. OneInside'
  BY <1>1, <1>2, <1>9 DEF OneInside, Inside
<1>15. SizeKnown'
  BY <1>1, <1>9, <1>10 DEF SizeKnown, Measured
<1>16. Sized'
  <2> SUFFICES ASSUME semid, NEW d \in Days
               PROVE  /\ \A m \in 0 .. MaxRotate : Len(files'[d][m]) <= MaxFileSize + 1
                      /\ \A m \in 1 .. MaxRotate : files'[d][m] # << >> => TooLarge(Len(files'[d][m]))
    BY <1>1 DEF Sized, TooLarge
  <2>1. \A m \in 0 .. MaxRotate : files'[d][m] \in {files[d][m], << >>}
    BY <1>8
  <2>2. Len(<< >>) <= MaxFileSize + 1
    BY <1>3
  <2>3. \A m \in 1 .. MaxRotate : m \in 0 .. MaxRotate
    OBVIOUS
  <2>. QED BY <1>2, <2>1, <2>2, <2>3 DEF Sized
<1>17. NoGaps'
  BY <1>1 DEF NoGaps
<1>. QED BY <1>11, <1>12, <1>13, <1>14, <1>15, <1>16, <1>17 DEF FileIInv

LEMMA FileStep == FileIInv /\ [FileNext]_fileVars => FileIInv'
<1> SUFFICES ASSUME FileIInv, [FileNext]_fileVars PROVE FileIInv'
  OBVIOUS
<1>1. CASE UNCHANGED fileVars
  <2> SUFFICES ASSUME ~ruined PROVE FileIInv'
    BY <1>1 DEF fileVars, FileIInv
  <2>1. UNCHANGED <<files, today, cur_day, fp, semid, sem, wpc, file_size, copy, lines, failed>>
    BY <1>1 DEF fileVars
  <2>2. FileTypeOK' /\ RotatesAlone' /\ OneInside' /\ SizeKnown'
    BY <2>1 DEF FileIInv, FileTypeOK, RotatesAlone, OneInside, Inside, SizeKnown, Measured, TooLarge
  <2>3. InOrder' /\ Sized' /\ NoGaps'
    BY <2>1, FilesKept
  <2>. QED BY <2>2, <2>3 DEF FileIInv
<1>2. CASE FileNext
  <2> SUFFICES ASSUME ~ruined PROVE FileIInv'
    BY <1>2 DEF FileNext, Enter, Lock, Measure, Config, Check, Write, Unlock, Rename,
       RenameFails, Reopen, Midnight, Restart
  <2>1. ASSUME NEW w \in Writers, Enter(w) \/ Lock(w) \/ Measure(w) \/ Config(w) PROVE FileIInv'
    BY <2>1, EnterKeeps, LockKeeps, MeasureKeeps, ConfigKeeps
  <2>2. ASSUME NEW w \in Writers, Check(w) \/ Write(w) \/ Unlock(w) PROVE FileIInv'
    BY <2>2, CheckKeeps, WriteKeeps, UnlockKeeps
  <2>3. ASSUME NEW w \in Writers, Rename(w) \/ RenameFails(w) \/ Reopen(w) PROVE FileIInv'
    BY <2>3, RenameKeeps, RenameFailsKeeps, ReopenKeeps
  <2>4. CASE Midnight \/ Restart
    BY <2>4, MidnightKeeps, RestartKeeps
  <2>. QED BY <1>2, <2>1, <2>2, <2>3, <2>4, Zenon DEF FileNext
<1>. QED BY <1>1, <1>2

\* The inductive invariant of the log files.  (elog_file_write, elog_file_rotate,
\* elog_file_config)
THEOREM FileInvariant == FileSpec => []FileIInv
BY FileAtTheStart, FileStep, PTL DEF FileSpec

\* Whatever the size of the files, the number of copies, the writers and the day,
\* and wherever the process dies or a rename fails: what is found in the files of a
\* day are the last lines of that day, in order.  (elog_file_rotate)
THEOREM FileLinesInOrder == FileSpec => []LinesInOrder
BY FileInvariant, OrderFollows, PTL

\* Where there is a semaphore the files are as large as they should be, and only
\* the oldest lines are lost, once all the copies are full.  (elog_file_rotate)
THEOREM FileOnlyOldestLost == FileSpec => []OnlyOldestLost
BY FileInvariant, OldestFollows, PTL

-----------------------------------------------------------------------------
(* SocketSend *)

SendByte == Frames \X (1 .. Length)

\* Thread t is sending a frame that was begun for connection p.
Serves(t, p) == frame[t] # 0 /\ first[frame[t]] = p

\* What frame f adds to the stream of connection p when it has gone.
Gone(p, f) == IF first[f] = p /\ returned[f] = "sent" THEN Whole(f) ELSE << >>

SendTypes ==
  /\ peer \in Peers /\ closed \in BOOLEAN /\ spoiled \subseteq Peers
  /\ stream \in [Peers -> Seq(SendByte)]
  /\ frames \in 0 .. MaxFrames /\ frame \in [Senders -> 0 .. frames]
  /\ total_sent \in [Senders -> 0 .. Length - 1]
  /\ returned \in [Frames -> {"nothing", "sent", "error"}]
  /\ first \in [Frames -> 0 .. peer]
  /\ \A f \in Frames : f <= frames => first[f] # 0
  /\ \A f \in Frames : f > frames => returned[f] = "nothing"

\* A frame has one thread and nothing has been returned for it while it has.
OneFrameEach ==
  /\ \A t \in Senders :
       IF frame[t] = 0 THEN total_sent[t] = 0 ELSE returned[frame[t]] = "nothing"
  /\ \A t, u \in Senders : t # u /\ frame[t] = frame[u] => frame[t] = 0

\* What is on its way to a connection is the last thing that was begun for it.
LastServed ==
  \A p \in Peers \ spoiled, t \in Senders :
    Serves(t, p) => \A f \in Frames : frame[t] < f /\ f <= frames => first[f] # p

\* g has, frame by frame, what has gone to connection p.
Built(p, g) ==
  /\ g \in [0 .. frames -> Seq(SendByte)] /\ g[0] = << >>
  /\ \A f \in 1 .. frames : g[f] = g[f - 1] \o Gone(p, f)

Delivery(p, g) ==
  /\ Built(p, g)
  /\ (\A t \in Senders : ~Serves(t, p)) => stream[p] = g[frames]
  /\ \A t \in Senders : Serves(t, p) =>
       stream[p] = g[frames] \o Part(frame[t], 0, total_sent[t])

SendIInv ==
  /\ SendTypes /\ OneFrameEach /\ LastServed
  /\ \A p \in Peers \ spoiled : \E g : Delivery(p, g)

LEMMA PartIs ==
  ASSUME NEW f \in Frames, NEW k \in 0 .. Length, NEW n \in 0 .. Length, k + n <= Length
  PROVE  /\ Part(f, k, n) \in Seq(SendByte) /\ Len(Part(f, k, n)) = n
         /\ n = 0 => Part(f, k, n) = << >>
<1>1. Length \in Nat
  BY SendAssumption
<1>2. \A i \in 1 .. n : <<f, k + i>> \in SendByte
  BY <1>1 DEF SendByte
<1>3. Part(f, k, n) \in [1 .. n -> SendByte] /\ n \in Nat
  BY <1>1, <1>2 DEF Part
<1>. QED BY <1>3

LEMMA PartOfNothing == ASSUME NEW f PROVE Part(f, 0, 0) = << >>
BY DEF Part

LEMMA PartsJoin ==
  ASSUME NEW f \in Frames, NEW k \in 0 .. Length, NEW n \in 0 .. Length, k + n <= Length
  PROVE  Part(f, 0, k) \o Part(f, k, n) = Part(f, 0, k + n)
<1>1. Length \in Nat /\ k + n \in 0 .. Length /\ 0 \in 0 .. Length /\ 0 + k <= Length /\ 0 + (k + n) <= Length
  BY SendAssumption
<1>2. PICK x, y, z : x = Part(f, 0, k) /\ y = Part(f, k, n) /\ z = Part(f, 0, k + n)
  OBVIOUS
<1>3. /\ x \in Seq(SendByte) /\ Len(x) = k /\ y \in Seq(SendByte) /\ Len(y) = n
      /\ z \in Seq(SendByte) /\ Len(z) = k + n
  BY <1>1, <1>2, PartIs
<1>4. /\ \A i \in 1 .. k : x[i] = <<f, i>>
      /\ \A i \in 1 .. n : y[i] = <<f, k + i>>
      /\ \A i \in 1 .. k + n : z[i] = <<f, i>>
  BY <1>1, <1>2 DEF Part
<1>5. /\ x \o y \in Seq(SendByte) /\ Len(x \o y) = k + n
      /\ \A i \in 1 .. k + n : (x \o y)[i] = IF i <= k THEN x[i] ELSE y[i - k]
  BY <1>3, ConcatProperties
<1>6. ASSUME NEW i \in 1 .. k + n PROVE (x \o y)[i] = z[i]
  <2>1. CASE i <= k
    <3>1. i \in 1 .. k
      BY <2>1
    <3>. QED BY <1>4, <1>5, <2>1, <3>1
  <2>2. CASE ~(i <= k)
    <3>1. i - k \in 1 .. n /\ k + (i - k) = i
      BY <1>1, <2>2
    <3>. QED BY <1>4, <1>5, <2>2, <3>1
  <2>. QED BY <2>1, <2>2
<1>7. x \o y = z
  BY <1>3, <1>5, <1>6, SeqEqual
<1>. QED BY <1>2, <1>7

LEMMA GoneIsTyped ==
  ASSUME NEW p, NEW f \in Frames PROVE Gone(p, f) \in Seq(SendByte)
<1>1. 0 \in 0 .. Length /\ Length \in 0 .. Length /\ 0 + Length <= Length
  BY SendAssumption
<1>. QED BY <1>1, PartIs DEF Gone, Whole

LEMMA FirstIsPeer ==
  ASSUME SendTypes, NEW f \in Frames, f <= frames PROVE first[f] \in Peers
<1>1. first[f] \in 0 .. peer /\ first[f] # 0 /\ peer \in 1 .. MaxPeers /\ MaxPeers \in Nat
  BY SendAssumption DEF SendTypes, Peers
<1>. QED BY <1>1 DEF Peers

\* To a connection that is not spoiled one thread sends at a time.
LEMMA OneServes ==
  ASSUME SendTypes, OneFrameEach, LastServed, NEW p \in Peers \ spoiled,
         NEW t \in Senders, NEW u \in Senders, Serves(t, p), Serves(u, p)
  PROVE  t = u
<1> SUFFICES ASSUME t # u PROVE FALSE
  OBVIOUS
<1>1. frame[t] \in 1 .. frames /\ frame[u] \in 1 .. frames /\ frames \in 0 .. MaxFrames /\ MaxFrames \in Nat
  BY SendAssumption DEF SendTypes, Serves
<1>2. frame[t] # frame[u]
  BY <1>1 DEF OneFrameEach
<1>3. frame[t] \in Frames /\ frame[u] \in Frames
  BY <1>1 DEF Frames
<1>4. ~(frame[t] < frame[u]) /\ ~(frame[u] < frame[t])
  BY <1>1, <1>3 DEF LastServed, Serves
<1>. QED BY <1>1, <1>2, <1>4

\* What has gone does not change, and nobody else comes to serve the connection.
LEMMA DeliveryKeeps ==
  ASSUME NEW p \in Peers, NEW g, Delivery(p, g), frames' = frames, stream'[p] = stream[p],
         \A f \in 1 .. frames : Gone(p, f)' = Gone(p, f),
         \A t \in Senders : Serves(t, p)' <=> Serves(t, p),
         \A t \in Senders : Serves(t, p) => frame'[t] = frame[t] /\ total_sent'[t] = total_sent[t]
  PROVE  Delivery(p, g)'
<1>1. Built(p, g)'
  BY DEF Delivery, Built
<1>2. (\A t \in Senders : ~Serves(t, p)') => stream'[p] = g[frames']
  BY DEF Delivery
<1>3. ASSUME NEW t \in Senders, Serves(t, p)'
      PROVE  stream'[p] = g[frames'] \o Part(frame'[t], 0, total_sent'[t])
  BY <1>3 DEF Delivery
<1>. QED BY <1>1, <1>2, <1>3 DEF Delivery, Part

LEMMA SendAtTheStart == SendInit => SendIInv
<1> SUFFICES ASSUME SendInit PROVE SendIInv
  OBVIOUS
<1>1. Length \in Nat \ {0} /\ MaxFrames \in Nat /\ MaxPeers \in Nat \ {0}
  BY SendAssumption
<1>2. SendTypes
  <2>1. stream \in [Peers -> Seq(SendByte)]
    BY DEF SendInit
  <2>2. frame \in [Senders -> 0 .. frames] /\ total_sent \in [Senders -> 0 .. Length - 1]
    BY <1>1 DEF SendInit
  <2>3. first \in [Frames -> 0 .. peer] /\ peer \in Peers
    BY <1>1 DEF SendInit, Peers
  <2>4. \A f \in Frames : ~(f <= frames)
    BY DEF SendInit, Frames
  <2>5. frames \in 0 .. MaxFrames /\ closed \in BOOLEAN /\ spoiled \subseteq Peers
    <3>1. 0 \in 0 .. MaxFrames
      BY <1>1
    <3>. QED BY <3>1 DEF SendInit
  <2>6. returned \in [Frames -> {"nothing", "sent", "error"}]
        /\ \A f \in Frames : f > frames => returned[f] = "nothing"
    BY DEF SendInit
  <2>. QED BY <2>1, <2>2, <2>3, <2>4, <2>5, <2>6 DEF SendTypes
<1>3. OneFrameEach /\ LastServed
  BY DEF SendInit, OneFrameEach, LastServed, Serves
<1>4. ASSUME NEW p \in Peers PROVE Delivery(p, [f \in 0 .. 0 |-> << >>])
  <2> DEFINE g == [f \in 0 .. 0 |-> << >>]
  <2>1. g \in [0 .. frames -> Seq(SendByte)] /\ g[0] = << >> /\ frames = 0
    BY DEF SendInit
  <2>2. stream[p] = << >> /\ \A t \in Senders : ~Serves(t, p)
    BY <1>4 DEF SendInit, Serves
  <2>. QED BY <2>1, <2>2 DEF Delivery, Built
<1>. QED BY <1>2, <1>3, <1>4 DEF SendIInv

LEMMA BeginKeeps == ASSUME SendIInv, NEW t \in Senders, Begin(t) PROVE SendIInv'
<1>1. /\ frame[t] = 0 /\ frames < MaxFrames /\ frames' = frames + 1
      /\ frame' = [frame EXCEPT ![t] = frames + 1]
      /\ first' = [first EXCEPT ![frames + 1] = peer]
      /\ spoiled' = spoiled \cup {p \in {peer} : \E u \in Senders : Serves(u, p)}
      /\ UNCHANGED <<peer, closed, stream, total_sent, returned>>
  BY DEF Begin, Serves
<1>2. SendTypes /\ OneFrameEach /\ LastServed
  BY DEF SendIInv
<1>3. Length \in Nat /\ MaxFrames \in Nat /\ frames \in Nat /\ frames + 1 \in Frames
  BY <1>1, <1>2, SendAssumption DEF SendTypes, Frames
<1>4. peer \in 0 .. peer /\ peer \in Nat
  BY <1>2, SendAssumption DEF SendTypes, Peers
<1>5. SendTypes'
  <2>1. /\ peer' \in Peers /\ closed' \in BOOLEAN /\ spoiled' \subseteq Peers
        /\ stream' \in [Peers -> Seq(SendByte)] /\ total_sent' \in [Senders -> 0 .. Length - 1]
        /\ returned' \in [Frames -> {"nothing", "sent", "error"}]
    BY <1>1, <1>2 DEF SendTypes
  <2>2. frames' \in 0 .. MaxFrames /\ frame' \in [Senders -> 0 .. frames']
    BY <1>1, <1>2, <1>3 DEF SendTypes
  <2>3. first' \in [Frames -> 0 .. peer']
    BY <1>1, <1>2, <1>3, <1>4 DEF SendTypes
  <2>4. \A f \in Frames : f > frames' => returned'[f] = "nothing"
    BY <1>1, <1>2, <1>3 DEF SendTypes, Frames
  <2>5. \A f \in Frames : f <= frames' => first'[f] # 0
    <3>1. first'[frames + 1] # 0 /\ \A f \in Frames : f # frames + 1 => first'[f] = first[f]
      BY <1>1, <1>2, <1>3, SendAssumption DEF SendTypes, Peers
    <3>2. \A f \in Frames : f <= frames' => f = frames + 1 \/ f <= frames
      BY <1>1, <1>3 DEF Frames
    <3>. QED BY <1>2, <3>1, <3>2 DEF SendTypes
  <2>. QED BY <2>1, <2>2, <2>3, <2>4, <2>5 DEF SendTypes
<1>6. /\ frame'[t] = frames + 1 /\ first'[frames + 1] = peer
      /\ \A u \in Senders : u # t => frame'[u] = frame[u]
      /\ \A f \in Frames : f # frames + 1 => first'[f] = first[f]
      /\ \A u \in Senders : frame[u] \in Nat /\ frame[u] <= frames /\ (frame[u] # 0 => frame[u] \in Frames)
  BY <1>1, <1>2, <1>3 DEF SendTypes, Frames
<1>7. returned[frames + 1] = "nothing"
  BY <1>2, <1>3 DEF SendTypes
<1>8. OneFrameEach'
  <2>1. \A u \in Senders : IF frame'[u] = 0 THEN total_sent'[u] = 0 ELSE returned'[frame'[u]] = "nothing"
    BY <1>1, <1>2, <1>3, <1>6, <1>7 DEF OneFrameEach
  <2>2. \A u, v \in Senders : u # v /\ frame'[u] = frame'[v] => frame'[u] = 0
    BY <1>2, <1>3, <1>6 DEF OneFrameEach
  <2>. QED BY <2>1, <2>2 DEF OneFrameEach
<1>9. ASSUME NEW u \in Senders, u # t, NEW p PROVE Serves(u, p)' <=> Serves(u, p)
  <2>1. frame'[u] = frame[u]
    BY <1>6, <1>9
  <2>2. frame[u] # 0 => first'[frame[u]] = first[frame[u]]
    BY <1>3, <1>6, <1>9
  <2>. QED BY <2>1, <2>2 DEF Serves
<1>10. \A p : Serves(t, p)' <=> p = peer
  BY <1>3, <1>6 DEF Serves
<1>11. ASSUME NEW p \in Peers \ spoiled'
       PROVE  p \in Peers \ spoiled /\ (p = peer => \A u \in Senders : ~Serves(u, p))
  BY <1>1
<1>12. LastServed'
  <2> SUFFICES ASSUME NEW p \in Peers \ spoiled', NEW u \in Senders, Serves(u, p)',
                      NEW f \in Frames, frame'[u] < f, f <= frames'
               PROVE  first'[f] # p
    BY DEF LastServed
  <2>1. u # t
    BY <1>1, <1>3, <1>6 DEF Frames
  <2>2. Serves(u, p) /\ p # peer /\ frame[u] < f
    BY <1>6, <1>9, <1>11, <2>1
  <2>3. CASE f = frames + 1
    BY <1>6, <2>2, <2>3
  <2>4. CASE f # frames + 1
    <3>1. f <= frames
      BY <1>1, <1>3, <2>4 DEF Frames
    <3>. QED BY <1>2, <1>6, <1>11, <2>2, <2>4, <3>1 DEF LastServed
  <2>. QED BY <2>3, <2>4
<1>13. ASSUME NEW p \in Peers \ spoiled' PROVE \E g : Delivery(p, g)'
  <2>1. PICK g : Delivery(p, g)
    BY <1>11, <1>13 DEF SendIInv
  <2>2. g \in [0 .. frames -> Seq(SendByte)] /\ g[0] = << >> /\ frames \in 0 .. frames
    BY <1>3, <2>1 DEF Delivery, Built
  <2>3. PICK g2 : /\ g2 \in [0 .. frames + 1 -> Seq(SendByte)] /\ g2[0] = << >>
                  /\ g2[frames + 1] = g[frames] /\ \A f \in 0 .. frames : g2[f] = g[f]
    <3> DEFINE h == [f \in 0 .. frames + 1 |-> IF f = frames + 1 THEN g[frames] ELSE g[f]]
    <3>1. h \in [0 .. frames + 1 -> Seq(SendByte)] /\ h[0] = << >> /\ h[frames + 1] = g[frames]
          /\ \A f \in 0 .. frames : h[f] = g[f]
      BY <1>3, <2>2
    <3>. QED BY <3>1
  <2>4. ASSUME NEW f \in 1 .. frames + 1 PROVE g2[f] = g2[f - 1] \o Gone(p, f)'
    <3>1. CASE f = frames + 1
      <4>1. Gone(p, f)' = << >>
        BY <1>1, <1>7, <3>1 DEF Gone
      <4>2. g2[f - 1] = g[frames] /\ g[frames] \in Seq(SendByte)
        BY <1>3, <2>2, <2>3, <3>1
      <4>3. g[frames] \o << >> = g[frames]
        BY <4>2, ConcatEmptySeq
      <4>. QED BY <2>3, <3>1, <4>1, <4>2, <4>3
    <3>2. CASE f # frames + 1
      <4>1. f \in 1 .. frames /\ f \in 0 .. frames /\ f - 1 \in 0 .. frames /\ f \in Frames
        BY <1>1, <1>3, <3>2 DEF Frames
      <4>2. Gone(p, f)' = Gone(p, f)
        BY <1>1, <1>6, <3>2, <4>1 DEF Gone, Whole, Part
      <4>. QED BY <2>1, <2>3, <4>1, <4>2 DEF Delivery, Built
    <3>. QED BY <3>1, <3>2
  <2>5. Built(p, g2)'
    <3>1. g2 \in [0 .. frames' -> Seq(SendByte)]
      BY <1>1, <2>3
    <3>2. \A f \in 1 .. frames' : g2[f] = g2[f - 1] \o Gone(p, f)'
      BY <1>1, <2>4
    <3>. QED BY <2>3, <3>1, <3>2 DEF Built, SendByte, Frames
  <2>6. ASSUME \A u \in Senders : ~Serves(u, p)' PROVE stream'[p] = g2[frames']
    <3>1. \A u \in Senders : ~Serves(u, p)
      BY <1>1, <1>9, <2>6 DEF Serves
    <3>. QED BY <1>1, <2>1, <2>3, <3>1 DEF Delivery
  <2>7. ASSUME NEW u \in Senders, Serves(u, p)'
        PROVE  stream'[p] = g2[frames'] \o Part(frame'[u], 0, total_sent'[u])
    <3>1. CASE u = t
      <4>1. stream'[p] = g[frames] /\ g[frames] \in Seq(SendByte)
        BY <1>1, <1>10, <1>11, <2>1, <2>2, <2>7, <3>1 DEF Delivery
      <4>2. total_sent'[u] = 0 /\ frame'[u] \in Frames
        BY <1>1, <1>2, <1>3, <1>6, <3>1 DEF OneFrameEach
      <4>3. Part(frame'[u], 0, total_sent'[u]) = << >>
        BY <4>2, PartOfNothing
      <4>4. g[frames] \o << >> = g[frames]
        BY <4>1, ConcatEmptySeq
      <4>. QED BY <1>1, <2>3, <4>1, <4>3, <4>4
    <3>2. CASE u # t
      BY <1>1, <1>6, <1>9, <2>1, <2>3, <2>7, <3>2 DEF Delivery
    <3>. QED BY <3>1, <3>2
  <2>8. Delivery(p, g2)'
    BY <2>5, <2>6, <2>7 DEF Delivery, Part
  <2>. QED BY <2>8
<1>. QED BY <1>5, <1>8, <1>12, <1>13 DEF SendIInv

\* What Return does with the frame of thread t.
LEMMA ReturnIs ==
  ASSUME SendTypes, OneFrameEach, NEW t \in Senders, frame[t] # 0, NEW result \in {"sent", "error"},
         Return(t, result), UNCHANGED frames
  PROVE  /\ frame' \in [Senders -> 0 .. frames'] /\ total_sent' \in [Senders -> 0 .. Length - 1]
         /\ returned' \in [Frames -> {"nothing", "sent", "error"}]
         /\ \A f \in Frames : f > frames' => returned'[f] = "nothing"
         /\ frame'[t] = 0 /\ frame[t] \in Frames /\ frame[t] \in 1 .. frames
         /\ returned[frame[t]] = "nothing" /\ returned'[frame[t]] = result
         /\ \A f \in Frames : f # frame[t] => returned'[f] = returned[f]
         /\ \A u \in Senders : u # t => frame'[u] = frame[u] /\ total_sent'[u] = total_sent[u]
         /\ OneFrameEach'
<1>1. Length \in Nat \ {0} /\ MaxFrames \in Nat
  BY SendAssumption
<1>2. frame[t] \in Frames /\ frame[t] \in 1 .. frames
  BY <1>1 DEF SendTypes, Frames
<1>3. /\ frame' = [frame EXCEPT ![t] = 0] /\ total_sent' = [total_sent EXCEPT ![t] = 0]
      /\ returned' = [returned EXCEPT ![frame[t]] = result]
  BY DEF Return
<1>4. frame' \in [Senders -> 0 .. frames'] /\ total_sent' \in [Senders -> 0 .. Length - 1]
  <2>1. 0 \in 0 .. frames /\ 0 \in 0 .. Length - 1
    BY <1>1 DEF SendTypes
  <2>. QED BY <1>3, <2>1 DEF SendTypes
<1>5. returned' \in [Frames -> {"nothing", "sent", "error"}]
  BY <1>3 DEF SendTypes
<1>6. /\ returned'[frame[t]] = result /\ returned[frame[t]] = "nothing"
      /\ \A f \in Frames : f # frame[t] => returned'[f] = returned[f]
  BY <1>2, <1>3 DEF SendTypes, OneFrameEach
<1>7. \A f \in Frames : f > frames' => returned'[f] = "nothing"
  <2>1. \A f \in Frames : f > frames => f # frame[t]
    BY <1>1, <1>2 DEF SendTypes, Frames
  <2>. QED BY <1>6, <2>1 DEF SendTypes
<1>8. /\ frame'[t] = 0 /\ total_sent'[t] = 0
      /\ \A u \in Senders : u # t => frame'[u] = frame[u] /\ total_sent'[u] = total_sent[u]
  BY <1>3 DEF SendTypes
<1>9. OneFrameEach'
  <2>1. ASSUME NEW u \in Senders
        PROVE  IF frame'[u] = 0 THEN total_sent'[u] = 0 ELSE returned'[frame'[u]] = "nothing"
    <3>1. CASE u = t
      BY <1>8, <3>1
    <3>2. CASE u # t
      <4>1. frame[u] # 0 => frame[u] \in Frames /\ frame[u] # frame[t]
        BY <1>1, <3>2 DEF OneFrameEach, SendTypes, Frames
      <4>. QED BY <1>6, <1>8, <3>2, <4>1 DEF OneFrameEach
    <3>. QED BY <3>1, <3>2
  <2>2. ASSUME NEW u \in Senders, NEW v \in Senders, u # v, frame'[u] = frame'[v] PROVE frame'[u] = 0
    BY <1>8, <2>2 DEF OneFrameEach
  <2>. QED BY <2>1, <2>2 DEF OneFrameEach
<1>. QED BY <1>2, <1>4, <1>5, <1>6, <1>7, <1>8, <1>9

\* No frame is begun, and who sends one goes on with it or is done.
LEMMA LastServedKeeps ==
  ASSUME LastServed, UNCHANGED <<first, frames>>, spoiled \subseteq spoiled',
         \A t \in Senders : frame'[t] = frame[t] \/ frame'[t] = 0
  PROVE  LastServed'
<1> SUFFICES ASSUME NEW p \in Peers \ spoiled', NEW t \in Senders, Serves(t, p)',
                    NEW f \in Frames, frame'[t] < f, f <= frames'
             PROVE  first'[f] # p
  BY DEF LastServed
<1>1. Serves(t, p) /\ frame'[t] = frame[t] /\ p \in Peers \ spoiled
  BY DEF Serves
<1>. QED BY <1>1 DEF LastServed

LEMMA GiveUpKeeps == ASSUME SendIInv, NEW t \in Senders, GiveUp(t) PROVE SendIInv'
<1>1. /\ frame[t] # 0 /\ Return(t, "error") /\ UNCHANGED <<peer, closed, stream, frames, first>>
      /\ spoiled' = spoiled \cup {p \in {first[frame[t]]} : total_sent[t] > 0}
  BY DEF GiveUp
<1>2. SendTypes /\ OneFrameEach /\ LastServed
  BY DEF SendIInv
<1>3. /\ frame' \in [Senders -> 0 .. frames'] /\ total_sent' \in [Senders -> 0 .. Length - 1]
      /\ returned' \in [Frames -> {"nothing", "sent", "error"}]
      /\ \A f \in Frames : f > frames' => returned'[f] = "nothing"
      /\ frame'[t] = 0 /\ frame[t] \in Frames /\ frame[t] \in 1 .. frames /\ frames \in Nat
      /\ returned[frame[t]] = "nothing" /\ returned'[frame[t]] = "error"
      /\ \A f \in Frames : f # frame[t] => returned'[f] = returned[f]
      /\ \A u \in Senders : u # t => frame'[u] = frame[u] /\ total_sent'[u] = total_sent[u]
      /\ OneFrameEach'
  <2>1. frames \in Nat
    BY <1>2, SendAssumption DEF SendTypes
  <2>. QED BY <1>1, <1>2, <2>1, ReturnIs
<1>4. SendTypes'
  <2>1. spoiled' \subseteq Peers
    <3>1. total_sent[t] > 0 => first[frame[t]] \in Peers
      <4>1. frame[t] <= frames
        BY <1>3
      <4>. QED BY <1>2, <1>3, <4>1, FirstIsPeer
    <3>. QED BY <1>1, <1>2, <3>1 DEF SendTypes
  <2>. QED BY <1>1, <1>2, <1>3, <2>1 DEF SendTypes
<1>5. LastServed'
  BY <1>1, <1>2, <1>3, LastServedKeeps
<1>6. ASSUME NEW p \in Peers \ spoiled' PROVE \E g : Delivery(p, g)'
  <2>1. p \in Peers \ spoiled /\ (first[frame[t]] = p => ~(total_sent[t] > 0))
    BY <1>1, <1>6
  <2>2. PICK g : Delivery(p, g)
    BY <2>1 DEF SendIInv
  <2>3. \A f \in 1 .. frames : Gone(p, f)' = Gone(p, f)
    <3>1. \A f \in 1 .. frames : f \in Frames
      BY <1>2, SendAssumption DEF SendTypes, Frames
    <3>. QED BY <1>1, <1>3, <3>1 DEF Gone, Whole, Part
  <2>4. ~Serves(t, p)' /\ \A u \in Senders : u # t => (Serves(u, p)' <=> Serves(u, p))
    BY <1>1, <1>3 DEF Serves
  <2>5. CASE ~Serves(t, p)
    BY <1>1, <1>3, <2>1, <2>2, <2>3, <2>4, <2>5, DeliveryKeeps
  <2>6. CASE Serves(t, p)
    <3>1. \A u \in Senders : ~Serves(u, p)'
      BY <1>2, <2>1, <2>4, <2>6, OneServes
    <3>2. Part(frame[t], 0, total_sent[t]) = << >>
      <4>1. total_sent[t] = 0 /\ Length \in Nat /\ frame[t] \in Frames
        BY <1>2, <1>3, <2>1, <2>6, SendAssumption DEF Serves, SendTypes
      <4>. QED BY <4>1, PartOfNothing
    <3>3. stream[p] = g[frames] /\ Built(p, g)'
      <4>1. g[frames] \in Seq(SendByte) /\ stream[p] = g[frames] \o << >>
        <5>1. frames \in 0 .. frames
          BY <1>3
        <5>. QED BY <2>2, <2>6, <3>2, <5>1 DEF Delivery, Built
      <4>2. g[frames] \o << >> = g[frames]
        BY <4>1, ConcatEmptySeq
      <4>3. Built(p, g)'
        BY <1>1, <2>2, <2>3 DEF Delivery, Built
      <4>. QED BY <4>1, <4>2, <4>3
    <3>. QED BY <1>1, <3>1, <3>3 DEF Delivery
  <2>. QED BY <2>5, <2>6
<1>. QED BY <1>3, <1>4, <1>5, <1>6 DEF SendIInv

LEMMA SendKeeps ==
  ASSUME SendIInv, NEW t \in Senders, NEW n \in 1 .. Length, Send(t, n) PROVE SendIInv'
<1>1. /\ frame[t] # 0 /\ n <= Length - total_sent[t]
      /\ stream' = [stream EXCEPT ![peer] = @ \o Part(frame[t], total_sent[t], n)]
      /\ spoiled' = IF first[frame[t]] = peer THEN spoiled
                    ELSE spoiled \cup {peer, first[frame[t]]}
      /\ UNCHANGED <<peer, closed, frames, first>>
  BY DEF Send
<1>2. SendTypes /\ OneFrameEach /\ LastServed
  BY DEF SendIInv
<1>3. PICK f, k \in Nat : f = frame[t] /\ k = total_sent[t]
  BY <1>2, SendAssumption DEF SendTypes
<1>4. /\ f \in Frames /\ f \in 1 .. frames /\ f <= frames /\ frames \in Nat
      /\ Length \in Nat /\ n \in Nat /\ n > 0 /\ k \in 0 .. Length /\ n \in 0 .. Length /\ k + n <= Length
  BY <1>1, <1>2, <1>3, SendAssumption DEF SendTypes, Frames
<1>5. IF k + n = Length THEN Return(t, "sent")
      ELSE total_sent' = [total_sent EXCEPT ![t] = k + n] /\ UNCHANGED <<frame, returned>>
  BY <1>3 DEF Send
<1>6. /\ frame' \in [Senders -> 0 .. frames'] /\ total_sent' \in [Senders -> 0 .. Length - 1]
      /\ returned' \in [Frames -> {"nothing", "sent", "error"}]
      /\ \A h \in Frames : h > frames' => returned'[h] = "nothing"
      /\ frame'[t] = f \/ frame'[t] = 0
      /\ returned[f] = "nothing" /\ \A h \in Frames : h # f => returned'[h] = returned[h]
      /\ \A u \in Senders : u # t => frame'[u] = frame[u] /\ total_sent'[u] = total_sent[u]
      /\ OneFrameEach'
  <2>1. CASE k + n = Length
    BY <1>1, <1>2, <1>3, <1>5, <2>1, ReturnIs
  <2>2. CASE k + n # Length
    <3>1. k + n \in 0 .. Length - 1
      BY <1>4, <2>2
    <3>2. total_sent' \in [Senders -> 0 .. Length - 1]
      BY <1>2, <1>5, <2>2, <3>1 DEF SendTypes
    <3>3. returned[f] = "nothing"
      BY <1>1, <1>2, <1>3 DEF OneFrameEach
    <3>4. \A u \in Senders : u # t => total_sent'[u] = total_sent[u]
      BY <1>2, <1>5, <2>2 DEF SendTypes
    <3>5. OneFrameEach'
      BY <1>1, <1>2, <1>5, <2>2, <3>4 DEF OneFrameEach
    <3>. QED BY <1>1, <1>2, <1>3, <1>5, <2>2, <3>2, <3>3, <3>4, <3>5 DEF SendTypes
  <2>. QED BY <2>1, <2>2
<1>7. /\ Part(f, k, n) \in Seq(SendByte) /\ Part(f, 0, k) \in Seq(SendByte)
      /\ Part(f, 0, k) \o Part(f, k, n) = Part(f, 0, k + n)
  <2>1. Part(f, k, n) \in Seq(SendByte)
    BY <1>4, PartIs
  <2>2. Part(f, 0, k) \in Seq(SendByte)
    BY <1>4, PartIs
  <2>. QED BY <1>4, <2>1, <2>2, PartsJoin
<1>8. SendTypes'
  <2>1. stream' \in [Peers -> Seq(SendByte)]
    <3>1. stream[peer] \o Part(f, k, n) \in Seq(SendByte)
      BY <1>2, <1>7, ConcatProperties DEF SendTypes
    <3>. QED BY <1>1, <1>2, <1>3, <3>1 DEF SendTypes
  <2>2. first[f] \in Peers
    BY <1>2, <1>4, FirstIsPeer
  <2>3. spoiled' \subseteq Peers
    BY <1>1, <1>2, <1>3, <2>2 DEF SendTypes
  <2>. QED BY <1>1, <1>2, <1>6, <2>1, <2>3 DEF SendTypes, SendByte, Frames, Peers
<1>9. LastServed'
  BY <1>1, <1>2, <1>3, <1>6, LastServedKeeps
<1>10. \A h \in 1 .. frames : h \in Frames
  BY <1>2, SendAssumption DEF SendTypes, Frames
<1>11. ASSUME NEW p \in Peers \ spoiled' PROVE \E g : Delivery(p, g)'
  <2>1. p \in Peers \ spoiled /\ (p = peer <=> first[f] = p)
    BY <1>1, <1>3, <1>11
  <2>2. PICK g : Delivery(p, g)
    BY <2>1 DEF SendIInv
  <2>3. \A u \in Senders : u # t => (Serves(u, p)' <=> Serves(u, p))
    BY <1>1, <1>6 DEF Serves
  <2>4. \A h \in Frames : h # f => Gone(p, h)' = Gone(p, h)
    BY <1>1, <1>6 DEF Gone, Whole, Part
  <2>5. CASE p # peer
    <3>1. ~Serves(t, p) /\ ~Serves(t, p)' /\ Gone(p, f)' = Gone(p, f)
      BY <1>1, <1>3, <1>6, <2>1, <2>5 DEF Serves, Gone
    <3>2. stream'[p] = stream[p] /\ \A h \in 1 .. frames : Gone(p, h)' = Gone(p, h)
      BY <1>1, <1>2, <1>10, <2>1, <2>4, <2>5, <3>1 DEF SendTypes
    <3>. QED BY <1>1, <1>6, <2>1, <2>2, <2>3, <3>1, <3>2, DeliveryKeeps
  <2>6. CASE p = peer
    <3>1. Serves(t, p) /\ first[f] = p
      BY <1>1, <1>3, <2>1, <2>6 DEF Serves
    <3>2. \A u \in Senders : u # t => ~Serves(u, p)'
      BY <1>2, <2>1, <2>3, <3>1, OneServes
    <3>3. g \in [0 .. frames -> Seq(SendByte)] /\ g[0] = << >> /\ g[frames] \in Seq(SendByte)
      <4>1. frames \in 0 .. frames
        BY <1>4
      <4>. QED BY <2>2, <4>1 DEF Delivery, Built
    <3>4. stream'[p] = g[frames] \o Part(f, 0, k + n)
      <4>1. stream[p] = g[frames] \o Part(f, 0, k)
        BY <1>3, <2>2, <3>1 DEF Delivery
      <4>2. stream'[p] = (g[frames] \o Part(f, 0, k)) \o Part(f, k, n)
        BY <1>1, <1>2, <1>3, <2>6, <4>1 DEF SendTypes
      <4>3. (g[frames] \o Part(f, 0, k)) \o Part(f, k, n) = g[frames] \o (Part(f, 0, k) \o Part(f, k, n))
        <5>1. \A x, y, z \in Seq(SendByte) : (x \o y) \o z = x \o (y \o z)
          BY ConcatAssociative
        <5>. QED BY <1>7, <3>3, <5>1
      <4>. QED BY <1>7, <4>2, <4>3
    <3>5. CASE k + n = Length
      <4>1. frame'[t] = 0 /\ returned'[f] = "sent"
        BY <1>1, <1>2, <1>3, <1>5, <3>5, ReturnIs
      <4>2. \A u \in Senders : ~Serves(u, p)'
        BY <3>2, <4>1 DEF Serves
      <4>3. Gone(p, f)' = Whole(f) /\ Gone(p, f) = << >>
        BY <1>1, <1>6, <3>1, <4>1 DEF Gone, Whole, Part
      <4>4. Whole(f) = Part(f, 0, k + n) /\ Whole(f) \in Seq(SendByte)
        <5>1. Part(f, 0, Length) \in Seq(SendByte)
          BY <1>4, PartIs
        <5>. QED BY <3>5, <5>1 DEF Whole
      <4>5. PICK g2 : /\ g2 \in [0 .. frames -> Seq(SendByte)] /\ g2[0] = << >>
                      /\ \A h \in 0 .. frames : g2[h] = IF h < f THEN g[h] ELSE g[h] \o Whole(f)
        <5> DEFINE a == [h \in 0 .. frames |-> IF h < f THEN g[h] ELSE g[h] \o Whole(f)]
        <5>1. a \in [0 .. frames -> Seq(SendByte)]
          BY <3>3, <4>4, ConcatProperties
        <5>2. 0 \in 0 .. frames /\ 0 < f
          BY <1>4
        <5>3. a[0] = << >> /\ \A h \in 0 .. frames : a[h] = IF h < f THEN g[h] ELSE g[h] \o Whole(f)
          BY <3>3, <5>2
        <5>. HIDE DEF a
        <5>. QED BY <5>1, <5>3
      <4>6. ASSUME NEW h \in 1 .. frames PROVE g2[h] = g2[h - 1] \o Gone(p, h)'
        <5>1. h \in 0 .. frames /\ h - 1 \in 0 .. frames /\ h - 1 < h /\ h \in Frames
          BY <1>4, <1>10
        <5>2. g[h] = g[h - 1] \o Gone(p, h) /\ g[h - 1] \in Seq(SendByte)
          BY <2>2, <3>3, <5>1 DEF Delivery, Built
        <5>3. CASE h < f
          <6>1. h - 1 < f /\ h # f
            BY <1>4, <5>3
          <6>2. g2[h - 1] = g[h - 1] /\ g2[h] = g[h] /\ Gone(p, h)' = Gone(p, h)
            BY <2>4, <4>5, <5>1, <5>3, <6>1
          <6>. QED BY <5>2, <6>2
        <5>4. CASE h = f
          <6>1. g2[h - 1] = g[h - 1] /\ g2[h] = g[h] \o Whole(f)
            BY <1>4, <4>5, <5>1, <5>4
          <6>2. g[h] = g[h - 1]
            BY <4>3, <5>2, <5>4, ConcatEmptySeq
          <6>. QED BY <4>3, <5>4, <6>1, <6>2
        <5>5. CASE h > f
          <6>1. g2[h - 1] = g[h - 1] \o Whole(f) /\ g2[h] = g[h] \o Whole(f)
            <7>1. ~(h < f) /\ ~(h - 1 < f)
              BY <1>4, <5>5
            <7>. QED BY <4>5, <5>1, <7>1
          <6>2. first[h] # p
            BY <1>2, <1>3, <2>1, <3>1, <5>1, <5>5 DEF LastServed
          <6>3. Gone(p, h) = << >> /\ Gone(p, h)' = << >>
            BY <1>1, <6>2 DEF Gone
          <6>4. g[h] = g[h - 1]
            BY <5>2, <6>3, ConcatEmptySeq
          <6>5. g[h - 1] \o Whole(f) \in Seq(SendByte)
            BY <4>4, <5>2, ConcatProperties
          <6>6. (g[h - 1] \o Whole(f)) \o << >> = g[h - 1] \o Whole(f)
            BY <6>5, ConcatEmptySeq
          <6>. QED BY <6>1, <6>3, <6>4, <6>6
        <5>. QED BY <1>4, <5>3, <5>4, <5>5
      <4>7. Built(p, g2)'
        BY <1>1, <4>5, <4>6 DEF Built, SendByte, Frames
      <4>8. stream'[p] = g2[frames']
        <5>1. frames \in 0 .. frames /\ ~(frames < f)
          BY <1>4
        <5>2. g2[frames] = g[frames] \o Whole(f)
          BY <4>5, <5>1
        <5>. QED BY <1>1, <3>4, <4>4, <5>2
      <4>. QED BY <4>2, <4>7, <4>8 DEF Delivery
    <3>6. CASE k + n # Length
      <4>1. frame'[t] = f /\ total_sent'[t] = k + n /\ UNCHANGED returned
        BY <1>2, <1>3, <1>5, <3>6 DEF SendTypes
      <4>2. Built(p, g)'
        BY <1>1, <2>2, <4>1 DEF Delivery, Built, Gone, Whole, Part
      <4>3. Serves(t, p)'
        BY <1>1, <1>3, <3>1, <4>1 DEF Serves
      <4>4. \A u \in Senders : Serves(u, p)' =>
              stream'[p] = g[frames'] \o Part(frame'[u], 0, total_sent'[u])
        BY <1>1, <3>2, <3>4, <4>1
      <4>. QED BY <4>2, <4>3, <4>4 DEF Delivery, Part
    <3>. QED BY <3>5, <3>6
  <2>. QED BY <2>5, <2>6
<1>. QED BY <1>6, <1>8, <1>9, <1>11 DEF SendIInv

\* The network thread takes the number away or gives it to another connection.
LEMMA CloseReuseKeeps == ASSUME SendIInv, Close \/ Reuse PROVE SendIInv'
<1>1. /\ UNCHANGED <<stream, frame, total_sent, frames, returned, first, spoiled>>
      /\ peer' = peer \/ (peer < MaxPeers /\ peer' = peer + 1)
      /\ closed' \in BOOLEAN
  BY DEF Close, Reuse
<1>2. SendTypes /\ OneFrameEach /\ LastServed
  BY DEF SendIInv
<1>3. SendTypes'
  <2>1. peer' \in Peers /\ 0 .. peer \subseteq 0 .. peer'
    BY <1>1, <1>2, SendAssumption DEF SendTypes, Peers
  <2>2. first' \in [Frames -> 0 .. peer']
    BY <1>1, <1>2, <2>1 DEF SendTypes
  <2>. QED BY <1>1, <1>2, <2>1, <2>2 DEF SendTypes, SendByte, Frames, Peers
<1>4. OneFrameEach' /\ LastServed'
  BY <1>1, <1>2 DEF OneFrameEach, LastServed, Serves
<1>5. ASSUME NEW p \in Peers \ spoiled' PROVE \E g : Delivery(p, g)'
  <2>1. PICK g : Delivery(p, g)
    BY <1>1, <1>5 DEF SendIInv
  <2>2. Delivery(p, g)'
    BY <1>1, <2>1 DEF Delivery, Built, Serves, Gone, Whole, Part, SendByte, Frames
  <2>. QED BY <2>2
<1>. QED BY <1>3, <1>4, <1>5 DEF SendIInv, Peers

LEMMA NextSendIInv == SendIInv /\ [SendNext]_sendVars => SendIInv'
<1> SUFFICES ASSUME SendIInv, [SendNext]_sendVars PROVE SendIInv'
  OBVIOUS
<1>1. ASSUME NEW t \in Senders, Begin(t) PROVE SendIInv'
  BY <1>1, BeginKeeps
<1>2. ASSUME NEW t \in Senders, GiveUp(t) PROVE SendIInv'
  BY <1>2, GiveUpKeeps
<1>3. ASSUME NEW t \in Senders, NEW n \in 1 .. Length, Send(t, n) PROVE SendIInv'
  BY <1>3, SendKeeps
<1>4. CASE Close \/ Reuse
  BY <1>4, CloseReuseKeeps
<1>5. CASE UNCHANGED sendVars
  <2>1. UNCHANGED <<peer, closed, stream, frame, total_sent, frames, returned, first, spoiled>>
    BY <1>5 DEF sendVars
  <2>2. SendTypes' /\ OneFrameEach' /\ LastServed'
    BY <2>1 DEF SendIInv, SendTypes, OneFrameEach, LastServed, Serves, SendByte, Frames, Peers
  <2>3. ASSUME NEW p \in Peers \ spoiled' PROVE \E g : Delivery(p, g)'
    <3>1. PICK g : Delivery(p, g)
      BY <2>1, <2>3 DEF SendIInv
    <3>2. Delivery(p, g)'
      BY <2>1, <3>1 DEF Delivery, Built, Serves, Gone, Whole, Part, SendByte, Frames
    <3>. QED BY <3>2
  <2>. QED BY <2>2, <2>3 DEF SendIInv, Peers
<1>. QED BY <1>1, <1>2, <1>3, <1>4, <1>5, Zenon DEF SendNext

\* Frames have one thread each, and for every connection that is not spoiled the
\* stream is the frames that have gone, in their order, and a part of the last one.
\* (socket_send_data, socket_data, remove_socket, accept_socket)
THEOREM SendInvariant == SendSpec => []SendIInv
<1>. QED BY SendAtTheStart, NextSendIInv, PTL DEF SendSpec

LEMMA FramesAreWhole == SendIInv => WholeFrames
<1> SUFFICES ASSUME SendIInv, NEW p \in Peers \ spoiled
             PROVE  LET done == [f \in 1 .. frames |->
                                   IF first[f] = p /\ returned[f] = "sent" THEN Whole(f) ELSE << >>]
                        now == {t \in Senders : frame[t] # 0 /\ first[frame[t]] = p}
                    IN stream[p] = FlattenSeq(done)
                                   \o (IF now = {} THEN << >>
                                       ELSE LET t == CHOOSE t \in now : TRUE
                                            IN Part(frame[t], 0, total_sent[t]))
  BY DEF WholeFrames
<1> DEFINE done == [f \in 1 .. frames |->
                      IF first[f] = p /\ returned[f] = "sent" THEN Whole(f) ELSE << >>]
           now == {t \in Senders : frame[t] # 0 /\ first[frame[t]] = p}
           t0 == CHOOSE t \in now : TRUE
<1>1. SendTypes /\ OneFrameEach /\ LastServed /\ frames \in Nat /\ MaxFrames \in Nat
  BY SendAssumption DEF SendIInv, SendTypes
<1>2. PICK g : Delivery(p, g)
  BY DEF SendIInv
<1>3. /\ g \in [0 .. frames -> Seq(SendByte)] /\ g[0] = << >> /\ g[frames] \in Seq(SendByte)
      /\ \A f \in 1 .. frames : g[f] = g[f - 1] \o Gone(p, f)
  BY <1>1, <1>2 DEF Delivery, Built
<1>4. /\ \A f \in 1 .. frames : done[f] = Gone(p, f) /\ Gone(p, f) \in Seq(SendByte)
      /\ Len(done) = frames
  <2>1. \A f \in 1 .. frames : Gone(p, f) \in Seq(SendByte)
    <3>1. \A f \in 1 .. frames : f \in Frames
      BY <1>1 DEF SendTypes, Frames
    <3>. QED BY <3>1, GoneIsTyped
  <2>2. \A f \in 1 .. frames : done[f] = Gone(p, f)
    BY DEF Gone
  <2>3. Len(done) = frames
    BY <1>1
  <2>. QED BY <2>1, <2>2, <2>3
<1>5. FlattenSeq(done) = g[frames]
  <2>1. CASE frames = 0
    <3>1. done = << >>
      BY <2>1
    <3>. QED BY <1>3, <2>1, <3>1 DEF FlattenSeq
  <2>2. CASE frames # 0
    <3> HIDE DEF done
    <3> DEFINE h == [f \in 1 .. frames |-> g[f]]
    <3>1. \A f \in 1 .. frames : g[f] = IF f = 1 THEN done[f] ELSE g[f - 1] \o done[f]
      <4> SUFFICES ASSUME NEW f \in 1 .. frames
                   PROVE  g[f] = IF f = 1 THEN done[f] ELSE g[f - 1] \o done[f]
        OBVIOUS
      <4>1. g[f] = g[f - 1] \o done[f]
        BY <1>3, <1>4
      <4>2. f = 1 => g[f] = << >> \o done[f]
        <5>1. f = 1 => f - 1 = 0
          OBVIOUS
        <5>. QED BY <1>3, <4>1, <5>1
      <4>3. << >> \o done[f] = done[f]
        BY <1>4, ConcatEmptySeq
      <4>. QED BY <4>1, <4>2, <4>3
    <3>2. \A f \in 1 .. frames : h[f] = IF f = 1 THEN done[f] ELSE h[f - 1] \o done[f]
      <4>1. \A f \in 1 .. frames : f # 1 => f - 1 \in 1 .. frames
        BY <1>1
      <4>. QED BY <3>1, <4>1
    <3>3. h = [f \in 1 .. frames |-> IF f = 1 THEN done[f] ELSE h[f - 1] \o done[f]]
      BY <3>2
    <3>4. Flattens(done, h)
      BY <1>4, <3>3 DEF Flattens
    <3>5. h[frames] = g[frames] /\ Len(done) \in Nat \ {0}
      BY <1>1, <1>4, <2>2
    <3>. HIDE DEF h
    <3>6. FlattenSeq(done) = h[Len(done)]
      BY <3>4, <3>5, FlattenIs
    <3>. QED BY <1>4, <3>5, <3>6
  <2>. QED BY <2>1, <2>2
<1>6. stream[p] = g[frames] \o (IF now = {} THEN << >> ELSE Part(frame[t0], 0, total_sent[t0]))
  <2>1. \A t \in Senders : t \in now <=> Serves(t, p)
    BY DEF Serves
  <2>2. now \subseteq Senders
    OBVIOUS
  <2>. HIDE DEF now
  <2>3. CASE now = {}
    <3>1. stream[p] = g[frames]
      BY <1>2, <2>1, <2>3 DEF Delivery
    <3>2. g[frames] \o << >> = g[frames]
      BY <1>3, ConcatEmptySeq
    <3>. QED BY <2>3, <3>1, <3>2
  <2>4. CASE now # {}
    <3>1. t0 \in now
      BY <2>4
    <3>. HIDE DEF t0
    <3>2. stream[p] = g[frames] \o Part(frame[t0], 0, total_sent[t0])
      BY <1>2, <2>1, <2>2, <3>1 DEF Delivery
    <3>. QED BY <2>4, <3>2
  <2>. QED BY <2>3, <2>4
<1>. QED BY <1>5, <1>6

\* A connection gets whole frames in the order they were begun.  (socket_data)
THEOREM SendWholeFrames == SendSpec => []WholeFrames
<1>. QED BY SendInvariant, FramesAreWhole, PTL

=============================================================================
