---------------------------- MODULE Timer_proofs ----------------------------
(***************************************************************************)
(* Proofs about Timer for any threads, any pool of tasks, any delays and   *)
(* intervals and any course of the clock, the half written one included.   *)
(* TimerIInv is inductive.  That no task is in two places needs that only  *)
(* the owner of the lock has a node out of the list (LockIsHeld), and that *)
(* the numbers of the timers are new (NumbersAreNew); that a timer fires   *)
(* as it was asked to needs what a node has kept of the request, which     *)
(* KeptFromRequest says.                                                   *)
(***************************************************************************)
EXTENDS Timer, SequenceTheorems, FiniteSetTheorems, WellFoundedInduction, TLAPS

TNode == [task : Tasks, next : Int, val : Nat]

\* Types, without the bounds the runs put on the times.
Typed ==
  /\ clock \in Nat /\ now \in Int /\ now <= clock
  /\ tasks \in Seq(TNode) /\ arg \in [Tasks -> 0 .. MaxTimers]
  /\ node \in TNode \cup {NoNode}
  /\ tpc \in [Threads -> {"idle", "wait", "scan", "callback", "schedule", "cancel"}]
  /\ target \in [Threads -> Tasks \cup {Null}]
  /\ created \in 0 .. MaxTimers /\ fired \in [Timers -> 0 .. 2]
  /\ asked \in [Timers -> [next : Int, val : Nat]]
  /\ cancelled \subseteq Timers

\* The timer thread has the lock from the moment it begins to work off the list
\* until it is done, and a node out of the list while a callback runs.  A thread
\* has a task in hand exactly when it is about to do something with it.
LockIsHeld ==
  /\ lock = IF tpc[Tmr] \in {"scan", "callback", "schedule", "cancel"}
            THEN [owner |-> Tmr, depth |-> 1] ELSE Unlocked
  /\ node # NoNode <=> tpc[Tmr] \in {"callback", "schedule", "cancel"}
  /\ \A t \in Threads : tpc[t] \in {"schedule", "cancel"} => target[t] \in Tasks

\* The timers there have been are the first numbers.
NumbersAreNew ==
  /\ \A k \in Tasks : arg[k] <= created
  /\ \A i \in cancelled : i <= created
  /\ \A i \in Timers : i > created => fired[i] = 0

\* What node n, in the list or running, has of its timer's request.
Kept(n) ==
  /\ n.val = asked[arg[n.task]].val
  /\ asked[arg[n.task]].next <= n.next \/ asked[arg[n.task]].next < clock
  /\ arg[n.task] \notin cancelled

KeptFromRequest ==
  /\ \A i \in 1 .. Len(tasks) :
       Kept(tasks[i]) /\ (tasks[i].val = 0 => fired[arg[tasks[i].task]] = 0)
  /\ node # NoNode => Kept(node) /\ asked[arg[node.task]].next < clock
  /\ \A t \in Threads : tpc[t] = "schedule" =>
       fired[arg[target[t]]] = 0 /\ arg[target[t]] \notin cancelled

\* Thread t is about to schedule task k.
Makes(t, k) == tpc[t] = "schedule" /\ target[t] = k

\* What TasksOwnedOnce says, place by place: a task in the list, in the callback
\* or in the making is in use and in no other place; a task in use is in one of them.
EachInOnePlace ==
  /\ \A i, j \in 1 .. Len(tasks) : i # j => tasks[i].task # tasks[j].task
  /\ \A i \in 1 .. Len(tasks) : arg[tasks[i].task] # 0 /\ tasks[i].task # node.task
  /\ node # NoNode => arg[node.task] # 0
  /\ \A t \in Threads, k \in Tasks : Makes(t, k) =>
       /\ arg[k] # 0 /\ k # node.task
       /\ \A i \in 1 .. Len(tasks) : tasks[i].task # k
       /\ \A u \in Threads : Makes(u, k) => u = t
  /\ \A k \in Tasks : arg[k] # 0 =>
       Listed(k) \/ node.task = k \/ \E t \in Threads : Makes(t, k)
  /\ \A k, l \in Tasks : k # l /\ arg[k] # 0 => arg[k] # arg[l]

TimerIInv ==
  Typed /\ LockIsHeld /\ NumbersAreNew /\ Sorted /\ EachInOnePlace /\ KeptFromRequest

-----------------------------------------------------------------------------
(* The list *)

\* A set of positions that has with each all smaller ones is 1 .. m, and m is
\* how many there are.
LEMMA FirstPositions ==
  ASSUME NEW n \in Nat, NEW S \in SUBSET (1 .. n),
         \A i \in S : \A j \in 1 .. i : j \in S
  PROVE  Cardinality(S) \in 0 .. n /\ S = 1 .. Cardinality(S)
<1> DEFINE T == {i \in 1 .. n + 1 : i \notin S}
<1>1. n + 1 \in T
  OBVIOUS
<1>2. \E m \in T : \A i \in T : ~(i < m)
  <2> DEFINE Less == OpToRel(<, Nat)
  <2>1. IsWellFoundedOn(Less, Nat)
    BY NatLessThanWellFounded
  <2>2. T \subseteq Nat /\ T # {}
    BY <1>1
  <2>3. \A i, j \in Nat : i < j => <<i, j>> \in Less
    BY DEF OpToRel
  <2>. HIDE DEF T, Less
  <2>4. \E m \in T : \A i \in T : ~(<<i, m>> \in Less)
    BY <2>1, <2>2, WFMin
  <2>. QED BY <2>2, <2>3, <2>4
<1>3. PICK m \in T : \A i \in T : ~(i < m)
  BY <1>2
<1>4. S = 1 .. m - 1
  <2>1. \A i \in 1 .. m - 1 : i \in S
    BY <1>3
  <2>2. ASSUME NEW i \in S PROVE i \in 1 .. m - 1
    <3>1. i \in 1 .. n /\ m \in Nat /\ m >= 1 /\ m \notin S
      OBVIOUS
    <3>2. ~(m \in 1 .. i)
      BY <3>1
    <3>. QED BY <3>1, <3>2
  <2>. QED BY <2>1, <2>2
<1>5. Cardinality(1 .. m - 1) = m - 1
  <2>1. m - 1 \in Int /\ 1 \in Int /\ m - 1 >= 0
    OBVIOUS
  <2>. QED BY <2>1, FS_Interval
<1>. QED BY <1>4, <1>5

\* Inserted puts a node behind those that are due before it and in front of the
\* first that is not, and moves the others. (timer_schedule)
LEMMA InsertedIs ==
  ASSUME NEW list \in Seq(TNode), NEW n \in TNode
  PROVE  \E m \in 0 .. Len(list) :
           /\ Inserted(list, n) \in Seq(TNode)
           /\ Len(Inserted(list, n)) = Len(list) + 1
           /\ \A i \in 1 .. m : Inserted(list, n)[i] = list[i] /\ list[i].next < n.next
           /\ Inserted(list, n)[m + 1] = n
           /\ \A i \in m + 1 .. Len(list) : Inserted(list, n)[i + 1] = list[i]
           /\ m < Len(list) => ~(list[m + 1].next < n.next)
<1> DEFINE before == {i \in 1 .. Len(list) : \A j \in 1 .. i : list[j].next < n.next}
<1>1. \E m \in 0 .. Len(list) : m = Cardinality(before) /\ before = 1 .. m
  <2>1. before \in SUBSET (1 .. Len(list)) /\ Len(list) \in Nat
    OBVIOUS
  <2>2. \A i \in before : \A j \in 1 .. i : j \in before
    OBVIOUS
  <2>. HIDE DEF before
  <2>. QED BY <2>1, <2>2, FirstPositions
<1>m. PICK m \in 0 .. Len(list) : m = Cardinality(before) /\ before = 1 .. m
  BY <1>1
<1>2. \A i \in 1 .. m : list[i].next < n.next
  <2>1. \A i \in before : list[i].next < n.next
    OBVIOUS
  <2>. QED BY <1>m, <2>1
<1>3. m < Len(list) => ~(list[m + 1].next < n.next)
  <2>. SUFFICES ASSUME m < Len(list), list[m + 1].next < n.next PROVE FALSE
    OBVIOUS
  <2>1. m + 1 \in 1 .. Len(list) /\ \A j \in 1 .. m + 1 : list[j].next < n.next
    BY <1>2
  <2>2. m + 1 \in before
    BY <2>1
  <2>3. before = 1 .. m
    BY <1>m
  <2>. HIDE DEF before
  <2>. QED BY <2>2, <2>3
<1>4. Inserted(list, n) = SubSeq(list, 1, m) \o <<n>> \o SubSeq(list, m + 1, Len(list))
  <2>1. Inserted(list, n) = InsertAt(list, Cardinality(before) + 1, n)
    BY DEF Inserted
  <2>2. InsertAt(list, m + 1, n)
          = SubSeq(list, 1, (m + 1) - 1) \o <<n>> \o SubSeq(list, m + 1, Len(list))
    BY DEF InsertAt
  <2>3. (m + 1) - 1 = m
    OBVIOUS
  <2>. HIDE DEF before
  <2>. QED BY <1>m, <2>1, <2>2, <2>3
<1>. HIDE DEF before
<1>5. /\ SubSeq(list, 1, m) \in Seq(TNode) /\ Len(SubSeq(list, 1, m)) = m
      /\ \A i \in 1 .. m : SubSeq(list, 1, m)[i] = list[i]
  OBVIOUS
<1>6. /\ SubSeq(list, m + 1, Len(list)) \in Seq(TNode)
      /\ Len(SubSeq(list, m + 1, Len(list))) = Len(list) - m
      /\ \A i \in 1 .. Len(list) - m : SubSeq(list, m + 1, Len(list))[i] = list[m + i]
  OBVIOUS
<1>7. /\ Inserted(list, n) \in Seq(TNode) /\ Len(Inserted(list, n)) = Len(list) + 1
      /\ \A i \in 1 .. m : Inserted(list, n)[i] = list[i]
      /\ Inserted(list, n)[m + 1] = n
      /\ \A i \in m + 1 .. Len(list) : Inserted(list, n)[i + 1] = list[i]
  <2> DEFINE A == SubSeq(list, 1, m)  B == SubSeq(list, m + 1, Len(list))
  <2>1. /\ <<n>> \in Seq(TNode) /\ Len(<<n>>) = 1 /\ <<n>>[1] = n
        /\ A \in Seq(TNode) /\ Len(A) = m
        /\ B \in Seq(TNode) /\ Len(B) = Len(list) - m
    BY <1>5, <1>6
  <2>. HIDE DEF A, B
  <2>2. /\ A \o <<n>> \in Seq(TNode) /\ Len(A \o <<n>>) = m + 1
        /\ \A i \in 1 .. m : (A \o <<n>>)[i] = A[i]
        /\ (A \o <<n>>)[m + 1] = n
    BY <2>1, ConcatProperties
  <2>3. /\ (A \o <<n>>) \o B \in Seq(TNode)
        /\ Len((A \o <<n>>) \o B) = Len(list) + 1
        /\ \A i \in 1 .. m + 1 : ((A \o <<n>>) \o B)[i] = (A \o <<n>>)[i]
        /\ \A i \in 1 .. Len(list) - m : ((A \o <<n>>) \o B)[m + 1 + i] = B[i]
    <3> DEFINE C == A \o <<n>>
    <3>1. C \in Seq(TNode) /\ Len(C) = m + 1
      BY <2>2
    <3>. HIDE DEF C
    <3>2. /\ C \o B \in Seq(TNode) /\ Len(C \o B) = Len(C) + Len(B)
          /\ \A i \in 1 .. Len(C) : (C \o B)[i] = C[i]
          /\ \A i \in 1 .. Len(B) : (C \o B)[Len(C) + i] = B[i]
      <4>1. C \o B \in Seq(TNode) /\ Len(C \o B) = Len(C) + Len(B)
        BY <2>1, <3>1, ConcatProperties
      <4>2. \A i \in 1 .. Len(C) + Len(B) :
              (C \o B)[i] = IF i <= Len(C) THEN C[i] ELSE B[i - Len(C)]
        BY <2>1, <3>1, ConcatProperties
      <4>3. Len(C) \in Nat /\ Len(B) \in Nat
        BY <2>1, <3>1
      <4>4. ASSUME NEW i \in 1 .. Len(B) PROVE (C \o B)[Len(C) + i] = B[i]
        <5>1. /\ Len(C) + i \in 1 .. Len(C) + Len(B) /\ ~(Len(C) + i <= Len(C))
              /\ (Len(C) + i) - Len(C) = i
          BY <4>3
        <5>. QED BY <4>2, <5>1
      <4>. QED BY <4>1, <4>2, <4>3, <4>4
    <3>3. (m + 1) + (Len(list) - m) = Len(list) + 1
      OBVIOUS
    <3>4. /\ C \o B \in Seq(TNode) /\ Len(C \o B) = Len(list) + 1
          /\ \A i \in 1 .. m + 1 : (C \o B)[i] = C[i]
          /\ \A i \in 1 .. Len(list) - m : (C \o B)[m + 1 + i] = B[i]
      BY <2>1, <3>1, <3>2, <3>3
    <3>. QED BY <3>4 DEF C
  <2>4. Inserted(list, n) = (A \o <<n>>) \o B
    BY <1>4 DEF A, B
  <2>5. /\ \A i \in 1 .. m : A[i] = list[i]
        /\ \A i \in 1 .. Len(list) - m : B[i] = list[m + i]
    BY <1>5, <1>6 DEF A, B
  <2>6. \A i \in m + 1 .. Len(list) : Inserted(list, n)[i + 1] = list[i]
    <3>. TAKE i \in m + 1 .. Len(list)
    <3>1. i - m \in 1 .. Len(list) - m /\ m + 1 + (i - m) = i + 1 /\ m + (i - m) = i
      OBVIOUS
    <3>2. B[i - m] = list[m + (i - m)]
      BY <3>1, <2>5
    <3>3. ((A \o <<n>>) \o B)[m + 1 + (i - m)] = B[i - m]
      BY <3>1, <2>3
    <3>. QED BY <3>1, <3>2, <3>3, <2>4
  <2>7. \A i \in 1 .. m : Inserted(list, n)[i] = list[i]
    BY <2>2, <2>3, <2>4, <2>5
  <2>8. Inserted(list, n)[m + 1] = n
    BY <2>2, <2>3, <2>4
  <2>9. Len(Inserted(list, n)) = Len(list) + 1
    BY <2>3, <2>4
  <2>. QED BY <2>3, <2>4, <2>6, <2>7, <2>8, <2>9
<1>. QED BY <1>2, <1>3, <1>7

\* Taking a node out moves those behind it. (timer_cancel, timer_thread_run)
LEMMA RemovedIs ==
  ASSUME NEW list \in Seq(TNode), NEW i \in 1 .. Len(list)
  PROVE  /\ RemoveAt(list, i) \in Seq(TNode)
         /\ Len(RemoveAt(list, i)) = Len(list) - 1
         /\ \A j \in 1 .. i - 1 : RemoveAt(list, i)[j] = list[j]
         /\ \A j \in i .. Len(list) - 1 : RemoveAt(list, i)[j] = list[j + 1]
<1>1. /\ SubSeq(list, 1, i - 1) \in Seq(TNode) /\ Len(SubSeq(list, 1, i - 1)) = i - 1
      /\ \A j \in 1 .. i - 1 : SubSeq(list, 1, i - 1)[j] = list[j]
  OBVIOUS
<1>2. /\ SubSeq(list, i + 1, Len(list)) \in Seq(TNode)
      /\ Len(SubSeq(list, i + 1, Len(list))) = Len(list) - i
      /\ \A j \in 1 .. Len(list) - i : SubSeq(list, i + 1, Len(list))[j] = list[i + j]
  OBVIOUS
<1> DEFINE A == SubSeq(list, 1, i - 1)  B == SubSeq(list, i + 1, Len(list))
<1>3. A \in Seq(TNode) /\ B \in Seq(TNode) /\ Len(A) = i - 1 /\ Len(B) = Len(list) - i
  BY <1>1, <1>2
<1>4. RemoveAt(list, i) = A \o B
  BY DEF RemoveAt
<1>. HIDE DEF A, B
<1>5. /\ A \o B \in Seq(TNode) /\ Len(A \o B) = Len(list) - 1
      /\ \A j \in 1 .. i - 1 : (A \o B)[j] = A[j]
      /\ \A j \in 1 .. Len(list) - i : (A \o B)[(i - 1) + j] = B[j]
  <2>1. A \o B \in Seq(TNode) /\ Len(A \o B) = Len(A) + Len(B)
    BY <1>3, ConcatProperties
  <2>2. \A j \in 1 .. Len(A) : (A \o B)[j] = A[j]
    BY <1>3, ConcatProperties
  <2>3. \A j \in 1 .. Len(B) : (A \o B)[Len(A) + j] = B[j]
    BY <1>3, SMTT(30)
  <2>4. (i - 1) + (Len(list) - i) = Len(list) - 1
    OBVIOUS
  <2>. QED BY <1>3, <2>1, <2>2, <2>3, <2>4
<1>6. \A j \in i .. Len(list) - 1 : RemoveAt(list, i)[j] = list[j + 1]
  <2>. TAKE j \in i .. Len(list) - 1
  <2>1. /\ j - i + 1 \in 1 .. Len(list) - i /\ (i - 1) + (j - i + 1) = j
        /\ i + (j - i + 1) = j + 1
    OBVIOUS
  <2>2. B[j - i + 1] = list[i + (j - i + 1)]
    BY <1>2, <2>1 DEF B
  <2>. QED BY <2>1, <2>2, <1>4, <1>5
<1>7. \A j \in 1 .. i - 1 : RemoveAt(list, i)[j] = list[j]
  BY <1>1, <1>4, <1>5 DEF A
<1>8. Len(RemoveAt(list, i)) = Len(list) - 1
  BY <1>4, <1>5
<1>. QED BY <1>4, <1>5, <1>6, <1>7, <1>8

LEMMA TailIs ==
  ASSUME NEW list \in Seq(TNode), list # << >>
  PROVE  /\ Tail(list) \in Seq(TNode) /\ Len(Tail(list)) = Len(list) - 1 /\ Len(list) >= 1
         /\ Head(list) = list[1] /\ list[1] \in TNode
         /\ \A j \in 1 .. Len(list) - 1 : Tail(list)[j] = list[j + 1]
  OBVIOUS

-----------------------------------------------------------------------------
(* Type facts used in every step *)

LEMMA InList ==
  ASSUME Typed, NEW i \in 1 .. Len(tasks)
  PROVE  /\ tasks[i] \in TNode /\ tasks[i].task \in Tasks /\ tasks[i].task # Null
         /\ tasks[i].next \in Int /\ tasks[i].val \in Nat
<1>1. tasks[i] \in TNode
  BY DEF Typed
<1>. QED BY <1>1, TimerAssumption DEF TNode

\* The list is empty, nobody has a task.
LEMMA InitTimerIInv == TimerInit => TimerIInv
<1> SUFFICES ASSUME TimerInit PROVE TimerIInv
  OBVIOUS
<1> USE TimerAssumption DEF TimerInit, Threads, Timers
<1>1. Typed
  BY DEF Typed
<1>2. LockIsHeld
  BY DEF LockIsHeld
<1>3. NumbersAreNew
  BY DEF NumbersAreNew
<1>4. Sorted /\ KeptFromRequest
  BY DEF Sorted, KeptFromRequest
<1>5. EachInOnePlace
  BY DEF EachInOnePlace, Makes, NoNode
<1>. QED BY <1>1, <1>2, <1>3, <1>4, <1>5 DEF TimerIInv

\* The clock goes on.
LEMMA TickStep ==
  ASSUME TimerIInv, Tick
  PROVE  TimerIInv'
<1> USE TimerAssumption DEF TimerIInv, Tick, shared, timers
<1>1. Typed'
  BY DEF Typed
<1>2. LockIsHeld' /\ NumbersAreNew' /\ Sorted'
  BY DEF LockIsHeld, NumbersAreNew, Sorted
<1>3. EachInOnePlace'
  BY DEF EachInOnePlace, Makes, Listed
<1>4. KeptFromRequest'
  <2>1. ASSUME NEW n \in TNode, arg[n.task] \in Timers, Kept(n)
        PROVE  Kept(n)'
    BY <2>1 DEF Kept, Typed, TNode
  <2>2. \A i \in 1 .. Len(tasks) : arg[tasks[i].task] \in Timers
    BY InList, SMTT(30) DEF EachInOnePlace, Typed, Timers
  <2>3. node # NoNode => arg[node.task] \in Timers
    BY DEF EachInOnePlace, Typed, Timers, TNode
  <2>4. \A i \in 1 .. Len(tasks) : Kept(tasks[i])'
    BY <2>1, <2>2, InList DEF KeptFromRequest
  <2>5. node # NoNode => Kept(node)' /\ asked[arg[node.task]].next < clock'
    <3>1. node # NoNode => asked[arg[node.task]].next \in Int
      BY <2>3 DEF Typed
    <3>. QED BY <2>1, <2>3, <3>1 DEF KeptFromRequest, Typed
  <2>. QED BY <2>4, <2>5 DEF KeptFromRequest, Kept
<1>. QED BY <1>1, <1>2, <1>3, <1>4

\* A new timer: its number is new, so that nothing is known of it yet.
LEMMA CreateStep ==
  ASSUME TimerIInv, NEW t \in Threads, NEW d \in Delays, NEW p \in Periods, Create(t, d, p)
  PROVE  TimerIInv'
<1> USE TimerAssumption DEF TimerIInv, InScript, ScriptPc, Goto
<1>1. PICK k \in Tasks : arg[k] = 0 /\ arg' = [arg EXCEPT ![k] = created + 1]
                         /\ target' = [target EXCEPT ![t] = k]
  BY DEF Create
<1>2. PICK r \in Readings :
        asked' = [asked EXCEPT ![created + 1] = [next |-> r + d, val |-> p]]
  BY DEF Create
<1>3. /\ tpc[t] = IF t = Tmr THEN "callback" ELSE "idle"
      /\ created < MaxTimers /\ created' = created + 1
      /\ tpc' = [tpc EXCEPT ![t] = "schedule"]
      /\ UNCHANGED <<clock, lock, tasks, now, node, fired, cancelled>>
  BY DEF Create
<1>4. r \in Int /\ d \in Nat /\ p \in Nat
  BY DEF Readings, LongAgo, Typed
<1>5. created \in Nat /\ created + 1 \in Timers /\ created + 1 \in 1 .. MaxTimers
  BY <1>3 DEF Typed, Timers
<1>6. Typed'
  BY <1>1, <1>2, <1>3, <1>4, <1>5 DEF Typed
<1>7. LockIsHeld'
  BY <1>1, <1>3 DEF LockIsHeld, Typed, Threads
<1>8. NumbersAreNew'
  BY <1>1, <1>3, <1>5 DEF NumbersAreNew, Typed, Timers
<1>9. Sorted'
  BY <1>3 DEF Sorted
<1>10. EachInOnePlace'
  <2>1. \A i \in 1 .. Len(tasks) : tasks[i].task # k
    BY <1>1 DEF EachInOnePlace
  <2>2. node.task # k
    BY <1>1 DEF EachInOnePlace, NoNode
  <2>3. \A u \in Threads : ~Makes(u, k)
    BY <1>1 DEF EachInOnePlace
  <2>4. ~\E l \in Tasks : Makes(t, l)
    BY <1>3 DEF Makes
  <2>5. \A u \in Threads, l \in Tasks : Makes(u, l)' <=> (Makes(u, l) \/ (u = t /\ l = k))
    BY <1>1, <1>3, <2>4 DEF Makes, Typed
  <2>6. \A l \in Tasks : Listed(l)' <=> Listed(l)
    BY <1>3 DEF Listed
  <2>7. \A l \in Tasks : arg'[l] = IF l = k THEN created + 1 ELSE arg[l]
    BY <1>1 DEF Typed
  <2>8. \A i \in 1 .. Len(tasks) : tasks[i].task \in Tasks
    BY InList
  <2>9. node # NoNode => node.task \in Tasks
    BY DEF Typed, TNode
  <2>10. \A l \in Tasks : arg[l] # created + 1
    BY <1>5 DEF NumbersAreNew, Typed
  <2>11. \A l, m \in Tasks : l # m /\ arg'[l] # 0 => arg'[l] # arg'[m]
    BY <1>5, <2>7, <2>10 DEF EachInOnePlace
  <2>12. \A l \in Tasks : arg'[l] # 0 =>
            Listed(l)' \/ node'.task = l \/ \E u \in Threads : Makes(u, l)'
    BY <1>3, <2>5, <2>6, <2>7 DEF EachInOnePlace
  <2>13. \A u \in Threads, l \in Tasks : Makes(u, l)' =>
           /\ arg'[l] # 0 /\ l # node'.task
           /\ \A i \in 1 .. Len(tasks') : tasks'[i].task # l
           /\ \A v \in Threads : Makes(v, l)' => v = u
    BY <1>3, <1>5, <2>1, <2>2, <2>3, <2>5, <2>7 DEF EachInOnePlace
  <2>14. \A i \in 1 .. Len(tasks') : arg'[tasks'[i].task] # 0 /\ tasks'[i].task # node'.task
    BY <1>3, <1>5, <2>7, <2>8 DEF EachInOnePlace
  <2>15. node' # NoNode => arg'[node'.task] # 0
    BY <1>3, <1>5, <2>7, <2>9 DEF EachInOnePlace
  <2>16. \A i, j \in 1 .. Len(tasks') : i # j => tasks'[i].task # tasks'[j].task
    BY <1>3 DEF EachInOnePlace
  <2>. QED BY <2>11, <2>12, <2>13, <2>14, <2>15, <2>16 DEF EachInOnePlace
<1>11. KeptFromRequest'
  <2>1. ASSUME NEW l \in Tasks, arg[l] # 0
        PROVE  /\ l # k /\ arg'[l] = arg[l] /\ arg[l] \in Timers /\ arg[l] # created + 1
               /\ asked'[arg[l]] = asked[arg[l]]
    BY <1>1, <1>2, <1>5, <2>1, SMTT(30) DEF Typed, NumbersAreNew, Timers
  <2>2. ASSUME NEW n \in TNode, arg[n.task] # 0, Kept(n)
        PROVE  Kept(n)'
    <3>1. n.task \in Tasks
      BY DEF TNode
    <3>. QED BY <1>3, <2>1, <2>2, <3>1 DEF Kept
  <2>3. ASSUME NEW i \in 1 .. Len(tasks')
        PROVE  Kept(tasks[i])' /\ (tasks'[i].val = 0 => fired'[arg'[tasks'[i].task]] = 0)
    <3>1. i \in 1 .. Len(tasks) /\ tasks[i] \in TNode /\ tasks[i].task \in Tasks
      BY <1>3, <2>3, InList
    <3>2. Kept(tasks[i]) /\ arg[tasks[i].task] # 0
      BY <3>1 DEF KeptFromRequest, EachInOnePlace
    <3>3. tasks' = tasks /\ fired' = fired
      BY <1>3
    <3>. QED BY <2>1, <2>2, <3>1, <3>2, <3>3 DEF KeptFromRequest, Kept
  <2>4. node' # NoNode => Kept(node)' /\ asked'[arg'[node'.task]].next < clock'
    <3>1. node # NoNode => node.task \in Tasks /\ arg[node.task] # 0
      BY DEF EachInOnePlace, Typed, TNode
    <3>. QED BY <1>3, <2>1, <2>2, <3>1 DEF KeptFromRequest, Typed
  <2>5. ASSUME NEW u \in Threads, tpc'[u] = "schedule"
        PROVE  fired'[arg'[target'[u]]] = 0 /\ arg'[target'[u]] \notin cancelled'
    <3>1. CASE u = t
      <4>1. arg'[target'[u]] = created + 1
        BY <1>1, <3>1 DEF Typed
      <4>2. fired[created + 1] = 0
        BY <1>5 DEF NumbersAreNew
      <4>3. created + 1 \notin cancelled
        BY <1>5 DEF NumbersAreNew
      <4>. QED BY <4>1, <4>2, <4>3, <1>3
    <3>2. CASE u # t
      <4>1. tpc[u] = "schedule" /\ target'[u] = target[u] /\ target[u] \in Tasks
        BY <1>1, <1>3, <2>5, <3>2 DEF Typed, LockIsHeld
      <4>2. arg[target[u]] # 0
        BY <4>1 DEF EachInOnePlace, Makes
      <4>. QED BY <1>3, <2>1, <4>1, <4>2 DEF KeptFromRequest
    <3>. QED BY <3>1, <3>2
  <2>. QED BY <2>3, <2>4, <2>5 DEF KeptFromRequest, Kept
<1>. QED BY <1>6, <1>7, <1>8, <1>9, <1>10, <1>11

-----------------------------------------------------------------------------
(* Steps that change the list *)

\* A node put into the list keeps it sorted, and what is listed is what was and
\* the node's task.
LEMMA InsertKeeps ==
  ASSUME Typed, Sorted, NEW n \in TNode, tasks' = Inserted(tasks, n)
  PROVE  /\ tasks' \in Seq(TNode) /\ Sorted'
         /\ \A i \in 1 .. Len(tasks') :
              tasks'[i] = n \/ \E j \in 1 .. Len(tasks) : tasks'[i] = tasks[j]
         /\ \A k \in Tasks : Listed(k)' <=> (Listed(k) \/ k = n.task)
         /\ (\A i, j \in 1 .. Len(tasks) : i # j => tasks[i].task # tasks[j].task)
            /\ (\A i \in 1 .. Len(tasks) : tasks[i].task # n.task)
            => \A i, j \in 1 .. Len(tasks') : i # j => tasks'[i].task # tasks'[j].task
<1>0. tasks \in Seq(TNode) /\ Len(tasks) \in Nat
  BY DEF Typed
<1>1. PICK m \in 0 .. Len(tasks) :
        /\ tasks' \in Seq(TNode) /\ Len(tasks') = Len(tasks) + 1
        /\ \A i \in 1 .. m : tasks'[i] = tasks[i] /\ tasks[i].next < n.next
        /\ tasks'[m + 1] = n
        /\ \A i \in m + 1 .. Len(tasks) : tasks'[i + 1] = tasks[i]
        /\ m < Len(tasks) => ~(tasks[m + 1].next < n.next)
  <2>1. \E m \in 0 .. Len(tasks) :
          /\ Inserted(tasks, n) \in Seq(TNode)
          /\ Len(Inserted(tasks, n)) = Len(tasks) + 1
          /\ \A i \in 1 .. m : Inserted(tasks, n)[i] = tasks[i] /\ tasks[i].next < n.next
          /\ Inserted(tasks, n)[m + 1] = n
          /\ \A i \in m + 1 .. Len(tasks) : Inserted(tasks, n)[i + 1] = tasks[i]
          /\ m < Len(tasks) => ~(tasks[m + 1].next < n.next)
    BY <1>0, InsertedIs, Zenon
  <2>. QED BY <2>1, Zenon
<1>2. \A i \in m + 2 .. Len(tasks') : i - 1 \in m + 1 .. Len(tasks) /\ tasks'[i] = tasks[i - 1]
  <2>. TAKE i \in m + 2 .. Len(tasks')
  <2>1. i - 1 \in m + 1 .. Len(tasks) /\ (i - 1) + 1 = i
    BY <1>0, <1>1
  <2>. QED BY <1>1, <2>1
<1>3. \A i \in 1 .. Len(tasks') : i \in 1 .. m \/ i = m + 1 \/ i \in m + 2 .. Len(tasks')
  BY <1>0, <1>1
<1>4. \A i \in 1 .. m : i \in 1 .. Len(tasks) /\ tasks'[i] = tasks[i]
  BY <1>0, <1>1
<1>5. \A i \in m + 2 .. Len(tasks') : i - 1 \in 1 .. Len(tasks)
  BY <1>0, <1>2
<1>6. \A i \in 1 .. Len(tasks') :
        tasks'[i] = n \/ \E j \in 1 .. Len(tasks) : tasks'[i] = tasks[j]
  BY <1>1, <1>2, <1>3, <1>4, <1>5
<1>7. \A j \in 1 .. Len(tasks) : \E i \in 1 .. Len(tasks') : tasks'[i] = tasks[j]
  <2>. TAKE j \in 1 .. Len(tasks)
  <2>1. CASE j \in 1 .. m
    <3>1. j \in 1 .. Len(tasks') /\ tasks'[j] = tasks[j]
      BY <2>1, <1>0, <1>1
    <3>. QED BY <3>1
  <2>2. CASE j \in m + 1 .. Len(tasks)
    <3>1. j + 1 \in 1 .. Len(tasks') /\ tasks'[j + 1] = tasks[j]
      BY <2>2, <1>0, <1>1
    <3>. QED BY <3>1
  <2>. QED BY <2>1, <2>2, <1>0
<1>8. m + 1 \in 1 .. Len(tasks')
  BY <1>0, <1>1
<1>9. ASSUME NEW k \in Tasks PROVE Listed(k)' <=> (Listed(k) \/ k = n.task)
  <2>1. Listed(k)' => (Listed(k) \/ k = n.task)
    BY <1>6 DEF Listed
  <2>2. Listed(k) => Listed(k)'
    BY <1>7 DEF Listed
  <2>3. k = n.task => Listed(k)'
    BY <1>1, <1>8 DEF Listed
  <2>. QED BY <2>1, <2>2, <2>3
<1>10. Sorted'
  <2>1. \A i \in 1 .. Len(tasks) : tasks[i].next \in Int
    BY InList
  <2>2. n.next \in Int
    BY DEF TNode
  <2>3. \A i \in m + 1 .. Len(tasks) : n.next <= tasks[i].next
    <3>. TAKE i \in m + 1 .. Len(tasks)
    <3>1. m + 1 \in 1 .. Len(tasks) /\ i \in 1 .. Len(tasks) /\ (m + 1 = i \/ m + 1 < i)
      BY <1>0
    <3>2. ~(tasks[m + 1].next < n.next)
      BY <3>1, <1>0, <1>1
    <3>3. tasks[m + 1].next <= tasks[i].next
      BY <3>1, <2>1 DEF Sorted
    <3>. QED BY <3>1, <3>2, <3>3, <2>1, <2>2
  <2>. SUFFICES ASSUME NEW i \in 1 .. Len(tasks'), NEW j \in 1 .. Len(tasks'), i < j
                PROVE  tasks'[i].next <= tasks'[j].next
    BY DEF Sorted
  <2>4. CASE j \in 1 .. m
    <3>1. i \in 1 .. m
      BY <2>4
    <3>. QED BY <2>4, <3>1, <1>4 DEF Sorted
  <2>5. CASE j = m + 1
    <3>1. i \in 1 .. m
      BY <2>5
    <3>. QED BY <2>5, <3>1, <1>1, <1>4, <2>1, <2>2
  <2>6. CASE j \in m + 2 .. Len(tasks')
    <3>1. /\ j - 1 \in m + 1 .. Len(tasks) /\ j - 1 \in 1 .. Len(tasks)
          /\ tasks'[j] = tasks[j - 1]
      BY <2>6, <1>2, <1>5
    <3>2. CASE i \in 1 .. m
      <4>1. i \in 1 .. Len(tasks) /\ i < j - 1
        BY <3>1, <3>2, <1>0
      <4>. QED BY <3>1, <3>2, <4>1, <1>4 DEF Sorted
    <3>3. CASE i = m + 1
      BY <3>1, <3>3, <1>1, <2>3
    <3>4. CASE i \in m + 2 .. Len(tasks')
      <4>1. i - 1 \in 1 .. Len(tasks) /\ i - 1 < j - 1 /\ tasks'[i] = tasks[i - 1]
        BY <3>4, <1>0, <1>2, <1>5
      <4>. QED BY <3>1, <4>1 DEF Sorted
    <3>. QED BY <3>2, <3>3, <3>4, <1>3
  <2>. QED BY <2>4, <2>5, <2>6, <1>3
<1>11. ASSUME \A i, j \in 1 .. Len(tasks) : i # j => tasks[i].task # tasks[j].task,
              \A i \in 1 .. Len(tasks) : tasks[i].task # n.task,
              NEW i \in 1 .. Len(tasks'), NEW j \in 1 .. Len(tasks'), i # j
       PROVE  tasks'[i].task # tasks'[j].task
  <2>1. ASSUME NEW a \in 1 .. Len(tasks'), a # m + 1
        PROVE  \E b \in 1 .. Len(tasks) :
                 tasks'[a] = tasks[b] /\ b = IF a <= m THEN a ELSE a - 1
    <3>1. CASE a \in 1 .. m
      <4>1. a \in 1 .. Len(tasks) /\ tasks'[a] = tasks[a] /\ a <= m
        BY <3>1, <1>4
      <4>. QED BY <4>1
    <3>2. CASE a \in m + 2 .. Len(tasks')
      <4>1. a - 1 \in 1 .. Len(tasks) /\ tasks'[a] = tasks[a - 1] /\ ~(a <= m)
        BY <3>2, <1>2, <1>5, SMTT(30)
      <4>. QED BY <4>1
    <3>. QED BY <2>1, <3>1, <3>2, <1>3
  <2>2. CASE i = m + 1
    <3>1. j # m + 1
      BY <2>2, <1>11
    <3>. QED BY <2>1, <2>2, <3>1, <1>1, <1>11
  <2>3. CASE j = m + 1
    <3>1. i # m + 1
      BY <2>3, <1>11
    <3>. QED BY <2>1, <2>3, <3>1, <1>1, <1>11
  <2>4. CASE i # m + 1 /\ j # m + 1
    <3>1. PICK a \in 1 .. Len(tasks) :
            tasks'[i] = tasks[a] /\ a = IF i <= m THEN i ELSE i - 1
      BY <2>1, <2>4
    <3>2. PICK b \in 1 .. Len(tasks) :
            tasks'[j] = tasks[b] /\ b = IF j <= m THEN j ELSE j - 1
      BY <2>1, <2>4
    <3>3. a # b
      BY <3>1, <3>2, <2>4, <1>11
    <3>. QED BY <3>1, <3>2, <3>3, <1>11
  <2>. QED BY <2>2, <2>3, <2>4
<1>. QED BY <1>1, <1>6, <1>9, <1>10, <1>11

\* A node taken out of the list.
LEMMA RemoveKeeps ==
  ASSUME Typed, Sorted, NEW i \in 1 .. Len(tasks),
         tasks' \in Seq(TNode), Len(tasks') = Len(tasks) - 1,
         \A j \in 1 .. i - 1 : tasks'[j] = tasks[j],
         \A j \in i .. Len(tasks) - 1 : tasks'[j] = tasks[j + 1],
         \A a, b \in 1 .. Len(tasks) : a # b => tasks[a].task # tasks[b].task
  PROVE  /\ Sorted'
         /\ \A j \in 1 .. Len(tasks') :
              tasks'[j].task # tasks[i].task /\ \E a \in 1 .. Len(tasks) : tasks'[j] = tasks[a]
         /\ \A k \in Tasks : Listed(k)' <=> (Listed(k) /\ k # tasks[i].task)
         /\ \A a, b \in 1 .. Len(tasks') : a # b => tasks'[a].task # tasks'[b].task
<1>0. Len(tasks) \in Nat
  BY DEF Typed
<1>1. ASSUME NEW j \in 1 .. Len(tasks')
      PROVE  \E a \in 1 .. Len(tasks) :
               tasks'[j] = tasks[a] /\ a = (IF j < i THEN j ELSE j + 1) /\ a # i
  <2>1. CASE j < i
    <3>1. j \in 1 .. Len(tasks) /\ j # i /\ tasks'[j] = tasks[j]
      BY <2>1, <1>0
    <3>. QED BY <2>1, <3>1
  <2>2. CASE ~(j < i)
    <3>1. j + 1 \in 1 .. Len(tasks) /\ j + 1 # i /\ tasks'[j] = tasks[j + 1]
      BY <2>2, <1>0
    <3>. QED BY <2>2, <3>1
  <2>. QED BY <2>1, <2>2
<1>2. ASSUME NEW a \in 1 .. Len(tasks), a # i
      PROVE  \E j \in 1 .. Len(tasks') : tasks'[j] = tasks[a]
  <2>1. CASE a < i
    <3>1. a \in 1 .. Len(tasks') /\ tasks'[a] = tasks[a]
      BY <2>1, <1>0
    <3>. QED BY <3>1
  <2>2. CASE i < a
    <3>1. a - 1 \in 1 .. Len(tasks') /\ (a - 1) + 1 = a /\ a - 1 \in i .. Len(tasks) - 1
      BY <2>2, <1>0
    <3>2. tasks'[a - 1] = tasks[a]
      BY <3>1
    <3>. QED BY <3>1, <3>2
  <2>. QED BY <1>2, <2>1, <2>2
<1>3. \A j \in 1 .. Len(tasks') :
        tasks'[j].task # tasks[i].task /\ \E a \in 1 .. Len(tasks) : tasks'[j] = tasks[a]
  BY <1>1
<1>4. ASSUME NEW k \in Tasks PROVE Listed(k)' <=> (Listed(k) /\ k # tasks[i].task)
  <2>1. Listed(k)' => Listed(k) /\ k # tasks[i].task
    BY <1>3 DEF Listed
  <2>2. Listed(k) /\ k # tasks[i].task => Listed(k)'
    <3>. SUFFICES ASSUME NEW a \in 1 .. Len(tasks), tasks[a].task = k, k # tasks[i].task
                  PROVE  Listed(k)'
      BY DEF Listed
    <3>. QED BY <1>2 DEF Listed
  <2>. QED BY <2>1, <2>2
<1>5. ASSUME NEW a \in 1 .. Len(tasks'), NEW b \in 1 .. Len(tasks')
      PROVE  \E c, d \in 1 .. Len(tasks) :
               /\ tasks'[a] = tasks[c] /\ tasks'[b] = tasks[d]
               /\ a < b => c < d
               /\ a # b => c # d
  <2>1. PICK c \in 1 .. Len(tasks) : tasks'[a] = tasks[c] /\ c = IF a < i THEN a ELSE a + 1
    BY <1>1
  <2>2. PICK d \in 1 .. Len(tasks) : tasks'[b] = tasks[d] /\ d = IF b < i THEN b ELSE b + 1
    BY <1>1
  <2>3. (a < b => c < d) /\ (a # b => c # d)
    BY <2>1, <2>2
  <2>. QED BY <2>1, <2>2, <2>3
<1>6. Sorted'
  <2>. SUFFICES ASSUME NEW a \in 1 .. Len(tasks'), NEW b \in 1 .. Len(tasks'), a < b
                PROVE  tasks'[a].next <= tasks'[b].next
    BY DEF Sorted
  <2>1. PICK c \in 1 .. Len(tasks), d \in 1 .. Len(tasks) :
          tasks'[a] = tasks[c] /\ tasks'[b] = tasks[d] /\ c < d
    BY <1>5
  <2>. QED BY <2>1 DEF Sorted
<1>7. \A a, b \in 1 .. Len(tasks') : a # b => tasks'[a].task # tasks'[b].task
  <2>. TAKE a, b \in 1 .. Len(tasks')
  <2>1. a # b => \E c, d \in 1 .. Len(tasks) :
                   tasks'[a] = tasks[c] /\ tasks'[b] = tasks[d] /\ c # d
    BY <1>5
  <2>. QED BY <2>1
<1>. QED BY <1>3, <1>4, <1>6, <1>7

-----------------------------------------------------------------------------
(* The steps of timer_schedule and timer_cancel *)

\* The task goes from the hands of its maker into the list.
LEMMA ScheduleStep ==
  ASSUME TimerIInv, NEW t \in Threads, Schedule(t)
  PROVE  TimerIInv'
<1> USE TimerAssumption DEF TimerIInv
<1> DEFINE k == target[t]
           n == [task |-> k, next |-> asked[arg[k]].next, val |-> asked[arg[k]].val]
<1>1. /\ tpc[t] = "schedule" /\ CanLock(lock, t)
      /\ tasks' = Inserted(tasks, n)
      /\ target' = [target EXCEPT ![t] = Null]
      /\ tpc' = [tpc EXCEPT ![t] = IF t = Tmr THEN "callback" ELSE "idle"]
      /\ UNCHANGED <<clock, lock, arg, now, node, created, asked, fired, cancelled>>
  BY DEF Schedule, Return, Goto, ScriptPc, timers
<1>2. k \in Tasks /\ k # Null /\ Makes(t, k)
  BY <1>1 DEF LockIsHeld, Makes
<1>3. /\ arg[k] # 0 /\ arg[k] \in Timers /\ k # node.task
      /\ \A i \in 1 .. Len(tasks) : tasks[i].task # k
      /\ \A u \in Threads : Makes(u, k) => u = t
  BY <1>2 DEF EachInOnePlace, Typed, Timers
<1>4. n \in TNode
  BY <1>2, <1>3 DEF TNode, Typed
<1>5. n.task = k /\ n.val = asked[arg[k]].val /\ n.next = asked[arg[k]].next
  OBVIOUS
<1>. HIDE DEF n
<1>6. /\ tasks' \in Seq(TNode) /\ Sorted'
      /\ \A i \in 1 .. Len(tasks') :
           tasks'[i] = n \/ \E j \in 1 .. Len(tasks) : tasks'[i] = tasks[j]
      /\ \A l \in Tasks : Listed(l)' <=> (Listed(l) \/ l = k)
      /\ \A i, j \in 1 .. Len(tasks') : i # j => tasks'[i].task # tasks'[j].task
  BY <1>1, <1>3, <1>4, <1>5, InsertKeeps DEF EachInOnePlace
<1>7. Typed'
  BY <1>1, <1>6 DEF Typed
<1>8. LockIsHeld'
  BY <1>1 DEF LockIsHeld, Typed, CanLock, Threads
<1>9. NumbersAreNew'
  BY <1>1 DEF NumbersAreNew
<1>10. EachInOnePlace'
  <2>1. \A u \in Threads, l \in Tasks : Makes(u, l)' <=> (Makes(u, l) /\ u # t)
    BY <1>1, <1>2 DEF Makes, Typed
  <2>2. \A l \in Tasks : Makes(t, l) <=> l = k
    BY <1>1 DEF Makes
  <2>3. \A l \in Tasks : arg'[l] # 0 =>
          Listed(l)' \/ node'.task = l \/ \E u \in Threads : Makes(u, l)'
    BY <1>1, <1>6, <2>1, <2>2 DEF EachInOnePlace
  <2>4. \A i \in 1 .. Len(tasks') : arg'[tasks'[i].task] # 0 /\ tasks'[i].task # node'.task
    BY <1>1, <1>3, <1>5, <1>6 DEF EachInOnePlace
  <2>5. \A u \in Threads, l \in Tasks : Makes(u, l)' =>
          /\ arg'[l] # 0 /\ l # node'.task
          /\ \A i \in 1 .. Len(tasks') : tasks'[i].task # l
          /\ \A v \in Threads : Makes(v, l)' => v = u
    <3>. SUFFICES ASSUME NEW u \in Threads, NEW l \in Tasks, Makes(u, l)'
                  PROVE  /\ arg'[l] # 0 /\ l # node'.task
                         /\ \A i \in 1 .. Len(tasks') : tasks'[i].task # l
                         /\ \A v \in Threads : Makes(v, l)' => v = u
      OBVIOUS
    <3>1. Makes(u, l) /\ u # t
      BY <2>1
    <3>2. l # k
      BY <3>1, <1>3
    <3>. QED BY <3>1, <3>2, <2>1, <1>1, <1>5, <1>6 DEF EachInOnePlace
  <2>. QED BY <2>3, <2>4, <2>5, <1>1, <1>6 DEF EachInOnePlace
<1>11. KeptFromRequest'
  <2>1. Kept(n) /\ (n.val = 0 => fired[arg[n.task]] = 0)
    <3>1. fired[arg[k]] = 0 /\ arg[k] \notin cancelled
      BY <1>1 DEF KeptFromRequest
    <3>2. asked[arg[k]].next \in Int
      BY <1>3 DEF Typed
    <3>. QED BY <3>1, <3>2, <1>5 DEF Kept
  <2>2. \A m \in TNode : Kept(m) => Kept(m)'
    BY <1>1 DEF Kept
  <2>3. ASSUME NEW i \in 1 .. Len(tasks')
        PROVE  Kept(tasks[i])' /\ (tasks'[i].val = 0 => fired'[arg'[tasks'[i].task]] = 0)
    <3>1. Kept(tasks'[i]) /\ (tasks'[i].val = 0 => fired[arg[tasks'[i].task]] = 0)
      BY <1>6, <2>1 DEF KeptFromRequest
    <3>. QED BY <3>1, <1>1 DEF Kept
  <2>4. node' # NoNode => Kept(node)' /\ asked'[arg'[node'.task]].next < clock'
    BY <1>1 DEF KeptFromRequest, Kept
  <2>5. \A u \in Threads : tpc'[u] = "schedule" =>
          fired'[arg'[target'[u]]] = 0 /\ arg'[target'[u]] \notin cancelled'
    BY <1>1 DEF KeptFromRequest, Typed
  <2>. QED BY <2>3, <2>4, <2>5 DEF KeptFromRequest
<1>. QED BY <1>6, <1>7, <1>8, <1>9, <1>10, <1>11

\* A task is looked for and none is moved.
LEMMA CancelFindStep ==
  ASSUME TimerIInv, NEW t \in Threads, NEW i \in Timers, CancelFind(t, i)
  PROVE  TimerIInv'
<1> USE TimerAssumption DEF TimerIInv
<1>1. PICK k \in Tasks : target' = [target EXCEPT ![t] = k]
  BY DEF CancelFind
<1>2. /\ tpc[t] = IF t = Tmr THEN "callback" ELSE "idle"
      /\ tpc' = [tpc EXCEPT ![t] = "cancel"]
      /\ UNCHANGED <<clock, lock, tasks, arg, now, node, created, asked, fired, cancelled>>
  BY DEF CancelFind, InScript, ScriptPc, Goto, shared, timers
<1>3. Typed'
  BY <1>1, <1>2 DEF Typed
<1>4. LockIsHeld'
  BY <1>1, <1>2 DEF LockIsHeld, Typed, Threads
<1>5. NumbersAreNew' /\ Sorted'
  BY <1>2 DEF NumbersAreNew, Sorted
<1>6. \A u \in Threads, l \in Tasks : Makes(u, l)' <=> Makes(u, l)
  BY <1>1, <1>2 DEF Makes, Typed
<1>7. EachInOnePlace'
  BY <1>2, <1>6 DEF EachInOnePlace, Listed
<1>8. KeptFromRequest'
  BY <1>1, <1>2 DEF KeptFromRequest, Kept, Typed
<1>. QED BY <1>3, <1>4, <1>5, <1>7, <1>8

\* A task taken out of the list is freed and its number is not used again.
LEMMA CancelStep ==
  ASSUME TimerIInv, NEW t \in Threads, Cancel(t)
  PROVE  TimerIInv'
<1> USE TimerAssumption DEF TimerIInv
<1> DEFINE k == target[t]
<1>1. /\ tpc[t] = "cancel" /\ CanLock(lock, t)
      /\ target' = [target EXCEPT ![t] = Null]
      /\ tpc' = [tpc EXCEPT ![t] = IF t = Tmr THEN "callback" ELSE "idle"]
      /\ UNCHANGED <<clock, lock, now, node, created, asked, fired>>
  BY DEF Cancel, Return, Goto, ScriptPc
<1>2. k \in Tasks
  BY <1>1 DEF LockIsHeld
<1>3. \A u \in Threads, l \in Tasks : Makes(u, l)' <=> Makes(u, l)
  BY <1>1, <1>2 DEF Makes, Typed
<1>4. LockIsHeld'
  BY <1>1 DEF LockIsHeld, Typed, Threads
<1>5. CASE UNCHANGED <<tasks, arg, cancelled>>
  <2>1. Typed'
    BY <1>1, <1>5 DEF Typed
  <2>2. NumbersAreNew' /\ Sorted'
    BY <1>1, <1>5 DEF NumbersAreNew, Sorted
  <2>3. EachInOnePlace'
    BY <1>1, <1>3, <1>5 DEF EachInOnePlace, Listed
  <2>4. KeptFromRequest'
    BY <1>1, <1>5 DEF KeptFromRequest, Kept, Typed
  <2>. QED BY <1>4, <2>1, <2>2, <2>3, <2>4
<1>6. CASE \E i \in 1 .. Len(tasks) :
             /\ tasks[i].task = k
             /\ tasks' = RemoveAt(tasks, i)
             /\ arg' = [arg EXCEPT ![k] = 0]
             /\ cancelled' = cancelled \cup {arg[k]}
  <2>1. PICK i \in 1 .. Len(tasks) :
          /\ tasks[i].task = k
          /\ tasks' = RemoveAt(tasks, i)
          /\ arg' = [arg EXCEPT ![k] = 0]
          /\ cancelled' = cancelled \cup {arg[k]}
    BY <1>6
  <2>2. /\ tasks' \in Seq(TNode) /\ Len(tasks') = Len(tasks) - 1
        /\ \A j \in 1 .. i - 1 : tasks'[j] = tasks[j]
        /\ \A j \in i .. Len(tasks) - 1 : tasks'[j] = tasks[j + 1]
    BY <2>1, RemovedIs DEF Typed
  <2>3. /\ Sorted'
        /\ \A j \in 1 .. Len(tasks') :
             tasks'[j].task # k /\ \E a \in 1 .. Len(tasks) : tasks'[j] = tasks[a]
        /\ \A l \in Tasks : Listed(l)' <=> (Listed(l) /\ l # k)
        /\ \A a, b \in 1 .. Len(tasks') : a # b => tasks'[a].task # tasks'[b].task
    BY <2>1, <2>2, RemoveKeeps, SMTT(30) DEF EachInOnePlace
  <2>4. /\ arg[k] \in Timers /\ k # node.task /\ \A u \in Threads : ~Makes(u, k)
        /\ \A l \in Tasks : arg'[l] = IF l = k THEN 0 ELSE arg[l]
    BY <1>2, <2>1 DEF EachInOnePlace, Typed, Timers
  <2>5. Typed'
    BY <1>1, <1>2, <2>1, <2>2, <2>4 DEF Typed
  <2>6. NumbersAreNew'
    BY <1>1, <1>2, <2>1, <2>4 DEF NumbersAreNew, Typed
  <2>7. \A j \in 1 .. Len(tasks') : tasks'[j].task \in Tasks
    BY <2>3, InList
  <2>8. node # NoNode => node.task \in Tasks
    BY DEF Typed, TNode
  <2>9. EachInOnePlace'
    <3>1. \A l, m \in Tasks : l # m /\ arg'[l] # 0 => arg'[l] # arg'[m]
      BY <2>4 DEF EachInOnePlace
    <3>2. \A l \in Tasks : arg'[l] # 0 =>
            Listed(l)' \/ node'.task = l \/ \E u \in Threads : Makes(u, l)'
      BY <1>1, <1>3, <2>3, <2>4 DEF EachInOnePlace
    <3>3. \A u \in Threads, l \in Tasks : Makes(u, l)' =>
            /\ arg'[l] # 0 /\ l # node'.task
            /\ \A j \in 1 .. Len(tasks') : tasks'[j].task # l
            /\ \A v \in Threads : Makes(v, l)' => v = u
      BY <1>1, <1>3, <2>3, <2>4 DEF EachInOnePlace
    <3>4. \A j \in 1 .. Len(tasks') : arg'[tasks'[j].task] # 0 /\ tasks'[j].task # node'.task
      BY <1>1, <2>3, <2>4, <2>7 DEF EachInOnePlace
    <3>5. node' # NoNode => arg'[node'.task] # 0
      BY <1>1, <2>4, <2>8 DEF EachInOnePlace
    <3>. QED BY <2>3, <3>1, <3>2, <3>3, <3>4, <3>5 DEF EachInOnePlace
  <2>10. KeptFromRequest'
    <3>1. ASSUME NEW l \in Tasks, l # k, arg[l] # 0
          PROVE  arg'[l] = arg[l] /\ (arg[l] \notin cancelled => arg[l] \notin cancelled')
      BY <1>2, <2>1, <2>4, <3>1 DEF EachInOnePlace
    <3>2. ASSUME NEW n \in TNode, n.task # k, arg[n.task] # 0, Kept(n)
          PROVE  Kept(n)' /\ arg'[n.task] = arg[n.task]
      <4>1. n.task \in Tasks
        BY DEF TNode
      <4>. QED BY <1>1, <3>1, <3>2, <4>1 DEF Kept
    <3>3. ASSUME NEW j \in 1 .. Len(tasks')
          PROVE  Kept(tasks[j])' /\ (tasks'[j].val = 0 => fired'[arg'[tasks'[j].task]] = 0)
      <4>1. PICK a \in 1 .. Len(tasks) : tasks'[j] = tasks[a] /\ tasks'[j].task # k
        BY <2>3
      <4>2. /\ tasks[a] \in TNode /\ arg[tasks[a].task] # 0 /\ Kept(tasks[a])
            /\ tasks[a].val = 0 => fired[arg[tasks[a].task]] = 0
        BY InList DEF EachInOnePlace, KeptFromRequest
      <4>3. arg'[tasks[a].task] = arg[tasks[a].task]
        BY <3>2, <4>1, <4>2
      <4>4. /\ tasks'[j].val = asked'[arg'[tasks'[j].task]].val
            /\ \/ asked'[arg'[tasks'[j].task]].next <= tasks'[j].next
               \/ asked'[arg'[tasks'[j].task]].next < clock'
            /\ arg'[tasks'[j].task] \notin cancelled'
        <5>1. tasks[a].task \in Tasks
          BY InList
        <5>2. arg[tasks[a].task] \notin cancelled'
          BY <3>1, <4>1, <4>2, <5>1 DEF Kept
        <5>. QED BY <1>1, <4>1, <4>2, <4>3, <5>2 DEF Kept
      <4>. QED BY <1>1, <4>1, <4>2, <4>3, <4>4 DEF Kept
    <3>4. node' # NoNode => Kept(node)' /\ asked'[arg'[node'.task]].next < clock'
      <4>. SUFFICES ASSUME node # NoNode
                    PROVE  Kept(node)' /\ asked'[arg'[node'.task]].next < clock'
        BY <1>1
      <4>1. node \in TNode /\ node.task \in Tasks /\ node.task # k /\ arg[node.task] # 0
        BY <2>4, <2>8 DEF EachInOnePlace, Typed
      <4>2. Kept(node) /\ asked[arg[node.task]].next < clock
        BY DEF KeptFromRequest
      <4>. QED BY <1>1, <3>1, <4>1, <4>2 DEF Kept
    <3>5. ASSUME NEW u \in Threads, tpc'[u] = "schedule"
          PROVE  fired'[arg'[target'[u]]] = 0 /\ arg'[target'[u]] \notin cancelled'
      <4>1. tpc[u] = "schedule" /\ target'[u] = target[u] /\ target[u] \in Tasks
        BY <1>1, <3>5 DEF Typed, LockIsHeld
      <4>2. Makes(u, target[u])
        BY <4>1 DEF Makes
      <4>3. target[u] # k /\ arg[target[u]] # 0
        BY <4>1, <4>2, <2>4 DEF EachInOnePlace
      <4>. QED BY <1>1, <3>1, <4>1, <4>3 DEF KeptFromRequest
    <3>. QED BY <3>3, <3>4, <3>5 DEF KeptFromRequest
  <2>. QED BY <1>4, <2>3, <2>5, <2>6, <2>9, <2>10
<1>. QED BY <1>5, <1>6 DEF Cancel, shared

-----------------------------------------------------------------------------
(* The steps of timer_thread_run *)

LEMMA LookStep ==
  ASSUME TimerIInv, TimerLook
  PROVE  TimerIInv'
<1> USE TimerAssumption DEF TimerIInv
<1>1. /\ tpc[Tmr] = "idle" /\ now' \in Readings
      /\ tpc' = [tpc EXCEPT ![Tmr] = "wait"]
      /\ UNCHANGED <<clock, lock, tasks, arg, node, target, created, asked, fired, cancelled>>
  BY DEF TimerLook, Goto, shared, timers
<1>2. Typed'
  BY <1>1 DEF Typed, Readings, LongAgo, Threads
<1>3. LockIsHeld'
  BY <1>1 DEF LockIsHeld, Typed, Threads
<1>4. NumbersAreNew' /\ Sorted'
  BY <1>1 DEF NumbersAreNew, Sorted
<1>5. \A u \in Threads, l \in Tasks : Makes(u, l)' <=> Makes(u, l)
  BY <1>1 DEF Makes, Typed
<1>6. EachInOnePlace'
  BY <1>1, <1>5 DEF EachInOnePlace, Listed
<1>7. KeptFromRequest'
  BY <1>1 DEF KeptFromRequest, Kept, Typed
<1>. QED BY <1>2, <1>3, <1>4, <1>6, <1>7

LEMMA WakeStep ==
  ASSUME TimerIInv, TimerWake
  PROVE  TimerIInv'
<1> USE TimerAssumption DEF TimerIInv
<1>1. /\ tpc[Tmr] = "wait" /\ lock' = LockedBy(lock, Tmr)
      /\ tpc' = [tpc EXCEPT ![Tmr] = "scan"]
      /\ UNCHANGED <<clock, now, tasks, arg, node, target, created, asked, fired, cancelled>>
  BY DEF TimerWake, Goto, shared, timers
<1>2. Typed'
  BY <1>1 DEF Typed
<1>3. LockIsHeld'
  BY <1>1 DEF LockIsHeld, Typed, Threads, LockedBy, Unlocked
<1>4. NumbersAreNew' /\ Sorted'
  BY <1>1 DEF NumbersAreNew, Sorted
<1>5. \A u \in Threads, l \in Tasks : Makes(u, l)' <=> Makes(u, l)
  BY <1>1 DEF Makes, Typed
<1>6. EachInOnePlace'
  BY <1>1, <1>5 DEF EachInOnePlace, Listed
<1>7. KeptFromRequest'
  BY <1>1 DEF KeptFromRequest, Kept, Typed
<1>. QED BY <1>2, <1>3, <1>4, <1>6, <1>7

LEMMA UnlockStep ==
  ASSUME TimerIInv, TimerUnlock
  PROVE  TimerIInv'
<1> USE TimerAssumption DEF TimerIInv
<1>1. /\ tpc[Tmr] = "scan" /\ lock' = Released(lock) /\ now' = 0
      /\ tpc' = [tpc EXCEPT ![Tmr] = "idle"]
      /\ UNCHANGED <<clock, tasks, arg, node, target, created, asked, fired, cancelled>>
  BY DEF TimerUnlock, Goto, shared, timers
<1>2. Typed'
  <2>1. now' \in Int /\ now' <= clock' /\ clock' \in Nat
    BY <1>1 DEF Typed
  <2>2. tpc' \in [Threads -> {"idle", "wait", "scan", "callback", "schedule", "cancel"}]
    BY <1>1 DEF Typed
  <2>. QED BY <1>1, <2>1, <2>2 DEF Typed
<1>3. LockIsHeld'
  BY <1>1 DEF LockIsHeld, Typed, Threads, Released, Unlocked
<1>4. NumbersAreNew' /\ Sorted'
  BY <1>1 DEF NumbersAreNew, Sorted
<1>5. \A u \in Threads, l \in Tasks : Makes(u, l)' <=> Makes(u, l)
  BY <1>1 DEF Makes, Typed
<1>6. EachInOnePlace'
  BY <1>1, <1>5 DEF EachInOnePlace, Listed
<1>7. KeptFromRequest'
  BY <1>1 DEF KeptFromRequest, Kept, Typed
<1>. QED BY <1>2, <1>3, <1>4, <1>6, <1>7

\* The first node leaves the list for its callback. It is due, so that its timer's
\* time has come.
LEMMA FireStep ==
  ASSUME TimerIInv, TimerFire
  PROVE  TimerIInv' /\ LET i == arg[tasks[1].task] IN
           /\ tasks[1] \in TNode /\ i \in Timers
           /\ fired' = [fired EXCEPT ![i] = IF @ = 2 THEN 2 ELSE @ + 1]
           /\ clock > asked[i].next /\ i \notin cancelled
           /\ asked[i].val = 0 => fired[i] = 0
<1> USE TimerAssumption DEF TimerIInv
<1> DEFINE n == tasks[1]  i == arg[n.task]
<1>1. /\ tpc[Tmr] = "scan" /\ tasks # << >> /\ Head(tasks).next < now
      /\ node' = Head(tasks) /\ tasks' = Tail(tasks)
      /\ fired' = [fired EXCEPT ![arg[Head(tasks).task]] = IF @ = 2 THEN 2 ELSE @ + 1]
      /\ tpc' = [tpc EXCEPT ![Tmr] = "callback"]
      /\ UNCHANGED <<clock, lock, arg, now, target, created, asked, cancelled>>
  BY DEF TimerFire, FirstIsDue, Goto
<1>2. /\ tasks' \in Seq(TNode) /\ Len(tasks') = Len(tasks) - 1 /\ Len(tasks) >= 1
      /\ Head(tasks) = n /\ n \in TNode
      /\ \A j \in 1 .. Len(tasks) - 1 : tasks'[j] = tasks[j + 1]
  BY <1>1, TailIs DEF Typed
<1>3. 1 \in 1 .. Len(tasks)
  BY <1>2 DEF Typed
<1>4. /\ Sorted'
      /\ \A j \in 1 .. Len(tasks') :
           tasks'[j].task # n.task /\ \E a \in 1 .. Len(tasks) : tasks'[j] = tasks[a]
      /\ \A l \in Tasks : Listed(l)' <=> (Listed(l) /\ l # n.task)
      /\ \A a, b \in 1 .. Len(tasks') : a # b => tasks'[a].task # tasks'[b].task
  <2>1. \A a, b \in 1 .. Len(tasks) : a # b => tasks[a].task # tasks[b].task
    BY DEF EachInOnePlace
  <2>2. \A j \in 1 .. 1 - 1 : tasks'[j] = tasks[j]
    OBVIOUS
  <2>. QED BY <1>2, <1>3, <2>1, <2>2, RemoveKeeps
<1>5. n.task \in Tasks /\ n.next \in Int /\ n # NoNode
  BY <1>2 DEF TNode, NoNode
<1>6. i \in Timers /\ i # 0 /\ n.task # node.task
  BY <1>3, <1>5 DEF EachInOnePlace, Typed, Timers
<1>7. Kept(n) /\ (n.val = 0 => fired[i] = 0)
  BY <1>3 DEF KeptFromRequest
<1>8. /\ clock > asked[i].next /\ i \notin cancelled
      /\ asked[i].val = 0 => fired[i] = 0
  <2>1. n.next < clock
    BY <1>1, <1>2, <1>5 DEF Typed
  <2>2. asked[i].next \in Int
    BY <1>6 DEF Typed
  <2>. QED BY <1>5, <1>7, <2>1, <2>2, SMTT(30) DEF Kept, Typed
<1>9. fired' = [fired EXCEPT ![i] = IF @ = 2 THEN 2 ELSE @ + 1]
  BY <1>1, <1>2
<1>10. node = NoNode
  BY <1>1 DEF LockIsHeld
<1>11. fired' \in [Timers -> 0 .. 2] /\ \A l \in Timers : l # i => fired'[l] = fired[l]
  <2>1. fired \in [Timers -> 0 .. 2]
    BY DEF Typed
  <2>2. (IF fired[i] = 2 THEN 2 ELSE fired[i] + 1) \in 0 .. 2
    BY <1>6, <2>1
  <2>. QED BY <1>6, <1>9, <2>1, <2>2
<1>12. Typed'
  BY <1>1, <1>2, <1>11 DEF Typed
<1>13. LockIsHeld'
  BY <1>1, <1>2, <1>5 DEF LockIsHeld, Typed, Threads
<1>14. NumbersAreNew'
  <2>1. i <= created
    BY <1>5 DEF NumbersAreNew
  <2>2. \A l \in Timers : l > created => l # i
    BY <2>1, <1>6, SMTT(30) DEF Typed, Timers
  <2>. QED BY <1>1, <1>11, <2>2 DEF NumbersAreNew
<1>15. \A u \in Threads, l \in Tasks : Makes(u, l)' <=> Makes(u, l)
  BY <1>1 DEF Makes, Typed
<1>16. \A u \in Threads : ~Makes(u, n.task)
  BY <1>3, <1>5 DEF EachInOnePlace
<1>17. EachInOnePlace'
  <2>1. \A l \in Tasks : arg'[l] # 0 =>
          Listed(l)' \/ node'.task = l \/ \E u \in Threads : Makes(u, l)'
    <3>1. \A l \in Tasks : l # node.task
      BY <1>10 DEF NoNode
    <3>. QED BY <1>1, <1>2, <1>4, <1>15, <3>1 DEF EachInOnePlace
  <2>2. \A u \in Threads, l \in Tasks : Makes(u, l)' =>
          /\ arg'[l] # 0 /\ l # node'.task
          /\ \A j \in 1 .. Len(tasks') : tasks'[j].task # l
          /\ \A v \in Threads : Makes(v, l)' => v = u
    BY <1>1, <1>2, <1>4, <1>15, <1>16 DEF EachInOnePlace
  <2>3. \A j \in 1 .. Len(tasks') : arg'[tasks'[j].task] # 0 /\ tasks'[j].task # node'.task
    BY <1>1, <1>2, <1>4 DEF EachInOnePlace
  <2>4. node' # NoNode => arg'[node'.task] # 0
    BY <1>1, <1>2, <1>6
  <2>. QED BY <1>1, <1>4, <2>1, <2>2, <2>3, <2>4 DEF EachInOnePlace
<1>18. KeptFromRequest'
  <2>1. ASSUME NEW l \in Tasks, l # n.task, arg[l] # 0
        PROVE  fired'[arg[l]] = fired[arg[l]]
    <3>1. arg[l] # i
      BY <1>5, <2>1 DEF EachInOnePlace
    <3>2. arg[l] \in Timers
      BY <2>1 DEF Typed, Timers
    <3>. QED BY <1>11, <3>1, <3>2
  <2>2. ASSUME NEW j \in 1 .. Len(tasks')
        PROVE  Kept(tasks[j])' /\ (tasks'[j].val = 0 => fired'[arg'[tasks'[j].task]] = 0)
    <3>1. PICK a \in 1 .. Len(tasks) : tasks'[j] = tasks[a] /\ tasks'[j].task # n.task
      BY <1>4
    <3>2. /\ tasks[a].task \in Tasks /\ arg[tasks[a].task] # 0 /\ Kept(tasks[a])
          /\ tasks[a].val = 0 => fired[arg[tasks[a].task]] = 0
      BY InList DEF EachInOnePlace, KeptFromRequest
    <3>. QED BY <1>1, <2>1, <3>1, <3>2 DEF Kept
  <2>3. Kept(node)' /\ asked'[arg'[node'.task]].next < clock'
    <3>1. asked[i].next < clock
      BY <1>6, <1>8 DEF Typed
    <3>. QED BY <1>1, <1>2, <1>7, <3>1 DEF Kept
  <2>4. ASSUME NEW u \in Threads, tpc'[u] = "schedule"
        PROVE  fired'[arg'[target'[u]]] = 0 /\ arg'[target'[u]] \notin cancelled'
    <3>1. tpc[u] = "schedule" /\ target'[u] = target[u] /\ target[u] \in Tasks
      BY <1>1, <2>4 DEF Typed, LockIsHeld
    <3>2. Makes(u, target[u])
      BY <3>1 DEF Makes
    <3>3. target[u] # n.task /\ arg[target[u]] # 0
      BY <3>1, <3>2, <1>16 DEF EachInOnePlace
    <3>. QED BY <1>1, <2>1, <3>1, <3>3 DEF KeptFromRequest
  <2>. QED BY <2>2, <2>3, <2>4 DEF KeptFromRequest
<1>. QED BY <1>2, <1>4, <1>6, <1>8, <1>9, <1>12, <1>13, <1>14, <1>17, <1>18

\* The task whose callback has returned is freed.
LEMMA FreeStep ==
  ASSUME TimerIInv, TimerFree
  PROVE  TimerIInv'
<1> USE TimerAssumption DEF TimerIInv
<1>1. /\ tpc[Tmr] = "callback" /\ arg' = [arg EXCEPT ![node.task] = 0] /\ node' = NoNode
      /\ tpc' = [tpc EXCEPT ![Tmr] = "scan"]
      /\ UNCHANGED <<clock, lock, tasks, now, target, created, asked, fired, cancelled>>
  BY DEF TimerFree, Goto, timers
<1>2. node # NoNode /\ node \in TNode /\ node.task \in Tasks /\ node.task # Null
  BY <1>1 DEF LockIsHeld, Typed, TNode
<1>3. \A l \in Tasks : arg'[l] = IF l = node.task THEN 0 ELSE arg[l]
  BY <1>1 DEF Typed
<1>4. Typed'
  <2>1. arg' \in [Tasks -> 0 .. MaxTimers]
    BY <1>1, <1>2 DEF Typed
  <2>2. tpc' \in [Threads -> {"idle", "wait", "scan", "callback", "schedule", "cancel"}]
    BY <1>1 DEF Typed
  <2>. QED BY <1>1, <2>1, <2>2 DEF Typed
<1>5. LockIsHeld'
  BY <1>1 DEF LockIsHeld, Typed, Threads
<1>6. NumbersAreNew' /\ Sorted'
  BY <1>1, <1>3 DEF NumbersAreNew, Sorted, Typed
<1>7. \A u \in Threads, l \in Tasks : Makes(u, l)' <=> Makes(u, l)
  BY <1>1 DEF Makes, Typed
<1>8. \A i \in 1 .. Len(tasks) :
        /\ tasks[i].task \in Tasks /\ tasks[i].task # node.task /\ tasks[i].task # Null
        /\ arg'[tasks[i].task] = arg[tasks[i].task]
  BY <1>3, InList DEF EachInOnePlace
<1>9. EachInOnePlace'
  <2>1. \A l \in Tasks : Listed(l)' <=> Listed(l)
    BY <1>1 DEF Listed
  <2>2. \A l \in Tasks : arg'[l] # 0 =>
          Listed(l)' \/ node'.task = l \/ \E u \in Threads : Makes(u, l)'
    BY <1>3, <1>7, <2>1 DEF EachInOnePlace
  <2>3. \A u \in Threads, l \in Tasks : Makes(u, l)' =>
          /\ arg'[l] # 0 /\ l # node'.task
          /\ \A j \in 1 .. Len(tasks') : tasks'[j].task # l
          /\ \A v \in Threads : Makes(v, l)' => v = u
    BY <1>1, <1>3, <1>7 DEF EachInOnePlace, NoNode
  <2>4. \A j \in 1 .. Len(tasks') : arg'[tasks'[j].task] # 0 /\ tasks'[j].task # node'.task
    BY <1>1, <1>8 DEF EachInOnePlace, NoNode
  <2>5. \A l, m \in Tasks : l # m /\ arg'[l] # 0 => arg'[l] # arg'[m]
    BY <1>3 DEF EachInOnePlace
  <2>6. \A i, j \in 1 .. Len(tasks') : i # j => tasks'[i].task # tasks'[j].task
    BY <1>1 DEF EachInOnePlace
  <2>. QED BY <1>1, <2>2, <2>3, <2>4, <2>5, <2>6 DEF EachInOnePlace
<1>10. KeptFromRequest'
  <2>1. \A i \in 1 .. Len(tasks') :
          Kept(tasks[i])' /\ (tasks'[i].val = 0 => fired'[arg'[tasks'[i].task]] = 0)
    BY <1>1, <1>8 DEF KeptFromRequest, Kept
  <2>2. ASSUME NEW u \in Threads, tpc'[u] = "schedule"
        PROVE  fired'[arg'[target'[u]]] = 0 /\ arg'[target'[u]] \notin cancelled'
    <3>1. tpc[u] = "schedule" /\ target'[u] = target[u] /\ target[u] \in Tasks
      BY <1>1, <2>2 DEF Typed, LockIsHeld
    <3>2. target[u] # node.task
      BY <3>1 DEF EachInOnePlace, Makes
    <3>. QED BY <1>1, <1>3, <3>1, <3>2 DEF KeptFromRequest
  <2>. QED BY <1>1, <2>1, <2>2 DEF KeptFromRequest
<1>. QED BY <1>4, <1>5, <1>6, <1>9, <1>10

\* When a repeated task is due again is a time, and a task that has fired was due.
LEMMA NextTimeIs ==
  ASSUME Typed, node \in TNode, NEW r \in Readings
  PROVE  NextTime(r) \in Int
<1>1. r \in Int /\ node.next \in Int /\ node.val \in Int
  BY TimerAssumption DEF Readings, LongAgo, Typed, TNode
<1>2. ASSUME NEW x \in Int PROVE MillSecond(x) \in Int
  <2>1. \A y \in Int : y % Second \in Int
    BY TimerAssumption
  <2>. QED BY <2>1 DEF MillSecond
<1>3. r + node.val \in Int /\ node.next + node.val \in Int
  BY <1>1
<1>. QED BY <1>2, <1>3 DEF NextTime

\* The node goes back into the list, its next time computed anew.
LEMMA RepeatStep ==
  ASSUME TimerIInv, TimerRepeat
  PROVE  TimerIInv'
<1> USE TimerAssumption DEF TimerIInv
<1>1. PICK r \in Readings : tasks' = Inserted(tasks, [node EXCEPT !.next = NextTime(r)])
  BY DEF TimerRepeat
<1> DEFINE n == [node EXCEPT !.next = NextTime(r)]
<1>2. /\ tpc[Tmr] = "callback" /\ node.val > 0 /\ node' = NoNode
      /\ tasks' = Inserted(tasks, n)
      /\ tpc' = [tpc EXCEPT ![Tmr] = "scan"]
      /\ UNCHANGED <<clock, lock, arg, now, target, created, asked, fired, cancelled>>
  BY <1>1 DEF TimerRepeat, Goto, timers
<1>3. node # NoNode /\ node \in TNode /\ node.task \in Tasks /\ node.task # Null
  BY <1>2 DEF LockIsHeld, Typed, TNode
<1>4. /\ n \in TNode /\ n.task = node.task /\ n.val = node.val
      /\ n.next = NextTime(r) /\ n.val # 0
  BY <1>2, <1>3, NextTimeIs DEF TNode
<1>. HIDE DEF n
<1>5. \A i \in 1 .. Len(tasks) : tasks[i].task # n.task
  BY <1>4 DEF EachInOnePlace
<1>6. /\ tasks' \in Seq(TNode) /\ Sorted'
      /\ \A i \in 1 .. Len(tasks') :
           tasks'[i] = n \/ \E j \in 1 .. Len(tasks) : tasks'[i] = tasks[j]
      /\ \A l \in Tasks : Listed(l)' <=> (Listed(l) \/ l = n.task)
      /\ \A i, j \in 1 .. Len(tasks') : i # j => tasks'[i].task # tasks'[j].task
  BY <1>2, <1>4, <1>5, InsertKeeps DEF EachInOnePlace
<1>7. Typed'
  <2>1. tpc' \in [Threads -> {"idle", "wait", "scan", "callback", "schedule", "cancel"}]
    BY <1>2 DEF Typed
  <2>. QED BY <1>2, <1>6, <2>1 DEF Typed
<1>8. LockIsHeld'
  BY <1>2 DEF LockIsHeld, Typed, Threads
<1>9. NumbersAreNew'
  BY <1>2 DEF NumbersAreNew
<1>10. \A u \in Threads, l \in Tasks : Makes(u, l)' <=> Makes(u, l)
  BY <1>2 DEF Makes, Typed
<1>11. \A i \in 1 .. Len(tasks') : tasks'[i].task # Null
  BY <1>3, <1>4, <1>6, InList
<1>12. \A u \in Threads : ~Makes(u, n.task)
  BY <1>3, <1>4 DEF EachInOnePlace
<1>13. arg[n.task] # 0
  BY <1>3, <1>4 DEF EachInOnePlace
<1>14. EachInOnePlace'
  <2>1. \A l \in Tasks : arg'[l] # 0 =>
          Listed(l)' \/ node'.task = l \/ \E u \in Threads : Makes(u, l)'
    BY <1>2, <1>4, <1>6, <1>10 DEF EachInOnePlace
  <2>2. \A u \in Threads, l \in Tasks : Makes(u, l)' =>
          /\ arg'[l] # 0 /\ l # node'.task
          /\ \A j \in 1 .. Len(tasks') : tasks'[j].task # l
          /\ \A v \in Threads : Makes(v, l)' => v = u
    BY <1>2, <1>6, <1>10, <1>12 DEF EachInOnePlace, NoNode
  <2>3. \A j \in 1 .. Len(tasks') : arg'[tasks'[j].task] # 0 /\ tasks'[j].task # node'.task
    BY <1>2, <1>6, <1>11, <1>13 DEF EachInOnePlace, NoNode
  <2>. QED BY <1>2, <1>6, <2>1, <2>2, <2>3 DEF EachInOnePlace
<1>15. KeptFromRequest'
  <2>1. asked[arg[node.task]].next < clock
    BY <1>3 DEF KeptFromRequest
  <2>2. Kept(n)
    BY <1>3, <1>4, <2>1 DEF KeptFromRequest, Kept
  <2>3. \A i \in 1 .. Len(tasks') :
          Kept(tasks'[i]) /\ (tasks'[i].val = 0 => fired[arg[tasks'[i].task]] = 0)
    BY <1>4, <1>6, <2>2 DEF KeptFromRequest
  <2>4. \A i \in 1 .. Len(tasks') :
          Kept(tasks[i])' /\ (tasks'[i].val = 0 => fired'[arg'[tasks'[i].task]] = 0)
    BY <1>2, <2>3 DEF Kept
  <2>5. \A u \in Threads : tpc'[u] = "schedule" =>
          fired'[arg'[target'[u]]] = 0 /\ arg'[target'[u]] \notin cancelled'
    BY <1>2 DEF KeptFromRequest, Typed
  <2>. QED BY <1>2, <2>4, <2>5 DEF KeptFromRequest
<1>. QED BY <1>6, <1>7, <1>8, <1>9, <1>14, <1>15

-----------------------------------------------------------------------------
(* The theorems *)

LEMMA NextTimerIInv == TimerIInv /\ [TimerNext]_timerVars => TimerIInv'
<1> SUFFICES ASSUME TimerIInv, [TimerNext]_timerVars PROVE TimerIInv'
  OBVIOUS
<1>1. CASE Tick
  BY <1>1, TickStep
<1>2. CASE TimerLook
  BY <1>2, LookStep
<1>3. CASE TimerWake
  BY <1>3, WakeStep
<1>4. CASE TimerFire
  BY <1>4, FireStep
<1>5. CASE TimerFree
  BY <1>5, FreeStep
<1>6. CASE TimerRepeat
  BY <1>6, RepeatStep
<1>7. CASE TimerUnlock
  BY <1>7, UnlockStep
<1>8. ASSUME NEW t \in Threads, Schedule(t) PROVE TimerIInv'
  BY <1>8, ScheduleStep
<1>9. ASSUME NEW t \in Threads, Cancel(t) PROVE TimerIInv'
  BY <1>9, CancelStep
<1>10. ASSUME NEW t \in Threads, ScriptStep(t) PROVE TimerIInv'
  BY <1>10, CreateStep, CancelFindStep DEF ScriptStep
<1>11. CASE UNCHANGED timerVars
  <2>1. UNCHANGED <<clock, lock, tasks, arg, now, node, tpc, target, created, asked,
                    fired, cancelled>>
    BY <1>11 DEF timerVars, shared, timers
  <2>2. Typed' /\ LockIsHeld' /\ NumbersAreNew' /\ Sorted'
    BY <2>1 DEF TimerIInv, Typed, LockIsHeld, NumbersAreNew, Sorted
  <2>3. EachInOnePlace'
    BY <2>1 DEF TimerIInv, EachInOnePlace, Listed, Makes
  <2>4. KeptFromRequest'
    BY <2>1 DEF TimerIInv, KeptFromRequest, Kept
  <2>. QED BY <2>2, <2>3, <2>4 DEF TimerIInv
<1>. QED BY <1>1, <1>2, <1>3, <1>4, <1>5, <1>6, <1>7, <1>8, <1>9, <1>10, <1>11
     DEF TimerNext, TmrStep, Threads

\* The inductive invariant of the timer.  (timer_schedule, timer_cancel,
\* timer_thread_run)
THEOREM TimerInvariant == TimerSpec => []TimerIInv
<1>. QED BY InitTimerIInv, NextTimerIInv, PTL DEF TimerSpec

\* The list is sorted by due time, whatever callbacks and other threads do to it.
\* (timer_schedule)
THEOREM TimerSorted == TimerSpec => []Sorted
<1>1. TimerIInv => Sorted
  BY DEF TimerIInv
<1>. QED BY <1>1, TimerInvariant, PTL

\* Place by place, a task in use is in exactly one.
LEMMA OnePlaceEach == TimerIInv => TasksOwnedOnce
<1> SUFFICES ASSUME TimerIInv PROVE TasksOwnedOnce
  OBVIOUS
<1> USE TimerAssumption DEF TimerIInv
<1>1. ASSUME NEW k \in Tasks
      PROVE  LET running == node.task = k
                 makers == {t \in Threads : tpc[t] = "schedule" /\ target[t] = k}
             IN IF arg[k] = 0 THEN ~Listed(k) /\ ~running /\ makers = {}
                ELSE IF makers # {} THEN ~Listed(k) /\ ~running /\ \E t \in Threads : makers = {t}
                ELSE Listed(k) # running
  <2> DEFINE makers == {t \in Threads : tpc[t] = "schedule" /\ target[t] = k}
  <2>1. \A t \in Threads : t \in makers <=> Makes(t, k)
    BY DEF Makes
  <2>2. node.task = k => node # NoNode
    BY DEF NoNode
  <2>3. CASE arg[k] = 0
    <3>1. ~Listed(k) /\ node.task # k /\ makers = {}
      BY <2>1, <2>2, <2>3 DEF EachInOnePlace, Listed
    <3>. QED BY <2>3, <3>1
  <2>4. CASE arg[k] # 0 /\ makers # {}
    <3>1. PICK t \in Threads : t \in makers
      BY <2>4
    <3>2. makers = {t} /\ ~Listed(k) /\ node.task # k
      BY <2>1, <3>1 DEF EachInOnePlace, Listed
    <3>. QED BY <2>4, <3>2
  <2>5. CASE arg[k] # 0 /\ makers = {}
    <3>1. Listed(k) \/ node.task = k
      BY <2>1, <2>5 DEF EachInOnePlace
    <3>2. ~(Listed(k) /\ node.task = k)
      BY DEF EachInOnePlace, Listed
    <3>3. Listed(k) \in BOOLEAN
      BY DEF Listed
    <3>. QED BY <2>5, <3>1, <3>2, <3>3
  <2>. QED BY <2>3, <2>4, <2>5
<1>. QED BY <1>1 DEF TasksOwnedOnce, EachInOnePlace

\* No task is in two places, none is lost, and no freed one is called.
\* (timer_schedule, timer_cancel, timer_thread_run)
THEOREM TimerTasksOwnedOnce == TimerSpec => []TasksOwnedOnce
<1>. QED BY OnePlaceEach, TimerInvariant, PTL

\* A timer fires after the time its creator has computed, once if it is to fire
\* once, and not after it was cancelled.  (timer_thread_run, timer_cancel)
THEOREM TimerFiresAsAsked == TimerSpec => FiresAsAsked
<1>1. TimerIInv /\ [TimerNext]_timerVars =>
        [\A i \in Timers :
           fired'[i] # fired[i] =>
             /\ clock > asked[i].next /\ i \notin cancelled
             /\ asked[i].val = 0 => fired[i] = 0]_timerVars
  <2> SUFFICES ASSUME TimerIInv, TimerNext, NEW i \in Timers, fired'[i] # fired[i]
               PROVE  /\ clock > asked[i].next /\ i \notin cancelled
                      /\ asked[i].val = 0 => fired[i] = 0
    OBVIOUS
  <2>1. CASE TimerFire
    <3>1. fired \in [Timers -> 0 .. 2]
      BY DEF TimerIInv, Typed
    <3>. QED BY <2>1, <3>1, FireStep
  <2>2. CASE ~TimerFire
    <3>1. fired' = fired
      BY <2>2 DEF TimerNext, TmrStep, ScriptStep, Tick, TimerLook, TimerWake, TimerFree,
                  TimerRepeat, TimerUnlock, Schedule, Cancel, Create, CancelFind, timers
    <3>. QED BY <3>1
  <2>. QED BY <2>1, <2>2
<1>. QED BY <1>1, TimerInvariant, PTL DEF TimerSpec, FiresAsAsked

-----------------------------------------------------------------------------
(* Times stay in bounds *)

\* Whatever is due, in the list, running or asked for, is due at a time that can be;
\* a task runs because it was due before the time the thread has noted.
InBounds ==
  /\ clock \in StartTime .. EndTime /\ now \in (StartTime .. clock) \cup {LongAgo, 0}
  /\ \A i \in 1 .. Len(tasks) : tasks[i] \in Node
  /\ node # NoNode => node \in Node /\ node.next < now
  /\ \A i \in 1 .. created : asked[i] \in [next : DueTimes, val : Periods]
  /\ \A i \in Timers : i > created => asked[i] = [next |-> 0, val |-> 0]

TimerBounds == TimerIInv /\ InBounds

LEMMA TimesAreNumbers == DueTimes \subseteq Int /\ Periods \subseteq Nat /\ \A x \in Periods : x < AgesAgo
BY TimerAssumption DEF DueTimes, LongAgo

LEMMA NextTimeInBounds ==
  ASSUME TimerIInv, InBounds, node # NoNode, NEW r \in Readings
  PROVE  NextTime(r) \in DueTimes
<1>1. /\ Second \in Nat \ {0} /\ AgesAgo \in Nat /\ EndTime \in Nat /\ StartTime \in Nat
      /\ Second <= StartTime /\ StartTime <= EndTime
  BY TimerAssumption
<1>2. /\ node.val \in Periods /\ node.val \in Nat /\ node.val < AgesAgo
      /\ node.next \in DueTimes /\ node.next \in Int /\ node.next < now
  <2>1. node.val \in Periods /\ node.next \in DueTimes /\ node.next < now
    BY DEF InBounds, Node
  <2>. QED BY <2>1, TimesAreNumbers
<1>3. /\ clock \in Nat /\ clock <= EndTime /\ now \in Int /\ now <= clock
      /\ r \in Int /\ r <= EndTime /\ -AgesAgo <= r
  <2>1. clock \in Nat /\ clock <= EndTime /\ now \in Int /\ now <= clock
    BY <1>1 DEF InBounds, TimerIInv, Typed
  <2>. QED BY <1>1, <2>1 DEF Readings, LongAgo
<1>4. ASSUME NEW x \in Int, -AgesAgo <= x, x <= EndTime + AgesAgo
      PROVE  MillSecond(x) \in DueTimes
  <2>1. \A y \in Nat : y % Second \in 0 .. Second - 1 /\ y % Second <= y
    BY <1>1
  <2>2. CASE x >= 0
    <3>1. x % Second \in Nat /\ x % Second <= x
      BY <2>1, <2>2
    <3>. QED BY <1>1, <1>4, <2>2, <3>1 DEF MillSecond, DueTimes, LongAgo
  <2>3. CASE ~(x >= 0)
    <3>1. (-x) % Second \in Nat /\ (-x) % Second <= Second
      BY <1>1, <2>1, <2>3
    <3>2. -((-x) % Second) \in DueTimes
      BY <1>1, <3>1 DEF DueTimes, LongAgo
    <3>. QED BY <2>3, <3>2 DEF MillSecond
  <2>. QED BY <2>2, <2>3
<1>5. CASE node.next + node.val < now
  <2>1. r + node.val \in Int /\ -AgesAgo <= r + node.val /\ r + node.val <= EndTime + AgesAgo
    BY <1>1, <1>2, <1>3
  <2>. QED BY <1>4, <1>5, <2>1 DEF NextTime
<1>6. CASE ~(node.next + node.val < now)
  <2>1. node.next + node.val \in DueTimes
    BY <1>1, <1>2, <1>3 DEF DueTimes, LongAgo
  <2>. QED BY <1>6, <2>1 DEF NextTime
<1>. QED BY <1>5, <1>6

\* A node that goes into the list within bounds.
LEMMA InsertInBounds ==
  ASSUME TimerIInv, InBounds, NEW n \in Node, tasks' = Inserted(tasks, n)
  PROVE  \A i \in 1 .. Len(tasks') : tasks'[i] \in Node
<1>1. n \in TNode
  BY TimesAreNumbers DEF Node, TNode
<1>2. \A i \in 1 .. Len(tasks') : tasks'[i] = n \/ \E j \in 1 .. Len(tasks) : tasks'[i] = tasks[j]
  BY <1>1, InsertKeeps DEF TimerIInv
<1>. QED BY <1>2 DEF InBounds

LEMMA InitInBounds == TimerInit => InBounds
<1> SUFFICES ASSUME TimerInit PROVE InBounds
  OBVIOUS
<1>1. clock \in StartTime .. EndTime /\ now = 0
  BY TimerAssumption DEF TimerInit
<1>2. Len(tasks) = 0 /\ node = NoNode /\ created = 0 /\ \A i \in Timers : asked[i] = [next |-> 0, val |-> 0]
  BY DEF TimerInit
<1>. QED BY <1>1, <1>2 DEF InBounds

\* The clock, and what the timer thread notes of it.
LEMMA ClockInBounds ==
  ASSUME TimerIInv, InBounds, Tick \/ TimerLook \/ TimerWake \/ TimerUnlock PROVE InBounds'
<1>1. UNCHANGED <<tasks, node, created, asked>>
  BY DEF Tick, TimerLook, TimerWake, TimerUnlock, shared, timers
<1>2. clock' \in StartTime .. EndTime /\ now' \in (StartTime .. clock') \cup {LongAgo, 0}
  <2>1. StartTime \in Nat /\ EndTime \in Nat
    BY TimerAssumption
  <2>. QED BY <2>1 DEF InBounds, Tick, TimerLook, TimerWake, TimerUnlock, Readings
<1>3. node' # NoNode => now' = now
  BY <1>1 DEF Tick, TimerLook, TimerWake, TimerUnlock, TimerIInv, LockIsHeld
<1>. QED BY <1>1, <1>2, <1>3 DEF InBounds, Node, DueTimes, LongAgo

\* The first task runs, or has run.
LEMMA CallbackInBounds ==
  ASSUME TimerIInv, InBounds, TimerFire \/ TimerFree \/ TimerRepeat PROVE InBounds'
<1>1. UNCHANGED <<clock, now, created, asked>>
  BY DEF TimerFire, TimerFree, TimerRepeat, timers
<1>2. CASE TimerFire
  <2>1. tasks \in Seq(TNode) /\ tasks # << >> /\ Head(tasks).next < now
        /\ node' = Head(tasks) /\ tasks' = Tail(tasks)
    BY <1>2 DEF TimerFire, FirstIsDue, TimerIInv, Typed
  <2>2. /\ Len(tasks') = Len(tasks) - 1 /\ Len(tasks) >= 1 /\ Head(tasks) = tasks[1]
        /\ \A j \in 1 .. Len(tasks) - 1 : tasks'[j] = tasks[j + 1]
    BY <2>1, TailIs
  <2>3. Len(tasks) \in Nat
    BY <2>1
  <2>4. node' \in Node /\ node'.next < now'
    BY <1>1, <2>1, <2>2, <2>3 DEF InBounds
  <2>5. \A j \in 1 .. Len(tasks') : tasks'[j] \in Node
    <3>1. \A j \in 1 .. Len(tasks) - 1 : j + 1 \in 1 .. Len(tasks)
      BY <2>3
    <3>. QED BY <2>2, <3>1 DEF InBounds
  <2>. QED BY <1>1, <2>4, <2>5 DEF InBounds, Node, DueTimes, LongAgo
<1>3. CASE TimerFree
  BY <1>1, <1>3 DEF TimerFree, InBounds, Node, DueTimes, LongAgo
<1>4. CASE TimerRepeat
  <2>1. PICK r \in Readings : tasks' = Inserted(tasks, [node EXCEPT !.next = NextTime(r)])
    BY <1>4 DEF TimerRepeat
  <2>2. node' = NoNode /\ node # NoNode
    BY <1>4 DEF TimerRepeat, TimerIInv, LockIsHeld
  <2>3. NextTime(r) \in DueTimes /\ node \in Node
    BY <2>2, NextTimeInBounds DEF InBounds
  <2>4. [node EXCEPT !.next = NextTime(r)] \in Node
    BY <2>3 DEF Node
  <2>5. \A i \in 1 .. Len(tasks') : tasks'[i] \in Node
    BY <2>1, <2>4, InsertInBounds
  <2>. QED BY <1>1, <2>2, <2>5 DEF InBounds, Node, DueTimes, LongAgo
<1>. QED BY <1>2, <1>3, <1>4

\* What scripts do.
LEMMA ScriptInBounds ==
  ASSUME TimerIInv, InBounds, NEW t \in Threads, ScriptStep(t) \/ Schedule(t) \/ Cancel(t)
  PROVE  InBounds'
<1>1. UNCHANGED <<clock, now, node>>
  BY DEF ScriptStep, Create, CancelFind, Schedule, Cancel, timers
<1>2. created \in Nat /\ created <= MaxTimers /\ MaxTimers \in Nat /\ Len(tasks) \in Nat
  BY TimerAssumption DEF TimerIInv, Typed
<1>3. ASSUME NEW d \in Delays, NEW p \in Periods, Create(t, d, p) PROVE InBounds'
  <2>1. PICK r \in Readings : asked' = [asked EXCEPT ![created + 1] = [next |-> r + d, val |-> p]]
    BY <1>3 DEF Create
  <2>2. created' = created + 1 /\ created + 1 \in Timers /\ UNCHANGED tasks
    BY <1>2, <1>3 DEF Create, Timers
  <2>3. r + d \in DueTimes
    <3>1. /\ Second \in Nat /\ AgesAgo \in Nat /\ EndTime \in Nat /\ StartTime \in Nat
          /\ d \in Nat /\ d < AgesAgo
      BY TimerAssumption
    <3>2. r = clock \/ r = -AgesAgo
      BY DEF Readings, LongAgo
    <3>. QED BY <3>1, <3>2 DEF InBounds, DueTimes, LongAgo
  <2>4. /\ asked'[created + 1] = [next |-> r + d, val |-> p]
        /\ \A i \in Timers : i # created + 1 => asked'[i] = asked[i]
    BY <2>1, <2>2 DEF TimerIInv, Typed
  <2>5. \A i \in 1 .. created' : asked'[i] \in [next : DueTimes, val : Periods]
    <3>1. \A i \in 1 .. created + 1 : i \in Timers /\ (i = created + 1 \/ i \in 1 .. created)
      BY <1>2, <2>2 DEF Timers
    <3>. QED BY <2>2, <2>3, <2>4, <3>1 DEF InBounds
  <2>6. \A i \in Timers : i > created' => asked'[i] = [next |-> 0, val |-> 0]
    <3>1. \A i \in Timers : i > created + 1 => i > created /\ i # created + 1
      BY <1>2 DEF Timers
    <3>. QED BY <2>2, <2>4, <3>1 DEF InBounds
  <2>. QED BY <1>1, <2>2, <2>5, <2>6 DEF InBounds, Node, DueTimes, LongAgo, Timers
<1>4. ASSUME NEW i \in Timers, CancelFind(t, i) PROVE InBounds'
  BY <1>1, <1>4 DEF CancelFind, InBounds, shared, timers, Node, DueTimes, LongAgo, Timers
<1>5. CASE Schedule(t)
  <2> DEFINE k == target[t]
             n == [task |-> k, next |-> asked[arg[k]].next, val |-> asked[arg[k]].val]
  <2>1. tpc[t] = "schedule" /\ tasks' = Inserted(tasks, n) /\ UNCHANGED <<created, asked>>
    BY <1>5 DEF Schedule, timers
  <2>2. k \in Tasks /\ arg[k] # 0
    BY <2>1 DEF TimerIInv, LockIsHeld, EachInOnePlace, Makes
  <2>3. arg[k] \in 1 .. created
    BY <1>2, <2>2 DEF TimerIInv, NumbersAreNew, Typed
  <2>4. n \in Node
    BY <2>2, <2>3 DEF InBounds, Node
  <2>5. \A i \in 1 .. Len(tasks') : tasks'[i] \in Node
    BY <2>1, <2>4, InsertInBounds
  <2>. QED BY <1>1, <2>1, <2>5 DEF InBounds, Node, DueTimes, LongAgo, Timers
<1>6. CASE Cancel(t)
  <2>1. UNCHANGED <<created, asked>>
    BY <1>6 DEF Cancel
  <2>2. \A j \in 1 .. Len(tasks') : tasks'[j] \in Node
    <3>1. CASE UNCHANGED tasks
      BY <3>1 DEF InBounds, Node, DueTimes, LongAgo
    <3>2. ASSUME NEW i \in 1 .. Len(tasks), tasks' = RemoveAt(tasks, i)
          PROVE  \A j \in 1 .. Len(tasks') : tasks'[j] \in Node
      <4>1. tasks \in Seq(TNode)
        BY DEF TimerIInv, Typed
      <4>2. /\ Len(tasks') = Len(tasks) - 1
            /\ \A j \in 1 .. i - 1 : tasks'[j] = tasks[j]
            /\ \A j \in i .. Len(tasks) - 1 : tasks'[j] = tasks[j + 1]
        BY <3>2, <4>1, RemovedIs
      <4>3. \A j \in 1 .. Len(tasks) - 1 :
              /\ j \in 1 .. i - 1 \/ j \in i .. Len(tasks) - 1
              /\ j \in 1 .. Len(tasks) /\ j + 1 \in 1 .. Len(tasks)
        BY <1>2
      <4>. QED BY <4>2, <4>3 DEF InBounds
    <3>. QED BY <1>6, <3>1, <3>2 DEF Cancel, shared
  <2>. QED BY <1>1, <2>1, <2>2 DEF InBounds, Node, DueTimes, LongAgo, Timers
<1>. QED BY <1>3, <1>4, <1>5, <1>6 DEF ScriptStep

LEMMA NextInBounds == TimerBounds /\ [TimerNext]_timerVars => TimerBounds'
<1> SUFFICES ASSUME TimerIInv, InBounds, [TimerNext]_timerVars PROVE InBounds'
  BY NextTimerIInv DEF TimerBounds
<1>1. CASE Tick
  BY <1>1, ClockInBounds
<1>2. CASE TmrStep
  <2>1. Tmr \in Threads
    BY DEF Threads
  <2>. QED BY <1>2, <2>1, ClockInBounds, CallbackInBounds, ScriptInBounds DEF TmrStep
<1>3. ASSUME NEW t \in Threads, ScriptStep(t) \/ Schedule(t) \/ Cancel(t) PROVE InBounds'
  BY <1>3, ScriptInBounds
<1>4. CASE UNCHANGED timerVars
  BY <1>4 DEF timerVars, shared, timers, InBounds, Node, DueTimes, LongAgo, Timers
<1>5. Clients \subseteq Threads
  BY DEF Threads
<1>. QED BY <1>1, <1>2, <1>3, <1>4, <1>5, Zenon DEF TimerNext

\* No time the timer thread computes is out of bounds, those from the half written
\* clock included, and the lock, the nodes and what is noted have their types.
\* (timer_thread_run, timer_schedule_delay, datetime_getMillSecond)
THEOREM TimerTypeCorrect == TimerSpec => []TimerTypeOK
<1>1. TimerInit => TimerBounds
  BY InitTimerIInv, InitInBounds DEF TimerBounds
<1>2. TimerBounds => TimerTypeOK
  <2> SUFFICES ASSUME TimerIInv, InBounds PROVE TimerTypeOK
    BY DEF TimerBounds
  <2>1. lock \in LockState({Tmr})
    BY DEF TimerIInv, LockIsHeld, LockState, Unlocked
  <2>2. tasks \in Seq(Node)
    <3>1. tasks \in Seq(TNode)
      BY DEF TimerIInv, Typed
    <3>. QED BY <3>1 DEF InBounds
  <2>3. asked \in [Timers -> [next : DueTimes \cup {0}, val : Periods \cup {0}]]
    <3>1. asked \in [Timers -> [next : Int, val : Nat]] /\ created \in Nat
      BY TimerAssumption DEF TimerIInv, Typed
    <3>2. \A i \in Timers : i \in 1 .. created \/ i > created
      BY <3>1, TimerAssumption DEF Timers
    <3>3. \A i \in Timers : asked[i] \in [next : DueTimes \cup {0}, val : Periods \cup {0}]
      BY <3>2 DEF InBounds
    <3>. QED BY <3>1, <3>3
  <2>. QED BY <2>1, <2>2, <2>3 DEF TimerTypeOK, TimerIInv, Typed, InBounds
<1>. QED BY <1>1, <1>2, NextInBounds, PTL DEF TimerSpec

=============================================================================
