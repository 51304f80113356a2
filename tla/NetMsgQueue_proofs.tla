------------------------- MODULE NetMsgQueue_proofs -------------------------
(***************************************************************************)
(* Proofs about NetMsgQueue for any threads, any pool and any number of    *)
(* pushes.  IInv is inductive: each conjunct needs the others (a node is   *)
(* reachable only once because only the owner of the lock moves the        *)
(* pointers, what the tail points at matters only because the list is      *)
(* what next spells, and so on), so every action is shown to preserve the  *)
(* whole of it.  The refinement of MsgChannel then follows: the only steps *)
(* that move the histories are the linking of a node and Deliver.          *)
(***************************************************************************)
EXTENDS NetMsgQueue, SequenceTheorems, TLAPS

\* Lengths of short sequences.
LEMMA LenAboveOne ==
  ASSUME NEW n \in Nat, n > 0, n # 1
  PROVE  n - 1 \in Nat /\ 1 \in 1 .. n - 1 /\ 2 \in 1 .. n
  OBVIOUS

LEMMA LenZero ==
  ASSUME NEW S, NEW s \in Seq(S)
  PROVE  s = << >> <=> Len(s) = 0
  OBVIOUS

\* The empty list.
LEMMA InitIInv == Init => IInv
<1> SUFFICES ASSUME Init PROVE IInv
  OBVIOUS
<1> USE QueueAssumption DEF Init, Threads, LinkPcs, PushPcs, GetPcs, Unlocked
<1>1. TypeOK
  BY DEF TypeOK, LockState
<1>2. OneInside /\ LocalsMeanThis /\ ListShape
  BY DEF OneInside, LocalsMeanThis, ListShape
<1>3. NodesOwnedOnce /\ SizeCounts
  <2>1. NodesOwnedOnce
    BY DEF NodesOwnedOnce
  <2>2. size = Len(chain) /\ \A t \in Threads : lock.owner # t
    OBVIOUS
  <2>. QED BY <2>1, <2>2 DEF SizeCounts
<1>4. NothingLost
  BY DEF NothingLost, InHand
<1>. QED BY <1>1, <1>2, <1>3, <1>4 DEF IInv

\* Taking the lock: no other thread is inside, the list is untouched.
LEMMA PushLockStep ==
  ASSUME IInv, NEW p \in Producers, NEW b \in Blocks, PushLock(p, b)
  PROVE  IInv'
<1> USE QueueAssumption DEF IInv, Threads, LinkPcs, PushPcs, GetPcs, list, ghosts
<1> USE DEF PushLock, Goto, CanLock, LockedBy
<1>1. TypeOK'
  BY DEF TypeOK, LockState
<1>2. OneInside'
  BY DEF TypeOK, OneInside
<1>3. LocalsMeanThis'
  BY DEF TypeOK, LocalsMeanThis
<1>4. ListShape'
  BY DEF ListShape
<1>5. NodesOwnedOnce'
  BY DEF NodesOwnedOnce
<1>6. SizeCounts'
  BY DEF SizeCounts
<1>7. NothingLost'
  <2>1. InHand' = InHand /\ arg'[Consumer] = arg[Consumer]
    BY DEF InHand, TypeOK
  <2>. QED BY <2>1 DEF NothingLost
<1>. QED BY <1>1, <1>2, <1>3, <1>4, <1>5, <1>6, <1>7

\* No memory for a node: the lock is released and the list is untouched.
LEMMA PushFailStep ==
  ASSUME IInv, NEW p \in Producers, PushFail(p)
  PROVE  IInv'
<1> USE QueueAssumption DEF IInv, Threads, LinkPcs, PushPcs, GetPcs, list, ghosts
<1> USE DEF PushFail, Goto, Released, Unlocked
<1>1. TypeOK'
  BY DEF TypeOK, LockState, OneInside
<1>2. OneInside'
  BY DEF TypeOK, OneInside
<1>3. LocalsMeanThis'
  BY DEF TypeOK, LocalsMeanThis
<1>4. ListShape'
  BY DEF ListShape
<1>5. NodesOwnedOnce'
  BY DEF NodesOwnedOnce
<1>6. SizeCounts'
  BY DEF OneInside, SizeCounts
<1>7. NothingLost'
  BY DEF InHand, NothingLost
<1>. QED BY <1>1, <1>2, <1>3, <1>4, <1>5, <1>6, <1>7

\* A node leaves the pool: it is not in the list, since no linked node was in the pool.
LEMMA PushAllocStep ==
  ASSUME IInv, NEW p \in Producers, PushAlloc(p)
  PROVE  IInv'
<1> USE QueueAssumption DEF IInv, Threads, LinkPcs, PushPcs, GetPcs, list, ghosts
<1> USE DEF PushAlloc, Goto
<1>1. TypeOK'
  BY DEF TypeOK
<1>2. OneInside'
  BY DEF OneInside
<1>3. LocalsMeanThis'
  BY DEF TypeOK, LocalsMeanThis, NodesOwnedOnce, ListShape
<1>4. ListShape'
  BY DEF ListShape, NodesOwnedOnce
<1>5. NodesOwnedOnce'
  BY DEF TypeOK, NodesOwnedOnce
<1>6. SizeCounts'
  BY DEF SizeCounts
<1>7. NothingLost'
  BY DEF NodesOwnedOnce, InHand, NothingLost
<1>. QED BY <1>1, <1>2, <1>3, <1>4, <1>5, <1>6, <1>7

\* The tail is looked at; nothing changes.
LEMMA PushTestStep ==
  ASSUME IInv, NEW p \in Producers, PushTest(p)
  PROVE  IInv'
<1> USE QueueAssumption DEF IInv, Threads, LinkPcs, PushPcs, GetPcs, list, ghosts
<1> USE DEF PushTest, Goto
<1>1. TypeOK'
  BY DEF TypeOK
<1>2. OneInside'
  BY DEF OneInside
<1>3. LocalsMeanThis'
  BY DEF LocalsMeanThis
<1>4. ListShape'
  BY DEF ListShape
<1>5. NodesOwnedOnce'
  BY DEF NodesOwnedOnce
<1>6. SizeCounts'
  BY DEF SizeCounts
<1>7. NothingLost'
  BY DEF InHand, NothingLost
<1>. QED BY <1>1, <1>2, <1>3, <1>4, <1>5, <1>6, <1>7

\* A node is linked, behind the tail or as the whole list.
LEMMA LinkStep ==
  ASSUME IInv, NEW p \in Producers,
         pc[p] \in {"behind", "first"}, Joined(p), tail' = node[p],
         tail # Null => next' = [next EXCEPT ![tail] = node[p]] /\ head' = head,
         tail = Null => head' = node[p] /\ next' = next
  PROVE  IInv'
<1> USE QueueAssumption DEF Threads, LinkPcs, PushPcs, GetPcs
<1>i. /\ TypeOK /\ OneInside /\ LocalsMeanThis /\ ListShape
      /\ NodesOwnedOnce /\ SizeCounts /\ NothingLost
  BY DEF IInv
<1>u. /\ pc[p] \in {"behind", "first"} /\ pc' = [pc EXCEPT ![p] = "pushed"]
      /\ chain' = Append(chain, node[p]) /\ accepted' = Append(accepted, arg[p])
      /\ tail' = node[p]
      /\ tail # Null => next' = [next EXCEPT ![tail] = node[p]] /\ head' = head
      /\ tail = Null => head' = node[p] /\ next' = next
      /\ lock' = lock /\ block' = block /\ size' = size /\ free' = free
      /\ node' = node /\ arg' = arg /\ handed' = handed
  BY DEF Joined, Goto
<1>a. /\ node[p] \in Nodes /\ arg[p] \in Blocks /\ block[node[p]] = arg[p]
      /\ next[node[p]] = Null /\ Null \notin Nodes
      /\ chain \in Seq(Nodes) /\ accepted \in Seq(Blocks)
  BY <1>i DEF TypeOK, LocalsMeanThis
<1>b. /\ chain' \in Seq(Nodes) /\ chain' # << >>
      /\ Len(chain') = Len(chain) + 1
      /\ \A i \in 1 .. Len(chain) : chain'[i] = chain[i]
      /\ chain'[Len(chain) + 1] = node[p]
  BY <1>a, <1>u
<1>c. /\ accepted' \in Seq(Blocks)
      /\ Len(accepted') = Len(accepted) + 1
      /\ \A i \in 1 .. Len(accepted) : accepted'[i] = accepted[i]
      /\ accepted'[Len(accepted) + 1] = arg[p]
  BY <1>a, <1>u
<1>d. Len(chain) \in Nat /\ Len(accepted) \in Nat /\ Len(handed) \in Nat
  BY <1>i DEF TypeOK
<1>e. \A i \in 1 .. Len(chain) : chain[i] \in Nodes /\ chain[i] # node[p]
  BY <1>a, <1>i DEF NodesOwnedOnce
<1>1. TypeOK'
  <2>1. head' \in Nodes \cup {Null} /\ tail' \in Nodes \cup {Null}
    BY <1>a, <1>i, <1>u DEF TypeOK
  <2>2. next' \in [Nodes -> Nodes \cup {Null}]
    BY <1>a, <1>i, <1>u DEF TypeOK
  <2>3. pc' \in [Threads -> PushPcs \cup GetPcs \cup {"idle", "deliver"}]
    BY <1>i, <1>u DEF TypeOK
  <2>. QED BY <2>1, <2>2, <2>3, <1>b, <1>c, <1>i, <1>u DEF TypeOK
<1>2. OneInside'
  BY <1>i, <1>u DEF OneInside
<1>3. LocalsMeanThis'
  BY <1>i, <1>u DEF TypeOK, OneInside, LocalsMeanThis
<1>4. ListShape'
  <2>1. CASE chain = << >>
    <3>1. head = Null /\ tail = Null /\ Len(chain) = 0
      BY <2>1, <1>i DEF ListShape
    <3>2. head' = node[p] /\ tail' = node[p] /\ next' = next
      BY <3>1
    <3>. QED BY <3>1, <1>a, <1>b DEF ListShape
  <2>2. CASE chain # << >>
    <3>1. Len(chain) > 0 /\ head = chain[1] /\ tail = chain[Len(chain)]
      BY <2>2, <1>i DEF ListShape
    <3>2. tail \in Nodes /\ tail # Null /\ tail # node[p]
      BY <3>1, <1>e
    <3>3. head' = head /\ tail' = node[p] /\ next' = [next EXCEPT ![tail] = node[p]]
      BY <3>2
    <3>4. ASSUME NEW i \in 1 .. Len(chain) - 1
          PROVE  next'[chain[i]] = chain[i + 1]
      <4>1. chain[i] \in Nodes /\ chain[i] # tail
        <5>1. i \in 1 .. Len(chain) /\ Len(chain) \in 1 .. Len(chain) /\ i # Len(chain)
          BY <3>1, <1>d
        <5>. QED BY <5>1, <3>1, <1>e, <1>i DEF NodesOwnedOnce
      <4>2. next[chain[i]] = chain[i + 1]
        BY <3>1, <1>i DEF ListShape
      <4>. QED BY <4>1, <4>2, <3>3, <1>i DEF TypeOK
    <3>5. next'[tail] = node[p] /\ next'[node[p]] = Null
      BY <3>2, <1>a, <1>i DEF TypeOK
    <3>6. \A i \in 1 .. Len(chain') - 1 : next'[chain'[i]] = chain'[i + 1]
      <4>1. ASSUME NEW i \in 1 .. Len(chain') - 1
            PROVE  next'[chain'[i]] = chain'[i + 1]
        <5>1. CASE i = Len(chain)
          BY <5>1, <3>1, <3>5, <1>b, <1>d
        <5>2. CASE i # Len(chain)
          <6>1. i \in 1 .. Len(chain) - 1 /\ i + 1 \in 1 .. Len(chain) /\ i \in 1 .. Len(chain)
            BY <5>2, <1>b, <1>d
          <6>. QED BY <6>1, <3>4, <1>b
        <5>. QED BY <5>1, <5>2
      <4>. QED BY <4>1
    <3>7. head' = chain'[1] /\ tail' = chain'[Len(chain')]
      BY <3>1, <3>3, <1>b, <1>d
    <3>. QED BY <3>3, <3>5, <3>6, <3>7, <1>b DEF ListShape
  <2>. QED BY <2>1, <2>2
<1>5. NodesOwnedOnce'
  <2>1. node[p] \notin free
    BY <1>i DEF NodesOwnedOnce
  <2>2. \A t \in Threads : pc'[t] \notin LinkPcs \cup {"free"}
    BY <1>i, <1>u DEF TypeOK, OneInside
  <2>3. \A i \in 1 .. Len(chain') : chain'[i] \notin free'
    BY <2>1, <1>b, <1>d, <1>i, <1>u DEF NodesOwnedOnce
  <2>4. \A i, j \in 1 .. Len(chain') : chain'[i] = chain'[j] => i = j
    BY <1>b, <1>d, <1>e, <1>i DEF NodesOwnedOnce
  <2>. QED BY <2>2, <2>3, <2>4 DEF NodesOwnedOnce
<1>6. SizeCounts'
  BY <1>i, <1>u DEF TypeOK, OneInside, SizeCounts
<1>7. NothingLost'
  <2>1. InHand' = InHand /\ InHand \in {0, 1}
    BY <1>u DEF InHand
  <2>2. handed' = handed /\ block' = block /\ arg' = arg
    BY <1>u
  <2>3. Len(accepted') = Len(handed') + InHand' + Len(chain')
    BY <2>1, <2>2, <1>b, <1>c, <1>i DEF NothingLost
  <2>4. \A i \in 1 .. Len(handed') : handed'[i] = accepted'[i]
    BY <2>1, <2>2, <1>c, <1>i DEF NothingLost
  <2>5. InHand' = 1 => arg'[Consumer] = accepted'[Len(handed') + 1]
    BY <2>1, <2>2, <1>c, <1>i DEF NothingLost
  <2>6. \A i \in 1 .. Len(chain') : block'[chain'[i]] = accepted'[Len(handed') + InHand' + i]
    <3>1. Len(accepted) + 1 = Len(handed) + InHand + Len(chain) + 1
      BY <1>i DEF NothingLost
    <3>2. block[node[p]] = accepted'[Len(handed) + InHand + Len(chain) + 1]
      BY <3>1, <1>a, <1>c
    <3>3. ASSUME NEW i \in 1 .. Len(chain)
          PROVE  block[chain[i]] = accepted'[Len(handed) + InHand + i]
      <4>1. Len(handed) + InHand + i \in 1 .. Len(accepted)
        BY <3>1, <2>1
      <4>. QED BY <4>1, <1>c, <1>i DEF NothingLost
    <3>4. ASSUME NEW i \in 1 .. Len(chain')
          PROVE  block[chain'[i]] = accepted'[Len(handed) + InHand + i]
      <4>1. CASE i \in 1 .. Len(chain)
        BY <4>1, <3>3, <1>b
      <4>2. CASE i = Len(chain) + 1
        <5>1. chain'[i] = node[p]
          BY <4>2, <1>b
        <5>2. Len(handed) + InHand + i = Len(handed) + InHand + Len(chain) + 1
          BY <4>2, <2>1, <1>d
        <5>. QED BY <5>1, <5>2, <3>2
      <4>. QED BY <4>1, <4>2, <1>b, <1>d
    <3>. QED BY <3>4, <2>1, <2>2
  <2>. QED BY <2>3, <2>4, <2>5, <2>6 DEF NothingLost
<1>. QED BY <1>1, <1>2, <1>3, <1>4, <1>5, <1>6, <1>7 DEF IInv

LEMMA PushBehindStep ==
  ASSUME IInv, NEW p \in Producers, PushBehind(p)
  PROVE  IInv'
<1>1. tail # Null
  BY DEF IInv, LocalsMeanThis, PushBehind
<1>. QED BY <1>1, LinkStep DEF PushBehind

LEMMA PushFirstStep ==
  ASSUME IInv, NEW p \in Producers, PushFirst(p)
  PROVE  IInv'
<1>1. tail = Null
  BY DEF IInv, LocalsMeanThis, PushFirst
<1>. QED BY <1>1, LinkStep DEF PushFirst

\* The node is counted and the lock released.
LEMMA PushUnlockStep ==
  ASSUME IInv, NEW p \in Producers, PushUnlock(p)
  PROVE  IInv'
<1> USE QueueAssumption DEF IInv, Threads, LinkPcs, PushPcs, GetPcs, list, ghosts
<1> USE DEF PushUnlock, Goto, Released, Unlocked
<1>1. TypeOK'
  BY DEF TypeOK, LockState, OneInside
<1>2. OneInside'
  BY DEF TypeOK, OneInside
<1>3. LocalsMeanThis'
  BY DEF TypeOK, LocalsMeanThis
<1>4. ListShape'
  BY DEF ListShape
<1>5. NodesOwnedOnce'
  BY DEF NodesOwnedOnce
<1>6. SizeCounts'
  BY DEF OneInside, SizeCounts
<1>7. NothingLost'
  <2>1. InHand' = InHand /\ arg'[Consumer] = arg[Consumer]
    BY DEF InHand, TypeOK
  <2>. QED BY <2>1 DEF NothingLost
<1>. QED BY <1>1, <1>2, <1>3, <1>4, <1>5, <1>6, <1>7

\* The consumer takes the lock.
LEMMA GetLockStep ==
  ASSUME IInv, GetLock
  PROVE  IInv'
<1> USE QueueAssumption DEF IInv, Threads, LinkPcs, PushPcs, GetPcs, list, ghosts
<1> USE DEF GetLock, Goto, CanLock, LockedBy
<1>1. TypeOK'
  BY DEF TypeOK, LockState
<1>2. OneInside'
  BY DEF TypeOK, OneInside
<1>3. LocalsMeanThis'
  BY DEF LocalsMeanThis
<1>4. ListShape'
  BY DEF ListShape
<1>5. NodesOwnedOnce'
  BY DEF NodesOwnedOnce
<1>6. SizeCounts'
  BY DEF SizeCounts
<1>7. NothingLost'
  BY DEF InHand, NothingLost
<1>. QED BY <1>1, <1>2, <1>3, <1>4, <1>5, <1>6, <1>7

\* The list is empty.
LEMMA GetNothingStep ==
  ASSUME IInv, GetNothing
  PROVE  IInv'
<1> USE QueueAssumption DEF IInv, Threads, LinkPcs, PushPcs, GetPcs, list, ghosts
<1> USE DEF GetNothing, Goto, Released, Unlocked
<1>1. TypeOK'
  BY DEF TypeOK, LockState, OneInside
<1>2. OneInside'
  BY DEF TypeOK, OneInside
<1>3. LocalsMeanThis'
  BY DEF LocalsMeanThis
<1>4. ListShape'
  BY DEF ListShape
<1>5. NodesOwnedOnce'
  BY DEF NodesOwnedOnce
<1>6. SizeCounts'
  BY DEF OneInside, SizeCounts
<1>7. NothingLost'
  BY DEF InHand, NothingLost
<1>. QED BY <1>1, <1>2, <1>3, <1>4, <1>5, <1>6, <1>7

\* The consumer reads the first node.
LEMMA GetNodeStep ==
  ASSUME IInv, GetNode
  PROVE  IInv'
<1> USE QueueAssumption DEF IInv, Threads, LinkPcs, PushPcs, GetPcs, list, ghosts
<1> USE DEF GetNode, Goto
<1>1. TypeOK'
  BY DEF TypeOK
<1>2. OneInside'
  BY DEF OneInside
<1>3. LocalsMeanThis'
  BY DEF TypeOK, LocalsMeanThis
<1>4. ListShape'
  BY DEF ListShape
<1>5. NodesOwnedOnce'
  BY DEF NodesOwnedOnce
<1>6. SizeCounts'
  BY DEF SizeCounts
<1>7. NothingLost'
  BY DEF InHand, NothingLost
<1>. QED BY <1>1, <1>2, <1>3, <1>4, <1>5, <1>6, <1>7

\* The first node leaves the list; the tail is cleared with the last one.
LEMMA GetUnlinkStep ==
  ASSUME IInv, GetUnlink
  PROVE  IInv'
<1> USE QueueAssumption DEF Threads, LinkPcs, PushPcs, GetPcs
<1>i. /\ TypeOK /\ OneInside /\ LocalsMeanThis /\ ListShape
      /\ NodesOwnedOnce /\ SizeCounts /\ NothingLost
  BY DEF IInv
<1>u. /\ pc[Consumer] = "unlink" /\ pc' = [pc EXCEPT ![Consumer] = "free"]
      /\ head' = next[node[Consumer]]
      /\ head' = Null => tail' = Null
      /\ head' # Null => tail' = tail
      /\ chain' = Tail(chain)
      /\ lock' = lock /\ next' = next /\ block' = block /\ size' = size /\ free' = free
      /\ node' = node /\ arg' = arg /\ accepted' = accepted /\ handed' = handed
  BY DEF GetUnlink, Goto, TailWithout
<1>a. /\ head # Null /\ node[Consumer] = head /\ arg[Consumer] = block[head]
      /\ chain # << >> /\ chain \in Seq(Nodes)
      /\ head = chain[1] /\ tail = chain[Len(chain)] /\ next[tail] = Null
  BY <1>i, <1>u DEF TypeOK, LocalsMeanThis, ListShape
<1>b. /\ chain' \in Seq(Nodes)
      /\ Len(chain') = Len(chain) - 1
      /\ \A i \in 1 .. Len(chain') : chain'[i] = chain[i + 1]
  BY <1>a, <1>u
<1>d. /\ Len(chain) \in Nat /\ Len(chain) > 0
      /\ Len(accepted) \in Nat /\ Len(handed) \in Nat
  BY <1>a
<1>e. \A i \in 1 .. Len(chain') : chain'[i] # head
  BY <1>a, <1>b, <1>i DEF NodesOwnedOnce
<1>f. \A i \in 1 .. Len(chain) : chain[i] \in Nodes
  BY <1>a
<1>g. chain' = << >> <=> Len(chain) = 1
  BY <1>b
<1>1. TypeOK'
  BY <1>a, <1>i, <1>u DEF TypeOK
<1>2. OneInside'
  BY <1>i, <1>u DEF OneInside
<1>3. LocalsMeanThis'
  BY <1>i, <1>u DEF TypeOK, OneInside, LocalsMeanThis
<1>4. ListShape'
  <2>1. CASE Len(chain) = 1
    BY <1>a, <1>g, <1>i, <1>u DEF ListShape
  <2>2. CASE Len(chain) # 1
    <3>1. head' = chain[2] /\ chain[2] \in Nodes
      <4>1. 1 \in 1 .. Len(chain) - 1 /\ 2 \in 1 .. Len(chain)
        BY <2>2, <1>d, LenAboveOne
      <4>2. next[chain[1]] = chain[1 + 1]
        BY <4>1, <1>i DEF ListShape
      <4>. QED BY <4>1, <4>2, <1>a, <1>u
    <3>2. tail' = tail /\ head' = chain'[1] /\ tail' = chain'[Len(chain')]
      <4>1. head' = chain[2] /\ head' # Null /\ tail' = tail
        BY <3>1, <1>u
      <4>2. /\ 1 \in 1 .. Len(chain') /\ Len(chain') \in 1 .. Len(chain')
            /\ Len(chain') + 1 = Len(chain)
        BY <2>2, <1>b
      <4>. QED BY <4>1, <4>2, <1>a, <1>b
    <3>3. \A i \in 1 .. Len(chain') - 1 : next'[chain'[i]] = chain'[i + 1]
      BY <1>i, <1>u DEF ListShape
    <3>. QED BY <1>a, <1>g, <1>i, <1>u DEF ListShape
  <2>. QED BY <2>1, <2>2
<1>5. NodesOwnedOnce'
  <2>1. \A i, j \in 1 .. Len(chain') : chain'[i] = chain'[j] => i = j
    BY <1>i, <1>u DEF NodesOwnedOnce
  <2>2. \A i \in 1 .. Len(chain') : chain'[i] \notin free'
    BY <1>i, <1>u DEF NodesOwnedOnce
  <2>3. head \in Nodes \ free
    BY <1>a, <1>i DEF NodesOwnedOnce
  <2>4. \A t \in Threads : pc'[t] \in LinkPcs \cup {"free"} => t = Consumer
    BY <1>i, <1>u DEF OneInside
  <2>. QED BY <1>a, <1>i, <1>u DEF NodesOwnedOnce
<1>6. SizeCounts'
  <2>1. lock.owner = Consumer /\ lock' = lock
    BY <1>i, <1>u DEF OneInside
  <2>2. size = Len(chain) /\ size' = size
    BY <2>1, <1>i, <1>u DEF SizeCounts
  <2>3. pc'[Consumer] = "free"
    BY <1>i, <1>u DEF TypeOK
  <2>. QED BY <2>1, <2>2, <2>3, <1>b DEF SizeCounts
<1>7. NothingLost'
  <2>1. InHand = 0 /\ InHand' = 1
    BY <1>i, <1>u DEF InHand, TypeOK
  <2>2. accepted' = accepted /\ handed' = handed /\ block' = block /\ arg' = arg
    BY <1>u
  <2>3. arg[Consumer] = accepted[Len(handed) + 1]
    BY <2>1, <1>a, <1>i DEF NothingLost
  <2>4. \A i \in 1 .. Len(chain') : block[chain'[i]] = accepted[Len(handed) + 1 + i]
    <3>1. ASSUME NEW i \in 1 .. Len(chain')
          PROVE  block[chain'[i]] = accepted[Len(handed) + 1 + i]
      <4>1. i + 1 \in 1 .. Len(chain) /\ chain'[i] = chain[i + 1]
        BY <1>b
      <4>2. block[chain[i + 1]] = accepted[Len(handed) + 0 + (i + 1)]
        BY <2>1, <4>1, <1>i DEF NothingLost
      <4>. QED BY <4>1, <4>2
    <3>. QED BY <3>1
  <2>5. Len(accepted) = Len(handed) + 1 + Len(chain')
    BY <2>1, <1>b, <1>i DEF NothingLost
  <2>6. \A i \in 1 .. Len(handed) : handed[i] = accepted[i]
    BY <1>i DEF NothingLost
  <2>. QED BY <2>1, <2>2, <2>3, <2>4, <2>5, <1>i DEF NothingLost
<1>. QED BY <1>1, <1>2, <1>3, <1>4, <1>5, <1>6, <1>7 DEF IInv

\* The unlinked node goes back to the pool and the lock is released.
LEMMA GetUnlockStep ==
  ASSUME IInv, GetUnlock
  PROVE  IInv'
<1> USE QueueAssumption DEF IInv, Threads, LinkPcs, PushPcs, GetPcs, list, ghosts
<1> USE DEF GetUnlock, Goto, Released, Unlocked
<1>1. TypeOK'
  <2>1. node[Consumer] \in Nodes
    BY DEF NodesOwnedOnce
  <2>2. lock.owner = Consumer /\ lock.depth = 1
    BY DEF OneInside
  <2>. QED BY <2>1, <2>2 DEF TypeOK, LockState
<1>2. OneInside'
  BY DEF TypeOK, OneInside
<1>3. LocalsMeanThis'
  BY DEF LocalsMeanThis
<1>4. ListShape'
  BY DEF ListShape
<1>5. NodesOwnedOnce'
  BY DEF TypeOK, OneInside, NodesOwnedOnce
<1>6. SizeCounts'
  BY DEF OneInside, SizeCounts
<1>7. NothingLost'
  BY DEF InHand, NothingLost
<1>. QED BY <1>1, <1>2, <1>3, <1>4, <1>5, <1>6, <1>7

\* The block goes to Lua, outside the lock.
LEMMA DeliverStep ==
  ASSUME IInv, Deliver
  PROVE  IInv'
<1> USE QueueAssumption DEF IInv, Threads, LinkPcs, PushPcs, GetPcs, list, ghosts
<1> USE DEF Deliver, Goto
<1>1. TypeOK'
  <2>1. InHand = 1
    BY DEF InHand
  <2>2. Len(handed) + 1 \in 1 .. Len(accepted)
    BY <2>1 DEF NothingLost
  <2>3. arg[Consumer] \in Blocks
    BY <2>1 DEF TypeOK, NothingLost
  <2>4. handed' \in Seq(Blocks)
    BY <2>3 DEF TypeOK
  <2>. QED BY <2>4 DEF TypeOK
<1>2. OneInside'
  BY DEF OneInside
<1>3. LocalsMeanThis'
  BY DEF LocalsMeanThis
<1>4. ListShape'
  BY DEF ListShape
<1>5. NodesOwnedOnce'
  BY DEF NodesOwnedOnce
<1>6. SizeCounts'
  BY DEF SizeCounts
<1>7. NothingLost'
  BY DEF TypeOK, InHand, NothingLost
<1>. QED BY <1>1, <1>2, <1>3, <1>4, <1>5, <1>6, <1>7
\* Every step preserves the invariant.
LEMMA NextIInv == IInv /\ [Next]_vars => IInv'
<1> SUFFICES ASSUME IInv, [Next]_vars PROVE IInv'
  OBVIOUS
<1>1. CASE UNCHANGED vars
  BY <1>1 DEF vars, list, ghosts, IInv, TypeOK, OneInside, LocalsMeanThis, ListShape,
              NodesOwnedOnce, SizeCounts, InHand, NothingLost
<1>2. ASSUME NEW p \in Producers, NEW b \in Blocks, PushLock(p, b) PROVE IInv'
  BY <1>2, PushLockStep
<1>3. ASSUME NEW p \in Producers, PushStep(p) PROVE IInv'
  BY <1>3, PushFailStep, PushAllocStep, PushTestStep, PushBehindStep, PushFirstStep,
     PushUnlockStep
  DEF PushStep
<1>4. CASE GetLock
  BY <1>4, GetLockStep
<1>5. CASE GetStep
  BY <1>5, GetNothingStep, GetNodeStep, GetUnlinkStep, GetUnlockStep, DeliverStep
  DEF GetStep
<1>. QED BY <1>1, <1>2, <1>3, <1>4, <1>5 DEF Next

\* The invariant holds in every state the queue can reach.
THEOREM QueueInvariant == Spec => []IInv
<1>. QED BY InitIInv, NextIInv, PTL DEF Spec

\* Type correctness of netmsgqueue.c.
THEOREM QueueTypeOK == Spec => []TypeOK
<1>1. IInv => TypeOK
  BY DEF IInv
<1>. QED BY <1>1, QueueInvariant, PTL

\* No list node is reachable twice, or reachable while the pool or another
\* thread owns its memory.
THEOREM QueueNodesOwnedOnce == Spec => []NodesOwnedOnce
<1>1. IInv => NodesOwnedOnce
  BY DEF IInv
<1>. QED BY <1>1, QueueInvariant, PTL

\* No block is lost, handed out twice or out of order, whatever the threads do.
THEOREM QueueNothingLost == Spec => []NothingLost
<1>1. IInv => NothingLost
  BY DEF IInv
<1>. QED BY <1>1, QueueInvariant, PTL

\* A step of the queue is a step of the channel, or leaves it as it was.
LEMMA StepRefines == IInv /\ [Next]_vars => [Channel!Next]_<<accepted, handed>>
<1> SUFFICES ASSUME IInv, [Next]_vars, <<accepted, handed>>' # <<accepted, handed>>
             PROVE  Channel!Next
  OBVIOUS
<1> USE DEF list, ghosts
<1>1. ASSUME NEW p \in Producers, PushBehind(p) \/ PushFirst(p) PROVE Channel!Next
  <2>1. arg[p] \in Blocks
    BY <1>1 DEF IInv, LocalsMeanThis, PushBehind, PushFirst, LinkPcs, PushPcs
  <2>2. Channel!Accept(arg[p])
    BY <1>1 DEF PushBehind, PushFirst, Joined, Channel!Accept
  <2>. QED BY <2>1, <2>2 DEF Channel!Next
<1>2. ASSUME Deliver PROVE Channel!Next
  <2>1. InHand = 1
    BY <1>2 DEF Deliver, InHand
  <2>2. /\ Len(handed) < Len(accepted)
        /\ arg[Consumer] = accepted[Len(handed) + 1]
    BY <2>1 DEF IInv, NothingLost
  <2>. QED BY <1>2, <2>2 DEF Deliver, Channel!Next, Channel!HandOut
<1>3. ASSUME NEW p \in Producers, PushFail(p) \/ PushAlloc(p) \/ PushTest(p) \/ PushUnlock(p)
      PROVE  FALSE
  BY <1>3 DEF PushFail, PushAlloc, PushTest, PushUnlock
<1>4. ASSUME NEW p \in Producers, NEW b \in Blocks, PushLock(p, b) PROVE FALSE
  BY <1>4 DEF PushLock
<1>5. ASSUME GetLock \/ GetNothing \/ GetNode \/ GetUnlink \/ GetUnlock PROVE FALSE
  BY <1>5 DEF GetLock, GetNothing, GetNode, GetUnlink, GetUnlock
<1>6. CASE UNCHANGED vars
  BY <1>6 DEF vars
<1>. QED BY <1>1, <1>2, <1>3, <1>4, <1>5, <1>6 DEF Next, PushStep, GetStep

\* The linked list with its lock implements the channel: what gethead hands to
\* Lua is exactly what pushback took in, in the same order.
THEOREM QueueImplementsChannel == Spec => ImplementsChannel
<1>1. Init => Channel!Init
  BY DEF Init, Channel!Init
<1>2. IInv /\ [Next]_vars => [Channel!Next]_<<accepted, handed>>
  BY StepRefines
<1>. QED BY <1>1, <1>2, QueueInvariant, PTL DEF Spec, ImplementsChannel, Channel!Spec

=============================================================================
