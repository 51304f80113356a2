---------------------------- MODULE NetMsgQueue ----------------------------
(***************************************************************************)
(* core/netmsgqueue.c: the linked list of message blocks between the       *)
(* threads that decode the sockets (Producers) and the one thread that     *)
(* hands the blocks to Lua (Consumer).  The list is modelled with its      *)
(* pointers: _head, _tail, and a next and a _block field per node.  A node *)
(* is memory of the pool (core/mempool.c), which reuses a freed node for   *)
(* the next allocation, whoever makes it.                                  *)
(*                                                                         *)
(* The critical sections are split into steps, so that what the lock is    *)
(* for is part of the model.  chain, accepted and handed are histories:    *)
(* no action of the code reads them (MaxPushes, the bound on how much is   *)
(* sent, does).                                                            *)
(***************************************************************************)
EXTENDS Integers, Sequences, RecursiveLock

CONSTANTS
  Producers,   \* the threads that call netmsgqueue_pushback
  Consumer,    \* the thread that runs netmsgqueue_thread_run
  Nodes,       \* the addresses the pool can give a queuenode
  Blocks,      \* the message blocks
  Null,        \* the null pointer
  MaxPushes    \* bound: how many blocks are sent

Threads == Producers \cup {Consumer}

ASSUME QueueAssumption ==
  /\ Consumer \notin Producers
  /\ Nobody \notin Threads
  /\ Null \notin Nodes \cup Blocks
  /\ MaxPushes \in Nat

VARIABLES
  lock,        \* _lock
  head, tail,  \* _head, _tail
  next,        \* the next field of each node
  block,       \* the _block field of each node
  size,        \* _size
  free,        \* the nodes in the pool
  pc,          \* where each thread is
  node,        \* the local variable node of each thread
  arg,         \* the block a thread pushes, or has got from the list
  chain,       \* history: the nodes in the list, from head to tail
  accepted,    \* history: the blocks linked into the list
  handed       \* history: the blocks handed to Lua

list == <<head, tail, next, block, size, free>>
ghosts == <<chain, accepted, handed>>
vars == <<lock, list, pc, node, arg, ghosts>>

Goto(t, l) == pc' = [pc EXCEPT ![t] = l]

Init ==
  /\ lock = Unlocked
  /\ head = Null /\ tail = Null /\ size = 0
  /\ next = [n \in Nodes |-> Null]
  /\ block = [n \in Nodes |-> Null]
  /\ free = Nodes
  /\ pc = [t \in Threads |-> "idle"]
  /\ node = [t \in Threads |-> Null]
  /\ arg = [t \in Threads |-> Null]
  /\ chain = << >> /\ accepted = << >> /\ handed = << >>

-----------------------------------------------------------------------------
(* netmsgqueue_pushback *)

\* Take the lock with block b to push.
PushLock(p, b) ==
  /\ pc[p] = "idle"
  /\ Len(accepted) < MaxPushes
  /\ CanLock(lock, p)
  /\ lock' = LockedBy(lock, p)
  /\ arg' = [arg EXCEPT ![p] = b]
  /\ Goto(p, "alloc")
  /\ UNCHANGED <<list, node, ghosts>>

\* The pool has no memory: unlock and return; the block is lost.
PushFail(p) ==
  /\ pc[p] = "alloc"
  /\ lock' = Released(lock)
  /\ arg' = [arg EXCEPT ![p] = Null]
  /\ Goto(p, "idle")
  /\ UNCHANGED <<list, node, ghosts>>

\* Allocate a node and fill it in.
PushAlloc(p) ==
  /\ pc[p] = "alloc"
  /\ \E n \in free :
       /\ free' = free \ {n}
       /\ block' = [block EXCEPT ![n] = arg[p]]
       /\ next' = [next EXCEPT ![n] = Null]
       /\ node' = [node EXCEPT ![p] = n]
  /\ Goto(p, "link")
  /\ UNCHANGED <<lock, head, tail, size, arg, ghosts>>

\* Is there a tail to link behind?
PushTest(p) ==
  /\ pc[p] = "link"
  /\ Goto(p, IF tail # Null THEN "behind" ELSE "first")
  /\ UNCHANGED <<lock, list, node, arg, ghosts>>

\* The node joins the list, in the histories.
Joined(p) ==
  /\ chain' = Append(chain, node[p])
  /\ accepted' = Append(accepted, arg[p])
  /\ Goto(p, "pushed")
  /\ UNCHANGED <<lock, block, size, free, node, arg, handed>>

\* Faulty variant: the tail is not moved.
PushBehindOldTail(p) ==
  /\ pc[p] = "behind"
  /\ next' = [next EXCEPT ![tail] = node[p]]
  /\ UNCHANGED <<head, tail>>
  /\ Joined(p)

\* Link the node behind the tail.
PushBehind(p) ==
  /\ pc[p] = "behind"
  /\ next' = [next EXCEPT ![tail] = node[p]]
  /\ tail' = node[p]
  /\ UNCHANGED head
  /\ Joined(p)

\* The node is the whole list.
PushFirst(p) ==
  /\ pc[p] = "first"
  /\ head' = node[p] /\ tail' = node[p]
  /\ UNCHANGED next
  /\ Joined(p)

\* Count the node and unlock.
PushUnlock(p) ==
  /\ pc[p] = "pushed"
  /\ size' = size + 1
  /\ lock' = Released(lock)
  /\ node' = [node EXCEPT ![p] = Null]
  /\ arg' = [arg EXCEPT ![p] = Null]
  /\ Goto(p, "idle")
  /\ UNCHANGED <<head, tail, next, block, free, ghosts>>

-----------------------------------------------------------------------------
(* netmsgqueue_gethead and the loop of netmsgqueue_thread_run *)

\* Faulty variant: the list is read without the lock.
GetLockNever ==
  /\ pc[Consumer] = "idle"
  /\ Goto(Consumer, "get")
  /\ UNCHANGED <<lock, list, node, arg, ghosts>>

GetLock ==
  /\ pc[Consumer] = "idle"
  /\ CanLock(lock, Consumer)
  /\ lock' = LockedBy(lock, Consumer)
  /\ Goto(Consumer, "get")
  /\ UNCHANGED <<list, node, arg, ghosts>>

\* The list is empty: gethead returns NULL and the thread tries again.
GetNothing ==
  /\ pc[Consumer] = "get"
  /\ head = Null
  /\ lock' = Released(lock)
  /\ Goto(Consumer, "idle")
  /\ UNCHANGED <<list, node, arg, ghosts>>

\* Faulty variant: the node goes back to the pool before it is unlinked.
GetNodeFreed ==
  /\ pc[Consumer] = "get"
  /\ head # Null
  /\ node' = [node EXCEPT ![Consumer] = head]
  /\ arg' = [arg EXCEPT ![Consumer] = block[head]]
  /\ free' = free \cup {head}
  /\ Goto(Consumer, "unlink")
  /\ UNCHANGED <<lock, head, tail, next, block, size, ghosts>>

\* Read the first node and its block.
GetNode ==
  /\ pc[Consumer] = "get"
  /\ head # Null
  /\ node' = [node EXCEPT ![Consumer] = head]
  /\ arg' = [arg EXCEPT ![Consumer] = block[head]]
  /\ Goto(Consumer, "unlink")
  /\ UNCHANGED <<lock, list, ghosts>>

\* Faulty variant: the tail keeps pointing at the last node that left.
TailKept(h) == tail

\* The tail is cleared when the last node leaves.
TailWithout(h) == IF h = Null THEN Null ELSE tail

GetUnlink ==
  /\ pc[Consumer] = "unlink"
  /\ head' = next[node[Consumer]]
  /\ tail' = TailWithout(head')
  /\ chain' = Tail(chain)
  /\ Goto(Consumer, "free")
  /\ UNCHANGED <<lock, next, block, size, free, node, arg, accepted, handed>>

\* Give the node back to the pool, count it off and unlock.
GetUnlock ==
  /\ pc[Consumer] = "free"
  /\ free' = free \cup {node[Consumer]}
  /\ size' = size - 1
  /\ lock' = Released(lock)
  /\ node' = [node EXCEPT ![Consumer] = Null]
  /\ Goto(Consumer, "deliver")
  /\ UNCHANGED <<head, tail, next, block, arg, ghosts>>

\* Hand the block to Lua (lua_call_mg) and forget it.
Deliver ==
  /\ pc[Consumer] = "deliver"
  /\ handed' = Append(handed, arg[Consumer])
  /\ arg' = [arg EXCEPT ![Consumer] = Null]
  /\ Goto(Consumer, "idle")
  /\ UNCHANGED <<lock, list, node, chain, accepted>>

-----------------------------------------------------------------------------

PushStep(p) ==
  \/ PushFail(p) \/ PushAlloc(p) \/ PushTest(p)
  \/ PushBehind(p) \/ PushFirst(p) \/ PushUnlock(p)

GetStep == GetNothing \/ GetNode \/ GetUnlink \/ GetUnlock \/ Deliver

Next ==
  \/ \E p \in Producers : (\E b \in Blocks : PushLock(p, b)) \/ PushStep(p)
  \/ GetLock
  \/ GetStep

Spec == Init /\ [][Next]_vars

\* Threads that run keep running.  The consumer polls without pause while the
\* network thread sleeps ten milliseconds a round, so the consumer gets the lock
\* at some of its attempts.
Fairness ==
  /\ \A p \in Producers : WF_vars(PushStep(p))
  /\ SF_vars(GetLock)
  /\ WF_vars(GetStep)

FairSpec == Spec /\ Fairness

-----------------------------------------------------------------------------
(* Properties *)

LinkPcs == {"link", "behind", "first"}
PushPcs == LinkPcs \cup {"alloc", "pushed"}
GetPcs == {"get", "unlink", "free"}

\* Every variable has its type.
TypeOK ==
  /\ lock \in LockState(Threads)
  /\ head \in Nodes \cup {Null} /\ tail \in Nodes \cup {Null}
  /\ next \in [Nodes -> Nodes \cup {Null}]
  /\ block \in [Nodes -> Blocks \cup {Null}]
  /\ size \in Int
  /\ free \in SUBSET Nodes
  /\ pc \in [Threads -> PushPcs \cup GetPcs \cup {"idle", "deliver"}]
  /\ node \in [Threads -> Nodes \cup {Null}]
  /\ arg \in [Threads -> Blocks \cup {Null}]
  /\ chain \in Seq(Nodes)
  /\ accepted \in Seq(Blocks)
  /\ handed \in Seq(Blocks)

\* Only the owner of the lock is inside pushback or gethead, and each thread
\* is where its own function can take it.
OneInside ==
  /\ \A t \in Threads : pc[t] \in PushPcs \cup GetPcs <=> lock.owner = t
  /\ lock.depth = IF lock.owner = Nobody THEN 0 ELSE 1
  /\ \A p \in Producers : pc[p] \in PushPcs \cup {"idle"}
  /\ pc[Consumer] \in GetPcs \cup {"idle", "deliver"}

\* What the local variables of a thread hold at each step.
LocalsMeanThis ==
  /\ \A p \in Producers : pc[p] \in PushPcs => arg[p] \in Blocks
  /\ \A p \in Producers : pc[p] \in LinkPcs =>
       node[p] \in Nodes /\ block[node[p]] = arg[p] /\ next[node[p]] = Null
  /\ \A p \in Producers : pc[p] = "behind" => tail # Null
  /\ \A p \in Producers : pc[p] = "first" => tail = Null
  /\ pc[Consumer] = "unlink" =>
       head # Null /\ node[Consumer] = head /\ arg[Consumer] = block[head]

\* head, tail and the next fields are the list chain: whatever was pushed is
\* reachable from head, and tail is where the next push links.
ListShape ==
  /\ chain = << >> => head = Null /\ tail = Null
  /\ chain # << >> =>
       head = chain[1] /\ tail = chain[Len(chain)] /\ next[tail] = Null
  /\ \A i \in 1 .. Len(chain) - 1 : next[chain[i]] = chain[i + 1]

\* No node is in the list twice, and no linked node is in the pool or with a
\* thread that has allocated or unlinked it: a freed node that was still
\* reachable would be reused under the reader.
NodesOwnedOnce ==
  /\ \A i, j \in 1 .. Len(chain) : chain[i] = chain[j] => i = j
  /\ \A i \in 1 .. Len(chain) : chain[i] \notin free
  /\ \A t \in Threads : pc[t] \in LinkPcs \cup {"free"} =>
       /\ node[t] \in Nodes \ free
       /\ \A i \in 1 .. Len(chain) : chain[i] # node[t]

\* _size is the length of the list, but for the node that is linked and not
\* counted yet, or unlinked and not counted off yet.
SizeCounts ==
  /\ lock.owner = Nobody => size = Len(chain)
  /\ \A t \in Threads : lock.owner = t =>
       size = CASE pc[t] = "pushed" -> Len(chain) - 1
                [] pc[t] = "free" -> Len(chain) + 1
                [] OTHER -> Len(chain)

\* How many blocks the consumer holds: unlinked, and not yet handed to Lua.
InHand == IF pc[Consumer] \in {"free", "deliver"} THEN 1 ELSE 0

\* Every block linked into the list is still there, is the one in the
\* consumer's hands, or has been handed to Lua, in this order and once.
NothingLost ==
  /\ Len(accepted) = Len(handed) + InHand + Len(chain)
  /\ \A i \in 1 .. Len(handed) : handed[i] = accepted[i]
  /\ InHand = 1 => arg[Consumer] = accepted[Len(handed) + 1]
  /\ \A i \in 1 .. Len(chain) :
       block[chain[i]] = accepted[Len(handed) + InHand + i]

\* The inductive invariant: together these hold in every state, and each step
\* of the code preserves them together.
IInv ==
  /\ TypeOK /\ OneInside /\ LocalsMeanThis /\ ListShape
  /\ NodesOwnedOnce /\ SizeCounts /\ NothingLost

\* The list implements the channel it is used as.
Channel == INSTANCE MsgChannel

ImplementsChannel == Channel!Spec

\* Every block that got into the list reaches Lua.
EveryBlockHandedOut ==
  \A i \in 1 .. MaxPushes : Len(accepted) >= i ~> Len(handed) >= i

=============================================================================
