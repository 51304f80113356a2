-------------------------- MODULE Lifecycle_proofs --------------------------
(***************************************************************************)
(* Proofs about Lifecycle for any numbers of descriptors, starts, events   *)
(* and blocks: FindsWhatItNeeds holds in every state.  LifeIInv is         *)
(* inductive.  What a thread uses is there because of where the script is  *)
(* (Order); that the log's descriptor stays its own needs that every other *)
(* descriptor a thread may close is a socket (OwnSockets), which the two   *)
(* locks see to (LocksHeld) and that there is no client before the server  *)
(* listens (NoClients).                                                    *)
(***************************************************************************)
EXTENDS Lifecycle, WellFoundedInduction, TLAPS

MainPlaces == {"init", "timer", "pool", "run", "listen", "insert", "joinTimer", "stopNet",
               "joinNet", "close", "destroy", "final", "freePool", "stopped", "over"}
NetPlaces == {"unborn", "start", "look", "lock", "work", "schedule", "cancel", "undefined", "over"}
TmrPlaces == {"unborn", "look", "wait", "fire", "remove", "over"}
ConPlaces == {"unborn", "take", "deliver", "giveup", "undefined"}

\* Types; the timer thread is never lost.
Placed ==
  /\ DOMAIN place = LifeThreads
  /\ place["main"] \in MainPlaces /\ place["net"] \in NetPlaces
  /\ place["tmr"] \in TmrPlaces /\ place["con"] \in ConPlaces
  /\ fds \in [Numbers -> {"free", "epoll", "socket", "file"}]
  /\ log \in Numbers \cup {NoNumber} /\ sock \in Numbers \cup {NoNumber}
  /\ DOMAIN at = LifeThreads
  /\ place["net"] = "schedule" => at["net"] \in Numbers
  /\ place["tmr"] = "remove" => at["tmr"] \in Numbers
  /\ keys \subseteq Numbers /\ firstPacks \subseteq Numbers /\ todo \subseteq Numbers
  /\ manager \in {"live", "none"} /\ starts \in Nat

\* From timer_init to timer_destroy.
Up == {"pool", "run", "listen", "insert", "joinTimer"}

\* Where the script is when there is a manager, a server, and a thread that uses them.
Order ==
  /\ manager = "live" <=> place["main"] \in Up
  /\ manager = "none" => firstPacks = {}
  /\ place["main"] \in Up \cup {"timer"} => server = "live"
  /\ place["tmr"] \notin {"unborn", "over"} => place["main"] \in Up
  /\ place["main"] \in {"init", "close", "destroy", "final", "freePool", "stopped", "over"} =>
       place["net"] \in {"unborn", "over"}
  /\ place["net"] = "undefined" => place["main"] \in {"stopNet", "joinNet"}

\* The server does not listen yet.
Unvisited ==
  \/ place["main"] \in {"timer", "pool", "listen", "insert"}
  \/ place["main"] = "run" /\ sock = NoNumber

\* Before the server listens there are no clients.
NoClients ==
  /\ place["main"] \in {"listen", "insert"} => sock # NoNumber
  /\ Unvisited =>
     /\ keys = {} /\ firstPacks = {}
     /\ place["net"] \notin {"schedule", "cancel"} /\ place["tmr"] # "remove"

\* The network thread has its lock during a batch, and the timer thread its own
\* while it fires; the script has the network's when it inserts, or it was reset.
LocksHeld ==
  /\ place["net"] \in {"work", "schedule", "cancel"} => Holds(serverLock, "net")
  /\ place["tmr"] \in {"fire", "remove"} => Holds(managerLock, "tmr")
  /\ place["main"] = "insert" => reset \/ Holds(serverLock, "main")

\* During the first run the consumer has a pool and a Lua state.
ConsumerServed ==
  /\ starts = 0 => place["main"] = "init" /\ place["con"] = "unborn"
  /\ lua # "open" => place["main"] = "over"
  /\ starts <= 1 /\ place["main"] \in {"timer", "pool"} => place["con"] = "unborn"
  /\ starts <= 1 /\ place["main"] \notin {"init", "timer", "pool", "freePool", "stopped", "over"} =>
       pool = "live" /\ place["con"] # "undefined"

\* Up to the second closing of the sockets in the first stop.
Early ==
  /\ starts <= 1
  /\ place["main"] \notin {"destroy", "final", "freePool", "stopped", "over"}
  /\ place["main"] = "init" => starts = 0

IsSocket(fd) == fds[fd] = "socket"

\* Until then the log's file is open, and what a thread is about to close is a
\* socket, unless it is kept from going on.
OwnSockets ==
  Early =>
    /\ log # NoNumber => fds[log] = "file"
    /\ place["main"] # "close" => \A fd \in keys : IsSocket(fd)
    /\ place["main"] = "close" => \A fd \in todo : IsSocket(fd)
    /\ place["main"] \in {"listen", "insert"} => IsSocket(sock)
    /\ \A fd \in firstPacks : IsSocket(fd) \/ (place["net"] = "cancel" /\ at["net"] = fd)
    /\ place["tmr"] = "remove" =>
         /\ IsSocket(at["tmr"]) \/ place["net"] = "cancel"
         /\ at["tmr"] \notin firstPacks
    /\ place["net"] = "schedule" => IsSocket(at["net"])

LifeIInv == Placed /\ Order /\ NoClients /\ LocksHeld /\ ConsumerServed /\ OwnSockets

-----------------------------------------------------------------------------
\* A set of numbers that is not empty has a least one.
LEMMA LeastIsIn ==
  ASSUME NEW S, S \subseteq Numbers, S # {}
  PROVE  Min(S) \in S
<1>1. S \subseteq Nat
  BY LifecycleAssumption
<1>2. \E m \in S : \A i \in S : m =< i
  <2> DEFINE Less == OpToRel(<, Nat)
  <2>1. IsWellFoundedOn(Less, Nat)
    BY NatLessThanWellFounded
  <2>2. \A i, j \in Nat : i < j => <<i, j>> \in Less
    BY DEF OpToRel
  <2>. HIDE DEF Less
  <2>3. \E m \in S : \A i \in S : ~(<<i, m>> \in Less)
    BY <1>1, <2>1, WFMin
  <2>4. \E m \in S : \A i \in S : ~(i < m)
    BY <1>1, <2>2, <2>3
  <2>. QED BY <1>1, <2>4
<1>. QED BY <1>2 DEF Min

\* What the kernel gives out was free.
LEMMA LowestIsFree == HasFree => LowestNumber \in Numbers /\ fds[LowestNumber] = "free"
BY LeastIsIn DEF HasFree, LowestNumber

LEMMA InitNetworkStep == LifeIInv /\ InitNetwork => LifeIInv'
<1> SUFFICES ASSUME LifeIInv, InitNetwork PROVE LifeIInv'
  OBVIOUS
<1> USE LifecycleAssumption DEF LifeIInv
<1>1. LowestNumber \in Numbers /\ fds[LowestNumber] = "free"
  BY LowestIsFree DEF InitNetwork
<1>2. Placed'
  BY <1>1 DEF InitNetwork, Opened, timing, Placed, MainPlaces, NetPlaces, TmrPlaces, ConPlaces,
         LifeThreads
<1>3. Order'
  BY DEF InitNetwork, timing, Placed, Order, Up, LifeThreads
<1>4. NoClients'
  BY <1>1 DEF InitNetwork, timing, Placed, Order, Up, NoClients, Unvisited, LifeThreads
<1>5. LocksHeld'
  BY DEF InitNetwork, Unlocked, timing, Placed, LocksHeld, Holds, LifeThreads
<1>6. ConsumerServed'
  BY DEF InitNetwork, consumer, Placed, ConsumerServed, LifeThreads
<1>7. OwnSockets'
  BY <1>1 DEF InitNetwork, Opened, timing, Placed, Order, Up, OwnSockets, Early, IsSocket,
         LifeThreads, NoClients, Unvisited
<1>. QED BY <1>2, <1>3, <1>4, <1>5, <1>6, <1>7

LEMMA ManagerInitStep == LifeIInv /\ ManagerInit => LifeIInv'
<1> SUFFICES ASSUME LifeIInv, ManagerInit PROVE LifeIInv'
  OBVIOUS
<1> USE LifecycleAssumption DEF LifeIInv
<1>1. Placed'
  <2>1. /\ place' = [place EXCEPT !["main"] = "pool", !["tmr"] = "look"]
        /\ manager' = "live" /\ firstPacks' = {}
    BY DEF ManagerInit, Placed, Order, Up
  <2>. QED BY <2>1 DEF ManagerInit, descriptors, network, local, Placed, MainPlaces, NetPlaces,
                TmrPlaces, ConPlaces, LifeThreads
<1>2. Order'
  BY DEF ManagerInit, LifeGoto, timing, network, Placed, Order, Up, LifeThreads
<1>3. NoClients'
  BY DEF ManagerInit, LifeGoto, timing, network, Placed, Order, Up, NoClients, Unvisited,
         LifeThreads
<1>4. LocksHeld'
  BY DEF ManagerInit, Unlocked, LifeGoto, timing, network, Placed, LocksHeld, Holds, LifeThreads
<1>5. ConsumerServed'
  BY DEF ManagerInit, LifeGoto, consumer, local, Placed, ConsumerServed, LifeThreads
<1>6. OwnSockets'
  BY DEF ManagerInit, LifeGoto, timing, descriptors, network, local, Placed, Order, Up,
         OwnSockets, Early, IsSocket, LifeThreads, NoClients, Unvisited
<1>. QED BY <1>1, <1>2, <1>3, <1>4, <1>5, <1>6

LEMMA InitPoolStep == LifeIInv /\ InitPool => LifeIInv'
<1> SUFFICES ASSUME LifeIInv, InitPool PROVE LifeIInv'
  OBVIOUS
<1> USE LifecycleAssumption DEF LifeIInv
<1>1. Placed'
  BY DEF InitPool, LifeGoto, descriptors, network, timing, local, Placed, MainPlaces, NetPlaces,
         TmrPlaces, ConPlaces, LifeThreads
<1>2. Order'
  BY DEF InitPool, LifeGoto, network, timing, Placed, Order, Up, LifeThreads
<1>3. NoClients'
  BY DEF InitPool, LifeGoto, network, timing, Placed, Order, Up, NoClients, Unvisited,
         LifeThreads
<1>4. LocksHeld'
  BY DEF InitPool, LifeGoto, network, timing, Placed, LocksHeld, Holds, LifeThreads
<1>5. ConsumerServed'
  BY DEF InitPool, LifeGoto, local, Placed, ConsumerServed, LifeThreads
<1>6. OwnSockets'
  BY DEF InitPool, LifeGoto, descriptors, network, timing, local, Placed, Order, Up, OwnSockets,
         Early, IsSocket, LifeThreads, NoClients, Unvisited
<1>. QED BY <1>1, <1>2, <1>3, <1>4, <1>5, <1>6

LEMMA CreateSocketStep == LifeIInv /\ CreateSocket => LifeIInv'
<1> SUFFICES ASSUME LifeIInv, CreateSocket PROVE LifeIInv'
  OBVIOUS
<1> USE LifecycleAssumption DEF LifeIInv
<1>1. LowestNumber \in Numbers /\ fds[LowestNumber] = "free"
  BY LowestIsFree DEF CreateSocket
<1>2. Placed'
  BY <1>1 DEF CreateSocket, Opened, LifeGoto, timing, local, Placed, MainPlaces, NetPlaces,
         TmrPlaces, ConPlaces, LifeThreads
<1>3. Order'
  BY DEF CreateSocket, LifeGoto, timing, Placed, Order, Up, LifeThreads
<1>4. NoClients'
  BY <1>1 DEF CreateSocket, LifeGoto, timing, Placed, Order, Up, NoClients, Unvisited,
         LifeThreads
<1>5. LocksHeld'
  BY DEF CreateSocket, LifeGoto, timing, Placed, LocksHeld, Holds, LifeThreads
<1>6. ConsumerServed'
  BY DEF CreateSocket, LifeGoto, consumer, local, Placed, ConsumerServed, LifeThreads
<1>7. OwnSockets'
  BY <1>1 DEF CreateSocket, Opened, LifeGoto, timing, local, Placed, Order, Up, OwnSockets,
         Early, IsSocket, LifeThreads, NoClients, Unvisited
<1>. QED BY <1>2, <1>3, <1>4, <1>5, <1>6, <1>7

LEMMA InsertLockStep == LifeIInv /\ InsertLock => LifeIInv'
<1> SUFFICES ASSUME LifeIInv, InsertLock PROVE LifeIInv'
  OBVIOUS
<1> USE LifecycleAssumption DEF LifeIInv
<1>1. Placed'
  BY DEF InsertLock, LifeGoto, descriptors, timing, local, Placed, MainPlaces, NetPlaces,
         TmrPlaces, ConPlaces, LifeThreads
<1>2. Order'
  BY DEF InsertLock, LifeGoto, timing, Placed, Order, Up, LifeThreads
<1>3. NoClients'
  BY DEF InsertLock, LifeGoto, timing, Placed, Order, Up, NoClients, Unvisited, LifeThreads
<1>4. LocksHeld'
  BY DEF InsertLock, CanLock, LockedBy, LifeGoto, timing, Placed, LocksHeld, Holds, LifeThreads
<1>5. ConsumerServed'
  BY DEF InsertLock, LifeGoto, consumer, local, Placed, ConsumerServed, LifeThreads
<1>6. OwnSockets'
  BY DEF InsertLock, LifeGoto, descriptors, timing, local, Placed, Order, Up, OwnSockets, Early,
         IsSocket, LifeThreads, NoClients, Unvisited
<1>. QED BY <1>1, <1>2, <1>3, <1>4, <1>5, <1>6

LEMMA InsertHandleStep == LifeIInv /\ InsertHandle => LifeIInv'
<1> SUFFICES ASSUME LifeIInv, InsertHandle PROVE LifeIInv'
  OBVIOUS
<1> USE LifecycleAssumption DEF LifeIInv
<1>1. Placed'
  BY DEF InsertHandle, LifeGoto, descriptors, timing, local, Placed, MainPlaces, NetPlaces,
         TmrPlaces, ConPlaces, LifeThreads, NoClients
<1>2. Order'
  BY DEF InsertHandle, LifeGoto, timing, Placed, Order, Up, LifeThreads
<1>3. NoClients'
  BY DEF InsertHandle, LifeGoto, timing, Placed, Order, Up, NoClients, Unvisited, LifeThreads
<1>4. LocksHeld'
  BY DEF InsertHandle, Unlock, LifeGoto, timing, Holds, Released, Unlocked, Placed, LocksHeld,
         LifeThreads
<1>5. ConsumerServed'
  BY DEF InsertHandle, LifeGoto, consumer, local, Placed, ConsumerServed, LifeThreads
<1>6. OwnSockets'
  BY DEF InsertHandle, LifeGoto, descriptors, timing, local, Placed, Order, Up, OwnSockets,
         Early, IsSocket, LifeThreads, NoClients, Unvisited
<1>. QED BY <1>1, <1>2, <1>3, <1>4, <1>5, <1>6

LEMMA TimerStopStep == LifeIInv /\ TimerStop => LifeIInv'
<1> SUFFICES ASSUME LifeIInv, TimerStop PROVE LifeIInv'
  OBVIOUS
<1> USE LifecycleAssumption DEF LifeIInv
<1>1. Placed'
  BY DEF TimerStop, LifeGoto, descriptors, network, local, Placed, MainPlaces, NetPlaces,
         TmrPlaces, ConPlaces, LifeThreads
<1>2. Order'
  BY DEF TimerStop, LifeGoto, network, Placed, Order, Up, LifeThreads
<1>3. NoClients'
  BY DEF TimerStop, LifeGoto, network, Placed, Order, Up, NoClients, Unvisited, LifeThreads
<1>4. LocksHeld'
  BY DEF TimerStop, CanLock, LifeGoto, network, Placed, LocksHeld, Holds, LifeThreads
<1>5. ConsumerServed'
  BY DEF TimerStop, LifeGoto, consumer, local, Placed, ConsumerServed, LifeThreads
<1>6. OwnSockets'
  BY DEF TimerStop, LifeGoto, descriptors, network, local, Placed, Order, Up, OwnSockets, Early,
         IsSocket, LifeThreads, NoClients, Unvisited
<1>. QED BY <1>1, <1>2, <1>3, <1>4, <1>5, <1>6

LEMMA TimerDestroyStep == LifeIInv /\ TimerDestroy => LifeIInv'
<1> SUFFICES ASSUME LifeIInv, TimerDestroy PROVE LifeIInv'
  OBVIOUS
<1> USE LifecycleAssumption DEF LifeIInv
<1>1. Placed'
  BY DEF TimerDestroy, LifeGoto, descriptors, network, local, Placed, MainPlaces, NetPlaces,
         TmrPlaces, ConPlaces, LifeThreads
<1>2. Order'
  BY DEF TimerDestroy, LifeGoto, network, Placed, Order, Up, LifeThreads, MainPlaces
<1>3. NoClients'
  BY DEF TimerDestroy, LifeGoto, network, Placed, Order, Up, NoClients, Unvisited, LifeThreads
<1>4. LocksHeld'
  BY DEF TimerDestroy, LifeGoto, network, Placed, LocksHeld, Holds, LifeThreads
<1>5. ConsumerServed'
  BY DEF TimerDestroy, LifeGoto, consumer, local, Placed, ConsumerServed, LifeThreads
<1>6. OwnSockets'
  BY DEF TimerDestroy, LifeGoto, descriptors, network, local, Placed, Order, Up, OwnSockets,
         Early, IsSocket, LifeThreads, NoClients, Unvisited
<1>. QED BY <1>1, <1>2, <1>3, <1>4, <1>5, <1>6

LEMMA NetStopStep == LifeIInv /\ NetStop => LifeIInv'
<1> SUFFICES ASSUME LifeIInv, NetStop PROVE LifeIInv'
  OBVIOUS
<1> USE LifecycleAssumption DEF LifeIInv
<1>1. Placed'
  BY DEF NetStop, LifeGoto, descriptors, timing, local, Placed, MainPlaces, NetPlaces,
         TmrPlaces, ConPlaces, LifeThreads
<1>2. Order'
  BY DEF NetStop, LifeGoto, timing, Placed, Order, Up, LifeThreads
<1>3. NoClients'
  BY DEF NetStop, LifeGoto, timing, Placed, Order, Up, NoClients, Unvisited, LifeThreads
<1>4. LocksHeld'
  BY DEF NetStop, LifeGoto, timing, Placed, LocksHeld, Holds, LifeThreads
<1>5. ConsumerServed'
  BY DEF NetStop, LifeGoto, consumer, local, Placed, ConsumerServed, LifeThreads
<1>6. OwnSockets'
  BY DEF NetStop, LifeGoto, descriptors, timing, local, Placed, Order, Up, OwnSockets, Early,
         IsSocket, LifeThreads, NoClients, Unvisited
<1>. QED BY <1>1, <1>2, <1>3, <1>4, <1>5, <1>6

LEMMA NetJoinStep == LifeIInv /\ NetJoin => LifeIInv'
<1> SUFFICES ASSUME LifeIInv, NetJoin PROVE LifeIInv'
  OBVIOUS
<1> USE LifecycleAssumption DEF LifeIInv
<1>1. Placed'
  BY DEF NetJoin, LifeGoto, descriptors, network, timing, Placed, MainPlaces, NetPlaces,
         TmrPlaces, ConPlaces, LifeThreads
<1>2. Order'
  BY DEF NetJoin, LifeGoto, network, timing, Placed, Order, Up, LifeThreads
<1>3. NoClients'
  BY DEF NetJoin, LifeGoto, network, timing, Placed, Order, Up, NoClients, Unvisited,
         LifeThreads
<1>4. LocksHeld'
  BY DEF NetJoin, LifeGoto, network, timing, Placed, LocksHeld, Holds, LifeThreads
<1>5. ConsumerServed'
  BY DEF NetJoin, LifeGoto, consumer, Placed, ConsumerServed, LifeThreads
<1>6. OwnSockets'
  BY DEF NetJoin, LifeGoto, descriptors, network, timing, Placed, Order, Up, OwnSockets, Early,
         IsSocket, LifeThreads, NoClients, Unvisited
<1>. QED BY <1>1, <1>2, <1>3, <1>4, <1>5, <1>6

LEMMA CloseNextStep == LifeIInv /\ CloseNext => LifeIInv'
<1> SUFFICES ASSUME LifeIInv, CloseNext PROVE LifeIInv'
  OBVIOUS
<1> USE LifecycleAssumption DEF LifeIInv
<1>1. PICK fd \in todo : fds' = [fds EXCEPT ![fd] = "free"] /\ todo' = todo \ {fd}
  <2>1. Min(todo) \in todo
    BY LeastIsIn DEF CloseNext, Placed
  <2>. QED BY <2>1 DEF CloseNext, Closed
<1>2. Placed'
  <2>1. fds' \in [Numbers -> {"free", "epoll", "socket", "file"}] /\ todo' \subseteq Numbers
    BY <1>1 DEF Placed
  <2>. QED BY <2>1 DEF CloseNext, network, timing, Placed, MainPlaces, NetPlaces, TmrPlaces,
                ConPlaces, LifeThreads
<1>3. Order'
  BY DEF CloseNext, network, timing, Placed, Order, Up, LifeThreads
<1>4. NoClients'
  BY DEF CloseNext, network, timing, Placed, Order, Up, NoClients, Unvisited, LifeThreads
<1>5. LocksHeld'
  BY DEF CloseNext, network, timing, Placed, LocksHeld, Holds, LifeThreads
<1>6. ConsumerServed'
  BY DEF CloseNext, consumer, Placed, ConsumerServed, LifeThreads
<1>7. OwnSockets'
  BY <1>1 DEF CloseNext, network, timing, Placed, Order, Up, OwnSockets, Early,
         IsSocket, LifeThreads, NoClients, Unvisited
<1>. QED BY <1>2, <1>3, <1>4, <1>5, <1>6, <1>7

LEMMA CloseDoneStep == LifeIInv /\ CloseDone => LifeIInv'
<1> SUFFICES ASSUME LifeIInv, CloseDone PROVE LifeIInv'
  OBVIOUS
<1> USE LifecycleAssumption DEF LifeIInv
<1>1. Placed'
  BY DEF CloseDone, LifeGoto, descriptors, network, timing, Placed, MainPlaces, NetPlaces,
         TmrPlaces, ConPlaces, LifeThreads
<1>2. Order'
  BY DEF CloseDone, LifeGoto, network, timing, Placed, Order, Up, LifeThreads
<1>3. NoClients'
  BY DEF CloseDone, LifeGoto, network, timing, Placed, Order, Up, NoClients, Unvisited,
         LifeThreads
<1>4. LocksHeld'
  BY DEF CloseDone, LifeGoto, network, timing, Placed, LocksHeld, Holds, LifeThreads
<1>5. ConsumerServed'
  BY DEF CloseDone, LifeGoto, consumer, Placed, ConsumerServed, LifeThreads
<1>6. OwnSockets'
  BY DEF CloseDone, LifeGoto, descriptors, network, timing, Placed, Order, Up, OwnSockets,
         Early, IsSocket, LifeThreads, NoClients, Unvisited
<1>. QED BY <1>1, <1>2, <1>3, <1>4, <1>5, <1>6

LEMMA DestroyNextStep == LifeIInv /\ DestroyNext => LifeIInv'
<1> SUFFICES ASSUME LifeIInv, DestroyNext PROVE LifeIInv'
  OBVIOUS
<1> USE LifecycleAssumption DEF LifeIInv
<1>1. Placed'
  BY DEF DestroyNext, Closed, network, timing, Placed, MainPlaces, NetPlaces, TmrPlaces,
         ConPlaces, LifeThreads
<1>2. Order'
  BY DEF DestroyNext, network, timing, Placed, Order, Up, LifeThreads
<1>3. NoClients'
  BY DEF DestroyNext, network, timing, Placed, Order, Up, NoClients, Unvisited, LifeThreads
<1>4. LocksHeld'
  BY DEF DestroyNext, network, timing, Placed, LocksHeld, Holds, LifeThreads
<1>5. ConsumerServed'
  BY DEF DestroyNext, consumer, Placed, ConsumerServed, LifeThreads
<1>6. OwnSockets'
  BY DEF DestroyNext, Closed, network, timing, Placed, Order, Up, OwnSockets, Early, IsSocket,
         LifeThreads, NoClients, Unvisited
<1>. QED BY <1>1, <1>2, <1>3, <1>4, <1>5, <1>6

LEMMA DestroyDoneStep == LifeIInv /\ DestroyDone => LifeIInv'
<1> SUFFICES ASSUME LifeIInv, DestroyDone PROVE LifeIInv'
  OBVIOUS
<1> USE LifecycleAssumption DEF LifeIInv
<1>1. Placed'
  BY DEF DestroyDone, LifeGoto, descriptors, timing, local, Placed, MainPlaces, NetPlaces,
         TmrPlaces, ConPlaces, LifeThreads
<1>2. Order'
  BY DEF DestroyDone, LifeGoto, timing, Placed, Order, Up, LifeThreads
<1>3. NoClients'
  BY DEF DestroyDone, LifeGoto, timing, Placed, Order, Up, NoClients, Unvisited, LifeThreads
<1>4. LocksHeld'
  BY DEF DestroyDone, LifeGoto, timing, Placed, LocksHeld, Holds, LifeThreads
<1>5. ConsumerServed'
  BY DEF DestroyDone, LifeGoto, consumer, local, Placed, ConsumerServed, LifeThreads
<1>6. OwnSockets'
  BY DEF DestroyDone, LifeGoto, descriptors, timing, local, Placed, Order, Up, OwnSockets,
         Early, IsSocket, LifeThreads, NoClients, Unvisited
<1>. QED BY <1>1, <1>2, <1>3, <1>4, <1>5, <1>6

LEMMA PoolFinalStep == LifeIInv /\ PoolFinal => LifeIInv'
<1> SUFFICES ASSUME LifeIInv, PoolFinal PROVE LifeIInv'
  OBVIOUS
<1> USE LifecycleAssumption DEF LifeIInv
<1>1. Placed'
  BY DEF PoolFinal, LifeGoto, descriptors, network, timing, local, Placed, MainPlaces,
         NetPlaces, TmrPlaces, ConPlaces, LifeThreads
<1>2. Order'
  BY DEF PoolFinal, LifeGoto, network, timing, Placed, Order, Up, LifeThreads
<1>3. NoClients'
  BY DEF PoolFinal, LifeGoto, network, timing, Placed, Order, Up, NoClients, Unvisited,
         LifeThreads
<1>4. LocksHeld'
  BY DEF PoolFinal, LifeGoto, network, timing, Placed, LocksHeld, Holds, LifeThreads
<1>5. ConsumerServed'
  BY DEF PoolFinal, LifeGoto, local, Placed, ConsumerServed, LifeThreads
<1>6. OwnSockets'
  BY DEF PoolFinal, LifeGoto, descriptors, network, timing, local, Placed, Order, Up,
         OwnSockets, Early, IsSocket, LifeThreads, NoClients, Unvisited
<1>. QED BY <1>1, <1>2, <1>3, <1>4, <1>5, <1>6

LEMMA PoolFreeStep == LifeIInv /\ PoolFree => LifeIInv'
<1> SUFFICES ASSUME LifeIInv, PoolFree PROVE LifeIInv'
  OBVIOUS
<1> USE LifecycleAssumption DEF LifeIInv
<1>1. Placed'
  BY DEF PoolFree, LifeGoto, descriptors, network, timing, local, Placed, MainPlaces, NetPlaces,
         TmrPlaces, ConPlaces, LifeThreads
<1>2. Order'
  BY DEF PoolFree, LifeGoto, network, timing, Placed, Order, Up, LifeThreads
<1>3. NoClients'
  BY DEF PoolFree, LifeGoto, network, timing, Placed, Order, Up, NoClients, Unvisited,
         LifeThreads
<1>4. LocksHeld'
  BY DEF PoolFree, LifeGoto, network, timing, Placed, LocksHeld, Holds, LifeThreads
<1>5. ConsumerServed'
  BY DEF PoolFree, LifeGoto, local, Placed, ConsumerServed, LifeThreads
<1>6. OwnSockets'
  BY DEF PoolFree, LifeGoto, descriptors, network, timing, local, Placed, Order, Up, OwnSockets,
         Early, IsSocket, LifeThreads, NoClients, Unvisited
<1>. QED BY <1>1, <1>2, <1>3, <1>4, <1>5, <1>6

LEMMA StartAgainStep == LifeIInv /\ StartAgain => LifeIInv'
<1> SUFFICES ASSUME LifeIInv, StartAgain PROVE LifeIInv'
  OBVIOUS
<1> USE LifecycleAssumption DEF LifeIInv
<1>1. Placed'
  BY DEF StartAgain, LifeGoto, descriptors, network, timing, local, Placed, MainPlaces,
         NetPlaces, TmrPlaces, ConPlaces, LifeThreads
<1>2. Order'
  BY DEF StartAgain, LifeGoto, network, timing, Placed, Order, Up, LifeThreads
<1>3. NoClients'
  BY DEF StartAgain, LifeGoto, network, timing, Placed, Order, Up, NoClients, Unvisited,
         LifeThreads
<1>4. LocksHeld'
  BY DEF StartAgain, LifeGoto, network, timing, Placed, LocksHeld, Holds, LifeThreads
<1>5. ConsumerServed'
  BY DEF StartAgain, LifeGoto, consumer, local, Placed, ConsumerServed, LifeThreads
<1>6. OwnSockets'
  BY DEF StartAgain, LifeGoto, descriptors, network, timing, local, Placed, Order, Up,
         OwnSockets, Early, IsSocket, LifeThreads, NoClients, Unvisited, ConsumerServed
<1>. QED BY <1>1, <1>2, <1>3, <1>4, <1>5, <1>6

LEMMA CloseLuaStep == LifeIInv /\ CloseLua => LifeIInv'
<1> SUFFICES ASSUME LifeIInv, CloseLua PROVE LifeIInv'
  OBVIOUS
<1> USE LifecycleAssumption DEF LifeIInv
<1>1. Placed'
  BY DEF CloseLua, LifeGoto, descriptors, network, timing, local, Placed, MainPlaces, NetPlaces,
         TmrPlaces, ConPlaces, LifeThreads
<1>2. Order'
  BY DEF CloseLua, LifeGoto, network, timing, Placed, Order, Up, LifeThreads
<1>3. NoClients'
  BY DEF CloseLua, LifeGoto, network, timing, Placed, Order, Up, NoClients, Unvisited,
         LifeThreads
<1>4. LocksHeld'
  BY DEF CloseLua, LifeGoto, network, timing, Placed, LocksHeld, Holds, LifeThreads
<1>5. ConsumerServed'
  BY DEF CloseLua, LifeGoto, local, Placed, ConsumerServed, LifeThreads
<1>6. OwnSockets'
  BY DEF CloseLua, LifeGoto, descriptors, network, timing, local, Placed, Order, Up, OwnSockets,
         Early, IsSocket, LifeThreads, NoClients, Unvisited
<1>. QED BY <1>1, <1>2, <1>3, <1>4, <1>5, <1>6

LEMMA NetStartStep == LifeIInv /\ NetStart => LifeIInv'
<1> SUFFICES ASSUME LifeIInv, NetStart PROVE LifeIInv'
  OBVIOUS
<1> USE LifecycleAssumption DEF LifeIInv
<1>1. Placed'
  BY DEF NetStart, LifeGoto, descriptors, timing, local, Placed, MainPlaces, NetPlaces,
         TmrPlaces, ConPlaces, LifeThreads
<1>2. Order'
  BY DEF NetStart, LifeGoto, timing, Placed, Order, Up, LifeThreads
<1>3. NoClients'
  BY DEF NetStart, LifeGoto, timing, Placed, Order, Up, NoClients, Unvisited, LifeThreads
<1>4. LocksHeld'
  BY DEF NetStart, Unlocked, LifeGoto, timing, Placed, LocksHeld, Holds, LifeThreads
<1>5. ConsumerServed'
  BY DEF NetStart, LifeGoto, consumer, local, Placed, ConsumerServed, LifeThreads
<1>6. OwnSockets'
  BY DEF NetStart, LifeGoto, descriptors, timing, local, Placed, Order, Up, OwnSockets, Early,
         IsSocket, LifeThreads, NoClients, Unvisited
<1>. QED BY <1>1, <1>2, <1>3, <1>4, <1>5, <1>6

LEMMA NetLookStep == LifeIInv /\ NetLook => LifeIInv'
<1> SUFFICES ASSUME LifeIInv, NetLook PROVE LifeIInv'
  OBVIOUS
<1> USE LifecycleAssumption DEF LifeIInv
<1>1. Placed'
  BY DEF NetLook, LifeGoto, descriptors, network, timing, local, Placed, MainPlaces, NetPlaces,
         TmrPlaces, ConPlaces, LifeThreads
<1>2. Order'
  BY DEF NetLook, LifeGoto, network, timing, Placed, Order, Up, LifeThreads
<1>3. NoClients'
  BY DEF NetLook, LifeGoto, network, timing, Placed, Order, Up, NoClients, Unvisited,
         LifeThreads
<1>4. LocksHeld'
  BY DEF NetLook, LifeGoto, network, timing, Placed, LocksHeld, Holds, LifeThreads
<1>5. ConsumerServed'
  BY DEF NetLook, LifeGoto, consumer, local, Placed, ConsumerServed, LifeThreads
<1>6. OwnSockets'
  BY DEF NetLook, LifeGoto, descriptors, network, timing, local, Placed, Order, Up, OwnSockets,
         Early, IsSocket, LifeThreads, NoClients, Unvisited
<1>. QED BY <1>1, <1>2, <1>3, <1>4, <1>5, <1>6

LEMMA BatchLockStep == LifeIInv /\ BatchLock => LifeIInv'
<1> SUFFICES ASSUME LifeIInv, BatchLock PROVE LifeIInv'
  OBVIOUS
<1> USE LifecycleAssumption DEF LifeIInv
<1>1. Placed'
  BY DEF BatchLock, LifeGoto, descriptors, timing, Placed, MainPlaces, NetPlaces, TmrPlaces,
         ConPlaces, LifeThreads
<1>2. Order'
  BY DEF BatchLock, LifeGoto, timing, Placed, Order, Up, LifeThreads
<1>3. NoClients'
  BY DEF BatchLock, LifeGoto, timing, Placed, Order, Up, NoClients, Unvisited, LifeThreads
<1>4. LocksHeld'
  BY DEF BatchLock, CanLock, LockedBy, LifeGoto, timing, Placed, LocksHeld, Holds, LifeThreads
<1>5. ConsumerServed'
  BY DEF BatchLock, LifeGoto, consumer, Placed, ConsumerServed, LifeThreads
<1>6. OwnSockets'
  BY DEF BatchLock, LifeGoto, descriptors, timing, Placed, Order, Up, OwnSockets, Early,
         IsSocket, LifeThreads, NoClients, Unvisited
<1>. QED BY <1>1, <1>2, <1>3, <1>4, <1>5, <1>6

LEMMA BatchUnlockStep == LifeIInv /\ BatchUnlock => LifeIInv'
<1> SUFFICES ASSUME LifeIInv, BatchUnlock PROVE LifeIInv'
  OBVIOUS
<1> USE LifecycleAssumption DEF LifeIInv
<1>1. Placed'
  BY DEF BatchUnlock, LifeGoto, descriptors, timing, Placed, MainPlaces, NetPlaces, TmrPlaces,
         ConPlaces, LifeThreads
<1>2. Order'
  BY DEF BatchUnlock, LifeGoto, timing, Placed, Order, Up, LifeThreads
<1>3. NoClients'
  BY DEF BatchUnlock, LifeGoto, timing, Placed, Order, Up, NoClients, Unvisited, LifeThreads
<1>4. LocksHeld'
  BY DEF BatchUnlock, Unlock, LifeGoto, timing, Holds, Released, Unlocked, Placed, LocksHeld,
         LifeThreads
<1>5. ConsumerServed'
  BY DEF BatchUnlock, LifeGoto, consumer, Placed, ConsumerServed, LifeThreads
<1>6. OwnSockets'
  BY DEF BatchUnlock, LifeGoto, descriptors, timing, Placed, Order, Up, OwnSockets, Early,
         IsSocket, LifeThreads, NoClients, Unvisited
<1>. QED BY <1>1, <1>2, <1>3, <1>4, <1>5, <1>6

LEMMA AcceptClientStep == LifeIInv /\ AcceptClient => LifeIInv'
<1> SUFFICES ASSUME LifeIInv, AcceptClient PROVE LifeIInv'
  OBVIOUS
<1> USE LifecycleAssumption DEF LifeIInv
<1>1. LowestNumber \in Numbers /\ fds[LowestNumber] = "free"
  BY LowestIsFree DEF AcceptClient
<1>2. Placed'
  BY <1>1 DEF AcceptClient, InBatch, Opened, LifeGoto, timing, Placed, MainPlaces, NetPlaces,
         TmrPlaces, ConPlaces, LifeThreads
<1>3. Order'
  BY DEF AcceptClient, InBatch, LifeGoto, timing, Placed, Order, Up, LifeThreads
<1>4. NoClients'
  BY <1>1 DEF AcceptClient, InBatch, LifeGoto, timing, Placed, Order, Up, NoClients, Unvisited,
         LifeThreads
<1>5. LocksHeld'
  BY DEF AcceptClient, InBatch, LifeGoto, timing, Placed, LocksHeld, Holds, LifeThreads
<1>6. ConsumerServed'
  BY DEF AcceptClient, InBatch, LifeGoto, consumer, Placed, ConsumerServed, LifeThreads
<1>7. OwnSockets'
  BY <1>1 DEF AcceptClient, InBatch, Opened, LifeGoto, timing, Placed, Order, Up, OwnSockets,
         Early, IsSocket, LifeThreads, NoClients, Unvisited
<1>. QED BY <1>2, <1>3, <1>4, <1>5, <1>6, <1>7

LEMMA NetScheduleStep == LifeIInv /\ NetSchedule => LifeIInv'
<1> SUFFICES ASSUME LifeIInv, NetSchedule PROVE LifeIInv'
  OBVIOUS
<1> USE LifecycleAssumption DEF LifeIInv
<1>1. Placed'
  BY DEF NetSchedule, LifeGoto, descriptors, network, Placed, MainPlaces, NetPlaces, TmrPlaces,
         ConPlaces, LifeThreads
<1>2. Order'
  BY DEF NetSchedule, LifeGoto, network, Placed, Order, Up, LifeThreads, NoClients, Unvisited,
         MainPlaces
<1>3. NoClients'
  BY DEF NetSchedule, LifeGoto, network, Placed, Order, Up, NoClients, Unvisited, LifeThreads
<1>4. LocksHeld'
  BY DEF NetSchedule, LifeGoto, CanLock, network, Placed, LocksHeld, Holds, LifeThreads
<1>5. ConsumerServed'
  BY DEF NetSchedule, LifeGoto, consumer, Placed, ConsumerServed, LifeThreads
<1>6. OwnSockets'
  <2>1. CASE manager = "none"
    <3>1. firstPacks' = {} /\ place' = [place EXCEPT !["net"] = "undefined"]
      BY <2>1 DEF NetSchedule, LifeGoto, Order
    <3>. QED BY <3>1 DEF NetSchedule, descriptors, network, Placed, OwnSockets, Early, IsSocket,
                LifeThreads
  <2>2. CASE manager = "live"
    <3>1. /\ firstPacks' = firstPacks \cup {at["net"]} /\ place' = [place EXCEPT !["net"] = "work"]
          /\ place["tmr"] # "remove"
      BY <2>2 DEF NetSchedule, LifeGoto, LocksHeld, Holds, CanLock, LifeThreads
    <3>. QED BY <3>1 DEF NetSchedule, descriptors, network, Placed, OwnSockets, Early, IsSocket,
                LifeThreads
  <2>. QED BY <2>1, <2>2 DEF NetSchedule
<1>. QED BY <1>1, <1>2, <1>3, <1>4, <1>5, <1>6

LEMMA ReadFrameStep == LifeIInv /\ ReadFrame => LifeIInv'
<1> SUFFICES ASSUME LifeIInv, ReadFrame PROVE LifeIInv'
  OBVIOUS
<1> USE LifecycleAssumption DEF LifeIInv
<1>1. Placed'
  BY DEF ReadFrame, InBatch, Kept, CancelTest, descriptors, network, timing, Placed, MainPlaces,
         NetPlaces, TmrPlaces, ConPlaces, LifeThreads
<1>2. Order'
  BY DEF ReadFrame, InBatch, CancelTest, network, timing, Placed, Order, Up, LifeThreads
<1>3. NoClients'
  BY DEF ReadFrame, InBatch, CancelTest, network, timing, Placed, Order, Up, NoClients,
         Unvisited, LifeThreads
<1>4. LocksHeld'
  BY DEF ReadFrame, InBatch, CancelTest, network, timing, Placed, LocksHeld, Holds, LifeThreads
<1>5. ConsumerServed'
  BY DEF ReadFrame, InBatch, CancelTest, Placed, ConsumerServed, LifeThreads, NoClients,
         Unvisited, Order, Up, MainPlaces, NetPlaces
<1>6. OwnSockets'
  BY DEF ReadFrame, InBatch, Kept, CancelTest, descriptors, network, timing, Placed, Order, Up,
         OwnSockets, Early, IsSocket, LifeThreads, NoClients, Unvisited
<1>. QED BY <1>1, <1>2, <1>3, <1>4, <1>5, <1>6

LEMMA HangUpStep == LifeIInv /\ HangUp => LifeIInv'
<1> SUFFICES ASSUME LifeIInv, HangUp PROVE LifeIInv'
  OBVIOUS
<1> USE LifecycleAssumption DEF LifeIInv
<1>1. Placed'
  BY DEF HangUp, InBatch, Closed, Kept, LifeGoto, CancelTest, timing, Placed, MainPlaces,
         NetPlaces, TmrPlaces, ConPlaces, LifeThreads
<1>2. Order'
  BY DEF HangUp, InBatch, LifeGoto, CancelTest, timing, Placed, Order, Up, LifeThreads
<1>3. NoClients'
  BY DEF HangUp, InBatch, LifeGoto, CancelTest, timing, Placed, Order, Up, NoClients, Unvisited,
         LifeThreads
<1>4. LocksHeld'
  BY DEF HangUp, InBatch, LifeGoto, CancelTest, timing, Placed, LocksHeld, Holds, LifeThreads
<1>5. ConsumerServed'
  BY DEF HangUp, InBatch, LifeGoto, CancelTest, consumer, Placed, ConsumerServed, LifeThreads
<1>6. OwnSockets'
  BY DEF HangUp, InBatch, Closed, Kept, LifeGoto, CancelTest, timing, Placed, Order, Up,
         OwnSockets, Early, IsSocket, LifeThreads, LocksHeld, Holds, CanLock, NoClients,
         Unvisited
<1>. QED BY <1>1, <1>2, <1>3, <1>4, <1>5, <1>6

LEMMA NetCancelStep == LifeIInv /\ NetCancel => LifeIInv'
<1> SUFFICES ASSUME LifeIInv, NetCancel PROVE LifeIInv'
  OBVIOUS
<1> USE LifecycleAssumption DEF LifeIInv
<1>1. Placed'
  BY DEF NetCancel, LifeGoto, descriptors, network, Placed, MainPlaces, NetPlaces, TmrPlaces,
         ConPlaces, LifeThreads
<1>2. Order'
  BY DEF NetCancel, LifeGoto, network, Placed, Order, Up, LifeThreads, NoClients, Unvisited,
         NetPlaces, MainPlaces
<1>3. NoClients'
  BY DEF NetCancel, LifeGoto, network, Placed, Order, Up, NoClients, Unvisited, LifeThreads
<1>4. LocksHeld'
  BY DEF NetCancel, LifeGoto, CanLock, network, Placed, LocksHeld, Holds, LifeThreads
<1>5. ConsumerServed'
  BY DEF NetCancel, LifeGoto, consumer, Placed, ConsumerServed, LifeThreads
<1>6. OwnSockets'
  <2>1. CASE manager = "none"
    <3>1. firstPacks' = {} /\ place' = [place EXCEPT !["net"] = "undefined"]
      BY <2>1 DEF NetCancel, LifeGoto, Order
    <3>2. place["tmr"] # "remove"
      BY <2>1 DEF Order, Placed, TmrPlaces
    <3>. QED BY <3>1, <3>2 DEF NetCancel, descriptors, network, Placed, OwnSockets, Early,
                IsSocket, LifeThreads
  <2>2. CASE manager = "live"
    <3>1. /\ firstPacks' = firstPacks \ {at["net"]} /\ place' = [place EXCEPT !["net"] = "work"]
          /\ place["tmr"] # "remove"
      BY <2>2 DEF NetCancel, LifeGoto, LocksHeld, Holds, CanLock, LifeThreads
    <3>. QED BY <3>1 DEF NetCancel, descriptors, network, Placed, OwnSockets, Early, IsSocket,
                LifeThreads
  <2>. QED BY <2>1, <2>2 DEF NetCancel
<1>. QED BY <1>1, <1>2, <1>3, <1>4, <1>5, <1>6

LEMMA TmrLookStep == LifeIInv /\ TmrLook => LifeIInv'
<1> SUFFICES ASSUME LifeIInv, TmrLook PROVE LifeIInv'
  OBVIOUS
<1> USE LifecycleAssumption DEF LifeIInv
<1>1. Placed'
  BY DEF TmrLook, LifeGoto, descriptors, network, timing, local, Placed, MainPlaces, NetPlaces,
         TmrPlaces, ConPlaces, LifeThreads, Order, Up
<1>2. Order'
  BY DEF TmrLook, LifeGoto, network, timing, Placed, Order, Up, LifeThreads
<1>3. NoClients'
  BY DEF TmrLook, LifeGoto, network, timing, Placed, Order, Up, NoClients, Unvisited,
         LifeThreads
<1>4. LocksHeld'
  BY DEF TmrLook, LifeGoto, CanLock, network, timing, Placed, LocksHeld, Holds, LifeThreads
<1>5. ConsumerServed'
  BY DEF TmrLook, LifeGoto, consumer, local, Placed, ConsumerServed, LifeThreads
<1>6. OwnSockets'
  BY DEF TmrLook, LifeGoto, descriptors, network, timing, local, Placed, Order, Up, OwnSockets,
         Early, IsSocket, LifeThreads, NoClients, Unvisited
<1>. QED BY <1>1, <1>2, <1>3, <1>4, <1>5, <1>6

LEMMA TmrWakeStep == LifeIInv /\ TmrWake => LifeIInv'
<1> SUFFICES ASSUME LifeIInv, TmrWake PROVE LifeIInv'
  OBVIOUS
<1> USE LifecycleAssumption DEF LifeIInv
<1>1. Placed'
  BY DEF TmrWake, LifeGoto, descriptors, network, local, Placed, MainPlaces, NetPlaces,
         TmrPlaces, ConPlaces, LifeThreads, Order, Up
<1>2. Order'
  BY DEF TmrWake, LifeGoto, network, Placed, Order, Up, LifeThreads
<1>3. NoClients'
  BY DEF TmrWake, LifeGoto, network, Placed, Order, Up, NoClients, Unvisited, LifeThreads
<1>4. LocksHeld'
  BY DEF TmrWake, LifeGoto, CanLock, LockedBy, network, Placed, LocksHeld, Holds, LifeThreads
<1>5. ConsumerServed'
  BY DEF TmrWake, LifeGoto, consumer, local, Placed, ConsumerServed, LifeThreads
<1>6. OwnSockets'
  BY DEF TmrWake, LifeGoto, descriptors, network, local, Placed, Order, Up, OwnSockets, Early,
         IsSocket, LifeThreads, NoClients, Unvisited
<1>. QED BY <1>1, <1>2, <1>3, <1>4, <1>5, <1>6

LEMMA FireStep == LifeIInv /\ Fire => LifeIInv'
<1> SUFFICES ASSUME LifeIInv, Fire PROVE LifeIInv'
  OBVIOUS
<1> USE LifecycleAssumption DEF LifeIInv
<1>1. Placed'
  BY DEF Fire, LifeGoto, descriptors, network, Placed, MainPlaces, NetPlaces, TmrPlaces,
         ConPlaces, LifeThreads
<1>2. Order'
  BY DEF Fire, LifeGoto, network, Placed, Order, Up, LifeThreads
<1>3. NoClients'
  BY DEF Fire, LifeGoto, network, Placed, Order, Up, NoClients, Unvisited, LifeThreads
<1>4. LocksHeld'
  BY DEF Fire, LifeGoto, network, Placed, LocksHeld, Holds, LifeThreads
<1>5. ConsumerServed'
  BY DEF Fire, LifeGoto, consumer, Placed, ConsumerServed, LifeThreads
<1>6. OwnSockets'
  BY DEF Fire, LifeGoto, descriptors, network, Placed, Order, Up, OwnSockets, Early, IsSocket,
         LifeThreads, NoClients, Unvisited
<1>. QED BY <1>1, <1>2, <1>3, <1>4, <1>5, <1>6

LEMMA FireRemoveStep == LifeIInv /\ FireRemove => LifeIInv'
<1> SUFFICES ASSUME LifeIInv, FireRemove PROVE LifeIInv'
  OBVIOUS
<1> USE LifecycleAssumption DEF LifeIInv
<1>1. Placed'
  BY DEF FireRemove, LifeGoto, Closed, timing, Placed, MainPlaces, NetPlaces, TmrPlaces,
         ConPlaces, LifeThreads, Order, Up
<1>2. Order'
  BY DEF FireRemove, LifeGoto, timing, Placed, Order, Up, LifeThreads
<1>3. NoClients'
  BY DEF FireRemove, LifeGoto, timing, Placed, Order, Up, NoClients, Unvisited, LifeThreads
<1>4. LocksHeld'
  BY DEF FireRemove, LifeGoto, CanLock, timing, Placed, LocksHeld, Holds, LifeThreads
<1>5. ConsumerServed'
  BY DEF FireRemove, LifeGoto, consumer, Placed, ConsumerServed, LifeThreads
<1>6. OwnSockets'
  <2>1. PICK fd \in Numbers :
          /\ fd = at["tmr"]
          /\ fds' = [fds EXCEPT ![fd] = "free"] /\ keys' = keys \ {fd}
    BY DEF FireRemove, Closed, Placed, Order, Up
  <2>2. place["net"] \notin {"schedule", "cancel"}
    BY DEF FireRemove, LocksHeld, Holds, CanLock, LifeThreads, Order, Up
  <2>3. place["main"] \in {"pool", "run", "joinTimer"}
    BY DEF FireRemove, Order, Up, NoClients, Unvisited
  <2>4. place' = [place EXCEPT !["tmr"] = "fire"]
    BY <2>3 DEF FireRemove, LifeGoto, Order, Up
  <2>. QED BY <2>1, <2>2, <2>3, <2>4
           DEF FireRemove, timing, Placed, OwnSockets, Early, IsSocket, LifeThreads
<1>. QED BY <1>1, <1>2, <1>3, <1>4, <1>5, <1>6

LEMMA TmrUnlockStep == LifeIInv /\ TmrUnlock => LifeIInv'
<1> SUFFICES ASSUME LifeIInv, TmrUnlock PROVE LifeIInv'
  OBVIOUS
<1> USE LifecycleAssumption DEF LifeIInv
<1>1. Placed'
  BY DEF TmrUnlock, LifeGoto, descriptors, network, local, Placed, MainPlaces, NetPlaces,
         TmrPlaces, ConPlaces, LifeThreads
<1>2. Order'
  BY DEF TmrUnlock, LifeGoto, network, Placed, Order, Up, LifeThreads
<1>3. NoClients'
  BY DEF TmrUnlock, LifeGoto, network, Placed, Order, Up, NoClients, Unvisited, LifeThreads
<1>4. LocksHeld'
  BY DEF TmrUnlock, Unlock, LifeGoto, network, Holds, Released, Unlocked, Placed, LocksHeld,
         LifeThreads
<1>5. ConsumerServed'
  BY DEF TmrUnlock, LifeGoto, consumer, local, Placed, ConsumerServed, LifeThreads
<1>6. OwnSockets'
  BY DEF TmrUnlock, LifeGoto, descriptors, network, local, Placed, Order, Up, OwnSockets, Early,
         IsSocket, LifeThreads, NoClients, Unvisited
<1>. QED BY <1>1, <1>2, <1>3, <1>4, <1>5, <1>6

LEMMA ConTakeStep == LifeIInv /\ ConTake => LifeIInv'
<1> SUFFICES ASSUME LifeIInv, ConTake PROVE LifeIInv'
  OBVIOUS
<1> USE LifecycleAssumption DEF LifeIInv
<1>1. Placed'
  BY DEF ConTake, LifeGoto, descriptors, network, timing, local, Placed, MainPlaces, NetPlaces,
         TmrPlaces, ConPlaces, LifeThreads
<1>2. Order'
  BY DEF ConTake, LifeGoto, network, timing, Placed, Order, Up, LifeThreads
<1>3. NoClients'
  BY DEF ConTake, LifeGoto, network, timing, Placed, Order, Up, NoClients, Unvisited,
         LifeThreads
<1>4. LocksHeld'
  BY DEF ConTake, LifeGoto, network, timing, Placed, LocksHeld, Holds, LifeThreads
<1>5. ConsumerServed'
  BY DEF ConTake, LifeGoto, local, Placed, ConsumerServed, LifeThreads
<1>6. OwnSockets'
  BY DEF ConTake, LifeGoto, descriptors, network, timing, local, Placed, Order, Up, OwnSockets,
         Early, IsSocket, LifeThreads, NoClients, Unvisited
<1>. QED BY <1>1, <1>2, <1>3, <1>4, <1>5, <1>6

LEMMA ConDeliverStep == LifeIInv /\ ConDeliver => LifeIInv'
<1> SUFFICES ASSUME LifeIInv, ConDeliver PROVE LifeIInv'
  OBVIOUS
<1> USE LifecycleAssumption DEF LifeIInv
<1>1. Placed'
  BY DEF ConDeliver, LifeGoto, descriptors, network, timing, local, Placed, MainPlaces,
         NetPlaces, TmrPlaces, ConPlaces, LifeThreads
<1>2. Order'
  BY DEF ConDeliver, LifeGoto, network, timing, Placed, Order, Up, LifeThreads
<1>3. NoClients'
  BY DEF ConDeliver, LifeGoto, network, timing, Placed, Order, Up, NoClients, Unvisited,
         LifeThreads
<1>4. LocksHeld'
  BY DEF ConDeliver, LifeGoto, network, timing, Placed, LocksHeld, Holds, LifeThreads
<1>5. ConsumerServed'
  BY DEF ConDeliver, LifeGoto, consumer, local, Placed, ConsumerServed, LifeThreads
<1>6. OwnSockets'
  BY DEF ConDeliver, LifeGoto, descriptors, network, timing, local, Placed, Order, Up,
         OwnSockets, Early, IsSocket, LifeThreads, NoClients, Unvisited
<1>. QED BY <1>1, <1>2, <1>3, <1>4, <1>5, <1>6

LEMMA ConGiveUpStep == LifeIInv /\ ConGiveUp => LifeIInv'
<1> SUFFICES ASSUME LifeIInv, ConGiveUp PROVE LifeIInv'
  OBVIOUS
<1> USE LifecycleAssumption DEF LifeIInv
<1>1. Placed'
  BY DEF ConGiveUp, LifeGoto, descriptors, network, timing, local, Placed, MainPlaces,
         NetPlaces, TmrPlaces, ConPlaces, LifeThreads
<1>2. Order'
  BY DEF ConGiveUp, LifeGoto, network, timing, Placed, Order, Up, LifeThreads
<1>3. NoClients'
  BY DEF ConGiveUp, LifeGoto, network, timing, Placed, Order, Up, NoClients, Unvisited,
         LifeThreads
<1>4. LocksHeld'
  BY DEF ConGiveUp, LifeGoto, network, timing, Placed, LocksHeld, Holds, LifeThreads
<1>5. ConsumerServed'
  BY DEF ConGiveUp, LifeGoto, consumer, local, Placed, ConsumerServed, LifeThreads
<1>6. OwnSockets'
  BY DEF ConGiveUp, LifeGoto, descriptors, network, timing, local, Placed, Order, Up,
         OwnSockets, Early, IsSocket, LifeThreads, NoClients, Unvisited
<1>. QED BY <1>1, <1>2, <1>3, <1>4, <1>5, <1>6

LEMMA LogCloseStep == LifeIInv /\ LogClose => LifeIInv'
<1> SUFFICES ASSUME LifeIInv, LogClose PROVE LifeIInv'
  OBVIOUS
<1> USE LifecycleAssumption DEF LifeIInv
<1>1. Placed'
  BY DEF LogClose, Closed, network, timing, local, Placed, MainPlaces, NetPlaces, TmrPlaces,
         ConPlaces, LifeThreads
<1>2. Order'
  BY DEF LogClose, network, timing, Placed, Order, Up, LifeThreads
<1>3. NoClients'
  BY DEF LogClose, network, timing, Placed, Order, Up, NoClients, Unvisited, LifeThreads
<1>4. LocksHeld'
  BY DEF LogClose, network, timing, Placed, LocksHeld, Holds, LifeThreads
<1>5. ConsumerServed'
  BY DEF LogClose, consumer, local, Placed, ConsumerServed, LifeThreads
<1>6. OwnSockets'
  BY DEF LogClose, Closed, network, timing, local, Placed, Order, Up, OwnSockets, Early,
         IsSocket, LifeThreads, NoClients, Unvisited
<1>. QED BY <1>1, <1>2, <1>3, <1>4, <1>5, <1>6

LEMMA LogOpenStep == LifeIInv /\ LogOpen => LifeIInv'
<1> SUFFICES ASSUME LifeIInv, LogOpen PROVE LifeIInv'
  OBVIOUS
<1> USE LifecycleAssumption DEF LifeIInv
<1>1. LowestNumber \in Numbers /\ fds[LowestNumber] = "free"
  BY LowestIsFree DEF LogOpen
<1>2. Placed'
  BY <1>1 DEF LogOpen, Opened, network, timing, local, Placed, MainPlaces, NetPlaces, TmrPlaces,
         ConPlaces, LifeThreads
<1>3. Order'
  BY DEF LogOpen, network, timing, Placed, Order, Up, LifeThreads
<1>4. NoClients'
  BY <1>1 DEF LogOpen, network, timing, Placed, Order, Up, NoClients, Unvisited, LifeThreads
<1>5. LocksHeld'
  BY DEF LogOpen, network, timing, Placed, LocksHeld, Holds, LifeThreads
<1>6. ConsumerServed'
  BY DEF LogOpen, consumer, local, Placed, ConsumerServed, LifeThreads
<1>7. OwnSockets'
  BY <1>1 DEF LogOpen, Opened, network, timing, local, Placed, Order, Up, OwnSockets, Early,
         IsSocket, LifeThreads, NoClients, Unvisited
<1>. QED BY <1>2, <1>3, <1>4, <1>5, <1>6, <1>7

-----------------------------------------------------------------------------
LEMMA InitLifeIInv == LifeInit => LifeIInv
<1> SUFFICES ASSUME LifeInit PROVE LifeIInv
  OBVIOUS
<1> USE LifecycleAssumption DEF LifeInit, LifeThreads
<1>1. log \in Numbers
  BY LeastIsIn
<1>2. Placed
  BY <1>1 DEF Placed, MainPlaces, NetPlaces, TmrPlaces, ConPlaces
<1>3. Order /\ NoClients /\ LocksHeld /\ ConsumerServed
  BY DEF Order, Up, NoClients, Unvisited, LocksHeld, ConsumerServed
<1>4. OwnSockets
  BY <1>1 DEF OwnSockets, Early, IsSocket
<1>. QED BY <1>2, <1>3, <1>4 DEF LifeIInv

LEMMA NextLifeIInv == LifeIInv /\ [LifeNext]_lifeVars => LifeIInv'
<1>1. LifeIInv /\ UNCHANGED lifeVars => LifeIInv'
  <2> SUFFICES ASSUME LifeIInv, UNCHANGED lifeVars PROVE LifeIInv'
    OBVIOUS
  <2> USE DEF LifeIInv, lifeVars, descriptors, network, timing, consumer, local
  <2>1. Placed' /\ Order' /\ ConsumerServed'
    BY DEF Placed, Order, ConsumerServed
  <2>2. NoClients' /\ LocksHeld' /\ OwnSockets'
    BY DEF NoClients, Unvisited, LocksHeld, OwnSockets, Early, IsSocket
  <2>. QED BY <2>1, <2>2
<1>2. LifeIInv /\ MainStart => LifeIInv'
  BY InitNetworkStep, ManagerInitStep, InitPoolStep, CreateSocketStep, InsertLockStep,
     InsertHandleStep, TimerStopStep, StartAgainStep, CloseLuaStep DEF MainStart
<1>3. LifeIInv /\ MainStop => LifeIInv'
  BY TimerDestroyStep, NetStopStep, NetJoinStep, CloseNextStep, CloseDoneStep, DestroyNextStep,
     DestroyDoneStep, PoolFinalStep, PoolFreeStep DEF MainStop
<1>4. LifeIInv /\ NetNext => LifeIInv'
  BY NetStartStep, NetLookStep, BatchLockStep, BatchUnlockStep, AcceptClientStep,
     NetScheduleStep, ReadFrameStep, HangUpStep, NetCancelStep DEF NetNext
<1>5. LifeIInv /\ TmrNext => LifeIInv'
  BY TmrLookStep, TmrWakeStep, FireStep, FireRemoveStep, TmrUnlockStep DEF TmrNext
<1>6. LifeIInv /\ ConNext => LifeIInv'
  BY ConTakeStep, ConDeliverStep, ConGiveUpStep DEF ConNext
<1>. QED BY <1>1, <1>2, <1>3, <1>4, <1>5, <1>6, LogCloseStep, LogOpenStep DEF LifeNext

\* The inductive invariant of the server's start and stop.  (init_server,
\* fina_server)
THEOREM LifeInvariant == LifeSpec => []LifeIInv
<1>. QED BY InitLifeIInv, NextLifeIInv, PTL DEF LifeSpec

\* What a thread uses is there, however the threads run while the server starts
\* and stops.  (timer_destroy, fina_network, fina_server, elog_file_rotate)
THEOREM LifeFindsWhatItNeeds == LifeSpec => []FindsWhatItNeeds
<1>1. LifeIInv => FindsWhatItNeeds
  <2> SUFFICES ASSUME LifeIInv PROVE FindsWhatItNeeds
    OBVIOUS
  <2> USE LifecycleAssumption DEF LifeIInv, Placed, LifeThreads
  <2>1. place["tmr"] # "undefined"
    BY DEF TmrPlaces
  <2>2. place["net"] = "undefined" => place["main"] \in {"stopNet", "joinNet"}
    BY DEF Order
  <2>3. place["con"] = "undefined" =>
          place["main"] \in {"freePool", "stopped", "over", "init"} \/ starts > 1
    BY DEF ConsumerServed
  <2>4. log # NoNumber /\ fds[log] # "file" =>
          \/ place["main"] \in {"destroy", "final", "freePool", "stopped", "over", "init"}
          \/ starts > 1
    BY DEF OwnSockets, Early
  <2>5. place["main"] = "insert" /\ place["net"] \in {"work", "schedule", "cancel"} => reset
    BY DEF LocksHeld, Holds
  <2>. QED BY <2>1, <2>2, <2>3, <2>4, <2>5 DEF FindsWhatItNeeds
<1>. QED BY <1>1, LifeInvariant, PTL

=============================================================================
