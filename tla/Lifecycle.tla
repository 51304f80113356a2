----------------------------- MODULE Lifecycle -----------------------------
(***************************************************************************)
(* How the server starts and stops: init_server and fina_server of         *)
(* server.c with the parts of core/network.c, core/timer.c and             *)
(* objectpool/objectpool.c they create and destroy, while these threads    *)
(* come to life, work and end:                                             *)
(*   Main the script that starts and stops the server (main.c);            *)
(*   Net  network_thread_run;  Tmr timer_thread_run;                       *)
(*   Con  netmsgqueue_thread_run, which nothing ever stops.                *)
(* What the threads do in between is in Gateway, Timer and NetMsgQueue;    *)
(* here it is what they take hold of: the two managers with their locks,   *)
(* the pool of byte streams, the Lua state, and descriptors.  The log's    *)
(* writer opens its file anew whenever it is full or the day is over, and  *)
(* takes part with the number of its descriptor.                           *)
(***************************************************************************)
EXTENDS Naturals, FiniteSetsExt, RecursiveLock

CONSTANTS
  Numbers,     \* bound: the numbers of descriptors
  NoNumber,    \* no descriptor
  MaxStarts,   \* bound: how often init_server is called
  MaxEvents,   \* bound: how much there is to do after one epoll_wait
  MaxBlocks    \* bound: how many blocks the queue holds

LifeThreads == {"main", "net", "tmr", "con"}

ASSUME LifecycleAssumption ==
  /\ Numbers \subseteq Nat \ {0} /\ Numbers # {} /\ NoNumber \notin Numbers
  /\ MaxStarts \in Nat /\ MaxEvents \in Nat /\ MaxBlocks \in Nat
  /\ Nobody \notin LifeThreads

VARIABLES
  fds,         \* what the kernel has open under each number
  log,         \* the descriptor the log believes its file to have
  server,      \* the memory g_net_server points to
  running,     \* g_net_server->running
  sock,        \* g_net_server->_sock
  serverLock,  \* g_net_server->lock
  keys,        \* the keys of _handleMap
  manager,     \* timermgr: NULL ("none") or not
  ticking,     \* timermgr->running
  managerLock, \* timermgr->lock
  firstPacks,  \* the descriptors whose first-pack timers are in timermgr->tasks
  pool,        \* the memory bufferpool points to
  blocks,      \* how many blocks the queue holds
  lua,         \* the Lua state g_L points to
  place,       \* where each thread is
  left,        \* how much of the batch is left
  at,          \* the descriptor a thread works on
  todo,        \* the entries fina_network has still to visit
  starts,      \* how often init_server has been called
  reset        \* history: g_net_server->lock was initialised while it was held

descriptors == <<fds, log>>
network == <<server, running, sock, serverLock, keys>>
timing == <<manager, ticking, managerLock, firstPacks>>
consumer == <<pool, blocks, lua>>
local == <<left, at, todo, starts>>
lifeVars == <<descriptors, network, timing, consumer, local, place, reset>>

HasFree == \E fd \in Numbers : fds[fd] = "free"
LowestNumber == Min({fd \in Numbers : fds[fd] = "free"})
Opened(what) == fds' = [fds EXCEPT ![LowestNumber] = what]

\* close: whatever the number stands for by now.
Closed(fd) == fds' = [fds EXCEPT ![fd] = "free"]

LifeGoto(t, l) == place' = [place EXCEPT ![t] = l]

\* pthread_mutex_unlock of a recursive mutex fails when the caller is not the owner.
Unlock(lock, t) == IF Holds(lock, t) THEN Released(lock) ELSE lock

\* elog_init has opened the log's file.
LifeInit ==
  /\ log = Min(Numbers) /\ fds = [fd \in Numbers |-> IF fd = log THEN "file" ELSE "free"]
  /\ server = "none" /\ running = FALSE /\ sock = NoNumber /\ serverLock = Unlocked /\ keys = {}
  /\ manager = "none" /\ ticking = FALSE /\ managerLock = Unlocked /\ firstPacks = {}
  /\ pool = "none" /\ blocks = 0 /\ lua = "open"
  /\ place = [t \in LifeThreads |-> IF t = "main" THEN "init" ELSE "unborn"]
  /\ left = 0 /\ at = [t \in LifeThreads |-> NoNumber] /\ todo = {} /\ starts = 0
  /\ reset = FALSE

-----------------------------------------------------------------------------
(* The script: init_server, create_socket. *)

\* init_network: the server, its lock, an empty map, epoll, the thread.
InitNetwork ==
  /\ place["main"] = "init" /\ starts < MaxStarts /\ HasFree
  /\ starts' = starts + 1
  /\ server' = "live" /\ running' = TRUE /\ sock' = NoNumber
  /\ serverLock' = Unlocked /\ keys' = {} /\ reset' = FALSE
  /\ Opened("epoll")
  /\ place' = [place EXCEPT !["main"] = "timer", !["net"] = "start"]
  /\ UNCHANGED <<log, timing, consumer, left, at, todo>>

\* timer_init: the manager, unless there is one, and its thread.
ManagerInit ==
  /\ place["main"] = "timer"
  /\ IF manager = "none"
     THEN /\ manager' = "live" /\ ticking' = TRUE /\ managerLock' = Unlocked /\ firstPacks' = {}
          /\ place' = [place EXCEPT !["main"] = "pool", !["tmr"] = "look"]
     ELSE LifeGoto("main", "pool") /\ UNCHANGED timing
  /\ UNCHANGED <<descriptors, network, consumer, local, reset>>

InitPool ==
  /\ place["main"] = "pool"
  /\ pool' = "live"
  /\ LifeGoto("main", "run")
  /\ UNCHANGED <<descriptors, network, timing, blocks, lua, local, reset>>

\* create_socket, up to the lock of insert_handle.  (Bound: once a start.)
CreateSocket ==
  /\ place["main"] = "run" /\ sock = NoNumber /\ HasFree
  /\ sock' = LowestNumber /\ Opened("socket")
  /\ LifeGoto("main", "listen")
  /\ UNCHANGED <<log, server, running, serverLock, keys, timing, consumer, local, reset>>

InsertLock ==
  /\ place["main"] = "listen" /\ CanLock(serverLock, "main")
  /\ serverLock' = LockedBy(serverLock, "main")
  /\ LifeGoto("main", "insert")
  /\ UNCHANGED <<descriptors, server, running, sock, keys, timing, consumer, local, reset>>

InsertHandle ==
  /\ place["main"] = "insert"
  /\ keys' = keys \cup {sock}
  /\ serverLock' = Unlock(serverLock, "main")
  /\ LifeGoto("main", "run")
  /\ UNCHANGED <<descriptors, server, running, sock, timing, consumer, local, reset>>

-----------------------------------------------------------------------------
(* fina_server. *)

\* Faulty variant: the thread is not told.
TimerStopQuietly ==
  /\ place["main"] = "run" /\ CanLock(managerLock, "main")
  /\ LifeGoto("main", "joinTimer")
  /\ UNCHANGED <<descriptors, network, timing, consumer, local, reset>>

\* timer_destroy up to pthread_join.
TimerStop ==
  /\ place["main"] = "run" /\ CanLock(managerLock, "main")
  /\ ticking' = FALSE
  /\ LifeGoto("main", "joinTimer")
  /\ UNCHANGED <<descriptors, network, manager, managerLock, firstPacks, consumer, local, reset>>

\* Faulty variant: the manager is freed without waiting for its thread.
TimerFreeAtOnce ==
  /\ place["main"] = "joinTimer"
  /\ manager' = "none" /\ firstPacks' = {}
  /\ LifeGoto("main", "stopNet")
  /\ UNCHANGED <<descriptors, network, ticking, managerLock, consumer, local, reset>>

\* pthread_join returns when the timer thread has ended; the tasks, the lock and
\* the manager are freed, and timermgr is NULL.  The frees are one step, as
\* timer_schedule is: a network thread they find inside of it comes, in the model,
\* before them or after them.
TimerDestroy ==
  /\ place["main"] = "joinTimer" /\ place["tmr"] = "over"
  /\ manager' = "none" /\ firstPacks' = {}
  /\ LifeGoto("main", "stopNet")
  /\ UNCHANGED <<descriptors, network, ticking, managerLock, consumer, local, reset>>

\* fina_network: the flag.
NetStop ==
  /\ place["main"] = "stopNet"
  /\ running' = FALSE
  /\ LifeGoto("main", "joinNet")
  /\ UNCHANGED <<descriptors, server, sock, serverLock, keys, timing, consumer, local, reset>>

\* pthread_join.  Then _epoll_fd is set to 0, and its descriptor stays open.
NetJoin ==
  /\ place["main"] = "joinNet" /\ place["net"] = "over"
  /\ todo' = keys
  /\ LifeGoto("main", "close")
  /\ UNCHANGED <<descriptors, network, timing, consumer, left, at, starts, reset>>

\* The loop over _handleMap closes the key of each entry.
CloseNext ==
  /\ place["main"] = "close" /\ todo # {}
  /\ Closed(Min(todo)) /\ todo' = todo \ {Min(todo)}
  /\ UNCHANGED <<log, network, timing, consumer, left, at, starts, place, reset>>

CloseDone ==
  /\ place["main"] = "close" /\ todo = {}
  /\ todo' = keys
  /\ LifeGoto("main", "destroy")
  /\ UNCHANGED <<descriptors, network, timing, consumer, left, at, starts, reset>>

\* map_destroy gives each value, a session, to free_value, which is
\* safe_close_socket: it closes what the first field of the session says.  (In
\* any order, for that of the tree.)
DestroyNext ==
  /\ place["main"] = "destroy" /\ todo # {}
  /\ \E fd \in todo : Closed(fd) /\ todo' = todo \ {fd}
  /\ UNCHANGED <<log, network, timing, consumer, left, at, starts, place, reset>>

\* The map is empty, and the lock and the server are freed.
DestroyDone ==
  /\ place["main"] = "destroy" /\ todo = {}
  /\ keys' = {} /\ server' = "freed"
  /\ LifeGoto("main", "final")
  /\ UNCHANGED <<descriptors, running, sock, serverLock, timing, consumer, local, reset>>

\* objectpool_destroy: the flag, under the lock of the pool.
PoolFinal ==
  /\ place["main"] = "final"
  /\ pool' = "final"
  /\ LifeGoto("main", "freePool")
  /\ UNCHANGED <<descriptors, network, timing, blocks, lua, local, reset>>

\* The streams and the pool are freed; bufferpool keeps the address.
PoolFree ==
  /\ place["main"] = "freePool"
  /\ pool' = "freed"
  /\ LifeGoto("main", "stopped")
  /\ UNCHANGED <<descriptors, network, timing, blocks, lua, local, reset>>

\* The script starts the server again, or main closes the Lua state and ends.
StartAgain ==
  /\ place["main"] = "stopped"
  /\ LifeGoto("main", "init")
  /\ UNCHANGED <<descriptors, network, timing, consumer, local, reset>>

CloseLua ==
  /\ place["main"] = "stopped"
  /\ lua' = "closed"
  /\ LifeGoto("main", "over")
  /\ UNCHANGED <<descriptors, network, timing, pool, blocks, local, reset>>

-----------------------------------------------------------------------------
(* network_thread_run.  A step of the batch is a connection accepted, a      *)
(* frame read or a session removed; the loop over the events is short of     *)
(* its last step when left is above zero.                                    *)

\* The thread initialises the lock once more: whoever holds it does so no longer.
NetStart ==
  /\ place["net"] = "start"
  /\ serverLock' = Unlocked
  /\ reset' = (reset \/ serverLock # Unlocked)
  /\ LifeGoto("net", "look")
  /\ UNCHANGED <<descriptors, server, running, sock, keys, timing, consumer, local>>

NetLook ==
  /\ place["net"] = "look"
  /\ LifeGoto("net", IF running THEN "lock" ELSE "over")
  /\ UNCHANGED <<descriptors, network, timing, consumer, local, reset>>

BatchLock ==
  /\ place["net"] = "lock" /\ CanLock(serverLock, "net")
  /\ serverLock' = LockedBy(serverLock, "net")
  /\ left' \in 0..MaxEvents
  /\ LifeGoto("net", "work")
  /\ UNCHANGED <<descriptors, server, running, sock, keys, timing, consumer, at, todo,
                 starts, reset>>

BatchUnlock ==
  /\ place["net"] = "work"
  /\ serverLock' = Unlock(serverLock, "net") /\ left' = 0
  /\ LifeGoto("net", "look")
  /\ UNCHANGED <<descriptors, server, running, sock, keys, timing, consumer, at, todo,
                 starts, reset>>

InBatch == place["net"] = "work" /\ left > 0

\* accept_socket up to session_addtimer.
AcceptClient ==
  /\ InBatch /\ sock \in keys /\ HasFree
  /\ Opened("socket") /\ keys' = keys \cup {LowestNumber}
  /\ at' = [at EXCEPT !["net"] = LowestNumber] /\ left' = left - 1
  /\ LifeGoto("net", "schedule")
  /\ UNCHANGED <<log, server, running, sock, serverLock, timing, consumer, todo, starts, reset>>

\* timer_schedule takes the lock of a manager it does not ask for.
NetSchedule ==
  /\ place["net"] = "schedule"
  /\ \/ manager = "none" /\ LifeGoto("net", "undefined") /\ UNCHANGED firstPacks
     \/ /\ manager = "live" /\ CanLock(managerLock, "net")
        /\ firstPacks' = firstPacks \cup {at["net"]}
        /\ LifeGoto("net", "work")
  /\ at' = [at EXCEPT !["net"] = NoNumber]
  /\ UNCHANGED <<descriptors, network, manager, ticking, managerLock, consumer, left, todo, starts,
                 reset>>

\* timer_cancel looks whether there is a manager; if so it goes on with the
\* timer of this descriptor.
CancelTest == IF manager = "live" THEN "cancel" ELSE "work"
Kept(fd) == IF manager = "live" THEN fd ELSE NoNumber

\* read_socket has a frame: the first one creates the queue and its thread.  Then
\* session_removetimer.
ReadFrame ==
  /\ InBatch /\ blocks < MaxBlocks
  /\ \E fd \in keys \ {sock} : at' = [at EXCEPT !["net"] = Kept(fd)]
  /\ blocks' = blocks + 1 /\ left' = left - 1
  /\ place' = [place EXCEPT !["net"] = CancelTest,
                      !["con"] = IF @ = "unborn" THEN "take" ELSE @]
  /\ UNCHANGED <<descriptors, network, timing, pool, lua, todo, starts, reset>>

\* remove_socket, called by the network thread; what the session leaves behind
\* of its timer, timer_cancel may find.
HangUp ==
  /\ InBatch
  /\ \E fd \in keys \ {sock} :
       /\ Closed(fd) /\ keys' = keys \ {fd}
       /\ at' = [at EXCEPT !["net"] = Kept(fd)]
  /\ left' = left - 1
  /\ LifeGoto("net", CancelTest)
  /\ UNCHANGED <<log, server, running, sock, serverLock, timing, consumer, todo, starts, reset>>

\* timer_cancel goes on to the lock of the manager it has seen.
NetCancel ==
  /\ place["net"] = "cancel"
  /\ \/ manager = "none" /\ LifeGoto("net", "undefined") /\ UNCHANGED firstPacks
     \/ /\ manager = "live" /\ CanLock(managerLock, "net")
        /\ firstPacks' = firstPacks \ {at["net"]}
        /\ LifeGoto("net", "work")
  /\ at' = [at EXCEPT !["net"] = NoNumber]
  /\ UNCHANGED <<descriptors, network, manager, ticking, managerLock, consumer, left, todo, starts,
                 reset>>

NetNext ==
  \/ NetStart \/ NetLook \/ BatchLock \/ BatchUnlock
  \/ AcceptClient \/ NetSchedule \/ ReadFrame \/ HangUp \/ NetCancel

-----------------------------------------------------------------------------
(* timer_thread_run. *)

TmrLook ==
  /\ place["tmr"] = "look"
  /\ \/ manager = "none" /\ LifeGoto("tmr", "undefined")
     \/ /\ manager = "live" /\ CanLock(managerLock, "tmr")
        /\ LifeGoto("tmr", IF ticking THEN "wait" ELSE "over")
  /\ UNCHANGED <<descriptors, network, timing, consumer, local, reset>>

\* lightevent_wait comes to an end; the lock again.
TmrWake ==
  /\ place["tmr"] = "wait"
  /\ \/ manager = "none" /\ LifeGoto("tmr", "undefined") /\ UNCHANGED managerLock
     \/ /\ manager = "live" /\ CanLock(managerLock, "tmr")
        /\ managerLock' = LockedBy(managerLock, "tmr")
        /\ LifeGoto("tmr", "fire")
  /\ UNCHANGED <<descriptors, network, manager, ticking, firstPacks, consumer, local, reset>>

\* A timer is due: session_firstpack_callback calls remove_socket.
Fire ==
  /\ place["tmr"] = "fire"
  /\ \E fd \in firstPacks :
       firstPacks' = firstPacks \ {fd} /\ at' = [at EXCEPT !["tmr"] = fd]
  /\ LifeGoto("tmr", "remove")
  /\ UNCHANGED <<descriptors, network, manager, ticking, managerLock, consumer, left, todo, starts,
                 reset>>

\* remove_socket, called by the timer thread.
FireRemove ==
  /\ place["tmr"] = "remove"
  /\ \/ server = "freed" /\ LifeGoto("tmr", "undefined") /\ UNCHANGED <<fds, keys>>
     \/ /\ server = "live" /\ CanLock(serverLock, "tmr")
        /\ Closed(at["tmr"]) /\ keys' = keys \ {at["tmr"]}
        /\ LifeGoto("tmr", "fire")
  /\ at' = [at EXCEPT !["tmr"] = NoNumber]
  /\ UNCHANGED <<log, server, running, sock, serverLock, timing, consumer, left, todo, starts,
                 reset>>

\* No other timer is due.
TmrUnlock ==
  /\ place["tmr"] = "fire"
  /\ managerLock' = Unlock(managerLock, "tmr")
  /\ LifeGoto("tmr", "look")
  /\ UNCHANGED <<descriptors, network, manager, ticking, firstPacks, consumer, local, reset>>

TmrNext == TmrLook \/ TmrWake \/ Fire \/ FireRemove \/ TmrUnlock

-----------------------------------------------------------------------------
(* netmsgqueue_thread_run, while there is a block. *)

\* A block is taken.  obtain_bytestream gives NULL once the pool is being
\* destroyed, and the next line follows it; a pool that is freed is read all the same.
ConTake ==
  /\ place["con"] = "take" /\ blocks > 0
  /\ blocks' = blocks - 1
  /\ LifeGoto("con", IF pool = "live" THEN "deliver" ELSE "undefined")
  /\ UNCHANGED <<descriptors, network, timing, pool, lua, local, reset>>

\* lua_call_mg.
ConDeliver ==
  /\ place["con"] = "deliver"
  /\ LifeGoto("con", IF lua = "open" THEN "giveup" ELSE "undefined")
  /\ UNCHANGED <<descriptors, network, timing, consumer, local, reset>>

\* giveup_bytestream does nothing when the pool is being destroyed.
ConGiveUp ==
  /\ place["con"] = "giveup"
  /\ LifeGoto("con", IF pool \in {"live", "final"} THEN "take" ELSE "undefined")
  /\ UNCHANGED <<descriptors, network, timing, consumer, local, reset>>

ConNext == ConTake \/ ConDeliver \/ ConGiveUp

-----------------------------------------------------------------------------
(* elog_file_rotate and elog_file_config: fclose, and later fopen. *)

LogClose ==
  /\ log # NoNumber
  /\ Closed(log) /\ log' = NoNumber
  /\ UNCHANGED <<network, timing, consumer, local, place, reset>>

LogOpen ==
  /\ log = NoNumber /\ HasFree
  /\ Opened("file") /\ log' = LowestNumber
  /\ UNCHANGED <<network, timing, consumer, local, place, reset>>

-----------------------------------------------------------------------------
MainStart ==
  \/ InitNetwork \/ ManagerInit \/ InitPool \/ CreateSocket \/ InsertLock \/ InsertHandle
  \/ TimerStop \/ StartAgain \/ CloseLua

\* The rest of fina_server, which the script waits for.
MainStop ==
  \/ TimerDestroy \/ NetStop \/ NetJoin \/ CloseNext \/ CloseDone
  \/ DestroyNext \/ DestroyDone \/ PoolFinal \/ PoolFree

LifeNext == MainStart \/ MainStop \/ NetNext \/ TmrNext \/ ConNext \/ LogClose \/ LogOpen

LifeSpec == LifeInit /\ [][LifeNext]_lifeVars

\* The scheduler lets each thread run, and a lock that is free again and again is
\* had in the end.
LifeFairSpec ==
  LifeSpec /\ WF_lifeVars(MainStop) /\ SF_lifeVars(NetNext) /\ SF_lifeVars(TmrNext)

-----------------------------------------------------------------------------
(* Properties *)

\* The timer thread holds its lock and waits for the network's, and the network
\* thread the other way round.  (gateway_locks shows how they come to it.)
Crossed ==
  /\ place["tmr"] = "remove" /\ Holds(serverLock, "net")
  /\ place["net"] \in {"schedule", "cancel"} /\ Holds(managerLock, "tmr")

\* What a thread uses is there: the timer thread never reaches for a lock or a
\* manager that is gone, because timer_destroy and fina_network wait for the threads
\* before they free what these use.  The network thread does so only while the
\* script has freed the timers and not yet ended that thread, and the consumer
\* only after a stop has taken the pool or the Lua state from it.  The log's file is
\* closed by the log, until a stop closes the sockets for the second time.  And
\* the script and the network thread are never in the map together, unless the
\* network thread has initialised the lock under the script's hands.
FindsWhatItNeeds ==
  /\ place["tmr"] # "undefined"
  /\ place["net"] = "undefined" => place["main"] \in {"stopNet", "joinNet"}
  /\ place["con"] = "undefined" =>
       place["main"] \in {"freePool", "stopped", "over", "init"} \/ starts > 1
  /\ log # NoNumber /\ fds[log] # "file" =>
       \/ place["main"] \in {"destroy", "final", "freePool", "stopped", "over", "init"}
       \/ starts > 1
  /\ place["main"] = "insert" /\ place["net"] \in {"work", "schedule", "cancel"} => reset

\* A stop that has begun comes to its end, with every socket closed, unless a
\* thread is lost in memory that is gone or the two threads wait for each other.
StopEnds ==
  place["main"] = "joinTimer" ~>
    \/ place["main"] = "stopped" /\ \A fd \in Numbers : fds[fd] # "socket"
    \/ place["net"] = "undefined" \/ Crossed

=============================================================================
