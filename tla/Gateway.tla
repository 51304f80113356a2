------------------------------ MODULE Gateway ------------------------------
(***************************************************************************)
(* The life of a session in the gateway: core/network.c and core/session.c *)
(* with the parts of core/timer.c and core/netmsgqueue.c they call.  Four  *)
(* threads of the program take part:                                       *)
(*   Net  network_thread_run: accepts, reads and removes the sockets,      *)
(*        holding g_net_server->lock during a batch of epoll events;       *)
(*   Tmr  timer_thread_run: runs due callbacks holding timermgr->lock, and *)
(*        the first-pack callback removes the socket it was armed for;     *)
(*   Con  netmsgqueue_thread_run: hands decoded blocks to Lua;             *)
(*   Main the script that started the server, which may call               *)
(*        connect_server.                                                  *)
(* The peers and the kernel's sockets are the environment.  Memory comes   *)
(* from the pool of core/mempool.c, which gives a freed address to the     *)
(* next allocation of the same size: a session or a task is an address,    *)
(* and a stale pointer to it is seen by what the address holds now.        *)
(***************************************************************************)
EXTENDS Naturals, Sequences, FiniteSetsExt, RecursiveLock

CONSTANTS
  Net, Tmr, Con, Main, \* the threads
  Fds,            \* bound: the numbers the kernel may give a connection
  Listen,         \* the descriptor of the listening socket
  Sessions,       \* the addresses the pool can give a CSession
  Tasks,          \* the addresses the pool can give a timertask
  Null,           \* the null pointer
  Garbage,        \* what a freed CSession holds where its sock was
  MaxReads,       \* max_reads, 5 in read_socket
  MaxConns,       \* bound: how many peers connect
  MaxCalls,       \* bound: how often connect_server is called
  MaxData         \* bound: how many messages the peers send

Threads == {Net, Tmr, Con, Main}
Conns == 1 .. MaxConns + MaxCalls
Outgoing == MaxConns + 1 .. MaxConns + MaxCalls

ASSUME GatewayAssumption ==
  /\ Nobody \notin Threads /\ Cardinality(Threads) = 4
  /\ Fds \subseteq Nat \ {0} /\ Listen \notin Fds
  /\ Null \notin Fds \cup Sessions \cup Tasks
  /\ Garbage \notin Fds
  /\ Null \notin [arg : Sessions, func : {"firstpack", "keepalive"}]
  /\ Null \notin [id : Nat, data : Nat, ended : {"no", "fin", "rst"}]
  /\ MaxReads \in Nat \ {0} /\ MaxConns \in Nat /\ MaxCalls \in Nat /\ MaxData \in Nat

VARIABLES
  backlog,   \* the connections the kernel has not handed to accept yet
  conn,      \* per descriptor: the connection open on it, or Null
  netLock,   \* g_net_server->lock
  tmrLock,   \* timermgr->lock
  handles,   \* _handleMap: descriptor to session
  sess,      \* what each CSession address holds
  task,      \* per timertask address: its arg and func, or Null when it is free
  armed,     \* the tasks in timermgr->tasks
  accepted, handed, \* the message channel between Net and Con
  batch,     \* events[] not yet dispatched
  event,     \* the event being dispatched
  reads,     \* how often read_socket has called recv
  pc,        \* where each thread is
  cls,       \* the session each thread works on
  fired,     \* the task whose callback Tmr runs
  nconn,     \* how many peers have connected
  nsent,     \* how many messages the peers have sent
  ncalls,    \* how often connect_server has been called
  newSock,   \* the descriptor of its connection, until that is inserted
  newTask,   \* the task it has made for the session in cls[Main]
  gone,      \* history: a session was removed before Main was done with it
  lost,      \* history: and even before Main had inserted it
  told       \* history: what Lua last heard of each connection

kernel == <<backlog, conn, nconn, nsent>>
timers == <<tmrLock, task, armed, fired>>
channel == <<accepted, handed>>
loop == <<batch, event, reads>>
outgoing == <<ncalls, newSock, newTask, gone, lost>>
vars == <<kernel, netLock, timers, handles, sess, channel, loop, pc, cls, told, outgoing>>

\* The queue of core/netmsgqueue.c, by what it promises: see NetMsgQueue.
Queue == INSTANCE MsgChannel WITH Blocks <- Sessions \X Conns

Event == [fd : Fds \cup {Listen}, hup : BOOLEAN]
NoEvent == [fd |-> Listen, hup |-> FALSE]

\* A connection as the kernel has it: messages to be received and how the
\* peer has ended it ("fin": orderly, "rst": reset).
Connection == [id : Conns, data : 0 .. MaxData, ended : {"no", "fin", "rst"}]

Open(fd) == conn[fd] # Null
Freed == [live |-> FALSE, sock |-> Garbage, timer_ev |-> Null]
Created(fd) == [live |-> TRUE, sock |-> fd, timer_ev |-> Null]
Goto(t, l) == pc' = [pc EXCEPT ![t] = l]

Init ==
  /\ backlog = << >> /\ conn = [fd \in Fds |-> Null] /\ nconn = 0 /\ nsent = 0
  /\ netLock = Unlocked /\ tmrLock = Unlocked
  /\ handles = [fd \in Fds |-> Null]
  /\ sess = [s \in Sessions |-> Freed]
  /\ task = [k \in Tasks |-> Null] /\ armed = {} /\ fired = Null
  /\ Queue!Init
  /\ batch = {} /\ event = NoEvent /\ reads = 0
  /\ pc = [t \in Threads |-> "idle"]
  /\ cls = [t \in Threads |-> Null]
  /\ told = [c \in Conns |-> "nothing"]
  /\ ncalls = 0 /\ newSock = Null /\ newTask = Null /\ gone = FALSE /\ lost = FALSE

-----------------------------------------------------------------------------
(* The peers. *)

PeerConnect ==
  /\ nconn < MaxConns
  /\ nconn' = nconn + 1
  /\ backlog' = Append(backlog, [id |-> nconn + 1, data |-> 0, ended |-> "no"])
  /\ UNCHANGED <<conn, nsent, netLock, timers, handles, sess, channel, loop, pc, cls, told, outgoing>>

PeerSend(fd) ==
  /\ Open(fd) /\ conn[fd].ended = "no" /\ nsent < MaxData
  /\ conn' = [conn EXCEPT ![fd].data = @ + 1]
  /\ nsent' = nsent + 1
  /\ UNCHANGED <<backlog, nconn, netLock, timers, handles, sess, channel, loop, pc, cls, told, outgoing>>

PeerEnd(fd, how) ==
  /\ Open(fd) /\ conn[fd].ended = "no"
  /\ conn' = [conn EXCEPT ![fd].ended = how]
  /\ UNCHANGED <<backlog, nconn, nsent, netLock, timers, handles, sess, channel, loop, pc, cls, told, outgoing>>

-----------------------------------------------------------------------------
(* network_thread_run.  EPOLLOUT is left out: write_socket has no effect. *)

\* The connection connect_server is making.
Call == MaxConns + ncalls

\* It is on fd, and connect_server has not inserted it yet.
Unwatched(fd) == pc[Main] = "insert" /\ conn[fd].id = Call

\* What epoll_wait reports (level-triggered); network_thread_run takes the
\* events in an order of the kernel's choice.
Ready ==
  { [fd |-> fd, hup |-> conn[fd].ended = "rst"] :
      fd \in {f \in Fds : Open(f) /\ ~Unwatched(f) /\ (conn[f].data > 0 \/ conn[f].ended # "no")} }
  \cup (IF backlog = << >> THEN {} ELSE {[fd |-> Listen, hup |-> FALSE]})

\* epoll_wait, without the lock.
NetPoll ==
  /\ pc[Net] = "idle"
  /\ Ready # {}
  /\ batch' = Ready
  /\ Goto(Net, "lock")
  /\ UNCHANGED <<kernel, netLock, timers, handles, sess, channel, event, reads, cls, told, outgoing>>

NetLock ==
  /\ pc[Net] = "lock"
  /\ CanLock(netLock, Net)
  /\ netLock' = LockedBy(netLock, Net)
  /\ Goto(Net, "next")
  /\ UNCHANGED <<kernel, timers, handles, sess, channel, loop, cls, told, outgoing>>

\* The batch is done: unlock.
NetUnlock ==
  /\ pc[Net] = "next"
  /\ batch = {}
  /\ netLock' = Released(netLock)
  /\ Goto(Net, "idle")
  /\ UNCHANGED <<kernel, timers, handles, sess, channel, loop, cls, told, outgoing>>

\* Find who the next event is for; nobody, and it is skipped.  Nothing is defined
\* of a thread that goes on with a freed session: it stops.
NetDispatch ==
  /\ pc[Net] = "next"
  /\ \E e \in batch :
       /\ batch' = batch \ {e}
       /\ \/ /\ e.fd = Listen
             /\ event' = NoEvent /\ reads' = 0
             /\ Goto(Net, "accept")
             /\ UNCHANGED cls
          \/ /\ e.fd # Listen /\ handles[e.fd] # Null
             /\ event' = e /\ reads' = 0
             /\ cls' = [cls EXCEPT ![Net] = handles[e.fd]]
             /\ Goto(Net, IF sess[handles[e.fd]].live THEN "read" ELSE "undefined")
          \/ /\ e.fd # Listen /\ handles[e.fd] = Null
             /\ UNCHANGED <<event, reads, cls, pc>>
  /\ UNCHANGED <<kernel, netLock, timers, handles, sess, channel, told, outgoing>>

\* EPOLLHUP or EPOLLERR: look the session up again, and remove it.
NetHup ==
  /\ pc[Net] = "hup"
  /\ event' = NoEvent /\ reads' = 0
  /\ IF event.hup /\ handles[event.fd] # Null
     THEN /\ cls' = [cls EXCEPT ![Net] = handles[event.fd]]
          /\ Goto(Net, "remove")
     ELSE /\ cls' = [cls EXCEPT ![Net] = Null]
          /\ Goto(Net, "next")
  /\ UNCHANGED <<kernel, netLock, timers, handles, sess, channel, batch, told, outgoing>>

-----------------------------------------------------------------------------
(* accept_socket *)

LowestFree == Min({fd \in Fds : ~Open(fd)})

\* Faulty variant: Lua is not told of the connection.
AcceptOneSilent ==
  /\ pc[Net] = "accept"
  /\ backlog # << >> /\ \E fd \in Fds : ~Open(fd)
  /\ \E s \in {x \in Sessions : ~sess[x].live} :
       /\ sess' = [sess EXCEPT ![s] = Created(LowestFree)]
       /\ handles' = [handles EXCEPT ![LowestFree] = s]
       /\ cls' = [cls EXCEPT ![Net] = s]
  /\ conn' = [conn EXCEPT ![LowestFree] = Head(backlog)]
  /\ backlog' = Tail(backlog)
  /\ Goto(Net, "schedule")
  /\ UNCHANGED <<nconn, nsent, netLock, timers, channel, loop, told, outgoing>>

\* accept, create_session, insert_handle and onNetworkAccept for one peer.
AcceptOne ==
  /\ pc[Net] = "accept"
  /\ backlog # << >> /\ \E fd \in Fds : ~Open(fd)
  /\ \E s \in {x \in Sessions : ~sess[x].live} :
       /\ sess' = [sess EXCEPT ![s] = Created(LowestFree)]
       /\ handles' = [handles EXCEPT ![LowestFree] = s]
       /\ cls' = [cls EXCEPT ![Net] = s]
  /\ conn' = [conn EXCEPT ![LowestFree] = Head(backlog)]
  /\ backlog' = Tail(backlog)
  /\ told' = [told EXCEPT ![Head(backlog).id] = "accepted"]
  /\ Goto(Net, "schedule")
  /\ UNCHANGED <<nconn, nsent, netLock, timers, channel, loop, outgoing>>

\* EWOULDBLOCK, or no descriptor left: back to the event loop.
AcceptNone ==
  /\ pc[Net] = "accept"
  /\ backlog = << >> \/ \A fd \in Fds : Open(fd)
  /\ Goto(Net, "next")
  /\ UNCHANGED <<kernel, netLock, timers, handles, sess, channel, loop, cls, told, outgoing>>

\* session_addtimer: a new task is put on the timer's list.  timer_ev is set
\* after timermgr->lock is released, but nobody else can see it before
\* g_net_server->lock is, so that the two are one step.
TimerSchedule ==
  /\ pc[Net] = "schedule"
  /\ CanLock(tmrLock, Net)
  /\ \E k \in {x \in Tasks : task[x] = Null} :
       /\ task' = [task EXCEPT ![k] = [arg |-> cls[Net], func |-> "firstpack"]]
       /\ armed' = armed \cup {k}
       /\ sess' = [sess EXCEPT ![cls[Net]].timer_ev = k]
  /\ cls' = [cls EXCEPT ![Net] = Null]
  /\ Goto(Net, "accept")
  /\ UNCHANGED <<kernel, netLock, tmrLock, fired, handles, channel, loop, told, outgoing>>

-----------------------------------------------------------------------------
(* read_socket *)

\* timer_cancel(ev), called by t: if the task is on the list it is unlinked
\* and freed; if it is not, nothing happens.
Cancelled(t, ev) ==
  /\ CanLock(tmrLock, t)
  /\ armed' = armed \ {ev}
  /\ task' = IF ev \in armed THEN [task EXCEPT ![ev] = Null] ELSE task
  /\ UNCHANGED <<tmrLock, fired>>

\* recv returns a message, and the decoded block goes to the queue.
ReadData ==
  /\ pc[Net] = "read" /\ reads < MaxReads
  /\ LET fd == sess[cls[Net]].sock IN
       /\ conn[fd].data > 0
       /\ conn' = [conn EXCEPT ![fd].data = @ - 1]
       /\ Queue!Accept(<<cls[Net], conn[fd].id>>)
  /\ reads' = reads + 1
  /\ Goto(Net, "touch")
  /\ UNCHANGED <<backlog, nconn, nsent, netLock, timers, handles, sess, batch, event, cls, told, outgoing>>

\* session_removetimer: cancel the session's timer, but keep timer_ev.
ReadTouch ==
  /\ pc[Net] = "touch"
  /\ IF sess[cls[Net]].timer_ev = Null THEN UNCHANGED timers
     ELSE Cancelled(Net, sess[cls[Net]].timer_ev)
  /\ Goto(Net, "read")
  /\ UNCHANGED <<kernel, netLock, handles, sess, channel, loop, cls, told, outgoing>>

\* Faulty variant: the end of a connection is taken for a lack of data.
ReadEndIgnored ==
  /\ pc[Net] = "read" /\ reads < MaxReads
  /\ LET c == conn[sess[cls[Net]].sock] IN c.data = 0 /\ c.ended # "no"
  /\ Goto(Net, "hup")
  /\ UNCHANGED <<kernel, netLock, timers, handles, sess, channel, loop, cls, told, outgoing>>

\* recv returns 0 or an error: the connection is over.
ReadEnd ==
  /\ pc[Net] = "read" /\ reads < MaxReads
  /\ LET c == conn[sess[cls[Net]].sock] IN c.data = 0 /\ c.ended # "no"
  /\ Goto(Net, "remove")
  /\ UNCHANGED <<kernel, netLock, timers, handles, sess, channel, loop, cls, told, outgoing>>

\* EWOULDBLOCK, or enough of this connection for now.
ReadStop ==
  /\ pc[Net] = "read"
  /\ \/ reads = MaxReads
     \/ LET c == conn[sess[cls[Net]].sock] IN c.data = 0 /\ c.ended = "no"
  /\ Goto(Net, "hup")
  /\ UNCHANGED <<kernel, netLock, timers, handles, sess, channel, loop, cls, told, outgoing>>

-----------------------------------------------------------------------------
(* remove_socket and delete_session, called by Net and by Tmr *)

\* As in NetDispatch, the session may be a freed one.
RemoveLock(t) ==
  /\ pc[t] = "remove"
  /\ CanLock(netLock, t)
  /\ netLock' = LockedBy(netLock, t)
  /\ Goto(t, IF sess[cls[t]].live THEN "close" ELSE "undefined")
  /\ UNCHANGED <<kernel, timers, handles, sess, channel, loop, cls, told, outgoing>>

\* Faulty variant: the descriptor is closed and Lua is not told.
RemoveCloseSilent(t) ==
  /\ pc[t] = "close"
  /\ conn' = [conn EXCEPT ![sess[cls[t]].sock] = Null]
  /\ Goto(t, "cancel")
  /\ UNCHANGED <<backlog, nconn, nsent, netLock, timers, handles, sess, channel, loop, cls, told, outgoing>>

\* onNetworkError, then the descriptor is closed.
RemoveClose(t) ==
  /\ pc[t] = "close"
  /\ LET fd == sess[cls[t]].sock IN
       /\ told' = [told EXCEPT ![conn[fd].id] = "error"]
       /\ conn' = [conn EXCEPT ![fd] = Null]
  /\ Goto(t, "cancel")
  /\ UNCHANGED <<backlog, nconn, nsent, netLock, timers, handles, sess, channel, loop, cls, outgoing>>

\* Faulty variant: the timer stays armed.
RemoveCancelNot(t) ==
  /\ pc[t] = "cancel"
  /\ Goto(t, "free")
  /\ UNCHANGED <<kernel, netLock, timers, handles, sess, channel, loop, cls, told, outgoing>>

RemoveCancel(t) ==
  /\ pc[t] = "cancel"
  /\ IF sess[cls[t]].timer_ev = Null THEN UNCHANGED timers
     ELSE Cancelled(t, sess[cls[t]].timer_ev)
  /\ Goto(t, "free")
  /\ UNCHANGED <<kernel, netLock, handles, sess, channel, loop, cls, told, outgoing>>

\* Faulty variant: the entry stays in _handleMap.
RemoveFreeNotHandle(t) ==
  /\ pc[t] = "free"
  /\ sess' = [sess EXCEPT ![cls[t]] = Freed]
  /\ netLock' = Released(netLock)
  /\ cls' = [cls EXCEPT ![t] = Null]
  /\ Goto(t, IF t = Net THEN "hup" ELSE "fired")
  /\ gone' = (gone \/ cls[t] = cls[Main])
  /\ lost' = (lost \/ (pc[Main] = "insert" /\ cls[t] = cls[Main]))
  /\ UNCHANGED <<kernel, timers, handles, channel, loop, told, ncalls, newSock, newTask>>

\* Faulty variant: the lock is not released.
RemoveFreeLocked(t) ==
  /\ pc[t] = "free"
  /\ sess' = [sess EXCEPT ![cls[t]] = Freed]
  /\ handles' = [handles EXCEPT ![sess[cls[t]].sock] = Null]
  /\ cls' = [cls EXCEPT ![t] = Null]
  /\ Goto(t, IF t = Net THEN "hup" ELSE "fired")
  /\ gone' = (gone \/ cls[t] = cls[Main])
  /\ lost' = (lost \/ (pc[Main] = "insert" /\ cls[t] = cls[Main]))
  /\ UNCHANGED <<kernel, netLock, timers, channel, loop, told, ncalls, newSock, newTask>>

\* Free the session, take it out of _handleMap, unlock and return.
RemoveFree(t) ==
  /\ pc[t] = "free"
  /\ sess' = [sess EXCEPT ![cls[t]] = Freed]
  /\ handles' = [handles EXCEPT ![sess[cls[t]].sock] = Null]
  /\ netLock' = Released(netLock)
  /\ cls' = [cls EXCEPT ![t] = Null]
  /\ Goto(t, IF t = Net THEN "hup" ELSE "fired")
  /\ gone' = (gone \/ cls[t] = cls[Main])
  /\ lost' = (lost \/ (pc[Main] = "insert" /\ cls[t] = cls[Main]))
  /\ UNCHANGED <<kernel, timers, channel, loop, told, ncalls, newSock, newTask>>

-----------------------------------------------------------------------------
(* timer_thread_run.  Which tasks are due is left open. *)

TimerLock ==
  /\ pc[Tmr] = "idle"
  /\ armed # {}
  /\ CanLock(tmrLock, Tmr)
  /\ tmrLock' = LockedBy(tmrLock, Tmr)
  /\ Goto(Tmr, "scan")
  /\ UNCHANGED <<kernel, netLock, task, armed, fired, handles, sess, channel, loop, cls, told, outgoing>>

\* Unlink a due task and call its func with its arg: session_firstpack_callback
\* removes the session, and session_keepalive_callback does nothing.  For a
\* freed session it would follow a pointer in freed memory: the thread stops.
TimerFire(k) ==
  /\ pc[Tmr] = "scan"
  /\ k \in armed
  /\ armed' = armed \ {k}
  /\ fired' = k
  /\ IF task[k].func = "firstpack"
     THEN /\ cls' = [cls EXCEPT ![Tmr] = task[k].arg]
          /\ Goto(Tmr, IF sess[task[k].arg].live THEN "remove" ELSE "undefined")
     ELSE UNCHANGED cls /\ Goto(Tmr, "fired")
  /\ UNCHANGED <<kernel, netLock, tmrLock, task, handles, sess, channel, loop, told, outgoing>>

\* The callback has returned: free the task, or put it back when it repeats.
TimerFree ==
  /\ pc[Tmr] = "fired"
  /\ IF task[fired].func = "firstpack"
     THEN task' = [task EXCEPT ![fired] = Null] /\ UNCHANGED armed
     ELSE armed' = armed \cup {fired} /\ UNCHANGED task
  /\ fired' = Null
  /\ Goto(Tmr, "scan")
  /\ UNCHANGED <<kernel, netLock, tmrLock, handles, sess, channel, loop, cls, told, outgoing>>

\* No task (or no other) is due.
TimerUnlock ==
  /\ pc[Tmr] = "scan"
  /\ tmrLock' = Released(tmrLock)
  /\ Goto(Tmr, "idle")
  /\ UNCHANGED <<kernel, netLock, task, armed, fired, handles, sess, channel, loop, cls, told, outgoing>>

-----------------------------------------------------------------------------
(* netmsgqueue_thread_run *)

\* netmsgqueue_gethead returns a block.
ConsumerGet ==
  /\ pc[Con] = "idle"
  /\ Queue!HandOut
  /\ cls' = [cls EXCEPT ![Con] = handed'[Len(handed')][1]]
  /\ Goto(Con, "deliver")
  /\ UNCHANGED <<kernel, netLock, timers, handles, sess, accepted, loop, told, outgoing>>

\* Read the descriptor out of the session and call Lua with it.
ConsumerDeliver ==
  /\ pc[Con] = "deliver"
  /\ cls' = [cls EXCEPT ![Con] = Null]
  /\ Goto(Con, "idle")
  /\ UNCHANGED <<kernel, netLock, timers, handles, sess, channel, loop, told, outgoing>>

-----------------------------------------------------------------------------
(* connect_server, called by Main.  Nothing keeps the other threads from the  *)
(* session once it is in _handleMap, while Main goes on working on it.        *)

\* socket, connect and create_session; when one of them fails nothing is left.
ConnectServer ==
  /\ pc[Main] = "idle" /\ ncalls < MaxCalls
  /\ \E fd \in Fds : ~Open(fd)
  /\ \E s \in {x \in Sessions : ~sess[x].live} :
       /\ sess' = [sess EXCEPT ![s] = Created(LowestFree)]
       /\ cls' = [cls EXCEPT ![Main] = s]
  /\ ncalls' = ncalls + 1 /\ newSock' = LowestFree
  /\ conn' = [conn EXCEPT ![LowestFree] =
                [id |-> Call + 1, data |-> 0, ended |-> "no"]]
  /\ Goto(Main, "insert")
  /\ UNCHANGED <<backlog, nconn, nsent, netLock, timers, handles, channel, loop, told, newTask, gone, lost>>

\* insert_handle, whatever has become of the session.
ConnectInsert ==
  /\ pc[Main] = "insert"
  /\ CanLock(netLock, Main)
  /\ handles' = [handles EXCEPT ![newSock] = cls[Main]]
  /\ newSock' = Null
  /\ Goto(Main, "arm")
  /\ UNCHANGED <<kernel, netLock, timers, sess, channel, loop, cls, told, ncalls, newTask, gone, lost>>

\* session_addtimer: the keep-alive task is put on the timer's list ...
ConnectArm ==
  /\ pc[Main] = "arm"
  /\ CanLock(tmrLock, Main)
  /\ \E k \in {x \in Tasks : task[x] = Null} :
       /\ task' = [task EXCEPT ![k] = [arg |-> cls[Main], func |-> "keepalive"]]
       /\ armed' = armed \cup {k}
       /\ newTask' = k
  /\ Goto(Main, "note")
  /\ UNCHANGED <<kernel, netLock, tmrLock, fired, handles, sess, channel, loop, cls, told, ncalls, newSock, gone, lost>>

\* ... and then noted in the session, which may have been freed or given to
\* another connection meanwhile, and the script gets the descriptor; that is
\* stale when the script has heard of the connection's end already.
ConnectNote ==
  /\ pc[Main] = "note"
  /\ sess' = [sess EXCEPT ![cls[Main]].timer_ev = newTask]
  /\ told' = [told EXCEPT ![Call] = IF @ = "nothing" THEN "accepted" ELSE "stale"]
  /\ cls' = [cls EXCEPT ![Main] = Null]
  /\ newTask' = Null
  /\ Goto(Main, "idle")
  /\ UNCHANGED <<kernel, netLock, timers, handles, channel, loop, ncalls, newSock, gone, lost>>

-----------------------------------------------------------------------------
RemoveStep(t) == RemoveLock(t) \/ RemoveClose(t) \/ RemoveCancel(t) \/ RemoveFree(t)

NetStep ==
  \/ NetPoll \/ NetLock \/ NetUnlock \/ NetDispatch \/ NetHup
  \/ AcceptOne \/ AcceptNone \/ TimerSchedule
  \/ ReadData \/ ReadTouch \/ ReadEnd \/ ReadStop
  \/ RemoveStep(Net)

TmrStep ==
  \/ TimerLock \/ TimerFree \/ TimerUnlock
  \/ \E k \in Tasks : TimerFire(k)
  \/ RemoveStep(Tmr)

ConStep == ConsumerGet \/ ConsumerDeliver

PeerStep ==
  \/ PeerConnect
  \/ \E fd \in Fds : PeerSend(fd) \/ \E how \in {"fin", "rst"} : PeerEnd(fd, how)

MainStep == ConnectServer \/ ConnectInsert \/ ConnectArm \/ ConnectNote

Next == NetStep \/ TmrStep \/ ConStep \/ MainStep \/ PeerStep

Spec == Init /\ [][Next]_vars

\* The network thread sleeps between its batches and the timer thread between
\* its scans, for much longer than either holds a lock: a thread that waits
\* for a mutex that is free again and again gets it.
FairSpec == Spec /\ SF_vars(NetStep) /\ SF_vars(TmrStep)

-----------------------------------------------------------------------------
(* Properties *)

Works == {"schedule", "read", "touch", "remove", "close", "cancel", "free"}

\* Types, and how deeply the two mutexes are locked: remove_socket locks once
\* more what the event loop has locked, and nothing goes deeper.
TypeOK ==
  /\ backlog \in Seq(Connection) /\ conn \in [Fds -> Connection \cup {Null}]
  /\ nconn \in 0 .. MaxConns /\ nsent \in 0 .. MaxData
  /\ ncalls \in 0 .. MaxCalls /\ newSock \in Fds \cup {Null} /\ newTask \in Tasks \cup {Null}
  /\ gone \in BOOLEAN /\ lost \in BOOLEAN
  /\ netLock \in LockState({Net, Tmr}) /\ netLock.depth <= 2
  /\ tmrLock \in LockState({Tmr}) /\ tmrLock.depth <= 1
  /\ handles \in [Fds -> Sessions \cup {Null}]
  /\ sess \in [Sessions -> [live : BOOLEAN, sock : Fds \cup {Garbage},
                             timer_ev : Tasks \cup {Null}]]
  /\ task \in [Tasks -> {Null} \cup [arg : Sessions, func : {"firstpack", "keepalive"}]]
  /\ armed \subseteq Tasks /\ fired \in Tasks \cup {Null}
  /\ accepted \in Seq(Sessions \X Conns) /\ handed \in Seq(Sessions \X Conns)
  /\ batch \subseteq Event /\ event \in Event /\ reads \in 0 .. MaxReads
  /\ pc \in [Threads -> Works \cup {"idle", "lock", "next", "hup", "accept",
                                    "scan", "fired", "deliver",
                                    "insert", "arm", "note", "undefined"}]
  /\ cls \in [Threads -> Sessions \cup {Null}]
  /\ told \in [Conns -> {"nothing", "accepted", "error", "stale"}]

\* Whenever nobody holds g_net_server->lock, _handleMap, the sessions and the
\* open descriptors tell one story: a descriptor is open exactly when it has an
\* entry, the entry is a session that has not been freed and that is for this
\* descriptor, and there is no other session, but for the one connect_server
\* has not inserted yet.  (When connect_server has written to a session that was
\* removed under its hands, another timer may go off for a session it has just
\* made; what it then inserts is freed.)  (insert_handle, remove_socket)
TablesAgree ==
  netLock = Unlocked /\ ~lost =>
    /\ \A fd \in Fds :
         /\ Open(fd) /\ ~Unwatched(fd) <=> handles[fd] # Null
         /\ handles[fd] # Null => sess[handles[fd]].live /\ sess[handles[fd]].sock = fd
    /\ \A s \in Sessions :
         sess[s].live => (\E fd \in Fds : handles[fd] = s) \/ Unwatched(sess[s].sock)

\* The network and the timer thread never work on a freed session, and no
\* first-pack timer is armed for one: delete_session cancels it first, and a
\* callback that has started keeps the session from being freed by the other
\* thread.  (A keep-alive timer may outlive its session: its callback does not
\* touch it.  Once connect_server has written to a session that was removed
\* under its hands, the timer of another session may be lost.)
NoDangling ==
  ~gone =>
  /\ \A t \in {Net, Tmr} : pc[t] \in Works => sess[cls[t]].live
  /\ \A k \in armed : task[k].func = "firstpack" => sess[task[k].arg].live

\* Whenever nobody holds g_net_server->lock, Lua counts as connected exactly the
\* connections that are open, whatever the two threads removed meanwhile; but
\* for the one whose number connect_server has still to return.
LuaKnowsWhoIsHere ==
  netLock = Unlocked =>
    {c \in Conns : told[c] = "accepted"} =
      {conn[fd].id : fd \in {f \in Fds : Open(f)}} \ (IF pc[Main] = "idle" THEN {} ELSE {Call})

\* Lua hears onNetworkAccept once and then onNetworkError once of a connection:
\* no step says anything a second time or in another order.  Only of a
\* connection the script makes itself can the end be heard first, before
\* connect_server returns its number.
Notices ==
  \A c \in Conns : told'[c] # told[c] =>
    \/ <<told[c], told'[c]>> \in {<<"nothing", "accepted">>, <<"accepted", "error">>}
    \/ c \in Outgoing /\ <<told[c], told'[c]>> \in {<<"nothing", "error">>, <<"error", "stale">>}

\* Every step of the gateway keeps to that.
NoticesInOrder == [][Notices]_vars

\* Each of the two threads waits for the lock the other one holds.
LocksCrossed ==
  /\ pc[Tmr] = "remove" /\ ~CanLock(netLock, Tmr)
  /\ pc[Net] \in {"schedule", "touch", "cancel"} /\ ~CanLock(tmrLock, Net)

PeerGone(c) == \E fd \in Fds : Open(fd) /\ conn[fd].id = c /\ conn[fd].ended # "no"

\* Lua is told in the end of every accepted connection its peer has ended,
\* unless the two threads have crossed their locks, from where nothing moves.
EndedIsNoticed ==
  \A c \in Conns : PeerGone(c) ~> (told[c] = "error" \/ LocksCrossed)

\* The network and the timer thread never block each other for good.
NoLockCycle == ~LocksCrossed

\* A connection from which nothing has been read has a first-pack timer, armed
\* or just firing, that will remove it.  (session_addtimer, session_removetimer)
IdleIsTimed ==
  netLock = Unlocked =>
    \A fd \in Fds :
      Open(fd) /\ conn[fd].id \notin Outgoing /\ (\A i \in DOMAIN accepted : accepted[i][2] # conn[fd].id) =>
        \E k \in armed \cup {fired} : k # Null /\ task[k].arg = handles[fd]

\* Lua gets a message under the descriptor of the connection it came from,
\* never under one the kernel has given to another connection meanwhile, and
\* never under what is left in a freed session.  (netmsgblock_getnetdata)
RightSender ==
  pc[Con] = "deliver" =>
    LET sock == sess[cls[Con]].sock
    IN sock # Garbage /\ (Open(sock) => conn[sock].id = handed[Len(handed)][2])

=============================================================================
