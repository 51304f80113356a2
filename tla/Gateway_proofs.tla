--------------------------- MODULE Gateway_proofs ---------------------------
(***************************************************************************)
(* Proofs about Gateway for any numbers of peers, calls, descriptors,      *)
(* addresses and messages.  The invariant has three layers, because        *)
(* connect_server may lose its session to another thread, and from then on *)
(* less is true:                                                           *)
(*   Ever    holds always: types, who holds the locks, that a session in   *)
(*           use is the only one with its descriptor, and that Lua has     *)
(*           heard of each connection what has become of it;               *)
(*   Tables  until a session is removed before it is inserted (lost):      *)
(*           _handleMap says at every moment which sessions are in use;    *)
(*   Linked  until a session is removed before Main is done with it        *)
(*           (gone): a first-pack timer and its session point at each      *)
(*           other, and none is left for a session about to be freed.      *)
(* Keeps says of a step that it keeps each layer, given the layers below.  *)
(***************************************************************************)
EXTENDS Gateway, FiniteSetTheorems, WellFoundedInduction, TLAPS

Removing == {"close", "cancel", "free"}
NetPcs == Works \cup {"idle", "lock", "next", "hup", "accept", "undefined"}
TmrPcs == {"idle", "scan", "fired", "remove", "undefined"} \cup Removing
AllPcs == NetPcs \cup TmrPcs \cup {"deliver", "insert", "arm", "note"}

\* A connection, with any number of messages.
Link == [id : Conns, data : Nat, ended : {"no", "fin", "rst"}]

CSession == [live : BOOLEAN, sock : Fds \cup {Garbage}, timer_ev : Tasks \cup {Null}]
TimerTask == [arg : Sessions, func : {"firstpack", "keepalive"}]
Words == {"nothing", "accepted", "error", "stale"}

Typed ==
  /\ conn \in [Fds -> Link \cup {Null}] /\ backlog \in Seq(Link)
  /\ nconn \in 0 .. MaxConns /\ ncalls \in 0 .. MaxCalls
  /\ newSock \in Fds \cup {Null} /\ newTask \in Tasks \cup {Null}
  /\ handles \in [Fds -> Sessions \cup {Null}]
  /\ sess \in [Sessions -> CSession] /\ task \in [Tasks -> TimerTask \cup {Null}]
  /\ armed \subseteq Tasks /\ fired \in Tasks \cup {Null}
  /\ accepted \in Seq(Sessions \X Conns) /\ handed \in Seq(Sessions \X Conns)
  /\ batch \subseteq Event /\ event \in Event /\ (event.hup => event.fd \in Fds)
  /\ pc \in [Threads -> AllPcs]
  /\ pc[Net] \in NetPcs /\ pc[Tmr] \in TmrPcs /\ pc[Con] \in {"idle", "deliver"}
  /\ pc[Main] \in {"idle", "insert", "arm", "note"}
  /\ cls \in [Threads -> Sessions \cup {Null}]
  /\ told \in [Conns -> Words]

\* What is counted: a connection holds no more messages than have been sent, and
\* none before it is accepted.
Counted ==
  /\ nsent \in 0 .. MaxData /\ reads \in 0 .. MaxReads
  /\ \A i \in 1 .. Len(backlog) : backlog[i].data = 0
  /\ \A fd \in Fds : Open(fd) => conn[fd].data <= nsent

\* Who holds the two locks, and how deeply, follows from where the threads are.
LocksHeld ==
  /\ pc[Tmr] \in Removing => pc[Net] \in {"idle", "lock"}
  /\ netLock \in
       IF pc[Tmr] \in Removing THEN {[owner |-> Tmr, depth |-> 1]}
       ELSE IF pc[Net] \in {"idle", "lock"}
            THEN {Unlocked} \cup (IF pc[Tmr] = "undefined" THEN {[owner |-> Tmr, depth |-> 1]} ELSE {})
       ELSE IF pc[Net] \in Removing THEN {[owner |-> Net, depth |-> 2]}
       ELSE IF pc[Net] = "undefined" THEN {[owner |-> Net, depth |-> 1], [owner |-> Net, depth |-> 2]}
       ELSE {[owner |-> Net, depth |-> 1]}
  /\ tmrLock = IF pc[Tmr] = "idle" THEN Unlocked ELSE [owner |-> Tmr, depth |-> 1]

\* Thread t has closed the descriptor of session s and not freed s yet.
Leaving(t, s) == pc[t] \in {"cancel", "free"} /\ cls[t] = s

\* Some thread has.
Left(s) == Leaving(Net, s) \/ Leaving(Tmr, s)

\* connect_server has made session s and not shown it yet.
Hidden(s) == pc[Main] = "insert" /\ cls[Main] = s

\* A session in use has an open descriptor, unless somebody has closed it on the
\* way to freeing the session, and no two have the same.
OneEach ==
  /\ \A s \in Sessions : sess[s].live => sess[s].sock \in Fds /\ (Left(s) \/ Open(sess[s].sock))
  /\ \A s, r \in Sessions :
       s # r /\ sess[s].live /\ sess[r].live /\ sess[s].sock = sess[r].sock => Left(s) \/ Left(r)

\* What each thread works on, and that the session is in use; but for a remover
\* that still waits for the lock.
InWork ==
  /\ pc[Net] \in Works => cls[Net] \in Sessions /\ (sess[cls[Net]].live \/ pc[Net] = "remove")
  /\ pc[Tmr] \in {"remove"} \cup Removing =>
       cls[Tmr] \in Sessions /\ (sess[cls[Tmr]].live \/ pc[Tmr] = "remove")
  /\ pc[Main] = "idle" <=> cls[Main] = Null
  /\ pc[Main] = "insert" <=> newSock # Null

\* A task on the list, or whose callback runs, is in use.
TasksInUse ==
  /\ fired \notin armed
  /\ fired # Null => task[fired] # Null
  /\ pc[Tmr] \in {"fired", "remove"} \cup Removing => fired # Null
  /\ \A k \in armed : task[k] # Null

\* Connection c is open on some descriptor.
Here(c) == \E fd \in Fds : Open(fd) /\ conn[fd].id = c

\* connect_server is at work on connection c.
Calling(c) == pc[Main] # "idle" /\ c = Call

\* A connection is open on one descriptor at a time, and what Lua has heard of it
\* is what has become of it.
Heard ==
  /\ \A fd, gd \in Fds : Open(fd) /\ Open(gd) /\ fd # gd => conn[fd].id # conn[gd].id
  /\ \A c \in Conns : Here(c) =>
       /\ c <= nconn \/ (MaxConns < c /\ c <= Call)
       /\ told[c] = IF Calling(c) THEN "nothing" ELSE "accepted"
  /\ \A c \in Conns : told[c] = "accepted" => Here(c)
  /\ \A c \in Conns : (nconn < c /\ c <= MaxConns) \/ Call < c => told[c] = "nothing"
  /\ pc[Main] # "idle" =>
       /\ ncalls > 0 /\ told[Call] \in {"nothing", "error"}
       /\ told[Call] = "nothing" => Here(Call)
  /\ \A i \in 1 .. Len(backlog) : backlog[i].id <= nconn /\ told[backlog[i].id] = "nothing"
  /\ \A i, j \in 1 .. Len(backlog) : i # j => backlog[i].id # backlog[j].id

\* The first layer.
Ever == Typed /\ Counted /\ LocksHeld /\ OneEach /\ InWork /\ TasksInUse /\ Heard

\* The second: an entry is a session in use for its descriptor, a session in use
\* has an entry unless connect_server has not shown it yet, and what it will show
\* is then in use, for the descriptor it remembers; and an open descriptor has a
\* session.
Tables ==
  /\ \A fd \in Fds : handles[fd] # Null =>
       sess[handles[fd]].live /\ sess[handles[fd]].sock = fd /\ ~Hidden(handles[fd])
  /\ \A s \in Sessions : sess[s].live => Hidden(s) \/ handles[sess[s].sock] = s
  /\ \A s \in Sessions : Hidden(s) =>
       /\ sess[s].live /\ sess[s].sock = newSock
       /\ Left(s) \/ conn[newSock].id = Call
       /\ handles[newSock] # Null => Left(handles[newSock])
  /\ \A fd \in Fds : Open(fd) =>
       \E s \in Sessions : sess[s].live /\ sess[s].sock = fd /\ ~Left(s)

\* The third: every thread's session is in use, the timer thread's is the one its
\* task was made for and not connect_server's; and the same for the first-pack
\* timers on the list.
Linked ==
  /\ pc[Net] \in Works => sess[cls[Net]].live /\ ~Hidden(cls[Net])
  /\ pc[Net] = "schedule" => cls[Net] # cls[Main] /\ sess[cls[Net]].timer_ev = Null
  /\ pc[Tmr] \in {"remove"} \cup Removing =>
       /\ sess[cls[Tmr]].live /\ sess[cls[Tmr]].timer_ev = fired
       /\ task[fired] = [arg |-> cls[Tmr], func |-> "firstpack"]
       /\ cls[Tmr] # cls[Main]
       /\ ~(pc[Net] = "free" /\ cls[Net] = cls[Tmr])
  /\ cls[Main] # Null => sess[cls[Main]].live
  /\ \A k \in armed : task[k].func = "firstpack" =>
       /\ sess[task[k].arg].live /\ sess[task[k].arg].timer_ev = k
       /\ task[k].arg # cls[Main]
       /\ ~(pc[Net] = "free" /\ cls[Net] = task[k].arg)

GatewayIInv ==
  /\ gone \in BOOLEAN /\ lost \in BOOLEAN /\ (lost => gone)
  /\ Ever
  /\ ~lost => Tables
  /\ ~gone => Linked

Keeps == Ever' /\ (Tables => Tables') /\ (Tables /\ Linked => Linked')

-----------------------------------------------------------------------------
(* The constants, the kernel and the records *)

\* The threads are four different ones.
LEMMA Apart == /\ Net # Tmr /\ Net # Con /\ Net # Main /\ Tmr # Con /\ Tmr # Main /\ Con # Main
               /\ Nobody # Net /\ Nobody # Tmr /\ Nobody # Main
<1>1. \A a, b, c : Cardinality({a, b, c}) <= 3
  <2> TAKE a, b, c
  <2>1. IsFiniteSet({}) /\ Cardinality({}) = 0
    BY FS_EmptySet
  <2>2. IsFiniteSet({a}) /\ Cardinality({a}) \in 0 .. 1
    BY <2>1, FS_AddElement
  <2>3. IsFiniteSet({a, b}) /\ Cardinality({a, b}) \in 0 .. 2
    <3>1. {a, b} = {a} \cup {b} OBVIOUS
    <3>2. QED BY <2>2, <3>1, FS_AddElement
  <2>4. Cardinality({a, b, c}) \in 0 .. 3
    <3>1. {a, b, c} = {a, b} \cup {c} OBVIOUS
    <3>2. QED BY <2>3, <3>1, FS_AddElement
  <2>. QED BY <2>4
<1>2. Cardinality({Net, Tmr, Con, Main}) = 4
  BY GatewayAssumption DEF Threads
<1>3. \A a, b, c : {Net, Tmr, Con, Main} # {a, b, c}
  <2> TAKE a, b, c
  <2>1. Cardinality({a, b, c}) <= 3
    BY <1>1
  <2>2. QED BY <2>1, <1>2
<1>4. Net # Tmr
  <2>1. Net = Tmr => {Net, Tmr, Con, Main} = {Tmr, Con, Main} OBVIOUS
  <2>2. QED BY <2>1, <1>3
<1>5. Net # Con
  <2>1. Net = Con => {Net, Tmr, Con, Main} = {Tmr, Con, Main} OBVIOUS
  <2>2. QED BY <2>1, <1>3
<1>6. Net # Main
  <2>1. Net = Main => {Net, Tmr, Con, Main} = {Tmr, Con, Main} OBVIOUS
  <2>2. QED BY <2>1, <1>3
<1>7. Tmr # Con
  <2>1. Tmr = Con => {Net, Tmr, Con, Main} = {Net, Con, Main} OBVIOUS
  <2>2. QED BY <2>1, <1>3
<1>8. Tmr # Main
  <2>1. Tmr = Main => {Net, Tmr, Con, Main} = {Net, Con, Main} OBVIOUS
  <2>2. QED BY <2>1, <1>3
<1>9. Con # Main
  <2>1. Con = Main => {Net, Tmr, Con, Main} = {Net, Tmr, Main} OBVIOUS
  <2>2. QED BY <2>1, <1>3
<1>10. QED BY <1>4, <1>5, <1>6, <1>7, <1>8, <1>9, GatewayAssumption DEF Threads

\* The null pointer is none of what it is compared with.
LEMMA NullApart ==
  /\ Null \notin Link /\ Null \notin Fds /\ Null \notin Sessions /\ Null \notin Tasks
  /\ \A r \in [arg : Sessions, func : {"firstpack", "keepalive"}] : r # Null
<1>1. \A r \in Link : r \in [id : Nat, data : Nat, ended : {"no", "fin", "rst"}]
  BY GatewayAssumption DEF Link, Conns
<1>2. QED BY <1>1, GatewayAssumption

\* The descriptor the kernel gives out is not open.
LEMMA LowestIsFree ==
  ASSUME \E fd \in Fds : ~Open(fd)
  PROVE  LowestFree \in Fds /\ conn[LowestFree] = Null
<1> DEFINE S == {fd \in Fds : ~Open(fd)}
<1>1. S # {} /\ S \subseteq Nat
  BY GatewayAssumption
<1>2. \E m \in S : \A i \in S : ~(i < m)
  <2> DEFINE Less == OpToRel(<, Nat)
  <2>1. IsWellFoundedOn(Less, Nat)
    BY NatLessThanWellFounded
  <2>2. \A i, j \in Nat : i < j => <<i, j>> \in Less
    BY DEF OpToRel
  <2>. HIDE DEF S, Less
  <2>3. \E m \in S : \A i \in S : ~(<<i, m>> \in Less)
    BY <1>1, <2>1, WFMin
  <2>. QED BY <1>1, <2>2, <2>3
<1>3. Min(S) \in S
  BY <1>1, <1>2 DEF Min
<1>. QED BY <1>3 DEF LowestFree, Open

\* A connection that changes stays the same connection on the same descriptor.
LEMMA LinkMoves ==
  ASSUME Typed, NEW fd \in Fds, conn[fd] # Null, NEW l \in Link, l.id = conn[fd].id,
         conn' = [conn EXCEPT ![fd] = l]
  PROVE  /\ conn' \in [Fds -> Link \cup {Null}] /\ conn'[fd] = l
         /\ \A gd \in Fds : gd # fd => conn'[gd] = conn[gd]
         /\ \A gd \in Fds : /\ conn'[gd] # Null <=> conn[gd] # Null
                            /\ conn'[gd].id = conn[gd].id
<1>1. conn \in [Fds -> Link \cup {Null}]
  BY DEF Typed
<1>2. l # Null
  BY NullApart
<1>. QED BY <1>1, <1>2

\* Writing timer_ev leaves the rest of the sessions as it is.
LEMMA TimerNoted ==
  ASSUME Typed, NEW s \in Sessions, NEW k \in Tasks \cup {Null},
         sess' = [sess EXCEPT ![s].timer_ev = k]
  PROVE  /\ \A x \in Sessions : sess'[x].live = sess[x].live /\ sess'[x].sock = sess[x].sock
         /\ \A x \in Sessions : x # s => sess'[x].timer_ev = sess[x].timer_ev
         /\ sess'[s].timer_ev = k
         /\ sess' \in [Sessions -> CSession]
<1> DEFINE r == [sess[s] EXCEPT !.timer_ev = k]
<1>1. sess \in [Sessions -> CSession] /\ sess[s] \in CSession
  BY DEF Typed
<1>2. r \in CSession /\ r.live = sess[s].live /\ r.sock = sess[s].sock /\ r.timer_ev = k
  BY <1>1 DEF CSession
<1>3. sess' = [sess EXCEPT ![s] = r]
  OBVIOUS
<1>4. \A x \in Sessions : sess'[x] = IF x = s THEN r ELSE sess[x]
  <2>. HIDE DEF r
  <2>. QED BY <1>1, <1>3
<1>5. sess' \in [Sessions -> CSession]
  <2>. HIDE DEF r
  <2>. QED BY <1>1, <1>2, <1>3
<1>. HIDE DEF r
<1>. QED BY <1>2, <1>4, <1>5

\* While neither thread is removing, no session is on its way out.
LEMMA NobodyLeaves ==
  ASSUME pc[Net] \notin Removing, pc[Tmr] \notin Removing
  PROVE  \A s \in Sessions : ~Left(s)
BY DEF Left, Leaving, Removing

\* The story of the sessions depends on a few things only: which descriptors are
\* open and for which connection, the entries, which sessions are in use and for
\* which descriptor, and who is leaving or hidden.
LEMMA StoryKept ==
  ASSUME Ever, handles' = handles, newSock' = newSock, ncalls' = ncalls,
         \A fd \in Fds : (conn'[fd] # Null <=> conn[fd] # Null) /\ conn'[fd].id = conn[fd].id,
         \A s \in Sessions : sess'[s].live = sess[s].live /\ sess'[s].sock = sess[s].sock,
         \A s \in Sessions : (Left(s)' <=> Left(s)) /\ (Hidden(s)' <=> Hidden(s))
  PROVE  OneEach' /\ (Tables => Tables')
<1>1. Typed /\ OneEach /\ InWork
  BY DEF Ever
<1>2. OneEach'
  BY <1>1 DEF OneEach, Open
<1>3. ASSUME Tables PROVE Tables'
  <2>1. \A fd \in Fds : handles[fd] # Null => handles[fd] \in Sessions
    BY <1>1 DEF Typed
  <2>2. \A s \in Sessions : Hidden(s) => newSock \in Fds
    BY <1>1 DEF Typed, InWork, Hidden
  <2>3. \A fd \in Fds : handles'[fd] # Null =>
          sess'[handles'[fd]].live /\ sess'[handles'[fd]].sock = fd /\ ~Hidden(handles[fd])'
    BY <1>3, <2>1 DEF Tables
  <2>4. \A s \in Sessions : sess'[s].live => Hidden(s)' \/ handles'[sess'[s].sock] = s
    BY <1>3 DEF Tables
  <2>5. \A s \in Sessions : Hidden(s)' =>
          /\ sess'[s].live /\ sess'[s].sock = newSock'
          /\ Left(s)' \/ conn'[newSock'].id = Call'
          /\ handles'[newSock'] # Null => Left(handles[newSock])'
    BY <1>3, <2>1, <2>2 DEF Tables, Call
  <2>6. \A fd \in Fds : Open(fd)' =>
          \E s \in Sessions : sess'[s].live /\ sess'[s].sock = fd /\ ~Left(s)'
    BY <1>3 DEF Tables, Open
  <2>. QED BY <2>3, <2>4, <2>5, <2>6 DEF Tables
<1>. QED BY <1>2, <1>3

\* What Lua has heard of the connections is not touched.
LEMMA HeardKept ==
  ASSUME Ever, backlog' = backlog, nconn' = nconn, ncalls' = ncalls, told' = told,
         pc'[Main] = "idle" <=> pc[Main] = "idle",
         \A fd \in Fds : (conn'[fd] # Null <=> conn[fd] # Null) /\ conn'[fd].id = conn[fd].id
  PROVE  Heard'
<1>1. Heard
  BY DEF Ever
<1>. QED BY <1>1 DEF Heard, Here, Open, Calling, Call

\* The connection connect_server is making has a number of its own.
LEMMA CallApart ==
  ASSUME Typed, Heard, pc[Main] # "idle"
  PROVE  /\ Call \in Conns /\ Call \in Outgoing
         /\ MaxConns < Call /\ nconn < Call /\ Call \in Nat /\ nconn \in Nat
<1>1. ncalls \in 1 .. MaxCalls /\ nconn \in 0 .. MaxConns
  BY GatewayAssumption DEF Typed, Heard
<1>. QED BY <1>1, GatewayAssumption DEF Call, Conns, Outgoing

-----------------------------------------------------------------------------
(* The peers *)

LEMMA PeerConnectKeeps == ASSUME Ever, PeerConnect PROVE Keeps
<1> DEFINE new == [id |-> nconn + 1, data |-> 0, ended |-> "no"]
<1>1. /\ nconn < MaxConns /\ nconn' = nconn + 1 /\ backlog' = Append(backlog, new)
      /\ conn' = conn /\ nsent' = nsent /\ netLock' = netLock /\ tmrLock' = tmrLock
      /\ task' = task /\ armed' = armed /\ fired' = fired /\ handles' = handles
      /\ sess' = sess /\ accepted' = accepted /\ handed' = handed /\ batch' = batch
      /\ event' = event /\ reads' = reads /\ pc' = pc /\ cls' = cls /\ told' = told
      /\ ncalls' = ncalls /\ newSock' = newSock /\ newTask' = newTask
  BY DEF PeerConnect, timers, channel, loop, outgoing
<1>2. Typed /\ Counted /\ LocksHeld /\ OneEach /\ InWork /\ TasksInUse /\ Heard
  BY DEF Ever
<1>3. /\ backlog' \in Seq(Link) /\ Len(backlog') = Len(backlog) + 1
      /\ \A i \in 1 .. Len(backlog') :
           backlog'[i] = IF i = Len(backlog) + 1 THEN new ELSE backlog[i]
  <2>1. new \in Link
    BY <1>1, <1>2, GatewayAssumption DEF Typed, Link, Conns
  <2>. HIDE DEF new
  <2>2. backlog' = Append(backlog, new) /\ backlog \in Seq(Link)
    BY <1>1, <1>2 DEF Typed
  <2>. QED BY <2>1, <2>2
<1>4. Typed'
  BY <1>1, <1>2, <1>3, GatewayAssumption DEF Typed
<1>5. \A i \in 1 .. Len(backlog') : i = Len(backlog) + 1 \/ i \in 1 .. Len(backlog)
  BY <1>2, <1>3 DEF Typed
<1>6. Counted' /\ LocksHeld' /\ InWork' /\ TasksInUse'
  BY <1>1, <1>2, <1>3, <1>5 DEF Counted, Open, LocksHeld, InWork, TasksInUse
<1>7. OneEach' /\ (Tables => Tables')
  BY <1>1, <1>2, StoryKept DEF Left, Leaving, Hidden
<1>8. Linked => Linked'
  BY <1>1 DEF Linked, Hidden
<1>9. Heard'
  <2>1. \A fd, gd \in Fds : Open(fd)' /\ Open(gd)' /\ fd # gd => conn'[fd].id # conn'[gd].id
    BY <1>1, <1>2 DEF Heard, Open
  <2>2. ASSUME NEW c \in Conns
        PROVE  /\ Here(c)' =>
                    /\ c <= nconn' \/ (MaxConns < c /\ c <= Call')
                    /\ told'[c] = IF Calling(c)' THEN "nothing" ELSE "accepted"
               /\ told'[c] = "accepted" => Here(c)'
               /\ (nconn' < c /\ c <= MaxConns) \/ Call' < c => told'[c] = "nothing"
    BY <1>1, <1>2, GatewayAssumption DEF Typed, Heard, Here, Open, Calling, Call, Conns
  <2>3. pc'[Main] # "idle" =>
          /\ ncalls' > 0 /\ told'[Call'] \in {"nothing", "error"}
          /\ told'[Call'] = "nothing" => Here(Call)'
    BY <1>1, <1>2 DEF Heard, Here, Open, Call
  <2>4. told'[nconn'] = "nothing"
    BY <1>1, <1>2, GatewayAssumption DEF Typed, Heard, Conns
  <2>5. \A i \in 1 .. Len(backlog') :
          backlog'[i].id <= nconn' /\ told'[backlog'[i].id] = "nothing"
    <3>. TAKE i \in 1 .. Len(backlog')
    <3>1. CASE i = Len(backlog) + 1
      BY <3>1, <1>1, <1>2, <1>3, <2>4 DEF Typed
    <3>2. CASE i # Len(backlog) + 1
      <4>1. i \in 1 .. Len(backlog) /\ backlog'[i] = backlog[i]
        BY <3>2, <1>3, <1>5
      <4>2. backlog[i].id <= nconn /\ told[backlog[i].id] = "nothing" /\ backlog[i].id \in Nat
        <5>1. backlog[i] \in Link
          BY <4>1, <1>2 DEF Typed
        <5>. QED BY <4>1, <5>1, <1>2, GatewayAssumption DEF Heard, Link, Conns
      <4>. QED BY <4>1, <4>2, <1>1, <1>2 DEF Typed
    <3>. QED BY <3>1, <3>2
  <2>6. \A i, j \in 1 .. Len(backlog') : i # j => backlog'[i].id # backlog'[j].id
    <3>1. \A i \in 1 .. Len(backlog) : backlog[i].id # nconn + 1
      <4>. TAKE i \in 1 .. Len(backlog)
      <4>1. backlog[i] \in Link /\ nconn \in Nat
        BY <1>2 DEF Typed
      <4>2. backlog[i].id \in Nat /\ backlog[i].id <= nconn
        BY <4>1, <1>2 DEF Heard, Link, Conns
      <4>. QED BY <4>1, <4>2
    <3>. QED BY <3>1, <1>2, <1>3, <1>5 DEF Heard
  <2>. QED BY <2>1, <2>2, <2>3, <2>5, <2>6 DEF Heard
<1>. QED BY <1>4, <1>6, <1>7, <1>8, <1>9 DEF Keeps, Ever

LEMMA PeerSendKeeps == ASSUME NEW fd \in Fds, Ever, PeerSend(fd) PROVE Keeps
<1> DEFINE l == [conn[fd] EXCEPT !.data = @ + 1]
<1>1. /\ Open(fd) /\ nsent < MaxData /\ nsent' = nsent + 1
      /\ conn' = [conn EXCEPT ![fd] = l]
      /\ backlog' = backlog /\ nconn' = nconn /\ netLock' = netLock /\ tmrLock' = tmrLock
      /\ task' = task /\ armed' = armed /\ fired' = fired /\ handles' = handles
      /\ sess' = sess /\ accepted' = accepted /\ handed' = handed /\ batch' = batch
      /\ event' = event /\ reads' = reads /\ pc' = pc /\ cls' = cls /\ told' = told
      /\ ncalls' = ncalls /\ newSock' = newSock /\ newTask' = newTask
  BY DEF PeerSend, timers, channel, loop, outgoing
<1>2. Typed /\ Counted /\ LocksHeld /\ OneEach /\ InWork /\ TasksInUse /\ Heard
  BY DEF Ever
<1>3. conn[fd] \in Link /\ conn[fd] # Null
  BY <1>1, <1>2 DEF Typed, Open
<1>4. l \in Link /\ l.id = conn[fd].id /\ l.data = conn[fd].data + 1
  BY <1>3 DEF Link
<1>. HIDE DEF l
<1>5. /\ conn' \in [Fds -> Link \cup {Null}] /\ conn'[fd] = l
      /\ \A gd \in Fds : gd # fd => conn'[gd] = conn[gd]
      /\ \A gd \in Fds : (conn'[gd] # Null <=> conn[gd] # Null) /\ conn'[gd].id = conn[gd].id
  BY <1>1, <1>2, <1>3, <1>4, LinkMoves
<1>6. Typed' /\ LocksHeld' /\ InWork' /\ TasksInUse'
  BY <1>1, <1>2, <1>5 DEF Typed, LocksHeld, InWork, TasksInUse
<1>7. Counted'
  <2>1. \A gd \in Fds : Open(gd) => conn[gd].data \in Nat /\ conn[gd].data <= nsent
    BY <1>2 DEF Typed, Counted, Open, Link
  <2>2. nsent \in Nat /\ nsent' \in 0 .. MaxData /\ nsent' = nsent + 1
    BY <1>1, <1>2, GatewayAssumption DEF Counted
  <2>3. conn[fd].data \in Nat /\ conn[fd].data <= nsent
    BY <1>1, <2>1
  <2>4. conn'[fd].data <= nsent'
    BY <1>4, <1>5, <2>2, <2>3
  <2>5. \A gd \in Fds : Open(gd)' => conn'[gd].data <= nsent'
    <3>. SUFFICES ASSUME NEW gd \in Fds, conn'[gd] # Null, gd # fd
                  PROVE  conn'[gd].data <= nsent'
      BY <2>4 DEF Open
    <3>1. conn[gd].data \in Nat /\ conn[gd].data <= nsent
      BY <1>5, <2>1 DEF Open
    <3>. QED BY <3>1, <1>5, <2>2
  <2>. QED BY <1>1, <1>2, <2>2, <2>5 DEF Counted
<1>8. OneEach' /\ (Tables => Tables') /\ Heard'
  BY <1>1, <1>2, <1>5, StoryKept, HeardKept DEF Left, Leaving, Hidden
<1>9. Linked => Linked'
  BY <1>1 DEF Linked, Hidden
<1>. QED BY <1>6, <1>7, <1>8, <1>9 DEF Keeps, Ever

LEMMA PeerEndKeeps ==
  ASSUME NEW fd \in Fds, NEW how \in {"fin", "rst"}, Ever, PeerEnd(fd, how)
  PROVE  Keeps
<1> DEFINE l == [conn[fd] EXCEPT !.ended = how]
<1>1. /\ Open(fd)
      /\ conn' = [conn EXCEPT ![fd] = l]
      /\ backlog' = backlog /\ nconn' = nconn /\ nsent' = nsent /\ netLock' = netLock
      /\ tmrLock' = tmrLock /\ task' = task /\ armed' = armed /\ fired' = fired
      /\ handles' = handles /\ sess' = sess /\ accepted' = accepted /\ handed' = handed
      /\ batch' = batch /\ event' = event /\ reads' = reads /\ pc' = pc /\ cls' = cls
      /\ told' = told /\ ncalls' = ncalls /\ newSock' = newSock /\ newTask' = newTask
  BY DEF PeerEnd, timers, channel, loop, outgoing
<1>2. Typed /\ Counted /\ LocksHeld /\ OneEach /\ InWork /\ TasksInUse /\ Heard
  BY DEF Ever
<1>3. conn[fd] \in Link /\ conn[fd] # Null
  BY <1>1, <1>2 DEF Typed, Open
<1>4. l \in Link /\ l.id = conn[fd].id /\ l.data = conn[fd].data
  BY <1>3 DEF Link
<1>. HIDE DEF l
<1>5. /\ conn' \in [Fds -> Link \cup {Null}] /\ conn'[fd] = l
      /\ \A gd \in Fds : gd # fd => conn'[gd] = conn[gd]
      /\ \A gd \in Fds : (conn'[gd] # Null <=> conn[gd] # Null) /\ conn'[gd].id = conn[gd].id
  BY <1>1, <1>2, <1>3, <1>4, LinkMoves
<1>6. Typed' /\ LocksHeld' /\ InWork' /\ TasksInUse'
  BY <1>1, <1>2, <1>5 DEF Typed, LocksHeld, InWork, TasksInUse
<1>7. Counted'
  <2>1. \A gd \in Fds : conn'[gd] # Null => conn[gd] # Null /\ conn'[gd].data = conn[gd].data
    BY <1>4, <1>5
  <2>. QED BY <1>1, <1>2, <2>1 DEF Counted, Open
<1>8. OneEach' /\ (Tables => Tables') /\ Heard'
  BY <1>1, <1>2, <1>5, StoryKept, HeardKept DEF Left, Leaving, Hidden
<1>9. Linked => Linked'
  BY <1>1 DEF Linked, Hidden
<1>. QED BY <1>6, <1>7, <1>8, <1>9 DEF Keeps, Ever

-----------------------------------------------------------------------------
(* network_thread_run *)

LEMMA NetPollKeeps == ASSUME Ever, NetPoll PROVE Keeps
<1>1. /\ pc[Net] = "idle" /\ pc' = [pc EXCEPT ![Net] = "lock"]
      /\ batch' = Ready
      /\ backlog' = backlog /\ conn' = conn /\ nconn' = nconn /\ nsent' = nsent
      /\ netLock' = netLock /\ tmrLock' = tmrLock /\ task' = task /\ armed' = armed
      /\ fired' = fired /\ handles' = handles /\ sess' = sess /\ accepted' = accepted
      /\ handed' = handed /\ event' = event /\ reads' = reads /\ cls' = cls /\ told' = told
      /\ ncalls' = ncalls /\ newSock' = newSock /\ newTask' = newTask
  BY DEF NetPoll, Goto, kernel, timers, channel, loop, outgoing
<1>2. Typed /\ Counted /\ LocksHeld /\ OneEach /\ InWork /\ TasksInUse /\ Heard
  BY DEF Ever
<1>3. pc'[Net] = "lock" /\ pc'[Tmr] = pc[Tmr] /\ pc'[Con] = pc[Con] /\ pc'[Main] = pc[Main]
  BY <1>1, <1>2, Apart DEF Typed, Threads
<1>4. Ready \subseteq Event
  <2>1. \A e \in Ready :
          \E fd \in Fds \cup {Listen}, hup \in BOOLEAN : e = [fd |-> fd, hup |-> hup]
    BY Zenon DEF Ready
  <2>2. \A fd \in Fds \cup {Listen}, hup \in BOOLEAN : [fd |-> fd, hup |-> hup] \in Event
    BY DEF Event
  <2>. QED BY <2>1, <2>2
<1>5. Typed'
  BY <1>1, <1>2, <1>3, <1>4, Apart DEF Typed, Threads, AllPcs, NetPcs, TmrPcs, Works, Removing
<1>6. Counted' /\ TasksInUse' /\ InWork'
  BY <1>1, <1>2, <1>3, <1>4 DEF Typed, Counted, Open, TasksInUse, InWork, Works, Removing
<1>7. LocksHeld'
  BY <1>1, <1>2, <1>3, Apart DEF LocksHeld, Removing, CanLock, LockedBy, Released, Unlocked
<1>8. OneEach' /\ (Tables => Tables') /\ Heard'
  BY <1>1, <1>2, <1>3, <1>4, StoryKept, HeardKept DEF Typed, Left, Leaving, Hidden
<1>9. Tables /\ Linked => Linked'
  BY <1>1, <1>2, <1>3, <1>4 DEF Typed, Linked, Hidden, Works, Removing
<1>. QED BY <1>5, <1>6, <1>7, <1>8, <1>9 DEF Keeps, Ever

LEMMA NetLockKeeps == ASSUME Ever, NetLock PROVE Keeps
<1>1. /\ pc[Net] = "lock" /\ pc' = [pc EXCEPT ![Net] = "next"]
      /\ CanLock(netLock, Net) /\ netLock' = LockedBy(netLock, Net)
      /\ backlog' = backlog /\ conn' = conn /\ nconn' = nconn /\ nsent' = nsent
      /\ tmrLock' = tmrLock /\ task' = task /\ armed' = armed /\ fired' = fired
      /\ handles' = handles /\ sess' = sess /\ accepted' = accepted /\ handed' = handed
      /\ batch' = batch /\ event' = event /\ reads' = reads /\ cls' = cls /\ told' = told
      /\ ncalls' = ncalls /\ newSock' = newSock /\ newTask' = newTask
  BY DEF NetLock, Goto, kernel, timers, channel, loop, outgoing
<1>2. Typed /\ Counted /\ LocksHeld /\ OneEach /\ InWork /\ TasksInUse /\ Heard
  BY DEF Ever
<1>3. pc'[Net] = "next" /\ pc'[Tmr] = pc[Tmr] /\ pc'[Con] = pc[Con] /\ pc'[Main] = pc[Main]
  BY <1>1, <1>2, Apart DEF Typed, Threads
<1>4. Typed'
  BY <1>1, <1>2, <1>3, Apart DEF Typed, Threads, AllPcs, NetPcs, TmrPcs, Works, Removing
<1>5. Counted' /\ TasksInUse' /\ InWork'
  BY <1>1, <1>2, <1>3 DEF Typed, Counted, Open, TasksInUse, InWork, Works, Removing
<1>6. LocksHeld'
  BY <1>1, <1>2, <1>3, Apart DEF LocksHeld, Removing, CanLock, LockedBy, Released, Unlocked
<1>7. OneEach' /\ (Tables => Tables') /\ Heard'
  BY <1>1, <1>2, <1>3, StoryKept, HeardKept DEF Typed, Left, Leaving, Hidden
<1>8. Tables /\ Linked => Linked'
  BY <1>1, <1>2, <1>3 DEF Typed, Linked, Hidden, Works, Removing
<1>. QED BY <1>4, <1>5, <1>6, <1>7, <1>8 DEF Keeps, Ever

LEMMA NetUnlockKeeps == ASSUME Ever, NetUnlock PROVE Keeps
<1>1. /\ pc[Net] = "next" /\ pc' = [pc EXCEPT ![Net] = "idle"]
      /\ netLock' = Released(netLock)
      /\ backlog' = backlog /\ conn' = conn /\ nconn' = nconn /\ nsent' = nsent
      /\ tmrLock' = tmrLock /\ task' = task /\ armed' = armed /\ fired' = fired
      /\ handles' = handles /\ sess' = sess /\ accepted' = accepted /\ handed' = handed
      /\ batch' = batch /\ event' = event /\ reads' = reads /\ cls' = cls /\ told' = told
      /\ ncalls' = ncalls /\ newSock' = newSock /\ newTask' = newTask
  BY DEF NetUnlock, Goto, kernel, timers, channel, loop, outgoing
<1>2. Typed /\ Counted /\ LocksHeld /\ OneEach /\ InWork /\ TasksInUse /\ Heard
  BY DEF Ever
<1>3. pc'[Net] = "idle" /\ pc'[Tmr] = pc[Tmr] /\ pc'[Con] = pc[Con] /\ pc'[Main] = pc[Main]
  BY <1>1, <1>2, Apart DEF Typed, Threads
<1>4. Typed'
  BY <1>1, <1>2, <1>3, Apart DEF Typed, Threads, AllPcs, NetPcs, TmrPcs, Works, Removing
<1>5. Counted' /\ TasksInUse' /\ InWork'
  BY <1>1, <1>2, <1>3 DEF Typed, Counted, Open, TasksInUse, InWork, Works, Removing
<1>6. LocksHeld'
  BY <1>1, <1>2, <1>3, Apart DEF LocksHeld, Removing, CanLock, LockedBy, Released, Unlocked
<1>7. OneEach' /\ (Tables => Tables') /\ Heard'
  BY <1>1, <1>2, <1>3, StoryKept, HeardKept DEF Typed, Left, Leaving, Hidden
<1>8. Tables /\ Linked => Linked'
  BY <1>1, <1>2, <1>3 DEF Typed, Linked, Hidden, Works, Removing
<1>. QED BY <1>4, <1>5, <1>6, <1>7, <1>8 DEF Keeps, Ever

\* As long as the tables agree, what is found in _handleMap is a session in use that
\* connect_server has shown.
LEMMA NetDispatchKeeps == ASSUME Ever, NetDispatch PROVE Keeps
<1>1. /\ pc[Net] = "next"
      /\ \E e \in batch :
           /\ batch' = batch \ {e}
           /\ \/ /\ event' = NoEvent /\ reads' = 0 /\ cls' = cls
                 /\ pc' = [pc EXCEPT ![Net] = "accept"]
              \/ /\ event' = e /\ reads' = 0 /\ e.fd # Listen /\ handles[e.fd] # Null
                 /\ pc' = [pc EXCEPT ![Net] = IF sess[handles[e.fd]].live THEN "read"
                                              ELSE "undefined"]
                 /\ cls' = [cls EXCEPT ![Net] = handles[e.fd]]
              \/ event' = event /\ reads' = reads /\ pc' = pc /\ cls' = cls
      /\ backlog' = backlog /\ conn' = conn /\ nconn' = nconn /\ nsent' = nsent
      /\ netLock' = netLock /\ tmrLock' = tmrLock /\ task' = task /\ armed' = armed
      /\ fired' = fired /\ handles' = handles /\ sess' = sess /\ accepted' = accepted
      /\ handed' = handed /\ told' = told /\ ncalls' = ncalls /\ newSock' = newSock
      /\ newTask' = newTask
  BY DEF NetDispatch, Goto, kernel, timers, channel, outgoing
<1>2. Typed /\ Counted /\ LocksHeld /\ OneEach /\ InWork /\ TasksInUse /\ Heard
  BY DEF Ever
<1>3. /\ pc'[Net] \in {"accept", "read", "undefined", "next"}
      /\ pc'[Tmr] = pc[Tmr] /\ pc'[Con] = pc[Con] /\ pc'[Main] = pc[Main]
      /\ pc' = [pc EXCEPT ![Net] = pc'[Net]]
  BY <1>1, <1>2, Apart DEF Typed, Threads
<1>4. /\ cls'[Tmr] = cls[Tmr] /\ cls'[Con] = cls[Con] /\ cls'[Main] = cls[Main]
      /\ pc'[Net] = "read" =>
           \E fd \in Fds : handles[fd] # Null /\ cls'[Net] = handles[fd] /\ sess[handles[fd]].live
  BY <1>1, <1>2, Apart DEF Typed, Threads, Event
<1>5. /\ batch' \subseteq Event /\ event' \in Event /\ (event'.hup => event'.fd \in Fds)
      /\ cls' \in [Threads -> Sessions \cup {Null}]
  <2>1. batch' \subseteq Event
    BY <1>1, <1>2 DEF Typed
  <2>2. PICK e \in Event : event' = NoEvent \/ (event' = e /\ e.fd # Listen) \/ event' = event
    BY <1>1, <1>2 DEF Typed
  <2>3. NoEvent \in Event /\ ~NoEvent.hup /\ \A x \in Event : x.fd # Listen => x.fd \in Fds
    BY DEF NoEvent, Event
  <2>4. event' \in Event /\ (event'.hup => event'.fd \in Fds)
    <3>1. event \in Event /\ (event.hup => event.fd \in Fds)
      BY <1>2 DEF Typed
    <3>. QED BY <2>2, <2>3, <3>1
  <2>5. cls' \in [Threads -> Sessions \cup {Null}]
    BY <1>1, <1>2 DEF Typed, Threads, Event
  <2>. QED BY <2>1, <2>4, <2>5
<1>6. Typed'
  BY <1>1, <1>2, <1>3, <1>5, Apart DEF Typed, Threads, AllPcs, NetPcs, TmrPcs, Works, Removing
<1>7. Counted' /\ InWork' /\ TasksInUse'
  <2>1. Counted' /\ TasksInUse'
    BY <1>1, <1>2, <1>3, GatewayAssumption DEF Counted, Open, TasksInUse
  <2>2. InWork'
    BY <1>1, <1>2, <1>3, <1>4 DEF Typed, InWork, Works, Removing
  <2>. QED BY <2>1, <2>2
<1>8. LocksHeld'
  BY <1>1, <1>2, <1>3, Apart DEF LocksHeld, Removing
<1>9. OneEach' /\ (Tables => Tables') /\ Heard'
  BY <1>1, <1>2, <1>3, <1>4, StoryKept, HeardKept DEF Typed, Left, Leaving, Hidden
<1>10. Tables /\ Linked => Linked'
  <2>1. Tables /\ pc'[Net] = "read" => sess[cls'[Net]].live /\ ~Hidden(cls'[Net])
    BY <1>4 DEF Tables
  <2>. QED BY <1>1, <1>3, <1>4, <2>1 DEF Linked, Hidden, Works, Removing
<1>. QED BY <1>6, <1>7, <1>8, <1>9, <1>10 DEF Keeps, Ever

LEMMA NetHupKeeps == ASSUME Ever, NetHup PROVE Keeps
<1>1. /\ pc[Net] = "hup" /\ event' = NoEvent /\ reads' = 0
      /\ \/ /\ event.hup /\ handles[event.fd] # Null
            /\ pc' = [pc EXCEPT ![Net] = "remove"]
            /\ cls' = [cls EXCEPT ![Net] = handles[event.fd]]
         \/ /\ pc' = [pc EXCEPT ![Net] = "next"]
            /\ cls' = [cls EXCEPT ![Net] = Null]
      /\ backlog' = backlog /\ conn' = conn /\ nconn' = nconn /\ nsent' = nsent
      /\ netLock' = netLock /\ tmrLock' = tmrLock /\ task' = task /\ armed' = armed
      /\ fired' = fired /\ handles' = handles /\ sess' = sess /\ accepted' = accepted
      /\ handed' = handed /\ batch' = batch /\ told' = told /\ ncalls' = ncalls
      /\ newSock' = newSock /\ newTask' = newTask
  BY DEF NetHup, Goto, kernel, timers, channel, outgoing
<1>2. Typed /\ Counted /\ LocksHeld /\ OneEach /\ InWork /\ TasksInUse /\ Heard
  BY DEF Ever
<1>3. /\ pc'[Net] \in {"remove", "next"}
      /\ pc'[Tmr] = pc[Tmr] /\ pc'[Con] = pc[Con] /\ pc'[Main] = pc[Main]
      /\ pc' = [pc EXCEPT ![Net] = pc'[Net]]
  BY <1>1, <1>2, Apart DEF Typed, Threads
<1>4. /\ cls'[Tmr] = cls[Tmr] /\ cls'[Con] = cls[Con] /\ cls'[Main] = cls[Main]
      /\ pc'[Net] = "remove" => \E fd \in Fds : handles[fd] # Null /\ cls'[Net] = handles[fd]
  BY <1>1, <1>2, Apart DEF Typed, Threads, Event
<1>5. /\ event' \in Event /\ (event'.hup => event'.fd \in Fds)
      /\ cls' \in [Threads -> Sessions \cup {Null}]
  BY <1>1, <1>2, Apart DEF Typed, Threads, Event, NoEvent
<1>6. Typed'
  BY <1>1, <1>2, <1>3, <1>5, Apart DEF Typed, Threads, AllPcs, NetPcs, TmrPcs, Works, Removing
<1>7. Counted' /\ InWork' /\ TasksInUse'
  <2>1. Counted' /\ TasksInUse'
    BY <1>1, <1>2, <1>3, GatewayAssumption DEF Counted, Open, TasksInUse
  <2>2. InWork'
    BY <1>1, <1>2, <1>3, <1>4 DEF Typed, InWork, Works, Removing
  <2>. QED BY <2>1, <2>2
<1>8. LocksHeld'
  BY <1>1, <1>2, <1>3, Apart DEF LocksHeld, Removing
<1>9. OneEach' /\ (Tables => Tables') /\ Heard'
  BY <1>1, <1>2, <1>3, <1>4, StoryKept, HeardKept DEF Typed, Left, Leaving, Hidden
<1>10. Tables /\ Linked => Linked'
  <2>1. Tables /\ pc'[Net] = "remove" => sess[cls'[Net]].live /\ ~Hidden(cls'[Net])
    BY <1>4 DEF Tables
  <2>. QED BY <1>1, <1>3, <1>4, <2>1 DEF Linked, Hidden, Works, Removing
<1>. QED BY <1>6, <1>7, <1>8, <1>9, <1>10 DEF Keeps, Ever

-----------------------------------------------------------------------------
(* accept_socket *)

\* The descriptor is free and no remover is about, so that the new entry replaces none;
\* the connection is one Lua has not heard of.
LEMMA AcceptOneKeeps == ASSUME Ever, AcceptOne PROVE Keeps
<1> DEFINE new == Head(backlog)
<1>1. /\ pc[Net] = "accept" /\ backlog # << >> /\ \E fd \in Fds : ~Open(fd)
      /\ pc' = [pc EXCEPT ![Net] = "schedule"] /\ backlog' = Tail(backlog)
      /\ told' = [told EXCEPT ![new.id] = "accepted"]
      /\ conn' = [conn EXCEPT ![LowestFree] = new]
      /\ nconn' = nconn /\ nsent' = nsent /\ netLock' = netLock /\ tmrLock' = tmrLock
      /\ task' = task /\ armed' = armed /\ fired' = fired /\ accepted' = accepted
      /\ handed' = handed /\ batch' = batch /\ event' = event /\ reads' = reads
      /\ ncalls' = ncalls /\ newSock' = newSock /\ newTask' = newTask
  BY DEF AcceptOne, Goto, kernel, timers, channel, loop, outgoing
<1>2. Typed /\ Counted /\ LocksHeld /\ OneEach /\ InWork /\ TasksInUse /\ Heard
  BY DEF Ever
<1>3. PICK fd \in Fds : fd = LowestFree /\ conn[fd] = Null
  BY <1>1, LowestIsFree
<1>4. PICK s \in Sessions :
        /\ ~sess[s].live
        /\ sess' = [sess EXCEPT ![s] = Created(fd)]
        /\ handles' = [handles EXCEPT ![fd] = s]
        /\ cls' = [cls EXCEPT ![Net] = s]
  BY <1>3 DEF AcceptOne
<1>5. /\ new \in Link /\ new = backlog[1] /\ new # Null /\ new.data = 0
      /\ 1 \in 1 .. Len(backlog)
      /\ backlog' \in Seq(Link) /\ Len(backlog') = Len(backlog) - 1
      /\ \A i \in 1 .. Len(backlog') : backlog'[i] = backlog[i + 1]
  <2>1. backlog \in Seq(Link)
    BY <1>2 DEF Typed
  <2>2. new \in Link /\ new = backlog[1] /\ 1 \in 1 .. Len(backlog)
    BY <1>1, <2>1
  <2>3. /\ backlog' \in Seq(Link) /\ Len(backlog') = Len(backlog) - 1
        /\ \A i \in 1 .. Len(backlog') : backlog'[i] = backlog[i + 1]
    BY <1>1, <2>1
  <2>4. new.data = 0
    BY <1>2, <2>2 DEF Counted
  <2>. QED BY <2>2, <2>3, <2>4, NullApart
<1>6. /\ pc'[Net] = "schedule" /\ pc'[Tmr] = pc[Tmr] /\ pc'[Con] = pc[Con] /\ pc'[Main] = pc[Main]
      /\ cls'[Net] = s /\ cls'[Tmr] = cls[Tmr] /\ cls'[Con] = cls[Con] /\ cls'[Main] = cls[Main]
  BY <1>1, <1>2, <1>4, Apart DEF Typed, Threads
<1>7. /\ conn' \in [Fds -> Link \cup {Null}] /\ conn'[fd] = new
      /\ \A gd \in Fds : gd # fd => conn'[gd] = conn[gd]
  <2>. HIDE DEF new
  <2>1. conn' = [conn EXCEPT ![fd] = new] /\ conn \in [Fds -> Link \cup {Null}]
    BY <1>1, <1>2, <1>3 DEF Typed
  <2>. QED BY <1>5, <2>1
<1>8. /\ new.id \in Conns /\ new.id <= nconn /\ told[new.id] = "nothing"
      /\ told' = [told EXCEPT ![new.id] = "accepted"]
  BY <1>1, <1>2, <1>5 DEF Heard, Link
<1>. HIDE DEF new
<1>9. /\ handles' \in [Fds -> Sessions \cup {Null}] /\ handles'[fd] = s
      /\ \A gd \in Fds : gd # fd => handles'[gd] = handles[gd]
      /\ sess'[s].live /\ sess'[s].sock = fd /\ sess'[s].timer_ev = Null
      /\ \A x \in Sessions : x # s => sess'[x] = sess[x]
      /\ sess' \in [Sessions -> CSession]
  BY <1>2, <1>4 DEF Typed, Created, CSession
<1>10. /\ pc[Tmr] \notin Removing
       /\ \A x \in Sessions : ~Left(x) /\ ~Left(x)' /\ (Hidden(x)' <=> Hidden(x))
  <2>1. pc[Tmr] \notin Removing
    BY <1>1, <1>2 DEF LocksHeld
  <2>. QED BY <2>1, <1>1, <1>6 DEF Left, Leaving, Hidden, Removing
<1>11. Typed'
  <2>1. pc' \in [Threads -> AllPcs]
    BY <1>1, <1>2 DEF Typed, AllPcs, NetPcs, Works
  <2>2. cls' \in [Threads -> Sessions \cup {Null}]
    BY <1>2, <1>4 DEF Typed
  <2>3. told' \in [Conns -> Words]
    BY <1>2, <1>8 DEF Typed, Words
  <2>. QED BY <1>1, <1>2, <1>5, <1>6, <1>7, <1>9, <2>1, <2>2, <2>3 DEF Typed, NetPcs, Works
<1>12. Counted' /\ LocksHeld'
  <2>1. \A i \in 1 .. Len(backlog') : backlog'[i].data = 0
    <3>1. Len(backlog) \in Nat
      BY <1>2 DEF Typed
    <3>2. \A i \in 1 .. Len(backlog') : i + 1 \in 1 .. Len(backlog)
      BY <3>1, <1>5
    <3>. QED BY <3>2, <1>2, <1>5 DEF Counted
  <2>2. Counted'
    <3>1. \A gd \in Fds : conn'[gd] # Null => conn'[gd].data <= nsent
      <4>1. nsent \in Nat
        BY <1>2 DEF Counted
      <4>. QED BY <1>2, <1>5, <1>7, <4>1 DEF Counted, Open
    <3>. QED BY <1>1, <1>2, <2>1, <3>1 DEF Counted, Open
  <2>3. LocksHeld'
    BY <1>1, <1>2, <1>6 DEF LocksHeld, Removing
  <2>. QED BY <2>2, <2>3
<1>13. InWork' /\ TasksInUse'
  BY <1>1, <1>2, <1>4, <1>6, <1>9, <1>10 DEF Typed, InWork, TasksInUse, Works, Removing
<1>14. OneEach'
  <2>1. \A x \in Sessions : sess[x].live => sess[x].sock \in Fds /\ conn[sess[x].sock] # Null
    BY <1>2, <1>10 DEF OneEach, Open
  <2>2. \A x \in Sessions : sess[x].live => x # s /\ sess[x].sock # fd
    BY <1>3, <1>4, <2>1
  <2>3. \A x, y \in Sessions :
          x # y /\ sess[x].live /\ sess[y].live => sess[x].sock # sess[y].sock
    BY <1>2, <1>10 DEF OneEach
  <2>4. \A x \in Sessions : sess'[x].live => sess'[x].sock \in Fds /\ conn'[sess'[x].sock] # Null
    BY <1>5, <1>7, <1>9, <2>1, <2>2
  <2>5. \A x, y \in Sessions :
          x # y /\ sess'[x].live /\ sess'[y].live => sess'[x].sock # sess'[y].sock
    BY <1>9, <2>2, <2>3
  <2>. QED BY <2>4, <2>5 DEF OneEach, Open
<1>15. ASSUME Tables PROVE Tables'
  <2>1. handles[fd] = Null /\ \A gd \in Fds : handles[gd] # s
    <3>1. \A gd \in Fds : handles[gd] # Null => sess[handles[gd]].live /\ sess[handles[gd]].sock = gd
      BY <1>15 DEF Tables
    <3>2. handles[fd] # Null => conn[fd] # Null
      BY <1>2, <1>10, <3>1 DEF OneEach, Open, Typed
    <3>. QED BY <1>3, <1>4, <3>1, <3>2, NullApart
  <2>2. \A x \in Sessions : Hidden(x) => /\ x # s /\ sess[x].live /\ sess[x].sock = newSock
                                         /\ newSock \in Fds /\ newSock # fd
                                         /\ conn[newSock].id = Call /\ handles[newSock] = Null
    <3>. SUFFICES ASSUME NEW x \in Sessions, Hidden(x)
                  PROVE  /\ x # s /\ sess[x].live /\ sess[x].sock = newSock
                         /\ newSock \in Fds /\ newSock # fd
                         /\ conn[newSock].id = Call /\ handles[newSock] = Null
      OBVIOUS
    <3>1. sess[x].live /\ sess[x].sock = newSock /\ conn[newSock].id = Call
      BY <1>10, <1>15 DEF Tables
    <3>2. newSock \in Fds /\ conn[newSock] # Null
      BY <1>2, <1>10, <3>1 DEF OneEach, Open
    <3>3. handles[newSock] = Null
      BY <1>2, <1>10, <1>15, <3>2 DEF Typed, Tables
    <3>. QED BY <1>3, <1>4, <3>1, <3>2, <3>3
  <2>3. \A gd \in Fds : handles'[gd] # Null =>
          sess'[handles'[gd]].live /\ sess'[handles'[gd]].sock = gd /\ ~Hidden(handles[gd])'
    <3>. SUFFICES ASSUME NEW gd \in Fds, handles'[gd] # Null
                  PROVE  /\ sess'[handles'[gd]].live /\ sess'[handles'[gd]].sock = gd
                         /\ ~Hidden(handles[gd])'
      OBVIOUS
    <3>1. CASE gd = fd
      <4>1. cls[Main] # s \/ pc[Main] # "insert"
        BY <2>2 DEF Hidden
      <4>2. ~Hidden(handles[gd])'
        BY <3>1, <4>1, <1>6, <1>9 DEF Hidden
      <4>. QED BY <3>1, <4>2, <1>9
    <3>2. CASE gd # fd
      <4>1. /\ handles'[gd] = handles[gd] /\ handles[gd] \in Sessions /\ handles[gd] # s
            /\ sess'[handles[gd]] = sess[handles[gd]]
        BY <3>2, <1>2, <1>9, <2>1 DEF Typed
      <4>2. sess[handles[gd]].live /\ sess[handles[gd]].sock = gd /\ ~Hidden(handles[gd])
        BY <4>1, <1>15 DEF Tables
      <4>3. ~Hidden(handles[gd])'
        BY <4>1, <4>2, <1>6 DEF Hidden
      <4>. QED BY <4>1, <4>2, <4>3
    <3>. QED BY <3>1, <3>2
  <2>4. \A x \in Sessions : sess'[x].live => Hidden(x)' \/ handles'[sess'[x].sock] = x
    <3>. SUFFICES ASSUME NEW x \in Sessions, sess'[x].live, x # s
                  PROVE  Hidden(x)' \/ handles'[sess'[x].sock] = x
      BY <1>9
    <3>1. sess'[x] = sess[x] /\ sess[x].sock \in Fds /\ (Hidden(x) \/ handles[sess[x].sock] = x)
      BY <1>2, <1>9, <1>15 DEF OneEach, Tables
    <3>2. handles[sess[x].sock] = x => sess[x].sock # fd
      BY <2>1, NullApart
    <3>. QED BY <3>1, <3>2, <1>9, <1>10
  <2>5. \A x \in Sessions : Hidden(x)' =>
          /\ sess'[x].live /\ sess'[x].sock = newSock'
          /\ conn'[newSock'].id = Call' /\ handles'[newSock'] = Null
    BY <1>1, <1>7, <1>9, <1>10, <2>2 DEF Call
  <2>6. \A gd \in Fds : Open(gd)' =>
          \E x \in Sessions : sess'[x].live /\ sess'[x].sock = gd /\ ~Left(x)'
    <3>. SUFFICES ASSUME NEW gd \in Fds, conn'[gd] # Null
                  PROVE  \E x \in Sessions : sess'[x].live /\ sess'[x].sock = gd
      BY <1>10 DEF Open
    <3>1. CASE gd = fd
      BY <3>1, <1>9
    <3>2. CASE gd # fd
      <4>1. \E x \in Sessions : sess[x].live /\ sess[x].sock = gd
        BY <3>2, <1>7, <1>15 DEF Tables, Open
      <4>. QED BY <4>1, <1>4, <1>9
    <3>. QED BY <3>1, <3>2
  <2>. QED BY <2>3, <2>4, <2>5, <2>6 DEF Tables
<1>16. ASSUME Linked PROVE Linked'
  <2>1. s # cls[Main]
    BY <1>4, <1>16, NullApart DEF Linked
  <2>. QED BY <1>1, <1>2, <1>4, <1>6, <1>9, <1>10, <1>16, <2>1, NullApart
           DEF Typed, Linked, TasksInUse, TimerTask, InWork, Hidden, Works, Removing
<1>17. Heard'
  <2>1. \A gd \in Fds : Open(gd) => conn[gd].id # new.id
    <3>. SUFFICES ASSUME NEW gd \in Fds, Open(gd), conn[gd].id = new.id PROVE FALSE
      OBVIOUS
    <3>1. told[new.id] = "accepted" \/ Calling(new.id)
      BY <1>2, <1>8 DEF Heard, Here
    <3>2. ~Calling(new.id)
      BY <1>2, <1>8, CallApart, GatewayAssumption DEF Calling, Conns
    <3>. QED BY <1>8, <3>1, <3>2
  <2>2. \A gd, hd \in Fds : Open(gd)' /\ Open(hd)' /\ gd # hd => conn'[gd].id # conn'[hd].id
    BY <1>2, <1>7, <2>1 DEF Heard, Open
  <2>3. \A c \in Conns : Here(c)' <=> Here(c) \/ c = new.id
    BY <1>3, <1>5, <1>7 DEF Here, Open
  <2>4. \A c \in Conns : told'[c] = IF c = new.id THEN "accepted" ELSE told[c]
    BY <1>2, <1>8 DEF Typed
  <2>5. /\ ~Calling(new.id) /\ new.id < MaxConns + 1
        /\ pc[Main] # "idle" => new.id # Call /\ Call \in Conns
    <3>1. new.id \in Nat /\ nconn \in Nat /\ nconn <= MaxConns /\ MaxConns \in Nat
      BY <1>2, <1>8, GatewayAssumption DEF Typed, Conns
    <3>2. pc[Main] # "idle" => nconn < Call /\ Call \in Nat /\ Call \in Conns
      BY <1>2, CallApart
    <3>. QED BY <1>8, <3>1, <3>2 DEF Calling
  <2>6. \A c \in Conns : Here(c)' =>
          /\ c <= nconn' \/ (MaxConns < c /\ c <= Call')
          /\ told'[c] = IF Calling(c)' THEN "nothing" ELSE "accepted"
    BY <1>1, <1>2, <1>6, <1>8, <2>3, <2>4, <2>5 DEF Heard, Calling, Call
  <2>7. \A c \in Conns : told'[c] = "accepted" => Here(c)'
    BY <1>2, <2>3, <2>4 DEF Heard
  <2>8. \A c \in Conns : (nconn' < c /\ c <= MaxConns) \/ Call' < c => told'[c] = "nothing"
    BY <1>1, <1>2, <1>8, <2>4, GatewayAssumption DEF Typed, Heard, Call, Conns
  <2>9. pc'[Main] # "idle" =>
          /\ ncalls' > 0 /\ told'[Call'] \in {"nothing", "error"}
          /\ told'[Call'] = "nothing" => Here(Call)'
    BY <1>1, <1>2, <1>6, <2>3, <2>4, <2>5 DEF Heard, Call
  <2>10. \A i \in 1 .. Len(backlog) :
           backlog[i] \in Link /\ backlog[i].id \in Conns /\ (i # 1 => backlog[i].id # new.id)
    <3>. TAKE i \in 1 .. Len(backlog)
    <3>1. backlog[i] \in Link
      BY <1>2 DEF Typed
    <3>2. i # 1 => backlog[i].id # backlog[1].id
      BY <1>2, <1>5 DEF Heard
    <3>. QED BY <1>5, <3>1, <3>2 DEF Link
  <2>11. \A i \in 1 .. Len(backlog') : i + 1 \in 1 .. Len(backlog) /\ i + 1 # 1 /\ i \in Nat
    BY <1>2, <1>5 DEF Typed
  <2>12. \A i \in 1 .. Len(backlog') :
           backlog'[i].id <= nconn' /\ told'[backlog'[i].id] = "nothing"
    BY <1>1, <1>2, <1>5, <2>4, <2>10, <2>11 DEF Heard
  <2>13. \A i, j \in 1 .. Len(backlog') : i # j => backlog'[i].id # backlog'[j].id
    <3>. SUFFICES ASSUME NEW i \in 1 .. Len(backlog'), NEW j \in 1 .. Len(backlog'), i # j
                  PROVE  backlog'[i].id # backlog'[j].id
      OBVIOUS
    <3>1. /\ i + 1 \in 1 .. Len(backlog) /\ j + 1 \in 1 .. Len(backlog) /\ i + 1 # j + 1
      BY <2>11
    <3>2. backlog[i + 1].id # backlog[j + 1].id
      BY <1>2, <3>1 DEF Heard
    <3>. QED BY <1>5, <3>2
  <2>. QED BY <2>2, <2>6, <2>7, <2>8, <2>9, <2>12, <2>13 DEF Heard
<1>. QED BY <1>11, <1>12, <1>13, <1>14, <1>15, <1>16, <1>17 DEF Keeps, Ever

LEMMA AcceptNoneKeeps == ASSUME Ever, AcceptNone PROVE Keeps
<1>1. /\ pc[Net] = "accept" /\ pc' = [pc EXCEPT ![Net] = "next"]
      /\ backlog' = backlog /\ conn' = conn /\ nconn' = nconn /\ nsent' = nsent
      /\ netLock' = netLock /\ tmrLock' = tmrLock /\ task' = task /\ armed' = armed
      /\ fired' = fired /\ handles' = handles /\ sess' = sess /\ accepted' = accepted
      /\ handed' = handed /\ batch' = batch /\ event' = event /\ reads' = reads /\ cls' = cls
      /\ told' = told /\ ncalls' = ncalls /\ newSock' = newSock /\ newTask' = newTask
  BY DEF AcceptNone, Goto, kernel, timers, channel, loop, outgoing
<1>2. Typed /\ Counted /\ LocksHeld /\ OneEach /\ InWork /\ TasksInUse /\ Heard
  BY DEF Ever
<1>3. pc'[Net] = "next" /\ pc'[Tmr] = pc[Tmr] /\ pc'[Con] = pc[Con] /\ pc'[Main] = pc[Main]
  BY <1>1, <1>2, Apart DEF Typed, Threads
<1>4. Typed'
  BY <1>1, <1>2, <1>3, Apart DEF Typed, Threads, AllPcs, NetPcs, TmrPcs, Works, Removing
<1>5. Counted' /\ TasksInUse' /\ InWork'
  BY <1>1, <1>2, <1>3 DEF Typed, Counted, Open, TasksInUse, InWork, Works, Removing
<1>6. LocksHeld'
  BY <1>1, <1>2, <1>3, Apart DEF LocksHeld, Removing, CanLock, LockedBy, Released, Unlocked
<1>7. OneEach' /\ (Tables => Tables') /\ Heard'
  BY <1>1, <1>2, <1>3, StoryKept, HeardKept DEF Typed, Left, Leaving, Hidden
<1>8. Tables /\ Linked => Linked'
  BY <1>1, <1>2, <1>3 DEF Typed, Linked, Hidden, Works, Removing
<1>. QED BY <1>4, <1>5, <1>6, <1>7, <1>8 DEF Keeps, Ever

\* The session has no timer yet, so that the new one is its only one.
LEMMA TimerScheduleKeeps == ASSUME Ever, TimerSchedule PROVE Keeps
<1> DEFINE s == cls[Net]  new == [arg |-> s, func |-> "firstpack"]
<1>1. /\ pc[Net] = "schedule" /\ CanLock(tmrLock, Net)
      /\ cls' = [cls EXCEPT ![Net] = Null]
      /\ pc' = [pc EXCEPT ![Net] = "accept"]
      /\ backlog' = backlog /\ conn' = conn /\ nconn' = nconn /\ nsent' = nsent
      /\ netLock' = netLock /\ tmrLock' = tmrLock /\ fired' = fired /\ handles' = handles
      /\ accepted' = accepted /\ handed' = handed /\ batch' = batch /\ event' = event
      /\ reads' = reads /\ told' = told /\ ncalls' = ncalls /\ newSock' = newSock
      /\ newTask' = newTask
  BY DEF TimerSchedule, Goto, kernel, channel, loop, outgoing
<1>2. Typed /\ Counted /\ LocksHeld /\ OneEach /\ InWork /\ TasksInUse /\ Heard
  BY DEF Ever
<1>3. /\ pc'[Net] = "accept" /\ pc'[Tmr] = pc[Tmr] /\ pc'[Con] = pc[Con] /\ pc'[Main] = pc[Main]
      /\ cls'[Net] = Null /\ cls'[Tmr] = cls[Tmr] /\ cls'[Con] = cls[Con] /\ cls'[Main] = cls[Main]
  BY <1>1, <1>2, Apart DEF Typed, Threads
<1>4. s \in Sessions /\ sess[s].live
  BY <1>1, <1>2 DEF InWork, Works
<1>5. PICK k \in Tasks :
        /\ task[k] = Null
        /\ task' = [task EXCEPT ![k] = new]
        /\ armed' = armed \cup {k}
        /\ sess' = [sess EXCEPT ![s].timer_ev = k]
  BY DEF TimerSchedule
<1>6. new \in TimerTask /\ new # Null /\ new.arg = s /\ new.func = "firstpack"
  BY <1>4, NullApart DEF TimerTask
<1>. HIDE DEF new
<1>7. /\ task' \in [Tasks -> TimerTask \cup {Null}]
      /\ task'[k] = new /\ \A l \in Tasks : l # k => task'[l] = task[l]
  BY <1>2, <1>5, <1>6 DEF Typed
<1>8. /\ \A x \in Sessions : sess'[x].live = sess[x].live /\ sess'[x].sock = sess[x].sock
      /\ \A x \in Sessions : x # s => sess'[x].timer_ev = sess[x].timer_ev
      /\ sess'[s].timer_ev = k
      /\ sess' \in [Sessions -> CSession]
  <2>. HIDE DEF s
  <2>. QED BY <1>2, <1>4, <1>5, TimerNoted
<1>9. Typed'
  <2>1. pc' \in [Threads -> AllPcs]
    BY <1>1, <1>2 DEF Typed, AllPcs, NetPcs
  <2>2. cls' \in [Threads -> Sessions \cup {Null}] /\ armed' \subseteq Tasks
    BY <1>1, <1>2, <1>5 DEF Typed
  <2>. QED BY <1>1, <1>2, <1>3, <1>7, <1>8, <2>1, <2>2 DEF Typed, NetPcs
<1>10. Counted' /\ LocksHeld'
  BY <1>1, <1>2, <1>3 DEF Counted, Open, LocksHeld, Removing
<1>11. OneEach' /\ (Tables => Tables') /\ Heard'
  BY <1>1, <1>2, <1>3, <1>8, StoryKept, HeardKept DEF Left, Leaving, Hidden
<1>12. k # fired /\ k \notin armed
  BY <1>2, <1>5, NullApart DEF TasksInUse, Typed
<1>13. InWork' /\ TasksInUse'
  <2>1. InWork'
    BY <1>1, <1>2, <1>3, <1>8 DEF InWork, Works
  <2>2. TasksInUse'
    BY <1>1, <1>2, <1>3, <1>5, <1>6, <1>7, <1>12 DEF Typed, TasksInUse
  <2>. QED BY <2>1, <2>2
<1>14. ASSUME Linked PROVE Linked'
  <2>1. s # cls[Main] /\ sess[s].timer_ev = Null
    BY <1>1, <1>14 DEF Linked
  <2>2. pc'[Tmr] \in {"remove"} \cup Removing =>
          /\ sess'[cls'[Tmr]].live /\ sess'[cls'[Tmr]].timer_ev = fired'
          /\ task'[fired'] = [arg |-> cls'[Tmr], func |-> "firstpack"]
          /\ cls'[Tmr] # cls'[Main]
    <3>1. pc[Tmr] \in {"remove"} \cup Removing =>
            cls[Tmr] \in Sessions /\ cls[Tmr] # s /\ fired # k /\ fired \in Tasks
      BY <1>2, <1>12, <1>14, <2>1 DEF Linked, InWork, TasksInUse, Typed
    <3>. QED BY <1>1, <1>3, <1>7, <1>8, <1>14, <3>1 DEF Linked
  <2>3. cls'[Main] # Null => sess'[cls'[Main]].live
    BY <1>2, <1>3, <1>8, <1>14 DEF Typed, Threads, Linked
  <2>4. ASSUME NEW l \in armed', task'[l].func = "firstpack"
        PROVE  /\ sess'[task'[l].arg].live /\ sess'[task'[l].arg].timer_ev = l
               /\ task'[l].arg # cls'[Main]
    <3>1. CASE l = k
      BY <3>1, <1>3, <1>4, <1>6, <1>7, <1>8, <2>1
    <3>2. CASE l # k
      <4>1. /\ l \in armed /\ l \in Tasks /\ task'[l] = task[l] /\ task[l].arg \in Sessions
        BY <3>2, <1>2, <1>5, <1>7 DEF Typed, TasksInUse, TimerTask
      <4>2. sess[task[l].arg].live /\ sess[task[l].arg].timer_ev = l /\ task[l].arg # cls[Main]
        BY <2>4, <4>1, <1>14 DEF Linked
      <4>3. task[l].arg # s
        BY <4>1, <4>2, <2>1, NullApart
      <4>. QED BY <4>1, <4>2, <4>3, <1>3, <1>8
    <3>. QED BY <3>1, <3>2
  <2>. QED BY <1>3, <2>2, <2>3, <2>4 DEF Linked, Works
<1>. QED BY <1>9, <1>10, <1>11, <1>13, <1>14 DEF Keeps, Ever

-----------------------------------------------------------------------------
(* read_socket *)

\* The session that is read is open on its descriptor.
LEMMA ReadDataKeeps == ASSUME Ever, ReadData PROVE Keeps
<1> DEFINE fd == sess[cls[Net]].sock  l == [conn[fd] EXCEPT !.data = @ - 1]
<1>1. /\ pc[Net] = "read" /\ pc' = [pc EXCEPT ![Net] = "touch"]
      /\ conn[fd].data > 0 /\ conn' = [conn EXCEPT ![fd] = l]
      /\ accepted' = Append(accepted, <<cls[Net], conn[fd].id>>)
      /\ reads < MaxReads /\ reads' = reads + 1
      /\ backlog' = backlog /\ nconn' = nconn /\ nsent' = nsent /\ netLock' = netLock
      /\ tmrLock' = tmrLock /\ task' = task /\ armed' = armed /\ fired' = fired
      /\ handles' = handles /\ sess' = sess /\ handed' = handed /\ batch' = batch
      /\ event' = event /\ cls' = cls /\ told' = told /\ ncalls' = ncalls
      /\ newSock' = newSock /\ newTask' = newTask
  BY DEF ReadData, Goto, timers, outgoing, Queue!Accept
<1>2. Typed /\ Counted /\ LocksHeld /\ OneEach /\ InWork /\ TasksInUse /\ Heard
  BY DEF Ever
<1>3. pc'[Net] = "touch" /\ pc'[Tmr] = pc[Tmr] /\ pc'[Con] = pc[Con] /\ pc'[Main] = pc[Main]
  BY <1>1, <1>2, Apart DEF Typed, Threads
<1>4. cls[Net] \in Sessions /\ fd \in Fds /\ conn[fd] \in Link /\ conn[fd] # Null
  <2>1. cls[Net] \in Sessions /\ sess[cls[Net]].live
    BY <1>1, <1>2 DEF InWork, Works
  <2>2. ~Left(cls[Net])
    BY <1>1, <1>2, <2>1, NobodyLeaves DEF LocksHeld, Removing
  <2>. QED BY <1>2, <2>1, <2>2 DEF Typed, OneEach, Open
<1>5. l \in Link /\ l.id = conn[fd].id /\ l.data = conn[fd].data - 1
  BY <1>1, <1>4 DEF Link
<1>6. accepted' \in Seq(Sessions \X Conns)
  <2>1. <<cls[Net], conn[fd].id>> \in Sessions \X Conns
    BY <1>4 DEF Link
  <2>2. accepted \in Seq(Sessions \X Conns)
    BY <1>2 DEF Typed
  <2>. QED BY <1>1, <2>1, <2>2
<1>. HIDE DEF l, fd
<1>7. /\ conn' \in [Fds -> Link \cup {Null}] /\ conn'[fd] = l
      /\ \A gd \in Fds : gd # fd => conn'[gd] = conn[gd]
      /\ \A gd \in Fds : (conn'[gd] # Null <=> conn[gd] # Null) /\ conn'[gd].id = conn[gd].id
  BY <1>1, <1>2, <1>4, <1>5, LinkMoves
<1>8. Typed'
  <2>1. pc' \in [Threads -> AllPcs]
    BY <1>1, <1>2 DEF Typed, AllPcs, NetPcs, Works
  <2>. QED BY <1>1, <1>2, <1>3, <1>6, <1>7, <2>1 DEF Typed, NetPcs, Works
<1>9. Counted'
  <2>1. \A gd \in Fds : Open(gd) => conn[gd].data \in Nat /\ conn[gd].data <= nsent
    BY <1>2 DEF Typed, Counted, Open, Link
  <2>2. \A gd \in Fds : Open(gd)' => conn'[gd].data <= nsent'
    BY <1>1, <1>2, <1>4, <1>5, <1>7, <2>1, GatewayAssumption DEF Counted, Open
  <2>. QED BY <1>1, <1>2, <2>2, GatewayAssumption DEF Counted
<1>10. LocksHeld' /\ InWork' /\ TasksInUse'
  BY <1>1, <1>2, <1>3 DEF LocksHeld, InWork, TasksInUse, Works, Removing
<1>11. OneEach' /\ (Tables => Tables') /\ Heard'
  BY <1>1, <1>2, <1>3, <1>7, StoryKept, HeardKept DEF Left, Leaving, Hidden
<1>12. Linked => Linked'
  BY <1>1, <1>3 DEF Linked, Hidden, Works
<1>. QED BY <1>8, <1>9, <1>10, <1>11, <1>12 DEF Keeps, Ever

\* Whatever timer is cancelled, a timer that stays on the list is left alone.
LEMMA ReadTouchKeeps == ASSUME Ever, ReadTouch PROVE Keeps
<1>1. /\ pc[Net] = "touch" /\ pc' = [pc EXCEPT ![Net] = "read"]
      /\ \/ armed' = armed /\ task' = task
         \/ \E ev \in armed : armed' = armed \ {ev} /\ task' = [task EXCEPT ![ev] = Null]
      /\ backlog' = backlog /\ conn' = conn /\ nconn' = nconn /\ nsent' = nsent
      /\ netLock' = netLock /\ tmrLock' = tmrLock /\ fired' = fired /\ handles' = handles
      /\ sess' = sess /\ accepted' = accepted /\ handed' = handed /\ batch' = batch
      /\ event' = event /\ reads' = reads /\ cls' = cls /\ told' = told /\ ncalls' = ncalls
      /\ newSock' = newSock /\ newTask' = newTask
  <2>1. \/ armed' = armed /\ task' = task
        \/ \E ev \in armed : armed' = armed \ {ev} /\ task' = [task EXCEPT ![ev] = Null]
    BY DEF ReadTouch, Cancelled, timers
  <2>. QED BY <2>1 DEF ReadTouch, Cancelled, Goto, kernel, timers, channel, loop, outgoing
<1>2. Typed /\ Counted /\ LocksHeld /\ OneEach /\ InWork /\ TasksInUse /\ Heard
  BY DEF Ever
<1>3. pc'[Net] = "read" /\ pc'[Tmr] = pc[Tmr] /\ pc'[Con] = pc[Con] /\ pc'[Main] = pc[Main]
  BY <1>1, <1>2, Apart DEF Typed, Threads
<1>4. /\ task' \in [Tasks -> TimerTask \cup {Null}] /\ armed' \subseteq armed
      /\ \A k \in Tasks : k = fired \/ k \in armed' => task'[k] = task[k]
  BY <1>1, <1>2 DEF Typed, TasksInUse
<1>5. Typed'
  <2>1. pc' \in [Threads -> AllPcs]
    BY <1>1, <1>2 DEF Typed, AllPcs, NetPcs, Works
  <2>. QED BY <1>1, <1>2, <1>3, <1>4, <2>1 DEF Typed, NetPcs, Works
<1>6. Counted' /\ LocksHeld' /\ InWork'
  BY <1>1, <1>2, <1>3 DEF Counted, Open, LocksHeld, InWork, Works, Removing
<1>7. TasksInUse'
  BY <1>1, <1>2, <1>3, <1>4 DEF Typed, TasksInUse
<1>8. OneEach' /\ (Tables => Tables') /\ Heard'
  BY <1>1, <1>2, <1>3, StoryKept, HeardKept DEF Left, Leaving, Hidden
<1>9. Linked => Linked'
  BY <1>1, <1>2, <1>3, <1>4 DEF Typed, Linked, TasksInUse, Hidden, Works, Removing
<1>. QED BY <1>5, <1>6, <1>7, <1>8, <1>9 DEF Keeps, Ever

LEMMA ReadEndKeeps == ASSUME Ever, ReadEnd PROVE Keeps
<1>1. /\ pc[Net] = "read" /\ pc' = [pc EXCEPT ![Net] = "remove"]
      /\ backlog' = backlog /\ conn' = conn /\ nconn' = nconn /\ nsent' = nsent
      /\ netLock' = netLock /\ tmrLock' = tmrLock /\ task' = task /\ armed' = armed
      /\ fired' = fired /\ handles' = handles /\ sess' = sess /\ accepted' = accepted
      /\ handed' = handed /\ batch' = batch /\ event' = event /\ reads' = reads /\ cls' = cls
      /\ told' = told /\ ncalls' = ncalls /\ newSock' = newSock /\ newTask' = newTask
  BY DEF ReadEnd, Goto, kernel, timers, channel, loop, outgoing
<1>2. Typed /\ Counted /\ LocksHeld /\ OneEach /\ InWork /\ TasksInUse /\ Heard
  BY DEF Ever
<1>3. pc'[Net] = "remove" /\ pc'[Tmr] = pc[Tmr] /\ pc'[Con] = pc[Con] /\ pc'[Main] = pc[Main]
  BY <1>1, <1>2, Apart DEF Typed, Threads
<1>4. Typed'
  BY <1>1, <1>2, <1>3, Apart DEF Typed, Threads, AllPcs, NetPcs, TmrPcs, Works, Removing
<1>5. Counted' /\ TasksInUse' /\ InWork'
  BY <1>1, <1>2, <1>3 DEF Typed, Counted, Open, TasksInUse, InWork, Works, Removing
<1>6. LocksHeld'
  BY <1>1, <1>2, <1>3, Apart DEF LocksHeld, Removing, CanLock, LockedBy, Released, Unlocked
<1>7. OneEach' /\ (Tables => Tables') /\ Heard'
  BY <1>1, <1>2, <1>3, StoryKept, HeardKept DEF Typed, Left, Leaving, Hidden
<1>8. Tables /\ Linked => Linked'
  BY <1>1, <1>2, <1>3 DEF Typed, Linked, Hidden, Works, Removing
<1>. QED BY <1>4, <1>5, <1>6, <1>7, <1>8 DEF Keeps, Ever

LEMMA ReadStopKeeps == ASSUME Ever, ReadStop PROVE Keeps
<1>1. /\ pc[Net] = "read" /\ pc' = [pc EXCEPT ![Net] = "hup"]
      /\ backlog' = backlog /\ conn' = conn /\ nconn' = nconn /\ nsent' = nsent
      /\ netLock' = netLock /\ tmrLock' = tmrLock /\ task' = task /\ armed' = armed
      /\ fired' = fired /\ handles' = handles /\ sess' = sess /\ accepted' = accepted
      /\ handed' = handed /\ batch' = batch /\ event' = event /\ reads' = reads /\ cls' = cls
      /\ told' = told /\ ncalls' = ncalls /\ newSock' = newSock /\ newTask' = newTask
  BY DEF ReadStop, Goto, kernel, timers, channel, loop, outgoing
<1>2. Typed /\ Counted /\ LocksHeld /\ OneEach /\ InWork /\ TasksInUse /\ Heard
  BY DEF Ever
<1>3. pc'[Net] = "hup" /\ pc'[Tmr] = pc[Tmr] /\ pc'[Con] = pc[Con] /\ pc'[Main] = pc[Main]
  BY <1>1, <1>2, Apart DEF Typed, Threads
<1>4. Typed'
  BY <1>1, <1>2, <1>3, Apart DEF Typed, Threads, AllPcs, NetPcs, TmrPcs, Works, Removing
<1>5. Counted' /\ TasksInUse' /\ InWork'
  BY <1>1, <1>2, <1>3 DEF Typed, Counted, Open, TasksInUse, InWork, Works, Removing
<1>6. LocksHeld'
  BY <1>1, <1>2, <1>3, Apart DEF LocksHeld, Removing, CanLock, LockedBy, Released, Unlocked
<1>7. OneEach' /\ (Tables => Tables') /\ Heard'
  BY <1>1, <1>2, <1>3, StoryKept, HeardKept DEF Typed, Left, Leaving, Hidden
<1>8. Tables /\ Linked => Linked'
  BY <1>1, <1>2, <1>3 DEF Typed, Linked, Hidden, Works, Removing
<1>. QED BY <1>4, <1>5, <1>6, <1>7, <1>8 DEF Keeps, Ever

-----------------------------------------------------------------------------
(* remove_socket and delete_session *)

\* The thread that removes session cls[t] is alone in doing so.
LEMMA RemoverOwns ==
  ASSUME Ever, NEW t \in {Net, Tmr}, pc[t] \in Removing
  PROVE  /\ cls[t] \in Sessions /\ sess[cls[t]].live /\ sess[cls[t]].sock \in Fds
         /\ \A u \in {Net, Tmr} : u # t => pc[u] \notin Removing
         /\ \A s \in Sessions : Left(s) <=> pc[t] \in {"cancel", "free"} /\ s = cls[t]
<1>1. LocksHeld /\ InWork /\ OneEach
  BY DEF Ever
<1>2. cls[t] \in Sessions /\ sess[cls[t]].live
  BY <1>1 DEF InWork, Works, Removing
<1>3. sess[cls[t]].sock \in Fds
  BY <1>1, <1>2 DEF OneEach
<1>4. \A u \in {Net, Tmr} : u # t => pc[u] \notin Removing
  BY <1>1 DEF LocksHeld, Removing
<1>5. \A s \in Sessions : Left(s) <=> pc[t] \in {"cancel", "free"} /\ s = cls[t]
  BY <1>4 DEF Left, Leaving, Removing
<1>. QED BY <1>2, <1>3, <1>4, <1>5

\* With the lock, the remover goes on with a session in use, or not at all.
LEMMA RemoveLockKeeps == ASSUME Ever, NEW t \in {Net, Tmr}, RemoveLock(t) PROVE Keeps
<1>1. /\ pc[t] = "remove" /\ CanLock(netLock, t) /\ netLock' = LockedBy(netLock, t)
      /\ pc' = [pc EXCEPT ![t] = IF sess[cls[t]].live THEN "close" ELSE "undefined"]
      /\ backlog' = backlog /\ conn' = conn /\ nconn' = nconn /\ nsent' = nsent
      /\ tmrLock' = tmrLock /\ task' = task /\ armed' = armed /\ fired' = fired
      /\ handles' = handles /\ sess' = sess /\ accepted' = accepted /\ handed' = handed
      /\ batch' = batch /\ event' = event /\ reads' = reads /\ cls' = cls /\ told' = told
      /\ ncalls' = ncalls /\ newSock' = newSock /\ newTask' = newTask
  BY DEF RemoveLock, Goto, kernel, timers, channel, loop, outgoing
<1>2. Typed /\ Counted /\ LocksHeld /\ OneEach /\ InWork /\ TasksInUse /\ Heard
  BY DEF Ever
<1>3. /\ pc'[t] = IF sess[cls[t]].live THEN "close" ELSE "undefined"
      /\ \A u \in Threads : u # t => pc'[u] = pc[u]
  BY <1>1, <1>2 DEF Typed, Threads
<1>4. pc'[t] \in {"close", "undefined"} /\ (pc'[t] = "close" => sess[cls[t]].live)
  BY <1>3
<1>5. Typed'
  <2>1. pc' \in [Threads -> AllPcs]
    BY <1>1, <1>2 DEF Typed, AllPcs, NetPcs, Works
  <2>. QED BY <1>1, <1>2, <1>3, <1>4, <2>1, Apart DEF Typed, NetPcs, TmrPcs, Works, Removing, Threads
<1>6. Counted' /\ TasksInUse'
  BY <1>1, <1>2, <1>3, <1>4, Apart DEF Counted, Open, TasksInUse, Removing, Threads
<1>7. InWork'
  BY <1>1, <1>2, <1>3, <1>4, Apart DEF InWork, Works, Removing, Threads
<1>8. LocksHeld'
  <2>1. CASE t = Net
    <3>1. pc[Tmr] \notin Removing /\ netLock = [owner |-> Net, depth |-> 1]
      BY <2>1, <1>1, <1>2, Apart DEF LocksHeld, CanLock, Removing
    <3>2. netLock' = [owner |-> Net, depth |-> 2]
      BY <2>1, <3>1, <1>1 DEF LockedBy
    <3>. QED BY <2>1, <3>1, <3>2, <1>1, <1>2, <1>3, <1>4, Apart DEF LocksHeld, Removing, Threads
  <2>2. CASE t = Tmr
    <3>1. pc[Net] \in {"idle", "lock"} /\ netLock = Unlocked
      BY <2>2, <1>1, <1>2, Apart DEF LocksHeld, CanLock, Removing
    <3>2. netLock' = [owner |-> Tmr, depth |-> 1]
      BY <2>2, <3>1, <1>1 DEF LockedBy, Unlocked
    <3>. QED BY <2>2, <3>1, <3>2, <1>1, <1>2, <1>3, <1>4, Apart DEF LocksHeld, Removing, Threads
  <2>. QED BY <2>1, <2>2
<1>9. OneEach' /\ (Tables => Tables') /\ Heard'
  BY <1>1, <1>2, <1>3, <1>4, Apart, StoryKept, HeardKept DEF Left, Leaving, Hidden, Threads
<1>10. Linked => Linked'
  BY <1>1, <1>2, <1>3, <1>4, Apart DEF Linked, Hidden, Works, Removing, Threads
<1>. QED BY <1>5, <1>6, <1>7, <1>8, <1>9, <1>10 DEF Keeps, Ever

\* One connection ends, on one descriptor, and Lua hears of it.
LEMMA RemoveCloseKeeps == ASSUME Ever, NEW t \in {Net, Tmr}, RemoveClose(t) PROVE Keeps
<1> DEFINE s == cls[t]  fd == sess[s].sock  c == conn[fd].id
<1>1. /\ pc[t] = "close" /\ pc' = [pc EXCEPT ![t] = "cancel"]
      /\ told' = [told EXCEPT ![c] = "error"]
      /\ conn' = [conn EXCEPT ![fd] = Null]
      /\ backlog' = backlog /\ nconn' = nconn /\ nsent' = nsent /\ netLock' = netLock
      /\ tmrLock' = tmrLock /\ task' = task /\ armed' = armed /\ fired' = fired
      /\ handles' = handles /\ sess' = sess /\ accepted' = accepted /\ handed' = handed
      /\ batch' = batch /\ event' = event /\ reads' = reads /\ cls' = cls /\ ncalls' = ncalls
      /\ newSock' = newSock /\ newTask' = newTask
  BY DEF RemoveClose, Goto, timers, channel, loop, outgoing
<1>2. Typed /\ Counted /\ LocksHeld /\ OneEach /\ InWork /\ TasksInUse /\ Heard
  BY DEF Ever
<1>3. pc'[t] = "cancel" /\ \A u \in Threads : u # t => pc'[u] = pc[u]
  BY <1>1, <1>2 DEF Typed, Threads
<1>4. /\ s \in Sessions /\ sess[s].live /\ fd \in Fds
      /\ \A u \in {Net, Tmr} : u # t => pc[u] \notin Removing
      /\ \A x \in Sessions : ~Left(x)
  BY <1>1, RemoverOwns DEF Removing
<1>5. conn[fd] # Null /\ conn[fd] \in Link /\ c \in Conns
  BY <1>2, <1>4 DEF Typed, OneEach, Open, Link
<1>6. \A x \in Sessions : (Left(x)' <=> x = s) /\ (Hidden(x)' <=> Hidden(x))
  BY <1>1, <1>3, <1>4, Apart DEF Left, Leaving, Hidden, Removing, Threads
<1>7. \A x \in Sessions : x # s /\ sess[x].live => sess[x].sock # fd
  BY <1>2, <1>4 DEF OneEach
<1>. HIDE DEF fd, s
<1>8. /\ conn' \in [Fds -> Link \cup {Null}] /\ conn'[fd] = Null
      /\ \A gd \in Fds : gd # fd => conn'[gd] = conn[gd]
  BY <1>1, <1>2, <1>4 DEF Typed
<1>. HIDE DEF c
<1>9. /\ told' \in [Conns -> Words]
      /\ told'[c] = "error" /\ \A d \in Conns : d # c => told'[d] = told[d]
  BY <1>1, <1>2, <1>5 DEF Typed, Words
<1>10. Typed'
  <2>1. pc' \in [Threads -> AllPcs]
    BY <1>1, <1>2 DEF Typed, AllPcs, NetPcs, Works
  <2>. QED BY <1>1, <1>2, <1>3, <1>8, <1>9, <2>1, Apart
           DEF Typed, NetPcs, TmrPcs, Works, Removing, Threads
<1>11. Counted' /\ TasksInUse'
  BY <1>1, <1>2, <1>3, <1>8, Apart DEF Counted, Open, TasksInUse, Removing, Threads
<1>12. InWork' /\ LocksHeld'
  BY <1>1, <1>2, <1>3, Apart DEF InWork, LocksHeld, Works, Removing, Threads
<1>13. OneEach'
  <2>1. \A x \in Sessions : sess[x].live =>
          sess[x].sock \in Fds /\ (Left(x)' \/ conn'[sess[x].sock] # Null)
    BY <1>2, <1>4, <1>6, <1>7, <1>8 DEF OneEach, Open
  <2>. QED BY <1>1, <1>2, <1>4, <2>1 DEF OneEach, Open
<1>14. ASSUME Tables PROVE Tables'
  <2>1. \A gd \in Fds : handles[gd] # Null => handles[gd] \in Sessions
    BY <1>2 DEF Typed
  <2>2. \A gd \in Fds : handles'[gd] # Null =>
          sess'[handles'[gd]].live /\ sess'[handles'[gd]].sock = gd /\ ~Hidden(handles[gd])'
    <3>. TAKE gd \in Fds
    <3>1. Hidden(handles[gd])' => Hidden(handles[gd])
      BY <1>1, <1>3, Apart DEF Hidden, Threads
    <3>. QED BY <1>1, <1>14, <3>1 DEF Tables
  <2>3. \A x \in Sessions : sess'[x].live => Hidden(x)' \/ handles'[sess'[x].sock] = x
    BY <1>1, <1>6, <1>14 DEF Tables
  <2>4. ASSUME NEW x \in Sessions, Hidden(x)'
        PROVE  /\ sess'[x].live /\ sess'[x].sock = newSock'
               /\ Left(x)' \/ conn'[newSock'].id = Call'
               /\ handles'[newSock'] = Null
    <3>1. /\ sess[x].live /\ sess[x].sock = newSock /\ newSock \in Fds
          /\ conn[newSock].id = Call /\ handles[newSock] = Null
      <4>1. /\ sess[x].live /\ sess[x].sock = newSock /\ conn[newSock].id = Call
            /\ handles[newSock] # Null => Left(handles[newSock])
        BY <2>4, <1>4, <1>6, <1>14 DEF Tables
      <4>2. newSock \in Fds
        BY <4>1, <1>2 DEF OneEach
      <4>. QED BY <4>1, <4>2, <1>4, <2>1
    <3>2. x # s => newSock # fd
      BY <3>1, <1>7
    <3>. QED BY <3>1, <3>2, <1>1, <1>6, <1>8 DEF Call
  <2>5. \A gd \in Fds : conn'[gd] # Null =>
          \E x \in Sessions : sess[x].live /\ sess[x].sock = gd /\ x # s
    <3>. SUFFICES ASSUME NEW gd \in Fds, conn'[gd] # Null
                  PROVE  \E x \in Sessions : sess[x].live /\ sess[x].sock = gd /\ x # s
      OBVIOUS
    <3>1. gd # fd /\ Open(gd)
      BY <1>8 DEF Open
    <3>2. PICK x \in Sessions : sess[x].live /\ sess[x].sock = gd
      BY <3>1, <1>14 DEF Tables
    <3>3. x # s
      BY <3>1, <3>2 DEF fd
    <3>. QED BY <3>2, <3>3
  <2>6. \A gd \in Fds : Open(gd)' =>
          \E x \in Sessions : sess'[x].live /\ sess'[x].sock = gd /\ ~Left(x)'
    BY <1>1, <1>6, <2>5 DEF Open
  <2>. QED BY <2>2, <2>3, <2>4, <2>6 DEF Tables
<1>15. Linked => Linked'
  BY <1>1, <1>3, Apart DEF Linked, Hidden, Works, Removing, Threads
<1>16. Heard'
  <2>1. \A gd \in Fds : Open(gd)' => /\ Open(gd) /\ conn'[gd] = conn[gd]
                                     /\ conn[gd].id # c /\ conn[gd].id \in Conns
    BY <1>2, <1>4, <1>5, <1>8 DEF Typed, Heard, Open, Link, c
  <2>2. \A d \in Conns : Here(d)' <=> Here(d) /\ d # c
    BY <1>2, <1>8, <2>1 DEF Here, Open, c
  <2>3. Here(c) /\ told[c] \in {"nothing", "accepted"}
    BY <1>2, <1>4, <1>5 DEF Heard, Here, Open, c
  <2>4. \A gd, hd \in Fds : Open(gd)' /\ Open(hd)' /\ gd # hd => conn'[gd].id # conn'[hd].id
    BY <1>2, <2>1 DEF Heard
  <2>5. pc'[Main] = pc[Main]
    BY <1>3, Apart DEF Threads
  <2>6. \A d \in Conns : Here(d)' =>
          /\ d <= nconn' \/ (MaxConns < d /\ d <= Call')
          /\ told'[d] = IF Calling(d)' THEN "nothing" ELSE "accepted"
    BY <1>1, <1>2, <1>9, <2>2, <2>5 DEF Heard, Calling, Call
  <2>7. \A d \in Conns : told'[d] = "accepted" => Here(d)'
    BY <1>2, <1>9, <2>2 DEF Heard
  <2>8. \A d \in Conns : (nconn' < d /\ d <= MaxConns) \/ Call' < d => told'[d] = "nothing"
    <3>1. c <= nconn \/ (MaxConns < c /\ c <= Call)
      BY <1>2, <1>5, <2>3 DEF Heard
    <3>2. ~((nconn < c /\ c <= MaxConns) \/ Call < c)
      BY <3>1, <1>2, <1>5, GatewayAssumption DEF Typed, Call, Conns
    <3>3. nconn' = nconn /\ Call' = Call
      BY <1>1 DEF Call
    <3>. QED BY <1>2, <1>9, <3>2, <3>3 DEF Heard
  <2>9. pc'[Main] # "idle" =>
          /\ ncalls' > 0 /\ told'[Call'] \in {"nothing", "error"}
          /\ told'[Call'] = "nothing" => Here(Call)'
    <3>1. pc[Main] # "idle" => Call \in Conns
      BY <1>2, GatewayAssumption DEF Typed, Heard, Call, Conns
    <3>2. Call' = Call
      BY <1>1 DEF Call
    <3>3. pc[Main] # "idle" => /\ told'[Call] \in {"nothing", "error"}
                               /\ told'[Call] = "nothing" => Call # c /\ Here(Call)
      BY <1>2, <1>9, <3>1 DEF Heard
    <3>4. pc[Main] # "idle" /\ told'[Call] = "nothing" => Here(Call)'
      BY <2>2, <3>1, <3>2, <3>3 DEF Here
    <3>. QED BY <1>1, <1>2, <2>5, <3>2, <3>3, <3>4 DEF Heard
  <2>10. \A i \in 1 .. Len(backlog') :
           backlog'[i].id <= nconn' /\ told'[backlog'[i].id] = "nothing"
    <3>. TAKE i \in 1 .. Len(backlog')
    <3>1. /\ i \in 1 .. Len(backlog) /\ backlog[i].id \in Conns
          /\ backlog[i].id <= nconn /\ told[backlog[i].id] = "nothing"
      <4>1. backlog[i] \in Link
        BY <1>1, <1>2 DEF Typed
      <4>. QED BY <4>1, <1>1, <1>2 DEF Heard, Link
    <3>2. ~Calling(backlog[i].id)
      BY <3>1, <1>2, CallApart, GatewayAssumption DEF Calling, Conns
    <3>3. backlog[i].id # c
      BY <3>1, <3>2, <1>2, <2>3 DEF Heard
    <3>. QED BY <3>1, <3>3, <1>1, <1>9
  <2>. QED BY <1>1, <1>2, <2>4, <2>6, <2>7, <2>8, <2>9, <2>10 DEF Heard
<1>. QED BY <1>10, <1>11, <1>12, <1>13, <1>14, <1>15, <1>16 DEF Keeps, Ever

\* After the cancellation no first-pack timer of the session is left, on the list or firing.
LEMMA RemoveCancelKeeps == ASSUME Ever, NEW t \in {Net, Tmr}, RemoveCancel(t) PROVE Keeps
<1>1. /\ pc[t] = "cancel" /\ pc' = [pc EXCEPT ![t] = "free"]
      /\ backlog' = backlog /\ conn' = conn /\ nconn' = nconn /\ nsent' = nsent
      /\ netLock' = netLock /\ tmrLock' = tmrLock /\ fired' = fired /\ handles' = handles
      /\ sess' = sess /\ accepted' = accepted /\ handed' = handed /\ batch' = batch
      /\ event' = event /\ reads' = reads /\ cls' = cls /\ told' = told /\ ncalls' = ncalls
      /\ newSock' = newSock /\ newTask' = newTask
  BY DEF RemoveCancel, Cancelled, Goto, kernel, timers, channel, loop, outgoing
<1>2. Typed /\ Counted /\ LocksHeld /\ OneEach /\ InWork /\ TasksInUse /\ Heard
  BY DEF Ever
<1>3. \/ sess[cls[t]].timer_ev = Null /\ armed' = armed /\ task' = task
      \/ /\ CanLock(tmrLock, t) /\ sess[cls[t]].timer_ev # Null
         /\ armed' = armed \ {sess[cls[t]].timer_ev}
         /\ task' = IF sess[cls[t]].timer_ev \in armed
                    THEN [task EXCEPT ![sess[cls[t]].timer_ev] = Null] ELSE task
  BY DEF RemoveCancel, Cancelled, timers
<1>4. pc'[t] = "free" /\ \A u \in Threads : u # t => pc'[u] = pc[u]
  BY <1>1, <1>2 DEF Typed, Threads
<1>5. /\ cls[t] \in Sessions /\ sess[cls[t]].live
      /\ \A u \in {Net, Tmr} : u # t => pc[u] \notin Removing
  BY <1>1, RemoverOwns DEF Removing
<1>6. /\ task' \in [Tasks -> TimerTask \cup {Null}] /\ armed' \subseteq armed
      /\ \A k \in Tasks : k = fired \/ k \in armed' => task'[k] = task[k]
  BY <1>2, <1>3 DEF Typed, TasksInUse
<1>7. Typed'
  <2>1. pc' \in [Threads -> AllPcs]
    BY <1>1, <1>2 DEF Typed, AllPcs, NetPcs, Works
  <2>. QED BY <1>1, <1>2, <1>4, <1>6, <2>1, Apart
           DEF Typed, NetPcs, TmrPcs, Works, Removing, Threads
<1>8. Counted' /\ LocksHeld' /\ InWork'
  BY <1>1, <1>2, <1>4, Apart DEF Counted, Open, LocksHeld, InWork, Works, Removing, Threads
<1>9. TasksInUse'
  BY <1>1, <1>2, <1>4, <1>6, Apart DEF Typed, TasksInUse, Removing, Threads
<1>10. OneEach' /\ (Tables => Tables') /\ Heard'
  <2>1. /\ pc'[Net] \in {"cancel", "free"} <=> pc[Net] \in {"cancel", "free"}
        /\ pc'[Tmr] \in {"cancel", "free"} <=> pc[Tmr] \in {"cancel", "free"}
        /\ pc'[Main] = pc[Main]
    BY <1>1, <1>4, Apart DEF Threads
  <2>. QED BY <1>1, <2>1, StoryKept, HeardKept DEF Left, Leaving, Hidden
<1>11. ASSUME Linked PROVE Linked'
  \* Nobody else's first-pack timer is left for the session that will be freed.
  <2>1. t = Net =>
          /\ \A k \in armed' : task[k].func = "firstpack" => task[k].arg # cls[Net]
          /\ pc[Tmr] \in {"remove"} \cup Removing => cls[Tmr] # cls[Net]
    <3>. SUFFICES ASSUME t = Net
                  PROVE  /\ \A k \in armed' : task[k].func = "firstpack" => task[k].arg # cls[Net]
                         /\ pc[Tmr] \in {"remove"} \cup Removing => cls[Tmr] # cls[Net]
      OBVIOUS
    <3>1. \A k \in armed : task[k].func = "firstpack" /\ task[k].arg = cls[Net] =>
            sess[cls[Net]].timer_ev = k /\ k # Null
      BY <1>2, <1>11, NullApart DEF Linked, Typed
    <3>2. \A k \in armed' : task[k].func = "firstpack" => task[k].arg # cls[Net]
      BY <1>3, <3>1
    <3>3. pc[Tmr] \in {"remove"} \cup Removing => cls[Tmr] # cls[Net]
      <4>1. pc[Tmr] \in {"remove"} \cup Removing =>
              ~CanLock(tmrLock, Net) /\ sess[cls[Tmr]].timer_ev # Null
        BY <1>2, <1>11, Apart DEF LocksHeld, Linked, TasksInUse, CanLock, Removing
      <4>. QED BY <1>3, <4>1
    <3>. QED BY <3>2, <3>3
  <2>2. pc'[Main] = pc[Main]
    BY <1>4, Apart DEF Threads
  <2>3. /\ pc'[Net] \in Works => sess'[cls'[Net]].live /\ ~Hidden(cls[Net])'
        /\ pc'[Net] = "schedule" => cls'[Net] # cls'[Main] /\ sess'[cls'[Net]].timer_ev = Null
        /\ cls'[Main] # Null => sess'[cls'[Main]].live
    BY <1>1, <1>4, <1>11, <2>2, Apart DEF Linked, Hidden, Works, Threads
  <2>4. pc'[Tmr] \in {"remove"} \cup Removing =>
          /\ sess'[cls'[Tmr]].live /\ sess'[cls'[Tmr]].timer_ev = fired'
          /\ task'[fired'] = [arg |-> cls'[Tmr], func |-> "firstpack"]
          /\ cls'[Tmr] # cls'[Main]
    BY <1>1, <1>2, <1>4, <1>6, <1>11, Apart DEF Typed, Linked, TasksInUse, Removing, Threads
  <2>5. pc'[Tmr] \in {"remove"} \cup Removing => ~(pc'[Net] = "free" /\ cls'[Net] = cls'[Tmr])
    BY <1>1, <1>2, <1>4, <1>5, <1>11, <2>1, Apart DEF Linked, LocksHeld, Removing, Threads
  <2>6. \A k \in armed' : task'[k].func = "firstpack" =>
          /\ sess'[task'[k].arg].live /\ sess'[task'[k].arg].timer_ev = k
          /\ task'[k].arg # cls'[Main]
    BY <1>1, <1>2, <1>6, <1>11 DEF Typed, Linked
  <2>7. \A k \in armed' : task'[k].func = "firstpack" =>
          ~(pc'[Net] = "free" /\ cls'[Net] = task'[k].arg)
    BY <1>1, <1>2, <1>4, <1>6, <1>11, <2>1, Apart DEF Typed, Linked, Threads
  <2>. QED BY <1>1, <2>3, <2>4, <2>5, <2>6, <2>7 DEF Linked
<1>. QED BY <1>7, <1>8, <1>9, <1>10, <1>11 DEF Keeps, Ever

\* Unless it is connect_server's, nobody goes on with the session; and what else is in
\* the tables is for others.
LEMMA RemoveFreeKeeps ==
  ASSUME Ever, NEW t \in {Net, Tmr}, RemoveFree(t)
  PROVE  /\ Ever'
         /\ Tables /\ ~Hidden(cls[t]) => Tables'
         /\ Tables /\ Linked /\ cls[t] # cls[Main] => Linked'
<1> DEFINE s == cls[t]  fd == sess[s].sock  l == IF t = Net THEN "hup" ELSE "fired"
<1>1. /\ pc[t] = "free" /\ pc' = [pc EXCEPT ![t] = l]
      /\ sess' = [sess EXCEPT ![s] = Freed] /\ handles' = [handles EXCEPT ![fd] = Null]
      /\ netLock' = Released(netLock) /\ cls' = [cls EXCEPT ![t] = Null]
      /\ backlog' = backlog /\ conn' = conn /\ nconn' = nconn /\ nsent' = nsent
      /\ tmrLock' = tmrLock /\ task' = task /\ armed' = armed /\ fired' = fired
      /\ accepted' = accepted /\ handed' = handed /\ batch' = batch /\ event' = event
      /\ reads' = reads /\ told' = told /\ ncalls' = ncalls /\ newSock' = newSock
      /\ newTask' = newTask
  BY DEF RemoveFree, Goto, kernel, timers, channel, loop
<1>2. Typed /\ Counted /\ LocksHeld /\ OneEach /\ InWork /\ TasksInUse /\ Heard
  BY DEF Ever
<1>3. /\ pc'[t] = l /\ \A u \in Threads : u # t => pc'[u] = pc[u]
      /\ cls'[t] = Null /\ \A u \in Threads : u # t => cls'[u] = cls[u]
  BY <1>1, <1>2 DEF Typed, Threads
<1>4. /\ s \in Sessions /\ sess[s].live /\ fd \in Fds
      /\ \A u \in {Net, Tmr} : u # t => pc[u] \notin Removing
      /\ \A x \in Sessions : Left(x) <=> x = s
  BY <1>1, RemoverOwns DEF Removing
<1>5. \A x \in Sessions : ~Left(x)' /\ (Hidden(x)' <=> Hidden(x))
  BY <1>1, <1>3, <1>4, Apart DEF Left, Leaving, Hidden, Removing, Threads
<1>. HIDE DEF s, fd
<1>6. /\ handles' \in [Fds -> Sessions \cup {Null}] /\ handles'[fd] = Null
      /\ \A gd \in Fds : gd # fd => handles'[gd] = handles[gd]
  BY <1>1, <1>2, <1>4 DEF Typed
<1>7. /\ sess' \in [Sessions -> CSession]
      /\ sess'[s].live = FALSE /\ \A x \in Sessions : x # s => sess'[x] = sess[x]
  BY <1>1, <1>2, <1>4 DEF Typed, Freed, CSession
<1>8. Typed'
  <2>1. pc' \in [Threads -> AllPcs]
    BY <1>1, <1>2 DEF Typed, AllPcs, NetPcs, TmrPcs
  <2>2. cls' \in [Threads -> Sessions \cup {Null}]
    BY <1>1, <1>2 DEF Typed
  <2>3. pc'[Net] \in NetPcs /\ pc'[Tmr] \in TmrPcs /\ pc'[Con] = pc[Con] /\ pc'[Main] = pc[Main]
    BY <1>2, <1>3, Apart DEF Typed, NetPcs, TmrPcs, Threads
  <2>. QED BY <1>1, <1>2, <1>6, <1>7, <2>1, <2>2, <2>3 DEF Typed
<1>9. LocksHeld'
  <2>1. CASE t = Net
    <3>1. netLock = [owner |-> Net, depth |-> 2] /\ pc[Tmr] \notin Removing
      BY <2>1, <1>1, <1>2, <1>4, Apart DEF LocksHeld, Removing
    <3>2. netLock' = [owner |-> Net, depth |-> 1]
      BY <3>1, <1>1 DEF Released
    <3>3. pc'[Net] = "hup" /\ pc'[Tmr] = pc[Tmr]
      BY <2>1, <1>3, Apart DEF Threads
    <3>. QED BY <3>1, <3>2, <3>3, <1>1, <1>2 DEF LocksHeld, Removing
  <2>2. CASE t = Tmr
    BY <2>2, <1>1, <1>2, <1>3, Apart DEF LocksHeld, Removing, Released, Threads
  <2>. QED BY <2>1, <2>2
<1>10. t # Net => pc[Net] \notin Works
  BY <1>1, <1>2 DEF LocksHeld, Works, Removing
<1>11. Counted' /\ InWork' /\ TasksInUse'
  <2>1. Counted' /\ TasksInUse'
    BY <1>1, <1>2, <1>3, Apart DEF Counted, Open, TasksInUse, Removing, Threads
  <2>2. pc'[Net] \notin Works
    BY <1>3, <1>10, Apart DEF Works, Threads
  <2>3. pc'[Tmr] \in {"remove"} \cup Removing =>
          cls'[Tmr] \in Sessions /\ (sess'[cls'[Tmr]].live \/ pc'[Tmr] = "remove")
    <3>1. pc'[Tmr] \in {"remove"} \cup Removing =>
            t # Tmr /\ pc[Tmr] = "remove" /\ cls'[Tmr] = cls[Tmr] /\ pc'[Tmr] = pc[Tmr]
      BY <1>3, <1>4, Apart DEF Removing, Threads
    <3>. QED BY <3>1, <1>2 DEF InWork
  <2>4. /\ pc'[Main] = "idle" <=> cls'[Main] = Null
        /\ pc'[Main] = "insert" <=> newSock' # Null
    BY <1>1, <1>2, <1>3, Apart DEF InWork, Threads
  <2>. QED BY <2>1, <2>2, <2>3, <2>4 DEF InWork
<1>12. OneEach'
  <2>1. \A x \in Sessions : sess'[x].live => x # s /\ sess'[x] = sess[x] /\ sess[x].live /\ ~Left(x)
    BY <1>4, <1>7
  <2>2. \A x \in Sessions : sess'[x].live => sess'[x].sock \in Fds /\ conn'[sess'[x].sock] # Null
    BY <1>1, <1>2, <2>1 DEF OneEach, Open
  <2>3. \A x, y \in Sessions :
          x # y /\ sess'[x].live /\ sess'[y].live => sess'[x].sock # sess'[y].sock
    BY <1>2, <2>1 DEF OneEach
  <2>. QED BY <2>2, <2>3 DEF OneEach, Open
<1>13. Heard'
  BY <1>1, <1>2, <1>3, Apart, HeardKept DEF Threads
<1>14. ASSUME Tables, ~Hidden(s) PROVE Tables'
  <2>1. handles[fd] = s
    BY <1>4, <1>14 DEF Tables, fd
  <2>2. \A x \in Sessions : Hidden(x) =>
          /\ x # s /\ sess[x].live /\ sess[x].sock = newSock /\ newSock \in Fds
          /\ conn[newSock].id = Call /\ (handles[newSock] # Null => newSock = fd)
    <3>. SUFFICES ASSUME NEW x \in Sessions, Hidden(x)
                  PROVE  /\ x # s /\ sess[x].live /\ sess[x].sock = newSock /\ newSock \in Fds
                         /\ conn[newSock].id = Call /\ (handles[newSock] # Null => newSock = fd)
      OBVIOUS
    <3>1. /\ x # s /\ sess[x].live /\ sess[x].sock = newSock /\ conn[newSock].id = Call
          /\ handles[newSock] # Null => Left(handles[newSock]) /\ sess[handles[newSock]].sock = newSock
      <4>1. x # s
        BY <1>14
      <4>2. newSock \in Fds
        BY <1>2, <1>14 DEF Tables, OneEach
      <4>. QED BY <4>1, <4>2, <1>4, <1>14 DEF Tables
    <3>2. newSock \in Fds
      BY <3>1, <1>2 DEF OneEach
    <3>3. handles[newSock] # Null => handles[newSock] = s
      BY <3>1, <3>2, <1>2, <1>4 DEF Typed
    <3>. QED BY <3>1, <3>2, <3>3 DEF fd
  <2>3. \A gd \in Fds : handles'[gd] # Null =>
          sess'[handles'[gd]].live /\ sess'[handles'[gd]].sock = gd /\ ~Hidden(handles[gd])'
    <3>. SUFFICES ASSUME NEW gd \in Fds, handles'[gd] # Null
                  PROVE  /\ sess'[handles'[gd]].live /\ sess'[handles'[gd]].sock = gd
                         /\ ~Hidden(handles[gd])'
      OBVIOUS
    <3> DEFINE x == handles[gd]
    <3>1. gd # fd /\ handles'[gd] = x /\ x \in Sessions /\ x # Null
      BY <1>2, <1>6 DEF Typed
    <3>2. sess[x].live /\ sess[x].sock = gd /\ ~Hidden(x)
      BY <3>1, <1>14 DEF Tables
    <3>3. x # s
      BY <3>1, <3>2 DEF fd
    <3>4. ~Hidden(handles[gd])'
      BY <3>1, <3>2, <1>1, <1>3, <1>4, Apart DEF Hidden, Threads
    <3>. QED BY <3>1, <3>2, <3>3, <3>4, <1>7
  <2>4. \A x \in Sessions : sess'[x].live => Hidden(x)' \/ handles'[sess'[x].sock] = x
    <3>. SUFFICES ASSUME NEW x \in Sessions, sess'[x].live
                  PROVE  Hidden(x)' \/ handles'[sess'[x].sock] = x
      OBVIOUS
    <3>1. x # s /\ sess'[x] = sess[x] /\ sess[x].live
      BY <1>7
    <3>2. sess[x].sock \in Fds /\ (Hidden(x) \/ handles[sess[x].sock] = x)
      BY <3>1, <1>2, <1>14 DEF OneEach, Tables
    <3>3. handles[sess[x].sock] = x => sess[x].sock # fd
      BY <3>1, <2>1
    <3>. QED BY <3>1, <3>2, <3>3, <1>5, <1>6
  <2>5. \A x \in Sessions : Hidden(x)' =>
          /\ sess'[x].live /\ sess'[x].sock = newSock'
          /\ conn'[newSock'].id = Call' /\ handles'[newSock'] = Null
    BY <1>1, <1>5, <1>6, <1>7, <2>2 DEF Call
  <2>6. \A gd \in Fds : Open(gd)' =>
          \E x \in Sessions : sess'[x].live /\ sess'[x].sock = gd /\ ~Left(x)'
    <3>. SUFFICES ASSUME NEW gd \in Fds, conn'[gd] # Null
                  PROVE  \E x \in Sessions : sess'[x].live /\ sess'[x].sock = gd
      BY <1>5 DEF Open
    <3>1. PICK x \in Sessions : sess[x].live /\ sess[x].sock = gd /\ ~Left(x)
      BY <1>1, <1>14 DEF Tables, Open
    <3>. QED BY <3>1, <1>4, <1>7
  <2>. QED BY <2>3, <2>4, <2>5, <2>6 DEF Tables
<1>15. ASSUME Linked, s # cls[Main] PROVE Linked'
  <2>1. /\ t # Tmr /\ pc[Tmr] \in {"remove"} \cup Removing => cls[Tmr] # s
        /\ \A k \in armed : task[k].func = "firstpack" => task[k].arg # s
    <3>1. CASE t = Net
      BY <3>1, <1>1, <1>15 DEF Linked, s
    <3>2. CASE t = Tmr
      <4>1. sess[s].timer_ev = fired /\ fired \notin armed
        BY <3>2, <1>1, <1>2, <1>15 DEF Linked, TasksInUse, Removing, s
      <4>. QED BY <3>2, <4>1, <1>15 DEF Linked
    <3>. QED BY <3>1, <3>2
  <2>2. /\ pc'[Main] = pc[Main] /\ cls'[Main] = cls[Main] /\ cls[Main] \in Sessions \cup {Null}
        /\ pc'[Net] \notin Works
    BY <1>2, <1>3, <1>10, Apart DEF Typed, Works, Threads
  <2>3. pc'[Tmr] \in {"remove"} \cup Removing =>
          /\ sess'[cls'[Tmr]].live /\ sess'[cls'[Tmr]].timer_ev = fired'
          /\ task'[fired'] = [arg |-> cls'[Tmr], func |-> "firstpack"]
          /\ cls'[Tmr] # cls'[Main]
    <3>1. pc'[Tmr] \in {"remove"} \cup Removing =>
            /\ t # Tmr /\ pc[Tmr] \in {"remove"} \cup Removing /\ cls'[Tmr] = cls[Tmr]
            /\ cls[Tmr] \in Sessions
      BY <1>2, <1>3, Apart DEF InWork, Removing, Threads
    <3>. QED BY <3>1, <2>1, <2>2, <1>1, <1>7, <1>15 DEF Linked
  <2>4. cls'[Main] # Null => sess'[cls'[Main]].live
    BY <2>2, <1>7, <1>15 DEF Linked
  <2>5. \A k \in armed : task[k].func = "firstpack" => task[k].arg \in Sessions
    BY <1>2 DEF Typed, TasksInUse, TimerTask
  <2>6. \A k \in armed' : task'[k].func = "firstpack" =>
          /\ sess'[task'[k].arg].live /\ sess'[task'[k].arg].timer_ev = k
          /\ task'[k].arg # cls'[Main]
    BY <1>1, <1>7, <1>15, <2>1, <2>2, <2>5 DEF Linked
  <2>. QED BY <2>2, <2>3, <2>4, <2>6 DEF Linked, Works
<1>. QED BY <1>8, <1>9, <1>11, <1>12, <1>13, <1>14, <1>15 DEF Ever, s

-----------------------------------------------------------------------------
(* timer_thread_run *)

LEMMA TimerLockKeeps == ASSUME Ever, TimerLock PROVE Keeps
<1>1. /\ pc[Tmr] = "idle" /\ pc' = [pc EXCEPT ![Tmr] = "scan"]
      /\ CanLock(tmrLock, Tmr) /\ tmrLock' = LockedBy(tmrLock, Tmr)
      /\ backlog' = backlog /\ conn' = conn /\ nconn' = nconn /\ nsent' = nsent
      /\ netLock' = netLock /\ task' = task /\ armed' = armed /\ fired' = fired
      /\ handles' = handles /\ sess' = sess /\ accepted' = accepted /\ handed' = handed
      /\ batch' = batch /\ event' = event /\ reads' = reads /\ cls' = cls /\ told' = told
      /\ ncalls' = ncalls /\ newSock' = newSock /\ newTask' = newTask
  BY DEF TimerLock, Goto, kernel, timers, channel, loop, outgoing
<1>2. Typed /\ Counted /\ LocksHeld /\ OneEach /\ InWork /\ TasksInUse /\ Heard
  BY DEF Ever
<1>3. pc'[Tmr] = "scan" /\ pc'[Net] = pc[Net] /\ pc'[Con] = pc[Con] /\ pc'[Main] = pc[Main]
  BY <1>1, <1>2, Apart DEF Typed, Threads
<1>4. Typed'
  BY <1>1, <1>2, <1>3, Apart DEF Typed, Threads, AllPcs, NetPcs, TmrPcs, Works, Removing
<1>5. Counted' /\ TasksInUse' /\ InWork'
  BY <1>1, <1>2, <1>3 DEF Typed, Counted, Open, TasksInUse, InWork, Works, Removing
<1>6. LocksHeld'
  BY <1>1, <1>2, <1>3, Apart DEF LocksHeld, Removing, CanLock, LockedBy, Released, Unlocked
<1>7. OneEach' /\ (Tables => Tables') /\ Heard'
  BY <1>1, <1>2, <1>3, StoryKept, HeardKept DEF Typed, Left, Leaving, Hidden
<1>8. Tables /\ Linked => Linked'
  BY <1>1, <1>2, <1>3 DEF Typed, Linked, Hidden, Works, Removing
<1>. QED BY <1>4, <1>5, <1>6, <1>7, <1>8 DEF Keeps, Ever

\* A first-pack timer on the list is the one its session points at, and stays so while
\* its callback runs.
LEMMA TimerFireKeeps == ASSUME Ever, NEW k \in Tasks, TimerFire(k) PROVE Keeps
<1>1. /\ pc[Tmr] = "scan" /\ k \in armed
      /\ armed' = armed \ {k} /\ fired' = k
      /\ backlog' = backlog /\ conn' = conn /\ nconn' = nconn /\ nsent' = nsent
      /\ netLock' = netLock /\ tmrLock' = tmrLock /\ task' = task /\ handles' = handles
      /\ sess' = sess /\ accepted' = accepted /\ handed' = handed /\ batch' = batch
      /\ event' = event /\ reads' = reads /\ told' = told /\ ncalls' = ncalls
      /\ newSock' = newSock /\ newTask' = newTask
  BY DEF TimerFire, kernel, channel, loop, outgoing
<1>2. Typed /\ Counted /\ LocksHeld /\ OneEach /\ InWork /\ TasksInUse /\ Heard
  BY DEF Ever
<1>3. \/ /\ task[k].func = "firstpack"
         /\ pc' = [pc EXCEPT ![Tmr] = IF sess[task[k].arg].live THEN "remove" ELSE "undefined"]
         /\ cls' = [cls EXCEPT ![Tmr] = task[k].arg]
      \/ /\ task[k].func # "firstpack"
         /\ pc' = [pc EXCEPT ![Tmr] = "fired"]
         /\ cls' = cls
  BY DEF TimerFire, Goto
<1>4. task[k] # Null /\ k # Null /\ task[k] \in TimerTask /\ task[k].arg \in Sessions
  BY <1>1, <1>2, NullApart DEF Typed, TasksInUse, TimerTask
<1>5. /\ pc'[Tmr] \in {"remove", "undefined", "fired"}
      /\ pc'[Net] = pc[Net] /\ pc'[Con] = pc[Con] /\ pc'[Main] = pc[Main]
      /\ cls'[Net] = cls[Net] /\ cls'[Con] = cls[Con] /\ cls'[Main] = cls[Main]
      /\ pc'[Tmr] = "remove" => task[k].func = "firstpack" /\ cls'[Tmr] = task[k].arg
      /\ pc' = [pc EXCEPT ![Tmr] = pc'[Tmr]]
  BY <1>2, <1>3, Apart DEF Typed, Threads
<1>6. Typed'
  <2>1. cls' \in [Threads -> Sessions \cup {Null}] /\ armed' \subseteq Tasks
    BY <1>1, <1>2, <1>3, <1>4 DEF Typed
  <2>. QED BY <1>1, <1>2, <1>5, <2>1, Apart
           DEF Typed, Threads, AllPcs, NetPcs, TmrPcs, Works, Removing
<1>7. Counted' /\ InWork' /\ TasksInUse'
  BY <1>1, <1>2, <1>4, <1>5 DEF Typed, Counted, Open, InWork, TasksInUse, Works, Removing
<1>8. LocksHeld'
  BY <1>1, <1>2, <1>5, Apart DEF LocksHeld, Removing
<1>9. OneEach' /\ (Tables => Tables') /\ Heard'
  BY <1>1, <1>2, <1>5, StoryKept, HeardKept DEF Left, Leaving, Hidden
<1>10. ASSUME Linked PROVE Linked'
  <2>1. pc'[Tmr] = "remove" =>
          /\ task[k] = [arg |-> cls'[Tmr], func |-> "firstpack"]
          /\ sess[cls'[Tmr]].live /\ sess[cls'[Tmr]].timer_ev = k
          /\ cls'[Tmr] # cls[Main] /\ ~(pc[Net] = "free" /\ cls[Net] = cls'[Tmr])
    BY <1>1, <1>4, <1>5, <1>10 DEF Linked, TimerTask
  <2>. QED BY <1>1, <1>5, <1>10, <2>1 DEF Linked, Hidden, Removing
<1>. QED BY <1>6, <1>7, <1>8, <1>9, <1>10 DEF Keeps, Ever

\* The task is nobody else's when it is freed or put back.
LEMMA TimerFreeKeeps == ASSUME Ever, TimerFree PROVE Keeps
<1>1. /\ pc[Tmr] = "fired" /\ fired' = Null
      /\ pc' = [pc EXCEPT ![Tmr] = "scan"]
      /\ backlog' = backlog /\ conn' = conn /\ nconn' = nconn /\ nsent' = nsent
      /\ netLock' = netLock /\ tmrLock' = tmrLock /\ handles' = handles /\ sess' = sess
      /\ accepted' = accepted /\ handed' = handed /\ batch' = batch /\ event' = event
      /\ reads' = reads /\ cls' = cls /\ told' = told /\ ncalls' = ncalls
      /\ newSock' = newSock /\ newTask' = newTask
  BY DEF TimerFree, Goto, kernel, channel, loop, outgoing
<1>2. Typed /\ Counted /\ LocksHeld /\ OneEach /\ InWork /\ TasksInUse /\ Heard
  BY DEF Ever
<1>3. \/ task' = [task EXCEPT ![fired] = Null] /\ armed' = armed
      \/ task[fired].func # "firstpack" /\ armed' = armed \cup {fired} /\ task' = task
  BY DEF TimerFree
<1>4. pc'[Tmr] = "scan" /\ pc'[Net] = pc[Net] /\ pc'[Con] = pc[Con] /\ pc'[Main] = pc[Main]
  BY <1>1, <1>2, Apart DEF Typed, Threads
<1>5. fired \in Tasks /\ fired \notin armed /\ task[fired] # Null
  BY <1>1, <1>2 DEF Typed, TasksInUse
<1>6. /\ task' \in [Tasks -> TimerTask \cup {Null}]
      /\ \A k \in armed : task'[k] = task[k]
      /\ \A k \in armed' :
           k \in armed \/ (k = fired /\ task[k].func # "firstpack" /\ task'[k] = task[k])
      /\ armed' \subseteq Tasks /\ Null \notin armed'
  BY <1>2, <1>3, <1>5, NullApart DEF Typed
<1>7. Typed'
  BY <1>1, <1>2, <1>4, <1>6, Apart DEF Typed, Threads, AllPcs, NetPcs, TmrPcs, Works, Removing
<1>8. Counted' /\ InWork' /\ TasksInUse'
  BY <1>1, <1>2, <1>4, <1>5, <1>6 DEF Typed, Counted, Open, InWork, TasksInUse, Works, Removing
<1>9. LocksHeld'
  BY <1>1, <1>2, <1>4, Apart DEF LocksHeld, Removing
<1>10. OneEach' /\ (Tables => Tables') /\ Heard'
  BY <1>1, <1>2, <1>4, StoryKept, HeardKept DEF Left, Leaving, Hidden
<1>11. Linked => Linked'
  BY <1>1, <1>4, <1>6 DEF Linked, Hidden, Removing
<1>. QED BY <1>7, <1>8, <1>9, <1>10, <1>11 DEF Keeps, Ever

LEMMA TimerUnlockKeeps == ASSUME Ever, TimerUnlock PROVE Keeps
<1>1. /\ pc[Tmr] = "scan" /\ pc' = [pc EXCEPT ![Tmr] = "idle"]
      /\ tmrLock' = Released(tmrLock)
      /\ backlog' = backlog /\ conn' = conn /\ nconn' = nconn /\ nsent' = nsent
      /\ netLock' = netLock /\ task' = task /\ armed' = armed /\ fired' = fired
      /\ handles' = handles /\ sess' = sess /\ accepted' = accepted /\ handed' = handed
      /\ batch' = batch /\ event' = event /\ reads' = reads /\ cls' = cls /\ told' = told
      /\ ncalls' = ncalls /\ newSock' = newSock /\ newTask' = newTask
  BY DEF TimerUnlock, Goto, kernel, timers, channel, loop, outgoing
<1>2. Typed /\ Counted /\ LocksHeld /\ OneEach /\ InWork /\ TasksInUse /\ Heard
  BY DEF Ever
<1>3. pc'[Tmr] = "idle" /\ pc'[Net] = pc[Net] /\ pc'[Con] = pc[Con] /\ pc'[Main] = pc[Main]
  BY <1>1, <1>2, Apart DEF Typed, Threads
<1>4. Typed'
  BY <1>1, <1>2, <1>3, Apart DEF Typed, Threads, AllPcs, NetPcs, TmrPcs, Works, Removing
<1>5. Counted' /\ TasksInUse' /\ InWork'
  BY <1>1, <1>2, <1>3 DEF Typed, Counted, Open, TasksInUse, InWork, Works, Removing
<1>6. LocksHeld'
  BY <1>1, <1>2, <1>3, Apart DEF LocksHeld, Removing, CanLock, LockedBy, Released, Unlocked
<1>7. OneEach' /\ (Tables => Tables') /\ Heard'
  BY <1>1, <1>2, <1>3, StoryKept, HeardKept DEF Typed, Left, Leaving, Hidden
<1>8. Tables /\ Linked => Linked'
  BY <1>1, <1>2, <1>3 DEF Typed, Linked, Hidden, Works, Removing
<1>. QED BY <1>4, <1>5, <1>6, <1>7, <1>8 DEF Keeps, Ever

-----------------------------------------------------------------------------
(* netmsgqueue_thread_run *)

LEMMA ConsumerGetKeeps == ASSUME Ever, ConsumerGet PROVE Keeps
<1>1. /\ pc' = [pc EXCEPT ![Con] = "deliver"]
      /\ cls' = [cls EXCEPT ![Con] = handed'[Len(handed')][1]]
      /\ backlog' = backlog /\ conn' = conn /\ nconn' = nconn /\ nsent' = nsent
      /\ netLock' = netLock /\ tmrLock' = tmrLock /\ task' = task /\ armed' = armed
      /\ fired' = fired /\ handles' = handles /\ sess' = sess /\ accepted' = accepted
      /\ batch' = batch /\ event' = event /\ reads' = reads /\ told' = told
      /\ ncalls' = ncalls /\ newSock' = newSock /\ newTask' = newTask
  BY DEF ConsumerGet, Goto, kernel, timers, loop, outgoing
<1>2. Typed /\ Counted /\ LocksHeld /\ OneEach /\ InWork /\ TasksInUse /\ Heard
  BY DEF Ever
<1>3. pc'[Con] = "deliver" /\ pc'[Net] = pc[Net] /\ pc'[Tmr] = pc[Tmr] /\ pc'[Main] = pc[Main]
  BY <1>1, <1>2, Apart DEF Typed, Threads
<1>4. cls'[Net] = cls[Net] /\ cls'[Tmr] = cls[Tmr] /\ cls'[Main] = cls[Main]
  BY <1>1, <1>2, Apart DEF Typed, Threads
<1>5. handed' \in Seq(Sessions \X Conns) /\ handed'[Len(handed')][1] \in Sessions
  <2>1. /\ Len(handed) < Len(accepted)
        /\ handed' = Append(handed, accepted[Len(handed) + 1])
    BY DEF ConsumerGet, Queue!HandOut
  <2>2. accepted \in Seq(Sessions \X Conns) /\ handed \in Seq(Sessions \X Conns)
    BY <1>2 DEF Typed
  <2>3. accepted[Len(handed) + 1] \in Sessions \X Conns
    BY <2>1, <2>2
  <2>. QED BY <2>1, <2>2, <2>3
<1>6. Typed'
  <2>1. pc' \in [Threads -> AllPcs] /\ cls' \in [Threads -> Sessions \cup {Null}]
    BY <1>1, <1>2, <1>5 DEF Typed, AllPcs
  <2>. QED BY <1>1, <1>2, <1>3, <1>5, <2>1 DEF Typed
<1>7. Counted' /\ LocksHeld' /\ InWork' /\ TasksInUse'
  BY <1>1, <1>2, <1>3, <1>4 DEF Counted, Open, LocksHeld, InWork, TasksInUse
<1>8. OneEach' /\ (Tables => Tables') /\ Heard'
  BY <1>1, <1>2, <1>3, <1>4, StoryKept, HeardKept DEF Left, Leaving, Hidden
<1>9. Linked => Linked'
  BY <1>1, <1>3, <1>4 DEF Linked, Hidden
<1>. QED BY <1>6, <1>7, <1>8, <1>9 DEF Keeps, Ever

LEMMA ConsumerDeliverKeeps == ASSUME Ever, ConsumerDeliver PROVE Keeps
<1>1. /\ pc' = [pc EXCEPT ![Con] = "idle"]
      /\ cls' = [cls EXCEPT ![Con] = Null]
      /\ backlog' = backlog /\ conn' = conn /\ nconn' = nconn /\ nsent' = nsent
      /\ netLock' = netLock /\ tmrLock' = tmrLock /\ task' = task /\ armed' = armed
      /\ fired' = fired /\ handles' = handles /\ sess' = sess /\ accepted' = accepted
      /\ handed' = handed /\ batch' = batch /\ event' = event /\ reads' = reads
      /\ told' = told /\ ncalls' = ncalls /\ newSock' = newSock /\ newTask' = newTask
  BY DEF ConsumerDeliver, Goto, kernel, timers, channel, loop, outgoing
<1>2. Typed /\ Counted /\ LocksHeld /\ OneEach /\ InWork /\ TasksInUse /\ Heard
  BY DEF Ever
<1>3. pc'[Con] = "idle" /\ pc'[Net] = pc[Net] /\ pc'[Tmr] = pc[Tmr] /\ pc'[Main] = pc[Main]
  BY <1>1, <1>2, Apart DEF Typed, Threads
<1>4. cls'[Net] = cls[Net] /\ cls'[Tmr] = cls[Tmr] /\ cls'[Main] = cls[Main]
  BY <1>1, <1>2, Apart DEF Typed, Threads
<1>5. Typed'
  <2>1. pc' \in [Threads -> AllPcs] /\ cls' \in [Threads -> Sessions \cup {Null}]
    BY <1>1, <1>2 DEF Typed, AllPcs, NetPcs
  <2>. QED BY <1>1, <1>2, <1>3, <2>1 DEF Typed
<1>6. Counted' /\ LocksHeld' /\ InWork' /\ TasksInUse'
  BY <1>1, <1>2, <1>3, <1>4 DEF Counted, Open, LocksHeld, InWork, TasksInUse
<1>7. OneEach' /\ (Tables => Tables') /\ Heard'
  BY <1>1, <1>2, <1>3, <1>4, StoryKept, HeardKept DEF Left, Leaving, Hidden
<1>8. Linked => Linked'
  BY <1>1, <1>3, <1>4 DEF Linked, Hidden
<1>. QED BY <1>5, <1>6, <1>7, <1>8 DEF Keeps, Ever

-----------------------------------------------------------------------------
(* connect_server *)

\* The new session is hidden; its descriptor may still have the entry of a session that
\* is being removed.
LEMMA ConnectServerKeeps == ASSUME Ever, ConnectServer PROVE Keeps
<1> DEFINE new == [id |-> Call + 1, data |-> 0, ended |-> "no"]
<1>1. /\ pc[Main] = "idle" /\ ncalls < MaxCalls /\ \E fd \in Fds : ~Open(fd)
      /\ ncalls' = ncalls + 1 /\ newSock' = LowestFree
      /\ conn' = [conn EXCEPT ![LowestFree] = new]
      /\ pc' = [pc EXCEPT ![Main] = "insert"]
      /\ backlog' = backlog /\ nconn' = nconn /\ nsent' = nsent /\ netLock' = netLock
      /\ tmrLock' = tmrLock /\ task' = task /\ armed' = armed /\ fired' = fired
      /\ handles' = handles /\ accepted' = accepted /\ handed' = handed /\ batch' = batch
      /\ event' = event /\ reads' = reads /\ told' = told /\ newTask' = newTask
  BY DEF ConnectServer, Goto, timers, channel, loop
<1>2. Typed /\ Counted /\ LocksHeld /\ OneEach /\ InWork /\ TasksInUse /\ Heard
  BY DEF Ever
<1>3. PICK fd \in Fds : fd = LowestFree /\ conn[fd] = Null
  BY <1>1, LowestIsFree
<1>4. PICK s \in Sessions :
        /\ ~sess[s].live
        /\ sess' = [sess EXCEPT ![s] = Created(fd)]
        /\ cls' = [cls EXCEPT ![Main] = s]
  BY <1>3 DEF ConnectServer
<1>5. /\ new \in Link /\ new # Null /\ new.id = Call' /\ new.data = 0 /\ Call' = Call + 1
      /\ Call' \in Conns /\ Call \in Nat /\ MaxConns <= Call /\ nconn \in Nat /\ nconn <= MaxConns
  <2>1. MaxConns \in Nat /\ ncalls \in Nat /\ nconn \in Nat /\ nconn <= MaxConns
    BY <1>2, GatewayAssumption DEF Typed
  <2>2. Call + 1 \in Conns /\ Call' = Call + 1
    BY <1>1, <2>1, GatewayAssumption DEF Call, Conns
  <2>3. new \in Link
    BY <2>2 DEF Link
  <2>. QED BY <2>1, <2>2, <2>3, NullApart DEF Call
<1>6. /\ pc'[Main] = "insert" /\ pc'[Net] = pc[Net] /\ pc'[Tmr] = pc[Tmr] /\ pc'[Con] = pc[Con]
      /\ cls'[Main] = s /\ cls'[Net] = cls[Net] /\ cls'[Tmr] = cls[Tmr] /\ cls'[Con] = cls[Con]
  BY <1>1, <1>2, <1>4, Apart DEF Typed, Threads
<1>. HIDE DEF new
<1>7. /\ conn' \in [Fds -> Link \cup {Null}] /\ conn'[fd] = new
      /\ \A gd \in Fds : gd # fd => conn'[gd] = conn[gd]
  BY <1>1, <1>2, <1>3, <1>5 DEF Typed
<1>8. /\ sess'[s].live /\ sess'[s].sock = fd
      /\ \A x \in Sessions : x # s => sess'[x] = sess[x]
      /\ sess' \in [Sessions -> CSession]
  BY <1>2, <1>4 DEF Typed, Created, CSession
<1>9. /\ \A x \in Sessions : (Hidden(x)' <=> x = s) /\ ~Hidden(x)
      /\ \A x \in Sessions : (Left(x)' <=> Left(x)) /\ (Left(x) => sess[x].live)
  <2>1. \A x \in Sessions : (Hidden(x)' <=> x = s) /\ ~Hidden(x)
    BY <1>1, <1>6 DEF Hidden
  <2>. QED BY <2>1, <1>2, <1>6 DEF Left, Leaving, InWork, Works, Removing
<1>10. Typed'
  <2>1. pc' \in [Threads -> AllPcs]
    BY <1>1, <1>2 DEF Typed, AllPcs
  <2>2. cls' \in [Threads -> Sessions \cup {Null}]
    BY <1>2, <1>4 DEF Typed
  <2>3. ncalls' \in 0 .. MaxCalls
    BY <1>1, <1>2, GatewayAssumption DEF Typed
  <2>. QED BY <1>1, <1>2, <1>3, <1>6, <1>7, <1>8, <2>1, <2>2, <2>3 DEF Typed
<1>11. Counted' /\ LocksHeld'
  <2>1. Counted'
    BY <1>1, <1>2, <1>5, <1>7 DEF Counted, Open
  <2>2. LocksHeld'
    BY <1>1, <1>2, <1>6 DEF LocksHeld
  <2>. QED BY <2>1, <2>2
<1>12. InWork' /\ TasksInUse'
  <2>1. newSock' # Null
    BY <1>1, <1>3, NullApart
  <2>2. \A x \in Sessions : sess[x].live => sess'[x].live
    BY <1>8
  <2>. QED BY <1>1, <1>2, <1>6, <2>1, <2>2, NullApart DEF InWork, TasksInUse, Works, Removing
<1>13. OneEach' /\ \A x \in Sessions : x # s /\ sess[x].live /\ sess[x].sock = fd => Left(x)
  <2>1. \A x \in Sessions : sess[x].live => sess[x].sock \in Fds /\ (Left(x) \/ conn[sess[x].sock] # Null)
    BY <1>2 DEF OneEach, Open
  <2>2. \A x \in Sessions : x # s /\ sess[x].live /\ sess[x].sock = fd => Left(x)
    BY <1>3, <2>1
  <2>3. \A x \in Sessions : sess'[x].live =>
          sess'[x].sock \in Fds /\ (Left(x)' \/ conn'[sess'[x].sock] # Null)
    BY <1>5, <1>7, <1>8, <1>9, <2>1
  <2>4. \A x, y \in Sessions :
          x # y /\ sess'[x].live /\ sess'[y].live /\ sess'[x].sock = sess'[y].sock =>
            Left(x)' \/ Left(y)'
    <3>. SUFFICES ASSUME NEW x \in Sessions, NEW y \in Sessions, x # y,
                         sess'[x].live, sess'[y].live, sess'[x].sock = sess'[y].sock
                  PROVE  Left(x) \/ Left(y)
      BY <1>9
    <3>1. CASE x # s /\ y # s
      BY <3>1, <1>2, <1>8 DEF OneEach
    <3>2. CASE x = s
      BY <3>2, <1>8, <2>2
    <3>3. CASE y = s
      BY <3>3, <1>8, <2>2
    <3>. QED BY <3>1, <3>2, <3>3
  <2>. QED BY <2>2, <2>3, <2>4 DEF OneEach, Open
<1>14. ASSUME Tables PROVE Tables'
  <2>1. \A gd \in Fds : handles'[gd] # Null =>
          sess'[handles'[gd]].live /\ sess'[handles'[gd]].sock = gd /\ ~Hidden(handles[gd])'
    <3>. SUFFICES ASSUME NEW gd \in Fds, handles[gd] # Null
                  PROVE  /\ sess'[handles[gd]].live /\ sess'[handles[gd]].sock = gd
                         /\ ~Hidden(handles[gd])'
      BY <1>1
    <3>1. handles[gd] \in Sessions /\ sess[handles[gd]].live /\ sess[handles[gd]].sock = gd
      BY <1>2, <1>14 DEF Typed, Tables
    <3>2. handles[gd] # s
      BY <3>1, <1>4
    <3>3. ~Hidden(handles[gd])'
      BY <3>2, <1>1, <1>6 DEF Hidden
    <3>. QED BY <3>1, <3>2, <3>3, <1>8
  <2>2. \A x \in Sessions : sess'[x].live => Hidden(x)' \/ handles'[sess'[x].sock] = x
    BY <1>1, <1>8, <1>9, <1>14 DEF Tables
  <2>3. handles'[fd] # Null => Left(handles[fd])'
    <3>. SUFFICES ASSUME handles[fd] # Null PROVE Left(handles[fd])
      BY <1>1, <1>6 DEF Left, Leaving
    <3>1. handles[fd] \in Sessions /\ sess[handles[fd]].live /\ sess[handles[fd]].sock = fd
      BY <1>2, <1>14 DEF Typed, Tables
    <3>. QED BY <3>1, <1>4, <1>13
  <2>4. \A x \in Sessions : Hidden(x)' =>
          /\ sess'[x].live /\ sess'[x].sock = newSock'
          /\ conn'[newSock'].id = Call'
          /\ handles'[newSock'] # Null => Left(handles[newSock])'
    <3>. SUFFICES ASSUME NEW x \in Sessions, x = s, newSock' = fd
                  PROVE  /\ sess'[x].live /\ sess'[x].sock = newSock'
                         /\ conn'[newSock'].id = Call'
                         /\ handles'[newSock'] # Null => Left(handles[newSock])'
      BY <1>1, <1>3, <1>9
    <3>1. handles'[newSock'] # Null => Left(handles[newSock])'
      BY <2>3, <1>6 DEF Left, Leaving
    <3>. QED BY <3>1, <1>5, <1>7, <1>8
  <2>5. \A gd \in Fds : Open(gd)' =>
          \E x \in Sessions : sess'[x].live /\ sess'[x].sock = gd /\ ~Left(x)'
    <3>. SUFFICES ASSUME NEW gd \in Fds, conn'[gd] # Null
                  PROVE  \E x \in Sessions : sess'[x].live /\ sess'[x].sock = gd /\ ~Left(x)
      BY <1>9 DEF Open
    <3>1. CASE gd = fd
      BY <3>1, <1>4, <1>8, <1>9
    <3>2. CASE gd # fd
      <4>1. PICK x \in Sessions : sess[x].live /\ sess[x].sock = gd /\ ~Left(x)
        BY <3>2, <1>7, <1>14 DEF Tables, Open
      <4>. QED BY <4>1, <1>4, <1>8
    <3>. QED BY <3>1, <3>2
  <2>. QED BY <2>1, <2>2, <2>4, <2>5 DEF Tables
<1>15. ASSUME Linked PROVE Linked'
  <2>1. /\ pc[Net] \in Works => cls[Net] \in Sessions /\ cls[Net] # s
        /\ pc[Tmr] \in {"remove"} \cup Removing => cls[Tmr] \in Sessions /\ cls[Tmr] # s
    BY <1>2, <1>4, <1>15 DEF Linked, InWork
  <2>2. \A k \in armed : task[k].func = "firstpack" => task[k].arg \in Sessions /\ task[k].arg # s
    BY <1>2, <1>4, <1>15 DEF Typed, TasksInUse, TimerTask, Linked
  <2>3. /\ pc'[Net] \in Works => sess'[cls'[Net]].live /\ ~Hidden(cls[Net])'
        /\ pc'[Net] = "schedule" => cls'[Net] # cls'[Main] /\ sess'[cls'[Net]].timer_ev = Null
    BY <1>6, <1>8, <1>15, <2>1 DEF Linked, Hidden, Works
  <2>4. pc'[Tmr] \in {"remove"} \cup Removing =>
          /\ sess'[cls'[Tmr]].live /\ sess'[cls'[Tmr]].timer_ev = fired'
          /\ task'[fired'] = [arg |-> cls'[Tmr], func |-> "firstpack"]
          /\ cls'[Tmr] # cls'[Main]
          /\ ~(pc'[Net] = "free" /\ cls'[Net] = cls'[Tmr])
    BY <1>1, <1>6, <1>8, <1>15, <2>1 DEF Linked
  <2>5. \A k \in armed' : task'[k].func = "firstpack" =>
          /\ sess'[task'[k].arg].live /\ sess'[task'[k].arg].timer_ev = k
          /\ task'[k].arg # cls'[Main]
          /\ ~(pc'[Net] = "free" /\ cls'[Net] = task'[k].arg)
    BY <1>1, <1>6, <1>8, <1>15, <2>2 DEF Linked
  <2>. QED BY <1>6, <1>8, <2>3, <2>4, <2>5 DEF Linked, Hidden
<1>16. Heard'
  <2>1. told[Call'] = "nothing" /\ told' = told
    BY <1>1, <1>2, <1>5 DEF Heard
  <2>2. \A gd \in Fds : Open(gd) => conn[gd].id \in Conns /\ conn[gd].id # Call'
    <3>. SUFFICES ASSUME NEW gd \in Fds, Open(gd)
                  PROVE  conn[gd].id \in Conns /\ conn[gd].id # Call'
      OBVIOUS
    <3>1. conn[gd].id \in Conns
      BY <1>2 DEF Typed, Open, Link
    <3>2. Here(conn[gd].id)
      BY DEF Here
    <3>3. conn[gd].id <= nconn \/ (MaxConns < conn[gd].id /\ conn[gd].id <= Call)
      BY <3>1, <3>2, <1>2 DEF Heard
    <3>. QED BY <3>1, <3>3, <1>5, GatewayAssumption DEF Conns
  <2>3. \A gd, hd \in Fds : Open(gd)' /\ Open(hd)' /\ gd # hd => conn'[gd].id # conn'[hd].id
    BY <1>2, <1>3, <1>5, <1>7, <2>2 DEF Heard, Open
  <2>4. \A c \in Conns : Here(c)' <=> (Here(c) \/ c = Call')
    BY <1>3, <1>5, <1>7 DEF Here, Open
  <2>5. \A c \in Conns : Here(c) => c # Call'
    BY <2>2 DEF Here
  <2>6. \A c \in Conns : Here(c)' =>
          /\ c <= nconn' \/ (MaxConns < c /\ c <= Call')
          /\ told'[c] = IF Calling(c)' THEN "nothing" ELSE "accepted"
    <3>. SUFFICES ASSUME NEW c \in Conns, Here(c)'
                  PROVE  /\ c <= nconn' \/ (MaxConns < c /\ c <= Call')
                         /\ told'[c] = IF Calling(c)' THEN "nothing" ELSE "accepted"
      OBVIOUS
    <3>1. Calling(c)' <=> c = Call'
      BY <1>6 DEF Calling
    <3>2. CASE c = Call'
      BY <3>1, <3>2, <2>1, <1>5, GatewayAssumption
    <3>3. CASE c # Call'
      <4>1. Here(c) /\ ~Calling(c)
        BY <3>3, <2>4, <1>1 DEF Calling
      <4>2. (c <= nconn \/ (MaxConns < c /\ c <= Call)) /\ told[c] = "accepted"
        BY <4>1, <1>2 DEF Heard
      <4>. QED BY <3>1, <3>3, <4>2, <2>1, <1>1, <1>5, GatewayAssumption DEF Conns
    <3>. QED BY <3>2, <3>3
  <2>7. \A c \in Conns : told'[c] = "accepted" => Here(c)'
    BY <1>2, <2>1, <2>4 DEF Heard
  <2>8. \A c \in Conns : (nconn' < c /\ c <= MaxConns) \/ Call' < c => told'[c] = "nothing"
    <3>1. \A c \in Conns : Call' < c => Call < c
      BY <1>5, GatewayAssumption DEF Conns
    <3>. QED BY <3>1, <2>1, <1>1, <1>2 DEF Heard
  <2>9. pc'[Main] # "idle" =>
          /\ ncalls' > 0 /\ told'[Call'] \in {"nothing", "error"}
          /\ told'[Call'] = "nothing" => Here(Call)'
    <3>1. ncalls' > 0
      BY <1>1, <1>2 DEF Typed
    <3>2. Here(Call)'
      BY <1>3, <1>5, <1>7 DEF Here, Open
    <3>. QED BY <3>1, <3>2, <2>1
  <2>. QED BY <1>1, <1>2, <2>1, <2>3, <2>6, <2>7, <2>8, <2>9 DEF Heard
<1>. QED BY <1>10, <1>11, <1>12, <1>13, <1>14, <1>15, <1>16 DEF Keeps, Ever

\* As long as the tables agree, and nobody being at removing a session now, the entry that
\* is written was empty.
LEMMA ConnectInsertKeeps == ASSUME Ever, ConnectInsert PROVE Keeps
<1> DEFINE s == cls[Main]  fd == newSock
<1>1. /\ pc[Main] = "insert" /\ CanLock(netLock, Main)
      /\ handles' = [handles EXCEPT ![fd] = s] /\ newSock' = Null
      /\ pc' = [pc EXCEPT ![Main] = "arm"]
      /\ backlog' = backlog /\ conn' = conn /\ nconn' = nconn /\ nsent' = nsent
      /\ netLock' = netLock /\ tmrLock' = tmrLock /\ task' = task /\ armed' = armed
      /\ fired' = fired /\ sess' = sess /\ accepted' = accepted /\ handed' = handed
      /\ batch' = batch /\ event' = event /\ reads' = reads /\ cls' = cls /\ told' = told
      /\ ncalls' = ncalls /\ newTask' = newTask
  BY DEF ConnectInsert, Goto, kernel, timers, channel, loop
<1>2. Typed /\ Counted /\ LocksHeld /\ OneEach /\ InWork /\ TasksInUse /\ Heard
  BY DEF Ever
<1>3. pc'[Main] = "arm" /\ pc'[Net] = pc[Net] /\ pc'[Tmr] = pc[Tmr] /\ pc'[Con] = pc[Con]
  BY <1>1, <1>2, Apart DEF Typed, Threads
<1>4. \A x \in Sessions : ~Left(x) /\ ~Left(x)'
  <2>1. pc[Tmr] \notin Removing /\ pc[Net] \notin Removing
    BY <1>1, <1>2, Apart DEF LocksHeld, CanLock, Removing
  <2>. QED BY <2>1, <1>3 DEF Left, Leaving, Removing
<1>5. s \in Sessions /\ fd \in Fds
  BY <1>1, <1>2 DEF Typed, Threads, InWork
<1>6. /\ handles' \in [Fds -> Sessions \cup {Null}] /\ handles'[fd] = s
      /\ \A gd \in Fds : gd # fd => handles'[gd] = handles[gd]
  BY <1>1, <1>2, <1>5 DEF Typed
<1>7. Typed'
  <2>1. pc' \in [Threads -> AllPcs]
    BY <1>1, <1>2 DEF Typed, AllPcs
  <2>. QED BY <1>1, <1>2, <1>3, <1>6, <2>1 DEF Typed
<1>8. Counted' /\ LocksHeld' /\ InWork' /\ TasksInUse'
  BY <1>1, <1>2, <1>3 DEF Counted, Open, LocksHeld, InWork, TasksInUse
<1>9. OneEach' /\ Heard'
  BY <1>1, <1>2, <1>3, <1>4, HeardKept DEF OneEach, Open
<1>10. ASSUME Tables PROVE Tables'
  <2>1. /\ sess[s].live /\ sess[s].sock = fd /\ handles[fd] = Null
        /\ \A x \in Sessions : Hidden(x) => x = s
    BY <1>1, <1>2, <1>4, <1>5, <1>10 DEF Typed, Tables, Hidden
  <2>2. \A x \in Sessions : ~Hidden(x)'
    BY <1>3 DEF Hidden
  <2>. HIDE DEF s, fd
  <2>3. \A gd \in Fds : handles'[gd] # Null =>
          sess'[handles'[gd]].live /\ sess'[handles'[gd]].sock = gd /\ ~Hidden(handles[gd])'
    <3>. SUFFICES ASSUME NEW gd \in Fds, handles'[gd] # Null
                  PROVE  sess[handles'[gd]].live /\ sess[handles'[gd]].sock = gd
      BY <1>1, <1>3 DEF Hidden
    <3>1. CASE gd = fd
      BY <3>1, <1>6, <2>1
    <3>2. CASE gd # fd
      BY <3>2, <1>6, <1>10 DEF Tables
    <3>. QED BY <3>1, <3>2
  <2>4. \A x \in Sessions : sess[x].live => handles'[sess[x].sock] = x
    <3>. SUFFICES ASSUME NEW x \in Sessions, sess[x].live, x # s PROVE handles'[sess[x].sock] = x
      BY <1>6, <2>1
    <3>1. sess[x].sock \in Fds /\ handles[sess[x].sock] = x
      BY <1>2, <1>10, <2>1 DEF OneEach, Tables
    <3>. QED BY <3>1, <1>6, <2>1, NullApart
  <2>5. \A gd \in Fds : Open(gd)' =>
          \E x \in Sessions : sess'[x].live /\ sess'[x].sock = gd /\ ~Left(x)'
    BY <1>1, <1>4, <1>10 DEF Tables, Open
  <2>. QED BY <1>1, <2>2, <2>3, <2>4, <2>5 DEF Tables
<1>11. Linked => Linked'
  BY <1>1, <1>3 DEF Linked, Hidden
<1>. QED BY <1>7, <1>8, <1>9, <1>10, <1>11 DEF Keeps, Ever

\* A keep-alive timer is nothing to the first-pack timers.
LEMMA ConnectArmKeeps == ASSUME Ever, ConnectArm PROVE Keeps
<1>1. /\ pc[Main] = "arm" /\ pc' = [pc EXCEPT ![Main] = "note"]
      /\ backlog' = backlog /\ conn' = conn /\ nconn' = nconn /\ nsent' = nsent
      /\ netLock' = netLock /\ tmrLock' = tmrLock /\ fired' = fired /\ handles' = handles
      /\ sess' = sess /\ accepted' = accepted /\ handed' = handed /\ batch' = batch
      /\ event' = event /\ reads' = reads /\ cls' = cls /\ told' = told /\ ncalls' = ncalls
      /\ newSock' = newSock
  BY DEF ConnectArm, Goto, kernel, channel, loop
<1>2. Typed /\ Counted /\ LocksHeld /\ OneEach /\ InWork /\ TasksInUse /\ Heard
  BY DEF Ever
<1>3. pc'[Main] = "note" /\ pc'[Net] = pc[Net] /\ pc'[Tmr] = pc[Tmr] /\ pc'[Con] = pc[Con]
  BY <1>1, <1>2, Apart DEF Typed, Threads
<1> DEFINE new == [arg |-> cls[Main], func |-> "keepalive"]
<1>4. PICK k \in Tasks :
        /\ task[k] = Null
        /\ task' = [task EXCEPT ![k] = new]
        /\ armed' = armed \cup {k} /\ newTask' = k
  BY DEF ConnectArm
<1>5. new \in TimerTask /\ new # Null /\ new.func = "keepalive"
  <2>1. cls[Main] \in Sessions
    BY <1>1, <1>2 DEF Typed, Threads, InWork
  <2>. QED BY <2>1, NullApart DEF TimerTask
<1>. HIDE DEF new
<1>6. /\ task' \in [Tasks -> TimerTask \cup {Null}]
      /\ task'[k] = new /\ \A l \in Tasks : l # k => task'[l] = task[l]
      /\ k # fired /\ k \notin armed
  BY <1>2, <1>4, <1>5, NullApart DEF Typed, TasksInUse
<1>7. Typed'
  <2>1. pc' \in [Threads -> AllPcs]
    BY <1>1, <1>2 DEF Typed, AllPcs
  <2>. QED BY <1>1, <1>2, <1>3, <1>4, <1>6, <2>1 DEF Typed
<1>8. Counted' /\ LocksHeld' /\ InWork'
  BY <1>1, <1>2, <1>3 DEF Counted, Open, LocksHeld, InWork
<1>9. TasksInUse'
  BY <1>1, <1>2, <1>3, <1>4, <1>5, <1>6 DEF Typed, TasksInUse
<1>10. OneEach' /\ (Tables => Tables') /\ Heard'
  BY <1>1, <1>2, <1>3, StoryKept, HeardKept DEF Left, Leaving, Hidden
<1>11. ASSUME Linked PROVE Linked'
  <2>1. \A l \in armed' : task'[l].func = "firstpack" => l \in armed /\ task'[l] = task[l]
    BY <1>2, <1>4, <1>5, <1>6 DEF Typed
  <2>2. fired # Null => fired \in Tasks /\ task'[fired] = task[fired]
    BY <1>2, <1>6 DEF Typed
  <2>. QED BY <1>1, <1>2, <1>3, <1>11, <2>1, <2>2 DEF Linked, TasksInUse, Hidden
<1>. QED BY <1>7, <1>8, <1>9, <1>10, <1>11 DEF Keeps, Ever

\* Unless connect_server has lost its session, no first-pack timer is for the one whose
\* timer_ev it writes; and what it has made is what it says it has made.
LEMMA ConnectNoteKeeps == ASSUME Ever, ConnectNote PROVE Keeps
<1> DEFINE s == cls[Main]  word == IF told[Call] = "nothing" THEN "accepted" ELSE "stale"
<1>1. /\ pc[Main] = "note" /\ newTask' = Null
      /\ sess' = [sess EXCEPT ![s].timer_ev = newTask]
      /\ told' = [told EXCEPT ![Call] = word]
      /\ cls' = [cls EXCEPT ![Main] = Null]
      /\ pc' = [pc EXCEPT ![Main] = "idle"]
      /\ backlog' = backlog /\ conn' = conn /\ nconn' = nconn /\ nsent' = nsent
      /\ netLock' = netLock /\ tmrLock' = tmrLock /\ task' = task /\ armed' = armed
      /\ fired' = fired /\ handles' = handles /\ accepted' = accepted /\ handed' = handed
      /\ batch' = batch /\ event' = event /\ reads' = reads /\ ncalls' = ncalls
      /\ newSock' = newSock
  BY DEF ConnectNote, Goto, kernel, timers, channel, loop
<1>2. Typed /\ Counted /\ LocksHeld /\ OneEach /\ InWork /\ TasksInUse /\ Heard
  BY DEF Ever
<1>3. /\ pc'[Main] = "idle" /\ pc'[Net] = pc[Net] /\ pc'[Tmr] = pc[Tmr] /\ pc'[Con] = pc[Con]
      /\ cls'[Main] = Null /\ cls'[Net] = cls[Net] /\ cls'[Tmr] = cls[Tmr] /\ cls'[Con] = cls[Con]
  BY <1>1, <1>2, Apart DEF Typed, Threads
<1>4. s \in Sessions /\ newTask \in Tasks \cup {Null}
  BY <1>1, <1>2 DEF Typed, Threads, InWork
<1>5. /\ \A x \in Sessions : sess'[x].live = sess[x].live /\ sess'[x].sock = sess[x].sock
      /\ \A x \in Sessions : x # s => sess'[x].timer_ev = sess[x].timer_ev
      /\ sess' \in [Sessions -> CSession]
  BY <1>1, <1>2, <1>4, TimerNoted
<1>6. /\ Call \in Conns /\ told[Call] \in {"nothing", "error"}
      /\ told[Call] = "nothing" <=> Here(Call)
  <2>1. /\ Call \in Conns /\ told[Call] \in {"nothing", "error"}
        /\ told[Call] = "nothing" => Here(Call)
    BY <1>1, <1>2, GatewayAssumption DEF Typed, Heard, Call, Conns
  <2>2. Here(Call) => told[Call] = "nothing"
    BY <1>1, <1>2, <2>1 DEF Heard, Calling
  <2>. QED BY <2>1, <2>2
<1>. HIDE DEF word
<1>7. /\ told' \in [Conns -> Words]
      /\ told'[Call] = word /\ \A c \in Conns : c # Call => told'[c] = told[c]
  BY <1>1, <1>2, <1>6 DEF Typed, Words, word
<1>. HIDE DEF s
<1>8. Typed'
  <2>1. pc' \in [Threads -> AllPcs]
    BY <1>1, <1>2 DEF Typed, AllPcs, NetPcs
  <2>2. cls' \in [Threads -> Sessions \cup {Null}]
    BY <1>1, <1>2 DEF Typed
  <2>. QED BY <1>1, <1>2, <1>3, <1>5, <1>7, <2>1, <2>2 DEF Typed
<1>9. Counted' /\ LocksHeld' /\ InWork' /\ TasksInUse'
  BY <1>1, <1>2, <1>3, <1>5 DEF Counted, Open, LocksHeld, InWork, TasksInUse
<1>10. OneEach' /\ (Tables => Tables')
  BY <1>1, <1>2, <1>3, <1>5, StoryKept DEF Left, Leaving, Hidden
<1>11. ASSUME Linked PROVE Linked'
  <2>1. /\ pc[Net] \in Works => cls[Net] \in Sessions
        /\ pc[Net] = "schedule" => cls[Net] # s
        /\ pc[Tmr] \in {"remove"} \cup Removing => cls[Tmr] \in Sessions /\ cls[Tmr] # s
    BY <1>2, <1>11 DEF Linked, InWork, s
  <2>2. \A k \in armed : task[k].func = "firstpack" => task[k].arg \in Sessions /\ task[k].arg # s
    BY <1>2, <1>11 DEF Typed, TasksInUse, TimerTask, Linked, s
  <2>3. /\ pc'[Net] \in Works => sess'[cls'[Net]].live /\ ~Hidden(cls[Net])'
        /\ pc'[Net] = "schedule" => cls'[Net] # cls'[Main] /\ sess'[cls'[Net]].timer_ev = Null
    BY <1>3, <1>5, <1>11, <2>1, NullApart DEF Linked, Hidden, Works
  <2>4. pc'[Tmr] \in {"remove"} \cup Removing =>
          /\ sess'[cls'[Tmr]].live /\ sess'[cls'[Tmr]].timer_ev = fired'
          /\ task'[fired'] = [arg |-> cls'[Tmr], func |-> "firstpack"]
          /\ cls'[Tmr] # cls'[Main]
          /\ ~(pc'[Net] = "free" /\ cls'[Net] = cls'[Tmr])
    BY <1>1, <1>3, <1>5, <1>11, <2>1, NullApart DEF Linked
  <2>5. \A k \in armed' : task'[k].func = "firstpack" =>
          /\ sess'[task'[k].arg].live /\ sess'[task'[k].arg].timer_ev = k
          /\ task'[k].arg # cls'[Main]
          /\ ~(pc'[Net] = "free" /\ cls'[Net] = task'[k].arg)
    BY <1>1, <1>3, <1>5, <1>11, <2>2, NullApart DEF Linked
  <2>. QED BY <1>3, <2>3, <2>4, <2>5 DEF Linked, Hidden
<1>12. Heard'
  <2>1. \A c \in Conns : (Here(c)' <=> Here(c)) /\ ~Calling(c)' /\ (Calling(c) <=> c = Call)
    BY <1>1, <1>3 DEF Here, Open, Calling
  <2>2. \A c \in Conns : Here(c)' =>
          /\ c <= nconn' \/ (MaxConns < c /\ c <= Call')
          /\ told'[c] = "accepted"
    BY <1>1, <1>2, <1>6, <1>7, <2>1 DEF Heard, Call, word
  <2>3. \A c \in Conns : told'[c] = "accepted" => Here(c)'
    BY <1>2, <1>6, <1>7, <2>1 DEF Heard, word
  <2>4. \A c \in Conns : (nconn < c /\ c <= MaxConns) \/ Call < c => c # Call
    BY <1>1, <1>2, CallApart, GatewayAssumption DEF Conns
  <2>5. \A c \in Conns : (nconn' < c /\ c <= MaxConns) \/ Call' < c => told'[c] = "nothing"
    BY <1>1, <1>2, <1>7, <2>4 DEF Heard, Call
  <2>6. \A i \in 1 .. Len(backlog') :
          backlog'[i].id <= nconn' /\ told'[backlog'[i].id] = "nothing"
    <3>. TAKE i \in 1 .. Len(backlog')
    <3>1. backlog[i] \in Link /\ backlog'[i] = backlog[i]
      BY <1>1, <1>2 DEF Typed
    <3>2. backlog[i].id \in Conns /\ backlog[i].id <= nconn /\ told[backlog[i].id] = "nothing"
      BY <3>1, <1>1, <1>2 DEF Heard, Link
    <3>3. backlog[i].id # Call
      <4>1. nconn < Call /\ Call \in Nat /\ nconn \in Nat
        BY <1>1, <1>2, CallApart
      <4>. QED BY <3>2, <4>1 DEF Conns
    <3>4. told'[backlog[i].id] = told[backlog[i].id]
      BY <3>2, <3>3, <1>7
    <3>. QED BY <3>1, <3>2, <3>4, <1>1
  <2>. QED BY <1>1, <1>2, <1>3, <2>1, <2>2, <2>3, <2>5, <2>6 DEF Heard, Open
<1>. QED BY <1>8, <1>9, <1>10, <1>11, <1>12 DEF Keeps, Ever

-----------------------------------------------------------------------------
(* The invariant *)

\* The first state satisfies the invariant.
LEMMA InitGatewayIInv == Init => GatewayIInv
<1>. SUFFICES ASSUME Init PROVE GatewayIInv
  OBVIOUS
<1>1. Typed
  <2>1. pc \in [Threads -> AllPcs]
    BY DEF Init, AllPcs, NetPcs
  <2>2. sess \in [Sessions -> CSession]
    BY DEF Init, Freed, CSession
  <2>3. event \in Event /\ (event.hup => event.fd \in Fds)
    BY DEF Init, NoEvent, Event
  <2>4. accepted = << >> /\ handed = << >>
    BY DEF Init, Queue!Init
  <2>. QED BY <2>1, <2>2, <2>3, <2>4, GatewayAssumption
           DEF Typed, Init, NetPcs, TmrPcs, Threads, Words
<1>2. Counted
  BY GatewayAssumption DEF Counted, Init, Open
<1>3. LocksHeld
  BY DEF LocksHeld, Init, Threads, Removing
<1>4. OneEach /\ Tables
  BY DEF OneEach, Tables, Init, Freed, Hidden, Open, Threads
<1>5. InWork /\ TasksInUse /\ Linked
  BY DEF InWork, TasksInUse, Linked, Init, Works, Removing, Threads
<1>6. Heard
  BY DEF Heard, Init, Here, Open, Threads
<1>7. gone \in BOOLEAN /\ lost \in BOOLEAN /\ ~lost
  BY DEF Init
<1>. QED BY <1>1, <1>2, <1>3, <1>4, <1>5, <1>6, <1>7 DEF GatewayIInv, Ever

\* A step that changes nothing keeps everything.
LEMMA StutterKeeps == ASSUME Ever, UNCHANGED vars PROVE Keeps
<1>1. /\ backlog' = backlog /\ conn' = conn /\ nconn' = nconn /\ nsent' = nsent
      /\ netLock' = netLock /\ tmrLock' = tmrLock /\ task' = task /\ armed' = armed
      /\ fired' = fired /\ handles' = handles /\ sess' = sess /\ accepted' = accepted
      /\ handed' = handed /\ batch' = batch /\ event' = event /\ reads' = reads /\ pc' = pc
      /\ cls' = cls /\ told' = told /\ ncalls' = ncalls /\ newSock' = newSock
      /\ newTask' = newTask
  BY DEF vars, kernel, timers, channel, loop, outgoing
<1>2. Typed /\ Counted /\ LocksHeld /\ OneEach /\ InWork /\ TasksInUse /\ Heard
  BY DEF Ever
<1>3. Typed' /\ Counted' /\ LocksHeld' /\ InWork' /\ TasksInUse'
  BY <1>1, <1>2 DEF Typed, Counted, Open, LocksHeld, InWork, TasksInUse
<1>4. OneEach' /\ (Tables => Tables') /\ Heard'
  BY <1>1, StoryKept, HeardKept DEF Left, Leaving, Hidden
<1>5. Linked => Linked'
  BY <1>1 DEF Linked, Hidden
<1>. QED BY <1>3, <1>4, <1>5 DEF Keeps, Ever

\* Only RemoveFree writes to the two histories.
LEMMA HistoryWriter ==
  ASSUME [Next]_vars
  PROVE  (gone' = gone /\ lost' = lost) \/ \E t \in {Net, Tmr} : RemoveFree(t)
<1>0. ASSUME NEW t \in {Net, Tmr}, RemoveStep(t)
      PROVE  (gone' = gone /\ lost' = lost) \/ RemoveFree(t)
  BY <1>0 DEF RemoveStep, RemoveLock, RemoveClose, RemoveCancel, outgoing
<1>1. CASE NetStep
  <2>1. CASE NetPoll \/ NetLock \/ NetUnlock \/ NetDispatch \/ NetHup
    BY <2>1 DEF NetPoll, NetLock, NetUnlock, NetDispatch, NetHup, outgoing
  <2>2. CASE AcceptOne \/ AcceptNone \/ TimerSchedule
    BY <2>2 DEF AcceptOne, AcceptNone, TimerSchedule, outgoing
  <2>3. CASE ReadData \/ ReadTouch \/ ReadEnd \/ ReadStop
    BY <2>3 DEF ReadData, ReadTouch, ReadEnd, ReadStop, outgoing
  <2>. QED BY <1>0, <1>1, <2>1, <2>2, <2>3 DEF NetStep
<1>2. CASE TmrStep
  <2>1. CASE TimerLock \/ TimerFree \/ TimerUnlock \/ \E k \in Tasks : TimerFire(k)
    BY <2>1 DEF TimerLock, TimerFree, TimerUnlock, TimerFire, outgoing
  <2>. QED BY <1>0, <1>2, <2>1 DEF TmrStep
<1>3. CASE ConStep \/ PeerStep
  BY <1>3 DEF ConStep, ConsumerGet, ConsumerDeliver, PeerStep, PeerConnect, PeerSend, PeerEnd,
     outgoing
<1>4. CASE MainStep
  BY <1>4 DEF MainStep, ConnectServer, ConnectInsert, ConnectArm, ConnectNote
<1>5. CASE UNCHANGED vars
  BY <1>5 DEF vars, outgoing
<1>6. NetStep \/ TmrStep \/ ConStep \/ MainStep \/ PeerStep \/ UNCHANGED vars
  BY DEF Next
<1>. QED BY <1>1, <1>2, <1>3, <1>4, <1>5, <1>6

\* Every step keeps the three layers, but for one that frees connect_server's session.
LEMMA EveryStepKeeps ==
  ASSUME Ever, [Next]_vars
  PROVE  Keeps \/ \E t \in {Net, Tmr} : RemoveFree(t)
<1>1. ASSUME NEW t \in {Net, Tmr}, RemoveStep(t) PROVE Keeps \/ RemoveFree(t)
  BY <1>1, RemoveLockKeeps, RemoveCloseKeeps, RemoveCancelKeeps DEF RemoveStep
<1>2. CASE NetStep
  BY <1>1, <1>2, NetPollKeeps, NetLockKeeps, NetUnlockKeeps, NetDispatchKeeps, NetHupKeeps,
     AcceptOneKeeps, AcceptNoneKeeps, TimerScheduleKeeps, ReadDataKeeps, ReadTouchKeeps,
     ReadEndKeeps, ReadStopKeeps DEF NetStep
<1>3. CASE TmrStep
  BY <1>1, <1>3, TimerLockKeeps, TimerFireKeeps, TimerFreeKeeps, TimerUnlockKeeps DEF TmrStep
<1>4. CASE ConStep
  BY <1>4, ConsumerGetKeeps, ConsumerDeliverKeeps DEF ConStep
<1>5. CASE MainStep
  BY <1>5, ConnectServerKeeps, ConnectInsertKeeps, ConnectArmKeeps, ConnectNoteKeeps
     DEF MainStep
<1>6. CASE PeerStep
  BY <1>6, PeerConnectKeeps, PeerSendKeeps, PeerEndKeeps DEF PeerStep
<1>7. CASE UNCHANGED vars
  BY <1>7, StutterKeeps
<1>. QED BY <1>2, <1>3, <1>4, <1>5, <1>6, <1>7 DEF Next

\* Every step keeps the invariant: the one that frees connect_server's session notes it.
LEMMA NextGatewayIInv == GatewayIInv /\ [Next]_vars => GatewayIInv'
<1>. SUFFICES ASSUME GatewayIInv, [Next]_vars PROVE GatewayIInv'
  OBVIOUS
<1>1. gone \in BOOLEAN /\ lost \in BOOLEAN /\ (lost => gone) /\ Ever
  BY DEF GatewayIInv
<1>2. (~lost => Tables) /\ (~gone => Linked)
  BY DEF GatewayIInv
<1>3. ASSUME NEW t \in {Net, Tmr}, RemoveFree(t) PROVE GatewayIInv'
  <2>1. /\ gone' = (gone \/ cls[t] = cls[Main])
        /\ lost' = (lost \/ (pc[Main] = "insert" /\ cls[t] = cls[Main]))
    BY <1>3 DEF RemoveFree
  <2>2. gone' \in BOOLEAN /\ lost' \in BOOLEAN
    BY <2>1, Zenon
  <2>3. lost' => gone'
    BY <1>1, <2>1
  <2>4. ~lost' => ~lost /\ ~Hidden(cls[t])
    BY <2>1 DEF Hidden
  <2>5. ~gone' => ~gone /\ cls[t] # cls[Main]
    BY <2>1
  <2>. QED BY <1>1, <1>2, <1>3, <2>2, <2>3, <2>4, <2>5, RemoveFreeKeeps DEF GatewayIInv
<1>4. CASE Keeps /\ gone' = gone /\ lost' = lost
  BY <1>1, <1>2, <1>4, Zenon DEF GatewayIInv, Keeps
<1>. QED BY <1>1, <1>3, <1>4, EveryStepKeeps, HistoryWriter

\* The inductive invariant: types, locks, tables, timers and notices fit together
\* at every moment, as far as connect_server has not lost its session.
\* (core/network.c, core/session.c)
THEOREM GatewayInvariant == Spec => []GatewayIInv
<1>. QED BY InitGatewayIInv, NextGatewayIInv, PTL DEF Spec

-----------------------------------------------------------------------------
(* What it gives *)

\* Types, the depth of the two mutexes, and that no more is waiting on the
\* connections than the peers have sent.
THEOREM GatewayTypeCorrect == Spec => []TypeOK
<1>1. GatewayIInv => TypeOK
  <2>. SUFFICES ASSUME GatewayIInv PROVE TypeOK
    OBVIOUS
  <2>1. gone \in BOOLEAN /\ lost \in BOOLEAN /\ Typed /\ Counted /\ LocksHeld
    BY DEF GatewayIInv, Ever
  <2>2. backlog \in Seq(Connection)
    <3>1. backlog \in Seq(Link) /\ \A i \in 1 .. Len(backlog) : backlog[i] \in Link
      BY <2>1 DEF Typed
    <3>2. \A i \in 1 .. Len(backlog) : backlog[i] \in Connection
      BY <2>1, <3>1, GatewayAssumption DEF Counted, Link, Connection
    <3>. QED BY <3>1, <3>2
  <2>3. conn \in [Fds -> Connection \cup {Null}]
    <3>1. \A fd \in Fds : conn[fd] \in Connection \cup {Null}
      BY <2>1, GatewayAssumption DEF Typed, Counted, Link, Connection, Open
    <3>2. conn \in [Fds -> Link \cup {Null}]
      BY <2>1 DEF Typed
    <3>. QED BY <3>1, <3>2
  <2>4. netLock \in LockState({Net, Tmr}) /\ netLock.depth <= 2
    BY <2>1 DEF LocksHeld, LockState, Unlocked
  <2>5. tmrLock \in LockState({Tmr}) /\ tmrLock.depth <= 1
    BY <2>1 DEF LocksHeld, LockState, Unlocked
  <2>6. /\ pc \in [Threads -> Works \cup {"idle", "lock", "next", "hup", "accept", "scan",
                                           "fired", "deliver", "insert", "arm", "note",
                                           "undefined"}]
        /\ task \in [Tasks -> {Null} \cup [arg : Sessions, func : {"firstpack", "keepalive"}]]
    <3>1. AllPcs \subseteq Works \cup {"idle", "lock", "next", "hup", "accept", "scan", "fired",
                                       "deliver", "insert", "arm", "note", "undefined"}
      BY DEF AllPcs, NetPcs, TmrPcs, Works, Removing
    <3>2. pc \in [Threads -> AllPcs] /\ task \in [Tasks -> TimerTask \cup {Null}]
      BY <2>1 DEF Typed
    <3>. QED BY <3>1, <3>2 DEF TimerTask
  <2>. QED BY <2>1, <2>2, <2>3, <2>4, <2>5, <2>6 DEF TypeOK, Typed, Counted, CSession, Words
<1>. QED BY <1>1, GatewayInvariant, PTL

\* While the lock is free nobody is half way through a removal, so that
\* descriptors, _handleMap and sessions agree: always, unless a session was
\* removed before connect_server inserted it.
\* (accept_socket, remove_socket, connect_server)
THEOREM GatewayTablesAgree == Spec => []TablesAgree
<1>1. GatewayIInv => TablesAgree
  <2>. SUFFICES ASSUME GatewayIInv, netLock = Unlocked, ~lost PROVE TablesAgree
    BY DEF TablesAgree
  <2>1. Typed /\ LocksHeld /\ OneEach /\ InWork /\ Heard /\ Tables
    BY DEF GatewayIInv, Ever
  <2>2. \A s \in Sessions : ~Left(s)
    <3>1. pc[Net] \notin Removing /\ pc[Tmr] \notin Removing
      BY <2>1, Apart DEF LocksHeld, Unlocked, Removing
    <3>. QED BY <3>1, NobodyLeaves
  <2>3. \A s \in Sessions : sess[s].live => sess[s].sock \in Fds /\ Open(sess[s].sock)
    BY <2>1, <2>2 DEF OneEach
  \* The descriptor of the connection that is being made has no entry.
  <2>4. \A fd \in Fds : Open(fd) /\ Unwatched(fd) => handles[fd] = Null
    <3>. SUFFICES ASSUME NEW fd \in Fds, Open(fd), Unwatched(fd) PROVE handles[fd] = Null
      OBVIOUS
    <3>1. cls[Main] \in Sessions /\ Hidden(cls[Main]) /\ newSock \in Fds
      BY <2>1 DEF Unwatched, Hidden, Typed, InWork, Threads
    <3>2. /\ sess[cls[Main]].live /\ sess[cls[Main]].sock = newSock /\ conn[newSock].id = Call
          /\ handles[newSock] # Null => Left(handles[newSock])
      BY <2>1, <2>2, <3>1 DEF Tables
    <3>3. fd = newSock
      BY <2>1, <2>3, <3>1, <3>2 DEF Heard, Unwatched
    <3>. QED BY <2>1, <2>2, <3>2, <3>3 DEF Typed
  <2>5. ASSUME NEW fd \in Fds
        PROVE  /\ Open(fd) /\ ~Unwatched(fd) <=> handles[fd] # Null
               /\ handles[fd] # Null => sess[handles[fd]].live /\ sess[handles[fd]].sock = fd
    <3>1. handles[fd] # Null =>
            sess[handles[fd]].live /\ sess[handles[fd]].sock = fd /\ Open(fd)
      BY <2>1, <2>3 DEF Typed, Tables
    <3>2. Open(fd) => handles[fd] # Null \/ Unwatched(fd)
      <4>. SUFFICES ASSUME Open(fd), ~Unwatched(fd) PROVE handles[fd] # Null
        OBVIOUS
      <4>1. PICK s \in Sessions : sess[s].live /\ sess[s].sock = fd
        BY <2>1 DEF Tables
      <4>2. ~Hidden(s)
        BY <2>1, <2>2, <4>1 DEF Tables, Hidden, Unwatched
      <4>. QED BY <2>1, <4>1, <4>2, NullApart DEF Tables
    <3>. QED BY <2>4, <3>1, <3>2
  <2>6. ASSUME NEW s \in Sessions, sess[s].live
        PROVE  (\E fd \in Fds : handles[fd] = s) \/ Unwatched(sess[s].sock)
    <3>1. CASE Hidden(s)
      BY <2>1, <2>2, <3>1 DEF Tables, Hidden, Unwatched
    <3>2. CASE ~Hidden(s)
      BY <2>1, <2>3, <2>6, <3>2 DEF Tables
    <3>. QED BY <3>1, <3>2
  <2>. QED BY <2>5, <2>6 DEF TablesAgree
<1>. QED BY <1>1, GatewayInvariant, PTL

\* Neither thread works on a freed session, and no first-pack timer is left for
\* one.  (remove_socket, session_firstpack_callback)
THEOREM GatewayNoDangling == Spec => []NoDangling
<1>1. GatewayIInv => NoDangling
  <2>. SUFFICES ASSUME Typed, Linked
                PROVE  /\ \A t \in {Net, Tmr} : pc[t] \in Works => sess[cls[t]].live
                       /\ \A k \in armed : task[k].func = "firstpack" => sess[task[k].arg].live
    BY DEF GatewayIInv, Ever, NoDangling
  <2>1. pc[Tmr] \in Works => pc[Tmr] \in {"remove"} \cup Removing
    BY DEF Typed, TmrPcs, Works, Removing
  <2>. QED BY <2>1 DEF Linked
<1>. QED BY <1>1, GatewayInvariant, PTL

\* Lua counts as connected exactly the connections that are open, whatever has
\* become of connect_server's.  (onNetworkAccept, onNetworkError, connect_server)
THEOREM GatewayLuaKnows == Spec => []LuaKnowsWhoIsHere
<1>1. ASSUME Ever PROVE LuaKnowsWhoIsHere
  <2> DEFINE here == {conn[fd].id : fd \in {f \in Fds : Open(f)}}
             made == IF pc[Main] = "idle" THEN {} ELSE {Call}
  <2>1. Typed /\ Heard
    BY <1>1 DEF Ever
  <2>2. \A fd \in Fds : Open(fd) => conn[fd].id \in Conns
    BY <2>1 DEF Typed, Open, Link
  <2>3. \A c : c \in here <=> c \in Conns /\ Here(c)
    BY <2>2 DEF Here
  <2>4. \A c \in Conns : c \in made <=> Calling(c)
    BY DEF Calling
  <2>5. \A c \in Conns : told[c] = "accepted" <=> Here(c) /\ ~Calling(c)
    BY <2>1 DEF Heard
  <2>6. {c \in Conns : told[c] = "accepted"} = here \ made
    <3>. HIDE DEF here, made
    <3>. QED BY <2>3, <2>4, <2>5
  <2>. QED BY <2>6 DEF LuaKnowsWhoIsHere
<1>2. GatewayIInv => LuaKnowsWhoIsHere
  BY <1>1 DEF GatewayIInv
<1>. QED BY <1>2, GatewayInvariant, PTL

\* Only three actions tell Lua anything, each the next thing it has to hear.
LEMMA NoticeFollows == ASSUME Ever, [Next]_vars PROVE Notices
<1>1. Typed /\ OneEach /\ Heard /\ told \in [Conns -> Words]
  BY DEF Ever, Typed
<1>2. CASE told' = told
  BY <1>2 DEF Notices
<1>3. CASE AcceptOne
  <2>1. backlog # << >> /\ told' = [told EXCEPT ![Head(backlog).id] = "accepted"]
    BY <1>3 DEF AcceptOne
  <2>2. backlog \in Seq(Link) /\ Head(backlog) = backlog[1] /\ 1 \in 1 .. Len(backlog)
    BY <2>1, <1>1 DEF Typed
  <2>3. told[Head(backlog).id] = "nothing"
    BY <2>2, <1>1 DEF Heard
  <2>. QED BY <2>1, <2>3, <1>1 DEF Notices
<1>4. ASSUME NEW t \in {Net, Tmr}, RemoveClose(t) PROVE Notices
  <2> DEFINE fd == sess[cls[t]].sock  c == conn[fd].id
  <2>1. pc[t] = "close" /\ told' = [told EXCEPT ![c] = "error"]
    BY <1>4 DEF RemoveClose
  <2>2. cls[t] \in Sessions /\ sess[cls[t]].live /\ fd \in Fds /\ ~Left(cls[t])
    BY <2>1, RemoverOwns DEF Removing
  <2>3. conn[fd] # Null /\ c \in Conns
    BY <2>2, <1>1 DEF Typed, OneEach, Open, Link
  <2>4. told[c] = "accepted" \/ (told[c] = "nothing" /\ c \in Outgoing)
    <3>1. Here(c)
      BY <2>2, <2>3 DEF Here, Open
    <3>2. Calling(c) => c \in Outgoing
      BY <1>1, CallApart DEF Calling
    <3>. QED BY <2>3, <3>1, <3>2, <1>1 DEF Heard
  <2>. HIDE DEF c
  <2>. QED BY <2>1, <2>3, <2>4, <1>1 DEF Notices
<1>5. CASE ConnectNote
  <2>1. /\ pc[Main] = "note"
        /\ told' = [told EXCEPT ![Call] = IF told[Call] = "nothing" THEN "accepted" ELSE "stale"]
    BY <1>5 DEF ConnectNote
  <2>2. told[Call] \in {"nothing", "error"} /\ Call \in Outgoing
    BY <2>1, <1>1, CallApart DEF Heard
  <2>. QED BY <2>1, <2>2, <1>1 DEF Notices
<1>6. CASE NetStep
  <2>1. CASE NetPoll \/ NetLock \/ NetUnlock \/ NetDispatch \/ NetHup
    BY <2>1, <1>2 DEF NetPoll, NetLock, NetUnlock, NetDispatch, NetHup
  <2>2. CASE AcceptNone \/ TimerSchedule \/ ReadData \/ ReadTouch \/ ReadEnd \/ ReadStop
    BY <2>2, <1>2 DEF AcceptNone, TimerSchedule, ReadData, ReadTouch, ReadEnd, ReadStop
  <2>3. CASE RemoveLock(Net) \/ RemoveCancel(Net) \/ RemoveFree(Net)
    BY <2>3, <1>2 DEF RemoveLock, RemoveCancel, RemoveFree
  <2>. QED BY <1>3, <1>4, <1>6, <2>1, <2>2, <2>3 DEF NetStep, RemoveStep
<1>7. CASE TmrStep
  <2>1. told' = told \/ RemoveClose(Tmr)
    BY <1>7 DEF TmrStep, TimerLock, TimerFree, TimerUnlock, TimerFire, RemoveStep, RemoveLock,
       RemoveCancel, RemoveFree
  <2>. QED BY <2>1, <1>2, <1>4
<1>8. CASE ConStep \/ PeerStep
  <2>1. told' = told
    BY <1>8 DEF ConStep, ConsumerGet, ConsumerDeliver, PeerStep, PeerConnect, PeerSend, PeerEnd
  <2>. QED BY <2>1, <1>2
<1>9. CASE MainStep
  <2>1. told' = told \/ ConnectNote
    BY <1>9 DEF MainStep, ConnectServer, ConnectInsert, ConnectArm
  <2>. QED BY <2>1, <1>2, <1>5
<1>10. CASE UNCHANGED vars
  <2>1. told' = told
    BY <1>10 DEF vars
  <2>. QED BY <2>1, <1>2
<1>. QED BY <1>6, <1>7, <1>8, <1>9, <1>10 DEF Next

\* Lua hears of each connection in order: accepted, then ended; an end first only
\* of a connection it makes itself.  (onNetworkAccept, onNetworkError)
THEOREM GatewayNotices == Spec => NoticesInOrder
<1>1. GatewayIInv /\ [Next]_vars => [Notices]_vars
  BY NoticeFollows DEF GatewayIInv
<1>. QED BY <1>1, GatewayInvariant, PTL DEF Spec, NoticesInOrder

=============================================================================
