----------------------------- MODULE MysqlPool -----------------------------
(***************************************************************************)
(* database/mysqlconn.c and its use by scripts (tolua/mysqltolua.c): the   *)
(* threads that run scripts take a connection for a query and keep it, in  *)
(* a result, until its last row has been fetched or it is collected.       *)
(*                                                                         *)
(* The server may refuse a connection and fail a query at any time.        *)
(***************************************************************************)
EXTENDS Integers, Sequences, FiniteSetsExt

CONSTANTS
  Scripts,   \* the threads that run scripts
  Results,   \* bound: the results there are at a time
  Conns,     \* bound: the addresses of connections
  None,      \* NULL
  PoolSize, Timeout   \* what a script passes to mysql.init_pool, besides the largest size

ASSUME MysqlAssumption ==
  /\ Scripts \cap Results = {} /\ None \notin Conns
  /\ PoolSize \in Nat /\ Timeout \in Nat

VARIABLES
  opened,      \* g_conn_pool is there
  connections, \* its slots
  max_size,
  alive,       \* the connections that are open
  mpc,         \* where each thread is
  using,       \* its slot, when it has one, and then its connection
  res,         \* per result: its connection
  undone       \* history: the program has run into undefined behaviour

mysqlVars == <<opened, connections, max_size, alive, mpc, using, res, undone>>

Slots == DOMAIN connections
Nothing == [slot |-> 0, conn |-> None]
Slot(c, in_use) == [conn |-> c, in_use |-> in_use]

MysqlInit ==
  /\ opened = FALSE /\ connections = << >> /\ max_size = 0 /\ alive = {}
  /\ mpc = [t \in Scripts |-> "idle"]
  /\ using = [t \in Scripts |-> Nothing]
  /\ res = [r \in Results |-> None]
  /\ undone = FALSE

-----------------------------------------------------------------------------
(* init_connection_pool.  lua_mysql_init_pool passes the largest size where  *)
(* the timeout is expected, and the timeout for the largest size.  A slot    *)
(* whose connection was refused stays empty, and is lent like the others.    *)
(* It is one step: the code shows the pool before its lock and its slots are *)
(* ready, and looks for another pool before it does so, without a lock.  The *)
(* model has one script, which opens the pool while no other uses it.        *)

InitPool ==
  /\ ~undone /\ ~opened
  /\ \E c \in [1 .. PoolSize -> (Conns \ alive) \cup {None}] :
       /\ \A i, j \in 1 .. PoolSize : i # j /\ c[i] # None => c[i] # c[j]
       /\ connections' = [i \in 1 .. PoolSize |-> Slot(c[i], FALSE)]
       /\ alive' = alive \cup {c[i] : i \in {j \in 1 .. PoolSize : c[j] # None}}
  /\ opened' = TRUE
  /\ max_size' = Timeout
  /\ UNCHANGED <<mpc, using, res, undone>>

-----------------------------------------------------------------------------
(* get_connection_from_pool *)

\* The check that there is a pool, in front of the lock.
Ask(t) ==
  /\ ~undone /\ mpc[t] = "idle" /\ opened
  /\ mpc' = [mpc EXCEPT ![t] = "asked"]
  /\ UNCHANGED <<opened, connections, max_size, alive, using, res, undone>>

Idle(i) == i \in Slots /\ ~connections[i].in_use
FirstIdle(i) == Idle(i) /\ \A j \in 1 .. i - 1 : ~Idle(j)

\* Faulty variant: the slot is not marked.
TakeSlotUnmarked(t, i) ==
  /\ ~undone /\ mpc[t] = "asked" /\ FirstIdle(i)
  /\ undone' = (connections[i].conn = None)
  /\ mpc' = [mpc EXCEPT ![t] = "took"]
  /\ using' = [using EXCEPT ![t].slot = i]
  /\ UNCHANGED <<opened, connections, max_size, alive, res>>

\* The first idle slot.  An empty one was never used, so that its timeout has
\* passed, and mysql_ping gets NULL.
TakeSlot(t, i) ==
  /\ ~undone /\ mpc[t] = "asked" /\ FirstIdle(i)
  /\ undone' = (connections[i].conn = None)
  /\ connections' = [connections EXCEPT ![i].in_use = TRUE]
  /\ mpc' = [mpc EXCEPT ![t] = "took"]
  /\ using' = [using EXCEPT ![t].slot = i]
  /\ UNCHANGED <<opened, max_size, alive, res>>

\* The connection is read from the slot after the lock was released.
ReadSlot(t) ==
  /\ ~undone /\ mpc[t] = "took"
  /\ using' = [using EXCEPT ![t].conn = connections[using[t].slot].conn]
  /\ mpc' = [mpc EXCEPT ![t] = "query"]
  /\ UNCHANGED <<opened, connections, max_size, alive, res, undone>>

\* No slot is idle: one more.  Another thread that has its slot, but not yet the
\* connection in it, may look for it where the slots were before realloc.
Grow(t, c) ==
  /\ ~undone /\ mpc[t] = "asked"
  /\ \A i \in Slots : ~Idle(i)
  /\ Len(connections) < max_size /\ c \notin alive
  /\ connections' = Append(connections, Slot(c, TRUE))
  /\ alive' = alive \cup {c}
  /\ undone' = (\E u \in Scripts : mpc[u] = "took")
  /\ using' = [using EXCEPT ![t].conn = c]
  /\ mpc' = [mpc EXCEPT ![t] = "query"]
  /\ UNCHANGED <<opened, max_size, res>>

\* No slot is idle and there may be no more of them, or the server refuses the
\* connection: lua_mysql_query returns nil.
Refused(t) ==
  /\ ~undone /\ mpc[t] = "asked"
  /\ \A i \in Slots : ~Idle(i)
  /\ mpc' = [mpc EXCEPT ![t] = "idle"]
  /\ UNCHANGED <<opened, connections, max_size, alive, using, res, undone>>

-----------------------------------------------------------------------------
(* lua_mysql_query *)

\* Faulty variant: it is found by the number of the slot, from 1 to size - 1.
ReleasedButLast(c) ==
  [i \in Slots |-> IF connections[i].conn = c /\ i < Len(connections) THEN Slot(c, FALSE)
                   ELSE connections[i]]

\* release_connection_to_pool
Released(c) ==
  [i \in Slots |-> IF connections[i].conn = c THEN Slot(c, FALSE) ELSE connections[i]]

\* The query fails or has no rows: the connection is given back...
QueryDone(t) ==
  /\ ~undone /\ mpc[t] = "query"
  /\ connections' = Released(using[t].conn)
  /\ mpc' = [mpc EXCEPT ![t] = "report"]
  /\ UNCHANGED <<opened, max_size, alive, using, res, undone>>

\* ... and then asked for its error or for the rows affected, though it may be
\* somebody else's by then.
Report(t) ==
  /\ ~undone /\ mpc[t] = "report"
  /\ using' = [using EXCEPT ![t] = Nothing]
  /\ mpc' = [mpc EXCEPT ![t] = "idle"]
  /\ UNCHANGED <<opened, connections, max_size, alive, res, undone>>

\* The query has rows: the result keeps the connection.
QueryRows(t, r) ==
  /\ ~undone /\ mpc[t] = "query" /\ res[r] = None
  /\ res' = [res EXCEPT ![r] = using[t].conn]
  /\ using' = [using EXCEPT ![t] = Nothing]
  /\ mpc' = [mpc EXCEPT ![t] = "idle"]
  /\ UNCHANGED <<opened, connections, max_size, alive, undone>>

\* The last row has been fetched (lua_mysql_result_fetch), or the result is
\* collected before (lua_mysql_result_gc).
EndResult(r) ==
  /\ ~undone /\ res[r] # None
  /\ connections' = Released(res[r])
  /\ res' = [res EXCEPT ![r] = None]
  /\ UNCHANGED <<opened, max_size, alive, mpc, using, undone>>

\* destoty_connection_pool, which waits for nobody.
ClosePool ==
  /\ ~undone /\ opened
  /\ opened' = FALSE
  /\ alive' = alive \ {connections[i].conn : i \in Slots}
  /\ connections' = << >>
  /\ undone' = ((\E t \in Scripts : mpc[t] # "idle") \/ (\E r \in Results : res[r] # None))
  /\ UNCHANGED <<max_size, mpc, using, res>>

MysqlNext ==
  \/ InitPool \/ ClosePool
  \/ \E t \in Scripts :
       \/ Ask(t) \/ ReadSlot(t) \/ Refused(t) \/ QueryDone(t) \/ Report(t)
       \/ \E i \in Slots : TakeSlot(t, i)
       \/ \E c \in Conns : Grow(t, c)
       \/ \E r \in Results : QueryRows(t, r)
  \/ \E r \in Results : EndResult(r)

MysqlSpec == MysqlInit /\ [][MysqlNext]_mysqlVars

-----------------------------------------------------------------------------
(* Properties *)

Holders == Scripts \cup Results

\* The connection a thread or a result may use, or None.
Holding(h) ==
  IF h \in Results THEN res[h]
  ELSE IF mpc[h] = "took" THEN connections[using[h].slot].conn
  ELSE IF mpc[h] = "query" THEN using[h].conn ELSE None

\* A connection is lent to one query or one result at a time, and it is open -
\* as long as the program is in a defined state: no slot without a connection was
\* lent, no thread was between the unlock and its look into a slot when the slots
\* moved, and the pool was not closed while something of it was lent.
\* (get_connection_from_pool, release_connection_to_pool)
LentOnce ==
  ~undone =>
    \A h \in Holders : Holding(h) # None =>
      /\ Holding(h) \in alive
      /\ \A g \in Holders : g # h => Holding(g) # Holding(h)

\* In a defined state a slot is marked as in use exactly as long as somebody holds
\* its connection, so that none is lost to the pool; the open connections are
\* those of the slots, each of one.  (release_connection_to_pool)
SlotsComeBack ==
  ~undone =>
    /\ \A i \in Slots : connections[i].in_use <=>
         connections[i].conn # None /\ \E h \in Holders : Holding(h) = connections[i].conn
    /\ alive = {connections[i].conn : i \in Slots} \ {None}
    /\ \A i, j \in Slots : i # j /\ connections[i].conn = connections[j].conn =>
         connections[i].conn = None

=============================================================================
