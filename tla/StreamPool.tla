----------------------------- MODULE StreamPool -----------------------------
(***************************************************************************)
(* objectpool/objectpool.c and the two halves of its use: C code obtains a *)
(* byte stream, fills it and gives it back, and scripts hold streams in    *)
(* userdata that Lua's collector finalises (objectpooltolua.c,             *)
(* bytestreamtolua.c).  The consumer hands its stream to a script while it *)
(* still owns it (lua_call_mg).                                            *)
(*                                                                         *)
(* Of what a stream holds the model keeps who put it there.  malloc gives  *)
(* the least free address and does not fail.                               *)
(***************************************************************************)
EXTENDS Integers, SequencesExt, FiniteSetsExt

CONSTANTS
  Borrowers,  \* the C threads: the consumer, and those that send
  Consumer,   \* netmsgqueue_thread_run
  Handles,    \* bound: the userdata there are at a time
  MaxStreams, \* bound: the streams in memory
  Initial,    \* the capacity init_bytestream_pool is given, 32 in server.c
  MaxData     \* bound: what a stream holds before a script adds to it

ASSUME StreamPoolAssumption ==
  /\ Consumer \in Borrowers
  /\ MaxStreams \in Nat /\ Initial \in Nat \ {0} /\ MaxData \in Nat

VARIABLES
  mem,       \* per address: the stream there
  pool,      \* bufferpool: pool[0 .. index - 1]
  capacity,
  handle,    \* per userdata: the address in it, 0 when there is none
  lent,      \* the userdata lua_call_mg has made
  bpc, mine, \* where each borrower is, and its stream
  strayed,   \* history: a script has done what nothing keeps it from
  twice      \* history: an address has been freed that was free

poolVars == <<mem, pool, capacity, handle, lent, bpc, mine, strayed, twice>>

Address == 1 .. MaxStreams
Script == "script"
Stream(readOnly, data) == [live |-> TRUE, readOnly |-> readOnly, data |-> data]
Freed == [live |-> FALSE, readOnly |-> FALSE, data |-> << >>]

PoolInit ==
  /\ mem = [s \in Address |-> Freed]
  /\ pool = << >> /\ capacity = Initial
  /\ handle = [h \in Handles |-> 0] /\ lent = {}
  /\ bpc = [t \in Borrowers |-> "idle"] /\ mine = [t \in Borrowers |-> 0]
  /\ strayed = FALSE /\ twice = FALSE

-----------------------------------------------------------------------------
\* What follows the first thing a script should not have done is left out, and so
\* is what follows a double free.
Careful == ~strayed /\ ~twice

Free == {s \in Address : ~mem[s].live}
CanCreate == Free # {}

\* bytestream_append, which does nothing to a stream that is read only.
Filled(s, who) == IF s.readOnly THEN s ELSE [s EXCEPT !.data = Append(@, who)]

\* bytestream_clear, which does nothing to one either.
Cleared(s) == IF s.readOnly THEN s ELSE [s EXCEPT !.data = << >>]

\* Faulty variant: the stream stays in the pool.
AcquiredAndKept(s) ==
  /\ pool # << >> /\ s = Last(pool)
  /\ UNCHANGED <<mem, pool>>

\* obtain_bytestream returns s: the one given back last, or a new one.
Acquired(s) ==
  IF pool # << >>
  THEN s = Last(pool) /\ pool' = Front(pool) /\ UNCHANGED mem
  ELSE CanCreate /\ s = Min(Free) /\ mem' = [mem EXCEPT ![s] = Stream(FALSE, << >>)] /\ UNCHANGED pool

\* Faulty variant: the stream is not reset.
ReturnedAsItIs(s) ==
  /\ pool' = Append(pool, s)
  /\ capacity' = IF Len(pool) >= capacity THEN 2 * capacity ELSE capacity
  /\ UNCHANGED mem

\* giveup_bytestream: objectpool_release, with bytestream_clear before the lock.
Returned(s) ==
  /\ mem' = [mem EXCEPT ![s] = Cleared(@)]
  /\ pool' = Append(pool, s)
  /\ capacity' = IF Len(pool) >= capacity THEN 2 * capacity ELSE capacity

-----------------------------------------------------------------------------
(* C code: netmsgqueue_thread_run, socket_send_data *)

BGoto(t, l) == bpc' = [bpc EXCEPT ![t] = l]

BObtain(t) ==
  /\ Careful /\ bpc[t] = "idle"
  /\ \E s \in Address : Acquired(s) /\ mine' = [mine EXCEPT ![t] = s]
  /\ BGoto(t, "append")
  /\ UNCHANGED <<capacity, handle, lent, strayed, twice>>

\* bytestream_append, whose result nobody looks at.
BAppend(t) ==
  /\ bpc[t] = "append"
  /\ mem' = [mem EXCEPT ![mine[t]] = Filled(@, t)]
  /\ BGoto(t, "use")
  /\ UNCHANGED <<pool, capacity, handle, lent, mine, strayed, twice>>

\* socket_data sends what is in the stream...
BSend(t) ==
  /\ t # Consumer /\ bpc[t] = "use"
  /\ BGoto(t, "giveup")
  /\ UNCHANGED <<mem, pool, capacity, handle, lent, mine, strayed, twice>>

\* ... and lua_call_mg gives a script a userdata with its address, and calls it.
BCall ==
  /\ bpc[Consumer] = "use"
  /\ \E h \in Handles :
       /\ handle[h] = 0
       /\ handle' = [handle EXCEPT ![h] = mine[Consumer]]
       /\ lent' = lent \cup {h}
  /\ BGoto(Consumer, "call")
  /\ UNCHANGED <<mem, pool, capacity, mine, strayed, twice>>

BReturn ==
  /\ bpc[Consumer] = "call"
  /\ BGoto(Consumer, "giveup")
  /\ UNCHANGED <<mem, pool, capacity, handle, lent, mine, strayed, twice>>

BGiveup(t) ==
  /\ bpc[t] = "giveup"
  /\ Returned(mine[t])
  /\ mine' = [mine EXCEPT ![t] = 0]
  /\ BGoto(t, "idle")
  /\ UNCHANGED <<handle, lent, strayed, twice>>

-----------------------------------------------------------------------------
(* Scripts *)

\* objectpool.obtain_bytestream
ScriptObtain(h) ==
  /\ Careful /\ handle[h] = 0
  /\ \E s \in Address : Acquired(s) /\ handle' = [handle EXCEPT ![h] = s]
  /\ UNCHANGED <<capacity, lent, bpc, mine, strayed, twice>>

\* bytestream.create, and bytestream.createfrombuffer, whose stream is read only.
ScriptCreate(h, readOnly) ==
  /\ Careful /\ handle[h] = 0 /\ CanCreate
  /\ handle' = [handle EXCEPT ![h] = Min(Free)]
  /\ mem' = [mem EXCEPT ![Min(Free)] = Stream(readOnly, IF readOnly THEN <<Script>> ELSE << >>)]
  /\ UNCHANGED <<pool, capacity, lent, bpc, mine, strayed, twice>>

\* A script writes into its stream; or into that of a message whose call is over.
ScriptWrite(h) ==
  /\ Careful /\ handle[h] # 0
  /\ Len(mem[handle[h]].data) < MaxData
  /\ mem' = [mem EXCEPT ![handle[h]] = Filled(@, Script)]
  /\ strayed' = (h \in lent /\ ~(bpc[Consumer] = "call" /\ handle[h] = mine[Consumer]))
  /\ UNCHANGED <<pool, capacity, handle, lent, bpc, mine, twice>>

\* objectpool.giveup_bytestream: of its own stream; of one that is read only,
\* which the pool takes too; or of a message's, which the consumer gives back.
ScriptGiveup(h) ==
  /\ Careful /\ handle[h] # 0
  /\ Returned(handle[h])
  /\ handle' = [handle EXCEPT ![h] = 0]
  /\ lent' = lent \ {h}
  /\ strayed' = (h \in lent \/ mem[handle[h]].readOnly)
  /\ UNCHANGED <<bpc, mine, twice>>

\* Lua collects a userdata no script refers to: lua_bytestream_gc destroys the
\* stream, which frees it, and frees it.
Collect(h) ==
  /\ Careful /\ handle[h] # 0
  /\ ~(h \in lent /\ bpc[Consumer] = "call" /\ handle[h] = mine[Consumer])
  /\ mem' = [mem EXCEPT ![handle[h]] = Freed]
  /\ handle' = [handle EXCEPT ![h] = 0]
  /\ lent' = lent \ {h}
  /\ twice' = TRUE
  /\ UNCHANGED <<pool, capacity, bpc, mine, strayed>>

PoolNext ==
  \/ \E t \in Borrowers : BObtain(t) \/ BAppend(t) \/ BSend(t) \/ BGiveup(t)
  \/ BCall \/ BReturn
  \/ \E h \in Handles :
       \/ ScriptObtain(h) \/ ScriptWrite(h) \/ ScriptGiveup(h) \/ Collect(h)
       \/ \E readOnly \in BOOLEAN : ScriptCreate(h, readOnly)

PoolSpec == PoolInit /\ [][PoolNext]_poolVars

-----------------------------------------------------------------------------
(* Properties *)

PoolTypeOK ==
  /\ mem \in [Address -> [live : BOOLEAN, readOnly : BOOLEAN, data : Seq(Borrowers \cup {Script})]]
  /\ pool \in Seq(Address) /\ Len(pool) <= capacity
  /\ handle \in [Handles -> Address \cup {0}] /\ lent \subseteq Handles
  /\ bpc \in [Borrowers -> {"idle", "append", "use", "call", "giveup"}]
  /\ mine \in [Borrowers -> Address \cup {0}]

\* What is sent, or handed to a script, are the bytes the C code put into its
\* stream and nothing else, and a stream is in the pool once, or borrowed by one,
\* or in one script's hands - as long as scripts neither give back nor write to
\* what is not theirs, nor give back a stream that is read only, and no userdata
\* has been collected.  (objectpool_acquire, objectpool_release)
OwnBytesOnly ==
  Careful =>
    /\ PoolTypeOK
    /\ IsInjective(pool)
    /\ \A t \in Borrowers : bpc[t] # "idle" =>
         /\ ~Contains(pool, mine[t])
         /\ \A u \in Borrowers \ {t} : mine[u] # mine[t]
         /\ bpc[t] = "append" => mem[mine[t]].data = << >>
         /\ bpc[t] = "use" => mem[mine[t]].data = <<t>>
    /\ \A h \in Handles \ lent : handle[h] # 0 =>
         /\ ~Contains(pool, handle[h])
         /\ \A t \in Borrowers : mine[t] # handle[h]
         /\ \A g \in Handles \ (lent \cup {h}) : handle[g] # handle[h]

\* lua_bytestream_gc frees what the stream holds and the stream, each once.
FreedOnce == ~twice

=============================================================================
