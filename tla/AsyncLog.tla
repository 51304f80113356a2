------------------------------ MODULE AsyncLog ------------------------------
(***************************************************************************)
(* logger/elog_async.c: the ring buffer between the threads that log       *)
(* (Loggers) and the thread that writes the log, async_output, and the     *)
(* semaphore that wakes the writer.  The bytes of the log are the numbers  *)
(* 1, 2, 3, ... in the order in which the ring takes them in, so that a    *)
(* byte that is lost, repeated or out of place can be told.                *)
(*                                                                         *)
(* A line of a level below ELOG_LVL_DEBUG is written by the thread that    *)
(* logs it and never gets here.                                            *)
(***************************************************************************)
EXTENDS Integers

CONSTANTS
  Loggers,    \* the threads that log
  NoLogger,     \* not a thread
  Size,       \* OUTPUT_BUF_SIZE
  PollSize,   \* ELOG_ASYNC_POLL_GET_LOG_BUF_SIZE
  Lengths,    \* bound: the lengths of the lines
  MaxBytes    \* bound: no line is logged when so many bytes have been taken in

ASSUME LogAssumption ==
  /\ NoLogger \notin Loggers
  /\ Size \in Nat \ {0} /\ PollSize \in Nat \ {0}
  /\ Lengths \subseteq Nat \ {0}
  /\ MaxBytes \in Nat

VARIABLES
  ring,        \* log_buf
  write_index, read_index, buf_is_full, buf_is_empty,
  notice,      \* the value of the semaphore output_notice
  logging,     \* the logging thread that holds the output lock, or NoLogger
  pc,          \* where the writer is
  polled,      \* how many bytes poll_get_buf holds
  poll_get_buf,
  put, got, written  \* histories: how many bytes went in, came out, were written

flags == <<buf_is_full, buf_is_empty>>
vars == <<ring, write_index, read_index, flags, notice, logging, pc, polled,
          poll_get_buf, put, got, written>>

Init ==
  /\ ring = [i \in 0 .. Size - 1 |-> 0]
  /\ write_index = 0 /\ read_index = 0
  /\ buf_is_full = FALSE /\ buf_is_empty = TRUE
  /\ notice = 0 /\ logging = NoLogger
  /\ pc = "wait" /\ polled = 0 /\ poll_get_buf = [i \in 1 .. PollSize |-> 0]
  /\ put = 0 /\ got = 0 /\ written = 0

-----------------------------------------------------------------------------
\* elog_async_get_buf_used
Used ==
  IF write_index > read_index THEN write_index - read_index
  ELSE IF ~buf_is_full /\ ~buf_is_empty THEN Size - (read_index - write_index)
  ELSE IF buf_is_full THEN Size
  ELSE 0

\* async_get_buf_space
Space == Size - Used

\* Faulty variant: an index may stand behind the end of the buffer.
AdvancedTooFar(index, n) == IF index + n <= Size THEN index + n ELSE index + n - Size

\* Where an index gets when n bytes are copied from or to there on.
Advanced(index, n) == IF index + n < Size THEN index + n ELSE index + n - Size

\* How far i is behind the index, going around the buffer.
Offset(index, i) == IF i >= index THEN i - index ELSE i + Size - index

\* Faulty variant: a line is taken in whole, whatever the space.
LogOverrun(t, n) ==
  /\ logging = NoLogger
  /\ put < MaxBytes
  /\ Space > 0
  /\ ring' = [i \in 0 .. Size - 1 |->
                IF Offset(write_index, i) < n
                THEN put + 1 + Offset(write_index, i) ELSE ring[i]]
  /\ write_index' = Advanced(write_index, n) % Size
  /\ put' = put + n
  /\ buf_is_full' = (buf_is_full \/ Space <= n)
  /\ buf_is_empty' = FALSE
  /\ logging' = t
  /\ UNCHANGED <<read_index, notice, pc, polled, poll_get_buf, got, written>>

\* elog_async_output, and async_put_log, under the output lock: a line of n
\* bytes, of which those beyond the space are dropped.  (With no space at all
\* the line is dropped and nothing changes.)
Log(t, n) ==
  /\ logging = NoLogger
  /\ put < MaxBytes
  /\ Space > 0
  /\ LET m == IF Space <= n THEN Space ELSE n IN
       /\ ring' = [i \in 0 .. Size - 1 |->
                     IF Offset(write_index, i) < m
                     THEN put + 1 + Offset(write_index, i) ELSE ring[i]]
       /\ write_index' = Advanced(write_index, m)
       /\ put' = put + m
  /\ buf_is_full' = (buf_is_full \/ Space <= n)
  /\ buf_is_empty' = FALSE
  /\ logging' = t
  /\ UNCHANGED <<read_index, notice, pc, polled, poll_get_buf, got, written>>

\* elog_async_output_notice; the lock is released.
Notice ==
  /\ logging # NoLogger
  /\ notice' = notice + 1
  /\ logging' = NoLogger
  /\ UNCHANGED <<ring, write_index, read_index, flags, pc, polled, poll_get_buf, put, got, written>>

-----------------------------------------------------------------------------
(* async_output *)

Wait ==
  /\ pc = "wait" /\ notice > 0
  /\ notice' = notice - 1
  /\ pc' = "get"
  /\ UNCHANGED <<ring, write_index, read_index, flags, logging, polled, poll_get_buf, put, got, written>>

\* Faulty variant: the last byte taken out does not make the buffer empty.
GetNeverEmpty ==
  /\ pc = "get" /\ logging = NoLogger
  /\ Used > 0
  /\ LET m == IF Used <= PollSize THEN Used ELSE PollSize IN
       /\ poll_get_buf' = [i \in 1 .. PollSize |->
                             IF i <= m THEN ring[Advanced(read_index, i - 1)] ELSE poll_get_buf[i]]
       /\ polled' = m
       /\ read_index' = Advanced(read_index, m)
       /\ got' = got + m
  /\ buf_is_empty' = (buf_is_empty \/ Used < PollSize)
  /\ buf_is_full' = FALSE
  /\ pc' = "write"
  /\ UNCHANGED <<ring, write_index, notice, logging, put, written>>

\* elog_async_get_log, under the output lock.
Get ==
  /\ pc = "get" /\ logging = NoLogger
  /\ Used > 0
  /\ LET m == IF Used <= PollSize THEN Used ELSE PollSize IN
       /\ poll_get_buf' = [i \in 1 .. PollSize |->
                             IF i <= m THEN ring[Advanced(read_index, i - 1)] ELSE poll_get_buf[i]]
       /\ polled' = m
       /\ read_index' = Advanced(read_index, m)
       /\ got' = got + m
  /\ buf_is_empty' = (buf_is_empty \/ Used <= PollSize)
  /\ buf_is_full' = FALSE
  /\ pc' = "write"
  /\ UNCHANGED <<ring, write_index, notice, logging, put, written>>

\* elog_async_get_log finds nothing: wait for the next notice.
GetNothing ==
  /\ pc = "get" /\ logging = NoLogger
  /\ Used = 0
  /\ pc' = "wait"
  /\ UNCHANGED <<ring, write_index, read_index, flags, notice, logging, polled, poll_get_buf, put, got, written>>

\* Faulty variant: the writer waits again after one read.
WriteOnce ==
  /\ pc = "write"
  /\ written' = written + polled
  /\ polled' = 0
  /\ pc' = "wait"
  /\ UNCHANGED <<ring, write_index, read_index, flags, notice, logging, poll_get_buf, put, got>>

\* elog_port_output, without the lock; then look for more.
Write ==
  /\ pc = "write"
  /\ written' = written + polled
  /\ polled' = 0
  /\ pc' = "get"
  /\ UNCHANGED <<ring, write_index, read_index, flags, notice, logging, poll_get_buf, put, got>>

WriterStep == Wait \/ Get \/ GetNothing \/ Write

Next ==
  \/ \E t \in Loggers, n \in Lengths : Log(t, n)
  \/ Notice
  \/ WriterStep

Spec == Init /\ [][Next]_vars

\* A logging thread lets go of the lock, and the writer, which is woken or
\* finds the lock free again and again, goes on.
FairSpec == Spec /\ WF_vars(Notice) /\ SF_vars(WriterStep)

-----------------------------------------------------------------------------
(* Properties *)

\* The indices are inside the buffer, and when they meet, exactly one of the two
\* flags tells whether the buffer is full or empty.
TypeOK ==
  /\ ring \in [0 .. Size - 1 -> Nat]
  /\ write_index \in 0 .. Size - 1 /\ read_index \in 0 .. Size - 1
  /\ buf_is_full \in BOOLEAN /\ buf_is_empty \in BOOLEAN
  /\ buf_is_full \/ buf_is_empty <=> write_index = read_index
  /\ ~(buf_is_full /\ buf_is_empty)
  /\ notice \in Nat
  /\ logging \in Loggers \cup {NoLogger}
  /\ pc \in {"wait", "get", "write"}
  /\ polled \in 0 .. PollSize
  /\ poll_get_buf \in [1 .. PollSize -> Nat]
  /\ put \in Nat /\ got \in Nat /\ written \in Nat

\* What the writer has in hand are the bytes that follow those it has written:
\* none is lost, repeated or out of place, wherever the ring wraps around.
BytesInOrder ==
  /\ written + polled = got
  /\ pc # "write" => polled = 0
  /\ \A i \in 1 .. polled : poll_get_buf[i] = written + i

\* The ring holds the bytes that went in and have not come out, in order.
RingHolds ==
  /\ put = got + Used
  /\ \A i \in 0 .. Used - 1 : ring[Advanced(read_index, i)] = got + 1 + i

\* Every byte taken in is written in the end: no notice is lost, and the writer
\* does not go back to wait with bytes nobody will wake it for.
EveryByteWritten == \A k \in 1 .. MaxBytes : put >= k ~> written >= k

=============================================================================
