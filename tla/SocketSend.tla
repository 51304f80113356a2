----------------------------- MODULE SocketSend -----------------------------
(***************************************************************************)
(* socket_send_data and socket_data of core/network.c: threads that run    *)
(* scripts send frames by the number of a descriptor, without a lock, each *)
(* for up to three seconds, while the network thread may close the         *)
(* connection and the kernel give its number to the next one.              *)
(*                                                                         *)
(* A frame is a head and its data, Length bytes in all.  The kernel takes  *)
(* as many bytes of it as it likes at a time, or none for now.             *)
(***************************************************************************)
EXTENDS Integers, SequencesExt

CONSTANTS
  Senders,    \* the threads that send
  Length,     \* bound: the bytes of a frame
  MaxFrames,  \* bound: how many frames are sent
  MaxPeers    \* bound: how many connections get the number

ASSUME SendAssumption == Length \in Nat \ {0} /\ MaxFrames \in Nat /\ MaxPeers \in Nat \ {0}

VARIABLES
  peer,       \* the connection that has the number
  closed,     \* it has been closed, and none has the number
  stream,     \* per connection: the bytes on their way to it
  frame,      \* per thread: the frame it sends, 0 when it sends none
  total_sent, \* how many bytes of it the kernel has taken
  frames,     \* how many frames have been begun
  returned,   \* per frame: what socket_data has returned
  first,      \* history, per frame: the connection it was begun for
  spoiled     \* history: the connections for which the frames may be broken

sendVars == <<peer, closed, stream, frame, total_sent, frames, returned, first, spoiled>>

Peers == 1 .. MaxPeers
Frames == 1 .. MaxFrames

SendInit ==
  /\ peer = 1 /\ closed = FALSE
  /\ stream = [p \in Peers |-> << >>]
  /\ frame = [t \in Senders |-> 0] /\ total_sent = [t \in Senders |-> 0]
  /\ frames = 0 /\ returned = [f \in Frames |-> "nothing"]
  /\ first = [f \in Frames |-> 0] /\ spoiled = {}

\* Faulty variant: after a part of the frame, send starts with its first byte.
PartFromStart(f, k, n) == [i \in 1 .. n |-> <<f, i>>]

\* The bytes of frame f behind the first k, n of them.
Part(f, k, n) == [i \in 1 .. n |-> <<f, k + i>>]
Whole(f) == Part(f, 0, Length)

-----------------------------------------------------------------------------
\* socket_send_data puts head and data into one stream.
Begin(t) ==
  /\ frame[t] = 0 /\ frames < MaxFrames
  /\ frames' = frames + 1
  /\ frame' = [frame EXCEPT ![t] = frames']
  /\ first' = [first EXCEPT ![frames'] = peer]
  /\ spoiled' = spoiled \cup {p \in {peer} : \E u \in Senders : frame[u] # 0 /\ first[frame[u]] = p}
  /\ UNCHANGED <<peer, closed, stream, total_sent, returned>>

Return(t, result) ==
  /\ returned' = [returned EXCEPT ![frame[t]] = result]
  /\ frame' = [frame EXCEPT ![t] = 0]
  /\ total_sent' = [total_sent EXCEPT ![t] = 0]

\* send takes n bytes, for the connection that has the number now.
Send(t, n) ==
  /\ frame[t] # 0 /\ ~closed
  /\ n <= Length - total_sent[t]
  /\ stream' = [stream EXCEPT ![peer] = @ \o Part(frame[t], total_sent[t], n)]
  /\ spoiled' = IF first[frame[t]] = peer THEN spoiled
               ELSE spoiled \cup {peer, first[frame[t]]}
  /\ IF total_sent[t] + n = Length
     THEN Return(t, "sent")
     ELSE /\ total_sent' = [total_sent EXCEPT ![t] = @ + n]
          /\ UNCHANGED <<frame, returned>>
  /\ UNCHANGED <<peer, closed, frames, first>>

\* The three seconds are over, or send fails: also when the number is nobody's.
GiveUp(t) ==
  /\ frame[t] # 0
  /\ spoiled' = spoiled \cup {p \in {first[frame[t]]} : total_sent[t] > 0}
  /\ Return(t, "error")
  /\ UNCHANGED <<peer, closed, stream, frames, first>>

\* The network thread removes the session (remove_socket)...
Close ==
  /\ ~closed
  /\ closed' = TRUE
  /\ UNCHANGED <<peer, stream, frame, total_sent, frames, returned, first, spoiled>>

\* ... and accepts another connection (accept_socket).
Reuse ==
  /\ closed /\ peer < MaxPeers
  /\ peer' = peer + 1 /\ closed' = FALSE
  /\ UNCHANGED <<stream, frame, total_sent, frames, returned, first, spoiled>>

SendNext ==
  \/ \E t \in Senders : Begin(t) \/ GiveUp(t) \/ \E n \in 1 .. Length : Send(t, n)
  \/ Close \/ Reuse

SendSpec == SendInit /\ [][SendNext]_sendVars

-----------------------------------------------------------------------------
(* Properties *)

\* A connection gets whole frames, those for which socket_data has returned 1 and
\* no others, in the order they were begun, and a part of the one being sent -
\* as long as no frame for it was given up after a part of it had gone, no two
\* threads have sent at a time, and no send was under way when the number went
\* from one connection to the next.  (socket_data)
WholeFrames ==
  \A p \in Peers \ spoiled :
    LET done == [f \in 1 .. frames |->
                   IF first[f] = p /\ returned[f] = "sent" THEN Whole(f) ELSE << >>]
        now == {t \in Senders : frame[t] # 0 /\ first[frame[t]] = p}
    IN stream[p] = FlattenSeq(done)
                   \o (IF now = {} THEN << >>
                       ELSE LET t == CHOOSE t \in now : TRUE IN Part(frame[t], 0, total_sent[t]))

=============================================================================
