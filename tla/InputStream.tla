---------------------------- MODULE InputStream ----------------------------
(***************************************************************************)
(* core/inputstream.c: how the bytes a peer sends are cut into messages.   *)
(* read_socket receives a chunk, appends it to the connection's buffer     *)
(* (input_stream_write) and takes every complete frame out of it           *)
(* (input_stream_analyse_data), looking for the next frame head when the   *)
(* bytes in front are not one (input_stream_findhead).                     *)
(*                                                                         *)
(* The buffer is the sequence of the bytes from _pbuff to _wtag, and rtag  *)
(* is how many of them are in front of _rtag.  A head is HeadSize bytes:   *)
(* the magic byte, padding nobody writes, and the payload's size, which    *)
(* the model keeps in one byte.  A size above the largest int is left out. *)
(***************************************************************************)
EXTENDS Integers, SequencesExt

CONSTANTS
  HeadSize,   \* sizeof(SProtocolHead), 8 in the source
  Capacity,   \* _totalbufflen, 10240 in the source
  MaxChunk,   \* sizeof(buff) in read_socket, 10240 in the source
  Magics,     \* the magic bytes a peer puts in front of a frame
  Padding,    \* the bytes the padding of a head may hold
  Payloads,   \* bound: the payloads a peer sends
  Noise,      \* bound: the bytes a peer may send between two frames
  MaxFrames,  \* bound: how many frames the peer sends
  MaxNoise    \* bound: how many bytes the peer sends between frames

CDE == 16           \* MESSAGE_TYPE_CDE
CROSS_DOMAIN == 32  \* MESSAGE_TYPE_CROSS_DOMAIN
Byte == 0 .. 255

ASSUME StreamAssumption ==
  /\ HeadSize \in Nat /\ HeadSize >= 2
  /\ Capacity \in Nat /\ MaxChunk \in Nat \ {0}
  /\ Magics \subseteq Byte /\ Padding \subseteq Byte /\ Noise \subseteq Byte
  /\ \A p \in Payloads : p \in Seq(Byte) /\ Len(p) \in Byte
  /\ MaxFrames \in Nat /\ MaxNoise \in Nat

VARIABLES
  wire,       \* what the peer has sent and recv has not returned
  buff, rtag, \* the connection's buffer
  reading,    \* whether input_stream_analyse_data is running
  noise,      \* how much noise the peer has sent
  sent,       \* history: the payloads the peer has sent
  delivered,     \* history: the payloads given to the message queue
  dropped     \* history: whether a chunk was thrown away

inputVars == <<wire, buff, rtag, reading, noise, sent, delivered, dropped>>

InputInit ==
  /\ wire = << >> /\ noise = 0
  /\ buff = << >> /\ rtag = 0 /\ reading = FALSE
  /\ sent = << >> /\ delivered = << >> /\ dropped = FALSE

-----------------------------------------------------------------------------
(* The peer. *)

\* A frame as make_protocol_head and socket_send_data lay it out.
Frame(magic, pad, payload) ==
  <<magic>> \o [i \in 1 .. HeadSize - 2 |-> pad] \o <<Len(payload)>> \o payload

PeerFrame(payload) ==
  /\ Len(sent) < MaxFrames
  /\ \E magic \in Magics, pad \in Padding : wire' = wire \o Frame(magic, pad, payload)
  /\ sent' = Append(sent, payload)
  /\ UNCHANGED <<buff, rtag, reading, noise, delivered, dropped>>

PeerNoise(b) ==
  /\ noise < MaxNoise
  /\ noise' = noise + 1
  /\ wire' = Append(wire, b)
  /\ UNCHANGED <<buff, rtag, reading, sent, delivered, dropped>>

-----------------------------------------------------------------------------
(* The receiver. *)

\* Faulty variant: the space behind _wtag is not looked at.
ReceiveUnchecked(n) ==
  /\ ~reading
  /\ n <= Len(wire)
  /\ wire' = SubSeq(wire, n + 1, Len(wire))
  /\ buff' = buff \o SubSeq(wire, 1, n)
  /\ reading' = TRUE
  /\ UNCHANGED <<rtag, noise, sent, delivered, dropped>>

\* recv returns n bytes, which are written into the buffer if all of them fit
\* behind _wtag; read_socket does not look at what input_stream_write says.
Receive(n) ==
  /\ ~reading
  /\ n <= Len(wire)
  /\ wire' = SubSeq(wire, n + 1, Len(wire))
  /\ IF Capacity - Len(buff) < n
     THEN dropped' = TRUE /\ UNCHANGED buff
     ELSE buff' = buff \o SubSeq(wire, 1, n) /\ UNCHANGED dropped
  /\ reading' = TRUE
  /\ UNCHANGED <<rtag, noise, sent, delivered>>

Unread == Len(buff) - rtag              \* mbsize
At(i) == buff[rtag + i]                 \* the i-th byte from _rtag on

\* Is b the first byte of a head?
IsMagic(b) == b \in {CDE, CROSS_DOMAIN}

\* Faulty variant: b & 0xF0.
HasUpperNibble(b) == IsMagic(b - (b % 16))

\* Could b be one, b & 0xFC, whatever the two status bits are?
HasBaseType(b) == IsMagic(b - (b % 4))

\* A peer begins a frame with one of the two types, whatever the status bits; what
\* it sends between two frames is neither.
ASSUME PeerAssumption ==
  /\ \A b \in Magics : b - (b % 4) \in {CDE, CROSS_DOMAIN}
  /\ \A b \in Noise : b - (b % 4) \notin {CDE, CROSS_DOMAIN}

PackageSize == HeadSize + At(HeadSize)  \* totalPackageSize

\* Faulty variant: a frame that ends at _wtag is waited for.
AnalyseWaitForMore ==
  /\ reading
  /\ \/ Unread < HeadSize
     \/ Unread >= HeadSize /\ IsMagic(At(1)) /\ Unread <= PackageSize
  /\ reading' = FALSE
  /\ UNCHANGED <<wire, buff, rtag, noise, sent, delivered, dropped>>

\* Less than a head, or less than the frame it announces: wait for more.
AnalyseWait ==
  /\ reading
  /\ \/ Unread < HeadSize
     \/ Unread >= HeadSize /\ IsMagic(At(1)) /\ Unread < PackageSize
  /\ reading' = FALSE
  /\ UNCHANGED <<wire, buff, rtag, noise, sent, delivered, dropped>>

\* Faulty variant: the whole buffer is cleared after a frame.
NothingAfterFrame == << >>

\* The buffer after a frame: what is left moves to the front.
AfterFrame == SubSeq(buff, rtag + PackageSize + 1, Len(buff))

\* A complete frame: its payload goes to the queue.
AnalyseFrame ==
  /\ reading
  /\ Unread >= HeadSize /\ IsMagic(At(1)) /\ Unread >= PackageSize
  /\ delivered' = Append(delivered, SubSeq(buff, rtag + HeadSize + 1, rtag + PackageSize))
  /\ buff' = AfterFrame
  /\ rtag' = 0
  /\ UNCHANGED <<wire, reading, noise, sent, dropped>>

\* input_stream_findhead: go to the first byte that could begin a head...
FindHead ==
  /\ reading
  /\ Unread >= HeadSize /\ ~IsMagic(At(1))
  /\ \E i \in 1 .. Unread :
       /\ HasBaseType(At(i))
       /\ \A j \in 1 .. i - 1 : ~HasBaseType(At(j))
       /\ rtag' = rtag + i - 1
  /\ UNCHANGED <<wire, buff, reading, noise, sent, delivered, dropped>>

\* ... or keep the last HeadSize - 1 bytes if there is none.
FindNoHead ==
  /\ reading
  /\ Unread >= HeadSize
  /\ \A i \in 1 .. Unread : ~HasBaseType(At(i))
  /\ buff' = SubSeq(buff, Len(buff) - HeadSize + 2, Len(buff))
  /\ rtag' = 0
  /\ UNCHANGED <<wire, reading, noise, sent, delivered, dropped>>

Analyse == AnalyseWait \/ AnalyseFrame \/ FindHead \/ FindNoHead

InputNext ==
  \/ \E p \in Payloads : PeerFrame(p)
  \/ \E b \in Noise : PeerNoise(b)
  \/ \E n \in 1 .. MaxChunk : Receive(n)
  \/ Analyse

InputSpec == InputInit /\ [][InputNext]_inputVars

\* The network thread goes on reading, and its loop goes on looping.
InputFairSpec ==
  /\ InputSpec
  /\ WF_inputVars(\E n \in 1 .. MaxChunk : Receive(n))
  /\ WF_inputVars(Analyse)

-----------------------------------------------------------------------------
(* Properties *)

\* The indices never leave the buffer: _rtag is at most _wtag, which is at most
\* the end of the buffer.
InputTypeOK ==
  /\ wire \in Seq(Byte) /\ noise \in 0 .. MaxNoise
  /\ buff \in Seq(Byte) /\ Len(buff) <= Capacity /\ rtag \in 0 .. Len(buff)
  /\ reading \in BOOLEAN /\ dropped \in BOOLEAN
  /\ sent \in Seq(Payloads) /\ delivered \in Seq(Seq(Byte))

\* However recv cuts the stream, and whatever noise there is between two frames:
\* as long as no chunk was thrown away, what is delivered over are the payloads
\* sent, whole and in order, and whenever the receiver has looked at everything
\* it was sent, it has delivered over all of them.
FramesArriveWhole ==
  ~dropped =>
    /\ IsPrefix(delivered, sent)
    /\ wire = << >> /\ ~reading => delivered = sent

\* Every frame a peer has sent is delivered over in the end, if no chunk is thrown
\* away: the analysis stops for no reason but a lack of bytes.
EveryFrameArrives ==
  \A k \in 1 .. MaxFrames : Len(sent) >= k ~> (Len(delivered) >= k \/ dropped)

\* input_stream_analyse_data returns: the network thread, which calls it with
\* the lock held, gets to the next socket.
AnalyseReturns == reading ~> ~reading

=============================================================================
