-------------------------------- MODULE Tunnel --------------------------------
(***************************************************************************)
(* aura-tunnel: one connection from a client to the exit node.  Frames go  *)
(* one way, each under the next sequence number of the sender's cipher;    *)
(* the host refuses a number below the one it expects and ends the session *)
(* at any error.  It opens a connection to a target for each stream and    *)
(* queues the stream's data for a task that writes it there.  What targets *)
(* answer is read and dropped.                                             *)
(*                                                                         *)
(* The sender is either the SOCKS client of this crate, one stream to a    *)
(* connection, which makes a second cipher after its first frame; or a     *)
(* peer that keeps one cipher and has several streams.  Keys agree, and    *)
(* TCP delivers in order until the connection is cut.                      *)
(***************************************************************************)
EXTENDS Integers, Sequences

CONSTANTS
  Streams,
  Readers,    \* the streams whose targets go on reading as long as they are up
  Capacity,   \* 100: the queue of a stream
  MaxData,    \* bounds the data frames of a stream
  MaxPings    \* bounds the heartbeats

ASSUME TunnelAssumption ==
  Readers \subseteq Streams /\ Capacity \in Nat \ {0} /\ MaxData \in Nat /\ MaxPings \in Nat

VARIABLES
  client,    \* which kind of sender has the connection
  txSeq,     \* the sequence number of its next frame
  stream,    \* where it is with each stream
  sent,      \* how many pieces of data it has sent on each
  pings,     \* how many heartbeats it has sent
  wire,      \* the frames on their way
  link,      \* the connection as the sender sees it
  rxSeq,     \* the host's next expected sequence number
  session,   \* the host's loop: up, ended, or ended by a decryption error
  active,    \* the streams in active_streams
  target,    \* the connection to each stream's target
  queue,     \* each stream's channel
  got        \* what each target has been written

sender == <<client, txSeq, stream, sent, pings>>
host == <<rxSeq, session, active, target, queue, got>>
vars == <<sender, wire, link, host>>

Kinds == {"ConnectTcp", "Data", "Close", "Ping"}
\* data numbers the pieces of a stream; other frames have 0 there.
Frames == [seq : Nat, kind : Kinds, stream : Streams, data : 0..MaxData]

Init ==
  /\ client \in {"socks", "peer"}
  /\ txSeq = 0 /\ pings = 0
  /\ stream = [s \in Streams |-> "new"]
  /\ sent = [s \in Streams |-> 0]
  /\ wire = <<>> /\ link = "up"
  /\ rxSeq = 0 /\ session = "up" /\ active = {}
  /\ target = [s \in Streams |-> "none"]
  /\ queue = [s \in Streams |-> <<>>]
  /\ got = [s \in Streams |-> <<>>]

-----------------------------------------------------------------------------
(* Mutated forms of definitions of this module: bugs the real ones do not  *)
(* have.                                                                   *)

\* TypeOK: a full queue takes another piece.
RoomAny(s) == TRUE

\* ImplementsPipe: what was written stays in the queue.
DeliverKeeps(s) ==
  /\ target[s] = "up" /\ queue[s] # <<>>
  /\ got' = [got EXCEPT ![s] = IF Len(@) < 2 * MaxData THEN Append(@, Head(queue[s])) ELSE @]
  /\ UNCHANGED <<sender, wire, link, rxSeq, session, active, target, queue>>

\* PeerNotRefused: the number that is expected next is taken for an old one.
FreshStrict(frame) == frame.seq > rxSeq

\* Arrives: Close takes the stream's queue away.
ClosedEmpties(s) ==
  /\ active' = active \ {s} /\ queue' = [queue EXCEPT ![s] = <<>>]
  /\ UNCHANGED <<session, target, got>>

-----------------------------------------------------------------------------
(* The sender.                                                             *)

\* TunnelCipher::encrypt and the write of the frame.
Write(kind, s, n) ==
  wire' = Append(wire, [seq |-> txSeq, kind |-> kind, stream |-> s, data |-> n])

\* A stream starts with ConnectTcp.  The SOCKS client tells the browser that
\* it is connected, and goes on with a cipher of its own.
Open(s) ==
  /\ link = "up" /\ stream[s] = "new"
  /\ client = "socks" => \A r \in Streams : stream[r] = "new"
  /\ Write("ConnectTcp", s, 0)
  /\ stream' = [stream EXCEPT ![s] = "open"]
  /\ txSeq' = IF client = "socks" THEN 0 ELSE txSeq + 1
  /\ UNCHANGED <<client, sent, pings, link, host>>

SendData(s) ==
  /\ link = "up" /\ stream[s] = "open" /\ sent[s] < MaxData
  /\ Write("Data", s, sent[s] + 1)
  /\ sent' = [sent EXCEPT ![s] = @ + 1]
  /\ txSeq' = txSeq + 1
  /\ UNCHANGED <<client, stream, pings, link, host>>

\* The SOCKS client sends no Close.
SendClose(s) ==
  /\ link = "up" /\ client = "peer" /\ stream[s] = "open"
  /\ Write("Close", s, 0)
  /\ stream' = [stream EXCEPT ![s] = "closed"]
  /\ txSeq' = txSeq + 1
  /\ UNCHANGED <<client, sent, pings, link, host>>

SendPing(s) ==
  /\ link = "up" /\ client = "peer" /\ pings < MaxPings
  /\ Write("Ping", s, 0)
  /\ pings' = pings + 1 /\ txSeq' = txSeq + 1
  /\ UNCHANGED <<client, stream, sent, link, host>>

\* The browser has closed its connection, and the sender drops the tunnel's.
Finish ==
  /\ link = "up" /\ link' = "finished"
  /\ UNCHANGED <<sender, wire, host>>

\* The connection breaks; of what is on its way the host may still read some.
Cut ==
  /\ link # "cut" /\ session = "up" /\ link' = "cut"
  /\ \E n \in 0..Len(wire) : wire' = SubSeq(wire, 1, n)
  /\ UNCHANGED <<sender, host>>

-----------------------------------------------------------------------------
(* The host.                                                               *)

\* The anti-replay check of TunnelCipher::decrypt.
Fresh(frame) == frame.seq >= rxSeq

\* The connection to the target may fail; the client is not told.
Connect(s) ==
  /\ \/ /\ target' = [target EXCEPT ![s] = "up"] /\ active' = active \cup {s}
     \/ /\ target' = [target EXCEPT ![s] = "failed"] /\ UNCHANGED active
  /\ UNCHANGED <<session, queue, got>>

\* send() waits for room in the channel as long as the stream's task lives.
Room(s) == Len(queue[s]) < Capacity

Enqueue(s, n) ==
  IF s \in active /\ target[s] = "up"
    THEN /\ Room(s)
         /\ queue' = [queue EXCEPT ![s] = Append(@, n)]
         /\ UNCHANGED <<session, active, target, got>>
    ELSE UNCHANGED <<session, active, target, queue, got>>

\* The channel loses its sender; what is in it is still written.
Closed(s) == active' = active \ {s} /\ UNCHANGED <<session, target, queue, got>>

\* One turn of the host's loop.
Receive ==
  LET frame == Head(wire) IN
  /\ session = "up" /\ wire # <<>> /\ Fresh(frame)
  /\ rxSeq' = frame.seq + 1
  /\ wire' = Tail(wire)
  /\ \/ frame.kind = "ConnectTcp" /\ Connect(frame.stream)
     \/ frame.kind = "Data" /\ Enqueue(frame.stream, frame.data)
     \/ frame.kind = "Close" /\ Closed(frame.stream)
     \/ frame.kind = "Ping" /\ UNCHANGED <<session, active, target, queue, got>>
  /\ UNCHANGED <<sender, link>>

\* ReplayDetected ends the session, and with it the connection.
Refuse ==
  /\ session = "up" /\ wire # <<>> /\ ~Fresh(Head(wire))
  /\ session' = "refused" /\ active' = {}
  /\ wire' = <<>> /\ link' = "cut"
  /\ UNCHANGED <<sender, rxSeq, target, queue, got>>

\* The end of the connection is read.
End ==
  /\ session = "up" /\ wire = <<>> /\ link # "up"
  /\ session' = "ended" /\ active' = {}
  /\ UNCHANGED <<sender, wire, link, rxSeq, target, queue, got>>

\* A stream's task writes the next piece to the target.  Nothing ends a write
\* that the target does not read.
Deliver(s) ==
  /\ target[s] = "up" /\ queue[s] # <<>>
  /\ got' = [got EXCEPT ![s] = Append(@, Head(queue[s]))]
  /\ queue' = [queue EXCEPT ![s] = Tail(@)]
  /\ UNCHANGED <<sender, wire, link, rxSeq, session, active, target>>

\* The target closes the connection, or a write to it fails: the task ends,
\* and the channel is gone.
TargetGone(s) ==
  /\ target[s] = "up"
  /\ target' = [target EXCEPT ![s] = "gone"]
  /\ queue' = [queue EXCEPT ![s] = <<>>]
  /\ UNCHANGED <<sender, wire, link, rxSeq, session, active, got>>

-----------------------------------------------------------------------------
HostStep == Receive \/ Refuse \/ End

Next ==
  \/ \E s \in Streams : \/ Open(s) \/ SendData(s) \/ SendClose(s) \/ SendPing(s)
                        \/ Deliver(s) \/ TargetGone(s)
  \/ Finish \/ Cut \/ Receive \/ Refuse \/ End

Spec == Init /\ [][Next]_vars

\* The host's loop runs on, where a connection to a target succeeds or fails in
\* the end; a stream's task runs on if its target reads.
FairSpec ==
  /\ Spec
  /\ WF_vars(HostStep)
  /\ \A s \in Readers : WF_vars(Deliver(s))

-----------------------------------------------------------------------------
(* Properties.                                                             *)

\* Every variable has its type, and no queue exceeds its capacity.
TypeOK ==
  /\ client \in {"socks", "peer"} /\ txSeq \in Nat /\ pings \in 0..MaxPings
  /\ stream \in [Streams -> {"new", "open", "closed"}]
  /\ sent \in [Streams -> 0..MaxData]
  /\ wire \in Seq(Frames) /\ link \in {"up", "finished", "cut"}
  /\ rxSeq \in Nat /\ session \in {"up", "ended", "refused"}
  /\ active \in SUBSET Streams
  /\ target \in [Streams -> {"none", "up", "failed", "gone"}]
  /\ queue \in [Streams -> Seq(1..MaxData)]
  /\ \A s \in Streams : Len(queue[s]) <= Capacity
  /\ got \in [Streams -> Seq(1..MaxData)]

P == INSTANCE Pipe

\* Each target is written what was sent on its stream, in order, each piece
\* once and none after one that is missing: through several streams on one
\* connection, full queues, cuts, and a Close behind data not yet written.
ImplementsPipe == P!Spec

\* A sender that keeps one cipher is never taken for a replay.
PeerNotRefused == client = "peer" => session # "refused"

\* The host's loop waits for room in the queue of a target that may not read.
HeldUp ==
  /\ session = "up" /\ wire # <<>> /\ Head(wire).kind = "Data"
  /\ LET r == Head(wire).stream IN
     r \in active \ Readers /\ target[r] = "up" /\ ~Room(r)

\* What is sent on a stream whose target reads arrives, unless the connection
\* is cut or that target fails, or the host's loop waits for ever for another
\* target.  Neither a Close or an end of the connection behind the data can
\* prevent it, nor another stream whose target reads, fails or ends.
Arrives ==
  \A s \in Readers, n \in 1..MaxData :
    sent[s] >= n
      ~> \/ Len(got[s]) >= n \/ link = "cut" \/ target[s] \in {"failed", "gone"}
         \/ []HeldUp

-----------------------------------------------------------------------------
(* Claims of the repository that the code does not keep.                   *)

\* The SOCKS client's data is let through to its target: the host does not take
\* it for a replay.
SocksAccepted == client = "socks" => session # "refused"
=============================================================================
