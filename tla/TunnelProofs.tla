----------------------------- MODULE TunnelProofs -----------------------------
(***************************************************************************)
(* For any streams, pieces of data and queues: the tunnel implements the   *)
(* pipe, and a sender that keeps one cipher is never taken for a replay.   *)
(***************************************************************************)
EXTENDS Tunnel, TLAPS

\* A frame is of this kind and of stream s.
Is(frame, kind, s) == frame.kind = kind /\ frame.stream = s

\* How much of stream s the host has taken.
Taken(s) == Len(got[s]) + Len(queue[s])

\* What is written and what is queued is what was sent, from the first piece on.
QueueInv(s) ==
  /\ \A i \in 1..Len(queue[s]) : queue[s][i] = Len(got[s]) + i
  /\ \A i \in 1..Len(got[s]) : got[s][i] = i
  /\ Taken(s) <= sent[s]

\* A stream's ConnectTcp is the only one, and ahead of its data.
ConnectInv(s) ==
  /\ stream[s] = "new" =>
       /\ target[s] = "none" /\ sent[s] = 0
       /\ \A i \in 1..Len(wire) : wire[i].stream = s => wire[i].kind = "Ping"
  /\ \A i \in 1..Len(wire) : Is(wire[i], "ConnectTcp", s) =>
       target[s] = "none" /\ \A j \in 1..Len(wire) : Is(wire[j], "ConnectTcp", s) => j = i
  /\ link = "up" /\ stream[s] # "new" /\ target[s] = "none" =>
       \E i \in 1..Len(wire) : Is(wire[i], "ConnectTcp", s)
  /\ target[s] = "none" => \A i \in 1..Len(wire) : Is(wire[i], "Data", s) =>
       \E j \in 1..(i - 1) : Is(wire[j], "ConnectTcp", s)

\* No data follows a stream's Close, nor is any on its way once the host has
\* read it.
CloseInv(s) ==
  /\ \A i \in 1..Len(wire) : Is(wire[i], "Close", s) =>
       stream[s] = "closed" /\ \A j \in (i + 1)..Len(wire) : ~Is(wire[j], "Data", s)
  /\ session = "up" /\ target[s] = "up" /\ s \notin active =>
       stream[s] = "closed" /\ \A i \in 1..Len(wire) : ~Is(wire[i], "Data", s)

\* The data on its way goes on where the host is, without a hole.
OnTheirWay(s) ==
  \A i \in 1..Len(wire) : Is(wire[i], "Data", s) =>
    /\ wire[i].data <= sent[s]
    /\ \A j \in 1..(i - 1) : Is(wire[j], "Data", s) => wire[j].data < wire[i].data

Contiguous(s) ==
  target[s] \in {"none", "up"} =>
    /\ \A i \in 1..Len(wire) : Is(wire[i], "Data", s) =>
         /\ Taken(s) < wire[i].data
         /\ \/ wire[i].data = Taken(s) + 1
            \/ \E j \in 1..(i - 1) : Is(wire[j], "Data", s) /\ wire[j].data + 1 = wire[i].data
    /\ link = "up" /\ stream[s] = "open" =>
         \/ sent[s] = Taken(s)
         \/ \E i \in 1..Len(wire) : Is(wire[i], "Data", s) /\ wire[i].data = sent[s]

StreamInv(s) ==
  QueueInv(s) /\ ConnectInv(s) /\ CloseInv(s) /\ OnTheirWay(s) /\ Contiguous(s)

\* The host's end of the connection closes after the sender's.
EndInv == session # "up" => link # "up" /\ wire = <<>>

\* The frames on their way have the numbers from the host's to the sender's.
PeerInv ==
  client = "peer" =>
    /\ session # "refused"
    /\ rxSeq <= txSeq
    /\ \A i \in 1..Len(wire) :
         /\ rxSeq <= wire[i].seq /\ wire[i].seq < txSeq
         /\ \A j \in 1..(i - 1) : wire[j].seq < wire[i].seq

IInv ==
  /\ TypeOK /\ EndInv /\ PeerInv
  /\ \A s \in Streams : StreamInv(s)

-----------------------------------------------------------------------------
(* The frames on their way: one more, one less, or the first n.            *)

LEMMA Appended ==
  ASSUME wire \in Seq(Frames), NEW f \in Frames, wire' = Append(wire, f)
  PROVE  /\ wire' \in Seq(Frames) /\ Len(wire') = Len(wire) + 1 /\ Len(wire) \in Nat
         /\ \A i \in 1..Len(wire) : wire'[i] = wire[i]
         /\ wire'[Len(wire) + 1] = f
OBVIOUS

LEMMA OneLess ==
  ASSUME wire \in Seq(Frames), wire # <<>>, wire' = Tail(wire)
  PROVE  /\ wire' \in Seq(Frames) /\ Len(wire') = Len(wire) - 1 /\ Len(wire) \in Nat \ {0}
         /\ \A i \in 1..Len(wire') : wire'[i] = wire[i + 1]
         /\ \A i \in 2..Len(wire) : wire'[i - 1] = wire[i]
         /\ Head(wire) = wire[1] /\ wire[1] \in Frames
OBVIOUS

LEMMA CutOff ==
  ASSUME wire \in Seq(Frames), NEW n \in 0..Len(wire), wire' = SubSeq(wire, 1, n)
  PROVE  /\ wire' \in Seq(Frames) /\ Len(wire') = n /\ n <= Len(wire) /\ Len(wire) \in Nat
         /\ \A i \in 1..Len(wire') : wire'[i] = wire[i]
OBVIOUS

\* The frame the sender writes.
LEMMA WrittenType ==
  ASSUME TypeOK, NEW kind \in Kinds, NEW s \in Streams, NEW n \in 0..MaxData
  PROVE  [seq |-> txSeq, kind |-> kind, stream |-> s, data |-> n] \in Frames
BY DEF TypeOK, Frames

\* A piece is put at the end of a queue, or taken from its front.
LEMMA QueueGrows ==
  ASSUME NEW S, NEW q \in Seq(S), NEW n \in S
  PROVE  /\ Append(q, n) \in Seq(S) /\ Len(Append(q, n)) = Len(q) + 1
         /\ Len(q) \in Nat
         /\ \A i \in 1..Len(q) : Append(q, n)[i] = q[i]
         /\ Append(q, n)[Len(q) + 1] = n
OBVIOUS

\* The same of a queue whatever it gets.
LEMMA QueueTail ==
  ASSUME NEW S, NEW q \in Seq(S), NEW n
  PROVE  /\ Len(Append(q, n)) = Len(q) + 1
         /\ \A i \in 1..Len(q) : Append(q, n)[i] = q[i]
         /\ Append(q, n)[Len(q) + 1] = n
OBVIOUS

LEMMA QueueShrinks ==
  ASSUME NEW S, NEW q \in Seq(S), q # <<>>
  PROVE  /\ Tail(q) \in Seq(S) /\ Len(Tail(q)) = Len(q) - 1 /\ Len(q) \in Nat \ {0}
         /\ \A i \in 1..Len(Tail(q)) : Tail(q)[i] = q[i + 1]
         /\ Head(q) = q[1] /\ q[1] \in S
OBVIOUS

LEMMA LenType ==
  ASSUME NEW S, NEW q \in Seq(S)
  PROVE  Len(q) \in Nat /\ \A i \in 1..Len(q) : q[i] \in S
OBVIOUS

LEMMA FrameTypes ==
  ASSUME TypeOK, NEW i \in 1..Len(wire)
  PROVE  /\ wire[i] \in Frames /\ wire[i].seq \in Nat /\ wire[i].data \in Nat
         /\ wire[i].stream \in Streams /\ wire[i].kind \in Kinds
         /\ wire[i].data \in 0..MaxData
PROOF
<1>1. wire[i] \in Frames
  BY LenType DEF TypeOK
<1> QED BY <1>1, TunnelAssumption DEF Frames

LEMMA TakenType ==
  ASSUME TypeOK, NEW s \in Streams
  PROVE  Taken(s) \in Nat /\ Len(got[s]) \in Nat /\ Len(queue[s]) \in Nat
PROOF
<1>1. got[s] \in Seq(1..MaxData) /\ queue[s] \in Seq(1..MaxData)
  BY DEF TypeOK
<1>2. Len(got[s]) \in Nat /\ Len(queue[s]) \in Nat
  BY <1>1, LenType
<1>3. ASSUME NEW m \in Nat, NEW n \in Nat PROVE m + n \in Nat
  OBVIOUS
<1> QED BY <1>2, <1>3 DEF Taken

LEMMA InitOK == Init => IInv
PROOF
<1> SUFFICES ASSUME Init PROVE IInv
  OBVIOUS
<1>0. <<>> \in Seq(Frames) /\ <<>> \in Seq(1..MaxData) /\ Len(<<>>) = 0
  OBVIOUS
<1>1. TypeOK
  BY <1>0, TunnelAssumption DEF Init, TypeOK
<1>2. EndInv /\ PeerInv
  BY DEF Init, EndInv, PeerInv
<1>3. ASSUME NEW s \in Streams PROVE StreamInv(s)
  BY <1>0 DEF Init, StreamInv, QueueInv, ConnectInv, CloseInv, OnTheirWay, Contiguous, Taken, Is
<1> QED BY <1>1, <1>2, <1>3 DEF IInv

-----------------------------------------------------------------------------
(* The sender's steps: a frame is put at the end, and the host waits.      *)


LEMMA SenderFacts ==
  ASSUME IInv, NEW kind \in Kinds, NEW s \in Streams, NEW n \in 0..MaxData, Write(kind, s, n),
         link = "up"
  PROVE  /\ session = "up"
         /\ wire' \in Seq(Frames) /\ Len(wire') = Len(wire) + 1 /\ Len(wire) \in Nat
         /\ \A i \in 1..Len(wire) : wire'[i] = wire[i]
         /\ wire'[Len(wire) + 1] = [seq |-> txSeq, kind |-> kind, stream |-> s, data |-> n]
PROOF
<1>1. [seq |-> txSeq, kind |-> kind, stream |-> s, data |-> n] \in Frames
  BY WrittenType DEF IInv
<1>2. wire \in Seq(Frames)
  BY DEF IInv, TypeOK
<1>3. session = "up"
  BY DEF IInv, EndInv
<1> QED BY <1>1, <1>2, <1>3, Appended DEF Write

\* A frame of another stream, or a Ping, changes nothing for a stream.
LEMMA OtherStream ==
  ASSUME IInv, NEW s \in Streams, NEW r \in Streams, NEW kind \in Kinds, NEW n \in 0..MaxData,
         r # s \/ kind = "Ping", Write(kind, s, n), link = "up",
         UNCHANGED <<link, host>>, stream'[r] = stream[r], sent'[r] = sent[r]
  PROVE  StreamInv(r)'
PROOF
<1>1. /\ Len(wire') = Len(wire) + 1 /\ Len(wire) \in Nat
      /\ \A i \in 1..Len(wire) : wire'[i] = wire[i]
      /\ wire'[Len(wire) + 1].stream = s /\ wire'[Len(wire) + 1].kind = kind
  <2>1. wire'[Len(wire) + 1] = [seq |-> txSeq, kind |-> kind, stream |-> s, data |-> n]
    BY SenderFacts
  <2> QED BY <2>1, SenderFacts
<1>2. /\ \A k \in Kinds \ {"Ping"} : ~Is(wire'[Len(wire) + 1], k, r)
      /\ wire'[Len(wire) + 1].stream = r => wire'[Len(wire) + 1].kind = "Ping"
  BY <1>1 DEF Is
<1>3. \A i \in 1..Len(wire') : i \in 1..Len(wire) \/ i = Len(wire) + 1
  BY <1>1
<1>4. /\ UNCHANGED <<link, session, active, target, queue, got>> /\ Taken(r)' = Taken(r)
  BY DEF host, Taken
<1>5. StreamInv(r)
  BY DEF IInv
<1>6. QueueInv(r)'
  BY <1>4, <1>5 DEF StreamInv, QueueInv
<1>7. ConnectInv(r)'
  BY <1>1, <1>2, <1>3, <1>4, <1>5 DEF StreamInv, ConnectInv, Kinds
<1>8. CloseInv(r)'
  BY <1>1, <1>2, <1>3, <1>4, <1>5 DEF StreamInv, CloseInv, Kinds
<1>9. OnTheirWay(r)'
  BY <1>1, <1>2, <1>3, <1>4, <1>5 DEF StreamInv, OnTheirWay, Kinds
<1>10. Contiguous(r)'
  BY <1>1, <1>2, <1>3, <1>4, <1>5 DEF StreamInv, Contiguous, Kinds
<1> QED BY <1>6, <1>7, <1>8, <1>9, <1>10 DEF StreamInv

\* A frame takes the sender's next number.
LEMMA PeerWrites ==
  ASSUME IInv, NEW kind \in Kinds, NEW s \in Streams, NEW n \in 0..MaxData, Write(kind, s, n),
         link = "up", UNCHANGED <<client, host>>, client = "peer" => txSeq' = txSeq + 1
  PROVE  PeerInv'
PROOF
<1> SUFFICES ASSUME client = "peer" PROVE PeerInv'
  BY DEF PeerInv
<1>1. /\ Len(wire') = Len(wire) + 1 /\ Len(wire) \in Nat
      /\ \A i \in 1..Len(wire) : wire'[i] = wire[i]
      /\ wire'[Len(wire) + 1] = [seq |-> txSeq, kind |-> kind, stream |-> s, data |-> n]
  BY SenderFacts
<1>2. /\ session # "refused" /\ rxSeq <= txSeq /\ txSeq \in Nat /\ rxSeq \in Nat
      /\ \A i \in 1..Len(wire) :
           /\ wire[i].seq \in Nat /\ rxSeq <= wire[i].seq /\ wire[i].seq < txSeq
           /\ \A j \in 1..(i - 1) : wire[j].seq < wire[i].seq
  <2>1. \A i \in 1..Len(wire) : wire[i].seq \in Nat
    BY FrameTypes DEF IInv
  <2> QED BY <2>1 DEF IInv, TypeOK, PeerInv
<1>3. UNCHANGED <<client, rxSeq, session>> /\ txSeq' = txSeq + 1
  BY DEF host
<1>4. ASSUME NEW i \in 1..Len(wire')
      PROVE  /\ rxSeq <= wire'[i].seq /\ wire'[i].seq < txSeq + 1
             /\ \A j \in 1..(i - 1) : wire'[j].seq < wire'[i].seq
  <2>1. CASE i \in 1..Len(wire)
    <3>1. wire'[i] = wire[i] /\ \A j \in 1..(i - 1) : j \in 1..Len(wire) /\ wire'[j] = wire[j]
      BY <1>1, <2>1
    <3>2. /\ rxSeq <= wire[i].seq /\ wire[i].seq < txSeq + 1
          /\ \A j \in 1..(i - 1) : wire[j].seq < wire[i].seq
      BY <1>2, <2>1
    <3> QED BY <3>1, <3>2
  <2>2. CASE i = Len(wire) + 1
    <3>1. wire'[i].seq = txSeq /\ \A j \in 1..(i - 1) : j \in 1..Len(wire)
      BY <1>1, <2>2
    <3> QED BY <1>1, <1>2, <3>1
  <2> QED BY <1>1, <2>1, <2>2
<1> QED BY <1>2, <1>3, <1>4 DEF PeerInv

LEMMA OpenOK == ASSUME IInv, NEW s \in Streams, Open(s) PROVE IInv'
PROOF
<1>1. /\ link = "up" /\ stream[s] = "new" /\ stream' = [stream EXCEPT ![s] = "open"]
      /\ Write("ConnectTcp", s, 0) /\ "ConnectTcp" \in Kinds /\ 0 \in 0..MaxData
      /\ client = "socks" => \A r \in Streams : stream[r] = "new"
      /\ txSeq' = IF client = "socks" THEN 0 ELSE txSeq + 1
      /\ UNCHANGED <<client, sent, pings, link, host>>
  BY TunnelAssumption DEF Open, Kinds
<1>2. /\ session = "up"
      /\ wire' \in Seq(Frames) /\ Len(wire') = Len(wire) + 1 /\ Len(wire) \in Nat
      /\ \A i \in 1..Len(wire) : wire'[i] = wire[i]
      /\ wire'[Len(wire) + 1] = [seq |-> txSeq, kind |-> "ConnectTcp", stream |-> s, data |-> 0]
  BY <1>1, SenderFacts
<1>3. UNCHANGED <<rxSeq, session, active, target, queue, got>>
  BY <1>1 DEF host
<1>4. TypeOK'
  BY <1>1, <1>2, <1>3 DEF IInv, TypeOK
<1>5. EndInv'
  BY <1>1, <1>2, <1>3 DEF EndInv
<1>6. ASSUME NEW r \in Streams, r # s PROVE StreamInv(r)'
  <2>1. stream'[r] = stream[r] /\ sent'[r] = sent[r] /\ UNCHANGED <<link, host>>
    BY <1>1, <1>6 DEF IInv, TypeOK
  <2> QED BY <1>1, <1>6, <2>1, OtherStream
<1>7. StreamInv(s)'
  <2>1. StreamInv(s) /\ stream'[s] = "open"
    BY <1>1 DEF IInv, TypeOK
  <2>2. /\ sent[s] = 0 /\ target[s] = "none"
        /\ \A i \in 1..Len(wire) : wire[i].stream = s => wire[i].kind = "Ping"
    BY <1>1, <2>1 DEF StreamInv, ConnectInv
  <2>3. Taken(s) = 0 /\ Taken(s)' = 0
    <3>1. Taken(s) \in Nat /\ Taken(s)' = Taken(s)
      BY <1>3, TakenType DEF IInv, Taken
    <3>2. Taken(s) <= sent[s]
      BY <2>1 DEF StreamInv, QueueInv
    <3> QED BY <2>2, <3>1, <3>2
  <2>4. /\ \A i \in 1..Len(wire') : ~Is(wire'[i], "Data", s) /\ ~Is(wire'[i], "Close", s)
        /\ \A i \in 1..Len(wire') : Is(wire'[i], "ConnectTcp", s) => i = Len(wire')
        /\ Is(wire'[Len(wire')], "ConnectTcp", s) /\ Len(wire') \in 1..Len(wire')
    BY <1>2, <2>2 DEF Is
  <2>5. QueueInv(s)'
    BY <1>1, <1>3, <2>1, <2>3 DEF StreamInv, QueueInv
  <2>6. ConnectInv(s)'
    BY <1>3, <2>1, <2>2, <2>4 DEF ConnectInv
  <2>7. CloseInv(s)' /\ OnTheirWay(s)'
    BY <1>3, <2>2, <2>4 DEF CloseInv, OnTheirWay
  <2>8. Contiguous(s)'
    BY <1>1, <2>2, <2>3, <2>4 DEF Contiguous
  <2> QED BY <2>5, <2>6, <2>7, <2>8 DEF StreamInv
<1>9. PeerInv'
  BY <1>1, PeerWrites
<1> QED BY <1>4, <1>5, <1>6, <1>7, <1>9 DEF IInv

LEMMA SendDataOK == ASSUME IInv, NEW s \in Streams, SendData(s) PROVE IInv'
PROOF
<1> DEFINE n == sent[s] + 1
<1>1. /\ link = "up" /\ stream[s] = "open" /\ sent' = [sent EXCEPT ![s] = n]
      /\ Write("Data", s, n) /\ "Data" \in Kinds /\ n \in 0..MaxData /\ n \in 1..MaxData
      /\ txSeq' = txSeq + 1 /\ sent[s] \in Nat
      /\ UNCHANGED <<client, stream, pings, link, host>>
  BY TunnelAssumption DEF SendData, Kinds, IInv, TypeOK
<1>2. /\ session = "up"
      /\ wire' \in Seq(Frames) /\ Len(wire') = Len(wire) + 1 /\ Len(wire) \in Nat
      /\ \A i \in 1..Len(wire) : wire'[i] = wire[i]
      /\ wire'[Len(wire) + 1] = [seq |-> txSeq, kind |-> "Data", stream |-> s, data |-> n]
  BY <1>1, SenderFacts
<1>3. UNCHANGED <<rxSeq, session, active, target, queue, got>>
  BY <1>1 DEF host
<1>4. TypeOK'
  BY <1>1, <1>2, <1>3 DEF IInv, TypeOK
<1>5. EndInv'
  BY <1>1, <1>2, <1>3 DEF EndInv
<1>6. ASSUME NEW r \in Streams, r # s PROVE StreamInv(r)'
  <2>1. stream'[r] = stream[r] /\ sent'[r] = sent[r] /\ UNCHANGED <<link, host>>
    BY <1>1, <1>6 DEF IInv, TypeOK
  <2> HIDE DEF n
  <2> QED BY <1>1, <1>6, <2>1, OtherStream
<1>7. StreamInv(s)'
  <2>1. StreamInv(s) /\ stream'[s] = "open" /\ sent'[s] = n /\ stream[s] = "open"
    BY <1>1 DEF IInv, TypeOK
  <2>3. Taken(s) \in Nat /\ Taken(s)' = Taken(s) /\ Taken(s) <= sent[s]
    <3>1. Taken(s) \in Nat /\ Taken(s)' = Taken(s)
      BY <1>3, TakenType DEF IInv, Taken
    <3>2. Taken(s) <= sent[s]
      BY <2>1 DEF StreamInv, QueueInv
    <3> QED BY <3>1, <3>2
  <2>4. /\ Is(wire'[Len(wire')], "Data", s) /\ wire'[Len(wire')].data = n
        /\ wire'[Len(wire')].kind # "ConnectTcp" /\ wire'[Len(wire')].kind # "Close"
        /\ \A i \in 1..Len(wire') : i \in 1..Len(wire) \/ i = Len(wire')
        /\ \A i \in 1..Len(wire') : i - 1 <= Len(wire) /\ i \in Nat
        /\ Len(wire') \in 1..Len(wire') /\ Len(wire') - 1 = Len(wire)
        /\ \A i \in 1..Len(wire) : i \in 1..Len(wire')
    BY <1>2 DEF Is
  <2>a. \A i \in 1..Len(wire) : wire[i].data \in Nat
    BY FrameTypes DEF IInv
  <2> HIDE DEF n
  <2>5. QueueInv(s)'
    BY <1>1, <1>3, <2>1, <2>3 DEF StreamInv, QueueInv, n
  <2>6. ConnectInv(s)'
    BY <1>1, <1>2, <1>3, <2>1, <2>4 DEF StreamInv, ConnectInv, Is
  <2>7. CloseInv(s)'
    BY <1>1, <1>2, <1>3, <2>1, <2>4 DEF StreamInv, CloseInv, Is
  <2>8. OnTheirWay(s)'
    BY <1>1, <1>2, <1>3, <2>1, <2>4, <2>a DEF StreamInv, OnTheirWay, Is, n
  <2>9. Contiguous(s)'
    <3> SUFFICES ASSUME target[s] \in {"none", "up"} PROVE Contiguous(s)'
      BY <1>3 DEF Contiguous
    <3>1. /\ \A i \in 1..Len(wire) : Is(wire[i], "Data", s) =>
               /\ Taken(s) < wire[i].data
               /\ \/ wire[i].data = Taken(s) + 1
                  \/ \E j \in 1..(i - 1) : Is(wire[j], "Data", s) /\ wire[j].data + 1 = wire[i].data
          /\ \/ sent[s] = Taken(s)
             \/ \E i \in 1..Len(wire) : Is(wire[i], "Data", s) /\ wire[i].data = sent[s]
      BY <1>1, <2>1 DEF StreamInv, Contiguous
    <3>2. ASSUME NEW i \in 1..Len(wire'), Is(wire'[i], "Data", s)
          PROVE  /\ Taken(s) < wire'[i].data
                 /\ \/ wire'[i].data = Taken(s) + 1
                    \/ \E j \in 1..(i - 1) :
                         Is(wire'[j], "Data", s) /\ wire'[j].data + 1 = wire'[i].data
      <4>1. CASE i \in 1..Len(wire)
        <5>1. wire'[i] = wire[i] /\ \A j \in 1..(i - 1) : wire'[j] = wire[j]
          BY <1>2, <4>1
        <5> QED BY <3>1, <3>2, <4>1, <5>1
      <4>2. CASE i = Len(wire')
        <5>1. wire'[i].data = sent[s] + 1 /\ Taken(s) < wire'[i].data
          BY <1>1, <2>3, <2>4, <4>2 DEF n
        <5>2. CASE sent[s] = Taken(s)
          BY <5>1, <5>2
        <5>3. CASE \E j \in 1..Len(wire) : Is(wire[j], "Data", s) /\ wire[j].data = sent[s]
          <6>1. PICK j \in 1..Len(wire) : Is(wire[j], "Data", s) /\ wire[j].data = sent[s]
            BY <5>3
          <6>2. j \in 1..(i - 1) /\ wire'[j] = wire[j]
            BY <1>2, <4>2
          <6> QED BY <5>1, <6>1, <6>2
        <5> QED BY <3>1, <5>2, <5>3
      <4> QED BY <2>4, <4>1, <4>2
    <3>3. \E i \in 1..Len(wire') : Is(wire'[i], "Data", s) /\ wire'[i].data = sent'[s]
      BY <2>1, <2>4
    <3> QED BY <2>3, <3>2, <3>3 DEF Contiguous
  <2> QED BY <2>5, <2>6, <2>7, <2>8, <2>9 DEF StreamInv
<1>9. PeerInv'
  BY <1>1, PeerWrites
<1> QED BY <1>4, <1>5, <1>6, <1>7, <1>9 DEF IInv

LEMMA SendCloseOK == ASSUME IInv, NEW s \in Streams, SendClose(s) PROVE IInv'
PROOF
<1>1. /\ link = "up" /\ client = "peer" /\ stream[s] = "open"
      /\ stream' = [stream EXCEPT ![s] = "closed"]
      /\ Write("Close", s, 0) /\ "Close" \in Kinds /\ 0 \in 0..MaxData
      /\ txSeq' = txSeq + 1 /\ UNCHANGED <<client, sent, pings, link, host>>
  BY TunnelAssumption DEF SendClose, Kinds
<1>2. /\ session = "up"
      /\ wire' \in Seq(Frames) /\ Len(wire') = Len(wire) + 1 /\ Len(wire) \in Nat
      /\ \A i \in 1..Len(wire) : wire'[i] = wire[i]
      /\ wire'[Len(wire) + 1] = [seq |-> txSeq, kind |-> "Close", stream |-> s, data |-> 0]
  BY <1>1, SenderFacts
<1>3. UNCHANGED <<rxSeq, session, active, target, queue, got>>
  BY <1>1 DEF host
<1>4. TypeOK'
  BY <1>1, <1>2, <1>3 DEF IInv, TypeOK
<1>5. EndInv'
  BY <1>1, <1>2, <1>3 DEF EndInv
<1>6. ASSUME NEW r \in Streams, r # s PROVE StreamInv(r)'
  <2>1. stream'[r] = stream[r] /\ sent'[r] = sent[r] /\ UNCHANGED <<link, host>>
    BY <1>1, <1>6 DEF IInv, TypeOK
  <2> QED BY <1>1, <1>6, <2>1, OtherStream
<1>7. StreamInv(s)'
  <2>1. StreamInv(s) /\ stream'[s] = "closed" /\ UNCHANGED sent
    BY <1>1 DEF IInv, TypeOK
  <2>3. Taken(s)' = Taken(s)
    BY <1>3 DEF Taken
  <2>4. /\ ~Is(wire'[Len(wire')], "Data", s) /\ ~Is(wire'[Len(wire')], "ConnectTcp", s)
        /\ wire'[Len(wire')].kind # "Ping" /\ Len(wire') \in 1..Len(wire')
        /\ \A i \in 1..Len(wire') : i \in 1..Len(wire) \/ i = Len(wire')
        /\ \A i \in 1..Len(wire) : i \in 1..Len(wire')
        /\ \A i \in 1..Len(wire) : ~Is(wire[i], "Close", s)
    BY <1>1, <1>2, <2>1 DEF Is, StreamInv, CloseInv
  <2>5. QueueInv(s)'
    BY <1>1, <1>3, <2>1, <2>3 DEF StreamInv, QueueInv
  <2>6. ConnectInv(s)'
    <3>1. \A i \in 1..Len(wire') :
            Is(wire'[i], "ConnectTcp", s) \/ Is(wire'[i], "Data", s) =>
              i \in 1..Len(wire) /\ wire'[i] = wire[i]
      BY <1>2, <2>4
    <3>2. \A i \in 1..Len(wire) : i \in 1..Len(wire') /\ wire'[i] = wire[i]
      BY <1>2, <2>4
    <3>3. ConnectInv(s) /\ stream[s] # "new" /\ stream'[s] # "new"
      BY <1>1, <2>1 DEF StreamInv
    <3>4. ASSUME NEW i \in 1..Len(wire'), Is(wire'[i], "Data", s), target[s] = "none"
          PROVE  \E j \in 1..(i - 1) : Is(wire'[j], "ConnectTcp", s)
      <4>1. PICK j \in 1..(i - 1) : Is(wire[j], "ConnectTcp", s)
        BY <3>1, <3>3, <3>4 DEF ConnectInv
      <4>2. wire'[j] = wire[j]
        BY <1>2, <3>1, <3>4
      <4> QED BY <4>1, <4>2
    <3> QED BY <1>1, <1>3, <3>1, <3>2, <3>3, <3>4 DEF ConnectInv
  <2>7. CloseInv(s)'
    BY <1>1, <1>2, <1>3, <2>1, <2>4 DEF StreamInv, CloseInv
  <2>8. OnTheirWay(s)'
    BY <1>1, <1>2, <1>3, <2>1, <2>4 DEF StreamInv, OnTheirWay
  <2>9. Contiguous(s)'
    BY <1>1, <1>2, <1>3, <2>1, <2>3, <2>4 DEF StreamInv, Contiguous
  <2> QED BY <2>5, <2>6, <2>7, <2>8, <2>9 DEF StreamInv
<1>9. PeerInv'
  BY <1>1, PeerWrites
<1> QED BY <1>4, <1>5, <1>6, <1>7, <1>9 DEF IInv

LEMMA SendPingOK == ASSUME IInv, NEW s \in Streams, SendPing(s) PROVE IInv'
PROOF
<1>1. /\ link = "up" /\ client = "peer" /\ pings' \in 0..MaxPings
      /\ Write("Ping", s, 0) /\ "Ping" \in Kinds /\ 0 \in 0..MaxData
      /\ txSeq' = txSeq + 1 /\ UNCHANGED <<client, stream, sent, link, host>>
  BY TunnelAssumption DEF SendPing, Kinds, IInv, TypeOK
<1>2. /\ session = "up"
      /\ wire' \in Seq(Frames) /\ Len(wire') = Len(wire) + 1 /\ Len(wire) \in Nat
      /\ \A i \in 1..Len(wire) : wire'[i] = wire[i]
      /\ wire'[Len(wire) + 1] = [seq |-> txSeq, kind |-> "Ping", stream |-> s, data |-> 0]
  BY <1>1, SenderFacts
<1>3. UNCHANGED <<rxSeq, session, active, target, queue, got>>
  BY <1>1 DEF host
<1>4. TypeOK'
  BY <1>1, <1>2, <1>3 DEF IInv, TypeOK
<1>5. EndInv'
  BY <1>1, <1>2, <1>3 DEF EndInv
<1>6. ASSUME NEW r \in Streams PROVE StreamInv(r)'
  BY <1>1, OtherStream
<1>9. PeerInv'
  BY <1>1, PeerWrites
<1> QED BY <1>4, <1>5, <1>6, <1>9 DEF IInv

-----------------------------------------------------------------------------
(* The host's steps.                                                       *)

LEMMA ReceiveFacts ==
  ASSUME IInv, Receive
  PROVE  /\ session = "up" /\ session' = "up" /\ wire # <<>> /\ Fresh(wire[1])
         /\ wire' \in Seq(Frames) /\ Len(wire') = Len(wire) - 1 /\ Len(wire) \in Nat \ {0}
         /\ \A i \in 1..Len(wire') : wire'[i] = wire[i + 1]
         /\ \A i \in 2..Len(wire) : wire'[i - 1] = wire[i]
         /\ wire[1] \in Frames /\ rxSeq' = wire[1].seq + 1
         /\ UNCHANGED <<client, txSeq, stream, sent, pings, link, got>>
PROOF
<1>1. wire \in Seq(Frames) /\ wire # <<>> /\ wire' = Tail(wire)
  BY DEF IInv, TypeOK, Receive
<1>2. /\ wire' \in Seq(Frames) /\ Len(wire') = Len(wire) - 1 /\ Len(wire) \in Nat \ {0}
      /\ \A i \in 1..Len(wire') : wire'[i] = wire[i + 1]
      /\ \A i \in 2..Len(wire) : wire'[i - 1] = wire[i]
      /\ Head(wire) = wire[1] /\ wire[1] \in Frames
  BY <1>1, OneLess
<1>3. session = "up" /\ Fresh(Head(wire)) /\ rxSeq' = Head(wire).seq + 1
  BY DEF Receive
<1>4. /\ session' = session
      /\ UNCHANGED <<client, txSeq, stream, sent, pings, link, got>>
  BY DEF Receive, Connect, Enqueue, Closed, sender
<1> QED BY <1>1, <1>2, <1>3, <1>4

\* The host's step for each kind of frame.
LEMMA ReceiveKinds ==
  ASSUME IInv, Receive
  PROVE  \/ wire[1].kind = "ConnectTcp" /\ Connect(wire[1].stream)
         \/ wire[1].kind = "Data" /\ Enqueue(wire[1].stream, wire[1].data)
         \/ wire[1].kind = "Close" /\ Closed(wire[1].stream)
         \/ wire[1].kind = "Ping" /\ UNCHANGED <<active, target, queue>>
PROOF
<1>1. Head(wire) = wire[1]
  <2>1. wire \in Seq(Frames) /\ wire # <<>>
    BY DEF IInv, TypeOK, Receive
  <2> QED BY <2>1, QueueShrinks
<1> QED BY <1>1 DEF Receive

LEMMA ReceiveType == ASSUME IInv, Receive PROVE TypeOK'
PROOF
<1>1. /\ session' = "up" /\ wire' \in Seq(Frames) /\ rxSeq' = wire[1].seq + 1
      /\ wire[1] \in Frames
      /\ UNCHANGED <<client, txSeq, stream, sent, pings, link, got>>
  BY ReceiveFacts
<1>2. /\ wire[1].stream \in Streams /\ wire[1].data \in 0..MaxData /\ rxSeq' \in Nat
  BY <1>1 DEF Frames
<1>3. /\ active' \in SUBSET Streams
      /\ target' \in [Streams -> {"none", "up", "failed", "gone"}]
      /\ queue' \in [Streams -> Seq(1..MaxData)]
      /\ \A s \in Streams : Len(queue'[s]) <= Capacity
  <2> DEFINE s == wire[1].stream
  <2>0. /\ active \in SUBSET Streams
        /\ target \in [Streams -> {"none", "up", "failed", "gone"}]
        /\ queue \in [Streams -> Seq(1..MaxData)]
        /\ \A r \in Streams : Len(queue[r]) <= Capacity
    BY DEF IInv, TypeOK
  <2>1. CASE Connect(s)
    BY <1>2, <2>0, <2>1 DEF Connect
  <2>2. CASE wire[1].kind = "Data" /\ Enqueue(s, wire[1].data)
    <3>1. CASE UNCHANGED <<active, target, queue>>
      BY <2>0, <3>1
    <3>2. CASE ~UNCHANGED <<active, target, queue>>
      <4>1. /\ s \in active /\ target[s] = "up" /\ Room(s) /\ UNCHANGED <<active, target>>
            /\ queue' = [queue EXCEPT ![s] = Append(queue[s], wire[1].data)]
        BY <2>2, <3>2 DEF Enqueue
      <4>2. 1 \in 1..Len(wire) /\ StreamInv(s) /\ Is(wire[1], "Data", s)
        BY <1>2, <2>2, ReceiveFacts DEF IInv, Is
      <4>3. Taken(s) < wire[1].data /\ Taken(s) \in Nat
        BY <1>2, <4>1, <4>2, TakenType DEF StreamInv, Contiguous, IInv
      <4>4. wire[1].data \in 1..MaxData
        BY <1>2, <4>3, TunnelAssumption
      <4>5. /\ Append(queue[s], wire[1].data) \in Seq(1..MaxData)
            /\ Len(Append(queue[s], wire[1].data)) = Len(queue[s]) + 1 /\ Len(queue[s]) \in Nat
        BY <1>2, <2>0, <4>4, QueueGrows
      <4>6. Len(queue[s]) + 1 <= Capacity
        BY <4>1, <4>5, TunnelAssumption DEF Room
      <4> HIDE DEF s
      <4> QED BY <1>2, <2>0, <4>1, <4>5, <4>6 DEF s
    <3> QED BY <3>1, <3>2
  <2>3. CASE Closed(s)
    BY <2>0, <2>3 DEF Closed
  <2>4. CASE UNCHANGED <<active, target, queue>>
    BY <2>0, <2>4
  <2> QED BY <2>1, <2>2, <2>3, <2>4, ReceiveKinds
<1> QED BY <1>1, <1>2, <1>3 DEF IInv, TypeOK

\* Without its first frame, what is on its way keeps its order.
LEMMA PoppedData ==
  ASSUME IInv, Receive, NEW s \in Streams
  PROVE  OnTheirWay(s)'
PROOF
<1>1. /\ Len(wire') = Len(wire) - 1 /\ Len(wire) \in Nat \ {0}
      /\ \A i \in 1..Len(wire') : wire'[i] = wire[i + 1]
      /\ UNCHANGED sent /\ OnTheirWay(s)
  BY ReceiveFacts DEF IInv, StreamInv
<1>2. ASSUME NEW i \in 1..Len(wire'), Is(wire'[i], "Data", s)
      PROVE  /\ wire'[i].data <= sent[s]
             /\ \A j \in 1..(i - 1) : Is(wire'[j], "Data", s) => wire'[j].data < wire'[i].data
  <2>1. i + 1 \in 1..Len(wire) /\ wire'[i] = wire[i + 1]
    BY <1>1
  <2>2. \A j \in 1..(i - 1) : j + 1 \in 1..(i + 1 - 1) /\ wire'[j] = wire[j + 1]
    BY <1>1
  <2>3. /\ wire[i + 1].data <= sent[s]
        /\ \A j \in 1..(i + 1 - 1) : Is(wire[j], "Data", s) => wire[j].data < wire[i + 1].data
    BY <1>1, <1>2, <2>1 DEF OnTheirWay
  <2> QED BY <2>1, <2>2, <2>3
<1> QED BY <1>1, <1>2 DEF OnTheirWay

LEMMA PoppedClose ==
  ASSUME IInv, Receive, NEW s \in Streams,
         target'[s] = "up" => target[s] = "up" \/ s \in active',
         s \in active => s \in active' \/ Is(wire[1], "Close", s)
  PROVE  CloseInv(s)'
PROOF
<1>1. /\ session = "up" /\ Len(wire') = Len(wire) - 1 /\ Len(wire) \in Nat \ {0}
      /\ \A i \in 1..Len(wire') : wire'[i] = wire[i + 1]
      /\ UNCHANGED stream /\ CloseInv(s)
  BY ReceiveFacts DEF IInv, StreamInv
<1>2. ASSUME NEW i \in 1..Len(wire'), Is(wire'[i], "Close", s)
      PROVE  /\ stream[s] = "closed"
             /\ \A j \in (i + 1)..Len(wire') : ~Is(wire'[j], "Data", s)
  <2>1. i + 1 \in 1..Len(wire) /\ wire'[i] = wire[i + 1]
    BY <1>1
  <2>2. \A j \in (i + 1)..Len(wire') : j + 1 \in (i + 1 + 1)..Len(wire) /\ wire'[j] = wire[j + 1]
    BY <1>1
  <2> QED BY <1>1, <1>2, <2>1, <2>2 DEF CloseInv
<1>3. ASSUME target'[s] = "up", s \notin active'
      PROVE  stream[s] = "closed" /\ \A i \in 1..Len(wire') : ~Is(wire'[i], "Data", s)
  <2>1. \A i \in 1..Len(wire') : i + 1 \in 2..Len(wire) /\ i + 1 \in 1..Len(wire)
    BY <1>1
  <2>2. CASE Is(wire[1], "Close", s)
    <3>1. stream[s] = "closed" /\ \A j \in 2..Len(wire) : ~Is(wire[j], "Data", s)
      <4>1. 1 \in 1..Len(wire) /\ 1 + 1 = 2
        BY <1>1
      <4> QED BY <1>1, <2>2, <4>1 DEF CloseInv
    <3> QED BY <1>1, <2>1, <3>1
  <2>3. CASE s \notin active
    <3>1. target[s] = "up"
      BY <1>3
    <3>2. stream[s] = "closed" /\ \A i \in 1..Len(wire) : ~Is(wire[i], "Data", s)
      BY <1>1, <2>3, <3>1 DEF CloseInv
    <3> QED BY <1>1, <2>1, <3>2
  <2> QED BY <1>3, <2>2, <2>3
<1> QED BY <1>1, <1>2, <1>3 DEF CloseInv

\* As long as the host takes no data of the stream.
LEMMA PoppedContiguous ==
  ASSUME IInv, Receive, NEW s \in Streams, ~Is(wire[1], "Data", s),
         target'[s] \in {"none", "up"} => target[s] \in {"none", "up"},
         queue'[s] = queue[s]
  PROVE  Contiguous(s)'
PROOF
<1> SUFFICES ASSUME target'[s] \in {"none", "up"} PROVE Contiguous(s)'
  BY DEF Contiguous
<1>1. /\ Len(wire') = Len(wire) - 1 /\ Len(wire) \in Nat \ {0}
      /\ \A i \in 1..Len(wire') : wire'[i] = wire[i + 1]
      /\ \A i \in 2..Len(wire) : wire'[i - 1] = wire[i]
      /\ UNCHANGED <<stream, sent, link, got>>
  BY ReceiveFacts
<1>2. Contiguous(s) /\ target[s] \in {"none", "up"} /\ Taken(s)' = Taken(s)
  BY <1>1 DEF IInv, StreamInv, Taken
<1>3. ASSUME NEW i \in 1..Len(wire'), Is(wire'[i], "Data", s)
      PROVE  /\ Taken(s) < wire'[i].data
             /\ \/ wire'[i].data = Taken(s) + 1
                \/ \E j \in 1..(i - 1) :
                     Is(wire'[j], "Data", s) /\ wire'[j].data + 1 = wire'[i].data
  <2>1. i + 1 \in 1..Len(wire) /\ wire'[i] = wire[i + 1] /\ i + 1 - 1 = i
    BY <1>1
  <2>2. /\ Taken(s) < wire[i + 1].data
        /\ \/ wire[i + 1].data = Taken(s) + 1
           \/ \E j \in 1..i : Is(wire[j], "Data", s) /\ wire[j].data + 1 = wire[i + 1].data
    BY <1>2, <1>3, <2>1 DEF Contiguous
  <2>3. ASSUME NEW j \in 1..i, Is(wire[j], "Data", s)
        PROVE  j - 1 \in 1..(i - 1) /\ wire'[j - 1] = wire[j]
    BY <1>1, <2>1, <2>3
  <2> QED BY <2>1, <2>2, <2>3
<1>4. ASSUME link = "up", stream[s] = "open", sent[s] # Taken(s)
      PROVE  \E i \in 1..Len(wire') : Is(wire'[i], "Data", s) /\ wire'[i].data = sent[s]
  <2>1. PICK i \in 1..Len(wire) : Is(wire[i], "Data", s) /\ wire[i].data = sent[s]
    BY <1>2, <1>4 DEF Contiguous
  <2>2. i - 1 \in 1..Len(wire') /\ wire'[i - 1] = wire[i]
    BY <1>1, <2>1
  <2> QED BY <2>1, <2>2
<1> QED BY <1>1, <1>2, <1>3, <1>4 DEF Contiguous

\* A frame is read that neither opens the stream nor has data of it.
LEMMA PoppedOther ==
  ASSUME IInv, Receive, NEW s \in Streams,
         ~Is(wire[1], "ConnectTcp", s), ~Is(wire[1], "Data", s),
         target'[s] = target[s], queue'[s] = queue[s],
         s \in active => s \in active' \/ Is(wire[1], "Close", s)
  PROVE  StreamInv(s)'
PROOF
<1>1. /\ session = "up" /\ Len(wire') = Len(wire) - 1 /\ Len(wire) \in Nat \ {0}
      /\ \A i \in 1..Len(wire') : wire'[i] = wire[i + 1]
      /\ \A i \in 2..Len(wire) : wire'[i - 1] = wire[i]
      /\ UNCHANGED <<stream, sent, link, got>>
  BY ReceiveFacts
<1>2. StreamInv(s) /\ Taken(s)' = Taken(s)
  BY <1>1 DEF IInv, Taken
<1>3. /\ \A i \in 1..Len(wire') : i + 1 \in 1..Len(wire)
      /\ \A i \in 1..Len(wire) : i = 1 \/ (i - 1 \in 1..Len(wire') /\ i \in 2..Len(wire))
  BY <1>1
<1>4. QueueInv(s)'
  BY <1>1, <1>2 DEF StreamInv, QueueInv
<1>5. ConnectInv(s)'
  <2> USE <1>1, <1>2, <1>3
  <2>1. stream[s] = "new" =>
          /\ target[s] = "none" /\ sent[s] = 0
          /\ \A i \in 1..Len(wire') : wire'[i].stream = s => wire'[i].kind = "Ping"
    BY DEF StreamInv, ConnectInv
  <2>2. ASSUME NEW i \in 1..Len(wire'), Is(wire'[i], "ConnectTcp", s)
        PROVE  target[s] = "none" /\ \A j \in 1..Len(wire') : Is(wire'[j], "ConnectTcp", s) => j = i
    <3>1. target[s] = "none"
          /\ \A a, b \in 1..Len(wire) :
               Is(wire[a], "ConnectTcp", s) /\ Is(wire[b], "ConnectTcp", s) => b = a
      BY <2>2 DEF StreamInv, ConnectInv
    <3>2. ASSUME NEW j \in 1..Len(wire'), Is(wire'[j], "ConnectTcp", s) PROVE j = i
      <4>1. PICK a \in 1..Len(wire) : a = i + 1 /\ Is(wire[a], "ConnectTcp", s)
        BY <2>2
      <4>2. PICK b \in 1..Len(wire) : b = j + 1 /\ Is(wire[b], "ConnectTcp", s)
        BY <3>2
      <4>3. b = a
        BY <3>1, <4>1, <4>2
      <4> QED BY <4>1, <4>2, <4>3
    <3> QED BY <3>1, <3>2
  <2>3. ASSUME link = "up", stream[s] # "new", target[s] = "none"
        PROVE  \E i \in 1..Len(wire') : Is(wire'[i], "ConnectTcp", s)
    <3>1. PICK i \in 1..Len(wire) : Is(wire[i], "ConnectTcp", s)
      BY <2>3 DEF StreamInv, ConnectInv
    <3>2. i - 1 \in 1..Len(wire') /\ wire'[i - 1] = wire[i]
      BY <3>1
    <3> QED BY <3>1, <3>2
  <2>4. ASSUME target[s] = "none", NEW i \in 1..Len(wire'), Is(wire'[i], "Data", s)
        PROVE  \E j \in 1..(i - 1) : Is(wire'[j], "ConnectTcp", s)
    <3>1. PICK j \in 1..i : Is(wire[j], "ConnectTcp", s)
      <4>1. i + 1 \in 1..Len(wire) /\ Is(wire[i + 1], "Data", s) /\ i + 1 - 1 = i
        BY <2>4
      <4> QED BY <2>4, <4>1 DEF StreamInv, ConnectInv
    <3>2. j - 1 \in 1..(i - 1) /\ wire'[j - 1] = wire[j]
      BY <3>1
    <3> QED BY <3>1, <3>2
  <2> QED BY <2>1, <2>2, <2>3, <2>4 DEF ConnectInv
<1>6. CloseInv(s)'
  BY PoppedClose
<1>7. OnTheirWay(s)'
  BY PoppedData
<1>8. Contiguous(s)'
  BY PoppedContiguous
<1> QED BY <1>4, <1>5, <1>6, <1>7, <1>8 DEF StreamInv

\* ConnectTcp is read: the stream's data is behind it.
LEMMA PoppedConnect ==
  ASSUME IInv, Receive, NEW s \in Streams, Is(wire[1], "ConnectTcp", s), Connect(s)
  PROVE  StreamInv(s)'
PROOF
<1>1. /\ session = "up" /\ Len(wire') = Len(wire) - 1 /\ Len(wire) \in Nat \ {0}
      /\ \A i \in 1..Len(wire') : wire'[i] = wire[i + 1]
      /\ UNCHANGED <<stream, sent, link, got>>
  BY ReceiveFacts
<1>2. StreamInv(s) /\ 1 \in 1..Len(wire)
  BY <1>1 DEF IInv
<1>3. /\ stream[s] # "new" /\ target[s] = "none"
      /\ \A j \in 1..Len(wire) : Is(wire[j], "ConnectTcp", s) => j = 1
  BY <1>2 DEF StreamInv, ConnectInv, Is
<1>4. /\ (target'[s] = "up" /\ s \in active') \/ target'[s] = "failed"
      /\ queue'[s] = queue[s]
  BY DEF Connect, IInv, TypeOK
<1>5. Taken(s)' = Taken(s)
  BY <1>1, <1>4 DEF Taken
<1>6. \A i \in 1..Len(wire') : ~Is(wire'[i], "ConnectTcp", s)
  <2>1. \A i \in 1..Len(wire') : i + 1 \in 1..Len(wire) /\ i + 1 # 1
    BY <1>1
  <2> QED BY <1>1, <1>3, <2>1
<1>7. QueueInv(s)'
  BY <1>1, <1>2, <1>4, <1>5 DEF StreamInv, QueueInv
<1>8. ConnectInv(s)'
  BY <1>1, <1>3, <1>4, <1>6 DEF ConnectInv
<1>9. CloseInv(s)'
  <2>1. s \in active => s \in active'
    BY DEF Connect
  <2> QED BY <1>4, <2>1, PoppedClose
<1>10. OnTheirWay(s)'
  BY PoppedData
<1>11. Contiguous(s)'
  <2>1. ~Is(wire[1], "Data", s)
    BY DEF Is
  <2> QED BY <1>3, <1>4, <2>1, PoppedContiguous
<1> QED BY <1>7, <1>8, <1>9, <1>10, <1>11 DEF StreamInv

\* Data is read: it is the next piece, if the stream is still served.
LEMMA PoppedOwn ==
  ASSUME IInv, Receive, NEW s \in Streams, Is(wire[1], "Data", s), Enqueue(s, wire[1].data)
  PROVE  StreamInv(s)'
PROOF
<1> DEFINE n == wire[1].data
<1>1. /\ session = "up" /\ Len(wire') = Len(wire) - 1 /\ Len(wire) \in Nat \ {0}
      /\ \A i \in 1..Len(wire') : wire'[i] = wire[i + 1]
      /\ \A i \in 2..Len(wire) : wire'[i - 1] = wire[i]
      /\ UNCHANGED <<stream, sent, link, got>>
  BY ReceiveFacts
<1>2. StreamInv(s) /\ 1 \in 1..Len(wire) /\ UNCHANGED <<active, target>>
  BY <1>1 DEF IInv, Enqueue
<1>3. target[s] # "none" /\ stream[s] # "new"
  <2>1. ~\E j \in 1..(1 - 1) : Is(wire[j], "ConnectTcp", s)
    OBVIOUS
  <2> QED BY <1>2, <2>1 DEF StreamInv, ConnectInv, Is
<1>4. target[s] = "up" => s \in active
  BY <1>1, <1>2 DEF StreamInv, CloseInv
<1>5. /\ n \in Nat /\ n <= sent[s]
      /\ target[s] = "up" => n = Taken(s) + 1
      /\ Taken(s) \in Nat
  <2>1. Taken(s) \in Nat /\ n \in Nat
    BY <1>2, TakenType, FrameTypes DEF IInv
  <2>2. n <= sent[s]
    BY <1>2 DEF StreamInv, OnTheirWay
  <2>3. target[s] = "up" => n = Taken(s) + 1
    <3>1. ~\E j \in 1..(1 - 1) : Is(wire[j], "Data", s) /\ wire[j].data + 1 = n
      OBVIOUS
    <3> QED BY <1>2, <3>1 DEF StreamInv, Contiguous
  <2> QED BY <2>1, <2>2, <2>3
<1>6. \/ target[s] = "up" /\ queue' = [queue EXCEPT ![s] = Append(queue[s], n)]
      \/ target[s] # "up" /\ UNCHANGED queue
  BY <1>4 DEF Enqueue
<1>7. QueueInv(s)'
  <2>1. CASE target[s] # "up"
    BY <1>1, <1>2, <1>6, <2>1 DEF StreamInv, QueueInv, Taken
  <2>2. CASE target[s] = "up"
    <3>1. queue[s] \in Seq(1..MaxData) /\ Len(got[s]) \in Nat /\ Len(queue[s]) \in Nat
      BY TakenType DEF IInv, TypeOK
    <3>2. queue'[s] = Append(queue[s], n)
      BY <1>6, <2>2 DEF IInv, TypeOK
    <3> HIDE DEF n
    <3>3. /\ Len(queue'[s]) = Len(queue[s]) + 1
          /\ \A i \in 1..Len(queue[s]) : queue'[s][i] = queue[s][i]
          /\ queue'[s][Len(queue[s]) + 1] = n
      BY <3>1, <3>2, QueueTail
    <3>a. PICK g \in Nat : g = Len(got[s])
      BY <3>1
    <3>b. PICK q \in Nat : q = Len(queue[s])
      BY <3>1
    <3>4. n = g + q + 1
      BY <1>5, <2>2, <3>a, <3>b DEF Taken
    <3>5. ASSUME NEW i \in 1..Len(queue'[s]) PROVE queue'[s][i] = Len(got[s]) + i
      <4>1. CASE i \in 1..Len(queue[s])
        BY <1>2, <3>3, <4>1 DEF StreamInv, QueueInv
      <4>2. CASE i = q + 1
        <5>1. queue'[s][i] = n /\ n = g + i
          BY <3>3, <3>4, <3>b, <4>2
        <5> QED BY <3>a, <5>1
      <4> QED BY <3>3, <3>b, <4>1, <4>2
    <3>6. Len(got[s]) + Len(queue'[s]) <= sent[s]
      <4>1. Len(queue'[s]) = q + 1 /\ g + (q + 1) = n
        BY <3>3, <3>4, <3>b
      <4> QED BY <1>5, <3>a, <4>1
    <3>7. \A i \in 1..Len(got[s]) : got[s][i] = i
      BY <1>2 DEF StreamInv, QueueInv
    <3> QED BY <1>1, <3>5, <3>6, <3>7 DEF QueueInv, Taken
  <2> QED BY <2>1, <2>2
<1>8. ConnectInv(s)'
  <2>1. \A i \in 1..Len(wire) : ~Is(wire[i], "ConnectTcp", s)
    BY <1>2, <1>3 DEF StreamInv, ConnectInv
  <2>2. \A i \in 1..Len(wire') : i + 1 \in 1..Len(wire)
    BY <1>1
  <2> QED BY <1>1, <1>2, <1>3, <2>1, <2>2 DEF ConnectInv
<1>9. CloseInv(s)'
  BY <1>2, PoppedClose
<1>10. OnTheirWay(s)'
  BY PoppedData
<1>11. Contiguous(s)'
  <2> SUFFICES ASSUME target'[s] \in {"none", "up"} PROVE Contiguous(s)'
    BY DEF Contiguous
  <2>1. target[s] = "up" /\ target'[s] = "up" /\ n = Taken(s) + 1
    BY <1>2, <1>3, <1>5
  <2>2. Taken(s)' = n
    <3>1. queue[s] \in Seq(1..MaxData) /\ Len(got[s]) \in Nat /\ Len(queue[s]) \in Nat
      BY TakenType DEF IInv, TypeOK
    <3>2. queue'[s] = Append(queue[s], n)
      BY <1>6, <2>1 DEF IInv, TypeOK
    <3>3. Len(queue'[s]) = Len(queue[s]) + 1
      <4> HIDE DEF n
      <4> QED BY <3>1, <3>2, QueueTail
    <3>a. PICK g \in Nat : g = Len(got[s])
      BY <3>1
    <3>b. PICK q \in Nat : q = Len(queue[s])
      BY <3>1
    <3>4. n = g + q + 1 /\ Len(queue'[s]) = q + 1 /\ g + (q + 1) = n
      <4>1. Taken(s) = g + q
        BY <3>a, <3>b DEF Taken
      <4> HIDE DEF n
      <4> QED BY <2>1, <3>3, <3>b, <4>1
    <3> HIDE DEF n
    <3> QED BY <1>1, <3>a, <3>4 DEF Taken
  <2>3. ASSUME NEW i \in 1..Len(wire'), Is(wire'[i], "Data", s)
        PROVE  /\ n < wire'[i].data
               /\ \/ wire'[i].data = n + 1
                  \/ \E j \in 1..(i - 1) :
                       Is(wire'[j], "Data", s) /\ wire'[j].data + 1 = wire'[i].data
    <3>1. i + 1 \in 1..Len(wire) /\ wire'[i] = wire[i + 1] /\ i + 1 - 1 = i /\ 1 \in 1..i
      BY <1>1
    <3>2. /\ \A j \in 1..i : Is(wire[j], "Data", s) => wire[j].data < wire[i + 1].data
          /\ \/ wire[i + 1].data = n
             \/ \E j \in 1..i : Is(wire[j], "Data", s) /\ wire[j].data + 1 = wire[i + 1].data
      BY <1>2, <2>1, <2>3, <3>1 DEF StreamInv, OnTheirWay, Contiguous
    <3>3. n < wire[i + 1].data /\ n \in Nat /\ wire[i + 1].data \in Nat
      BY <1>5, <3>1, <3>2, FrameTypes DEF IInv
    <3>4. PICK j \in 1..i : Is(wire[j], "Data", s) /\ wire[j].data + 1 = wire[i + 1].data
      BY <3>2, <3>3
    <3>5. CASE j = 1
      BY <3>1, <3>3, <3>4, <3>5
    <3>6. CASE j # 1
      <4>1. j - 1 \in 1..(i - 1) /\ wire'[j - 1] = wire[j]
        BY <1>1, <3>1, <3>4, <3>6
      <4> QED BY <3>1, <3>3, <3>4, <4>1
    <3> QED BY <3>5, <3>6
  <2>4. ASSUME link = "up", stream[s] = "open", sent[s] # n
        PROVE  \E i \in 1..Len(wire') : Is(wire'[i], "Data", s) /\ wire'[i].data = sent[s]
    <3>1. sent[s] # Taken(s)
      BY <1>5, <2>1
    <3>2. PICK i \in 1..Len(wire) : Is(wire[i], "Data", s) /\ wire[i].data = sent[s]
      BY <1>2, <2>1, <2>4, <3>1 DEF StreamInv, Contiguous
    <3>3. i - 1 \in 1..Len(wire') /\ wire'[i - 1] = wire[i]
      BY <1>1, <2>4, <3>2
    <3> QED BY <3>2, <3>3
  <2> HIDE DEF n
  <2> QED BY <1>1, <2>2, <2>3, <2>4 DEF Contiguous
<1> QED BY <1>7, <1>8, <1>9, <1>10, <1>11 DEF StreamInv

LEMMA ReceiveOK == ASSUME IInv, Receive PROVE IInv'
PROOF
<1>1. /\ session = "up" /\ session' = "up" /\ wire # <<>> /\ Fresh(wire[1])
      /\ Len(wire') = Len(wire) - 1 /\ Len(wire) \in Nat \ {0} /\ 1 \in 1..Len(wire)
      /\ \A i \in 1..Len(wire') : wire'[i] = wire[i + 1]
      /\ rxSeq' = wire[1].seq + 1
      /\ UNCHANGED <<client, txSeq, stream, sent, pings, link, got>>
  BY ReceiveFacts
<1>2. TypeOK'
  BY ReceiveType
<1>3. EndInv'
  BY <1>1 DEF EndInv
<1>4. ASSUME NEW s \in Streams PROVE StreamInv(s)'
  <2> DEFINE r == wire[1].stream
  <2>1. r \in Streams
    BY <1>1, FrameTypes DEF IInv
  <2>2. CASE wire[1].kind = "ConnectTcp" /\ Connect(r)
    <3>1. CASE r = s
      BY <2>2, <3>1, PoppedConnect DEF Is
    <3>2. CASE r # s
      <4>1. /\ target'[s] = target[s] /\ queue'[s] = queue[s] /\ (s \in active => s \in active')
            /\ ~Is(wire[1], "ConnectTcp", s) /\ ~Is(wire[1], "Data", s)
        BY <2>2, <3>2 DEF Connect, Is, IInv, TypeOK
      <4> QED BY <4>1, PoppedOther
    <3> QED BY <3>1, <3>2
  <2>3. CASE wire[1].kind = "Data" /\ Enqueue(r, wire[1].data)
    <3>1. CASE r = s
      BY <2>3, <3>1, PoppedOwn DEF Is
    <3>2. CASE r # s
      <4>1. /\ target'[s] = target[s] /\ queue'[s] = queue[s] /\ (s \in active => s \in active')
            /\ ~Is(wire[1], "ConnectTcp", s) /\ ~Is(wire[1], "Data", s)
        BY <2>3, <3>2 DEF Enqueue, Is, IInv, TypeOK
      <4> QED BY <4>1, PoppedOther
    <3> QED BY <3>1, <3>2
  <2>4. CASE wire[1].kind = "Close" /\ Closed(r)
    <3>1. /\ target'[s] = target[s] /\ queue'[s] = queue[s]
          /\ s \in active => s \in active' \/ Is(wire[1], "Close", s)
          /\ ~Is(wire[1], "ConnectTcp", s) /\ ~Is(wire[1], "Data", s)
      BY <2>4 DEF Closed, Is
    <3> QED BY <3>1, PoppedOther
  <2>5. CASE wire[1].kind = "Ping" /\ UNCHANGED <<active, target, queue>>
    <3>1. ~Is(wire[1], "ConnectTcp", s) /\ ~Is(wire[1], "Data", s)
      BY <2>5 DEF Is
    <3> QED BY <2>5, <3>1, PoppedOther
  <2> QED BY <2>2, <2>3, <2>4, <2>5, ReceiveKinds
<1>6. PeerInv'
  <2> SUFFICES ASSUME client = "peer" PROVE PeerInv'
    BY <1>1 DEF PeerInv
  <2>1. /\ \A i \in 1..Len(wire) :
             /\ wire[i].seq \in Nat /\ wire[i].seq < txSeq
             /\ \A j \in 1..(i - 1) : wire[j].seq < wire[i].seq
        /\ txSeq \in Nat
    BY FrameTypes DEF IInv, TypeOK, PeerInv
  <2>2. rxSeq' <= txSeq'
    BY <1>1, <2>1
  <2>3. ASSUME NEW i \in 1..Len(wire')
        PROVE  /\ rxSeq' <= wire'[i].seq /\ wire'[i].seq < txSeq
               /\ \A j \in 1..(i - 1) : wire'[j].seq < wire'[i].seq
    <3>1. i + 1 \in 1..Len(wire) /\ wire'[i] = wire[i + 1] /\ 1 \in 1..(i + 1 - 1)
      BY <1>1
    <3>2. \A j \in 1..(i - 1) : j + 1 \in 1..(i + 1 - 1) /\ wire'[j] = wire[j + 1]
      BY <1>1
    <3>3. rxSeq' <= wire[i + 1].seq
      <4>1. wire[1].seq < wire[i + 1].seq /\ wire[1].seq \in Nat /\ wire[i + 1].seq \in Nat
        BY <1>1, <2>1, <3>1
      <4> QED BY <1>1, <4>1
    <3>4. \A j \in 1..(i - 1) : wire[j + 1].seq < wire[i + 1].seq
      BY <2>1, <3>1, <3>2
    <3> QED BY <2>1, <3>1, <3>2, <3>3, <3>4
  <2> QED BY <1>1, <2>2, <2>3 DEF PeerInv
<1> QED BY <1>2, <1>3, <1>4, <1>6 DEF IInv

\* The session ends, and what was on its way is gone.
LEMMA SessionEnds ==
  ASSUME IInv, session' \in {"ended", "refused"}, client = "peer" => session' = "ended",
         wire' = <<>>, link' \in {"finished", "cut"}, active' = {},
         UNCHANGED <<sender, rxSeq, target, queue, got>>
  PROVE  IInv'
PROOF
<1>1. wire' \in Seq(Frames) /\ Len(wire') = 0
  OBVIOUS
<1>2. TypeOK'
  BY <1>1 DEF IInv, TypeOK, sender
<1>3. EndInv'
  BY DEF EndInv
<1>4. ASSUME NEW s \in Streams PROVE StreamInv(s)'
  <2>1. StreamInv(s) /\ Taken(s)' = Taken(s)
    BY DEF IInv, Taken
  <2>2. QueueInv(s)'
    BY <2>1 DEF StreamInv, QueueInv, sender
  <2>3. ConnectInv(s)' /\ CloseInv(s)' /\ OnTheirWay(s)' /\ Contiguous(s)'
    BY <1>1, <2>1 DEF StreamInv, ConnectInv, CloseInv, OnTheirWay, Contiguous, sender
  <2> QED BY <2>2, <2>3 DEF StreamInv
<1>6. PeerInv'
  BY <1>1 DEF IInv, PeerInv, sender
<1> QED BY <1>2, <1>3, <1>4, <1>6 DEF IInv

LEMMA RefuseOK == ASSUME IInv, Refuse PROVE IInv'
PROOF
<1>1. wire \in Seq(Frames) /\ wire # <<>> /\ ~(wire[1].seq >= rxSeq)
  <2>1. wire \in Seq(Frames) /\ wire # <<>>
    BY DEF IInv, TypeOK, Refuse
  <2>2. Head(wire) = wire[1]
    BY <2>1, QueueShrinks
  <2> QED BY <2>1, <2>2 DEF Refuse, Fresh
<1>2. 1 \in 1..Len(wire)
  BY <1>1
<1>3. client # "peer"
  <2>1. client = "peer" => rxSeq <= wire[1].seq /\ wire[1].seq \in Nat /\ rxSeq \in Nat
    BY <1>2, FrameTypes DEF IInv, TypeOK, PeerInv
  <2> QED BY <1>1, <2>1
<1> QED BY <1>3, SessionEnds DEF Refuse

LEMMA EndOK == ASSUME IInv, End PROVE IInv'
PROOF
<1>1. link' \in {"finished", "cut"}
  BY DEF IInv, TypeOK, End
<1> QED BY <1>1, SessionEnds DEF End

\* The link is lost, and with it the frames from some number on.
LEMMA LinkLost ==
  ASSUME IInv, session = "up", link' \in {"finished", "cut"}, UNCHANGED <<sender, host>>,
         NEW n \in 0..Len(wire), wire' = SubSeq(wire, 1, n)
  PROVE  IInv'
PROOF
<1>1. /\ wire' \in Seq(Frames) /\ Len(wire') = n /\ n <= Len(wire) /\ Len(wire) \in Nat
      /\ \A i \in 1..Len(wire') : wire'[i] = wire[i]
  BY CutOff DEF IInv, TypeOK
<1>2. /\ \A i \in 1..Len(wire') : i \in 1..Len(wire)
      /\ \A i \in 1..Len(wire') : \A j \in 1..(i - 1) : j \in 1..Len(wire')
  BY <1>1
<1>3. TypeOK'
  BY <1>1 DEF IInv, TypeOK, sender, host
<1>4. EndInv'
  BY DEF EndInv, host
<1>5. ASSUME NEW s \in Streams PROVE StreamInv(s)'
  <2>1. StreamInv(s) /\ Taken(s)' = Taken(s)
    BY DEF IInv, Taken, host
  <2>2. QueueInv(s)'
    BY <2>1 DEF StreamInv, QueueInv, sender, host
  <2>3. ConnectInv(s)'
    BY <1>1, <1>2, <2>1 DEF StreamInv, ConnectInv, sender, host
  <2>4. CloseInv(s)'
    BY <1>1, <1>2, <2>1 DEF StreamInv, CloseInv, sender, host
  <2>5. OnTheirWay(s)'
    BY <1>1, <1>2, <2>1 DEF StreamInv, OnTheirWay, sender, host
  <2>6. Contiguous(s)'
    BY <1>1, <1>2, <2>1 DEF StreamInv, Contiguous, sender, host
  <2> QED BY <2>2, <2>3, <2>4, <2>5, <2>6 DEF StreamInv
<1>7. PeerInv'
  BY <1>1, <1>2 DEF IInv, PeerInv, sender, host
<1> QED BY <1>3, <1>4, <1>5, <1>7 DEF IInv

LEMMA CutOK == ASSUME IInv, Cut PROVE IInv'
PROOF
<1>1. PICK n \in 0..Len(wire) : wire' = SubSeq(wire, 1, n)
  BY DEF Cut
<1> QED BY <1>1, LinkLost DEF Cut

LEMMA FinishOK == ASSUME IInv, Finish PROVE IInv'
PROOF
<1>1. wire \in Seq(Frames) /\ session = "up"
  BY DEF IInv, TypeOK, EndInv, Finish
<1>2. wire = SubSeq(wire, 1, Len(wire)) /\ Len(wire) \in 0..Len(wire)
  BY <1>1
<1> QED BY <1>1, <1>2, LinkLost DEF Finish

\* A target is written the next piece.
LEMMA DeliverFacts ==
  ASSUME IInv, NEW s \in Streams, Deliver(s)
  PROVE  /\ got' = [got EXCEPT ![s] = Append(got[s], Len(got[s]) + 1)]
         /\ Len(got[s]) < sent[s] /\ Len(got[s]) + 1 \in 1..MaxData
         /\ queue[s] # <<>> /\ queue'[s] = Tail(queue[s]) /\ target[s] = "up"
         /\ queue' = [queue EXCEPT ![s] = Tail(queue[s])]
PROOF
<1>1. queue[s] \in Seq(1..MaxData) /\ queue[s] # <<>> /\ sent[s] \in 0..MaxData
  BY DEF IInv, TypeOK, Deliver
<1>2. /\ Len(queue[s]) \in Nat \ {0} /\ Head(queue[s]) = queue[s][1]
      /\ queue[s][1] \in 1..MaxData
  BY <1>1, QueueShrinks
<1>3. PICK g \in Nat : g = Len(got[s])
  BY TakenType DEF IInv
<1>4. Head(queue[s]) = g + 1
  <2>1. 1 \in 1..Len(queue[s])
    BY <1>2
  <2> QED BY <1>2, <1>3, <2>1 DEF IInv, StreamInv, QueueInv
<1>5. g < sent[s]
  <2>1. PICK q \in Nat \ {0} : q = Len(queue[s])
    BY <1>2
  <2>2. g + q <= sent[s]
    BY <1>3, <2>1 DEF IInv, StreamInv, QueueInv, Taken
  <2> QED BY <1>1, <2>1, <2>2, TunnelAssumption
<1>6. /\ got' = [got EXCEPT ![s] = Append(got[s], Head(queue[s]))]
      /\ queue' = [queue EXCEPT ![s] = Tail(queue[s])] /\ target[s] = "up"
  BY DEF Deliver
<1> QED BY <1>1, <1>2, <1>3, <1>4, <1>5, <1>6 DEF IInv, TypeOK

LEMMA DeliverOK == ASSUME IInv, NEW s \in Streams, Deliver(s) PROVE IInv'
PROOF
<1>1. /\ got' = [got EXCEPT ![s] = Append(got[s], Len(got[s]) + 1)]
      /\ Len(got[s]) < sent[s] /\ Len(got[s]) + 1 \in 1..MaxData
      /\ queue[s] # <<>> /\ queue' = [queue EXCEPT ![s] = Tail(queue[s])]
      /\ queue'[s] = Tail(queue[s])
  BY DeliverFacts
<1>2. UNCHANGED <<client, txSeq, stream, sent, pings, wire, link, rxSeq, session, active, target>>
  BY DEF Deliver, sender
<1>3. /\ queue[s] \in Seq(1..MaxData) /\ got[s] \in Seq(1..MaxData)
      /\ queue \in [Streams -> Seq(1..MaxData)] /\ got \in [Streams -> Seq(1..MaxData)]
  BY DEF IInv, TypeOK
<1>4. /\ Tail(queue[s]) \in Seq(1..MaxData) /\ Len(Tail(queue[s])) = Len(queue[s]) - 1
      /\ Len(queue[s]) \in Nat \ {0}
      /\ \A i \in 1..Len(Tail(queue[s])) : Tail(queue[s])[i] = queue[s][i + 1]
  BY <1>1, <1>3, QueueShrinks
<1>5. PICK g \in Nat : g = Len(got[s])
  BY TakenType DEF IInv
<1>6. PICK q \in Nat \ {0} : q = Len(queue[s])
  BY <1>4
<1>7. /\ got'[s] = Append(got[s], g + 1) /\ got'[s] \in Seq(1..MaxData) /\ Len(got'[s]) = g + 1
      /\ \A i \in 1..g : got'[s][i] = got[s][i]
      /\ got'[s][g + 1] = g + 1
  <2>1. got'[s] = Append(got[s], g + 1) /\ g + 1 \in 1..MaxData
    BY <1>1, <1>3, <1>5
  <2> QED BY <1>3, <1>5, <2>1, QueueGrows
<1>8. TypeOK'
  <2>1. got' \in [Streams -> Seq(1..MaxData)]
    BY <1>1, <1>3, <1>7
  <2>2. queue' \in [Streams -> Seq(1..MaxData)]
    BY <1>1, <1>3, <1>4
  <2>3. ASSUME NEW r \in Streams PROVE Len(queue'[r]) <= Capacity
    <3>1. Len(queue[r]) <= Capacity
      BY DEF IInv, TypeOK
    <3>2. CASE r = s
      <4>1. Len(queue'[s]) = q - 1 /\ q <= Capacity
        BY <1>1, <1>4, <1>6, <3>1, <3>2
      <4> QED BY <1>6, <3>2, <4>1, TunnelAssumption
    <3>3. CASE r # s
      BY <1>1, <1>3, <3>1, <3>3
    <3> QED BY <3>2, <3>3
  <2> QED BY <1>2, <2>1, <2>2, <2>3 DEF IInv, TypeOK
<1>9. EndInv'
  BY <1>2 DEF IInv, EndInv
<1>10. ASSUME NEW r \in Streams PROVE StreamInv(r)'
  <2>1. CASE r # s
    <3>1. StreamInv(r) /\ got'[r] = got[r] /\ queue'[r] = queue[r]
      BY <1>1, <1>3, <2>1 DEF IInv
    <3>2. QueueInv(r)' /\ Contiguous(r)'
      BY <1>2, <3>1 DEF StreamInv, QueueInv, Contiguous, Taken
    <3>3. ConnectInv(r)' /\ CloseInv(r)' /\ OnTheirWay(r)'
      BY <1>2, <3>1 DEF StreamInv, ConnectInv, CloseInv, OnTheirWay
    <3> QED BY <3>1, <3>2, <3>3 DEF StreamInv
  <2>2. CASE r = s
    <3>1. StreamInv(s)
      BY DEF IInv
    <3>2. Taken(s)' = Taken(s) /\ Len(queue'[s]) = q - 1
      <4>1. Len(queue'[s]) = q - 1
        BY <1>1, <1>4, <1>6
      <4>2. (g + 1) + (q - 1) = g + q
        OBVIOUS
      <4> QED BY <1>5, <1>6, <1>7, <4>1, <4>2 DEF Taken
    <3>3. QueueInv(s)'
      <4>1. ASSUME NEW i \in 1..Len(queue'[s]) PROVE queue'[s][i] = Len(got'[s]) + i
        <5>1. i + 1 \in 1..Len(queue[s]) /\ queue'[s][i] = queue[s][i + 1]
          BY <1>1, <1>4, <1>6, <3>2
        <5>2. queue[s][i + 1] = g + (i + 1)
          BY <1>5, <3>1, <5>1 DEF StreamInv, QueueInv
        <5>3. g + (i + 1) = (g + 1) + i
          OBVIOUS
        <5> QED BY <1>7, <5>1, <5>2, <5>3
      <4>2. ASSUME NEW i \in 1..Len(got'[s]) PROVE got'[s][i] = i
        <5>1. i \in 1..g \/ i = g + 1
          BY <1>7
        <5>2. \A j \in 1..g : got[s][j] = j
          BY <1>5, <3>1 DEF StreamInv, QueueInv
        <5> QED BY <1>7, <5>1, <5>2
      <4> QED BY <1>2, <3>1, <3>2, <4>1, <4>2 DEF StreamInv, QueueInv
    <3>4. Contiguous(s)'
      BY <1>2, <3>1, <3>2 DEF StreamInv, Contiguous
    <3>5. ConnectInv(s)' /\ CloseInv(s)' /\ OnTheirWay(s)'
      BY <1>2, <3>1 DEF StreamInv, ConnectInv, CloseInv, OnTheirWay
    <3> QED BY <2>2, <3>3, <3>4, <3>5 DEF StreamInv
  <2> QED BY <2>1, <2>2
<1>12. PeerInv'
  BY <1>2 DEF IInv, PeerInv
<1> QED BY <1>8, <1>9, <1>10, <1>12 DEF IInv

LEMMA TargetGoneOK == ASSUME IInv, NEW s \in Streams, TargetGone(s) PROVE IInv'
PROOF
<1>1. /\ target[s] = "up" /\ target' = [target EXCEPT ![s] = "gone"]
      /\ queue' = [queue EXCEPT ![s] = <<>>]
      /\ UNCHANGED <<client, txSeq, stream, sent, pings, wire, link, rxSeq, session, active, got>>
  BY DEF TargetGone, sender
<1>2. /\ queue \in [Streams -> Seq(1..MaxData)]
      /\ target \in [Streams -> {"none", "up", "failed", "gone"}]
  BY DEF IInv, TypeOK
<1>3. <<>> \in Seq(1..MaxData) /\ Len(<<>>) = 0
  OBVIOUS
<1>4. TypeOK'
  <2>1. /\ queue' \in [Streams -> Seq(1..MaxData)]
        /\ target' \in [Streams -> {"none", "up", "failed", "gone"}]
    BY <1>1, <1>2, <1>3
  <2>2. \A r \in Streams : Len(queue'[r]) <= Capacity
    BY <1>1, <1>2, <1>3, TunnelAssumption DEF IInv, TypeOK
  <2> QED BY <1>1, <2>1, <2>2 DEF IInv, TypeOK
<1>5. EndInv'
  BY <1>1 DEF IInv, EndInv
<1>6. ASSUME NEW r \in Streams PROVE StreamInv(r)'
  <2>1. StreamInv(r)
    BY DEF IInv
  <2>2. CASE r # s
    <3>1. target'[r] = target[r] /\ queue'[r] = queue[r]
      BY <1>1, <1>2, <2>2
    <3>2. QueueInv(r)' /\ Contiguous(r)'
      BY <1>1, <2>1, <3>1 DEF StreamInv, QueueInv, Contiguous, Taken
    <3>3. ConnectInv(r)' /\ CloseInv(r)' /\ OnTheirWay(r)'
      BY <1>1, <2>1, <3>1 DEF StreamInv, ConnectInv, CloseInv, OnTheirWay
    <3> QED BY <3>2, <3>3 DEF StreamInv
  <2>3. CASE r = s
    <3>1. target'[s] = "gone" /\ queue'[s] = <<>>
      BY <1>1, <1>2
    <3>2. QueueInv(s)'
      <4>1. PICK g \in Nat : g = Len(got[s])
        BY TakenType DEF IInv
      <4>2. PICK q \in Nat : q = Len(queue[s])
        BY TakenType DEF IInv
      <4>3. g + q <= sent[s] /\ sent[s] \in Nat
        BY <2>1, <2>3, <4>1, <4>2, TunnelAssumption
        DEF StreamInv, QueueInv, Taken, IInv, TypeOK
      <4>4. g + 0 <= sent[s]
        BY <4>3
      <4>5. \A i \in 1..Len(got[s]) : got[s][i] = i
        BY <2>1, <2>3 DEF StreamInv, QueueInv
      <4>6. Taken(s)' = g + 0 /\ Len(queue'[s]) = 0
        BY <1>1, <1>3, <3>1, <4>1 DEF Taken
      <4>7. \A i \in 1..Len(queue'[s]) : FALSE
        BY <4>6
      <4> QED BY <1>1, <4>4, <4>5, <4>6, <4>7 DEF QueueInv
    <3>3. ConnectInv(s)'
      BY <1>1, <2>1, <2>3, <3>1 DEF StreamInv, ConnectInv
    <3>4. CloseInv(s)' /\ OnTheirWay(s)' /\ Contiguous(s)'
      BY <1>1, <2>1, <2>3, <3>1 DEF StreamInv, CloseInv, OnTheirWay, Contiguous
    <3> QED BY <2>3, <3>2, <3>3, <3>4 DEF StreamInv
  <2> QED BY <2>2, <2>3
<1>8. PeerInv'
  BY <1>1 DEF IInv, PeerInv
<1> QED BY <1>4, <1>5, <1>6, <1>8 DEF IInv

LEMMA StepOK == IInv /\ [Next]_vars => IInv'
PROOF
<1> SUFFICES ASSUME IInv, [Next]_vars PROVE IInv'
  OBVIOUS
<1>1. CASE Next
  BY <1>1, OpenOK, SendDataOK, SendCloseOK, SendPingOK, DeliverOK, TargetGoneOK, FinishOK,
     CutOK, ReceiveOK, RefuseOK, EndOK DEF Next
<1>2. CASE UNCHANGED vars
  <2>1. /\ UNCHANGED <<client, txSeq, stream, sent, pings, wire, link>>
        /\ UNCHANGED <<rxSeq, session, active, target, queue, got>>
    BY <1>2 DEF vars, sender, host
  <2>2. TypeOK'
    BY <2>1 DEF IInv, TypeOK
  <2>3. EndInv' /\ PeerInv'
    BY <2>1 DEF IInv, EndInv, PeerInv
  <2>4. ASSUME NEW s \in Streams PROVE StreamInv(s)'
    <3>1. StreamInv(s) /\ Taken(s)' = Taken(s)
      BY <2>1 DEF IInv, Taken
    <3>2. QueueInv(s)' /\ ConnectInv(s)'
      BY <2>1, <3>1 DEF StreamInv, QueueInv, ConnectInv
    <3>3. CloseInv(s)' /\ OnTheirWay(s)' /\ Contiguous(s)'
      BY <2>1, <3>1 DEF StreamInv, CloseInv, OnTheirWay, Contiguous
    <3> QED BY <3>2, <3>3 DEF StreamInv
  <2> QED BY <2>2, <2>3, <2>4 DEF IInv
<1> QED BY <1>1, <1>2

LEMMA Invariance == Spec => []IInv
BY InitOK, StepOK, PTL DEF Spec

-----------------------------------------------------------------------------
(* The theorems.                                                           *)

\* The variables keep their types; no stream's channel exceeds its capacity.
THEOREM TypeCorrect == Spec => []TypeOK
BY Invariance, PTL DEF IInv

\* The anti-replay check of the host's cipher refuses no sender that keeps one
\* cipher.
THEOREM PeerNeverRefused == Spec => []PeerNotRefused
PROOF
<1>1. IInv => PeerNotRefused
  BY DEF IInv, PeerInv, PeerNotRefused
<1> QED BY <1>1, Invariance, PTL

\* The connection with its numbered frames, queues, cuts and closes implements
\* the pipe: each target is written a prefix of what was sent on its stream.
THEOREM TunnelImplementsPipe == Spec => ImplementsPipe
PROOF
<1>1. Init => P!Init
  BY DEF Init, P!Init
<1>2. ASSUME IInv, [Next]_vars PROVE [P!Next]_<<sent, got>>
  <2>1. ASSUME NEW s \in Streams, SendData(s) PROVE P!Next
    BY <2>1 DEF SendData, host, P!Next, P!Send
  <2>2. ASSUME NEW s \in Streams, Deliver(s) PROVE P!Next
    <3>1. /\ got' = [got EXCEPT ![s] = Append(got[s], Len(got[s]) + 1)]
          /\ Len(got[s]) < sent[s]
      BY <1>2, <2>2, DeliverFacts
    <3>2. UNCHANGED sent
      BY <2>2 DEF Deliver, sender
    <3> QED BY <3>1, <3>2 DEF P!Next, P!Deliver
  <2>3. CASE \/ \E s \in Streams : Open(s) \/ SendClose(s) \/ SendPing(s) \/ TargetGone(s)
             \/ Finish \/ Cut \/ Receive \/ Refuse \/ End \/ UNCHANGED vars
    BY <2>3 DEF Open, SendClose, SendPing, TargetGone, Finish, Cut, Receive, Refuse, End, vars,
                Connect, Enqueue, Closed, sender, host
  <2> QED BY <1>2, <2>1, <2>2, <2>3 DEF Next
<1> QED BY <1>1, <1>2, Invariance, PTL DEF Spec, ImplementsPipe, P!Spec
=============================================================================
