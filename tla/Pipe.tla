--------------------------------- MODULE Pipe ---------------------------------
(***************************************************************************)
(* What a tunnel promises: on each stream the pieces of data come out that *)
(* went in, in order, each once, and possibly not all of them.             *)
(***************************************************************************)
EXTENDS Integers, Sequences

CONSTANT Streams

VARIABLES
  sent,   \* sent[s]: how many pieces went into stream s; they are 1, 2, ...
  got     \* got[s]: the pieces that came out

Init == sent = [s \in Streams |-> 0] /\ got = [s \in Streams |-> <<>>]

Send(s) ==
  /\ sent' = [sent EXCEPT ![s] = @ + 1]
  /\ UNCHANGED got

Deliver(s) ==
  /\ Len(got[s]) < sent[s]
  /\ got' = [got EXCEPT ![s] = Append(@, Len(@) + 1)]
  /\ UNCHANGED sent

Next == \E s \in Streams : Send(s) \/ Deliver(s)

Spec == Init /\ [][Next]_<<sent, got>>
=============================================================================
