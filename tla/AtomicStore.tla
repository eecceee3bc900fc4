----------------------------- MODULE AtomicStore -----------------------------
(***************************************************************************)
(* What the node expects of its database across process crashes: batches   *)
(* take effect at once, what is durable is always some whole state the     *)
(* store has been in, and a commit that returned Ok is durable for good.   *)
(***************************************************************************)
EXTENDS ChainData

VARIABLES
  store,     \* what readers see
  durable,   \* what a restart recovers
  acked      \* the blocks whose commit returned Ok

avars == <<store, durable, acked>>

AInit ==
  /\ store = EmptyContent
  /\ durable = EmptyContent
  /\ acked = {}

\* One block and all the accounts it writes, at once.
AApply(b) ==
  /\ store' = PutBlock(store, b)
  /\ UNCHANGED <<durable, acked>>

ASave ==
  /\ durable' = store
  /\ UNCHANGED <<store, acked>>

\* Success is reported only of what a restart would find.
AAcknowledge(b) ==
  /\ b \in durable.blocks
  /\ acked' = acked \cup {b}
  /\ UNCHANGED <<store, durable>>

ACrash ==
  /\ store' = durable
  /\ UNCHANGED <<durable, acked>>

ANext ==
  \/ \E b \in Blocks : AApply(b) \/ AAcknowledge(b)
  \/ ASave
  \/ ACrash

ASpec == AInit /\ [][ANext]_avars
=============================================================================
