----------------------------- MODULE MCNodeDaemon -----------------------------
(***************************************************************************)
(* Three payments, two of one sender, to a node with two workers that is   *)
(* started twice; two of them, but not the two large ones, fit in a block. *)
(* After an `init` over its database the old validator is elected at       *)
(* height 2 and not at 1.                                                  *)
(***************************************************************************)
EXTENDS NodeDaemon

CONSTANTS c1, c2, c3, alice, bob

SizeOf == [c \in Sends |-> IF c = c1 THEN 1 ELSE 2]
SenderOf == [c \in Sends |-> IF c = c3 THEN bob ELSE alice]
=============================================================================
