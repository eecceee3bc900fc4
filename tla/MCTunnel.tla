------------------------------- MODULE MCTunnel -------------------------------
(***************************************************************************)
(* Two streams on one connection, up to two pieces of data on each, and    *)
(* queues that hold one; one of the targets may stop reading.              *)
(***************************************************************************)
EXTENDS Tunnel
=============================================================================
