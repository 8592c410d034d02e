---------------------------- MODULE MCSupervisor ----------------------------
(***************************************************************************)
(* One cancel, one shutdown and the end of stdin next to one or two status *)
(* commands, in a mailbox of capacity one: with two of them the reader may *)
(* be blocked in Submit while the supervisor closes the channel.           *)
(***************************************************************************)
EXTENDS Supervisor
=============================================================================
