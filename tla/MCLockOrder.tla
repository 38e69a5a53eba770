---------------------------- MODULE MCLockOrder ----------------------------
(***************************************************************************)
(* The value of Role for TLC: threads are named after what they run.       *)
(***************************************************************************)
EXTENDS LockOrder

MCRole == [t \in Threads |-> t]
=============================================================================
