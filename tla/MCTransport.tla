---------------------------- MODULE MCTransport ----------------------------
(***************************************************************************)
(* Values of Messages for TLC.                                             *)
(***************************************************************************)
EXTENDS Transport

Msg(a, op, n, d) == [address |-> a, opcode |-> op, size |-> n, diff |-> d]

\* Three neighbours; two messages for one of them, two requests out of order.
FourMessages ==
  {Msg(1, "data", 2, 0), Msg(1, "other", 1, 0), Msg(2, "request", 1, 2), Msg(3, "request", 1, 1)}
=============================================================================
