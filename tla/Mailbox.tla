------------------------------ MODULE Mailbox ------------------------------
(***************************************************************************)
(* What the threads of a node may expect of UDPServer and its schedulers:  *)
(* whatever is handed over is taken out once, by the one thread that takes *)
(* messages out, which finishes a message before it takes the next.  An    *)
(* ordered mailbox keeps the order of the messages to one address.         *)
(***************************************************************************)
CONSTANTS Messages, None

VARIABLES
  waiting, \* the messages that were handed over and not yet taken out
  ahead,   \* of each message, those that have to be taken out before it
  current, \* the message that was taken out
  ordered

vars == <<waiting, ahead, current, ordered>>

Enqueue(m) ==
  /\ m \notin waiting \cup {current}
  /\ waiting' = waiting \cup {m}
  /\ ahead' = [ahead EXCEPT ![m] = {x \in waiting : ordered /\ x.address = m.address}]
  /\ UNCHANGED <<current, ordered>>

Take(m) ==
  /\ current = None
  /\ m \in waiting /\ ahead[m] = {}
  /\ current' = m
  /\ waiting' = waiting \ {m}
  /\ ahead' = [x \in Messages |-> ahead[x] \ {m}]
  /\ UNCHANGED ordered

Finish ==
  /\ current # None
  /\ current' = None
  /\ UNCHANGED <<waiting, ahead, ordered>>

Init ==
  /\ waiting = {} /\ ahead = [m \in Messages |-> {}]
  /\ current = None
  /\ ordered \in BOOLEAN

Next == (\E m \in Messages : Enqueue(m) \/ Take(m)) \/ Finish

Spec == Init /\ [][Next]_vars
=============================================================================
