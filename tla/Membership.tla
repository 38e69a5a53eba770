----------------------------- MODULE Membership -----------------------------
(***************************************************************************)
(* What the nodes may expect of the bootstrap, whatever it does with their *)
(* reports: a channel has one broadcaster from the moment it is opened     *)
(* until it closes, and its members are those who joined and have given a  *)
(* sign of life less than Patience checks ago.  It closes when its         *)
(* broadcaster is no longer one of them, and then it has no members.       *)
(***************************************************************************)
EXTENDS Integers

CONSTANTS Channels, Servers, Viewers, None, Patience

VARIABLES
  broadcaster, \* of each channel, None when it is closed
  silence      \* of each channel, the checks since each member was last heard of

vars == <<broadcaster, silence>>

Peers == Servers \cup Viewers
Nobody == [p \in {} |-> 0]
Members(c) == DOMAIN silence[c]
IsOpen(c) == broadcaster[c] # None

Heard(c, p) == [q \in Members(c) \cup {p} |-> IF q = p THEN 0 ELSE silence[c][q]]

Open(p, c) ==
  /\ p \in Servers /\ ~IsOpen(c)
  /\ broadcaster' = [broadcaster EXCEPT ![c] = p]
  /\ silence' = [silence EXCEPT ![c] = [q \in {p} |-> 0]]

Join(p, c) ==
  /\ p \in Viewers /\ IsOpen(c) /\ p \notin Members(c)
  /\ silence' = [silence EXCEPT ![c] = Heard(c, p)]
  /\ UNCHANGED broadcaster

Renew(p, c) ==
  /\ p \in Members(c)
  /\ silence' = [silence EXCEPT ![c] = Heard(c, p)]
  /\ UNCHANGED broadcaster

(***************************************************************************)
(* One check, of all channels.                                             *)
(***************************************************************************)
Staying(c) == {p \in Members(c) : silence[c][p] + 1 < Patience}
StaysOpen(c) == broadcaster[c] \in Staying(c)

Check ==
  /\ broadcaster' = [c \in Channels |-> IF StaysOpen(c) THEN broadcaster[c] ELSE None]
  /\ silence' = [c \in Channels |->
                   IF StaysOpen(c) THEN [p \in Staying(c) |-> silence[c][p] + 1] ELSE Nobody]

Init ==
  /\ broadcaster = [c \in Channels |-> None]
  /\ silence = [c \in Channels |-> Nobody]

Next ==
  \/ \E p \in Peers, c \in Channels : Open(p, c) \/ Join(p, c) \/ Renew(p, c)
  \/ Check

Spec == Init /\ [][Next]_vars

(***************************************************************************)
(* Properties.                                                             *)
(***************************************************************************)
\* A channel is never handed over: before another server broadcasts in it, it
\* closes, and nobody is a member of a closed channel.
NeverHandedOver ==
  [][\A c \in Channels :
       IsOpen(c) => broadcaster'[c] = broadcaster[c] \/ (~IsOpen(c)' /\ silence'[c] = Nobody)]_vars

\* Nobody is turned out before Patience checks have passed without a sign of life,
\* as long as the channel stays open.
NobodyLeavesEarly ==
  [][\A c \in Channels : \A p \in Members(c) :
       p \in Members(c)' \/ ~IsOpen(c)' \/ silence[c][p] + 1 >= Patience]_vars
=============================================================================
