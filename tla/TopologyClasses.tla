-------------------------- MODULE TopologyClasses --------------------------
(***************************************************************************)
(* The classes of the ordinary nodes of a channel (RenewOUTALL and         *)
(* NormalizeClasses of common/Channel.cpp).                                *)
(*                                                                         *)
(* The class of a node says how many partners it may serve.  From time to  *)
(* time the bootstrap ranks the nodes by the chunks that they sent, cuts   *)
(* the ranking in three and moves the nodes of each part towards its       *)
(* class, through C, a few at a time.  Free riders, the server and nodes   *)
(* that have not reported often enough take no part.  Nodes are known by   *)
(* their place, from 0, in the ranking.                                    *)
(***************************************************************************)
EXTENDS Integers, FiniteSets

CONSTANTS
  Percent,     \* peerPercentChangeAlowed
  JoinSizes,   \* what a node comes with: the size of C or, if the bandwidth suggests it,
               \* of any class, or a size of its own
  MaxNodes     \* bound: ordinary nodes at a time

Classes == {"B", "C", "D"}
Sizes == Classes \cup {"own"} \* of the out list, which tell the class

ASSUME TopologyAssumption ==
  Percent \in Nat /\ Percent < 100 /\ JoinSizes \subseteq Sizes /\ MaxNodes \in Nat

VARIABLES
  n,       \* the size of ordinaryNodeVector
  classOf, \* the class of each of its nodes
  before,  \* what it was when the renewal began
  pc,      \* "idle", or the part that is normalised
  common, contador \* the locals of NormalizeClasses

vars == <<n, classOf, before, pc, common, contador>>

Out == [B |-> 1, C |-> 18, D |-> 46]
PercentOfPeer == [B |-> 40, C |-> 45, D |-> 15]
Base == "C"

(***************************************************************************)
(* The part of each class in a ranking of n nodes.                         *)
(***************************************************************************)
Share(c) == (n * PercentOfPeer[c]) \div 100
Start(c) == CASE c = "D" -> 0 [] c = "C" -> Share("D") [] c = "B" -> Share("D") + Share("C")
Stop(c) == CASE c = "D" -> Share("D") [] c = "C" -> Share("D") + Share("C") [] c = "B" -> n
RoundedUp == (n * Percent + 99) \div 100 \* mutant
TotalAltera == (n * Percent) \div 100

\* The best nodes are the first to go up and the worst the first to go down.
Backward(c) == Out[c] < Out[Base]
Limited(c) == c # Base

FirstAtStop(c) == IF Backward(c) THEN Stop(c) ELSE Start(c) \* mutant
First(c) == IF Backward(c) THEN Stop(c) - 1 ELSE Start(c)
End(c) == IF Backward(c) THEN Start(c) + 1 ELSE Stop(c)
Following(c, i) == IF Backward(c) THEN i - 1 ELSE i + 1

PassIsOver(c) == common = End(c) \/ (Limited(c) /\ contador >= TotalAltera)

ConvertedAtOnce(c, ref) == ref \* mutant
ConvertedToBase(c, ref) == Base \* mutant
ConvertedToA(c, ref) == IF c = Base THEN ref ELSE "A" \* mutant
Converted(c, ref) == IF c = Base THEN ref ELSE Base

(***************************************************************************)
(* Between two renewals nodes come, go, and overtake one another.          *)
(***************************************************************************)
Idle == pc = "idle" /\ UNCHANGED <<pc, common, contador>>

Join ==
  /\ Idle /\ n < MaxNodes
  /\ \E c \in JoinSizes : classOf' = [i \in 0 .. n |-> IF i = n THEN c ELSE classOf[i]]
  /\ n' = n + 1
  /\ before' = classOf'

Leave(i) ==
  /\ Idle
  /\ classOf' = [j \in 0 .. (n - 2) |-> IF j < i THEN classOf[j] ELSE classOf[j + 1]]
  /\ n' = n - 1
  /\ before' = classOf'

Overtake(i) ==
  /\ Idle /\ i > 0
  /\ classOf' = [classOf EXCEPT ![i - 1] = classOf[i], ![i] = classOf[i - 1]]
  /\ UNCHANGED n
  /\ before' = classOf'

Change == Join \/ \E i \in 0 .. (n - 1) : Leave(i) \/ Overtake(i)

(***************************************************************************)
(* RenewOUTALL.                                                            *)
(***************************************************************************)
NormalizeClasses(c) ==
  /\ pc' = c /\ common' = First(c) /\ contador' = 0
  /\ UNCHANGED <<n, classOf>>

BeginRenewal ==
  /\ pc = "idle"
  /\ NormalizeClasses("D")
  /\ UNCHANGED before

EndPass ==
  \/ pc = "D" /\ PassIsOver("D") /\ NormalizeClasses("C") /\ UNCHANGED before
  \/ pc = "C" /\ PassIsOver("C") /\ NormalizeClasses("B") /\ UNCHANGED before
  \/ /\ pc = "B" /\ PassIsOver("B")
     /\ pc' = "idle" /\ common' = 0 /\ contador' = 0
     /\ before' = classOf
     /\ UNCHANGED <<n, classOf>>

Visit ==
  /\ pc \in Classes /\ ~PassIsOver(pc)
  /\ IF classOf[common] = pc
       THEN UNCHANGED <<classOf, contador>>
       ELSE /\ classOf' = [classOf EXCEPT ![common] = Converted(@, pc)]
            /\ contador' = contador + 1
  /\ common' = Following(pc, common)
  /\ UNCHANGED <<n, before, pc>>

RenewOUTALL == BeginRenewal \/ EndPass \/ Visit

(***************************************************************************)
(* The specification.                                                      *)
(***************************************************************************)
Init ==
  /\ n = 0
  /\ classOf = [i \in {} |-> Base] /\ before = [i \in {} |-> Base]
  /\ pc = "idle" /\ common = 0 /\ contador = 0

Next == Change \/ RenewOUTALL

Spec == Init /\ [][Next]_vars

\* The server reports again and again, and its reports bring renewals.
Fairness == WF_vars(RenewOUTALL)

LiveSpec == Spec /\ Fairness

(***************************************************************************)
(* Properties.                                                             *)
(***************************************************************************)
\* The type invariant.
TypeOK ==
  /\ n \in Nat
  /\ classOf \in [0 .. (n - 1) -> Sizes] /\ before \in [0 .. (n - 1) -> Sizes]
  /\ pc \in Classes \cup {"idle"}
  /\ common \in Int /\ contador \in Nat

\* The loops of NormalizeClasses look at nodes of their own part and no further.
\* The backward one stops at one place only, start + 1, which a part of fewer than two
\* nodes does not reach.
StaysInPart ==
  pc \in Classes /\ ~PassIsOver(pc) => common \in Start(pc) .. (Stop(pc) - 1)

\* A renewal moves nobody between B and D: a node passes C and stays there until
\* the next one, as no two loops meet the same node.
NoJump == \A i \in 0 .. (n - 1) : {before[i], classOf[i]} # {"B", "D"}

\* Of the nodes of a channel, at most peerPercentChangeAlowed percent change in the part
\* of D, and as many in that of B.  (Those in the part of C all become C at once.)
Moved(c) == {i \in Start(c) .. (Stop(c) - 1) : classOf[i] # before[i]}
FewMove == \A c \in Classes \ {Base} : 100 * Cardinality(Moved(c)) <= n * Percent

\* Where every part has its class, except for the first two nodes of that of B.
Settled ==
  \A c \in Classes :
    \A i \in Start(c) .. (Stop(c) - 1) :
      (Limited(c) => TotalAltera > 0) /\ (Backward(c) => i > End(c)) => classOf[i] = c

\* The steps that a node of class x is away from class c, C being half way.
Distance(c, x) == IF x = c THEN 0 ELSE IF Base \in {c, x} THEN 1 ELSE 2
Nearer(c, i) == Distance(c, classOf[i]) < Distance(c, before[i])

\* A renewal moves nobody away from the class of its part, and where it does not find the
\* classes settled it brings somebody a step nearer: the limit of changes, the loop that
\* runs backwards and its end at one place never make it a renewal of nothing.
RenewalsConverge ==
  [][pc = "B" /\ pc' = "idle" =>
       /\ \A c \in Classes :
            \A i \in Start(c) .. (Stop(c) - 1) : classOf[i] = before[i] \/ Nearer(c, i)
       /\ Settled \/ \E c \in Classes : \E i \in Start(c) .. (Stop(c) - 1) : Nearer(c, i)]_vars

\* Once the ranking stays as it is, the classes come to agree with it and stay so,
\* if the percentage lets any node change at all.
ClassesSettle == <>[][~Change]_vars => <>[]Settled
=============================================================================
