--------------------------- MODULE TopologyProofs ---------------------------
(***************************************************************************)
(* The renewal of the classes, for every number of nodes and every         *)
(* percentage below 100.                                                   *)
(***************************************************************************)
EXTENDS TopologyClasses, FiniteSetTheorems, TLAPS

-----------------------------------------------------------------------------
(***************************************************************************)
(* The parts of a ranking.                                                 *)
(***************************************************************************)
LEMMA Hundredths ==
  ASSUME NEW x \in Nat
  PROVE  /\ x \div 100 \in Nat
         /\ 100 * (x \div 100) <= x /\ x < 100 * (x \div 100) + 100
OBVIOUS

LEMMA Shares ==
  ASSUME n \in Nat
  PROVE  /\ Share("D") \in Nat /\ Share("C") \in Nat
         /\ 100 * Share("D") <= 15 * n /\ 100 * Share("C") <= 45 * n
<1>1. Share("D") = (n * 15) \div 100 /\ Share("C") = (n * 45) \div 100
  BY DEF Share, PercentOfPeer
<1>2. n * 15 \in Nat /\ n * 45 \in Nat
  OBVIOUS
<1> QED
  BY <1>1, <1>2, Hundredths

\* The parts follow one another, and only that of B is walked backwards.
LEMMA Parts ==
  ASSUME n \in Nat
  PROVE  /\ Start("D") = 0 /\ Stop("D") = Start("C") /\ Stop("C") = Start("B") /\ Stop("B") = n
         /\ Start("C") \in Nat /\ Start("B") \in Nat
         /\ Start("C") <= Start("B") /\ Start("B") <= n
         /\ First("D") = 0 /\ End("D") = Start("C")
         /\ First("C") = Start("C") /\ End("C") = Start("B")
         /\ First("B") = n - 1 /\ End("B") = Start("B") + 1
         /\ \A i : Following("D", i) = i + 1 /\ Following("C", i) = i + 1 /\ Following("B", i) = i - 1
         /\ Limited("D") /\ Limited("B") /\ ~Limited("C")
<1>1. ~Backward("D") /\ ~Backward("C") /\ Backward("B")
  BY DEF Backward, Out, Base
<1>2. /\ Start("D") = 0 /\ Stop("D") = Share("D") /\ Start("C") = Share("D")
      /\ Stop("C") = Share("D") + Share("C") /\ Start("B") = Share("D") + Share("C")
      /\ Stop("B") = n
  BY DEF Start, Stop
<1>3. Share("D") \in Nat /\ Share("C") \in Nat /\ Share("D") + Share("C") <= n
  BY Shares
<1> QED
  BY <1>1, <1>2, <1>3 DEF First, End, Following, Limited, Base

LEMMA Totals ==
  ASSUME n \in Nat
  PROVE  TotalAltera \in Nat /\ 100 * TotalAltera <= n * Percent
<1>1. n * Percent \in Nat
  BY TopologyAssumption
<1> QED
  BY <1>1, Hundredths DEF TotalAltera

\* If any node may change, the part of B has two nodes at least.
LEMMA RoomInB ==
  ASSUME n \in Nat, TotalAltera > 0
  PROVE  Start("B") + 1 <= n - 1
<1>1. n * Percent >= 100
  BY Totals, TopologyAssumption
<1>2. n # 0 /\ n # 1
  BY <1>1, TopologyAssumption
<1>3. Start("B") = Share("D") + Share("C")
  BY DEF Start
<1>4. /\ Share("D") \in Nat /\ Share("C") \in Nat
      /\ 100 * (Share("D") + Share("C")) <= 60 * n
  BY Shares
<1>5. CASE n = 2
  <2>1. Share("D") = 0 /\ Share("C") = 0
    BY <1>5, Shares
  <2> QED
    BY <2>1, <1>3, <1>5
<1>6. CASE n >= 3
  BY <1>3, <1>4, <1>6
<1> QED
  BY <1>2, <1>5, <1>6

-----------------------------------------------------------------------------
(***************************************************************************)
(* The invariant.                                                          *)
(***************************************************************************)
\* Where the loop of a part may be.
InPass(c) ==
  IF Backward(c)
    THEN TotalAltera > 0 => common \in (Start(c) + 1) .. (n - 1)
    ELSE common \in Start(c) .. Stop(c)

\* The nodes that the renewal has not met yet.
Ahead(i) ==
  \/ pc \in {"D", "C"} /\ i >= common
  \/ pc = "B" /\ i >= Start("B") /\ i <= common

IInv ==
  /\ TypeOK
  /\ pc \in Classes => InPass(pc)
  /\ pc = "idle" => before = classOf
  /\ \A i \in 0 .. (n - 1) : Ahead(i) => classOf[i] = before[i]
  /\ NoJump
  /\ pc \in Classes \ {Base} =>
       contador = Cardinality(Moved(pc)) /\ contador <= TotalAltera
  /\ \A c \in Classes \ {Base} : Cardinality(Moved(c)) <= TotalAltera

LEMMA MovedFinite ==
  ASSUME TypeOK, NEW c \in Classes
  PROVE  IsFiniteSet(Moved(c)) /\ Cardinality(Moved(c)) \in Nat
<1>1. Start(c) \in Int /\ Stop(c) - 1 \in Int
  BY Parts DEF TypeOK, Classes
<1>2. IsFiniteSet(Start(c) .. (Stop(c) - 1))
  BY <1>1, FS_Interval
<1>3. Moved(c) \subseteq Start(c) .. (Stop(c) - 1)
  BY DEF Moved
<1>4. IsFiniteSet(Moved(c))
  BY <1>2, <1>3, FS_Subset
<1> QED
  BY <1>4, FS_CardinalityType

\* Nobody has moved yet.
LEMMA MovedNone ==
  ASSUME NEW c \in Classes, \A i \in Start(c) .. (Stop(c) - 1) : classOf[i] = before[i]
  PROVE  Moved(c) = {} /\ Cardinality(Moved(c)) = 0
BY FS_EmptySet DEF Moved

LEMMA StartsIInv == Init => IInv
<1> SUFFICES ASSUME Init
             PROVE  IInv
  OBVIOUS
<1>1. n = 0 /\ before = classOf /\ pc = "idle"
  BY DEF Init
<1>2. 0 .. (n - 1) = {}
  BY <1>1
<1>3. TypeOK
  BY <1>2 DEF Init, TypeOK, Classes, Sizes
<1>4. \A c \in Classes : Cardinality(Moved(c)) = 0
  BY <1>1, MovedNone
<1> QED
  BY <1>1, <1>2, <1>3, <1>4, Totals DEF IInv, Ahead, NoJump, Classes, TypeOK

\* Between two renewals every node is where it was.
LEMMA RestartsIInv == TypeOK /\ pc = "idle" /\ before = classOf => IInv
<1> SUFFICES ASSUME TypeOK, pc = "idle", before = classOf
             PROVE  IInv
  OBVIOUS
<1>1. \A c \in Classes : Cardinality(Moved(c)) = 0
  BY MovedNone
<1>2. NoJump
  <2>1. \A i \in 0 .. (n - 1) : {before[i], classOf[i]} = {classOf[i]}
    OBVIOUS
  <2> QED
    BY <2>1 DEF NoJump
<1> QED
  BY <1>1, <1>2, Totals DEF IInv, Ahead, Classes, TypeOK

LEMMA RestartsIInvNext == (TypeOK /\ pc = "idle" /\ before = classOf => IInv)'
BY RestartsIInv, PTL

LEMMA KeepsChange == IInv /\ Change => IInv'
<1> SUFFICES ASSUME IInv, Change
             PROVE  IInv'
  OBVIOUS
<1>1. pc' = "idle" /\ before' = classOf' /\ common' = common /\ contador' = contador
  BY DEF Change, Join, Leave, Overtake, Idle
<1>2. n' \in Nat /\ classOf' \in [0 .. (n' - 1) -> Sizes]
  <2> USE DEF IInv, TypeOK
  <2>1. CASE Join
    <3>1. PICK c \in JoinSizes : classOf' = [i \in 0 .. n |-> IF i = n THEN c ELSE classOf[i]]
      BY <2>1 DEF Join
    <3>2. c \in Sizes /\ n' = n + 1
      BY <2>1, TopologyAssumption DEF Join
    <3> QED
      BY <3>1, <3>2
  <2>2. ASSUME NEW i \in 0 .. (n - 1), Leave(i)
        PROVE  n' \in Nat /\ classOf' \in [0 .. (n' - 1) -> Sizes]
    <3>1. n' = n - 1 /\ classOf' = [j \in 0 .. (n - 2) |-> IF j < i THEN classOf[j] ELSE classOf[j + 1]]
      BY <2>2 DEF Leave
    <3>2. n' - 1 = n - 2 /\ n' \in Nat
      BY <3>1
    <3>3. \A j \in 0 .. (n - 2) : j \in 0 .. (n - 1) /\ j + 1 \in 0 .. (n - 1)
      OBVIOUS
    <3> QED
      BY <3>1, <3>2, <3>3
  <2>3. ASSUME NEW i \in 0 .. (n - 1), Overtake(i)
        PROVE  n' \in Nat /\ classOf' \in [0 .. (n' - 1) -> Sizes]
    BY <2>3 DEF Overtake
  <2> QED
    BY <2>1, <2>2, <2>3 DEF Change
<1>3. TypeOK'
  BY <1>1, <1>2 DEF IInv, TypeOK
<1> QED
  BY <1>1, <1>3, RestartsIInvNext

\* The parts and the limit are fixed while the number of nodes is.
LEMMA SameParts ==
  ASSUME n' = n
  PROVE  /\ \A c \in Classes : Start(c)' = Start(c) /\ Stop(c)' = Stop(c)
         /\ TotalAltera' = TotalAltera
BY DEF Start, Stop, Share, TotalAltera, Classes

LEMMA SameMoved ==
  ASSUME n' = n, classOf' = classOf, before' = before, NEW c \in Classes
  PROVE  Moved(c)' = Moved(c)
BY SameParts DEF Moved

\* The loop of the next part begins; the one of the part before it is over.
LEMMA KeepsPass ==
  ASSUME IInv, NEW c \in Classes, NormalizeClasses(c), before' = before,
         \A i \in 0 .. (n - 1) : Ahead(i)' => classOf[i] = before[i],
         \A i \in Start(c) .. (Stop(c) - 1) : classOf[i] = before[i]
  PROVE  IInv'
<1> USE DEF NormalizeClasses
<1>1. TypeOK
  BY DEF IInv
<1>2. n \in Nat /\ n' = n
  BY <1>1 DEF TypeOK
<1>3. First(c) \in Int
  BY <1>2, Parts DEF Classes
<1>4. TypeOK'
  BY <1>1, <1>3 DEF TypeOK
<1>5. InPass(pc)'
  <2>1. CASE c = "D"
    BY <1>2, <2>1, Parts, SameParts DEF InPass, Backward, Out, Base, Classes
  <2>2. CASE c = "C"
    BY <1>2, <2>2, Parts, SameParts DEF InPass, Backward, Out, Base, Classes
  <2>3. CASE c = "B"
    BY <1>2, <2>3, Parts, SameParts, RoomInB DEF InPass, Backward, Out, Base, Classes
  <2> QED
    BY <2>1, <2>2, <2>3 DEF Classes
<1>6. \A d \in Classes : Moved(d)' = Moved(d)
  BY <1>2, SameMoved
<1>7. Cardinality(Moved(c)) = 0
  BY MovedNone
<1>8. TotalAltera' = TotalAltera /\ TotalAltera \in Nat
  BY <1>2, SameParts, Totals
<1>9. \A i \in 0 .. (n - 1) : Ahead(i)' => classOf'[i] = before'[i]
  OBVIOUS
<1>10. NoJump'
  BY <1>2 DEF IInv, NoJump
<1>11. pc' # "idle"
  BY DEF Classes
<1> QED
  BY <1>2, <1>4, <1>5, <1>6, <1>7, <1>8, <1>9, <1>10, <1>11 DEF IInv

LEMMA KeepsBegin == IInv /\ BeginRenewal => IInv'
<1> SUFFICES ASSUME IInv, BeginRenewal
             PROVE  IInv'
  OBVIOUS
<1>1. before = classOf /\ before' = before /\ NormalizeClasses("D") /\ "D" \in Classes
  BY DEF BeginRenewal, IInv, Classes
<1> QED
  BY <1>1, KeepsPass

LEMMA KeepsEnd == IInv /\ EndPass => IInv'
<1> SUFFICES ASSUME IInv, EndPass
             PROVE  IInv'
  OBVIOUS
<1>1. TypeOK /\ n \in Nat
  BY DEF IInv, TypeOK
<1>2. CASE pc = "D" /\ NormalizeClasses("C") /\ before' = before
  <2>1. common \in 0 .. Start("C")
    BY <1>1, <1>2, Parts DEF IInv, InPass, Backward, Out, Base, Classes
  <2>2. \A i \in 0 .. (n - 1) : i >= Start("C") => classOf[i] = before[i]
    BY <1>1, <1>2, <2>1, Parts DEF IInv, Ahead
  <2>3. \A i \in 0 .. (n - 1) : Ahead(i)' => classOf[i] = before[i]
    BY <1>1, <1>2, <2>2, Parts DEF Ahead, NormalizeClasses
  <2>4. \A i \in Start("C") .. (Stop("C") - 1) : classOf[i] = before[i]
    BY <1>1, <2>2, Parts
  <2> QED
    BY <1>2, <2>3, <2>4, KeepsPass DEF Classes
<1>3. CASE pc = "C" /\ PassIsOver("C") /\ NormalizeClasses("B") /\ before' = before
  <2>1. common = Start("B")
    BY <1>1, <1>3, Parts DEF PassIsOver
  <2>2. \A i \in 0 .. (n - 1) : i >= Start("B") => classOf[i] = before[i]
    BY <1>1, <1>3, <2>1, Parts DEF IInv, Ahead
  <2>3. n' = n /\ Start("B")' = Start("B")
    BY <1>3, SameParts DEF NormalizeClasses, Classes
  <2>4. \A i \in 0 .. (n - 1) : Ahead(i)' => classOf[i] = before[i]
    BY <1>1, <1>3, <2>2, <2>3, Parts DEF Ahead, NormalizeClasses
  <2>5. \A i \in Start("B") .. (Stop("B") - 1) : classOf[i] = before[i]
    BY <1>1, <2>2, Parts
  <2> QED
    BY <1>3, <2>4, <2>5, KeepsPass DEF Classes
<1>4. CASE /\ pc' = "idle" /\ common' = 0 /\ contador' = 0 /\ before' = classOf
           /\ UNCHANGED <<n, classOf>>
  <2>1. TypeOK'
    BY <1>1, <1>4 DEF TypeOK
  <2> QED
    BY <1>4, <2>1, RestartsIInvNext
<1> QED
  BY <1>2, <1>3, <1>4 DEF EndPass

\* A node that is met is of the part of the loop, and was not met before.
LEMMA Met ==
  ASSUME IInv, pc \in Classes, ~PassIsOver(pc)
  PROVE  /\ common \in Start(pc) .. (Stop(pc) - 1) /\ common \in 0 .. (n - 1)
         /\ Ahead(common) /\ InPass(pc)
<1> USE DEF IInv, TypeOK, InPass, PassIsOver, Ahead
<1>1. n \in Nat /\ common \in Int /\ contador \in Nat /\ TotalAltera \in Nat
  BY Totals
<1>2. CASE pc = "D"
  BY <1>1, <1>2, Parts DEF Backward, Out, Base
<1>3. CASE pc = "C"
  BY <1>1, <1>3, Parts DEF Backward, Out, Base
<1>4. CASE pc = "B"
  <2>1. common # Start("B") + 1 /\ contador < TotalAltera
    BY <1>1, <1>4, Parts
  <2>2. common \in (Start("B") + 1) .. (n - 1)
    BY <1>1, <1>4, <2>1 DEF Backward, Out, Base
  <2> QED
    BY <1>1, <1>4, <2>1, <2>2, Parts
<1> QED
  BY <1>2, <1>3, <1>4 DEF Classes

LEMMA KeepsVisit == IInv /\ Visit => IInv'
<1> SUFFICES ASSUME IInv, Visit
             PROVE  IInv'
  OBVIOUS
<1>1. pc \in Classes /\ ~PassIsOver(pc) /\ pc' = pc /\ n' = n /\ before' = before
  BY DEF Visit
<1>2. /\ common \in Start(pc) .. (Stop(pc) - 1) /\ common \in 0 .. (n - 1)
      /\ Ahead(common) /\ InPass(pc)
  BY <1>1, Met
<1>3. /\ TypeOK /\ n \in Nat /\ contador \in Nat /\ TotalAltera \in Nat
      /\ classOf \in [0 .. (n - 1) -> Sizes]
  BY Totals DEF IInv, TypeOK
<1>4. classOf[common] = before[common] /\ classOf[common] \in Sizes
  BY <1>2, <1>3 DEF IInv
<1>5. /\ \A c \in Classes : Start(c)' = Start(c) /\ Stop(c)' = Stop(c)
      /\ TotalAltera' = TotalAltera
  BY <1>1, SameParts
<1>6. common' = Following(pc, common)
  BY DEF Visit
<1>7. /\ \A i \in 0 .. (n - 1) : i # common => classOf'[i] = classOf[i]
      /\ \/ classOf'[common] = classOf[common] /\ contador' = contador
         \/ /\ classOf[common] # pc
            /\ classOf'[common] = Converted(classOf[common], pc) /\ contador' = contador + 1
      /\ classOf' \in [0 .. (n - 1) -> Sizes]
  BY <1>1, <1>2, <1>3, <1>4 DEF Visit, Converted, Base, Classes, Sizes
<1>8. TypeOK'
  <2>1. common' \in Int
    BY <1>1, <1>2, <1>3, <1>6, Parts DEF Classes
  <2> QED
    BY <1>1, <1>3, <1>7, <2>1 DEF TypeOK
<1>9. InPass(pc)'
  <2>1. CASE pc = "D"
    BY <1>1, <1>2, <1>3, <1>5, <1>6, <2>1, Parts DEF InPass, Backward, Out, Base
  <2>2. CASE pc = "C"
    BY <1>1, <1>2, <1>3, <1>5, <1>6, <2>2, Parts DEF InPass, Backward, Out, Base
  <2>3. CASE pc = "B"
    <3>1. common # Start("B") + 1
      BY <1>1, <1>3, <2>3, Parts DEF PassIsOver
    <3>2. common' = common - 1
      BY <1>3, <1>6, <2>3, Parts
    <3> QED
      BY <1>1, <1>2, <1>3, <1>5, <2>3, <3>1, <3>2, Parts DEF InPass, Backward, Out, Base
  <2> QED
    BY <1>1, <2>1, <2>2, <2>3 DEF Classes
<1>10. \A i \in 0 .. (n - 1) : Ahead(i)' => Ahead(i) /\ i # common
  <2>1. CASE pc \in {"D", "C"}
    BY <1>1, <1>2, <1>3, <1>6, <2>1, Parts DEF Ahead
  <2>2. CASE pc = "B"
    BY <1>1, <1>2, <1>3, <1>5, <1>6, <2>2, Parts DEF Ahead
  <2> QED
    BY <1>1, <2>1, <2>2 DEF Classes
<1>11. \A i \in 0 .. (n - 1) : Ahead(i)' => classOf'[i] = before'[i]
  BY <1>1, <1>7, <1>10 DEF IInv
<1>12. NoJump'
  <2> SUFFICES ASSUME NEW i \in 0 .. (n - 1)
               PROVE  {before[i], classOf'[i]} # {"B", "D"}
    BY <1>1 DEF NoJump
  <2>1. CASE i # common
    BY <1>7, <2>1 DEF IInv, NoJump
  <2>2. CASE i = common
    <3>1. classOf'[i] = before[i] \/ classOf'[i] = Base \/ before[i] = Base
      BY <1>4, <1>7, <2>2 DEF Converted
    <3>2. {before[i], classOf[i]} # {"B", "D"}
      BY DEF IInv, NoJump
    <3> QED
      BY <1>4, <2>2, <3>1, <3>2 DEF Base
  <2> QED
    BY <2>1, <2>2
<1>13. ASSUME NEW c \in Classes, c # pc
       PROVE  Moved(c)' = Moved(c)
  <2>1. Start(c) \in Int /\ Stop(c) \in Int /\ Stop(c) <= n /\ Start(c) >= 0
    BY <1>3, Parts DEF Classes
  <2>2. common \notin Start(c) .. (Stop(c) - 1)
    BY <1>1, <1>2, <1>3, <1>13, Parts DEF Classes
  <2>3. \A i \in Start(c) .. (Stop(c) - 1) : classOf'[i] = classOf[i]
    BY <1>3, <1>7, <2>1, <2>2
  <2> QED
    BY <1>1, <1>5, <2>3 DEF Moved
<1>14. ASSUME pc # Base
       PROVE  Cardinality(Moved(pc)') = contador' /\ contador' <= TotalAltera
  <2>1. Start(pc) \in Int /\ Stop(pc) \in Int /\ Stop(pc) <= n /\ Start(pc) >= 0
    BY <1>1, <1>3, Parts DEF Classes
  <2>2. contador = Cardinality(Moved(pc)) /\ contador < TotalAltera
    BY <1>1, <1>3, <1>14 DEF IInv, PassIsOver, Limited
  <2>3. IsFiniteSet(Moved(pc)) /\ common \notin Moved(pc)
    BY <1>1, <1>3, <1>4, MovedFinite DEF Moved
  <2>4. Moved(pc)' = {i \in Start(pc) .. (Stop(pc) - 1) : classOf'[i] # before[i]}
    BY <1>1, <1>5 DEF Moved
  <2>5. CASE classOf'[common] = classOf[common] /\ contador' = contador
    <3>1. \A i \in Start(pc) .. (Stop(pc) - 1) : classOf'[i] = classOf[i]
      BY <1>3, <1>7, <2>1, <2>5
    <3>2. Moved(pc)' = Moved(pc)
      BY <2>4, <3>1 DEF Moved
    <3> QED
      BY <1>3, <2>2, <2>5, <3>2
  <2>6. CASE /\ classOf[common] # pc
             /\ classOf'[common] = Converted(classOf[common], pc) /\ contador' = contador + 1
    <3>1. classOf'[common] # before[common]
      BY <1>1, <1>4, <1>14, <2>6 DEF Converted, Base
    <3>2. \A i \in Start(pc) .. (Stop(pc) - 1) : i # common => classOf'[i] = classOf[i]
      BY <1>3, <1>7, <2>1
    <3>3. Moved(pc)' = Moved(pc) \cup {common}
      BY <1>2, <2>4, <3>1, <3>2 DEF Moved
    <3>4. Cardinality(Moved(pc) \cup {common}) = Cardinality(Moved(pc)) + 1
      BY <2>3, FS_AddElement
    <3> QED
      BY <1>3, <2>2, <2>6, <3>3, <3>4
  <2> QED
    BY <1>7, <2>5, <2>6
<1>15. ASSUME NEW c \in Classes \ {Base}
       PROVE  Cardinality(Moved(c)') <= TotalAltera
  <2>1. CASE c = pc
    <3>1. Moved(c)' = Moved(pc)'
      BY <1>1, <2>1 DEF Moved
    <3> QED
      BY <1>3, <1>14, <1>15, <2>1, <3>1, MovedFinite
  <2>2. CASE c # pc
    BY <1>13, <1>15, <2>2 DEF IInv
  <2> QED
    BY <2>1, <2>2
<1>16. pc' # "idle"
  BY <1>1 DEF Classes
<1> QED
  BY <1>1, <1>5, <1>8, <1>9, <1>11, <1>12, <1>14, <1>15, <1>16 DEF IInv

LEMMA KeepsIInv == IInv /\ [Next]_vars => IInv'
<1>1. ASSUME IInv, UNCHANGED vars
      PROVE  IInv'
  <2>1. /\ n' = n /\ classOf' = classOf /\ before' = before /\ pc' = pc
        /\ common' = common /\ contador' = contador
    BY <1>1 DEF vars
  <2>2. /\ \A c \in Classes : Start(c)' = Start(c) /\ Stop(c)' = Stop(c) /\ Moved(c)' = Moved(c)
        /\ TotalAltera' = TotalAltera
    BY <2>1, SameParts, SameMoved
  <2>3. TypeOK' /\ NoJump'
    BY <1>1, <2>1 DEF IInv, TypeOK, NoJump
  <2>4. pc \in Classes => InPass(pc)'
    BY <1>1, <2>1, <2>2 DEF IInv, InPass
  <2>5. \A i \in 0 .. (n - 1) : Ahead(i)' => Ahead(i)
    BY <2>1, <2>2 DEF Ahead, Classes
  <2> QED
    BY <1>1, <2>1, <2>2, <2>3, <2>4, <2>5 DEF IInv
<1> QED
  BY <1>1, KeepsChange, KeepsBegin, KeepsEnd, KeepsVisit DEF Next, RenewOUTALL

LEMMA AlwaysIInv == Spec => []IInv
BY StartsIInv, KeepsIInv, PTL DEF Spec

-----------------------------------------------------------------------------
(***************************************************************************)
(* The theorems.                                                           *)
(***************************************************************************)
\* The nodes, their classes and the locals of the loops are well typed.
THEOREM TypeCorrect == Spec => []TypeOK
<1>1. IInv => TypeOK
  BY DEF IInv
<1> QED
  BY <1>1, AlwaysIInv, PTL

\* No loop of NormalizeClasses looks past its part, so none past the vector, with any
\* number of nodes, one and two included.
THEOREM PartsAreKept == Spec => []StaysInPart
<1>1. IInv => StaysInPart
  BY Met DEF StaysInPart
<1> QED
  BY <1>1, AlwaysIInv, PTL

\* In one renewal nobody goes from B to D or back.
THEOREM NobodyJumps == Spec => []NoJump
<1>1. IInv => NoJump
  BY DEF IInv
<1> QED
  BY <1>1, AlwaysIInv, PTL

\* At most Percent of the nodes change in the part of D, and as many in that of B.
THEOREM ChangeIsBounded == Spec => []FewMove
<1>1. IInv => FewMove
  <2> SUFFICES ASSUME IInv, NEW c \in Classes \ {Base}
               PROVE  100 * Cardinality(Moved(c)) <= n * Percent
    BY DEF FewMove
  <2>1. Cardinality(Moved(c)) \in Nat /\ Cardinality(Moved(c)) <= TotalAltera
    BY MovedFinite DEF IInv
  <2>2. TotalAltera \in Nat /\ 100 * TotalAltera <= n * Percent /\ n * Percent \in Nat
    BY Totals, TopologyAssumption DEF IInv, TypeOK
  <2> QED
    BY <2>1, <2>2
<1> QED
  BY <1>1, AlwaysIInv, PTL

-----------------------------------------------------------------------------
(***************************************************************************)
(* Renewals converge.                                                      *)
(***************************************************************************)
Part(c) == Start(c) .. (Stop(c) - 1)
Changed(i) == classOf[i] # before[i]

\* The nodes of the part at hand that the loop has left behind.
Behind(i) == IF Backward(pc) THEN i > common ELSE i < common

\* What a pass leaves: a change, or the class of its part wherever it looks.
Walked(c) ==
  \/ \E i \in Part(c) : Changed(i)
  \/ Limited(c) /\ TotalAltera = 0
  \/ \A i \in Part(c) : (Backward(c) => i > End(c)) => classOf[i] = c

\* Who changed did so once, by one step towards the class of its part.
OneStep ==
  \A c \in Classes : \A i \in Part(c) :
    Changed(i) => before[i] # c /\ classOf[i] = Converted(before[i], c)

CInv ==
  /\ IInv
  /\ OneStep
  /\ pc \in Classes => \A i \in Part(pc) : Behind(i) => classOf[i] = pc \/ Changed(i)
  /\ pc \in {"C", "B"} => Walked("D")
  /\ pc = "B" => Walked("C")

\* A step of a conversion is a change, and a step nearer.
LEMMA ConvertedIsNearer ==
  ASSUME NEW c \in Classes, NEW x \in Sizes, x # c
  PROVE  /\ Converted(x, c) # x /\ Converted(x, c) \in Sizes
         /\ Distance(c, Converted(x, c)) < Distance(c, x)
BY DEF Converted, Distance, Base, Classes, Sizes

LEMMA SameWalked ==
  ASSUME n' = n, classOf' = classOf, before' = before, NEW c \in Classes
  PROVE  Walked(c)' <=> Walked(c)
<1>1. /\ Start(c)' = Start(c) /\ Stop(c)' = Stop(c) /\ TotalAltera' = TotalAltera
      /\ End(c)' = End(c)
  BY SameParts DEF End
<1> QED
  BY <1>1 DEF Walked, Part, Changed

LEMMA SameOneStep ==
  ASSUME OneStep, n' = n, classOf' = classOf, before' = before
  PROVE  OneStep'
BY SameParts DEF OneStep, Part, Changed

\* Between two renewals.
LEMMA RestartsCInv == IInv /\ pc = "idle" => CInv
BY DEF CInv, IInv, OneStep, Changed, Classes

LEMMA RestartsCInvNext == (IInv /\ pc = "idle" => CInv)'
BY RestartsCInv, PTL

\* When a pass is over, it was walked: either it met all it looks at, or it reached its
\* limit, which without a change is zero.
LEMMA EndIsWalked ==
  ASSUME CInv, pc \in Classes, PassIsOver(pc)
  PROVE  Walked(pc)
<1>1. IInv /\ TypeOK /\ n \in Nat /\ common \in Int /\ contador \in Nat
  BY DEF CInv, IInv, TypeOK
<1> SUFFICES ASSUME \A i \in Part(pc) : ~Changed(i)
             PROVE  Walked(pc)
  BY DEF Walked
<1>2. CASE common = End(pc)
  <2>1. \A i \in Part(pc) : (Backward(pc) => i > End(pc)) => Behind(i)
    <3>1. CASE pc = "B"
      <4>1. Backward(pc)
        BY <3>1 DEF Backward, Out, Base
      <4> QED
        BY <1>2, <4>1 DEF Behind
    <3>2. CASE pc \in {"C", "D"}
      <4>1. ~Backward(pc) /\ End(pc) = Stop(pc)
        BY <3>2 DEF Backward, End, Out, Base
      <4>2. Start(pc) \in Int /\ Stop(pc) \in Int
        BY <1>1, <3>2, Parts
      <4> QED
        BY <1>2, <4>1, <4>2 DEF Behind, Part
    <3> QED
      BY <3>1, <3>2 DEF Classes
  <2>2. \A i \in Part(pc) : Behind(i) => classOf[i] = pc
    BY DEF CInv
  <2> QED
    BY <2>1, <2>2 DEF Walked
<1>3. CASE Limited(pc) /\ contador >= TotalAltera
  <2>1. Cardinality(Moved(pc)) = 0
    BY MovedNone DEF Part, Changed
  <2>2. contador = 0
    BY <1>1, <1>3, <2>1 DEF IInv, Limited
  <2>3. TotalAltera = 0
    BY <1>1, <1>3, <2>2, Totals
  <2> QED
    BY <1>3, <2>3 DEF Walked
<1> QED
  BY <1>2, <1>3 DEF PassIsOver

\* A pass begins with nobody behind.
LEMMA BeginKeepsCInv ==
  ASSUME CInv, NEW c \in Classes, NormalizeClasses(c), before' = before, IInv',
         c \in {"C", "B"} => Walked("D"), c = "B" => Walked("C")
  PROVE  CInv'
<1>1. pc' = c /\ common' = First(c) /\ n' = n /\ classOf' = classOf /\ n \in Nat
  BY DEF NormalizeClasses, CInv, IInv, TypeOK
<1>2. OneStep'
  BY <1>1, SameOneStep DEF CInv
<1>3. Walked("D")' <=> Walked("D")
  BY <1>1, SameWalked DEF Classes
<1>4. Walked("C")' <=> Walked("C")
  BY <1>1, SameWalked DEF Classes
<1>5. \A i \in Part(pc)' : ~Behind(i)'
  <2>1. Part(pc)' = Part(c) /\ common' = First(c) /\ (Backward(pc)' <=> Backward(c))
    BY <1>1, SameParts DEF Part, Backward
  <2> SUFFICES ASSUME NEW i \in Part(c)
               PROVE  ~(IF Backward(c) THEN i > First(c) ELSE i < First(c))
    BY <2>1 DEF Behind
  <2>2. CASE c = "B"
    <3>1. Backward(c) /\ First(c) = n - 1 /\ Stop(c) = n /\ Start(c) \in Int
      BY <1>1, <2>2, Parts DEF Backward, Out, Base
    <3> QED
      BY <1>1, <3>1 DEF Part
  <2>3. CASE c \in {"C", "D"}
    <3>1. ~Backward(c) /\ First(c) = Start(c) /\ Start(c) \in Int /\ Stop(c) \in Int
      BY <1>1, <2>3, Parts DEF Backward, Out, Base
    <3> QED
      BY <3>1 DEF Part
  <2> QED
    BY <2>2, <2>3 DEF Classes
<1> QED
  BY <1>1, <1>2, <1>3, <1>4, <1>5 DEF CInv

LEMMA EndKeepsCInv == CInv /\ EndPass /\ IInv' => CInv'
<1> SUFFICES ASSUME CInv, EndPass, IInv'
             PROVE  CInv'
  OBVIOUS
<1>1. CASE pc = "D" /\ PassIsOver("D") /\ NormalizeClasses("C") /\ before' = before
  BY <1>1, EndIsWalked, BeginKeepsCInv DEF Classes
<1>2. CASE pc = "C" /\ PassIsOver("C") /\ NormalizeClasses("B") /\ before' = before
  BY <1>2, EndIsWalked, BeginKeepsCInv DEF Classes, CInv
<1>3. CASE pc' = "idle"
  BY <1>3, RestartsCInvNext
<1> QED
  BY <1>1, <1>2, <1>3 DEF EndPass

LEMMA VisitKeepsCInv == CInv /\ Visit /\ IInv' => CInv'
<1> SUFFICES ASSUME CInv, Visit, IInv'
             PROVE  CInv'
  OBVIOUS
<1>1. pc \in Classes /\ ~PassIsOver(pc) /\ pc' = pc /\ n' = n /\ before' = before /\ IInv
  BY DEF Visit, CInv
<1>2. /\ common \in Part(pc) /\ common \in 0 .. (n - 1)
      /\ classOf[common] = before[common] /\ n \in Nat
      /\ classOf \in [0 .. (n - 1) -> Sizes]
  BY <1>1, Met DEF IInv, TypeOK, Part
<1>3. /\ \A c \in Classes : Part(c)' = Part(c) /\ Part(c) \subseteq 0 .. (n - 1)
      /\ TotalAltera' = TotalAltera
  <2>1. \A c \in Classes : Start(c) \in Nat /\ Stop(c) \in Int /\ Stop(c) <= n
    BY <1>2, Parts DEF Classes
  <2>2. \A c \in Classes : Part(c) \subseteq 0 .. (n - 1)
    <3> SUFFICES ASSUME NEW c \in Classes, NEW i \in Part(c)
                 PROVE  i \in 0 .. (n - 1)
      OBVIOUS
    <3>1. Start(c) \in Nat /\ Stop(c) \in Int /\ Stop(c) <= n
      BY <2>1
    <3> QED
      BY <1>2, <3>1 DEF Part
  <2> QED
    BY <1>1, <2>2, SameParts DEF Part
<1>4. /\ \A i \in 0 .. (n - 1) : i # common => classOf'[i] = classOf[i]
      /\ classOf'[common] = IF classOf[common] = pc THEN pc ELSE Converted(classOf[common], pc)
  BY <1>1, <1>2 DEF Visit
<1>5. \A c \in Classes : c # pc => common \notin Part(c)
  <2>1. TypeOK /\ common \in Start(pc) .. (Stop(pc) - 1)
    BY <1>1, <1>2 DEF IInv, Part
  <2> QED
    BY <1>1, <1>2, <2>1, Parts DEF Part, Classes
<1>6. OneStep'
  <2> SUFFICES ASSUME NEW c \in Classes, NEW i \in Part(c), classOf'[i] # before[i]
               PROVE  before[i] # c /\ classOf'[i] = Converted(before[i], c)
    BY <1>1, <1>3 DEF OneStep, Changed
  <2>1. CASE i = common
    BY <1>2, <1>4, <1>5, <2>1
  <2>2. CASE i # common
    BY <1>3, <1>4, <2>2 DEF CInv, OneStep, Changed
  <2> QED
    BY <2>1, <2>2
<1>7. \A i \in Part(pc) : Behind(i)' => Behind(i) \/ i = common
  <2>1. common' = Following(pc, common) /\ common \in Int /\ Part(pc) \subseteq Int
    BY <1>2, <1>3, <1>1 DEF Visit
  <2>2. \A i \in Part(pc) : i \in Int
    BY <2>1
  <2>3. CASE Backward(pc)
    BY <1>1, <2>1, <2>2, <2>3 DEF Behind, Following
  <2>4. CASE ~Backward(pc)
    BY <1>1, <2>1, <2>2, <2>4 DEF Behind, Following
  <2> QED
    BY <2>3, <2>4
<1>8. ASSUME NEW i \in Part(pc)', Behind(i)'
      PROVE  classOf'[i] = pc' \/ Changed(i)'
  <2>1. i \in Part(pc) /\ i \in 0 .. (n - 1)
    BY <1>1, <1>3, <1>8 DEF Part
  <2>2. CASE i = common
    <3>1. classOf[common] \in Sizes
      BY <1>2
    <3> QED
      BY <1>1, <1>2, <1>4, <2>2, <3>1, ConvertedIsNearer DEF Changed
  <2>3. CASE i # common
    BY <1>1, <1>4, <1>7, <1>8, <2>1, <2>3 DEF CInv, Changed
  <2> QED
    BY <2>2, <2>3
<1>9. ASSUME NEW c \in Classes, c # pc, Walked(c)
      PROVE  Walked(c)'
  <2>1. End(c)' = End(c)
    BY <1>1, SameParts DEF End
  <2>2. \A i \in Part(c) : classOf'[i] = classOf[i]
    BY <1>3, <1>4, <1>5, <1>9
  <2> QED
    BY <1>1, <1>3, <1>9, <2>1, <2>2 DEF Walked, Changed
<1>10. pc' \in {"C", "B"} => Walked("D")'
  BY <1>1, <1>9 DEF CInv, Classes
<1>11. pc' = "B" => Walked("C")'
  BY <1>1, <1>9 DEF CInv, Classes
<1> QED
  BY <1>1, <1>6, <1>8, <1>10, <1>11 DEF CInv

LEMMA KeepsCInv == CInv /\ [Next]_vars => CInv'
<1> SUFFICES ASSUME CInv, [Next]_vars
             PROVE  CInv'
  OBVIOUS
<1>1. IInv'
  BY KeepsIInv DEF CInv
<1>2. CASE UNCHANGED vars
  <2>1. /\ n' = n /\ classOf' = classOf /\ before' = before /\ pc' = pc /\ common' = common
    BY <1>2 DEF vars
  <2>2. OneStep' /\ \A c \in Classes : Walked(c)' <=> Walked(c)
    BY <2>1, SameOneStep, SameWalked DEF CInv
  <2>3. pc \in Classes => Part(pc)' = Part(pc)
    BY <2>1, SameParts DEF Part
  <2> QED
    BY <1>1, <2>1, <2>2, <2>3 DEF CInv, Behind, Changed, Classes
<1>3. CASE Change
  <2>1. pc' = "idle"
    BY <1>3 DEF Change, Join, Leave, Overtake, Idle
  <2> QED
    BY <1>1, <2>1, RestartsCInvNext
<1>4. CASE BeginRenewal
  BY <1>1, <1>4, BeginKeepsCInv DEF BeginRenewal, Classes
<1> QED
  BY <1>1, <1>2, <1>3, <1>4, EndKeepsCInv, VisitKeepsCInv DEF Next, RenewOUTALL

\* The measure that decreases as long as the classes are not settled: no node is ever
\* further from the class of its part after a renewal, and one at least is nearer.
THEOREM EveryRenewalConverges == Spec => RenewalsConverge
<1> DEFINE Converges ==
      pc = "B" /\ pc' = "idle" =>
        /\ \A c \in Classes :
             \A i \in Start(c) .. (Stop(c) - 1) : classOf[i] = before[i] \/ Nearer(c, i)
        /\ Settled \/ \E c \in Classes : \E i \in Start(c) .. (Stop(c) - 1) : Nearer(c, i)
<1>1. CInv /\ [Next]_vars => Converges
  <2> SUFFICES ASSUME CInv, [Next]_vars, pc = "B", pc' = "idle"
               PROVE  /\ \A c \in Classes : \A i \in Part(c) : classOf[i] = before[i] \/ Nearer(c, i)
                      /\ Settled \/ \E c \in Classes : \E i \in Part(c) : Nearer(c, i)
    BY DEF Part
  <2>1. PassIsOver("B")
    BY DEF Next, Change, Join, Leave, Overtake, Idle, RenewOUTALL, BeginRenewal, EndPass, Visit,
           vars
  <2>2. \A c \in Classes : Walked(c)
    BY <2>1, EndIsWalked DEF CInv, Classes
  <2>3. \A c \in Classes : \A i \in Part(c) : i \in 0 .. (n - 1)
    <3>1. n \in Nat
      BY DEF CInv, IInv, TypeOK
    <3> QED
      BY <3>1, Parts DEF Part, Classes
  <2>4. ASSUME NEW c \in Classes, NEW i \in Part(c), Changed(i)
        PROVE  Nearer(c, i)
    <3>1. before[i] \in Sizes
      BY <2>3 DEF CInv, IInv, TypeOK
    <3> QED
      BY <2>4, <3>1, ConvertedIsNearer DEF CInv, OneStep, Nearer
  <2>5. ASSUME \A c \in Classes : \A i \in Part(c) : ~Changed(i)
        PROVE  Settled
    <3>1. TotalAltera \in Nat
      BY Totals DEF CInv, IInv, TypeOK
    <3> QED
      BY <2>2, <2>5, <3>1 DEF Walked, Settled, Part
  <2> QED
    BY <2>4, <2>5 DEF Changed
<1>2. Init => CInv
  BY StartsIInv, RestartsCInv DEF Init
<1> QED
  BY <1>1, <1>2, KeepsCInv, PTL DEF Spec, RenewalsConverge

=============================================================================
