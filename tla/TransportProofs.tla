-------------------------- MODULE TransportProofs --------------------------
(***************************************************************************)
(* Proofs about Transport, for any messages, addresses and configuration   *)
(* that satisfy the module's assumption.                                   *)
(***************************************************************************)
EXTENDS Transport, SequenceTheorems, WellFoundedInduction, TLAPS

LEMMA MinIsLeast ==
  ASSUME NEW S \in SUBSET Nat, S # {}
  PROVE  Min(S) \in S /\ \A y \in S : Min(S) <= y
<1>1. PICK x \in S : \A y \in S : ~(<<y, x>> \in OpToRel(<, Nat))
  BY WFMin, NatLessThanWellFounded, Zenon
<1>2. ASSUME NEW y \in S PROVE x <= y
  <2>1. x \in Nat /\ y \in Nat
    OBVIOUS
  <2>2. y < x => <<y, x>> \in {ss \in Nat \X Nat : ss[1] < ss[2]}
    BY <2>1
  <2>3. y < x => <<y, x>> \in OpToRel(<, Nat)
    BY <2>2 DEF OpToRel
  <2>4. ~(y < x)
    BY <1>1, <2>3, Zenon
  <2>5. QED
    BY <2>1, <2>4
<1>3. QED
  BY <1>2 DEF Min

LEMMA AddressesAreNat == Addresses \in SUBSET Nat /\ Invalid \notin Addresses
BY TransportAssumption DEF Addresses, Invalid

LEMMA AddressOf == \A m \in Messages : m.address \in Addresses
BY DEF Addresses

(***************************************************************************)
(* Going through the addresses in their cyclic order from k, b comes       *)
(* before x.                                                               *)
(***************************************************************************)
InTurn(k, b, x) == (k <= b /\ b < x) \/ (b < x /\ x < k) \/ (x < k /\ k <= b)

LEMMA TurnsArithmetic ==
  ASSUME NEW k \in Nat, NEW n \in Nat, NEW b \in Nat, NEW x \in Nat,
         \/ b < k /\ n <= b
         \/ n > k /\ b # k /\ (b < k \/ n <= b)
  PROVE  InTurn(n, b, k) /\ (InTurn(k, b, x) => InTurn(n, b, x))
BY DEF InTurn

\* Whoever was served while b waits comes after b, seen from where C stands.
Turns ==
  /\ keyPointer = Invalid => \A b \in Addresses : overtaken[b] = {}
  /\ \A b \in Addresses : rr[b] = <<>> => overtaken[b] = {}
  /\ \A b \in Addresses : \A x \in overtaken[b] : InTurn(keyPointer, b, x)

IInv == TypeOK /\ PopFindsMessage /\ Turns

\* The lists that PopFindsMessage and Turns are about, in a form whose prime is
\* easy to name.
lists == <<fifo, requests, rr, keySet>>

LEMMA InitEstablishes == Init => IInv
<1> SUFFICES ASSUME Init PROVE IInv
  OBVIOUS
<1> USE TransportAssumption DEF Init
<1>1. fifo \in Seq(Messages) /\ requests \in Seq(Messages)
      /\ rr \in [Addresses -> Seq(Messages)]
  BY EmptySeq
<1>2. TypeOK
  BY <1>1 DEF TypeOK, Places
<1>3. PopFindsMessage /\ Turns
  BY DEF PopFindsMessage, Turns
<1>4. QED
  BY <1>2, <1>3 DEF IInv

(***************************************************************************)
(* The queues, and what Pop finds there.                                   *)
(***************************************************************************)
\* A place of the second half of a Pop, and the queue it takes from.
LEMMA OtherStepsKeepQueues ==
  ASSUME IInv, UNCHANGED <<lists, keyPointer, overtaken, scheduler, role>>,
         \A p \in {"popFifo", "popRequest", "popRR"} : pc' = p => pc = p
  PROVE  PopFindsMessage' /\ Turns'
BY DEF IInv, lists, PopFindsMessage, Turns

LEMMA InsertKeepsQueues ==
  ASSUME IInv, NEW m \in Messages, Insert(m)
  PROVE  /\ fifo' \in Seq(Messages) /\ requests' \in Seq(Messages)
         /\ rr' \in [Addresses -> Seq(Messages)]
         /\ keySet' \in SUBSET Addresses /\ keySet \subseteq keySet'
         /\ fifo # <<>> => fifo' # <<>>
         /\ requests # <<>> => requests' # <<>>
         /\ \A a \in Addresses : rr[a] # <<>> => rr'[a] # <<>>
         /\ \A a \in Addresses : a \in keySet' <=> rr'[a] # <<>>
<1> USE DEF IInv, TypeOK, PopFindsMessage
<1>1. ASSUME NEW q \in Seq(Messages)
      PROVE  /\ Append(q, m) \in Seq(Messages) /\ Append(q, m) # <<>>
             /\ <<m>> \o q \in Seq(Messages) /\ <<m>> \o q # <<>>
  <2>1. Append(q, m) \in Seq(Messages) /\ Len(Append(q, m)) = Len(q) + 1
    BY AppendProperties
  <2>2. <<m>> \in Seq(Messages) /\ Len(<<m>>) = 1
    OBVIOUS
  <2>3. <<m>> \o q \in Seq(Messages) /\ Len(<<m>> \o q) = 1 + Len(q)
    BY <2>2, ConcatProperties
  <2>4. Len(q) \in Nat
    BY LenProperties
  <2>5. Len(Append(q, m)) # 0 /\ Len(<<>>) = 0
    BY <2>1, <2>4
  <2>6. <<m>> \o q # <<>>
    BY <2>3, <2>4, EmptySeq
  <2>7. QED
    BY <2>1, <2>3, <2>5, <2>6, Zenon
<1>2. CASE fifo' \in {Append(fifo, m), <<m>> \o fifo} /\ UNCHANGED <<requests, rr, keySet>>
  BY <1>1, <1>2
<1>3. CASE /\ \E i \in 1 .. (Len(requests) + 1) : requests' = InsertAt(requests, i, m)
           /\ UNCHANGED <<fifo, rr, keySet>>
  <2>1. PICK i \in 1 .. (Len(requests) + 1) : requests' = InsertAt(requests, i, m)
    BY <1>3
  <2>2. Len(requests) \in Nat /\ requests \in [1 .. Len(requests) -> Messages]
    BY LenProperties
  <2> DEFINE before == SubSeq(requests, 1, i - 1)
             after == SubSeq(requests, i, Len(requests))
  <2>3. before \in Seq(Messages) /\ after \in Seq(Messages) /\ <<m>> \in Seq(Messages)
    BY <2>2, SubSeqProperties
  <2>4. requests' = before \o <<m>> \o after
    BY <2>1 DEF InsertAt
  <2> HIDE DEF before, after
  <2>5. /\ before \o <<m>> \in Seq(Messages)
        /\ Len(before \o <<m>>) = Len(before) + 1 /\ Len(before) \in Nat
    BY <2>3, ConcatProperties, LenProperties
  <2>6. /\ requests' \in Seq(Messages)
        /\ Len(requests') = Len(before \o <<m>>) + Len(after) /\ Len(after) \in Nat
    BY <2>3, <2>4, <2>5, ConcatProperties, LenProperties
  <2>7. requests' # <<>>
    BY <2>5, <2>6, EmptySeq
  <2>8. QED
    BY <1>3, <2>6, <2>7
<1>4. CASE /\ rr' = [rr EXCEPT ![m.address] = Append(@, m)]
           /\ keySet' = keySet \cup {m.address}
           /\ UNCHANGED <<fifo, requests>>
  <2>1. m.address \in Addresses
    BY AddressOf
  <2>2. rr[m.address] \in Seq(Messages)
    BY <2>1
  <2>3. /\ Append(rr[m.address], m) \in Seq(Messages) /\ Append(rr[m.address], m) # <<>>
    BY <1>1, <2>2
  <2>4. QED
    BY <1>4, <2>1, <2>3
<1>5. QED
  BY <1>2, <1>3, <1>4 DEF Insert, PushAtEnd

LEMMA PushKeeps ==
  ASSUME IInv, NEW m \in Messages, Push(m)
  PROVE  IInv'
<1> USE TransportAssumption DEF Push
<1>1. Insert(m) /\ UNCHANGED <<scheduler, role, keyPointer, pc, message, overtaken>>
  BY DEF ghosts
<1>2. /\ fifo # <<>> => fifo' # <<>>
      /\ requests # <<>> => requests' # <<>>
      /\ \A a \in Addresses : rr[a] # <<>> => rr'[a] # <<>>
      /\ \A a \in Addresses : a \in keySet' <=> rr'[a] # <<>>
      /\ keySet \subseteq keySet'
  BY <1>1, InsertKeepsQueues
<1>3. PopFindsMessage' /\ Turns'
  <2>1. PopFindsMessage'
    BY <1>1, <1>2 DEF IInv, PopFindsMessage
  <2>2. Turns'
    BY <1>1, <1>2 DEF IInv, Turns
  <2>3. QED
    BY <2>1, <2>2
<1>4. notifying' \in 0 .. Producers
  BY DEF MayHandOver, IInv, TypeOK
<1>5. TypeOK'
  BY <1>1, <1>4, InsertKeepsQueues DEF IInv, TypeOK, Places
<1>6. QED
  BY <1>3, <1>5 DEF IInv

(***************************************************************************)
(* Taking a message out.                                                   *)
(***************************************************************************)
\* Pop keeps the cyclic order: NextKey is the first of the others, so whoever
\* waits is not passed by.
LEMMA NextKeyIsNext ==
  ASSUME IInv, keyPointer \in Addresses
  PROVE  /\ NextKey = Invalid => Others = {}
         /\ Others = {} => NextKey = Invalid
         /\ Others # {} => NextKey \in Others
         /\ \A b \in Others :
              /\ InTurn(NextKey, b, keyPointer)
              /\ \A x \in Addresses : InTurn(keyPointer, b, x) => InTurn(NextKey, b, x)
<1> DEFINE later == {k \in Others : k > keyPointer}
<1>1. Others \in SUBSET Nat /\ later \in SUBSET Others /\ Others \in SUBSET Addresses
      /\ keyPointer \in Nat /\ keyPointer \notin Others
  BY AddressesAreNat DEF Others, IInv, TypeOK
<1>2. CASE Others = {}
  BY <1>2 DEF NextKey
<1>3. CASE Others # {} /\ later = {}
  <2>1. NextKey = Min(Others)
    BY <1>3 DEF NextKey
  <2>2. NextKey \in Others /\ \A y \in Others : NextKey <= y
    BY <1>1, <1>3, <2>1, MinIsLeast
  <2>3. NextKey # Invalid /\ NextKey \in Nat
    BY <1>1, <2>2, AddressesAreNat
  <2>4. ASSUME NEW b \in Others
        PROVE  b \in Nat /\ b < keyPointer /\ NextKey <= b
    BY <1>1, <1>3, <2>2
  <2>5. ASSUME NEW b \in Others, NEW x \in Nat
        PROVE  /\ InTurn(NextKey, b, keyPointer)
               /\ InTurn(keyPointer, b, x) => InTurn(NextKey, b, x)
    BY <1>1, <2>3, <2>4, TurnsArithmetic
  <2>6. QED
    BY <1>3, <2>2, <2>3, <2>5, AddressesAreNat
<1>4. CASE later # {}
  <2>1. NextKey = Min(later)
    BY <1>4 DEF NextKey
  <2>2. NextKey \in later /\ \A y \in later : NextKey <= y
    BY <1>1, <1>4, <2>1, MinIsLeast
  <2>3. NextKey # Invalid /\ NextKey \in Nat /\ NextKey \in Others /\ NextKey > keyPointer
    BY <1>1, <2>2, AddressesAreNat
  <2>4. ASSUME NEW b \in Others
        PROVE  b \in Nat /\ (b < keyPointer \/ NextKey <= b)
    BY <1>1, <2>2
  <2>5. ASSUME NEW b \in Others, NEW x \in Nat
        PROVE  /\ InTurn(NextKey, b, keyPointer)
               /\ InTurn(keyPointer, b, x) => InTurn(NextKey, b, x)
    BY <1>1, <2>3, <2>4, TurnsArithmetic
  <2>6. QED
    BY <1>4, <2>3, <2>5, AddressesAreNat
<1>5. QED
  BY <1>2, <1>3, <1>4

LEMMA PopRRKeeps ==
  ASSUME IInv, PopRR
  PROVE  IInv'
<1> USE DEF IInv
<1> DEFINE a == keyPointer
           others == {k \in keySet \ {a} : rr[k] # <<>>}
<1>1. a \in Addresses /\ rr[a] \in Seq(Messages) /\ rr[a] # <<>> /\ a \in keySet
  BY DEF PopRR, PopFindsMessage, TypeOK
<1>2. Head(rr[a]) \in Messages /\ Tail(rr[a]) \in Seq(Messages)
  BY <1>1, HeadTailProperties
<1>3. /\ rr' = [rr EXCEPT ![a] = Tail(rr[a])]
      /\ keySet' = IF Tail(rr[a]) = <<>> THEN keySet \ {a} ELSE keySet
      /\ keyPointer' = NextKey
      /\ overtaken' = [b \in Addresses |-> IF b = a \/ rr[b] = <<>> THEN {}
                                          ELSE overtaken[b] \cup {a}]
      /\ message' = Head(rr[a]) /\ pc' \in {"test", "finish"}
      /\ UNCHANGED <<fifo, requests, scheduler, role, notifying, tokens, age, clock>>
  BY DEF PopRR, Taken
<1>4. \A b \in Addresses : b \in Others <=> b # a /\ rr[b] # <<>>
  BY DEF Others, PopFindsMessage
<1>5. NextKey \in Addresses \cup {Invalid} /\ (NextKey # Invalid => NextKey \in Others)
  BY <1>1, NextKeyIsNext DEF Others, TypeOK
<1>6. TypeOK'
  BY <1>1, <1>2, <1>3, <1>5, TransportAssumption DEF TypeOK, Places
<1>7. PopFindsMessage'
  <2>1. \A b \in Addresses : b \in keySet' <=> rr'[b] # <<>>
    BY <1>1, <1>3 DEF PopFindsMessage, TypeOK
  <2>2. keyPointer' # Invalid => keyPointer' \in keySet'
    BY <1>3, <1>5 DEF Others
  <2>3. QED
    BY <1>3, <2>1, <2>2 DEF PopFindsMessage
<1>8. Turns'
  <2>1. ASSUME NEW b \in Addresses, NextKey = Invalid PROVE overtaken'[b] = {}
    BY <1>1, <1>3, <1>4, <2>1, NextKeyIsNext
  <2>2. ASSUME NEW b \in Addresses, rr'[b] = <<>> PROVE overtaken'[b] = {}
    BY <1>3, <2>2 DEF TypeOK
  <2>3. ASSUME NEW b \in Addresses, NEW x \in overtaken'[b]
        PROVE  InTurn(NextKey, b, x)
    <3>1. b \in Others /\ (x = a \/ x \in overtaken[b])
      BY <1>3, <1>4, <2>3
    <3>2. x \in overtaken[b] => InTurn(a, b, x) /\ x \in Addresses
      BY DEF Turns, TypeOK
    <3>3. QED
      BY <1>1, <3>1, <3>2, NextKeyIsNext
  <2>4. QED
    BY <1>3, <2>1, <2>2, <2>3 DEF Turns
<1>9. QED
  BY <1>6, <1>7, <1>8

LEMMA ChooseKeeps ==
  ASSUME IInv, Choose
  PROVE  IInv'
<1> USE DEF IInv
<1>1. UNCHANGED <<lists, scheduler, role, overtaken, notifying, message, tokens, age, clock>>
      /\ pc = "choose" /\ pc' \in {"popFifo", "popRequest", "popRR", "size"}
      /\ (pc' = "popFifo" => fifo # <<>>) /\ (pc' = "popRequest" => requests # <<>>)
  BY DEF Choose, Goto, queues, lists, ghosts
<1>2. CASE keyPointer' = keyPointer /\ (pc' = "popRR" => keyPointer # Invalid)
  BY <1>1, <1>2 DEF TypeOK, PopFindsMessage, Turns, Places, lists
<1>3. CASE keyPointer = Invalid /\ keySet # {} /\ keyPointer' = Min(keySet)
  <2>1. Min(keySet) \in keySet /\ Min(keySet) # Invalid /\ Min(keySet) \in Addresses
    BY <1>3, MinIsLeast, AddressesAreNat DEF TypeOK
  <2>2. QED
    BY <1>1, <1>3, <2>1 DEF TypeOK, PopFindsMessage, Turns, Places, lists
<1>4. QED
  BY <1>2, <1>3 DEF Choose, Goto, PopFindsMessage, TypeOK

LEMMA PopHeadKeeps ==
  ASSUME IInv, PopFifo \/ PopRequest
  PROVE  IInv'
<1> USE DEF IInv, Taken, ghosts
<1>1. CASE PopFifo
  <2>1. Head(fifo) \in Messages /\ Tail(fifo) \in Seq(Messages)
    BY <1>1, HeadTailProperties DEF PopFifo, PopFindsMessage, TypeOK
  <2>2. QED
    BY <1>1, <2>1, TransportAssumption DEF PopFifo, TypeOK, PopFindsMessage, Turns, Places
<1>2. CASE PopRequest
  <2>1. Head(requests) \in Messages /\ Tail(requests) \in Seq(Messages)
    BY <1>2, HeadTailProperties DEF PopRequest, PopFindsMessage, TypeOK
  <2>2. QED
    BY <1>2, <2>1, TransportAssumption DEF PopRequest, TypeOK, PopFindsMessage, Turns, Places
<1>3. QED
  BY <1>1, <1>2

(***************************************************************************)
(* The other steps leave the queues alone.                                 *)
(***************************************************************************)
LEMMA OtherStepsKeep ==
  ASSUME IInv,
         \/ BadDatagram \/ Notify \/ GetSize \/ Wait \/ WakeBySelf \/ UDPSend \/ Finish
         \/ Replenish \/ Tick
  PROVE  IInv'
<1> USE TransportAssumption DEF Goto, KeepQueues, queues, ghosts
<1>1. UNCHANGED <<lists, keyPointer, overtaken, scheduler, role>>
      /\ \A p \in {"popFifo", "popRequest", "popRR"} : pc' = p => pc = p
  BY DEF BadDatagram, Notify, GetSize, Wait, WakeBySelf, UDPSend, DropOld, TestAge, DecToken,
         WaitForTokens, Finish, Replenish, Tick, Done, lists
<1>2. PopFindsMessage' /\ Turns'
  BY <1>1, OtherStepsKeepQueues
<1> USE DEF IInv, TypeOK, Places
<1>3. CASE BadDatagram
  BY <1>2, <1>3 DEF BadDatagram, MayHandOver
<1>4. CASE Notify
  BY <1>2, <1>4 DEF Notify
<1>5. CASE GetSize \/ Wait \/ WakeBySelf
  BY <1>2, <1>5 DEF GetSize, Wait, WakeBySelf
<1>6. CASE DropOld \/ Finish
  <2>1. age' = [age EXCEPT ![message] = 0] /\ message' = None /\ pc' = "size"
        /\ UNCHANGED <<lists, scheduler, role, keyPointer, clock, overtaken, notifying, tokens>>
    BY <1>6 DEF DropOld, Finish, Done, lists
  <2>2. 0 \in 0 .. TicksPerSecond /\ age \in [Messages -> 0 .. TicksPerSecond]
    OBVIOUS
  <2>3. age' \in [Messages -> 0 .. TicksPerSecond]
    BY <2>1, <2>2, Zenon
  <2>4. QED
    BY <1>2, <2>1, <2>3 DEF lists
<1>7. CASE TestAge
  BY <1>2, <1>7 DEF TestAge
<1>8. CASE DecToken
  <2>1. message \in Messages /\ message.size \in Nat
    BY <1>8 DEF DecToken
  <2>2. tokens' \in 0 .. BucketSize
    BY <1>8, <2>1 DEF DecToken, Enough
  <2>3. QED
    BY <1>2, <1>8, <2>2 DEF DecToken
<1>9. CASE WaitForTokens
  BY <1>2, <1>9 DEF WaitForTokens
<1>10. CASE Replenish
  <2>1. tokens' \in 0 .. BucketSize
    BY <1>10 DEF Replenish, Capped
  <2>2. QED
    BY <1>2, <1>10, <2>1 DEF Replenish
<1>11. CASE Tick
  <2>1. clock' \in 0 .. (TicksPerSecond - 1)
    BY <1>11 DEF Tick
  <2>2. age' \in [Messages -> 0 .. TicksPerSecond]
    BY <1>11 DEF Tick
  <2>3. QED
    BY <1>2, <1>11, <2>1, <2>2 DEF Tick
<1>12. QED
  BY <1>3, <1>4, <1>5, <1>6, <1>7, <1>8, <1>9, <1>10, <1>11 DEF UDPSend

LEMMA NextKeeps == IInv /\ [Next]_vars => IInv'
<1> SUFFICES ASSUME IInv, [Next]_vars PROVE IInv'
  OBVIOUS
<1>1. CASE UNCHANGED vars
  BY <1>1 DEF vars, queues, ghosts, IInv, TypeOK, PopFindsMessage, Turns
<1>2. CASE Next
  BY <1>2, PushKeeps, ChooseKeeps, PopHeadKeeps, PopRRKeeps, OtherStepsKeep
  DEF Next, C, TakeOut
<1>3. QED
  BY <1>1, <1>2

\* The types, for any messages, bucket and clock.
THEOREM TypeCorrect == Spec => []TypeOK
<1>1. IInv => TypeOK
  BY DEF IInv
<1>2. QED
  BY <1>1, InitEstablishes, NextKeeps, PTL DEF Spec

\* The tests that Pop makes before it locks still hold when it takes the
\* message, since other threads only push.
THEOREM PopIsSafe == Spec => []PopFindsMessage
<1>1. IInv => PopFindsMessage
  BY DEF IInv
<1>2. QED
  BY <1>1, InitEstablishes, NextKeeps, PTL DEF Spec

\* For any number of addresses, RR serves none of them twice while another one
\* waits: those served while b waits lie behind b in the cyclic order of the
\* keys, and keyPointer moves on towards b.
THEOREM TurnsAreFair == Spec => []RoundRobin
<1>1. IInv => RoundRobin
  <2> SUFFICES ASSUME IInv, pc = "popRR", NEW b \in Addresses \ {keyPointer}, rr[b] # <<>>,
                      keyPointer \in overtaken[b]
               PROVE  FALSE
    BY DEF RoundRobin
  <2>1. InTurn(keyPointer, b, keyPointer)
    BY DEF IInv, Turns
  <2>2. keyPointer \in Nat /\ b \in Nat
    BY AddressesAreNat DEF IInv, TypeOK, Invalid
  <2>3. QED
    BY <2>1, <2>2 DEF InTurn
<1>2. QED
  BY <1>1, InitEstablishes, NextKeeps, PTL DEF Spec
=============================================================================
