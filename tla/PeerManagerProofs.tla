------------------------- MODULE PeerManagerProofs -------------------------
(***************************************************************************)
(* Proofs about PeerManager, for every number of peers and every           *)
(* configuration that satisfies the module's assumptions.                  *)
(***************************************************************************)
EXTENDS PeerManager, FiniteSetTheorems, TLAPS

(***************************************************************************)
(* Every step keeps the types and what Control says of each place in the   *)
(* code: one lemma per group of actions, one step per action.              *)
(***************************************************************************)
LEMMA CrashKeepsTypes ==
  ASSUME TypeOK, Control, Crash
  PROVE  TypeOK' /\ Control'
BY DEF TypeOK, Control, Crash, Lists, OutLists, Threads, Crashed,
       book, partners, locks, args, work, locals

LEMMA HandleKeepsTypes ==
  ASSUME TypeOK, Control, Handle
  PROVE  TypeOK' /\ Control'
<1> USE DEF TypeOK, Control, Lists, OutLists, Threads, Goto, Call, Return, book, partners,
            locks, args, work, locals, Crashed
<1>1. CASE LockForOutPing
  BY <1>1 DEF LockForOutPing, Acquire
<1>2. CASE TestActive
  BY <1>2 DEF TestActive
<1>3. CASE RefreshTTL
  BY <1>3, TTLAssumption, PeersAssumption DEF RefreshTTL, Touch
<1>4. CASE StoreChunkMap
  <2> DEFINE S == IF peer["R"] \in peerActive["In"] THEN {peer["R"]} ELSE {}
  <2>1. S \subseteq Peers
    OBVIOUS
  <2>2. Touch(S)
    BY <1>4 DEF StoreChunkMap
  <2>3. peerList' \in SUBSET Peers /\ nullPeer' \in SUBSET peerList'
    BY <2>1, <2>2 DEF Touch
  <2>4. QED
    BY <1>4, <2>3 DEF StoreChunkMap
<1>5. CASE LeaveHandler
  BY <1>5 DEF LeaveHandler, Release
<1>6. QED
  BY <1>1, <1>2, <1>3, <1>4, <1>5 DEF Handle

LEMMA AnswerKeepsTypes ==
  ASSUME TypeOK, Control, HandleAnswer
  PROVE  TypeOK' /\ Control'
<1> USE DEF TypeOK, Control, Lists, OutLists, Threads, Goto, Call, Return, book, partners,
            locks, args, work, locals, Crashed
<1>1. CASE SetNewMax
  BY <1>1 DEF SetNewMax, NextList
<1>2. CASE Trim
  <2>1. CASE Crash
    BY <2>1, CrashKeepsTypes
  <2>2. CASE ~Crash
    <3>1. PICK S \in SUBSET peerActive[list["T"]] :
            peerActive' = [peerActive EXCEPT ![list["T"]] = S]
      BY <1>2, <2>2 DEF Trim
    <3>2. peerActive' \in [Lists -> SUBSET Peers]
      BY <3>1
    <3>3. QED
      BY <1>2, <2>2, <3>2 DEF Trim, NextList
  <2>3. QED
    BY <2>1, <2>2
<1>3. CASE AddListedPeer
  <2>1. CASE Crash
    BY <2>1, CrashKeepsTypes
  <2>2. CASE ~Crash
    BY <1>3, <2>2 DEF AddListedPeer, AddPeer, AddPeerCrashes
  <2>3. QED
    BY <2>1, <2>2
<1>4. QED
  BY <1>1, <1>2, <1>3 DEF HandleAnswer

LEMMA MessagesKeepTypes ==
  ASSUME TypeOK, Control,
         Answers \/ \E p \in Peers : Ping(p) \/ CountSentChunk(p)
  PROVE  TypeOK' /\ Control'
<1> USE DEF TypeOK, Control, Lists, OutLists, Threads, Goto, Call, Return, book, partners,
            locks, args, work, locals, Crashed
<1>1. CASE Answers
  BY <1>1, SizesAssumption, PeersAssumption DEF Answers, ReceivePeerlist
<1>2. ASSUME NEW p \in Peers, CountSentChunk(p)
      PROVE  TypeOK' /\ Control'
  BY <1>2 DEF CountSentChunk
<1>3. ASSUME NEW p \in Peers, NEW kind \in {"In", "Out"}, NEW sizes \in OutSizes,
             ReceivePing(p, kind, sizes)
      PROVE  TypeOK' /\ Control'
  <2>1. CASE Crash
    BY <2>1, CrashKeepsTypes
  <2>2. sizes[1] \in Nat /\ sizes[2] \in Nat
    BY SizesAssumption
  <2>3. CASE ~Crash
    <3>1. p \notin nullPeer /\ AddPeer(p, sizes[1], sizes[2])
      BY <1>3, <2>3 DEF ReceivePing, AddPeerCrashes
    <3>2. peerList' \in SUBSET Peers /\ nullPeer' \in SUBSET peerList'
      BY <3>1 DEF AddPeer
    <3>3. informed' \in [OutLists -> [Peers -> Int]]
      BY <3>1, <2>2 DEF AddPeer
    <3>4. QED
      BY <1>3, <2>3, <3>1, <3>2, <3>3
      DEF ReceivePing, AddPeerCrashes, AddPeer, GetPeerActiveOut
  <2>4. QED
    BY <2>1, <2>3
<1>4. QED
  BY <1>1, <1>2, <1>3 DEF Ping

LEMMA ConnectKeepsTypes ==
  ASSUME TypeOK, Control, NEW th \in Threads,
         CheckCooldown(th) \/ ConnectPeer(th)
  PROVE  TypeOK' /\ Control'
<1> USE DEF TypeOK, Control, Lists, OutLists, Threads, Goto, Call, Return, book, partners,
            locks, args, work, locals, Crashed
<1>1. CASE CheckCooldown(th)
  BY <1>1 DEF CheckCooldown, ConnectFailed
<1>2. CASE ConnectPeer(th)
  <2>1. CASE Crash
    BY <2>1, CrashKeepsTypes
  <2>2. ASSUME NEW S \in SUBSET Peers, Enter(th, peer[th], list[th], S),
               removeWorsePartner' \in BOOLEAN, pc[th] = "insert"
        PROVE  TypeOK' /\ Control'
    <3>1. peer[th] \in Peers /\ list[th] \in Lists
      BY <2>2
    <3>2. peerActive' \in [Lists -> SUBSET Peers]
      BY <2>2, <3>1 DEF Enter
    <3>3. ttl' \in [Lists -> [Peers -> Int]]
      BY <2>2, <3>1, TTLAssumption DEF Enter
    <3>4. peerList' \in SUBSET Peers /\ nullPeer' \in SUBSET peerList'
      BY <2>2, <3>1 DEF Enter, Touch
    <3>5. QED
      BY <2>2, <3>1, <3>2, <3>3, <3>4 DEF Enter
  <2>3. CASE ConnectFailed(th) /\ UNCHANGED <<book, partners, locks, locals>>
    BY <1>2, <2>3 DEF ConnectPeer, ConnectFailed
  <2>4. pc[th] = "insert" /\ peer[th] \in Peers
    BY <1>2 DEF ConnectPeer
  <2>5. CASE /\ Enter(th, peer[th], list[th], peerActive[list[th]] \cup {peer[th]})
             /\ UNCHANGED removeWorsePartner
    <3>1. peerActive[list[th]] \cup {peer[th]} \in SUBSET Peers
      BY <2>4
    <3>2. QED
      BY <2>2, <2>4, <2>5, <3>1
  <2>6. CASE ConnectSpecial(th, peer[th], list[th]) /\ ~Crash
    <3>1. PICK v \in peerActive[list[th]] :
            /\ Enter(th, peer[th], list[th],
                     (peerActive[list[th]] \ {v}) \cup {peer[th]})
            /\ removeWorsePartner' = FALSE
      BY <2>6 DEF ConnectSpecial
    <3>2. (peerActive[list[th]] \ {v}) \cup {peer[th]} \in SUBSET Peers
      BY <2>4
    <3>3. QED
      BY <2>2, <2>4, <3>1, <3>2
  <2>7. QED
    BY <1>2, <2>1, <2>3, <2>5, <2>6 DEF ConnectPeer
<1>3. QED
  BY <1>1, <1>2

LEMMA ConnectorKeepsTypes ==
  ASSUME TypeOK, Control, Connector
  PROVE  TypeOK' /\ Control'
<1> USE DEF TypeOK, Control, Lists, OutLists, Threads, Goto, Call, Return, book, partners,
            locks, args, work, locals, Crashed
<1>1. CASE StartConnector
  <2>1. CASE Crash
    BY <2>1, CrashKeepsTypes
  <2>2. CASE ~Crash
    <3>1. todo' \in SUBSET Peers
      BY <1>1, <2>2 DEF StartConnector, Candidates
    <3>2. QED
      BY <1>1, <2>2, <3>1 DEF StartConnector, Acquire
  <2>3. QED
    BY <2>1, <2>2
<1>2. CASE CountVacancies
  <2>1. PICK S \in SUBSET todo : todo' = S
    BY <1>2 DEF CountVacancies
  <2>2. QED
    BY <1>2, <2>1 DEF CountVacancies
<1>3. CASE PickCandidate
  <2>1. CASE Crash
    BY <2>1, CrashKeepsTypes
  <2>2. CASE ~Crash
    BY <1>3, <2>2 DEF PickCandidate
  <2>3. QED
    BY <2>1, <2>2
<1>4. CASE EndConnector
  BY <1>4 DEF EndConnector, Release
<1>5. QED
  BY <1>1, <1>2, <1>3, <1>4 DEF Connector

LEMMA CheckKeepsTypes ==
  ASSUME TypeOK, Control, CheckPeerList
  PROVE  TypeOK' /\ Control'
<1> USE DEF TypeOK, Control, Lists, OutLists, Threads, Goto, Call, Return, book, partners,
            locks, args, work, locals, Crashed
<1>1. CASE BeginCheck
  BY <1>1 DEF BeginCheck
<1>2. CASE Scan
  <2>1. ttl' \in [Lists -> [Peers -> Int]]
    BY <1>2, TTLAssumption DEF Scan, Decremented
  <2>2. peerList' \in SUBSET Peers /\ nullPeer' \in SUBSET peerList'
    BY <1>2 DEF Scan, Touch, AllActive
  <2>3. drop' \in [Lists -> SUBSET Peers] /\ dele' \in SUBSET Peers
    BY <1>2 DEF Scan, AllActive
  <2>4. QED
    BY <1>2, <2>1, <2>2, <2>3 DEF Scan
<1>3. CASE DropExpired
  BY <1>3 DEF DropExpired, Disconnect
<1>4. CASE StartCooldown
  BY <1>4, SizesAssumption DEF StartCooldown, Release
<1>5. CASE RemovePeer
  BY <1>5, TTLAssumption DEF RemovePeer
<1>6. CASE EndCheck
  BY <1>6 DEF EndCheck, CooledDown
<1>7. QED
  BY <1>1, <1>2, <1>3, <1>4, <1>5, <1>6 DEF CheckPeerList

LEMMA TimersKeepTypes ==
  ASSUME TypeOK, Control, Timers
  PROVE  TypeOK' /\ Control'
<1> USE DEF TypeOK, Control, Lists, OutLists, Threads, Goto, Call, Return, book, partners,
            locks, args, work, locals, Crashed
<1>1. CASE RearmRemoveWorse
  BY <1>1 DEF RearmRemoveWorse
<1>2. CASE Crash
  BY <1>2, CrashKeepsTypes
<1>3. ASSUME NEW L \in Lists, TimerDisconnect(L), ~Crash
      PROVE  TypeOK' /\ Control'
  <2>1. peerList' \in SUBSET Peers /\ nullPeer' \in SUBSET peerList'
    BY <1>3 DEF TimerDisconnect, Touch
  <2>2. QED
    BY <1>3, <2>1 DEF TimerDisconnect, Disconnect, Acquire
<1>4. QED
  BY <1>1, <1>2, <1>3 DEF Timers, ShowPeerList

\* Types are correct and every thread's place in the code fits its arguments and
\* the mutexes it holds, in every reachable state.
THEOREM TypeCorrect == Spec => [](TypeOK /\ Control)
<1>1. Init => TypeOK /\ Control
  BY SizesAssumption, TTLAssumption, ConfigAssumption
  DEF Init, TypeOK, Control, Lists, OutLists, Threads, Crashed
<1>2. TypeOK /\ Control /\ [Next]_vars => (TypeOK /\ Control)'
  <2> SUFFICES ASSUME TypeOK, Control, [Next]_vars
               PROVE  TypeOK' /\ Control'
    OBVIOUS
  <2>1. CASE UNCHANGED vars
    BY <2>1 DEF vars, book, partners, locks, args, work, locals, TypeOK, Control,
                Crashed
  <2>2. QED
    BY <2>1, HandleKeepsTypes, AnswerKeepsTypes, MessagesKeepTypes, ConnectKeepsTypes,
       ConnectorKeepsTypes, CheckKeepsTypes, TimersKeepTypes DEF Next, Halted
<1>3. QED
  BY <1>1, <1>2, PTL DEF Spec

(***************************************************************************)
(* Most steps let nobody into a list and leave sizes, TTLs and the peers   *)
(* about to be dropped alone: they are quiet, and a quiet step keeps both  *)
(* safety invariants.  What remains is one step per action that is not.    *)
(***************************************************************************)
Quiet ==
  /\ ~Crashed
  /\ \A L \in Lists : peerActive'[L] \subseteq peerActive[L]
  /\ UNCHANGED <<maxActive, ttl, drop>>
  /\ pc["R"] = "refresh"
       => /\ pc'["R"] = pc["R"]
          /\ peer'["R"] = peer["R"] /\ list'["R"] = list["R"]
  /\ pc["T"] \in {"trim", "scan"} => pc'["T"] = pc["T"] /\ list'["T"] = list["T"]

\* The steps that are not quiet.
Loud ==
  \/ RefreshTTL \/ SetNewMax \/ Trim \/ Scan \/ DropExpired \/ RemovePeer
  \/ \E th \in Threads : ConnectPeer(th)

LEMMA ActiveFinite ==
  ASSUME TypeOK, NEW L \in Lists
  PROVE  IsFiniteSet(peerActive[L])
BY PeersAssumption, FS_Subset DEF TypeOK

LEMMA SubsetBound ==
  ASSUME NEW S, IsFiniteSet(S), NEW R \in SUBSET S, NEW n \in Nat, Cardinality(S) <= n
  PROVE  Cardinality(R) <= n
<1>1. IsFiniteSet(R) /\ Cardinality(R) <= Cardinality(S)
  BY FS_Subset
<1>2. Cardinality(R) \in Nat /\ Cardinality(S) \in Nat
  BY <1>1, FS_CardinalityType
<1>3. QED
  BY <1>1, <1>2

LEMMA QuietOrGone ==
  ASSUME TypeOK, Control, Next, ~Loud
  PROVE  Crash \/ Halted \/ Quiet
<1> USE DEF Lists, OutLists, Threads, Goto, Call, Return, book, partners, locks, args, work,
            locals, Crashed, Loud
<1>3. ASSUME NEW p \in Peers, CountSentChunk(p)
      PROVE  Quiet
  BY <1>3 DEF CountSentChunk, Quiet
<1>4. ASSUME NEW p \in Peers, Ping(p), ~Crash
      PROVE  Quiet
  BY <1>4 DEF Ping, ReceivePing, AddPeer, AddPeerCrashes, Quiet, Control, TypeOK
<1>5. CASE Answers
  BY <1>5 DEF Answers, ReceivePeerlist, Quiet, Control, TypeOK
<1>6. CASE Handle
  BY <1>6 DEF Handle, LockForOutPing, TestActive, StoreChunkMap, LeaveHandler, Quiet,
              Control, TypeOK
<1>6a. CASE HandleAnswer /\ ~Crash
  BY <1>6a DEF HandleAnswer, AddListedPeer, AddPeer, AddPeerCrashes, Quiet, Control, TypeOK
<1>7. ASSUME NEW th \in Threads, CheckCooldown(th)
      PROVE  Quiet
  BY <1>7 DEF CheckCooldown, ConnectFailed, Quiet, Control, TypeOK
<1>7a. CASE Connector /\ ~Crash
  <2>1. CASE StartConnector
    BY <1>7a, <2>1 DEF StartConnector, Quiet, Control, TypeOK
  <2>2. CASE CountVacancies
    BY <2>2 DEF CountVacancies, Quiet, Control, TypeOK
  <2>3. CASE PickCandidate
    BY <1>7a, <2>3 DEF PickCandidate, Quiet, Control, TypeOK
  <2>4. CASE EndConnector
    BY <2>4 DEF EndConnector, Quiet, Control, TypeOK
  <2>5. QED
    BY <1>7a, <2>1, <2>2, <2>3, <2>4 DEF Connector
<1>8. CASE CheckPeerList
  <2>1. CASE BeginCheck
    BY <2>1 DEF BeginCheck, Quiet, Control, TypeOK
  <2>2. CASE StartCooldown
    BY <2>2 DEF StartCooldown, Quiet, Control, TypeOK
  <2>3. CASE EndCheck
    BY <2>3 DEF EndCheck, Quiet, Control, TypeOK
  <2>4. QED
    BY <1>8, <2>1, <2>2, <2>3 DEF CheckPeerList
<1>9. CASE Timers /\ ~Crash
  <2>1. CASE RearmRemoveWorse
    BY <2>1 DEF RearmRemoveWorse, Quiet, Control
  <2>2. ASSUME NEW L \in Lists, TimerDisconnect(L)
        PROVE  Quiet
    BY <1>9, <2>2 DEF TimerDisconnect, Disconnect, Quiet, Control, TypeOK
  <2>3. QED
    BY <1>9, <2>1, <2>2 DEF Timers, ShowPeerList
<1>10. QED
  BY <1>3, <1>4, <1>5, <1>6, <1>6a, <1>7, <1>7a, <1>8, <1>9 DEF Next

LEMMA StepsAreQuiet ==
  ASSUME TypeOK, Control, Next, ~Loud
  PROVE  Crashed' \/ Quiet
<1>1. Crash \/ Halted => Crashed'
  BY DEF Crash, Halted, Crashed, Threads, vars
<1> QED
  BY <1>1, QuietOrGone

(***************************************************************************)
(* ActiveBound.                                                            *)
(***************************************************************************)
\* What ActiveBound says of one list.
Bounded(L) ==
  Cardinality(peerActive[L]) <= maxActive[L] \/ (pc["T"] = "trim" /\ list["T"] = L)

\* A step that lets nobody into list L and does not change its size.
LEMMA ShrinkKeepsBound ==
  ASSUME TypeOK, NEW L \in Lists, Bounded(L),
         peerActive'[L] \subseteq peerActive[L], maxActive'[L] = maxActive[L],
         pc["T"] = "trim" /\ list["T"] = L => pc'["T"] = "trim" /\ list'["T"] = L
  PROVE  Bounded(L)'
BY ActiveFinite, SubsetBound DEF Bounded, TypeOK

LEMMA EnterKeepsBound ==
  ASSUME TypeOK, Control, NEW th \in Threads, ConnectPeer(th), ~Crash,
         NEW L \in Lists, Bounded(L)
  PROVE  Bounded(L)'
<1> DEFINE p == peer[th]
           K == list[th]
<1>1. K \in Lists
  BY DEF TypeOK, Threads
<1>2. maxActive' = maxActive /\ list' = list
  BY DEF ConnectPeer, ConnectSpecial, Enter, ConnectFailed, partners, locals, args
<1>3. pc[th] # "trim" /\ (pc["T"] = "trim" => pc'["T"] = "trim")
  BY DEF ConnectPeer, ConnectSpecial, Enter, ConnectFailed, Goto, Threads, TypeOK
<1>4. IsFiniteSet(peerActive[K]) /\ Cardinality(peerActive[K]) \in Nat
      /\ maxActive[K] \in Nat
  BY <1>1, ActiveFinite, FS_CardinalityType DEF TypeOK
<1>5. CASE UNCHANGED peerActive
  BY <1>2, <1>3, <1>5, ShrinkKeepsBound
<1>6. CASE /\ ~IsFull(K) /\ p \notin peerActive[K]
           /\ Enter(th, p, K, peerActive[K] \cup {p})
  <2>1. peerActive' = [peerActive EXCEPT ![K] = peerActive[K] \cup {p}]
    BY <1>6 DEF Enter
  <2>2. CASE L = K
    <3>1. Cardinality(peerActive[K] \cup {p}) = Cardinality(peerActive[K]) + 1
      BY <1>4, <1>6, FS_AddElement
    <3>2. Cardinality(peerActive[K]) + 1 <= maxActive[K]
      BY <1>4, <1>6 DEF IsFull
    <3>3. peerActive'[L] = peerActive[K] \cup {p}
      BY <2>1, <2>2 DEF TypeOK
    <3>4. QED
      BY <1>2, <2>2, <3>1, <3>2, <3>3 DEF Bounded
  <2>3. CASE L # K
    BY <1>2, <1>3, <2>1, <2>3, ShrinkKeepsBound DEF TypeOK
  <2>4. QED
    BY <2>2, <2>3
<1>7. CASE ConnectSpecial(th, p, K)
  <2>1. PICK v \in peerActive[K] : /\ Worse(v, p, K)
                                   /\ Enter(th, p, K, (peerActive[K] \ {v}) \cup {p})
    BY <1>7 DEF ConnectSpecial
  <2>2. peerActive' = [peerActive EXCEPT ![K] = (peerActive[K] \ {v}) \cup {p}]
    BY <2>1 DEF Enter
  <2>3. CASE L = K
    <3> DEFINE rest == peerActive[K] \ {v}
    <3>1. IsFiniteSet(rest) /\ Cardinality(rest) = Cardinality(peerActive[K]) - 1
      BY <1>4, FS_RemoveElement
    <3>2. Cardinality(rest \cup {p}) = Cardinality(rest)
          \/ Cardinality(rest \cup {p}) = Cardinality(rest) + 1
      BY <3>1, FS_AddElement
    <3>3. Cardinality(rest \cup {p}) <= Cardinality(peerActive[K])
      BY <1>4, <3>1, <3>2
    <3>4. Cardinality(rest \cup {p}) \in Nat
      BY <1>4, <3>1, FS_AddElement, FS_CardinalityType
    <3>5. peerActive'[L] = rest \cup {p}
      BY <2>2, <2>3 DEF TypeOK
    <3>6. pc["T"] = "trim" /\ list["T"] = L => pc'["T"] = "trim" /\ list'["T"] = L
      BY <1>2, <1>3
    <3>7. QED
      BY <1>2, <1>4, <2>3, <3>3, <3>4, <3>5, <3>6 DEF Bounded
  <2>4. CASE L # K
    BY <1>2, <1>3, <2>2, <2>4, ShrinkKeepsBound DEF TypeOK
  <2>5. QED
    BY <2>3, <2>4
<1>8. QED
  BY <1>5, <1>6, <1>7 DEF ConnectPeer, partners

\* The handler that lowers a size is the one that trims the list.
LEMMA NewSizeKeepsBound ==
  ASSUME TypeOK, Control, SetNewMax \/ Trim, ~Crash, NEW L \in Lists, Bounded(L)
  PROVE  Bounded(L)'
<1> DEFINE K == list["T"]
<1>1. K \in Lists /\ IsFiniteSet(peerActive[K]) /\ Cardinality(peerActive[K]) \in Nat
  BY ActiveFinite, FS_CardinalityType DEF TypeOK, Threads
<1>2. Cardinality(peerActive[L]) \in Nat
  BY ActiveFinite, FS_CardinalityType
<1>3. CASE SetNewMax
  <2>1. peerActive' = peerActive /\ pc["T"] = "setMax" /\ newMax[K] \in Int
    BY <1>3 DEF SetNewMax, TypeOK, Control
  <2>2. CASE newMax[K] \in 0 .. (maxActive[K] - 1) /\ pc' = [pc EXCEPT !["T"] = "trim"]
             /\ list' = list /\ maxActive' = [maxActive EXCEPT ![K] = newMax[K]]
    BY <1>1, <2>1, <2>2 DEF Bounded, TypeOK, Threads
  <2>3. CASE maxActive' = maxActive
    BY <2>1, <2>3 DEF Bounded
  <2>4. CASE newMax[K] >= maxActive[K] /\ maxActive' = [maxActive EXCEPT ![K] = newMax[K]]
    BY <1>1, <1>2, <2>1, <2>4 DEF Bounded, TypeOK
  <2>5. QED
    BY <1>3, <2>2, <2>3, <2>4 DEF SetNewMax, Goto, args
<1>4. CASE Trim
  <2>1. PICK S \in SUBSET peerActive[K] :
          MostServed(K, S) /\ peerActive' = [peerActive EXCEPT ![K] = S]
    BY <1>4 DEF Trim
  <2>2. maxActive' = maxActive /\ pc["T"] = "trim"
    BY <1>4 DEF Trim
  <2>3. CASE L = K
    <3>1. peerActive'[L] = S
      BY <2>1, <2>3 DEF TypeOK
    <3>2. Cardinality(S) <= maxActive[K]
      BY <1>1, <2>1 DEF MostServed, IsFull, TypeOK
    <3>3. QED
      BY <2>2, <2>3, <3>1, <3>2 DEF Bounded
  <2>4. CASE L # K
    BY <2>1, <2>2, <2>4 DEF Bounded, TypeOK
  <2>5. QED
    BY <2>3, <2>4
<1>5. QED
  BY <1>3, <1>4

\* The remaining steps that are not quiet let nobody into a list.
LEMMA OthersKeepBound ==
  ASSUME TypeOK, Control, RefreshTTL \/ Scan \/ DropExpired \/ RemovePeer,
         NEW L \in Lists, Bounded(L)
  PROVE  Bounded(L)'
<1> USE DEF Goto, Call, Return, partners, args, locals, work, Threads
<1>1. peerActive'[L] \subseteq peerActive[L] /\ maxActive' = maxActive
  <2>1. CASE DropExpired
    <3>1. PICK K \in Lists, p \in Peers : Disconnect(p, K)
      BY <2>1 DEF DropExpired, TypeOK
    <3>2. peerActive' = [peerActive EXCEPT ![K] = peerActive[K] \ {p}]
      BY <3>1 DEF Disconnect
    <3>3. QED
      BY <2>1, <3>2 DEF DropExpired, TypeOK
  <2>2. QED
    BY <2>1 DEF RefreshTTL, Scan, RemovePeer
<1>2. pc["T"] = "trim" => pc'["T"] = "trim" /\ list'["T"] = list["T"]
  BY DEF RefreshTTL, Scan, DropExpired, Disconnect, RemovePeer, TypeOK
<1>3. QED
  BY <1>1, <1>2, ShrinkKeepsBound

\* Whatever the other peers send and however the two threads interleave, an
\* active list never exceeds its configured size, except while the handler that
\* lowered the size is about to trim the list.
THEOREM ListsAreBounded == Spec => []ActiveBound
<1>1. Init => ActiveBound
  <2> SUFFICES ASSUME Init PROVE ActiveBound
    OBVIOUS
  <2>1. \A L \in Lists : peerActive[L] = {} /\ maxActive[L] \in Nat
    BY SizesAssumption DEF Init, Lists
  <2>2. QED
    BY <2>1, FS_EmptySet DEF ActiveBound
<1>2. TypeOK /\ Control /\ ActiveBound /\ [Next]_vars => ActiveBound'
  <2> SUFFICES ASSUME TypeOK, Control, ActiveBound, [Next]_vars, ~Crashed',
                      NEW L \in Lists
               PROVE  Bounded(L)'
    BY DEF ActiveBound, Bounded
  <2>1. CASE UNCHANGED vars
    BY <2>1 DEF vars, partners, locals, args, ActiveBound, Bounded, Crashed
  <2>2. CASE Crash
    BY <2>2 DEF Crash, Crashed, Threads
  <2>3. CASE Next /\ ~Crash
    <3>1. CASE Quiet
      BY <3>1, ShrinkKeepsBound DEF Quiet, ActiveBound, Bounded
    <3>2. CASE Loud
      <4>1. ~Crashed
        BY <3>2, <2>3 DEF Loud, Crashed, RefreshTTL, SetNewMax, Trim, Scan, DropExpired,
                          RemovePeer, ConnectPeer, Control, Threads
      <4>2. Bounded(L)
        BY <4>1 DEF ActiveBound, Bounded
      <4>3. QED
        BY <2>3, <3>2, <4>2, EnterKeepsBound, NewSizeKeepsBound, OthersKeepBound DEF Loud
    <3>3. QED
      BY <2>3, <3>1, <3>2, StepsAreQuiet
  <2>4. QED
    BY <2>1, <2>2, <2>3
<1>3. QED
  BY <1>1, <1>2, TypeCorrect, PTL DEF Spec

(***************************************************************************)
(* LeaseEnforced.                                                          *)
(***************************************************************************)
\* What LeaseEnforced says of one peer and one list.
Leased(p, L) ==
  p \in peerActive[L] /\ ttl[L][p] <= 0
    => \/ p \in drop[L]
       \/ pc["T"] = "scan"
       \/ pc["R"] = "refresh" /\ peer["R"] = p /\ list["R"] = L

\* A peer that is in the list only if it was, with the same TTL.
LEMMA SameTTLKeepsLease ==
  ASSUME NEW p \in Peers, NEW L \in Lists, Leased(p, L),
         p \in peerActive'[L] => p \in peerActive[L],
         ttl'[L][p] = ttl[L][p],
         p \in drop[L] => p \in drop'[L],
         pc["T"] = "scan" => pc'["T"] = "scan",
         pc["R"] = "refresh"
           => pc'["R"] = "refresh" /\ peer'["R"] = peer["R"] /\ list'["R"] = list["R"]
  PROVE  Leased(p, L)'
BY DEF Leased

\* A peer let in without a TTL of its own has come with the ping R is answering,
\* and R refreshes its TTL next.
LEMMA EnterKeepsLease ==
  ASSUME TypeOK, Control, NEW th \in Threads, ConnectPeer(th), ~Crash,
         NEW p \in Peers, NEW L \in Lists, Leased(p, L)
  PROVE  Leased(p, L)'
<1> DEFINE q == peer[th]
           K == list[th]
<1>1. K \in Lists /\ q \in Peers /\ pc[th] = "insert" /\ (th = "T" => K = "In")
  BY DEF TypeOK, Threads, Control, ConnectPeer
<1>2. drop' = drop /\ list' = list /\ peer' = peer
  BY DEF ConnectPeer, ConnectSpecial, Enter, ConnectFailed, locals, args, work
<1>3. /\ pc["T"] = "scan" => pc'["T"] = "scan"
      /\ pc["R"] = "refresh" => pc'["R"] = "refresh"
  BY DEF ConnectPeer, ConnectSpecial, Enter, ConnectFailed, Goto, Threads, TypeOK
<1>4. CASE UNCHANGED <<peerActive, ttl>>
  BY <1>2, <1>3, <1>4, SameTTLKeepsLease
<1>5. ASSUME NEW S \in SUBSET Peers, Enter(th, q, K, S), S \subseteq peerActive[K] \cup {q}
      PROVE  Leased(p, L)'
  <2>1. peerActive' = [peerActive EXCEPT ![K] = S]
    BY <1>5 DEF Enter
  <2>2. PICK clock \in Lists : /\ ttl' = [ttl EXCEPT ![clock][q] = DefaultTTL]
                               /\ K = "In" => clock = "In"
    BY <1>1, <1>5 DEF Enter, Lists, TypeOK
  <2>3. pc' = [pc EXCEPT ![th] = IF th = "T" THEN "pick" ELSE "refresh"]
    BY <1>5 DEF Enter, Goto
  <2>4. CASE p # q
    <3>1. p \in peerActive'[L] => p \in peerActive[L]
      BY <1>5, <2>1, <2>4 DEF TypeOK
    <3>2. ttl'[L][p] = ttl[L][p]
      BY <2>2, <2>4 DEF TypeOK
    <3>3. QED
      BY <1>2, <1>3, <3>1, <3>2, SameTTLKeepsLease
  <2>5. CASE p = q /\ L # K
    <3>1. peerActive'[L] = peerActive[L]
      BY <2>1, <2>5 DEF TypeOK
    <3>2. CASE clock = L
      <4>1. ttl'[L][p] = DefaultTTL
        BY <1>1, <2>2, <2>5, <3>2 DEF TypeOK
      <4>2. QED
        BY <4>1, TTLAssumption DEF Leased
    <3>3. CASE clock # L
      <4>1. ttl'[L][p] = ttl[L][p]
        BY <2>2, <3>3 DEF TypeOK
      <4>2. QED
        BY <1>2, <1>3, <3>1, <4>1, SameTTLKeepsLease
    <3>4. QED
      BY <3>2, <3>3
  <2>6. CASE p = q /\ L = K
    <3>1. CASE th = "T"
      <4>1. clock = L
        BY <1>1, <2>2, <2>6, <3>1 DEF Control
      <4>2. ttl'[L][p] = DefaultTTL
        BY <1>1, <2>2, <2>6, <4>1 DEF TypeOK
      <4>3. QED
        BY <4>2, TTLAssumption DEF Leased
    <3>2. CASE th = "R"
      <4>1. pc'["R"] = "refresh"
        BY <2>3, <3>2 DEF TypeOK, Threads
      <4>2. QED
        BY <1>2, <2>6, <3>2, <4>1 DEF Leased
    <3>3. QED
      BY <1>1, <3>1, <3>2 DEF Threads
  <2>7. QED
    BY <2>4, <2>5, <2>6
<1>6. CASE Enter(th, q, K, peerActive[K] \cup {q})
  <2>1. peerActive[K] \cup {q} \in SUBSET Peers
    BY <1>1 DEF TypeOK
  <2>2. QED
    BY <1>5, <1>6, <2>1
<1>7. CASE ConnectSpecial(th, q, K)
  <2>1. PICK v \in peerActive[K] : Enter(th, q, K, (peerActive[K] \ {v}) \cup {q})
    BY <1>7 DEF ConnectSpecial
  <2>2. (peerActive[K] \ {v}) \cup {q} \in SUBSET Peers
    BY <1>1 DEF TypeOK
  <2>3. QED
    BY <1>5, <2>1, <2>2
<1>8. QED
  BY <1>4, <1>6, <1>7 DEF ConnectPeer, book, partners

\* The other steps that are not quiet.
LEMMA OthersKeepLease ==
  ASSUME TypeOK, Control, ~Crash, NEW p \in Peers, NEW L \in Lists, Leased(p, L),
         RefreshTTL \/ SetNewMax \/ Trim \/ Scan \/ DropExpired \/ RemovePeer
  PROVE  Leased(p, L)'
<1> USE DEF Goto, Call, Return, book, partners, args, locals, work, locks, Threads
<1>1. CASE RefreshTTL
  <2> DEFINE q == peer["R"]
             K == list["R"]
  <2>1. q \in Peers /\ K \in Lists /\ ~Crashed
    BY <1>1 DEF RefreshTTL, Control, TypeOK, Crashed
  <2>2. peerActive' = peerActive /\ drop' = drop
        /\ (pc["T"] = "scan" => pc'["T"] = "scan")
    BY <1>1 DEF RefreshTTL, TypeOK
  <2>3. CASE UNCHANGED ttl /\ activeMutex = "T"
    <3>1. pc["T"] = "scan"
      BY <2>1, <2>3 DEF Control
    <3>2. QED
      BY <2>2, <3>1 DEF Leased
  <2>4. CASE ttl' = [ttl EXCEPT ![K][q] = IF K = "In" THEN TTLMaxIn ELSE TTLMaxOut]
    <3>1. CASE p = q /\ L = K
      <4>1. ~(ttl'[L][p] <= 0)
        BY <2>1, <2>4, <3>1, TTLAssumption DEF TypeOK
      <4>2. QED
        BY <4>1 DEF Leased
    <3>2. CASE ~(p = q /\ L = K)
      <4>1. ttl'[L][p] = ttl[L][p]
        BY <2>1, <2>4, <3>2 DEF TypeOK
      <4>2. QED
        BY <2>2, <3>2, <4>1 DEF Leased
    <3>3. QED
      BY <3>1, <3>2
  <2>5. QED
    BY <1>1, <2>3, <2>4 DEF RefreshTTL
<1>2. CASE SetNewMax
  BY <1>2, SameTTLKeepsLease DEF SetNewMax, NextList, TypeOK
<1>3. CASE Trim
  <2>1. PICK S \in SUBSET peerActive[list["T"]] :
          peerActive' = [peerActive EXCEPT ![list["T"]] = S]
    BY <1>3 DEF Trim
  <2>2. p \in peerActive'[L] => p \in peerActive[L]
    BY <2>1 DEF TypeOK
  <2>3. QED
    BY <1>3, <2>2, SameTTLKeepsLease DEF Trim, NextList, TypeOK
<1>4. CASE Scan
  BY <1>4 DEF Scan, Expired, Leased
<1>5. CASE DropExpired
  <2>1. PICK K \in Lists, q \in Peers :
          Disconnect(q, K) /\ drop' = [drop EXCEPT ![K] = drop[K] \ {q}]
    BY <1>5 DEF DropExpired, TypeOK
  <2>2. peerActive' = [peerActive EXCEPT ![K] = peerActive[K] \ {q}]
    BY <2>1 DEF Disconnect
  <2>3. pc["T"] = "drop" /\ pc'["R"] = pc["R"] /\ ttl' = ttl
        /\ list'["R"] = list["R"] /\ peer'["R"] = peer["R"]
    BY <1>5, <2>1 DEF DropExpired, Disconnect, TypeOK
  <2>4. CASE p = q /\ L = K
    BY <2>2, <2>4 DEF Leased, TypeOK
  <2>5. CASE ~(p = q /\ L = K)
    <3>1. /\ p \in peerActive'[L] => p \in peerActive[L]
          /\ p \in drop[L] => p \in drop'[L]
      BY <2>1, <2>2, <2>5 DEF TypeOK
    <3>2. QED
      BY <2>3, <3>1, SameTTLKeepsLease
  <2>6. QED
    BY <2>4, <2>5
<1>6. CASE RemovePeer
  <2>1. PICK q \in dele : ttl' = [K \in Lists |-> [ttl[K] EXCEPT ![q] = DefaultTTL]]
    BY <1>6 DEF RemovePeer
  <2>2. CASE p = q
    <3>1. ttl'[L][p] = DefaultTTL
      BY <2>1, <2>2 DEF TypeOK
    <3>2. QED
      BY <3>1, TTLAssumption DEF Leased
  <2>3. CASE p # q
    <3>1. ttl'[L][p] = ttl[L][p]
      BY <2>1, <2>3 DEF TypeOK
    <3>2. QED
      BY <1>6, <3>1, SameTTLKeepsLease DEF RemovePeer
  <2>4. QED
    BY <2>2, <2>3
<1>7. QED
  BY <1>1, <1>2, <1>3, <1>4, <1>5, <1>6

\* No partner outlives its lease: one whose TTL ran out is about to be dropped,
\* or its ping is being answered, or the check that will drop it is running -
\* also when a decrement overwrites a refresh, or a newcomer got no TTL.
THEOREM LeasesEnd == Spec => []LeaseEnforced
<1>1. Init => LeaseEnforced
  BY DEF Init, LeaseEnforced, Lists
<1>2. TypeOK /\ Control /\ LeaseEnforced /\ [Next]_vars /\ TypeOK' => LeaseEnforced'
  <2> SUFFICES ASSUME TypeOK, Control, LeaseEnforced, [Next]_vars, TypeOK', ~Crashed',
                      NEW L \in Lists, NEW p \in Peers
               PROVE  Leased(p, L)'
    BY DEF LeaseEnforced, Leased, TypeOK
  <2>1. CASE UNCHANGED vars
    BY <2>1 DEF vars, book, partners, locals, args, work, LeaseEnforced, Leased, Crashed
  <2>2. CASE Crash
    BY <2>2 DEF Crash, Crashed, Threads
  <2>3. CASE Next /\ ~Crash
    <3>1. CASE Quiet
      <4>1. Leased(p, L)
        BY <3>1 DEF Quiet, LeaseEnforced, Leased
      <4>2. QED
        BY <3>1, <4>1, SameTTLKeepsLease DEF Quiet
    <3>2. CASE Loud
      <4>1. ~Crashed
        BY <3>2, <2>3 DEF Loud, Crashed, RefreshTTL, SetNewMax, Trim, Scan, DropExpired,
                          RemovePeer, ConnectPeer, Control, Threads
      <4>2. Leased(p, L)
        BY <4>1 DEF LeaseEnforced, Leased
      <4>3. QED
        BY <2>3, <3>2, <4>2, EnterKeepsLease, OthersKeepLease DEF Loud
    <3>3. QED
      BY <2>3, <3>1, <3>2, StepsAreQuiet
  <2>4. QED
    BY <2>1, <2>2, <2>3
<1>3. QED
  BY <1>1, <1>2, TypeCorrect, PTL DEF Spec
(***************************************************************************)
(* LeaseNeedsPing.                                                         *)
(***************************************************************************)
\* What a step that extends the lease of a partner p is.
Earned(p) ==
  \/ pc["R"] \in {"insert", "refresh"} /\ peer["R"] = p
  \/ pc["T"] = "drop" /\ p \in dele /\ p \notin peerList'

\* ConnectPeer sets one clock of the peer that enters; the connector lets nobody in who
\* is there, and sets no clock of another list.
LEMMA EnteringEarns ==
  ASSUME TypeOK, Control, NEW th \in Threads, ConnectPeer(th), ~Crash,
         NEW L \in Lists, NEW p \in peerActive[L], ttl'[L][p] > ttl[L][p]
  PROVE  Earned(p)
<1> DEFINE q == peer[th]
           K == list[th]
<1>1. K \in Lists /\ q \in Peers /\ pc[th] = "insert" /\ (th = "T" => K = "In")
  BY DEF TypeOK, Threads, Control, ConnectPeer
<1>2. ttl # ttl'
  BY DEF TypeOK
<1>3. PICK S : Enter(th, q, K, S)
  BY <1>2 DEF ConnectPeer, ConnectSpecial, book
<1>4. PICK clock \in Lists : /\ ttl' = [ttl EXCEPT ![clock][q] = DefaultTTL]
                             /\ K = "In" => clock = "In"
  BY <1>1, <1>3 DEF Enter, Lists, TypeOK
<1>5. p = q /\ L = clock
  BY <1>4 DEF TypeOK
<1>6. CASE th = "R"
  BY <1>1, <1>5, <1>6 DEF Earned
<1>7. CASE th = "T"
  <2>1. K = "In" /\ q \in peerActive[K]
    BY <1>1, <1>4, <1>5, <1>7
  <2>2. ConnectFailed(th) /\ UNCHANGED <<book, partners, locks, locals>>
    BY <2>1 DEF ConnectPeer, ConnectSpecial, MayReplace
  <2> QED
    BY <1>2, <2>2 DEF book
<1> QED
  BY <1>6, <1>7 DEF Threads

LEMMA ExtendingEarns ==
  ASSUME TypeOK, Control, [Next]_vars,
         NEW L \in Lists, NEW p \in peerActive[L], ttl'[L][p] > ttl[L][p]
  PROVE  Earned(p)
<1>1. p \in Peers /\ ttl[L][p] \in Int /\ ttl # ttl'
  BY DEF TypeOK
<1>2. ~UNCHANGED vars /\ ~Crash /\ ~Halted /\ ~Quiet
  BY <1>1 DEF Halted, vars, book, Crash, Quiet
<1>3. Loud
  BY <1>2, QuietOrGone
<1>4. CASE RefreshTTL
  <2>1. pc["R"] = "refresh" /\ peer["R"] \in Peers /\ list["R"] \in Lists
    BY <1>4 DEF RefreshTTL, TypeOK, Control, Threads
  <2>2. PICK v : ttl' = [ttl EXCEPT ![list["R"]][peer["R"]] = v]
    BY <1>1, <1>4 DEF RefreshTTL
  <2>3. p = peer["R"]
    BY <2>1, <2>2 DEF TypeOK
  <2> QED
    BY <2>1, <2>3 DEF Earned
<1>5. ~(SetNewMax \/ Trim \/ DropExpired)
  BY <1>1, <1>2 DEF SetNewMax, Trim, DropExpired, book
<1>6. ~Scan
  <2> SUFFICES ASSUME Scan
               PROVE  FALSE
    OBVIOUS
  <2>1. ttl'[L][p] = Decremented(ttl[L][p])
    BY <1>1 DEF Scan
  <2> QED
    BY <1>1, <2>1 DEF Decremented
<1>7. CASE RemovePeer
  <2>1. PICK q \in dele : /\ ttl' = [K \in Lists |-> [ttl[K] EXCEPT ![q] = DefaultTTL]]
                          /\ peerList' = peerList \ {q}
    BY <1>7 DEF RemovePeer
  <2>2. p = q
    BY <1>1, <2>1 DEF TypeOK
  <2> QED
    BY <1>7, <2>1, <2>2 DEF RemovePeer, Earned
<1> QED
  BY <1>2, <1>3, <1>4, <1>5, <1>6, <1>7, EnteringEarns DEF Loud

\* Whatever the threads do, a partner's lease is extended by nothing but its own
\* ping, once accepted, or the loss of its entry: a silent partner's lease runs out.
THEOREM LeasesAreEarned == Spec => LeaseNeedsPing
<1>1. TypeOK /\ Control /\ [Next]_vars =>
        [\A L \in Lists : \A p \in peerActive[L] :
           ttl'[L][p] > ttl[L][p] =>
             \/ pc["R"] \in {"insert", "refresh"} /\ peer["R"] = p
             \/ pc["T"] = "drop" /\ p \in dele /\ p \notin peerList']_vars
  BY ExtendingEarns DEF Earned
<1> QED
  BY <1>1, TypeCorrect, PTL DEF Spec, LeaseNeedsPing
=============================================================================
