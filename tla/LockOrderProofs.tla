-------------------------- MODULE LockOrderProofs --------------------------
(***************************************************************************)
(* No deadlock among the threads of a node, however many run in each role: *)
(* every section of every function locks the mutexes by increasing Rank    *)
(* and ends with nothing held.                                             *)
(***************************************************************************)
EXTENDS LockOrder, TLAPS

Rank == [m \in Mutexes |->
  CASE m = "requestList" -> 1
    [] m = "oldRequestList" -> 2
    [] m = "peerList" -> 3
    [] m = "In" -> 4
    [] m = "Out" -> 5
    [] m \in {"OutFREE", "emptyReceiveBuff", "emptySendBuff", "lowLeakyBucket"} -> 6
    [] OTHER -> 7]

Below(H, m) == \A h \in H : Rank[h] < Rank[m]

\* A step that may be taken with the mutexes H in hand, and that leaves K.
StepOK(H, s, K) ==
  \/ \E m \in Mutexes : s = LockOf(m) /\ Below(H, m) /\ K = H \cup {m}
  \/ \E m \in Mutexes : s = UnlockOf(m) /\ K = H \ {m}
  \/ s = WaitStep /\ H = {} /\ K = {}

\* hs are the mutexes held before and after each step of the path.
Trace(hs, H, p, K) ==
  /\ hs \in [1 .. (Len(p) + 1) -> SUBSET Mutexes]
  /\ hs[1] = H /\ hs[Len(p) + 1] = K
  /\ \A i \in 1 .. Len(p) : StepOK(hs[i], p[i], hs[i + 1])

Legal(H, p, K) == p \in Seq(Steps) /\ \E hs : Trace(hs, H, p, K)

Goes(H, A, K) == \A p \in A : Legal(H, p, K)

-----------------------------------------------------------------------------
LEMMA RankRange == \A m \in Mutexes : Rank[m] \in 1 .. 7
  BY DEF Rank, Mutexes, Lists, OutLists

LEMMA LegalEmpty ==
  ASSUME NEW H \in SUBSET Mutexes
  PROVE  Legal(H, <<>>, H)
<1> DEFINE hs == [i \in 1 .. 1 |-> H]
<1>1. Trace(hs, H, <<>>, H)
  BY DEF Trace
<1>2. QED
  BY <1>1 DEF Legal

LEMMA LegalStep ==
  ASSUME NEW H \in SUBSET Mutexes, NEW s \in Steps, NEW K \in SUBSET Mutexes, StepOK(H, s, K)
  PROVE  Legal(H, <<s>>, K)
<1> DEFINE hs == [i \in 1 .. 2 |-> IF i = 1 THEN H ELSE K]
<1>1. Trace(hs, H, <<s>>, K)
  BY DEF Trace
<1>2. QED
  BY <1>1 DEF Legal

LEMMA LegalThen ==
  ASSUME NEW H, NEW p, NEW J, NEW q, NEW K, Legal(H, p, J), Legal(J, q, K)
  PROVE  Legal(H, p \o q, K)
<1>1. PICK a : Trace(a, H, p, J)
  BY DEF Legal
<1>2. PICK b : Trace(b, J, q, K)
  BY DEF Legal
<1>3. p \in Seq(Steps) /\ q \in Seq(Steps)
  BY DEF Legal
<1> DEFINE n == Len(p)
           l == Len(q)
           hs == [i \in 1 .. (n + l + 1) |-> IF i <= n + 1 THEN a[i] ELSE b[i - n]]
<1>4. n \in Nat /\ l \in Nat /\ p \o q \in Seq(Steps) /\ Len(p \o q) = n + l
  BY <1>3
<1>5. a[n + 1] = b[1]
  BY <1>1, <1>2 DEF Trace
<1>6. hs \in [1 .. (n + l + 1) -> SUBSET Mutexes]
  BY <1>1, <1>2, <1>4 DEF Trace
<1>7. hs[1] = H /\ hs[n + l + 1] = K
  <2>1. hs[1] = H
    BY <1>1, <1>4 DEF Trace
  <2>2. hs[n + l + 1] = K
    BY <1>1, <1>2, <1>4 DEF Trace
  <2> QED
    BY <2>1, <2>2
<1>8. ASSUME NEW i \in 1 .. (n + l)
      PROVE  StepOK(hs[i], (p \o q)[i], hs[i + 1])
  <2>1. CASE i <= n
    <3>1. hs[i] = a[i] /\ hs[i + 1] = a[i + 1] /\ (p \o q)[i] = p[i]
      BY <2>1, <1>3, <1>4
    <3> QED
      BY <3>1, <2>1, <1>1, <1>4 DEF Trace
  <2>2. CASE i > n
    <3>1. i - n \in 1 .. l
      BY <2>2, <1>4
    <3>2. (p \o q)[i] = q[i - n]
      BY <2>2, <1>3, <1>4
    <3>3. hs[i] = b[i - n]
      BY <2>2, <1>4, <1>5
    <3>4. hs[i + 1] = b[(i - n) + 1]
      BY <2>2, <1>4
    <3> QED
      BY <3>1, <3>2, <3>3, <3>4, <1>2 DEF Trace
  <2> QED
    BY <2>1, <2>2, <1>4
<1>9. Trace(hs, H, p \o q, K)
  BY <1>4, <1>6, <1>7, <1>8 DEF Trace
<1> QED
  BY <1>4, <1>9 DEF Legal

\* The next step of a legal path may be taken, and what follows it is legal.
LEMMA LegalHead ==
  ASSUME NEW H, NEW p, NEW K, Legal(H, p, K), p # <<>>
  PROVE  \E J \in SUBSET Mutexes :
           StepOK(H, Head(p), J) /\ Legal(J, Tail(p), K) /\ Tail(p) \in Seq(Steps)
<1>1. PICK hs : Trace(hs, H, p, K)
  BY DEF Legal
<1>2. p \in Seq(Steps) /\ Len(p) \in Nat /\ Len(p) >= 1
  BY DEF Legal
<1>3. /\ Tail(p) \in Seq(Steps) /\ Len(Tail(p)) = Len(p) - 1 /\ Head(p) = p[1]
      /\ \A i \in 1 .. (Len(p) - 1) : Tail(p)[i] = p[i + 1]
  BY <1>2
<1> DEFINE ks == [i \in 1 .. Len(p) |-> hs[i + 1]]
<1>4. hs[2] \in SUBSET Mutexes /\ StepOK(H, Head(p), hs[2])
  BY <1>1, <1>2, <1>3 DEF Trace
<1>5. ks \in [1 .. (Len(Tail(p)) + 1) -> SUBSET Mutexes]
  BY <1>1, <1>2, <1>3 DEF Trace
<1>6. ks[1] = hs[2] /\ ks[Len(Tail(p)) + 1] = K
  BY <1>1, <1>2, <1>3 DEF Trace
<1>7. \A i \in 1 .. Len(Tail(p)) : StepOK(ks[i], Tail(p)[i], ks[i + 1])
  BY <1>1, <1>2, <1>3 DEF Trace
<1>8. Trace(ks, hs[2], Tail(p), K)
  BY <1>5, <1>6, <1>7 DEF Trace
<1> QED
  BY <1>3, <1>4, <1>8 DEF Legal

-----------------------------------------------------------------------------
(***************************************************************************)
(* The operators that compose sections.                                    *)
(***************************************************************************)
LEMMA GoesSkip ==
  ASSUME NEW H \in SUBSET Mutexes
  PROVE  Goes(H, Skip, H)
BY LegalEmpty DEF Goes, Skip

LEMMA GoesMaybe ==
  ASSUME NEW H \in SUBSET Mutexes, NEW A, Goes(H, A, H)
  PROVE  Goes(H, Maybe(A), H)
BY GoesSkip DEF Goes, Maybe

LEMMA GoesEither ==
  ASSUME NEW H, NEW K, NEW A, NEW B, Goes(H, A, K), Goes(H, B, K)
  PROVE  Goes(H, A \cup B, K)
BY DEF Goes

LEMMA GoesThen ==
  ASSUME NEW H, NEW A, NEW J, NEW B, NEW K, Goes(H, A, J), Goes(J, B, K)
  PROVE  Goes(H, A ** B, K)
<1> SUFFICES ASSUME NEW r \in A ** B
             PROVE  Legal(H, r, K)
  BY DEF Goes
<1>1. PICK p \in A, q \in B : r = p \o q
  BY DEF **
<1>2. Legal(H, p, J) /\ Legal(J, q, K)
  BY DEF Goes
<1> QED
  BY <1>1, <1>2, LegalThen

LEMMA GoesLock ==
  ASSUME NEW H \in SUBSET Mutexes, NEW m \in Mutexes, Below(H, m), NEW K, K = H \cup {m}
  PROVE  Goes(H, Lock(m), K)
<1>1. LockOf(m) \in Steps /\ K \in SUBSET Mutexes /\ StepOK(H, LockOf(m), K)
  BY DEF Steps, StepOK
<1> QED
  BY <1>1, LegalStep DEF Goes, Lock

LEMMA GoesUnlock ==
  ASSUME NEW H \in SUBSET Mutexes, NEW m \in Mutexes, NEW K, K = H \ {m}
  PROVE  Goes(H, Unlock(m), K)
<1>1. UnlockOf(m) \in Steps /\ K \in SUBSET Mutexes /\ StepOK(H, UnlockOf(m), K)
  BY DEF Steps, StepOK
<1> QED
  BY <1>1, LegalStep DEF Goes, Unlock

LEMMA GoesWait == Goes({}, Wait, {})
<1>1. WaitStep \in Steps /\ StepOK({}, WaitStep, {})
  BY DEF Steps, StepOK
<1> QED
  BY <1>1, LegalStep DEF Goes, Wait

LEMMA GoesUnder ==
  ASSUME NEW H \in SUBSET Mutexes, NEW m \in Mutexes, Below(H, m),
         NEW G, G = H \cup {m}, NEW A, Goes(G, A, G)
  PROVE  Goes(H, Under(m, A), H)
<1>1. G \in SUBSET Mutexes
  OBVIOUS
<1>2. H = G \ {m}
  BY RankRange DEF Below
<1>3. Goes(H, Lock(m), G)
  BY GoesLock
<1>4. Goes(G, Unlock(m), H)
  BY <1>1, <1>2, GoesUnlock
<1>5. Goes(H, Lock(m) ** A, G)
  BY <1>3, GoesThen
<1> QED
  BY <1>4, <1>5, GoesThen DEF Under

LEMMA GoesOnly ==
  ASSUME NEW H \in SUBSET Mutexes, NEW m \in Mutexes, Below(H, m)
  PROVE  Goes(H, Only(m), H)
<1>1. H \cup {m} \in SUBSET Mutexes
  OBVIOUS
<1>2. Goes(H \cup {m}, Skip, H \cup {m})
  BY <1>1, GoesSkip
<1> QED
  BY <1>2, GoesUnder DEF Only

\* With nothing in hand any mutex may be taken.
LEMMA OnlyAlone ==
  ASSUME NEW m \in Mutexes
  PROVE  Goes({}, Only(m), {})
BY GoesOnly DEF Below

LEMMA UnderAlone ==
  ASSUME NEW m \in Mutexes, NEW A, Goes({m}, A, {m})
  PROVE  Goes({}, Under(m, A), {})
<1>1. Below({}, m) /\ {} \in SUBSET Mutexes /\ {m} = {} \cup {m}
  BY DEF Below
<1> QED
  BY <1>1, GoesUnder

LEMMA UnderOnly ==
  ASSUME NEW m \in Mutexes, NEW n \in Mutexes, Rank[m] < Rank[n]
  PROVE  Goes({m}, Only(n), {m})
<1>1. Below({m}, n) /\ {m} \in SUBSET Mutexes
  BY DEF Below
<1> QED
  BY <1>1, GoesOnly

LEMMA UnderUnderOnly ==
  ASSUME NEW m \in Mutexes, NEW n \in Mutexes, NEW A,
         Rank[m] < Rank[n], Goes({m, n}, A, {m, n})
  PROVE  Goes({m}, Under(n, A), {m})
<1>1. Below({m}, n) /\ {m} \in SUBSET Mutexes /\ {m, n} = {m} \cup {n}
  BY DEF Below
<1> QED
  BY <1>1, GoesUnder

LEMMA Ranks ==
  /\ {"requestList", "oldRequestList", "peerList", "bufferMap", "emptyReceiveBuff", "emptySendBuff",
      "lowLeakyBucket", "leakyBucket", "sendQueue", "sendRequestQueue", "receiveQueue",
      "receiveRequestQueue", "In", "Out", "OutFREE"} \subseteq Mutexes
  /\ Rank["requestList"] = 1 /\ Rank["oldRequestList"] = 2 /\ Rank["peerList"] = 3
  /\ Rank["In"] = 4 /\ Rank["Out"] = 5 /\ Rank["OutFREE"] = 6
  /\ Rank["emptyReceiveBuff"] = 6 /\ Rank["emptySendBuff"] = 6 /\ Rank["lowLeakyBucket"] = 6
  /\ Rank["leakyBucket"] = 7 /\ Rank["bufferMap"] = 7
  /\ Rank["sendQueue"] = 7 /\ Rank["sendRequestQueue"] = 7
  /\ Rank["receiveQueue"] = 7 /\ Rank["receiveRequestQueue"] = 7
BY DEF Rank, Mutexes, Lists, OutLists

LEMMA ListRanks ==
  \A list \in Lists :
    /\ list \in Mutexes /\ Rank[list] \in 4 .. 6 /\ Rank["peerList"] < Rank[list]
BY Ranks DEF Lists, OutLists

-----------------------------------------------------------------------------
(***************************************************************************)
(* The sections.                                                           *)
(***************************************************************************)
Good == {A \in SUBSET Seq(Steps) : Goes({}, A, {})}

LEMMA GoodSection ==
  ASSUME NEW A, Goes({}, A, {})
  PROVE  A \in Good
BY DEF Good, Goes, Legal

LEMMA GoodMaybe ==
  ASSUME NEW A, Goes({}, A, {})
  PROVE  Maybe(A) \in Good /\ Goes({}, Maybe(A), {})
<1>1. Goes({}, Maybe(A), {})
  BY GoesMaybe
<1> QED
  BY <1>1, GoodSection

LEMMA GoodOnly ==
  ASSUME NEW m \in Mutexes
  PROVE  Only(m) \in Good /\ Maybe(Only(m)) \in Good
<1>1. Goes({}, Only(m), {})
  BY OnlyAlone
<1> QED
  BY <1>1, GoodSection, GoodMaybe

\* A mutex of a list, within that of peerList.
LEMMA ListUnderPeerList ==
  ASSUME NEW list \in Lists
  PROVE  Goes({"peerList"}, Only(list), {"peerList"})
BY Ranks, ListRanks, UnderOnly

\* The wait for a condition gives back the one mutex in hand.
LEMMA GoodCondition ==
  ASSUME NEW m \in Mutexes
  PROVE  Goes({m}, Unlock(m) ** Wait ** Lock(m), {m})
<1>1. Goes({m}, Unlock(m), {})
  BY GoesUnlock
<1>2. Goes({m}, Unlock(m) ** Wait, {})
  BY <1>1, GoesWait, GoesThen
<1>3. Goes({}, Lock(m), {m})
  BY GoesLock DEF Below
<1> QED
  BY <1>2, <1>3, GoesThen

LEMMA GoodNextMessage ==
  ASSUME NEW e \in {"emptyReceiveBuff", "emptySendBuff"},
         NEW q \in {"sendQueue", "receiveQueue"},
         NEW r \in {"sendRequestQueue", "receiveRequestQueue"}
  PROVE  GetNextMessage(e, q, r) \in Good
<1>1. e \in Mutexes /\ q \in Mutexes /\ r \in Mutexes /\ {e} \in SUBSET Mutexes
  BY Ranks
<1>2. Rank[e] < Rank[q] /\ Rank[e] < Rank[r]
  BY Ranks
<1>3. Goes({e}, Only(q), {e}) /\ Goes({e}, Only(r), {e})
  BY <1>1, <1>2, UnderOnly
<1>4. Goes({e}, GetSize(q, r), {e})
  BY <1>3, GoesThen DEF GetSize
<1>5. Goes({e}, Maybe(Unlock(e) ** Wait ** Lock(e)), {e})
  BY <1>1, GoodCondition, GoesMaybe
<1>6. Goes({e}, Pop(q, r), {e})
  <2>1. Goes({e}, Only(q) \cup Only(r), {e})
    BY <1>3, GoesEither
  <2> QED
    BY <2>1, <1>1, GoesMaybe DEF Pop
<1>7. Goes({e}, GetSize(q, r) ** Maybe(Unlock(e) ** Wait ** Lock(e)), {e})
  BY <1>4, <1>5, GoesThen
<1>8. Goes({e}, GetSize(q, r) ** Maybe(Unlock(e) ** Wait ** Lock(e)) ** Pop(q, r), {e})
  BY <1>6, <1>7, GoesThen
<1>9. Goes({}, GetNextMessage(e, q, r), {})
  BY <1>1, <1>8, UnderAlone DEF GetNextMessage
<1> QED
  BY <1>9, GoodSection

LEMMA GoodDecToken == DecToken \in Good
<1> DEFINE low == "lowLeakyBucket"
<1>1. low \in Mutexes /\ {low} \in SUBSET Mutexes /\ Goes({low}, Only("leakyBucket"), {low})
  BY Ranks, UnderOnly
<1>2. Goes({low}, Maybe(Unlock(low) ** Wait ** Lock(low)), {low})
  BY <1>1, GoodCondition, GoesMaybe
<1>3. Goes({low}, Only("leakyBucket") ** Maybe(Unlock(low) ** Wait ** Lock(low)), {low})
  BY <1>1, <1>2, GoesThen
<1>4. Goes({}, DecToken, {})
  BY <1>1, <1>3, UnderAlone DEF DecToken
<1> QED
  BY <1>4, GoodSection

LEMMA GoodScan == Scan \in Good
<1> USE Ranks DEF Below
<1>1. Goes({}, Lock("In"), {"In"})
  BY GoesLock
<1>2. Goes({"In"}, Lock("Out"), {"In", "Out"})
  BY GoesLock
<1>3. Goes({"In", "Out"}, Lock("OutFREE"), {"In", "Out", "OutFREE"})
  BY GoesLock
<1>4. Goes({"In", "Out", "OutFREE"}, Unlock("In"), {"Out", "OutFREE"})
  BY GoesUnlock
<1>5. Goes({"Out", "OutFREE"}, Unlock("Out"), {"OutFREE"})
  BY GoesUnlock
<1>6. Goes({"OutFREE"}, Unlock("OutFREE"), {})
  BY GoesUnlock
<1>7. Goes({}, Lock("In") ** Lock("Out") ** Lock("OutFREE"), {"In", "Out", "OutFREE"})
  BY <1>1, <1>2, <1>3, GoesThen
<1>8. Goes({}, Scan, {})
  BY <1>4, <1>5, <1>6, <1>7, GoesThen DEF Scan
<1> QED
  BY <1>8, GoodSection

LEMMA GoodSizeTotal == GetPeerActiveSizeTotal \in Good
<1> USE Ranks DEF Below
<1>1. Goes({}, Lock("In"), {"In"})
  BY GoesLock
<1>2. Goes({"In"}, Only("Out"), {"In"})
  BY UnderOnly
<1>3. Goes({"In"}, Lock("OutFREE"), {"In", "OutFREE"})
  BY GoesLock
<1>4. Goes({"In", "OutFREE"}, Unlock("In"), {"OutFREE"})
  BY GoesUnlock
<1>5. Goes({"OutFREE"}, Unlock("OutFREE"), {})
  BY GoesUnlock
<1>6. Goes({}, Lock("In") ** Only("Out") ** Lock("OutFREE"), {"In", "OutFREE"})
  BY <1>1, <1>2, <1>3, GoesThen
<1>7. Goes({}, GetPeerActiveSizeTotal, {})
  BY <1>4, <1>5, <1>6, GoesThen DEF GetPeerActiveSizeTotal
<1> QED
  BY <1>7, GoodSection

\* The queues are the last in the order.
LEMMA GoesEnqueue ==
  ASSUME NEW H \in SUBSET Mutexes, \A h \in H : Rank[h] < 7
  PROVE  Goes(H, EnqueueSend, H) /\ Goes(H, EnqueueRequest, H)
<1>1. Goes(H, Only("sendQueue"), H) /\ Goes(H, Only("sendRequestQueue"), H)
  BY Ranks, GoesOnly DEF Below
<1>2. Goes(H, EnqueueSend, H)
  BY <1>1, GoesMaybe DEF EnqueueSend
<1> QED
  BY <1>1, <1>2, GoesEither DEF EnqueueRequest

LEMMA GoodEnqueueSend == EnqueueSend \in Good
BY GoesEnqueue, GoodSection

\* What PeerManager does with one list, alone or within the mutex of peerList.
LEMMA GoodList ==
  ASSUME NEW list \in Lists
  PROVE  /\ IsPeerActive(list) \in Good /\ Maybe(IsPeerActive(list)) \in Good
         /\ ConnectPeer(list) \in Good
         /\ DisconnectPeer(list) \in Good /\ Maybe(DisconnectPeer(list)) \in Good
         /\ GetPeerActiveSize(list) \in Good
BY ListRanks, GoodOnly DEF IsPeerActive, ConnectPeer, DisconnectPeer, GetPeerActiveSize

LEMMA GoesList ==
  ASSUME NEW list \in Lists, NEW G, G = {"peerList"}
  PROVE  /\ Goes(G, IsPeerActive(list), G) /\ Goes(G, Maybe(IsPeerActive(list)), G)
         /\ Goes(G, ConnectPeer(list), G) /\ Goes(G, Maybe(ConnectPeer(list)), G)
         /\ Goes(G, Maybe(DisconnectPeer(list)), G)
         /\ Goes(G, GetPeerActiveSize(list), G) /\ Goes(G, Maybe(GetPeerActiveSize(list)), G)
<1>1. G \in SUBSET Mutexes /\ Goes(G, Only(list), G)
  BY Ranks, ListUnderPeerList
<1>2. Goes(G, Maybe(Only(list)), G)
  BY <1>1, GoesMaybe
<1>3. Goes(G, Maybe(Maybe(Only(list))), G)
  BY <1>1, <1>2, GoesMaybe
<1> QED
  BY <1>1, <1>2, <1>3 DEF IsPeerActive, ConnectPeer, DisconnectPeer, GetPeerActiveSize

LEMMA GoodUnderPeerList ==
  ASSUME NEW A, Goes({"peerList"}, A, {"peerList"})
  PROVE  Under("peerList", A) \in Good /\ Maybe(Under("peerList", A)) \in Good
<1>1. Goes({}, Under("peerList", A), {})
  BY Ranks, UnderAlone
<1> QED
  BY <1>1, GoodSection, GoodMaybe

LEMMA GoodConnect == Connect \in Good
<1> DEFINE G == {"peerList"}
<1>1. Goes(G, Maybe(IsPeerActive("In")) ** GetPeerActiveSize("In"), G)
  BY GoesList, GoesThen DEF Lists
<1>2. Goes(G, Maybe(IsPeerActive("In")) ** GetPeerActiveSize("In") ** Maybe(ConnectPeer("In")), G)
  BY <1>1, GoesList, GoesThen DEF Lists
<1> QED
  BY <1>2, GoodUnderPeerList DEF Connect

LEMMA GoodDisconnect ==
  ASSUME NEW list \in Lists
  PROVE  Disconnect(list) \in Good
BY GoesList, GoodUnderPeerList DEF Disconnect

LEMMA GoodNewMax ==
  ASSUME NEW list \in Lists
  PROVE  SetNewMMaxActivePeersOut(list) \in Good
BY ListUnderPeerList, GoodUnderPeerList DEF SetNewMMaxActivePeersOut

\* The partner is looked up and connected under one hold of peerList.
LEMMA GoodPingOut ==
  ASSUME NEW list \in Lists
  PROVE  Under("peerList", IsPeerActive(list)
                  ** Maybe(ConnectPeer(list) ** Maybe(GetPeerActiveSize(list)))) \in Good
<1> DEFINE G == {"peerList"}
           A == ConnectPeer(list) ** Maybe(GetPeerActiveSize(list))
<1>1. G \in SUBSET Mutexes
  BY Ranks
<1>2. Goes(G, A, G)
  BY GoesList, GoesThen
<1>3. Goes(G, Maybe(A), G)
  BY <1>1, <1>2, GoesMaybe
<1>4. Goes(G, IsPeerActive(list) ** Maybe(A), G)
  BY <1>3, GoesList, GoesThen
<1> QED
  BY <1>4, GoodUnderPeerList

\* requestList gives way to oldRequestList: not nested, but in the order.
LEMMA GoodAnswerRequest == AnswerRequest \in Good /\ Goes({}, AnswerRequest, {})
<1> DEFINE r == "requestList"
           o == "oldRequestList"
<1> USE Ranks DEF Below
<1>1. Goes({}, Lock(r), {r})
  BY GoesLock
<1>2. Goes({r}, Lock(o), {r, o})
  BY GoesLock
<1>3. Goes({r, o}, Unlock(r), {o})
  BY GoesUnlock
<1>4. Goes({o}, Only("peerList"), {o})
  BY UnderOnly
<1>5. Goes({o}, Unlock(o), {})
  BY GoesUnlock
<1>6. Goes({}, Lock(r) ** Lock(o) ** Unlock(r), {o})
  BY <1>1, <1>2, <1>3, GoesThen
<1>7. Goes({}, AnswerRequest, {})
  BY <1>4, <1>5, <1>6, GoesThen DEF AnswerRequest
<1> QED
  BY <1>7, GoodSection

\* What data does to the lists of requests.
LEMMA GoodData ==
  Maybe(Only("oldRequestList")) \cup Only("requestList") \cup AnswerRequest \cup EnqueueSend \in Good
<1>1. /\ Goes({}, Maybe(Only("oldRequestList")), {}) /\ Goes({}, Only("requestList"), {})
      /\ Goes({}, EnqueueSend, {})
  BY Ranks, OnlyAlone, GoodMaybe, GoesEnqueue
<1>2. Goes({}, Maybe(Only("oldRequestList")) \cup Only("requestList") \cup AnswerRequest, {})
  BY <1>1, GoodAnswerRequest, GoesEither
<1>3. Goes({}, Maybe(Only("oldRequestList")) \cup Only("requestList") \cup AnswerRequest
                 \cup EnqueueSend, {})
  BY <1>1, <1>2, GoesEither
<1> QED
  BY <1>3, GoodSection

LEMMA GoodWait == Wait \in Good /\ Maybe(Wait) \in Good
BY GoesWait, GoodSection, GoodMaybe

\* A request leaves under three mutexes, and so does a ping under two.
LEMMA GoodSendUnderList ==
  ASSUME NEW list \in Lists
  PROVE  Maybe(Under("peerList", Under(list, EnqueueSend))) \in Good
<1>1. {"peerList", list} \in SUBSET Mutexes /\ \A h \in {"peerList", list} : Rank[h] < 7
  BY Ranks, ListRanks
<1>2. Goes({"peerList", list}, EnqueueSend, {"peerList", list})
  BY <1>1, GoesEnqueue
<1>3. Goes({"peerList"}, Under(list, EnqueueSend), {"peerList"})
  BY <1>2, Ranks, ListRanks, UnderUnderOnly
<1> QED
  BY <1>3, GoodUnderPeerList

LEMMA GoodSendRequest ==
  Under("requestList", Maybe(Under("peerList", Under("In", EnqueueRequest)))) \in Good
<1> DEFINE r == "requestList"
           p == "peerList"
<1> USE Ranks
<1>1. {r} \in SUBSET Mutexes /\ {r, p} \in SUBSET Mutexes /\ {r, p, "In"} \in SUBSET Mutexes
  OBVIOUS
<1>2. Goes({r, p, "In"}, EnqueueRequest, {r, p, "In"})
  BY <1>1, GoesEnqueue
<1>3. Goes({r, p}, Under("In", EnqueueRequest), {r, p})
  <2>1. Below({r, p}, "In") /\ {r, p, "In"} = {r, p} \cup {"In"}
    BY DEF Below
  <2> QED
    BY <1>1, <1>2, <2>1, GoesUnder
<1>4. Goes({r}, Maybe(Under(p, Under("In", EnqueueRequest))), {r})
  BY <1>1, <1>3, UnderUnderOnly, GoesMaybe
<1>5. Goes({}, Under(r, Maybe(Under(p, Under("In", EnqueueRequest)))), {})
  BY <1>4, UnderAlone
<1> QED
  BY <1>5, GoodSection

LEMMA GoodLookUp == Under("requestList", Maybe(Only("oldRequestList"))) \in Good
<1>1. {"requestList"} \in SUBSET Mutexes
  BY Ranks
<1>2. Goes({"requestList"}, Maybe(Only("oldRequestList")), {"requestList"})
  BY <1>1, Ranks, UnderOnly, GoesMaybe
<1>3. Goes({}, Under("requestList", Maybe(Only("oldRequestList"))), {})
  BY <1>2, Ranks, UnderAlone
<1> QED
  BY <1>3, GoodSection

LEMMA GoodCriaRequest == CriaRequest \in Good
BY ListUnderPeerList, GoodUnderPeerList DEF CriaRequest, Lists

\* The overlay log holds the four mutexes of the peers at once.
LEMMA GoodPeerlistLog == PeerlistLog \in Good
<1> DEFINE p == "peerList"
           all == {p, "In", "Out", "OutFREE"}
<1> USE Ranks DEF Below
<1>1. Goes({}, Lock(p), {p})
  BY GoesLock
<1>2. Goes({p}, Lock("In"), {p, "In"})
  BY GoesLock
<1>3. Goes({p, "In"}, Lock("Out"), {p, "In", "Out"})
  BY GoesLock
<1>4. Goes({p, "In", "Out"}, Lock("OutFREE"), all)
  BY GoesLock
<1>5. Goes(all, Skip, all)
  BY GoesSkip
<1>6. Goes(all, Unlock("In"), {p, "Out", "OutFREE"})
  BY GoesUnlock
<1>7. Goes({p, "Out", "OutFREE"}, Unlock("Out"), {p, "OutFREE"})
  BY GoesUnlock
<1>8. Goes({p, "OutFREE"}, Unlock("OutFREE"), {p})
  BY GoesUnlock
<1>9. Goes({p}, Unlock(p), {})
  BY GoesUnlock
<1>10. Goes({}, Lock(p) ** Lock("In") ** Lock("Out") ** Lock("OutFREE"), all)
  BY <1>1, <1>2, <1>3, <1>4, GoesThen
<1>11. Goes({}, Lock(p) ** Lock("In") ** Lock("Out") ** Lock("OutFREE") ** Skip ** Skip ** Skip, all)
  BY <1>5, <1>10, GoesThen
<1>12. Goes({}, PeerlistLog, {})
  <2>1. Goes({}, Lock(p) ** Lock("In") ** Lock("Out") ** Lock("OutFREE") ** Skip ** Skip ** Skip
                   ** Unlock("In") ** Unlock("Out"), {p, "OutFREE"})
    BY <1>6, <1>7, <1>11, GoesThen
  <2>2. Goes({}, Lock(p) ** Lock("In") ** Lock("Out") ** Lock("OutFREE") ** Skip ** Skip ** Skip
                   ** Unlock("In") ** Unlock("Out") ** Unlock("OutFREE") ** Unlock(p), {})
    BY <1>8, <1>9, <2>1, GoesThen
  <2> QED
    BY <2>2 DEF PeerlistLog, PeerlistLogOf, GetPeerActiveSize_OPENED
<1> QED
  BY <1>12, GoodSection

-----------------------------------------------------------------------------
(***************************************************************************)
(* The functions.                                                          *)
(***************************************************************************)
Fine == Seq(Good)

LEMMA FineThen ==
  ASSUME NEW a \in Fine, NEW b \in Fine
  PROVE  a \o b \in Fine
BY DEF Fine

LEMMA FineConnect ==
  /\ <<Connect>> \in Fine /\ <<IncToken>> \in Fine
  /\ \A list \in Lists : <<Disconnect(list)>> \in Fine
BY GoodConnect, GoodDisconnect, GoodOnly, Ranks DEF Fine, IncToken

LEMMA FineCheckPeerList == CheckPeerList \in Fine
<1>1. Maybe(RemovePeer) \in Good
  BY Ranks, GoodOnly DEF RemovePeer
<1>2. \A list \in Lists : Maybe(DisconnectPeer(list)) \in Good
  BY GoodList
<1> QED
  BY <1>1, <1>2, GoodScan DEF CheckPeerList, Fine, Lists, OutLists

LEMMA FineShowPeerList == ShowPeerList \in Fine
<1>1. \A list \in Lists : Only(list) \in Good /\ GetPeerActiveSize(list) \in Good
  BY ListRanks, GoodOnly, GoodList
<1>2. Only("peerList") \in Good
  BY Ranks, GoodOnly
<1> QED
  BY <1>1, <1>2, GoodSizeTotal DEF ShowPeerList, Fine, Lists, OutLists

LEMMA FinePingMessages ==
  /\ HandlePingMessageIn \subseteq Fine
  /\ \A list \in OutLists : HandlePingMessageOut(list) \in Fine
<1>1. AddPeer \in Good /\ Only("peerList") \in Good
  BY Ranks, GoodOnly DEF AddPeer
<1>2. IsPeerActive("In") \in Good /\ ConnectPeer("In") \in Good /\ GetPeerActiveSize("In") \in Good
  BY GoodList DEF Lists
<1>3. Maybe(Under("peerList", IsPeerActive("In"))) \in Good
  BY GoesList, GoodUnderPeerList DEF Lists
<1>4. HandlePingMessageIn \subseteq Fine
  <2> DEFINE begin == <<AddPeer, IsPeerActive("In")>>
             failed == <<ConnectPeer("In"), GetPeerActiveSize("In")>>
             joined == <<ConnectPeer("In"), Only("peerList"), Maybe(Under("peerList", IsPeerActive("In")))>>
  <2>1. begin \in Fine /\ failed \in Fine /\ joined \in Fine
    BY <1>1, <1>2, <1>3 DEF Fine
  <2>2. begin \o failed \in Fine /\ begin \o joined \in Fine
    BY <2>1, FineThen
  <2> QED
    BY <2>2 DEF HandlePingMessageIn
<1>5. ASSUME NEW list \in OutLists
      PROVE  HandlePingMessageOut(list) \in Fine
  <2>1. list \in Lists
    BY DEF Lists
  <2>2. Under("peerList", IsPeerActive(list)
                  ** Maybe(ConnectPeer(list) ** Maybe(GetPeerActiveSize(list)))) \in Good
    BY <2>1, GoodPingOut
  <2> QED
    BY <1>1, <2>2 DEF HandlePingMessageOut, Fine
<1> QED
  BY <1>4, <1>5

LEMMA FineMessages == HandleRequestMessage \in Fine /\ HandleDataMessage \in Fine
<1>1. IsPeerActive("Out") \in Good /\ Maybe(IsPeerActive("OutFREE")) \in Good
  BY GoodList DEF Lists, OutLists
<1>2. Under("peerList", IsPeerActive("In")) \in Good
  BY GoesList, GoodUnderPeerList DEF Lists
<1> QED
  BY <1>1, <1>2, GoodEnqueueSend, GoodData DEF HandleRequestMessage, HandleDataMessage, Fine

LEMMA FinePeerlist == HandlePeerlistMessage \in Fine /\ ConnectToBootstrap \subseteq Fine
<1>1. \A list \in OutLists : SetNewMMaxActivePeersOut(list) \in Good
  BY GoodNewMax DEF Lists
<1>2. Maybe(AddPeer) \in Good
  BY Ranks, GoodOnly DEF AddPeer
<1>3. HandlePeerlistMessage \in Fine
  BY <1>1, <1>2, GoodConnect DEF HandlePeerlistMessage, Fine, OutLists
<1>4. <<Wait>> \in Fine
  BY GoodWait DEF Fine
<1> QED
  BY <1>3, <1>4, FineThen DEF ConnectToBootstrap

LEMMA FineRequests == MontarListaPedidos \subseteq Fine
<1>1. Only("requestList") \in Good /\ Only("bufferMap") \in Good
  BY Ranks, GoodOnly
<1>2. ColocarNaListaDePedidos \subseteq Fine
  BY <1>1, GoodCriaRequest DEF ColocarNaListaDePedidos, Fine
<1>3. FazPedidos \in Fine
  BY GoodLookUp, GoodSendRequest DEF FazPedidos, Fine
<1> QED
  BY <1>2, <1>3, FineThen DEF MontarListaPedidos

LEMMA FinePings ==
  PingIn \in Fine /\ Report \in Fine /\ \A list \in OutLists : PingOut(list) \in Fine
<1>1. \A list \in Lists : GetPeerActiveSize(list) \in Good
  BY GoodList
<1>2. Maybe(Only("bufferMap")) \in Good
  BY Ranks, GoodOnly
<1>3. PingIn \in Fine
  BY <1>1, GoodSendUnderList DEF PingIn, Fine, Lists
<1>4. Report \in Fine
  BY <1>1, GoodPeerlistLog DEF Report, Fine, Lists, OutLists
<1>5. ASSUME NEW list \in OutLists
      PROVE  PingOut(list) \in Fine
  <2>1. list \in Lists
    BY DEF Lists
  <2>2. /\ GetPeerActiveSize(list) \in Good
        /\ Maybe(Under("peerList", Under(list, EnqueueSend))) \in Good
    BY <1>1, <2>1, GoodSendUnderList
  <2> QED
    BY <1>2, <2>2 DEF PingOut, Fine
<1> QED
  BY <1>3, <1>4, <1>5

LEMMA FinePing == Ping \subseteq Fine
<1> DEFINE pings == <<EnqueueSend>> \o PingIn \o PingOut("Out") \o PingOut("OutFREE") \o <<EnqueueSend>>
<1>1. <<EnqueueSend>> \in Fine
  BY GoodEnqueueSend DEF Fine
<1>2. pings \in Fine
  BY <1>1, FinePings, FineThen DEF OutLists
<1> QED
  BY <1>2, FinePings, FineThen DEF Ping

LEMMA FineWork == \A role \in Roles : Work(role) \subseteq Fine
<1> SUFFICES ASSUME NEW role \in Roles
             PROVE  Work(role) \subseteq Fine
  OBVIOUS
<1>1. Handle_recv \subseteq Fine
  BY Ranks, GoodOnly DEF Handle_recv, Fine
<1>2. UDPReceive \subseteq Fine
  <2>1. GetNextMessage("emptyReceiveBuff", "receiveQueue", "receiveRequestQueue") \in Good
    BY GoodNextMessage
  <2>2. <<GetNextMessage("emptyReceiveBuff", "receiveQueue", "receiveRequestQueue")>> \in Fine
    BY <2>1 DEF Fine
  <2> QED
    BY <2>2, FinePingMessages, FineMessages DEF UDPReceive
<1>3. UDPSend \subseteq Fine
  BY Ranks, GoodNextMessage, GoodDecToken, GoodOnly DEF UDPSend, Inc_peerSentChunks, Fine
<1>4. CyclicTimers \subseteq Fine
  BY FineConnect, FineCheckPeerList, FineShowPeerList, FinePeerlist
     DEF CyclicTimers, Lists, OutLists
<1>5. ConsomeMedia \subseteq Fine
  BY Ranks, GoodOnly, GoodWait DEF ConsomeMedia, PlayMedia, MissChunk, Fine
<1>6. GerarDados \subseteq Fine
  BY Ranks, GoodOnly, GoodWait DEF GerarDados, Fine
<1> QED
  BY <1>1, <1>2, <1>3, <1>4, <1>5, <1>6, FinePing, FineRequests DEF Work, Roles

-----------------------------------------------------------------------------
(***************************************************************************)
(* The threads.                                                            *)
(***************************************************************************)
\* A thread holds what the path that it is on has locked so far, and the rest of
\* that path may be taken and gives all of it back.
IInv ==
  /\ TypeOK
  /\ todo \in [Threads -> Fine]
  /\ \A t \in Threads : Legal(held[t], rest[t], {})

LEMMA FineType == Fine \subseteq Seq(SUBSET Seq(Steps))
BY DEF Fine, Good

LEMMA LegalEnd ==
  ASSUME NEW H, Legal(H, <<>>, {})
  PROVE  H = {}
BY DEF Legal, Trace

\* A thread on a path takes its next step.
LEMMA Advances ==
  ASSUME NEW t \in Threads, TypeOK, Legal(held[t], rest[t], {}), rest[t] # <<>>
  PROVE  \E J \in SUBSET Mutexes :
           StepOK(held[t], Head(rest[t]), J) /\ Legal(J, Tail(rest[t]), {})
             /\ Tail(rest[t]) \in Seq(Steps)
BY LegalHead

LEMMA KeepsIInv == IInv /\ [Next]_vars => IInv'
<1> SUFFICES ASSUME IInv, [Next]_vars
             PROVE  IInv'
  OBVIOUS
<1> USE DEF IInv, TypeOK
<1>1. ASSUME NEW t \in Threads, Begin(t)
      PROVE  IInv'
  <2>1. PICK sections \in Work(Role[t]) : todo' = [todo EXCEPT ![t] = sections]
    BY <1>1 DEF Begin
  <2>2. sections \in Fine
    BY <2>1, FineWork, ThreadsAssumption
  <2> QED
    BY <1>1, <2>1, <2>2, FineType DEF Begin
<1>2. ASSUME NEW t \in Threads, Enter(t)
      PROVE  IInv'
  <2>1. PICK path \in Head(todo[t]) : rest' = [rest EXCEPT ![t] = path]
    BY <1>2 DEF Enter
  <2>2. todo[t] \in Fine /\ todo[t] # <<>> /\ todo' = [todo EXCEPT ![t] = Tail(@)] /\ held' = held
    BY <1>2 DEF Enter
  <2>3. Head(todo[t]) \in Good /\ Tail(todo[t]) \in Fine
    BY <2>2 DEF Fine
  <2>4. Legal({}, path, {}) /\ path \in Seq(Steps)
    BY <2>1, <2>3 DEF Good, Goes
  <2>5. held[t] = {}
    BY <1>2, LegalEnd DEF Enter
  <2>6. \A u \in Threads : Legal(held'[u], rest'[u], {})
    BY <2>1, <2>2, <2>4, <2>5
  <2>7. todo' \in [Threads -> Fine] /\ rest' \in [Threads -> Seq(Steps)]
    BY <2>1, <2>2, <2>3, <2>4
  <2> QED
    BY <2>2, <2>6, <2>7, FineType
<1>3. ASSUME NEW t \in Threads, Acquire(t)
      PROVE  IInv'
  <2>1. PICK m \in Mutexes : /\ At(t, LockOf(m)) /\ Free(m)
                             /\ held' = [held EXCEPT ![t] = @ \cup {m}] /\ Advance(t)
    BY <1>3 DEF Acquire
  <2>2. PICK J \in SUBSET Mutexes : /\ StepOK(held[t], LockOf(m), J)
                                    /\ Legal(J, Tail(rest[t]), {}) /\ Tail(rest[t]) \in Seq(Steps)
    BY <2>1, Advances DEF At
  <2>3. J = held[t] \cup {m}
    BY <2>2 DEF StepOK, LockOf, UnlockOf, WaitStep
  <2> QED
    BY <2>1, <2>2, <2>3 DEF Advance, Free
<1>4. ASSUME NEW t \in Threads, Release(t)
      PROVE  IInv'
  <2>1. PICK m \in Mutexes : /\ At(t, UnlockOf(m))
                             /\ held' = [held EXCEPT ![t] = @ \ {m}] /\ Advance(t)
    BY <1>4 DEF Release
  <2>2. PICK J \in SUBSET Mutexes : /\ StepOK(held[t], UnlockOf(m), J)
                                    /\ Legal(J, Tail(rest[t]), {}) /\ Tail(rest[t]) \in Seq(Steps)
    BY <2>1, Advances DEF At
  <2>3. J = held[t] \ {m}
    BY <2>2 DEF StepOK, LockOf, UnlockOf, WaitStep
  <2> QED
    BY <2>1, <2>2, <2>3 DEF Advance
<1>5. ASSUME NEW t \in Threads, EndWait(t)
      PROVE  IInv'
  <2>1. At(t, WaitStep) /\ Advance(t) /\ held' = held
    BY <1>5 DEF EndWait
  <2>2. PICK J \in SUBSET Mutexes : /\ StepOK(held[t], WaitStep, J)
                                    /\ Legal(J, Tail(rest[t]), {}) /\ Tail(rest[t]) \in Seq(Steps)
    BY <2>1, Advances DEF At
  <2>3. J = held[t]
    BY <2>2 DEF StepOK, LockOf, UnlockOf, WaitStep
  <2> QED
    BY <2>1, <2>2, <2>3 DEF Advance
<1>6. CASE UNCHANGED vars
  BY <1>6 DEF vars
<1> QED
  BY <1>1, <1>2, <1>3, <1>4, <1>5, <1>6 DEF Next

LEMMA StartsIInv == Init => IInv
<1> SUFFICES ASSUME Init
             PROVE  IInv
  OBVIOUS
<1>1. Legal({}, <<>>, {})
  BY LegalEmpty
<1> QED
  BY <1>1 DEF Init, IInv, TypeOK, Fine

LEMMA AlwaysIInv == Spec => []IInv
BY StartsIInv, KeepsIInv, PTL DEF Spec

\* The threads of a node are well typed and a mutex never has two owners.
THEOREM TypeCorrect == Spec => []TypeOK
<1>1. IInv => TypeOK
  BY DEF IInv
<1> QED
  BY <1>1, AlwaysIInv, PTL

\* Whoever is out of every section, or waits for something outside, holds nothing.
THEOREM NothingIsHeldOutside == Spec => []NothingHeldOutside
<1>1. IInv => NothingHeldOutside
  <2> SUFFICES ASSUME IInv, NEW t \in Threads, rest[t] = <<>> \/ At(t, WaitStep)
               PROVE  held[t] = {}
    BY DEF NothingHeldOutside
  <2>1. CASE rest[t] = <<>>
    BY <2>1, LegalEnd DEF IInv
  <2>2. CASE At(t, WaitStep)
    <3>1. PICK J \in SUBSET Mutexes : StepOK(held[t], WaitStep, J)
      BY <2>2, Advances DEF At, IInv
    <3> QED
      BY <3>1 DEF StepOK, LockOf, UnlockOf, WaitStep
  <2> QED
    BY <2>1, <2>2
<1> QED
  BY <1>1, AlwaysIInv, PTL

\* Who waits for a mutex has it above all those that it holds.
LEMMA WaitsAbove ==
  ASSUME IInv, NEW t \in Threads, NEW m, At(t, LockOf(m))
  PROVE  m \in Mutexes /\ Below(held[t], m)
<1>1. PICK J \in SUBSET Mutexes : StepOK(held[t], LockOf(m), J)
  BY Advances DEF At, IInv
<1> QED
  BY <1>1 DEF StepOK, LockOf, UnlockOf, WaitStep

\* No set of threads waits for itself: from the last mutex in the order to the
\* first, none of its threads can be the one that waits for it, as the one that holds it
\* would wait for one further on.
LEMMA NoCircle == IInv => NoCircularWait
<1> SUFFICES ASSUME IInv, NEW S \in SUBSET {t \in Threads : rest[t] # <<>>},
                    \A t \in S : \E u \in S : WaitsFor(t, u)
             PROVE  S = {}
  BY DEF NoCircularWait
<1> DEFINE WaitsAt(k) == \E t \in S, m \in Mutexes : At(t, LockOf(m)) /\ Rank[m] = k
<1>1. \A t \in S : t \in Threads /\ held[t] \in SUBSET Mutexes
  BY DEF IInv, TypeOK
<1>2. \A k \in 1 .. 7 : WaitsAt(k) => \E j \in 1 .. 7 : j > k /\ WaitsAt(j)
  <2> SUFFICES ASSUME NEW k \in 1 .. 7, NEW t \in S, NEW m \in Mutexes,
                      At(t, LockOf(m)), Rank[m] = k
               PROVE  \E j \in 1 .. 7 : j > k /\ WaitsAt(j)
    OBVIOUS
  <2>1. PICK u \in S : m \in held[u]
    <3>1. PICK u \in S : WaitsFor(t, u)
      OBVIOUS
    <3>2. PICK n \in held[u] : At(t, LockOf(n))
      BY <3>1 DEF WaitsFor
    <3>3. n = m
      BY <3>2 DEF At, LockOf
    <3> QED
      BY <3>3
  <2>2. PICK v \in S : WaitsFor(u, v)
    OBVIOUS
  <2>3. PICK l \in held[v] : At(u, LockOf(l))
    BY <2>2 DEF WaitsFor
  <2>4. l \in Mutexes /\ Below(held[u], l)
    BY <1>1, <2>3, WaitsAbove
  <2>5. Rank[l] > k /\ Rank[l] \in 1 .. 7
    BY <2>1, <2>4, RankRange DEF Below
  <2> QED
    BY <2>3, <2>4, <2>5
<1>3. \A k \in 1 .. 7 : ~WaitsAt(k)
  <2> HIDE DEF WaitsAt
  <2>7. ~WaitsAt(7)
    BY <1>2
  <2>6. ~WaitsAt(6)
    BY <1>2, <2>7
  <2>5. ~WaitsAt(5)
    BY <1>2, <2>7, <2>6
  <2>4. ~WaitsAt(4)
    BY <1>2, <2>7, <2>6, <2>5
  <2>3. ~WaitsAt(3)
    BY <1>2, <2>7, <2>6, <2>5, <2>4
  <2>2. ~WaitsAt(2)
    BY <1>2, <2>7, <2>6, <2>5, <2>4, <2>3
  <2>1. ~WaitsAt(1)
    BY <1>2, <2>7, <2>6, <2>5, <2>4, <2>3, <2>2
  <2> QED
    BY <2>1, <2>2, <2>3, <2>4, <2>5, <2>6, <2>7
<1>4. ASSUME NEW t \in S
      PROVE  FALSE
  <2>1. PICK u \in S : WaitsFor(t, u)
    OBVIOUS
  <2>2. PICK m \in held[u] : At(t, LockOf(m))
    BY <2>1 DEF WaitsFor
  <2>3. m \in Mutexes /\ Rank[m] \in 1 .. 7
    BY <1>1, <2>2, RankRange
  <2> QED
    BY <1>3, <2>2, <2>3
<1> QED
  BY <1>4

\* There is no deadlock among the threads of a node.
THEOREM NoDeadlock == Spec => []NoCircularWait
BY NoCircle, AlwaysIInv, PTL
=============================================================================
