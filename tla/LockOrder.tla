----------------------------- MODULE LockOrder -----------------------------
(***************************************************************************)
(* The mutexes of a node and the order in which its threads take them:     *)
(* client/client.cpp, client/PeerManager.cpp, client/Temporizable,         *)
(* common/udp.cpp and common/Scheduler.                                    *)
(*                                                                         *)
(* A path is a sequence of mutexes locked and unlocked and of waits for    *)
(* something that is not in the node: a datagram, the player, the          *)
(* bootstrap, a refill.  A section is the set of the paths through a piece *)
(* of code; a function is a sequence of sections, as one of its paths does *)
(* not hang on another's.  A loop appears as none or one of its rounds.    *)
(* The mutexes are not recursive: locking one twice waits for ever.        *)
(***************************************************************************)
EXTENDS Naturals, Sequences, FiniteSets

CONSTANTS
  Threads,
  Role,    \* what each thread runs
  MaxBusy  \* bound: how many threads are at work at a time

Roles == {"UDPStart", "UDPReceive", "UDPSend", "Ping", "CyclicTimers", "MontarListaPedidos",
          "ConsomeMedia", "GerarDados"}

ASSUME ThreadsAssumption == Role \in [Threads -> Roles] /\ MaxBusy \in Nat

OutLists == {"Out", "OutFREE"}
Lists == {"In"} \cup OutLists \* their peerActiveMutex

Mutexes ==
  {"requestList", "oldRequestList", "peerList", "bufferMap",
   "emptyReceiveBuff", "emptySendBuff", "lowLeakyBucket", "leakyBucket",
   "sendQueue", "sendRequestQueue", "receiveQueue", "receiveRequestQueue"} \cup Lists

(***************************************************************************)
(* Paths.                                                                  *)
(***************************************************************************)
LockOf(m) == [do |-> "lock", on |-> m]
UnlockOf(m) == [do |-> "unlock", on |-> m]
WaitStep == [do |-> "wait", on |-> "outside"]

Steps == {LockOf(m) : m \in Mutexes} \cup {UnlockOf(m) : m \in Mutexes} \cup {WaitStep}

A ** B == {p \o q : p \in A, q \in B}
Skip == {<<>>}
Maybe(A) == Skip \cup A
Lock(m) == {<<LockOf(m)>>}
Unlock(m) == {<<UnlockOf(m)>>}
Wait == {<<WaitStep>>}
Under(m, A) == Lock(m) ** A ** Unlock(m)
Only(m) == Under(m, Skip)

(***************************************************************************)
(* The queues and the bucket.  Only CDF has a second queue, for requests.  *)
(***************************************************************************)
GetSize(queue, requests) == Only(queue) ** Only(requests)
Pop(queue, requests) == Maybe(Only(queue) \cup Only(requests))

\* Without a scheduler the message is sent at once, asynchronously.
EnqueueSend == Maybe(Only("sendQueue"))
EnqueueRequest == EnqueueSend \cup Only("sendRequestQueue")

GetNextMessage(empty, queue, requests) ==
  Under(empty, GetSize(queue, requests)
                 ** Maybe(Unlock(empty) ** Wait ** Lock(empty)) ** Pop(queue, requests))

DecToken ==
  Under("lowLeakyBucket",
        Only("leakyBucket") ** Maybe(Unlock("lowLeakyBucket") ** Wait ** Lock("lowLeakyBucket")))

IncToken == Only("leakyBucket")

(***************************************************************************)
(* PeerManager, Connector and Disconnector.                                *)
(***************************************************************************)
AddPeer == Only("peerList")
RemovePeer == Only("peerList")
Inc_peerSentChunks == Only("peerList")
IsPeerActive(list) == Only(list)
ConnectPeer(list) == Maybe(Only(list))
DisconnectPeer(list) == Only(list)
GetPeerActiveSize(list) == Only(list)
GetPeerActiveSize_OPENED(list) == Skip
SetNewMMaxActivePeersOut(list) == Maybe(Under("peerList", Only(list)))

ScanOutFirst == Under("Out", Under("OutFREE", Only("In"))) \* mutant
Scan ==
  Lock("In") ** Lock("Out") ** Lock("OutFREE")
    ** Unlock("In") ** Unlock("Out") ** Unlock("OutFREE")

CheckPeerList ==
  << Scan, Maybe(DisconnectPeer("In")), Maybe(DisconnectPeer("Out")),
     Maybe(DisconnectPeer("OutFREE")), Maybe(RemovePeer) >>

GetPeerActiveSizeTotal ==
  Lock("In") ** Only("Out") ** Lock("OutFREE") ** Unlock("In") ** Unlock("OutFREE")

ShowPeerList ==
  << Only("In"), Only("Out"), Only("OutFREE"), GetPeerActiveSize("In"),
     GetPeerActiveSizeTotal, Only("peerList") >>

Connect ==
  Under("peerList", Maybe(IsPeerActive("In")) ** GetPeerActiveSize("In") ** Maybe(ConnectPeer("In")))

Disconnect(list) == Under("peerList", Maybe(DisconnectPeer(list)))

(***************************************************************************)
(* Messages.                                                               *)
(***************************************************************************)
HandlePingMessageIn ==
  LET begin == <<AddPeer, IsPeerActive("In")>>
  IN { begin \o <<ConnectPeer("In"), GetPeerActiveSize("In")>>,
       begin \o <<ConnectPeer("In"), Only("peerList"), Maybe(Under("peerList", IsPeerActive("In")))>> }

HandlePingMessageOut(list) ==
  << AddPeer,
     Under("peerList",
           IsPeerActive(list) ** Maybe(ConnectPeer(list) ** Maybe(GetPeerActiveSize(list)))) >>

HandleRequestMessage ==
  <<IsPeerActive("Out"), Maybe(IsPeerActive("OutFREE")), EnqueueSend>>

\* An answered request moves to oldRequestList, whose mutex is taken before that of
\* requestList is released.
AnswerRequest ==
  Lock("requestList") ** Lock("oldRequestList") ** Unlock("requestList")
    ** Only("peerList") ** Unlock("oldRequestList")

HandleDataMessage ==
  << Under("peerList", IsPeerActive("In")),
     Maybe(Only("oldRequestList")) \cup Only("requestList") \cup AnswerRequest \cup EnqueueSend >>

HandlePeerlistMessage ==
  <<SetNewMMaxActivePeersOut("Out"), SetNewMMaxActivePeersOut("OutFREE"), Maybe(AddPeer), Connect>>

ConnectToBootstrap == {<<Wait>>, <<Wait>> \o HandlePeerlistMessage}

(***************************************************************************)
(* Chunks.                                                                 *)
(***************************************************************************)
CriaRequest == Under("peerList", Only("In"))

ColocarNaListaDePedidos ==
  {<<CriaRequest>>, <<CriaRequest, Only("requestList"), Only("bufferMap")>>}

FazPedidos ==
  << Under("requestList", Maybe(Only("oldRequestList"))),
     Under("requestList", Maybe(Under("peerList", Under("In", EnqueueRequest)))) >>

WriteUnderLock == <<Under("oldRequestList", Maybe(Wait))>> \* mutant
PlayMedia == <<Maybe(Wait), Only("oldRequestList")>>
MissChunk == <<Maybe(Only("oldRequestList")), Only("oldRequestList")>>

(***************************************************************************)
(* The Ping thread.                                                        *)
(***************************************************************************)
PeerlistLogOf(size(_)) ==
  Lock("peerList") ** Lock("In") ** Lock("Out") ** Lock("OutFREE")
    ** size("Out") ** size("OutFREE") ** size("In")
    ** Unlock("In") ** Unlock("Out") ** Unlock("OutFREE") ** Unlock("peerList")

SizesLockAgain == PeerlistLogOf(GetPeerActiveSize) \* mutant
PeerlistLog == PeerlistLogOf(GetPeerActiveSize_OPENED)

Report ==
  <<GetPeerActiveSize("In"), GetPeerActiveSize("Out"), GetPeerActiveSize("OutFREE"), PeerlistLog>>

PingIn == <<GetPeerActiveSize("In"), Maybe(Under("peerList", Under("In", EnqueueSend)))>>

PingOut(list) ==
  << GetPeerActiveSize(list), Maybe(Only("bufferMap")),
     Maybe(Under("peerList", Under(list, EnqueueSend))) >>

(***************************************************************************)
(* What the threads do, over and over.                                     *)
(***************************************************************************)
Handle_recv == {<<Only("receiveQueue")>>, <<Only("receiveRequestQueue")>>}

UDPReceive ==
  {<<GetNextMessage("emptyReceiveBuff", "receiveQueue", "receiveRequestQueue")>>}
    \cup HandlePingMessageIn \cup {HandlePingMessageOut(list) : list \in OutLists}
    \cup {HandleRequestMessage, HandleDataMessage}

UDPSend ==
  { <<GetNextMessage("emptySendBuff", "sendQueue", "sendRequestQueue")>>,
    <<DecToken>>, <<Inc_peerSentChunks>> }

CyclicTimers ==
  {<<Disconnect("In")>>, <<Disconnect("Out")>>, <<Connect>>, <<IncToken>>, CheckPeerList, ShowPeerList}
    \cup ConnectToBootstrap

Ping ==
  LET pings == <<EnqueueSend>> \o PingIn \o PingOut("Out") \o PingOut("OutFREE") \o <<EnqueueSend>>
  IN {pings, Report \o pings}

MontarListaPedidos == {request \o FazPedidos : request \in ColocarNaListaDePedidos}
ConsomeMedia == {<<Wait>>, PlayMedia, MissChunk}
GerarDados == {<<Wait, Only("bufferMap")>>}

Work(role) ==
  CASE role = "UDPStart" -> Handle_recv
    [] role = "UDPReceive" -> UDPReceive
    [] role = "UDPSend" -> UDPSend
    [] role = "CyclicTimers" -> CyclicTimers
    [] role = "Ping" -> Ping
    [] role = "MontarListaPedidos" -> MontarListaPedidos
    [] role = "ConsomeMedia" -> ConsomeMedia
    [] role = "GerarDados" -> GerarDados

(***************************************************************************)
(* The threads.                                                            *)
(***************************************************************************)
VARIABLES
  todo, \* the sections that each thread has before it
  rest, \* what is left of the path it is on
  held  \* the mutexes it holds

vars == <<todo, rest, held>>

Idle(t) == todo[t] = <<>> /\ rest[t] = <<>>
At(t, step) == rest[t] # <<>> /\ Head(rest[t]) = step
NeverBusy(m) == TRUE \* mutant
Free(m) == \A t \in Threads : m \notin held[t]
Advance(t) == rest' = [rest EXCEPT ![t] = Tail(@)] /\ UNCHANGED todo

Begin(t) ==
  /\ Idle(t)
  /\ Cardinality({u \in Threads : ~Idle(u)}) < MaxBusy
  /\ \E sections \in Work(Role[t]) : todo' = [todo EXCEPT ![t] = sections]
  /\ UNCHANGED <<rest, held>>

Enter(t) ==
  /\ rest[t] = <<>> /\ todo[t] # <<>>
  /\ \E path \in Head(todo[t]) : rest' = [rest EXCEPT ![t] = path]
  /\ todo' = [todo EXCEPT ![t] = Tail(@)]
  /\ UNCHANGED held

Acquire(t) ==
  \E m \in Mutexes :
    /\ At(t, LockOf(m)) /\ Free(m)
    /\ held' = [held EXCEPT ![t] = @ \cup {m}]
    /\ Advance(t)

Release(t) ==
  \E m \in Mutexes :
    /\ At(t, UnlockOf(m))
    /\ held' = [held EXCEPT ![t] = @ \ {m}]
    /\ Advance(t)

EndWait(t) ==
  /\ At(t, WaitStep)
  /\ Advance(t)
  /\ UNCHANGED held

Init ==
  /\ todo = [t \in Threads |-> <<>>]
  /\ rest = [t \in Threads |-> <<>>]
  /\ held = [t \in Threads |-> {}]

Next == \E t \in Threads : Begin(t) \/ Enter(t) \/ Acquire(t) \/ Release(t) \/ EndWait(t)

Spec == Init /\ [][Next]_vars

\* A thread that can go on does so, and one that asks for a mutex gets it if it is
\* free again and again.  What a thread waits for may never come.
Step(t) == Enter(t) \/ Acquire(t) \/ Release(t)
Fairness == \A t \in Threads : SF_vars(Step(t))

LiveSpec == Spec /\ Fairness

(***************************************************************************)
(* Properties.                                                             *)
(***************************************************************************)
\* A thread that is in a handler comes to its end, or to a wait for something
\* outside, even if others wait there for ever: a silent bootstrap or a player that
\* does not read stops one thread only.
NobodyIsHeldUp == \A t \in Threads : ~Idle(t) ~> (Idle(t) \/ At(t, WaitStep))

\* The type invariant.  A mutex has one owner.
TypeOK ==
  /\ todo \in [Threads -> Seq(SUBSET Seq(Steps))]
  /\ rest \in [Threads -> Seq(Steps)]
  /\ held \in [Threads -> SUBSET Mutexes]
  /\ \A t, u \in Threads : t # u => held[t] \cap held[u] = {}

\* t needs a mutex that u holds.
WaitsFor(t, u) == \E m \in held[u] : At(t, LockOf(m))

\* No set of threads waits for itself, whoever is in which handler: no two of them
\* lock the same mutexes in opposite orders, and none locks one that it
\* already holds through a function it calls.
NoCircularWait ==
  \A S \in SUBSET {t \in Threads : rest[t] # <<>>} :
    (\A t \in S : \E u \in S : WaitsFor(t, u)) => S = {}

\* What is outside of the node may take its time: a thread that waits for it, or has
\* left a section by whichever branch and early return, has released everything.
NothingHeldOutside ==
  \A t \in Threads : rest[t] = <<>> \/ At(t, WaitStep) => held[t] = {}
=============================================================================
