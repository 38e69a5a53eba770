---------------------------- MODULE PeerManager ----------------------------
(***************************************************************************)
(* The partner bookkeeping of one TVPP client: client/PeerManager.cpp with *)
(* the code that drives it (the ping and peer-list handlers of             *)
(* client/client.cpp, Connector.cpp, Disconnector.cpp).                    *)
(*                                                                         *)
(* Two threads change it: R, the UDPReceive thread that handles the pings, *)
(* and T, the CyclicTimers thread that runs CheckPeerList once a second    *)
(* and the timers: connector, disconnector and PeerRequester, which asks   *)
(* the bootstrap over TCP and handles its answer.  The UDPSend thread only *)
(* counts chunks.  A step of this model is a stretch of code that no other *)
(* thread can observe half done: a critical section, or one unlocked read  *)
(* or write of a shared container.                                         *)
(*                                                                         *)
(* peerList is an std::map: reading peerList[p] of an absent key inserts a *)
(* PeerData whose Peer pointer is NULL (PeerData.hpp:28).  nullPeer holds  *)
(* those keys; dereferencing such a pointer stops the process (Crash).     *)
(***************************************************************************)
EXTENDS Integers, FiniteSets

CONSTANTS
  Peers,                  \* ids of the other clients that may contact us
  NoPeer,                 \* no peer is being handled
  DefaultTTL,             \* TTLIn and TTLOut of common/Defines.hpp
  TTLMaxIn, TTLMaxOut,    \* TTL_MAX_In and TTL_MAX_Out of the client
  Cooldown,               \* PEER_ACTIVE_COOLDOWN
  MaxIn, MaxOut, MaxFree, \* the configured sizes of the three active lists
  SeparatedFree,          \* XPConfig "separatedFreeOutList"
  OutLimit,               \* outLimitToSeparateFree
  RemoveWorse,            \* XPConfig "removeWorsePartner"
  WithDisconnector,       \* disconnectorStrategy /= "None"
  ConnectorStrategy,      \* "Random", "WithoutPoor" or "WithoutPoorFREE"
  MinimalBandwidth,       \* minimalBandwidthToBeMyIN
  OutSizes,               \* <<out, out FREE>> sizes a ping may announce
  PingLists,              \* which pings arrive: "In" (chunk map), "Out" (live)
  NewMaxes,               \* list sizes a bootstrap answer may carry
  MaxShare,               \* bound: peers in one bootstrap answer
  MaxSent,                \* bound: chunks counted per peer
  TTLFloor                \* bound: the TTL is not decremented below it

Lists == {"In", "Out", "Free"}
OutLists == {"Out", "Free"}
Threads == {"R", "T"}

ASSUME PeersAssumption == IsFiniteSet(Peers) /\ NoPeer \notin Peers
ASSUME TTLAssumption ==
  /\ DefaultTTL \in Int /\ DefaultTTL > 0
  /\ TTLMaxIn \in Int /\ TTLMaxIn > 0
  /\ TTLMaxOut \in Int /\ TTLMaxOut > 0
  /\ TTLFloor \in Int /\ TTLFloor < 0
ASSUME SizesAssumption ==
  /\ MaxIn \in Nat /\ MaxOut \in Nat /\ MaxFree \in Nat
  /\ Cooldown \in Nat \ {0} /\ MaxSent \in Nat /\ MaxShare \in Nat
  /\ NewMaxes \subseteq Int /\ OutSizes \subseteq Nat \X Nat
  /\ OutLimit \in Nat /\ MinimalBandwidth \in Nat
ASSUME ConfigAssumption ==
  /\ SeparatedFree \in BOOLEAN /\ RemoveWorse \in BOOLEAN
  /\ WithDisconnector \in BOOLEAN
  /\ ConnectorStrategy \in {"Random", "WithoutPoor", "WithoutPoorFREE"}
  /\ PingLists \subseteq {"In", "Out"}

VARIABLES
  peerList,           \* the keys of peerList
  nullPeer,           \* the keys of peerList whose Peer pointer is NULL
  ttl,                \* ttlIn, ttlOut, ttlout_free of every entry
  informed,           \* SizePeerListOutInformed and _FREE of every entry
  sent,               \* peerSentChunks of every entry
  peerActive,         \* peerActiveIn, peerActiveOut, peerActiveOutFREE
  cooldown,           \* the three cooldown maps; 0 is an absent key
  maxActive,          \* maxActivePeersIn, ...Out, ...OutFREE
  removeWorsePartner,
  peerListMutex,      \* the thread that holds it, or "free"
  activeMutex,        \* "T" while CheckPeerList holds the three active mutexes
  pc,                 \* where each thread is
  peer, list,         \* the arguments of each thread's ConnectPeer
  todo,               \* T: the peers of an answer, or the connector's candidates
  newMax,             \* T: the list sizes of the bootstrap answer
  drop, dele          \* T: desconectaPeerIn/Out/OutFREE and deletaPeer

book == <<peerList, nullPeer, ttl, informed, sent>>
partners == <<peerActive, cooldown, maxActive, removeWorsePartner>>
locks == <<peerListMutex, activeMutex>>
args == <<peer, list>>
work == <<todo, newMax, drop, dele>>
locals == <<args, work>>
vars == <<book, partners, locks, pc, locals>>

(***************************************************************************)
(* Helpers.                                                                *)
(***************************************************************************)
Goto(th, where) == pc' = [pc EXCEPT ![th] = where]

Call(th, p, L) ==
  /\ peer' = [peer EXCEPT ![th] = p]
  /\ list' = [list EXCEPT ![th] = L]

Return(th) == Goto(th, "idle") /\ Call(th, NoPeer, "In")

\* GetPeerActiveOut(separatedFree, peerOut)
GetPeerActiveOut(out) == IF SeparatedFree /\ OutLimit >= out THEN "Free" ELSE "Out"

\* peerList[p] for the peers of S: an absent entry is created, without a Peer.
Touch(S) ==
  /\ peerList' = peerList \cup S
  /\ nullPeer' = nullPeer \cup (S \ peerList)

\* The PeerData that peerList[p] yields has no Peer: GetPeer()->... crashes.
HasPeer(p) == p \in peerList \ nullPeer

Crash ==
  /\ pc' = [th \in Threads |-> "crashed"]
  /\ UNCHANGED <<book, partners, locks, locals>>

Crashed == pc["R"] = "crashed"

Acquire(th) == peerListMutex = "free" /\ peerListMutex' = th
Release(th) ==
  peerListMutex' = IF peerListMutex = th THEN "free" ELSE peerListMutex

(***************************************************************************)
(* PeerManager::AddPeer, one critical section of peerListMutex.  A known   *)
(* entry's out size is refreshed only when the message carries one; its    *)
(* FREE size is overwritten in every case.                                 *)
(***************************************************************************)
AddPeerAnew(p, out, free) == \* mutant
  /\ peerListMutex = "free"
  /\ peerList' = peerList \cup {p}
  /\ ttl' = [L \in Lists |-> [ttl[L] EXCEPT ![p] = DefaultTTL]]
  /\ informed' = [informed EXCEPT !["Out"][p] = out, !["Free"][p] = free]
  /\ UNCHANGED <<nullPeer, sent>>

AddPeer(p, out, free) ==
  /\ peerListMutex = "free"
  /\ peerList' = peerList \cup {p}
  /\ informed' = [informed EXCEPT
                    !["Out"][p] = IF p \notin peerList \/ out >= 0 THEN out ELSE @,
                    !["Free"][p] = free]
  /\ UNCHANGED <<nullPeer, ttl, sent>>

\* ... which writes through the Peer pointer of a known entry.
AddPeerCrashes(p) == peerListMutex = "free" /\ p \in nullPeer /\ Crash

(***************************************************************************)
(* The UDPReceive thread handles a ping of p.  HandlePingMessageIn does    *)
(* not hold peerListMutex while it tests and connects;                     *)
(* HandlePingMessageOut holds it from its test to its end.                 *)
(***************************************************************************)
ReceivePing(p, kind, sizes) ==
  /\ pc["R"] = "idle"
  /\ kind \in PingLists
  /\ \/ AddPeerCrashes(p)
     \/ /\ p \notin nullPeer
        /\ AddPeer(p, sizes[1], sizes[2])
        /\ Goto("R", IF kind = "In" THEN "test" ELSE "lock")
        /\ Call("R", p, IF kind = "In" THEN "In" ELSE GetPeerActiveOut(sizes[1]))
        /\ UNCHANGED <<partners, locks, work>>

LockForOutPing ==
  /\ pc["R"] = "lock"
  /\ Acquire("R")
  /\ Goto("R", "test")
  /\ UNCHANGED <<book, partners, activeMutex, locals>>

\* IsPeerActive
TestActive ==
  /\ pc["R"] = "test"
  /\ activeMutex = "free"
  /\ Goto("R", IF peer["R"] \in peerActive[list["R"]] THEN "refresh" ELSE "check")
  /\ UNCHANGED <<book, partners, locks, locals>>

(***************************************************************************)
(* PeerManager::ConnectPeer(peer[th], list[th]).  The cooldown map is      *)
(* looked up before the mutex of the list is taken.                        *)
(***************************************************************************)
\* R connects the sender of a ping, T the candidates of the connector.
ConnectFailed(th) == Goto(th, IF th = "T" THEN "pick" ELSE "leave")

CheckCooldown(th) ==
  /\ pc[th] = "check"
  /\ \/ /\ cooldown[list[th]][peer[th]] = 0
        /\ Goto(th, "insert")
     \/ /\ cooldown[list[th]][peer[th]] # 0
        /\ ConnectFailed(th)
  /\ UNCHANGED <<book, partners, locks, locals>>

\* p enters list L, whose content becomes S.  Whose TTL is set is decided by
\* comparing the contents of the sets, not the sets themselves.
Enter(th, p, L, S) ==
  LET newActive == [peerActive EXCEPT ![L] = S]
      clock == IF S = newActive["In"] THEN "In" ELSE L
  IN /\ peerActive' = newActive
     /\ ttl' = [ttl EXCEPT ![clock][p] = DefaultTTL]
     /\ Touch({p})
     /\ Goto(th, IF th = "T" THEN "pick" ELSE "refresh")
     /\ UNCHANGED <<informed, sent, cooldown, maxActive, locks, locals>>

IsFull(L) == Cardinality(peerActive[L]) >= maxActive[L]

\* ConnectSpecial compares the sizes of the FREE list whenever list L has the
\* same content as that list.
SizeUsed(L) == IF peerActive[L] = peerActive["Free"] THEN "Free" ELSE "Out"

Smallest(L) ==
  {v \in peerActive[L] : \A w \in peerActive[L] :
     informed[SizeUsed(L)][v] <= informed[SizeUsed(L)][w]}

MayReplace(L) ==
  IsFull(L) /\ L # "In" /\ removeWorsePartner /\ peerActive[L] # {}

Worse(v, p, L) ==
  v \in Smallest(L) /\ informed[SizeUsed(L)][v] < informed[SizeUsed(L)][p]

ConnectSpecial(th, p, L) ==
  /\ MayReplace(L)
  /\ \/ /\ \E v \in peerActive[L] \cup {p} : ~HasPeer(v)
        /\ Crash
     \/ /\ \A v \in peerActive[L] \cup {p} : HasPeer(v)
        /\ \E v \in peerActive[L] :
             /\ Worse(v, p, L)
             /\ Enter(th, p, L, (peerActive[L] \ {v}) \cup {p})
             /\ removeWorsePartner' = FALSE

ConnectPeer(th) ==
  LET p == peer[th]
      L == list[th]
      replaces == MayReplace(L) /\ (\/ \E v \in peerActive[L] \cup {p} : ~HasPeer(v)
                                    \/ \E v \in peerActive[L] : Worse(v, p, L))
  IN /\ pc[th] = "insert"
     /\ activeMutex = "free"
     /\ \/ /\ ~IsFull(L) /\ p \notin peerActive[L]
           /\ Enter(th, p, L, peerActive[L] \cup {p})
           /\ UNCHANGED removeWorsePartner
        \/ ConnectSpecial(th, p, L)
        \/ /\ IF IsFull(L) THEN ~replaces ELSE p \in peerActive[L]
           /\ ConnectFailed(th)
           /\ UNCHANGED <<book, partners, locks, locals>>

\* SetTTLIn(TTL_MAX_In) or SetTTLOut(TTL_MAX_Out) of the sender's PeerData.
\* CheckPeerList decrements TTLs without peerListMutex: while it does, the
\* value written here may be overwritten by the decrement of the old one.
RefreshTTL ==
  LET p == peer["R"]
      L == list["R"]
      max == IF L = "In" THEN TTLMaxIn ELSE TTLMaxOut
  IN /\ pc["R"] = "refresh"
     /\ peerListMutex = IF L = "In" THEN "free" ELSE "R"
     /\ peerListMutex' = "free"
     /\ Touch({p})
     /\ \/ ttl' = [ttl EXCEPT ![L][p] = max]
        \/ activeMutex = "T" /\ p \in peerActive[L] /\ UNCHANGED ttl
     /\ IF L = "In" THEN Goto("R", "chunkMap") /\ UNCHANGED args ELSE Return("R")
     /\ UNCHANGED <<informed, sent, partners, activeMutex, work>>

\* The chunk map of an In partner is stored in its PeerData.
StoreChunkMap ==
  /\ pc["R"] = "chunkMap"
  /\ peerListMutex = "free" /\ activeMutex = "free"
  /\ Touch(IF peer["R"] \in peerActive["In"] THEN {peer["R"]} ELSE {})
  /\ Return("R")
  /\ UNCHANGED <<ttl, informed, sent, partners, locks, work>>

\* The handler could not connect the sender and returns.
LeaveHandler ==
  /\ pc["R"] = "leave"
  /\ Release("R")
  /\ Return("R")
  /\ UNCHANGED <<book, partners, activeMutex, work>>

(***************************************************************************)
(* The PeerRequester timer asks the bootstrap and handles its answer: it   *)
(* sets the sizes of the two out lists, adds the peers it names and runs   *)
(* the connector.                                                          *)
(***************************************************************************)
ReceivePeerlist(out, free, S) ==
  /\ pc["T"] = "idle"
  /\ newMax' = [L \in OutLists |-> IF L = "Out" THEN out ELSE free]
  /\ todo' = S
  /\ Goto("T", "setMax")
  /\ Call("T", NoPeer, "Out")
  /\ UNCHANGED <<book, partners, locks, drop, dele>>

NextList == IF list["T"] = "Out"
            THEN Goto("T", "setMax") /\ Call("T", NoPeer, "Free")
            ELSE Goto("T", "addPeers") /\ Call("T", NoPeer, "In")

\* SetNewMMaxActivePeersOut writes the new size before it takes any mutex, and
\* trims the list when the size shrank.
SetNewMax ==
  LET L == list["T"]  n == newMax[L] IN
  /\ pc["T"] = "setMax"
  /\ \/ n < 0 /\ NextList /\ UNCHANGED maxActive
     \/ n >= maxActive[L] /\ NextList /\ maxActive' = [maxActive EXCEPT ![L] = n]
     \/ /\ n \in 0 .. (maxActive[L] - 1)
        /\ maxActive' = [maxActive EXCEPT ![L] = n]
        /\ Goto("T", "trim")
        /\ UNCHANGED args
  /\ UNCHANGED <<book, peerActive, cooldown, removeWorsePartner, locks, work>>

MostServedKeepsAll(L, S) == S = peerActive[L] \* mutant

\* The newMax[L] partners we sent most chunks to stay.
MostServed(L, S) ==
  /\ S \subseteq peerActive[L]
  /\ Cardinality(S) =
       IF IsFull(L) THEN maxActive[L] ELSE Cardinality(peerActive[L])
  /\ \A p \in S, q \in peerActive[L] \ S : sent[p] >= sent[q]

Trim ==
  LET L == list["T"] IN
  /\ pc["T"] = "trim"
  /\ peerListMutex = "free" /\ activeMutex = "free"
  /\ \/ /\ \E p \in peerActive[L] : ~HasPeer(p)
        /\ Crash
     \/ /\ \A p \in peerActive[L] : HasPeer(p)
        /\ \E S \in SUBSET peerActive[L] :
             MostServed(L, S) /\ peerActive' = [peerActive EXCEPT ![L] = S]
        /\ NextList
        /\ UNCHANGED <<book, cooldown, maxActive, removeWorsePartner, locks, work>>

\* A peer of the answer is added; it carries no out sizes (-1).
AddListedPeer ==
  /\ pc["T"] = "addPeers"
  /\ \E p \in todo :
       \/ AddPeerCrashes(p)
       \/ /\ p \notin nullPeer
          /\ AddPeer(p, -1, -1)
          /\ todo' = todo \ {p}
          /\ UNCHANGED <<partners, locks, pc, args, newMax, drop, dele>>

(***************************************************************************)
(* Connector::Connect, under peerListMutex: at the end of a bootstrap      *)
(* answer and by the connector's own timer.  The strategies that look at   *)
(* the announced sizes dereference every candidate's Peer.                 *)
(***************************************************************************)
Candidates == peerList \ peerActive["In"]

Suits(p) ==
  CASE ConnectorStrategy = "Random" -> TRUE
    [] ConnectorStrategy = "WithoutPoor" ->
         informed["Out"][p] >= MinimalBandwidth \/ informed["Out"][p] < 0
    [] OTHER ->
         informed["Free"][p] >= MinimalBandwidth \/ informed["Out"][p] < 0

StartConnector ==
  /\ pc["T"] = "idle" \/ (pc["T"] = "addPeers" /\ todo = {})
  /\ activeMutex = "free"
  /\ \/ /\ ConnectorStrategy # "Random"
        /\ Candidates \cap nullPeer # {}
        /\ peerListMutex = "free" /\ Crash
     \/ /\ ConnectorStrategy = "Random" \/ Candidates \cap nullPeer = {}
        /\ Acquire("T")
        /\ todo' = {p \in Candidates : Suits(p)}
        /\ Goto("T", "count")
        /\ UNCHANGED <<book, partners, activeMutex, args, newMax, drop, dele>>

\* As many of them, in random order, as the In list has places left.
CountVacancies ==
  LET vacancies == maxActive["In"] - Cardinality(peerActive["In"])
      suited == Cardinality(todo)
  IN /\ pc["T"] = "count"
     /\ activeMutex = "free"
     /\ \E S \in SUBSET todo :
          /\ Cardinality(S) = IF vacancies < suited THEN vacancies ELSE suited
          /\ todo' = S
     /\ Goto("T", "pick")
     /\ UNCHANGED <<book, partners, locks, args, newMax, drop, dele>>

PickCandidate ==
  /\ pc["T"] = "pick"
  /\ \E p \in todo :
       \/ p \in nullPeer /\ Crash
       \/ /\ p \notin nullPeer
          /\ todo' = todo \ {p}
          /\ Goto("T", "check")
          /\ Call("T", p, "In")
          /\ UNCHANGED <<book, partners, locks, newMax, drop, dele>>

EndConnector ==
  /\ pc["T"] = "pick" /\ todo = {}
  /\ Release("T")
  /\ Return("T")
  /\ UNCHANGED <<book, partners, activeMutex, work>>

(***************************************************************************)
(* The CyclicTimers thread: CheckPeerList.  It decides under the three     *)
(* active mutexes, without peerListMutex, and releases them before it      *)
(* disconnects and removes anyone.                                         *)
(***************************************************************************)
BeginCheck ==
  /\ pc["T"] = "idle"
  /\ activeMutex = "free"
  /\ activeMutex' = "T"
  /\ Goto("T", "scan")
  /\ UNCHANGED <<book, partners, peerListMutex, locals>>

DecrementedNever(v) == v \* mutant
Decremented(v) == IF v > TTLFloor THEN v - 1 ELSE v

ExpiredLate(v) == v < 0 \* mutant
Expired(v) == v <= 0

AllActive == UNION {peerActive[L] : L \in Lists}

Scan ==
  LET ttl1 == [L \in Lists |-> [p \in Peers |->
                 IF p \in peerActive[L] THEN Decremented(ttl[L][p]) ELSE ttl[L][p]]]
      expired == [L \in Lists |-> {p \in peerActive[L] : Expired(ttl1[L][p])}]
  IN /\ pc["T"] = "scan"
     /\ Touch(AllActive)
     /\ ttl' = ttl1
     /\ drop' = expired
     /\ dele' = {p \in AllActive : \A L \in Lists : p \notin peerActive[L] \ expired[L]}
     /\ activeMutex' = "free"
     /\ Goto("T", "drop")
     /\ UNCHANGED <<informed, sent, partners, peerListMutex, args, todo, newMax>>

\* DisconnectPeer: the list changes under its mutex, the cooldown after it.
Disconnect(p, L) ==
  /\ activeMutex = "free"
  /\ peerActive' = [peerActive EXCEPT ![L] = @ \ {p}]
  /\ Call("T", p, L)

\* First desconectaPeerIn, then ...Out, then ...OutFREE.
DropExpired ==
  /\ pc["T"] = "drop"
  /\ \E L \in Lists :
       /\ L = "Out" => drop["In"] = {}
       /\ L = "Free" => drop["In"] \cup drop["Out"] = {}
       /\ \E p \in drop[L] :
            /\ Disconnect(p, L)
            /\ drop' = [drop EXCEPT ![L] = @ \ {p}]
  /\ Goto("T", "cool")
  /\ UNCHANGED <<book, cooldown, maxActive, removeWorsePartner, locks, todo, newMax,
                 dele>>

StartCooldown ==
  /\ pc["T"] = "cool"
  /\ cooldown' = [cooldown EXCEPT ![list["T"]][peer["T"]] = Cooldown]
  /\ Release("T")
  /\ Call("T", NoPeer, "In")
  /\ Goto("T", IF peerListMutex = "T" THEN "idle" ELSE "drop")
  /\ UNCHANGED <<book, peerActive, maxActive, removeWorsePartner, activeMutex, work>>

\* RemovePeer
RemovePeer ==
  /\ pc["T"] = "drop" /\ \A L \in Lists : drop[L] = {}
  /\ peerListMutex = "free"
  /\ \E p \in dele :
       /\ peerList' = peerList \ {p}
       /\ nullPeer' = nullPeer \ {p}
       /\ ttl' = [L \in Lists |-> [ttl[L] EXCEPT ![p] = DefaultTTL]]
       /\ informed' = [L \in OutLists |-> [informed[L] EXCEPT ![p] = -1]]
       /\ sent' = [sent EXCEPT ![p] = 0]
       /\ dele' = dele \ {p}
  /\ UNCHANGED <<partners, locks, pc, args, todo, newMax, drop>>

\* CheckpeerActiveCooldown on the three cooldown maps
CooledDownUntested(n) == n - 1 \* mutant
CooledDown(n) == IF n > 0 THEN n - 1 ELSE 0

EndCheck ==
  /\ pc["T"] = "drop" /\ \A L \in Lists : drop[L] = {}
  /\ dele = {}
  /\ cooldown' = [L \in Lists |-> [p \in Peers |-> CooledDown(cooldown[L][p])]]
  /\ Goto("T", "idle")
  /\ UNCHANGED <<book, peerActive, maxActive, removeWorsePartner, locks, locals>>

(***************************************************************************)
(* The other timers of the CyclicTimers thread.                            *)
(***************************************************************************)
\* Disconnector::Disconnect: one partner chosen at random, whatever its TTL.
\* It walks the list without its mutex, under peerListMutex.
TimerDisconnect(L) ==
  /\ WithDisconnector /\ L \in {"In", "Out"}
  /\ pc["T"] = "idle"
  /\ peerListMutex = "free"
  /\ \E p \in peerActive[L] :
       \/ ~HasPeer(p) /\ Crash
       \/ /\ HasPeer(p)
          /\ Acquire("T")
          /\ Disconnect(p, L)
          /\ Touch(peerActive[L])
          /\ Goto("T", "cool")
          /\ UNCHANGED <<ttl, informed, sent, cooldown, maxActive, removeWorsePartner,
                         activeMutex, work>>

\* The flag that lets one newcomer replace a partner is armed again.
RearmRemoveWorse ==
  /\ RemoveWorse /\ ~removeWorsePartner
  /\ pc["T"] = "idle"
  /\ removeWorsePartner' = TRUE
  /\ UNCHANGED <<book, peerActive, cooldown, maxActive, locks, pc, locals>>

\* ShowPeerList prints every partner and every known peer.
ShowPeerList ==
  /\ pc["T"] = "idle"
  /\ peerListMutex = "free" /\ activeMutex = "free"
  /\ \E p \in AllActive \cup peerList : ~HasPeer(p)
  /\ Crash

\* The UDPSend thread has sent a chunk to p: Inc_peerSentChunks.
CountSentChunk(p) ==
  /\ ~Crashed /\ peerListMutex = "free"
  /\ p \in peerList /\ sent[p] < MaxSent
  /\ sent' = [sent EXCEPT ![p] = @ + 1]
  /\ UNCHANGED <<peerList, nullPeer, ttl, informed, partners, locks, pc, locals>>

(***************************************************************************)
(* The specification.                                                      *)
(***************************************************************************)
Init ==
  /\ peerList = {} /\ nullPeer = {}
  /\ ttl = [L \in Lists |-> [p \in Peers |-> DefaultTTL]]
  /\ informed = [L \in OutLists |-> [p \in Peers |-> -1]]
  /\ sent = [p \in Peers |-> 0]
  /\ peerActive = [L \in Lists |-> {}]
  /\ cooldown = [L \in Lists |-> [p \in Peers |-> 0]]
  /\ maxActive = [L \in Lists |-> CASE L = "In" -> MaxIn [] L = "Out" -> MaxOut
                                     [] OTHER -> MaxFree]
  /\ removeWorsePartner = RemoveWorse
  /\ peerListMutex = "free" /\ activeMutex = "free"
  /\ pc = [th \in Threads |-> "idle"]
  /\ peer = [th \in Threads |-> NoPeer]
  /\ list = [th \in Threads |-> "In"]
  /\ todo = {}
  /\ newMax = [L \in OutLists |-> -1]
  /\ drop = [L \in Lists |-> {}] /\ dele = {}

Ping(p) == \E kind \in {"In", "Out"}, sizes \in OutSizes : ReceivePing(p, kind, sizes)

Answers ==
  \E out \in NewMaxes, free \in NewMaxes, S \in SUBSET Peers :
    Cardinality(S) <= MaxShare /\ ReceivePeerlist(out, free, S)

\* What the UDPReceive thread does once it has taken a ping.
Handle == LockForOutPing \/ TestActive \/ RefreshTTL \/ StoreChunkMap \/ LeaveHandler

HandleAnswer == SetNewMax \/ Trim \/ AddListedPeer

Connector == StartConnector \/ CountVacancies \/ PickCandidate \/ EndConnector

CheckPeerList ==
  BeginCheck \/ Scan \/ DropExpired \/ StartCooldown \/ RemovePeer \/ EndCheck

Timers ==
  RearmRemoveWorse \/ ShowPeerList \/ \E L \in Lists : TimerDisconnect(L)

\* The process is gone.
Halted == Crashed /\ UNCHANGED vars

Next ==
  \/ \E p \in Peers : Ping(p)
  \/ \E p \in Peers : CountSentChunk(p)
  \/ Answers
  \/ Handle
  \/ HandleAnswer
  \/ Connector
  \/ \E th \in Threads : CheckCooldown(th) \/ ConnectPeer(th)
  \/ CheckPeerList
  \/ Timers
  \/ Halted

Spec == Init /\ [][Next]_vars

\* CheckPeerList runs again and again (CyclicTimers calls it every second, and
\* every exchange with the bootstrap ends), no thread waits for a mutex for ever,
\* and every ping taken is handled.
Fairness ==
  /\ SF_vars(BeginCheck) /\ SF_vars(RemovePeer)
  /\ WF_vars(Scan \/ DropExpired \/ StartCooldown \/ EndCheck)
  /\ WF_vars(SetNewMax) /\ SF_vars(Trim) /\ SF_vars(AddListedPeer)
  /\ SF_vars(pc["T"] = "addPeers" /\ StartConnector)
  /\ WF_vars(CountVacancies \/ PickCandidate \/ EndConnector)
  /\ \A th \in Threads : WF_vars(CheckCooldown(th) \/ ConnectPeer(th))
  /\ SF_vars(LockForOutPing) /\ SF_vars(TestActive)
  /\ SF_vars(RefreshTTL) /\ WF_vars(LeaveHandler)

LiveSpec == Spec /\ Fairness

(***************************************************************************)
(* Properties.                                                             *)
(***************************************************************************)
\* The type invariant.
TypeOK ==
  /\ peerList \in SUBSET Peers /\ nullPeer \in SUBSET peerList
  /\ ttl \in [Lists -> [Peers -> Int]]
  /\ informed \in [OutLists -> [Peers -> Int]]
  /\ sent \in [Peers -> Nat]
  /\ peerActive \in [Lists -> SUBSET Peers]
  /\ cooldown \in [Lists -> [Peers -> Nat]]
  /\ maxActive \in [Lists -> Nat]
  /\ removeWorsePartner \in BOOLEAN
  /\ peerListMutex \in {"free", "R", "T"} /\ activeMutex \in {"free", "T"}
  /\ pc \in [Threads -> {"idle", "lock", "test", "check", "insert", "refresh",
                         "chunkMap", "leave", "setMax", "trim", "addPeers", "count", "pick",
                         "scan", "drop", "cool", "crashed"}]
  /\ peer \in [Threads -> Peers \cup {NoPeer}] /\ list \in [Threads -> Lists]
  /\ todo \in SUBSET Peers
  /\ newMax \in [OutLists -> Int]
  /\ drop \in [Lists -> SUBSET Peers] /\ dele \in SUBSET Peers

\* What a thread's place in the code says about its arguments and the mutexes.
Control ==
  /\ pc["R"] \in {"idle", "lock", "test", "check", "insert", "refresh", "chunkMap",
                 "leave", "crashed"}
  /\ pc["T"] \notin {"lock", "test", "refresh", "chunkMap", "leave"}
  /\ pc["R"] = "crashed" <=> pc["T"] = "crashed"
  /\ ~Crashed => (activeMutex = "T" <=> pc["T"] = "scan")
  /\ pc["T"] \in {"setMax", "trim"} => list["T"] \in OutLists
  /\ pc["T"] \in {"check", "insert"} => list["T"] = "In"
  /\ pc["T"] \in {"check", "insert", "cool"} => peer["T"] \in Peers
  /\ pc["R"] \notin {"idle", "crashed"} => peer["R"] \in Peers

\* An active list never exceeds its configured size, whoever connects peers to
\* it meanwhile, except while the handler that lowered the size is about to trim
\* it.  Connector::Connect relies on it: it subtracts the two as unsigned ints.
ActiveBound ==
  ~Crashed => \A L \in Lists :
    Cardinality(peerActive[L]) <= maxActive[L] \/ (pc["T"] = "trim" /\ list["T"] = L)

\* No partner outlives its lease: one whose TTL ran out is about to be dropped,
\* or its ping is being answered, or the check that will drop it is running.
LeaseEnforced ==
  ~Crashed => \A L \in Lists : \A p \in peerActive[L] :
    ttl[L][p] <= 0 => \/ p \in drop[L]
                      \/ pc["T"] = "scan"
                      \/ pc["R"] = "refresh" /\ peer["R"] = p /\ list["R"] = L

\* Only its own ping keeps a partner, and only once it was found in the list or let
\* in: neither a bootstrap answer that names it again, nor the connector, nor the ping
\* of another peer that shares its lists extends its lease.  Else it starts anew with
\* an entry that RemovePeer took away from it.
LeaseNeedsPing ==
  [][\A L \in Lists : \A p \in peerActive[L] :
       ttl'[L][p] > ttl[L][p] =>
         \/ pc["R"] \in {"insert", "refresh"} /\ peer["R"] = p
         \/ pc["T"] = "drop" /\ p \in dele /\ p \notin peerList']_vars

\* A neighbour that stops announcing itself loses its place in the out lists.
SilentPartnerLeaves ==
  \A p \in Peers : <>[][~Ping(p)]_vars
                   => <>[](Crashed \/ p \notin peerActive["Out"] \cup peerActive["Free"])

\* "The list of neighbours is the only one that has the peer's data": every
\* partner has an entry, with its Peer, in peerList.
ActivePeersHaveData ==
  \A L \in Lists : peerActive[L] \subseteq peerList \ nullPeer

\* A partner that ConnectPeer has just let in is not already out of time.
ConnectedHasLease ==
  pc["R"] = "refresh" /\ peer["R"] \in peerActive[list["R"]] \ drop[list["R"]]
    => ttl[list["R"]][peer["R"]] > 0
=============================================================================
