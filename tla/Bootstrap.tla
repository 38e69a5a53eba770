----------------------------- MODULE Bootstrap -----------------------------
(***************************************************************************)
(* The bootstrap server: bootstrap/bootstrap.cpp and common/Channel.cpp.   *)
(* It knows, per channel, which peers are alive, names some of them to a   *)
(* peer that asks, and (dynamicTopologyArrangement) decides how many       *)
(* partners each peer should serve.                                        *)
(*                                                                         *)
(* The TCP thread (HandleChannelMessage) and the thread of CheckPeerList   *)
(* hold channelListMutex for the whole of their work, so each of their     *)
(* steps is one action.  U, UDPReceive, holds it only for the first half   *)
(* of HandlePingMessage; each of its later uses of channelList that others *)
(* may come before is an action of its own.  (Lines 331-333 use one entry  *)
(* three times and decide nothing on it: CountReport.)                     *)
(*                                                                         *)
(* channelList and the peerList of a channel are std::maps: looking up an  *)
(* absent key inserts a Channel that was never initialised (server None),  *)
(* or a PeerData without a Peer (nullPeer).  Following such a pointer      *)
(* stops the process (Crash), or reads some stale peer that is in no       *)
(* channel.  The chunk and the rate that the server announces, the upload  *)
(* scores and the log files are left out.                                  *)
(***************************************************************************)
EXTENDS Integers, FiniteSets

CONSTANTS
  Channels,        \* ids of channels
  Servers,         \* the peers that broadcast: they create channels
  Viewers,         \* the peers that watch: they connect to channels
  None,            \* no peer, no channel; the server of a channel made by map[]
  TTLChannel,      \* common/Defines.hpp
  HitCount,        \* hit_count: reports of a peer before its class may change
  DelayStarts,     \* timeNewOutDelayStarts
  ShareSize,       \* peerListSharedSize
  DynamicTopology, \* XPConfig "dynamicTopologyArrangement"
  IndicateClass,   \* XPConfig "indicateClassPosition"
  PingTypes        \* "boot" and "perf" (PING_BOOT_PERF)

Peers == Servers \cup Viewers

\* What an entry says of the two out lists of its peer: both have size zero (a
\* free rider), or sizes the peer chose, or those of a class of the topology.
Classes == {"B", "C", "D"}
Sizes == {"zero", "own"} \cup Classes

ASSUME BootstrapAssumption ==
  /\ IsFiniteSet(Peers) /\ Servers \cap Viewers = {} /\ None \notin Peers
  /\ TTLChannel \in Nat \ {0}
  /\ HitCount \in Nat /\ DelayStarts \in Nat /\ ShareSize \in Nat
  /\ DynamicTopology \in BOOLEAN /\ IndicateClass \in BOOLEAN
  /\ PingTypes \subseteq {"boot", "perf"}

VARIABLES
  channels,         \* the keys of channelList
  server,           \* serverPeer of each channel
  peerList,         \* the keys of each channel's peerList
  nullPeer,         \* those whose PeerData has no Peer
  ttl,              \* ttlChannel of each entry
  hits,             \* hit_count of each entry
  size,             \* the out sizes of each entry
  firstTimeOverlay, \* per channel
  pc,               \* where U is
  pinger, channel,  \* U: srcPeer and channelId
  ordinary,         \* U: ordinaryNodeVector
  \* History, for the properties:
  counted,          \* the server's reports counted since its channel was created
                    \* or its counter set again, up to HitCount
  removed           \* the channel was removed after U took the report in hand for
                    \* that of its server

list == <<channels, server, peerList, nullPeer, ttl, hits, size, firstTimeOverlay>>
local == <<pinger, channel, ordinary>>
history == <<counted, removed>>
vars == <<list, pc, local, history>>

Crashed == pc = "crashed"

Crash == pc' = "crashed" /\ UNCHANGED <<list, local, history>>

\* channelList.count(c) and Channel::HasPeer
HasPeer(c, p) == c \in channels /\ p \in peerList[c] \ nullPeer[c]

\* channelList[c].GetPeerData(p), which creates what it does not find.
TouchAnew(c, p) == \* mutant
  /\ channels' = channels \cup {c}
  /\ server' = IF c \in channels THEN server ELSE [server EXCEPT ![c] = None]
  /\ peerList' = [peerList EXCEPT ![c] = @ \cup {p}]
  /\ nullPeer' = [nullPeer EXCEPT ![c] = @ \cup {p}]

Touch(c, p) ==
  /\ channels' = channels \cup {c}
  /\ server' = IF c \in channels THEN server ELSE [server EXCEPT ![c] = None]
  /\ peerList' = [peerList EXCEPT ![c] = @ \cup {p}]
  /\ nullPeer' = [nullPeer EXCEPT ![c] = IF p \in peerList[c] THEN @ ELSE @ \cup {p}]

(***************************************************************************)
(* The TCP thread: HandleChannelMessage.                                   *)
(***************************************************************************)
\* SelectPeerList names the peers, other than the one that asks, that serve at
\* least minimumBandwidth partners.
Suitable(c, p) == {q \in peerList[c] \ {p} : size[c][q] # "zero"}

\* When there are more peers than it may name, it takes as many as it may name
\* of the suitable ones: when these are fewer, it reads past their end, where
\* the list of all peers was before.
SelectPeerList(c, p) ==
  IF Cardinality(peerList[c]) <= ShareSize THEN {Suitable(c, p)}
  ELSE IF Cardinality(Suitable(c, p)) >= ShareSize
  THEN {S \in SUBSET Suitable(c, p) : Cardinality(S) = ShareSize}
  ELSE {S \in SUBSET (peerList[c] \ {p}) :
          Suitable(c, p) \subseteq S /\ Cardinality(S) <= ShareSize}

CreateChannel(p, c) ==
  /\ ~Crashed
  /\ p \in Servers /\ c \notin channels
  /\ channels' = channels \cup {c}
  /\ server' = [server EXCEPT ![c] = p]
  /\ peerList' = [peerList EXCEPT ![c] = {p}]
  /\ nullPeer' = [nullPeer EXCEPT ![c] = {}]
  /\ ttl' = [ttl EXCEPT ![c][p] = TTLChannel]
  /\ hits' = [hits EXCEPT ![c][p] = HitCount + DelayStarts]
  /\ size' = [size EXCEPT ![c][p] = "own"]
  /\ firstTimeOverlay' = [firstTimeOverlay EXCEPT ![c] = TRUE]
  /\ counted' = [counted EXCEPT ![c] = 0]
  /\ UNCHANGED <<pc, local, removed>>

\* The sizes of a new entry.  A peer that limits its upload and brought no sizes
\* gets those of class C, or of the class of its bandwidth (SugestedClass, which
\* may name none).
SizesOfNew(s, limited) ==
  IF ~DynamicTopology \/ ~limited \/ s # "zero" THEN {s}
  ELSE IF IndicateClass THEN Classes \cup {s} ELSE {"C"}

\* Channel::AddPeer
AddPeer(p, c, s) ==
  /\ peerList' = [peerList EXCEPT ![c] = @ \cup {p}]
  /\ nullPeer' = [nullPeer EXCEPT ![c] = @ \ {p}]
  /\ ttl' = [ttl EXCEPT ![c][p] = TTLChannel]
  /\ hits' = [hits EXCEPT ![c][p] = HitCount]
  /\ size' = [size EXCEPT ![c][p] = s]
  /\ UNCHANGED <<channels, server, firstTimeOverlay, pc, local, history>>

\* A peer that is already known keeps its entry as it is.  SelectPeerList looks
\* at the Peer of every entry.
Connect(p, c) ==
  /\ ~Crashed
  /\ p \in Viewers /\ c \in channels
  /\ \/ ~HasPeer(c, p) /\ server[c] = None /\ Crash
     \/ nullPeer[c] \ {p} # {} /\ Crash
     \/ /\ ~HasPeer(c, p) /\ nullPeer[c] \ {p} = {}
        /\ \E s \in {"zero", "own"}, limited \in BOOLEAN :
             \E t \in SizesOfNew(s, limited) : AddPeer(p, c, t)

(***************************************************************************)
(* CheckPeerList, once a second, under channelListMutex.                   *)
(***************************************************************************)
DecTTLNever(n) == n \* mutant
DecTTLChannel(n) == n - 1

Inactive(c) == {p \in peerList[c] : DecTTLChannel(ttl[c][p]) <= 0}

ServerStays(c) == FALSE \* mutant
\* The channel's server is no longer among its peers; the address of one that
\* was never set is not there either.
ServerGone(c) == server[c] \notin (peerList[c] \ nullPeer[c]) \ Inactive(c)

\* U took its report for one of the channel's server.
Renewing == {"test", "renew", "convert", "setHit"}

CheckPeerList ==
  LET kept == {c \in channels : ~ServerGone(c)}
      left == [c \in Channels |-> IF c \in kept THEN peerList[c] \ Inactive(c) ELSE {}]
      Of(f, default) == [c \in Channels |-> [p \in Peers |->
                           IF p \in left[c] THEN f[c][p] ELSE default]]
  IN /\ ~Crashed
     /\ \/ (\E c \in channels : server[c] = None) /\ Crash
        \/ /\ channels' = kept
           /\ peerList' = left
           /\ nullPeer' = [c \in Channels |-> nullPeer[c] \cap left[c]]
           /\ server' = [c \in Channels |-> IF c \in kept THEN server[c] ELSE None]
           /\ ttl' = [c \in Channels |-> [p \in Peers |->
                        IF p \in left[c] THEN DecTTLChannel(ttl[c][p]) ELSE TTLChannel]]
           /\ hits' = Of(hits, 0)
           /\ size' = Of(size, "zero")
           /\ firstTimeOverlay' = [c \in Channels |-> c \in kept => firstTimeOverlay[c]]
           /\ counted' = [c \in Channels |-> IF c \in kept THEN counted[c] ELSE 0]
           /\ removed' = (removed \/ (pc \in Renewing /\ channel \notin kept))
           /\ UNCHANGED <<pc, local>>

(***************************************************************************)
(* U: HandlePingMessage, first under channelListMutex.                     *)
(***************************************************************************)
Ping(p, c, type) ==
  /\ pc = "idle" /\ type \in PingTypes
  /\ HasPeer(c, p)
  /\ \/ server[c] = None /\ Crash
     \/ /\ ttl' = [ttl EXCEPT ![c][p] = TTLChannel]
        /\ IF type = "perf" THEN pc' = "limit" /\ pinger' = p /\ channel' = c
                            ELSE UNCHANGED <<pc, pinger, channel>>
        /\ UNCHANGED <<channels, server, peerList, nullPeer, hits, size,
                       firstTimeOverlay, ordinary, history>>

Done ==
  /\ pc' = "idle" /\ pinger' = None /\ channel' = None /\ ordinary' = {}
  /\ removed' = FALSE

(***************************************************************************)
(* ... then without it, for the reports of performance.                    *)
(***************************************************************************)
\* The report is logged with the upload limit of the peer's Peer.
LogReport ==
  /\ pc = "limit"
  /\ \/ ~HasPeer(channel, pinger) /\ Crash
     \/ HasPeer(channel, pinger) /\ pc' = "score" /\ UNCHANGED <<list, local, history>>

\* The score is set in a copy of the entry.
CopyEntry ==
  /\ pc = "score"
  /\ Touch(channel, pinger)
  /\ IF DynamicTopology THEN pc' = "hit" /\ UNCHANGED <<local, removed>> ELSE Done
  /\ UNCHANGED <<ttl, hits, size, firstTimeOverlay, counted>>

\* The sender of the report is the server of its channel.
FromServer == channel \in channels /\ server[channel] = pinger

DecHitAlways(n) == n - 1 \* mutant
DecHit_count(n) == IF n > 0 THEN n - 1 ELSE 0

CountReport ==
  /\ pc = "hit"
  /\ Touch(channel, pinger)
  /\ hits' = [hits EXCEPT ![channel][pinger] = DecHit_count(@)]
  /\ counted' = IF FromServer /\ counted[channel] < HitCount
                THEN [counted EXCEPT ![channel] = @ + 1] ELSE counted
  /\ pc' = "server"
  /\ UNCHANGED <<ttl, size, firstTimeOverlay, local, removed>>

\* Is it the server's report?
TestServer ==
  /\ pc = "server"
  /\ \/ (channel \notin channels \/ server[channel] = None) /\ Crash
     \/ /\ channels' = channels \cup {channel}
        /\ IF FromServer THEN pc' = "test" /\ UNCHANGED <<local, removed>> ELSE Done
        /\ UNCHANGED <<server, peerList, nullPeer, ttl, hits, size, firstTimeOverlay, counted>>

AnyReport(c, p) == TRUE \* mutant
PeriodOver(c, p) == hits[c][p] = 0

\* Is it the last one of its period?
TestHitCount ==
  /\ pc = "test"
  /\ Touch(channel, pinger)
  /\ IF PeriodOver(channel, pinger) THEN pc' = "renew" /\ UNCHANGED <<local, removed>> ELSE Done
  /\ UNCHANGED <<ttl, hits, size, firstTimeOverlay, counted>>

\* RenewOUTALL: the peers that reported often enough and are no free riders.
\* The first time it only forgets what the peers sent so far.
OrdinaryNodes(c) ==
  {p \in peerList[c] : size[c][p] # "zero" /\ hits[c][p] = 0 /\ p # server[c]}

RenewOUTALL ==
  LET c == channel
      unset == c \notin channels \/ server[c] = None
  IN /\ pc = "renew"
     /\ \/ /\ unset \/ (~firstTimeOverlay[c] /\ nullPeer[c] # {})
           /\ Crash
        \/ /\ firstTimeOverlay[c]
           /\ channels' = channels \cup {c}
           /\ firstTimeOverlay' = [firstTimeOverlay EXCEPT ![c] = FALSE]
           /\ pc' = "setHit"
           /\ UNCHANGED <<server, peerList, nullPeer, ttl, hits, size, local, history>>
        \/ /\ ~unset /\ ~firstTimeOverlay[c] /\ nullPeer[c] = {}
           /\ ordinary' = OrdinaryNodes(c)
           /\ pc' = "convert"
           /\ UNCHANGED <<list, pinger, channel, history>>

\* NormalizeClasses: some of them move to another class, depending on what they
\* sent.
ConvertClasses ==
  /\ pc = "convert"
  /\ \/ /\ channel \notin channels \/ \E p \in ordinary : ~HasPeer(channel, p)
        /\ Crash
     \/ /\ \A p \in ordinary : HasPeer(channel, p)
        /\ \E moved \in SUBSET ordinary : \E class \in [moved -> Classes] :
             size' = [size EXCEPT ![channel] =
                        [p \in Peers |-> IF p \in moved THEN class[p] ELSE @[p]]]
        /\ ordinary' = {}
        /\ pc' = "setHit"
        /\ UNCHANGED <<channels, server, peerList, nullPeer, ttl, hits, firstTimeOverlay,
                       pinger, channel, history>>

SetHitCount ==
  /\ pc = "setHit"
  /\ Touch(channel, pinger)
  /\ hits' = [hits EXCEPT ![channel][pinger] = HitCount]
  /\ counted' = IF FromServer THEN [counted EXCEPT ![channel] = 0] ELSE counted
  /\ Done
  /\ UNCHANGED <<ttl, size, firstTimeOverlay>>

(***************************************************************************)
(* The specification.                                                      *)
(***************************************************************************)
Init ==
  /\ channels = {}
  /\ server = [c \in Channels |-> None]
  /\ peerList = [c \in Channels |-> {}] /\ nullPeer = [c \in Channels |-> {}]
  /\ ttl = [c \in Channels |-> [p \in Peers |-> TTLChannel]]
  /\ hits = [c \in Channels |-> [p \in Peers |-> 0]]
  /\ size = [c \in Channels |-> [p \in Peers |-> "zero"]]
  /\ firstTimeOverlay = [c \in Channels |-> TRUE]
  /\ pc = "idle" /\ pinger = None /\ channel = None /\ ordinary = {}
  /\ counted = [c \in Channels |-> 0] /\ removed = FALSE

\* A peer tells the bootstrap that it is there.
Contact(p, c) ==
  CreateChannel(p, c) \/ Connect(p, c) \/ \E type \in PingTypes : Ping(p, c, type)

HandleReport ==
  \/ LogReport \/ CopyEntry \/ CountReport \/ TestServer \/ TestHitCount
  \/ RenewOUTALL \/ ConvertClasses \/ SetHitCount

\* The process is gone.
Halted == Crashed /\ UNCHANGED vars

Next ==
  \/ \E p \in Peers, c \in Channels : Contact(p, c)
  \/ CheckPeerList
  \/ HandleReport
  \/ Halted

Spec == Init /\ [][Next]_vars

\* CheckPeerList runs every second, and a report that was taken is handled.
Fairness == WF_vars(CheckPeerList) /\ WF_vars(HandleReport)

LiveSpec == Spec /\ Fairness

(***************************************************************************)
(* Properties.                                                             *)
(***************************************************************************)
\* The type invariant.
TypeOK ==
  /\ channels \in SUBSET Channels
  /\ server \in [Channels -> Servers \cup {None}]
  /\ peerList \in [Channels -> SUBSET Peers] /\ nullPeer \in [Channels -> SUBSET Peers]
  /\ ttl \in [Channels -> [Peers -> 1 .. TTLChannel]]
  /\ hits \in [Channels -> [Peers -> 0 .. (HitCount + DelayStarts)]]
  /\ size \in [Channels -> [Peers -> Sizes]]
  /\ firstTimeOverlay \in [Channels -> BOOLEAN]
  /\ pc \in {"idle", "limit", "score", "hit", "server", "crashed"} \cup Renewing
  /\ pinger \in Peers \cup {None} /\ channel \in Channels \cup {None}
  /\ ordinary \in SUBSET Peers
  /\ counted \in [Channels -> 0 .. HitCount] /\ removed \in BOOLEAN

\* A channel lives exactly as long as its server: whoever removes or re-creates
\* entries, the server of a channel is among its peers, with its Peer, so what
\* the three threads read through GetServer is there.
ServerListed ==
  \A c \in channels : server[c] # None => server[c] \in peerList[c] \ nullPeer[c]

\* RenewOUTALL runs only for a report of the channel's server, and only when HitCount of
\* them were counted since the channel was created or renewed before: U decrements the
\* counter, tests it, renews and sets it again in separate uses of channelList, and other
\* reports, contacts and checks come between them.  A report whose channel is removed after
\* U took it for the server's is exempt: it may renew the channel that took its place.
RenewalsAreSpaced ==
  [][pc = "renew" /\ pc' \in {"convert", "setHit"} =>
       removed \/ (FromServer /\ counted[channel] >= HitCount)]_vars

\* A peer that gives no sign of life any more is forgotten, with its channel if
\* it was the server, although the unlocked part of HandlePingMessage may create
\* its entry again.
SilentPeerForgotten ==
  \A p \in Peers, c \in Channels :
    <>[][~Contact(p, c)]_vars => <>[](Crashed \/ p \notin peerList[c])

\* Only who has a Peer in a channel that has a server is a member of it.
Members(c) == IF server[c] = None THEN {} ELSE peerList[c] \ nullPeer[c]

Membership == INSTANCE Membership WITH
  broadcaster <- server,
  silence <- [c \in Channels |-> [p \in Members(c) |-> TTLChannel - ttl[c][p]]],
  Patience <- TTLChannel

\* The bootstrap keeps the membership of its channels: what HandlePingMessage does with
\* a report after it released channelListMutex never changes who is a member, who
\* broadcasts, or how long a member has been silent, and what the other threads do is one
\* step of Membership, also for an entry or a channel that map[] made before.
ImplementsMembership == Membership!Spec

\* "Avoid creation by map[]": every channel was created by CHANNEL_CREATE.
NoMapChannel == \A c \in channels : server[c] # None

\* "minimum OUT to share a peer": whom the bootstrap names serves at least
\* minimumBandwidth partners.
SharedPeersSuit ==
  ~Crashed => \A c \in channels, p \in Viewers :
    \A S \in SelectPeerList(c, p) : S \subseteq Suitable(c, p)
=============================================================================
