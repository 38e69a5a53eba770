-------------------------- MODULE BootstrapProofs --------------------------
(***************************************************************************)
(* Proofs about Bootstrap, for any channels, peers and configuration that  *)
(* satisfy the module's assumption.                                        *)
(***************************************************************************)
EXTENDS Bootstrap, TLAPS

\* What U works on, at each place in the code.
Control ==
  pc \in {"limit", "score", "hit", "server"} \cup Renewing =>
    pinger \in Peers /\ channel \in Channels

\* A channel that is not in the map has no server left from an earlier life.
NoOldServer == \A c \in Channels \ channels : server[c] = None

\* The reports of its server that a channel still waits for were not counted yet.
Counting ==
  \A c \in channels : server[c] # None => hits[c][server[c]] + counted[c] >= HitCount

\* While U renews a channel that was not removed under it, its report is of the channel's
\* server, whose counter nobody sets again.
Taken ==
  ~removed =>
    /\ pc \in Renewing => FromServer
    /\ pc \in Renewing \ {"test"} => hits[channel][pinger] = 0

Spacing == Counting /\ Taken

IInv == TypeOK /\ Control /\ NoOldServer /\ ServerListed /\ Spacing

LEMMA InitEstablishes ==
  ASSUME Init PROVE IInv
<1>1. TypeOK
  <2>1. 0 \in 0 .. HitCount /\ 0 \in 0 .. (HitCount + DelayStarts) /\ TTLChannel \in 1 .. TTLChannel
    BY BootstrapAssumption
  <2>2. QED
    BY <2>1 DEF Init, TypeOK, Sizes
<1>2. Control /\ NoOldServer /\ ServerListed /\ Spacing
  BY DEF Init, Control, NoOldServer, ServerListed, Spacing, Counting, Taken, Renewing
<1>3. QED
  BY <1>1, <1>2 DEF IInv

LEMMA StutterKeeps ==
  ASSUME IInv, UNCHANGED vars PROVE IInv'
BY DEF IInv, TypeOK, Control, NoOldServer, ServerListed, Spacing, Counting, Taken,
       FromServer, vars, list, local, history

LEMMA CrashKeeps ==
  ASSUME IInv, Crash PROVE IInv'
BY DEF IInv, TypeOK, Control, NoOldServer, ServerListed, Spacing, Counting, Taken,
       FromServer, Renewing, Crash, list, local, history

(***************************************************************************)
(* Types and Control: one lemma per thread, one step per action.           *)
(***************************************************************************)
LEMMA TouchKeepsTypes ==
  ASSUME TypeOK, NEW c \in Channels, NEW p \in Peers, Touch(c, p)
  PROVE  /\ channels' \in SUBSET Channels
         /\ server' \in [Channels -> Servers \cup {None}]
         /\ peerList' \in [Channels -> SUBSET Peers]
         /\ nullPeer' \in [Channels -> SUBSET Peers]
BY DEF TypeOK, Touch

LEMMA ContactKeepsTypes ==
  ASSUME TypeOK, Control, ~Crash, NEW p \in Peers, NEW c \in Channels, Contact(p, c)
  PROVE  TypeOK' /\ Control'
<1> USE BootstrapAssumption DEF TypeOK, Control, local, list, history
<1>1. CASE CreateChannel(p, c)
  <2>1. HitCount + DelayStarts \in 0 .. (HitCount + DelayStarts) /\ 0 \in 0 .. HitCount
    OBVIOUS
  <2>2. TTLChannel \in 1 .. TTLChannel
    OBVIOUS
  <2>3. "own" \in Sizes /\ p \in Servers /\ {p} \in SUBSET Peers
    BY <1>1 DEF CreateChannel, Sizes
  <2>4. QED
    BY <1>1, <2>1, <2>2, <2>3 DEF CreateChannel
<1>2. CASE Connect(p, c)
  <2>1. PICK s \in {"zero", "own"}, limited \in BOOLEAN :
          \E t \in SizesOfNew(s, limited) : AddPeer(p, c, t)
    BY <1>2 DEF Connect
  <2>2. PICK t \in SizesOfNew(s, limited) : AddPeer(p, c, t)
    BY <2>1
  <2>3. t \in Sizes
    BY <2>2 DEF SizesOfNew, Sizes, Classes
  <2>4. HitCount \in 0 .. (HitCount + DelayStarts) /\ TTLChannel \in 1 .. TTLChannel
    OBVIOUS
  <2>5. QED
    BY <2>2, <2>3, <2>4 DEF AddPeer
<1>3. ASSUME NEW type \in PingTypes, Ping(p, c, type)
      PROVE  TypeOK' /\ Control'
  <2>1. TTLChannel \in 1 .. TTLChannel
    OBVIOUS
  <2>2. ttl' = [ttl EXCEPT ![c][p] = TTLChannel]
    BY <1>3 DEF Ping
  <2>3. ttl' \in [Channels -> [Peers -> 1 .. TTLChannel]]
    BY <2>1, <2>2
  <2>4. QED
    BY <1>3, <2>3 DEF Ping
<1>4. QED
  BY <1>1, <1>2, <1>3 DEF Contact

LEMMA CheckPeerListKeepsTypes ==
  ASSUME TypeOK, Control, ~Crash, CheckPeerList
  PROVE  TypeOK' /\ Control'
<1> USE BootstrapAssumption DEF TypeOK, local
<1> DEFINE kept == {c \in channels : ~ServerGone(c)}
           left == [c \in Channels |-> IF c \in kept THEN peerList[c] \ Inactive(c) ELSE {}]
<1>1. kept \in SUBSET Channels /\ left \in [Channels -> SUBSET Peers]
  OBVIOUS
<1>2. ASSUME NEW c \in Channels, NEW p \in left[c]
      PROVE  DecTTLChannel(ttl[c][p]) \in 1 .. TTLChannel
  <2>1. p \in peerList[c] \ Inactive(c) /\ p \in Peers
    BY <1>2
  <2>2. ttl[c][p] \in 1 .. TTLChannel
    BY <2>1
  <2>3. ~(ttl[c][p] - 1 <= 0)
    BY <2>1 DEF Inactive, DecTTLChannel
  <2>4. QED
    BY <2>2, <2>3 DEF DecTTLChannel
<1>3. ttl' \in [Channels -> [Peers -> 1 .. TTLChannel]]
  <2>1. ttl' = [c \in Channels |-> [p \in Peers |->
                 IF p \in left[c] THEN DecTTLChannel(ttl[c][p]) ELSE TTLChannel]]
    BY DEF CheckPeerList
  <2>2. TTLChannel \in 1 .. TTLChannel
    OBVIOUS
  <2> HIDE DEF left
  <2>3. QED
    BY <1>2, <2>1, <2>2
<1>4. /\ channels' \in SUBSET Channels
      /\ server' \in [Channels -> Servers \cup {None}]
      /\ peerList' \in [Channels -> SUBSET Peers]
      /\ nullPeer' \in [Channels -> SUBSET Peers]
  <2>1. /\ channels' = kept /\ peerList' = left
        /\ nullPeer' = [c \in Channels |-> nullPeer[c] \cap left[c]]
        /\ server' = [c \in Channels |-> IF c \in kept THEN server[c] ELSE None]
    BY DEF CheckPeerList
  <2> HIDE DEF kept, left
  <2>2. QED
    BY <1>1, <2>1
<1>5. /\ hits' \in [Channels -> [Peers -> 0 .. (HitCount + DelayStarts)]]
      /\ size' \in [Channels -> [Peers -> Sizes]]
  <2>1. /\ hits' = [c \in Channels |-> [p \in Peers |->
                      IF p \in left[c] THEN hits[c][p] ELSE 0]]
        /\ size' = [c \in Channels |-> [p \in Peers |->
                      IF p \in left[c] THEN size[c][p] ELSE "zero"]]
    BY DEF CheckPeerList
  <2>2. 0 \in 0 .. (HitCount + DelayStarts) /\ "zero" \in Sizes
    BY DEF Sizes
  <2> HIDE DEF left
  <2>3. QED
    BY <2>1, <2>2
<1>6. firstTimeOverlay' \in [Channels -> BOOLEAN]
  <2>1. firstTimeOverlay' = [c \in Channels |-> c \in kept => firstTimeOverlay[c]]
    BY DEF CheckPeerList
  <2> HIDE DEF kept
  <2>2. QED
    BY <2>1, Zenon
<1>7. UNCHANGED <<pc, pinger, channel, ordinary>>
  BY DEF CheckPeerList
<1>8. counted' \in [Channels -> 0 .. HitCount] /\ removed' \in BOOLEAN
  <2>1. /\ counted' = [c \in Channels |-> IF c \in kept THEN counted[c] ELSE 0]
        /\ removed' = (removed \/ (pc \in Renewing /\ channel \notin kept))
    BY DEF CheckPeerList
  <2>2. 0 \in 0 .. HitCount
    OBVIOUS
  <2> HIDE DEF kept
  <2>3. counted' \in [Channels -> 0 .. HitCount]
    BY <2>1, <2>2
  <2>4. removed' \in BOOLEAN
    BY <2>1, Zenon
  <2>5. QED
    BY <2>3, <2>4
<1>9. QED
  BY <1>3, <1>4, <1>5, <1>6, <1>7, <1>8 DEF Control

LEMMA ReportKeepsTypes ==
  ASSUME TypeOK, Control, ~Crash, HandleReport
  PROVE  TypeOK' /\ Control'
<1> USE BootstrapAssumption DEF TypeOK, Control, Renewing, local, list, history, Done
<1>1. CASE LogReport
  BY <1>1 DEF LogReport
<1>2. CASE CopyEntry
  BY <1>2, TouchKeepsTypes DEF CopyEntry
<1>3. CASE CountReport
  <2>1. channel \in Channels /\ pinger \in Peers /\ Touch(channel, pinger)
    BY <1>3 DEF CountReport
  <2>2. DecHit_count(hits[channel][pinger]) \in 0 .. (HitCount + DelayStarts)
    BY <2>1 DEF DecHit_count
  <2>3. hits' \in [Channels -> [Peers -> 0 .. (HitCount + DelayStarts)]]
    BY <1>3, <2>1, <2>2 DEF CountReport
  <2>4. counted' \in [Channels -> 0 .. HitCount]
    <3>1. CASE FromServer /\ counted[channel] < HitCount
      <4>1. counted' = [counted EXCEPT ![channel] = counted[channel] + 1]
        BY <1>3, <3>1 DEF CountReport
      <4>2. counted[channel] + 1 \in 0 .. HitCount
        BY <2>1, <3>1
      <4>3. QED
        BY <4>1, <4>2
    <3>2. CASE ~(FromServer /\ counted[channel] < HitCount)
      BY <1>3, <3>2 DEF CountReport
    <3>3. QED
      BY <3>1, <3>2
  <2>5. QED
    BY <1>3, <2>1, <2>3, <2>4, TouchKeepsTypes DEF CountReport
<1>4. CASE TestServer \/ TestHitCount
  BY <1>4, TouchKeepsTypes DEF TestServer, TestHitCount
<1>5. CASE RenewOUTALL
  <2>1. channel \in Channels
    BY <1>5 DEF RenewOUTALL
  <2>2. CASE firstTimeOverlay[channel]
    BY <1>5, <2>1, <2>2 DEF RenewOUTALL
  <2>3. CASE ~firstTimeOverlay[channel]
    <3>1. OrdinaryNodes(channel) \in SUBSET Peers
      BY <2>1 DEF OrdinaryNodes
    <3>2. QED
      BY <1>5, <2>1, <2>3, <3>1 DEF RenewOUTALL
  <2>4. QED
    BY <2>2, <2>3
<1>6. CASE ConvertClasses
  <2>1. PICK moved \in SUBSET ordinary : \E class \in [moved -> Classes] :
          size' = [size EXCEPT ![channel] =
                     [p \in Peers |-> IF p \in moved THEN class[p] ELSE @[p]]]
    BY <1>6 DEF ConvertClasses
  <2>2. channel \in Channels
    BY <1>6 DEF ConvertClasses
  <2>3. size' \in [Channels -> [Peers -> Sizes]]
    BY <2>1, <2>2 DEF Sizes
  <2>4. QED
    BY <1>6, <2>2, <2>3 DEF ConvertClasses
<1>7. CASE SetHitCount
  <2>1. channel \in Channels /\ pinger \in Peers /\ Touch(channel, pinger)
    BY <1>7 DEF SetHitCount
  <2>2. hits' \in [Channels -> [Peers -> 0 .. (HitCount + DelayStarts)]]
    BY <1>7, <2>1 DEF SetHitCount
  <2>3. counted' \in [Channels -> 0 .. HitCount]
    <3>1. 0 \in 0 .. HitCount /\ counted' \in {[counted EXCEPT ![channel] = 0], counted}
      BY <1>7 DEF SetHitCount
    <3>2. QED
      BY <3>1
  <2>4. QED
    BY <1>7, <2>1, <2>2, <2>3, TouchKeepsTypes DEF SetHitCount
<1>8. QED
  BY <1>1, <1>2, <1>3, <1>4, <1>5, <1>6, <1>7 DEF HandleReport

LEMMA NextKeepsTypes ==
  ASSUME IInv, [Next]_vars
  PROVE  TypeOK' /\ Control'
<1>1. TypeOK /\ Control
  BY DEF IInv
<1>2. CASE Crash
  BY <1>2, CrashKeeps DEF IInv
<1>3. CASE UNCHANGED vars
  BY <1>3, StutterKeeps DEF IInv
<1>4. CASE ~Crash /\ ~UNCHANGED vars
  BY <1>1, <1>4, ContactKeepsTypes, CheckPeerListKeepsTypes, ReportKeepsTypes
  DEF Next, Halted
<1>5. QED
  BY <1>2, <1>3, <1>4

(***************************************************************************)
(* The server of a channel and its place among the peers.                  *)
(***************************************************************************)
Served == NoOldServer /\ ServerListed

\* Whoever only looks an entry up leaves the servers alone: what it creates has
\* no server, and the entry of a server is there already.
LEMMA TouchKeepsServed ==
  ASSUME TypeOK, Served, NEW c \in Channels, NEW p \in Peers, Touch(c, p)
  PROVE  Served' /\ server' = server
<1>1. server' = server
  BY DEF TypeOK, Served, NoOldServer, Touch
<1>2. NoOldServer'
  BY <1>1 DEF Served, NoOldServer, Touch
<1>3. ASSUME NEW d \in channels', server'[d] # None
      PROVE  server'[d] \in peerList'[d] \ nullPeer'[d]
  <2>1. d \in channels
    BY <1>1, <1>3 DEF Served, NoOldServer, Touch
  <2>2. server[d] \in peerList[d] \ nullPeer[d] /\ d \in Channels
    BY <1>1, <1>3, <2>1 DEF Served, ServerListed, TypeOK
  <2>3. QED
    BY <1>1, <2>2 DEF Touch, TypeOK
<1>4. QED
  BY <1>1, <1>2, <1>3 DEF Served, ServerListed

LEMMA NextKeepsServed ==
  ASSUME IInv, [Next]_vars
  PROVE  Served'
<1> USE DEF local, list
<1>1. TypeOK /\ Control /\ Served
  BY DEF IInv, Served
<1>2. CASE Crash
  BY <1>2, CrashKeeps DEF IInv, Served
<1>3. CASE UNCHANGED vars
  BY <1>3, StutterKeeps DEF IInv, Served
<1> SUFFICES ASSUME ~Crash, ~UNCHANGED vars PROVE Served'
  BY <1>2, <1>3
<1>4. ASSUME NEW p \in Peers, NEW c \in Channels, CreateChannel(p, c)
      PROVE  Served'
  BY <1>1, <1>4 DEF CreateChannel, Served, NoOldServer, ServerListed, TypeOK
<1>5. ASSUME NEW p \in Peers, NEW c \in Channels, Connect(p, c)
      PROVE  Served'
  <2>1. PICK s : AddPeer(p, c, s)
    BY <1>5 DEF Connect
  <2>2. QED
    BY <1>1, <2>1 DEF AddPeer, Served, NoOldServer, ServerListed, TypeOK
<1>6. ASSUME NEW p \in Peers, NEW c \in Channels, NEW type \in PingTypes, Ping(p, c, type)
      PROVE  Served'
  BY <1>1, <1>6 DEF Ping, Served, NoOldServer, ServerListed
<1>7. CASE CheckPeerList
  <2>1. /\ channels' = {c \in channels : ~ServerGone(c)}
        /\ \A c \in Channels \ channels' : server'[c] = None
        /\ \A c \in channels' : /\ server'[c] = server[c]
                                /\ peerList'[c] = peerList[c] \ Inactive(c)
                                /\ nullPeer'[c] = nullPeer[c] \cap (peerList[c] \ Inactive(c))
    BY <1>1, <1>7 DEF CheckPeerList, TypeOK
  <2>2. QED
    BY <2>1 DEF Served, NoOldServer, ServerListed, ServerGone
<1>8. CASE HandleReport
  <2>1. CASE LogReport \/ ConvertClasses
    BY <1>1, <2>1 DEF LogReport, ConvertClasses, Served, NoOldServer, ServerListed
  <2>2. CASE CopyEntry
    BY <1>1, <2>2, TouchKeepsServed DEF CopyEntry, Control
  <2>3. CASE CountReport
    BY <1>1, <2>3, TouchKeepsServed DEF CountReport, Control
  <2>4. CASE TestServer
    <3>1. UNCHANGED <<server, peerList, nullPeer>> /\ channels' = channels \cup {channel}
      BY <2>4 DEF TestServer
    <3>2. \A c \in channels' : server[c] # None => c \in channels
      BY <1>1, <2>4, <3>1 DEF Served, NoOldServer, TestServer, Control
    <3>3. QED
      BY <1>1, <3>1, <3>2 DEF Served, NoOldServer, ServerListed
  <2>5. CASE RenewOUTALL
    BY <1>1, <2>5 DEF RenewOUTALL, Control, Renewing, Served, NoOldServer, ServerListed
  <2>6. CASE SetHitCount
    BY <1>1, <2>6, TouchKeepsServed DEF SetHitCount, Control, Renewing
  <2>7. CASE TestHitCount
    BY <1>1, <2>7, TouchKeepsServed DEF TestHitCount, Control, Renewing
  <2>8. QED
    BY <1>8, <2>1, <2>2, <2>3, <2>4, <2>5, <2>6, <2>7 DEF HandleReport
<1>9. QED
  BY <1>4, <1>5, <1>6, <1>7, <1>8 DEF Next, Contact, Halted

(***************************************************************************)
(* The reports of the server, and when the topology is renewed.            *)
(***************************************************************************)
LEMMA NextKeepsSpacing ==
  ASSUME IInv, [Next]_vars
  PROVE  Spacing'
<1> USE BootstrapAssumption DEF local, list, history
<1>1. TypeOK /\ Control /\ Served /\ Counting /\ Taken
  BY DEF IInv, Served, Spacing
<1>2. CASE Crash
  BY <1>2, CrashKeeps DEF IInv
<1>3. CASE UNCHANGED vars
  BY <1>3, StutterKeeps DEF IInv
<1> SUFFICES ASSUME ~Crash, ~UNCHANGED vars PROVE Spacing'
  BY <1>2, <1>3
<1>4. ASSUME ~removed, pc \in Renewing
      PROVE  FromServer /\ pinger \in Servers /\ channel \in channels /\ channel \in Channels
  BY <1>1, <1>4 DEF Taken, Control, FromServer, TypeOK, Peers
<1>5. ASSUME NEW p \in Peers, NEW c \in Channels, CreateChannel(p, c)
      PROVE  Spacing'
  <2>1. /\ channels' = channels \cup {c} /\ c \notin channels
        /\ server' = [server EXCEPT ![c] = p] /\ counted' = [counted EXCEPT ![c] = 0]
        /\ hits' = [hits EXCEPT ![c][p] = HitCount + DelayStarts]
        /\ UNCHANGED <<pc, pinger, channel, removed>>
    BY <1>5 DEF CreateChannel
  <2>2. ASSUME NEW d \in channels', server'[d] # None
        PROVE  hits'[d][server'[d]] + counted'[d] >= HitCount
    <3>1. CASE d = c
      BY <1>1, <2>1, <3>1 DEF TypeOK
    <3>2. CASE d # c
      BY <1>1, <2>1, <2>2, <3>2 DEF TypeOK, Counting
    <3>3. QED
      BY <3>1, <3>2
  <2>3. Taken'
    BY <1>1, <1>4, <2>1 DEF Taken, FromServer, TypeOK
  <2>4. QED
    BY <2>2, <2>3 DEF Spacing, Counting
<1>6. ASSUME NEW p \in Peers, NEW c \in Channels, Connect(p, c)
      PROVE  Spacing'
  <2>1. PICK s : AddPeer(p, c, s)
    BY <1>6 DEF Connect
  <2>2. /\ UNCHANGED <<channels, server, counted, removed, pc, pinger, channel>>
        /\ hits' = [hits EXCEPT ![c][p] = HitCount]
    BY <2>1 DEF AddPeer
  <2>3. \A d \in Channels, q \in Servers : hits'[d][q] = hits[d][q]
    BY <1>1, <1>6, <2>2 DEF TypeOK, Peers, Connect
  <2>4. \A d \in channels : d \in Channels /\ server[d] \in Servers \cup {None}
    BY <1>1 DEF TypeOK
  <2>5. Counting'
    BY <1>1, <2>2, <2>3, <2>4 DEF Counting
  <2>6. Taken'
    BY <1>1, <1>4, <2>2, <2>3 DEF Taken, FromServer
  <2>7. QED
    BY <2>5, <2>6 DEF Spacing
<1>7. ASSUME NEW p \in Peers, NEW c \in Channels, NEW type \in PingTypes, Ping(p, c, type)
      PROVE  Spacing'
  <2>1. UNCHANGED <<channels, server, hits, counted>> /\ pc' \notin Renewing
    BY <1>7 DEF Ping, Renewing
  <2>2. QED
    BY <1>1, <2>1 DEF Spacing, Counting, Taken
<1>8. CASE CheckPeerList
  <2>1. /\ channels' = {c \in channels : ~ServerGone(c)}
        /\ removed' = (removed \/ (pc \in Renewing /\ channel \notin channels'))
        /\ UNCHANGED <<pc, pinger, channel>>
    BY <1>8 DEF CheckPeerList
  <2>2. ASSUME NEW d \in channels'
        PROVE  /\ d \in channels /\ server'[d] = server[d] /\ counted'[d] = counted[d]
               /\ hits'[d][server[d]] = hits[d][server[d]]
    <3>1. d \in channels /\ d \in Channels /\ ~ServerGone(d)
      BY <1>1, <2>1 DEF TypeOK
    <3>2. server[d] \in peerList[d] \ Inactive(d) /\ server[d] \in Peers
      BY <1>1, <3>1 DEF ServerGone, TypeOK
    <3>3. QED
      BY <1>8, <3>1, <3>2 DEF CheckPeerList
  <2>3. Counting'
    BY <1>1, <2>2 DEF Counting
  <2>4. Taken'
    <3> SUFFICES ASSUME ~removed', pc' \in Renewing
                 PROVE  FromServer' /\ (pc' # "test" => hits'[channel'][pinger'] = 0)
      BY DEF Taken
    <3>1. ~removed /\ pc \in Renewing /\ channel \in channels'
      BY <2>1
    <3>2. FromServer /\ (pc # "test" => hits[channel][pinger] = 0)
      BY <1>1, <3>1 DEF Taken
    <3>3. QED
      BY <2>1, <2>2, <3>1, <3>2 DEF FromServer
  <2>5. QED
    BY <2>3, <2>4 DEF Spacing
<1>9. CASE HandleReport
  <2>1. channel \in Channels /\ pinger \in Peers
    BY <1>1, <1>9 DEF HandleReport, LogReport, CopyEntry, CountReport, TestServer, TestHitCount,
                      RenewOUTALL, ConvertClasses, SetHitCount, Control, Renewing
  <2>2. Touch(channel, pinger) => server' = server
    BY <1>1, <2>1, TouchKeepsServed
  <2>3. server' = server
    BY <1>9, <2>2 DEF HandleReport, LogReport, CopyEntry, CountReport, TestServer, TestHitCount,
                      RenewOUTALL, ConvertClasses, SetHitCount
  <2>4. channels' \in {channels, channels \cup {channel}}
    BY <1>9 DEF HandleReport, LogReport, CopyEntry, CountReport, TestServer, TestHitCount,
                RenewOUTALL, ConvertClasses, SetHitCount, Touch
  <2>5. ASSUME NEW d \in channels', server'[d] # None
        PROVE  d \in channels /\ d \in Channels /\ server'[d] = server[d] /\ server[d] \in Peers
    BY <1>1, <2>1, <2>3, <2>4, <2>5 DEF Served, NoOldServer, TypeOK, Peers
  <2>6. UNCHANGED <<hits, counted>> => Counting'
    BY <1>1, <2>5 DEF Counting
  <2>7. pc' \notin Renewing => Taken'
    BY DEF Taken
  <2>8. FromServer /\ UNCHANGED <<pinger, channel>> => FromServer'
    BY <2>3, <2>4 DEF FromServer
  <2>9. CASE LogReport \/ CopyEntry
    BY <2>6, <2>7, <2>9 DEF LogReport, CopyEntry, Done, Renewing, Spacing
  <2>10. CASE CountReport
    <3>1. /\ hits' = [hits EXCEPT ![channel][pinger] = DecHit_count(@)]
          /\ counted' = IF FromServer /\ counted[channel] < HitCount
                        THEN [counted EXCEPT ![channel] = @ + 1] ELSE counted
          /\ pc' = "server"
      BY <2>10 DEF CountReport
    <3>2. ASSUME NEW d \in channels', server'[d] # None
          PROVE  hits'[d][server'[d]] + counted'[d] >= HitCount
      <4>1. /\ d \in channels /\ d \in Channels /\ server'[d] = server[d] /\ server[d] \in Peers
            /\ hits[d][server[d]] + counted[d] >= HitCount
        BY <1>1, <2>5, <3>2 DEF Counting
      <4>2. hits[d][server[d]] \in Nat /\ counted[d] \in Nat
        BY <1>1, <4>1 DEF TypeOK
      <4>3. CASE d = channel /\ server[d] = pinger
        <5>1. FromServer
          BY <4>1, <4>3 DEF FromServer
        <5>2. hits'[d][server'[d]] = DecHit_count(hits[d][server[d]])
          BY <1>1, <2>1, <3>1, <4>1, <4>3 DEF TypeOK
        <5>3. counted'[d] = IF counted[d] < HitCount THEN counted[d] + 1 ELSE counted[d]
          BY <1>1, <2>1, <3>1, <4>3, <5>1 DEF TypeOK
        <5>4. QED
          BY <4>1, <4>2, <5>2, <5>3 DEF DecHit_count
      <4>4. CASE ~(d = channel /\ server[d] = pinger)
        <5>1. hits'[d][server'[d]] = hits[d][server[d]]
          BY <1>1, <2>1, <3>1, <4>1, <4>4 DEF TypeOK
        <5>2. counted'[d] = counted[d]
          BY <1>1, <2>1, <3>1, <4>1, <4>4 DEF TypeOK, FromServer
        <5>3. QED
          BY <4>1, <5>1, <5>2
      <4>5. QED
        BY <4>3, <4>4
    <3>3. QED
      BY <2>7, <3>1, <3>2 DEF Spacing, Counting, Renewing
  <2>11. CASE TestServer
    <3>1. /\ UNCHANGED <<hits, counted>>
          /\ pc' \in Renewing => pc' = "test" /\ FromServer /\ UNCHANGED <<pinger, channel>>
      BY <2>11 DEF TestServer, Done, Renewing
    <3>2. QED
      BY <2>6, <2>8, <3>1 DEF Spacing, Taken
  <2>12. CASE TestHitCount
    <3>1. /\ UNCHANGED <<hits, counted>> /\ pc \in Renewing
          /\ pc' \in Renewing => PeriodOver(channel, pinger) /\ UNCHANGED <<pinger, channel, removed>>
      BY <2>12 DEF TestHitCount, Done, Renewing
    <3>2. QED
      BY <1>1, <2>6, <2>8, <3>1 DEF Spacing, Taken, PeriodOver
  <2>13. CASE RenewOUTALL \/ ConvertClasses
    <3>1. /\ UNCHANGED <<hits, counted, pinger, channel, removed>>
          /\ pc \in Renewing \ {"test"}
      BY <2>13 DEF RenewOUTALL, ConvertClasses, Renewing
    <3>2. QED
      BY <1>1, <2>6, <2>8, <3>1 DEF Spacing, Taken
  <2>14. CASE SetHitCount
    <3>1. /\ hits' = [hits EXCEPT ![channel][pinger] = HitCount]
          /\ counted' = IF FromServer THEN [counted EXCEPT ![channel] = 0] ELSE counted
          /\ pc' \notin Renewing
      BY <2>14 DEF SetHitCount, Done, Renewing
    <3>2. ASSUME NEW d \in channels', server'[d] # None
          PROVE  hits'[d][server'[d]] + counted'[d] >= HitCount
      <4>1. /\ d \in channels /\ d \in Channels /\ server'[d] = server[d] /\ server[d] \in Peers
            /\ hits[d][server[d]] + counted[d] >= HitCount
        BY <1>1, <2>5, <3>2 DEF Counting
      <4>2. CASE d = channel /\ server[d] = pinger
        <5>1. FromServer
          BY <4>1, <4>2 DEF FromServer
        <5>2. hits'[d][server'[d]] = HitCount /\ counted'[d] = 0
          BY <1>1, <2>1, <3>1, <4>1, <4>2, <5>1 DEF TypeOK
        <5>3. QED
          BY <5>2
      <4>3. CASE ~(d = channel /\ server[d] = pinger)
        <5>1. hits'[d][server'[d]] = hits[d][server[d]] /\ counted'[d] = counted[d]
          BY <1>1, <2>1, <3>1, <4>1, <4>3 DEF TypeOK, FromServer
        <5>2. QED
          BY <4>1, <5>1
      <4>4. QED
        BY <4>2, <4>3
    <3>3. QED
      BY <2>7, <3>1, <3>2 DEF Spacing, Counting
  <2>15. QED
    BY <1>9, <2>9, <2>10, <2>11, <2>12, <2>13, <2>14 DEF HandleReport
<1>10. QED
  BY <1>5, <1>6, <1>7, <1>8, <1>9 DEF Next, Contact, Halted

LEMMA NextKeeps ==
  ASSUME IInv, [Next]_vars PROVE IInv'
BY NextKeepsTypes, NextKeepsServed, NextKeepsSpacing DEF IInv, Served

\* The types, for any number of channels and peers.
THEOREM TypeCorrect == Spec => []TypeOK
<1>1. Init => IInv
  BY InitEstablishes
<1>2. IInv /\ [Next]_vars => IInv'
  BY NextKeeps
<1>3. IInv => TypeOK
  BY DEF IInv
<1>4. QED
  BY <1>1, <1>2, <1>3, PTL DEF Spec

\* A channel lives exactly as long as its server: CheckPeerList removes both
\* together, and the lookups of HandlePingMessage outside the lock create only
\* channels without a server and never replace the entry of one.
THEOREM ServersAreListed == Spec => []ServerListed
<1>1. Init => IInv
  BY InitEstablishes
<1>2. IInv /\ [Next]_vars => IInv'
  BY NextKeeps
<1>3. IInv => ServerListed
  BY DEF IInv
<1>4. QED
  BY <1>1, <1>2, <1>3, PTL DEF Spec

\* A renewal is never early nor repeated: whatever comes between the decrement of the
\* server's counter, its test, RenewOUTALL and the reset, HitCount reports of the server were
\* counted since the last renewal, unless the channel was removed under the report.
THEOREM RenewalsSpaced == Spec => RenewalsAreSpaced
<1>1. Init => IInv
  BY InitEstablishes
<1>2. IInv /\ [Next]_vars => IInv'
  BY NextKeeps
<1>3. IInv => (pc = "renew" => removed \/ (FromServer /\ counted[channel] >= HitCount))
  <2> SUFFICES ASSUME IInv, pc = "renew", ~removed
               PROVE  FromServer /\ counted[channel] >= HitCount
    OBVIOUS
  <2>1. FromServer /\ hits[channel][pinger] = 0
    BY DEF IInv, Spacing, Taken, Renewing
  <2>2. /\ channel \in channels /\ channel \in Channels /\ server[channel] = pinger
        /\ pinger \in Peers /\ pinger # None
    BY <2>1, BootstrapAssumption DEF IInv, TypeOK, Control, FromServer, Renewing
  <2>3. hits[channel][server[channel]] + counted[channel] >= HitCount
    BY <2>2 DEF IInv, Spacing, Counting
  <2>4. QED
    BY <2>1, <2>2, <2>3, BootstrapAssumption DEF IInv, TypeOK
<1>4. QED
  BY <1>1, <1>2, <1>3, PTL DEF Spec, RenewalsAreSpaced

(***************************************************************************)
(* Bootstrap implements Membership.                                        *)
(***************************************************************************)
LEMMA InvariantHolds == Spec => []IInv
<1>1. Init => IInv
  BY InitEstablishes
<1>2. IInv /\ [Next]_vars => IInv'
  BY NextKeeps
<1>3. QED
  BY <1>1, <1>2, PTL DEF Spec

\* How long each member has been silent, as Membership counts it.
Silence == [c \in Channels |-> [p \in Members(c) |-> TTLChannel - ttl[c][p]]]

Same == UNCHANGED <<server, Silence>>

LEMMA SameMeans == Same <=> UNCHANGED Membership!vars
BY DEF Same, Silence, Membership!vars

LEMMA SilenceIs ==
  /\ \A c \in Channels : Silence[c] = [p \in Members(c) |-> TTLChannel - ttl[c][p]]
  /\ \A c \in Channels : DOMAIN Silence[c] = Members(c)
  /\ \A c \in Channels : \A p \in Members(c) : Silence[c][p] = TTLChannel - ttl[c][p]
BY DEF Silence

\* A step that leaves servers, members and their leases alone is no step of Membership.
LEMMA NothingChanges ==
  ASSUME server' = server,
         \A c \in Channels : Members(c)' = Members(c),
         \A c \in Channels : \A p \in Members(c) : ttl'[c][p] = ttl[c][p]
  PROVE  Same
BY DEF Same, Silence

\* What a lookup inserts is no member: it has no Peer, or its channel has no server.
LEMMA TouchChangesNothing ==
  ASSUME TypeOK, Served, NEW c \in Channels, NEW p \in Peers, Touch(c, p), ttl' = ttl
  PROVE  Same
<1>1. server' = server
  BY TouchKeepsServed
<1>2. \A d \in Channels : peerList'[d] \ nullPeer'[d] = peerList[d] \ nullPeer[d]
  BY DEF Touch, TypeOK
<1>3. QED
  BY <1>1, <1>2, NothingChanges DEF Members

LEMMA CreateOpens ==
  ASSUME IInv, NEW p \in Peers, NEW c \in Channels, CreateChannel(p, c)
  PROVE  Membership!Open(p, c)
<1> USE BootstrapAssumption
<1>1. TypeOK /\ server[c] = None /\ p \in Servers
  BY DEF IInv, NoOldServer, CreateChannel
<1>2. server' = [server EXCEPT ![c] = p] /\ p # None
  BY DEF CreateChannel, Peers
<1>3. \A d \in Channels : Members(d)' = IF d = c THEN {p} ELSE Members(d)
  BY <1>1, <1>2 DEF CreateChannel, Members, TypeOK
<1>4. ttl'[c][p] = TTLChannel /\ \A d \in Channels : d # c => ttl'[d] = ttl[d]
  BY <1>1 DEF CreateChannel, TypeOK
<1>5. Silence'[c] = [q \in {p} |-> 0]
  BY <1>3, <1>4 DEF Silence
<1>6. Silence' = [Silence EXCEPT ![c] = Silence'[c]]
  BY <1>3, <1>4 DEF Silence
<1>7. QED
  BY <1>1, <1>2, <1>5, <1>6 DEF Membership!Open, Membership!IsOpen, Silence

\* Who enters a channel that has no server is not counted.
LEMMA ConnectJoins ==
  ASSUME IInv, NEW p \in Peers, NEW c \in Channels, Connect(p, c)
  PROVE  Membership!Join(p, c) \/ Same
<1> USE BootstrapAssumption
<1>1. CASE Crash
  BY <1>1, NothingChanges DEF Crash, list, Members
<1>2. ASSUME NEW s, AddPeer(p, c, s), ~HasPeer(c, p)
      PROVE  Membership!Join(p, c) \/ Same
  <2>1. TypeOK /\ server' = server /\ c \in channels /\ p \in Viewers
    BY <1>2 DEF IInv, Connect, AddPeer
  <2>2. \A d \in Channels :
          Members(d)' = IF d = c /\ server[c] # None THEN Members(d) \cup {p} ELSE Members(d)
    BY <1>2, <2>1 DEF AddPeer, Members, TypeOK
  <2>3. /\ ttl'[c][p] = TTLChannel /\ \A q \in Peers \ {p} : ttl'[c][q] = ttl[c][q]
        /\ \A d \in Channels : d # c => ttl'[d] = ttl[d]
        /\ Members(c) \subseteq Peers
    BY <1>2, <2>1 DEF AddPeer, Members, TypeOK
  <2>4. p \notin Members(c)
    BY <1>2, <2>1 DEF HasPeer, Members
  <2>5. CASE server[c] = None
    <3>1. \A q \in Members(c) : ttl'[c][q] = ttl[c][q]
      BY <2>4, <2>3
    <3>2. QED
      BY <2>1, <2>2, <2>5, <2>3, <3>1, NothingChanges
  <2>6. CASE server[c] # None
    <3>1. Silence'[c] = [q \in Members(c) \cup {p} |-> IF q = p THEN 0 ELSE Silence[c][q]]
      BY <2>2, <2>4, <2>6, <2>3 DEF Silence
    <3>2. Silence' = [Silence EXCEPT ![c] = Silence'[c]]
      BY <2>2, <2>3 DEF Silence
    <3>3. QED
      BY <2>1, <2>4, <2>6, <3>1, <3>2
      DEF Membership!Join, Membership!IsOpen, Membership!Members, Membership!Heard, Silence
  <2>7. QED
    BY <2>5, <2>6
<1>3. QED
  BY <1>1, <1>2 DEF Connect

LEMMA PingRenews ==
  ASSUME IInv, NEW p \in Peers, NEW c \in Channels, NEW type \in PingTypes, Ping(p, c, type)
  PROVE  Membership!Renew(p, c) \/ Same
<1> USE BootstrapAssumption
<1>1. CASE Crash
  BY <1>1, NothingChanges DEF Crash, list, Members
<1>2. CASE ttl' = [ttl EXCEPT ![c][p] = TTLChannel] /\ UNCHANGED <<server, peerList, nullPeer>>
  <2>1. TypeOK /\ HasPeer(c, p)
    BY DEF IInv, Ping
  <2>2. \A d \in Channels : Members(d)' = Members(d)
    BY <1>2 DEF Members
  <2>3. /\ ttl'[c][p] = TTLChannel /\ \A q \in Peers \ {p} : ttl'[c][q] = ttl[c][q]
        /\ \A d \in Channels : d # c => ttl'[d] = ttl[d]
        /\ Members(c) \subseteq Peers
    BY <1>2, <2>1 DEF Members, TypeOK
  <2>4. CASE server[c] = None
    <3>1. Members(c) = {}
      BY <2>4 DEF Members
    <3>2. QED
      BY <1>2, <2>2, <2>3, <3>1, NothingChanges
  <2>5. CASE server[c] # None
    <3>1. p \in Members(c)
      BY <2>1, <2>5 DEF HasPeer, Members
    <3>2. Silence'[c] = [q \in Members(c) \cup {p} |-> IF q = p THEN 0 ELSE Silence[c][q]]
      BY <2>2, <2>3, <3>1 DEF Silence
    <3>3. Silence' = [Silence EXCEPT ![c] = Silence'[c]]
      BY <2>2, <2>3 DEF Silence
    <3>4. QED
      BY <1>2, <3>1, <3>2, <3>3 DEF Membership!Renew, Membership!Members, Membership!Heard, Silence
  <2>6. QED
    BY <2>4, <2>5
<1>3. QED
  BY <1>1, <1>2 DEF Ping

LEMMA CheckChecks ==
  ASSUME IInv, CheckPeerList
  PROVE  Membership!Check \/ Same
<1> USE BootstrapAssumption
<1>1. CASE Crash
  BY <1>1, NothingChanges DEF Crash, list, Members
<1>2. CASE ~Crash
  <2>1. TypeOK /\ NoOldServer
    BY DEF IInv
  <2> DEFINE kept == {c \in channels : ~ServerGone(c)}
             left == [c \in Channels |-> IF c \in kept THEN peerList[c] \ Inactive(c) ELSE {}]
  <2>2. /\ peerList' = left
        /\ nullPeer' = [c \in Channels |-> nullPeer[c] \cap left[c]]
        /\ server' = [c \in Channels |-> IF c \in kept THEN server[c] ELSE None]
        /\ ttl' = [c \in Channels |-> [p \in Peers |->
                     IF p \in left[c] THEN DecTTLChannel(ttl[c][p]) ELSE TTLChannel]]
    BY <1>2 DEF CheckPeerList
  <2>3. ASSUME NEW c \in Channels
        PROVE  Membership!Staying(c) = Members(c) \ Inactive(c)
    <3>1. \A p \in Members(c) : p \in peerList[c] /\ ttl[c][p] \in 1 .. TTLChannel
      BY <2>1 DEF Members, TypeOK
    <3>2. \A p \in Members(c) :
            Silence[c][p] + 1 < TTLChannel <=> p \notin Inactive(c)
      BY <3>1, SilenceIs DEF Inactive, DecTTLChannel
    <3>3. Membership!Staying(c) = {p \in Members(c) : Silence[c][p] + 1 < TTLChannel}
      BY SilenceIs DEF Membership!Staying, Membership!Members, Silence
    <3>4. QED
      BY <3>2, <3>3
  <2>4. ASSUME NEW c \in Channels
        PROVE  Membership!StaysOpen(c) <=> c \in kept
    <3>1. server[c] # None => Members(c) = peerList[c] \ nullPeer[c]
      BY DEF Members
    <3>2. None \notin peerList[c] /\ (c \notin channels => server[c] = None)
      BY <2>1 DEF TypeOK, NoOldServer
    <3>3. CASE server[c] = None
      BY <3>2, <3>3, <2>3 DEF Membership!StaysOpen, ServerGone, Members
    <3>4. CASE server[c] # None
      BY <3>1, <3>2, <3>4, <2>3 DEF Membership!StaysOpen, ServerGone
    <3>5. QED
      BY <3>3, <3>4
  <2>5. server' = [c \in Channels |-> IF Membership!StaysOpen(c) THEN server[c] ELSE None]
    BY <2>2, <2>4
  <2>6. ASSUME NEW c \in Channels
        PROVE  Silence'[c] = IF Membership!StaysOpen(c)
                               THEN [p \in Membership!Staying(c) |-> Silence[c][p] + 1]
                               ELSE Membership!Nobody
    <3>1. CASE c \in kept
      <4>1. server'[c] = server[c] /\ server[c] # None
        BY <2>1, <2>2, <3>1 DEF ServerGone, TypeOK
      <4>2. /\ Members(c)' = Members(c) \ Inactive(c)
            /\ \A p \in Members(c)' : ttl'[c][p] = ttl[c][p] - 1 /\ ttl[c][p] \in 1 .. TTLChannel
        BY <2>1, <2>2, <3>1, <4>1 DEF Members, TypeOK, DecTTLChannel
      <4>3. Silence'[c] = [p \in Members(c) \ Inactive(c) |-> Silence[c][p] + 1]
        BY <4>2 DEF Silence
      <4>4. QED
        BY <2>3, <2>4, <3>1, <4>3
    <3>2. CASE c \notin kept
      <4>1. Members(c)' = {}
        BY <2>2, <3>2 DEF Members
      <4>2. Silence'[c] = [p \in {} |-> 0]
        BY <4>1 DEF Silence
      <4>3. QED
        BY <2>4, <3>2, <4>2 DEF Membership!Nobody
    <3>3. QED
      BY <3>1, <3>2
  <2>7. Silence' = [c \in Channels |-> IF Membership!StaysOpen(c)
                                         THEN [p \in Membership!Staying(c) |-> Silence[c][p] + 1]
                                         ELSE Membership!Nobody]
    BY <2>6 DEF Silence
  <2>8. QED
    BY <2>5, <2>7 DEF Membership!Check, Silence
<1>3. QED
  BY <1>1, <1>2

\* What U does after it released the mutex.
LEMMA ReportChangesNothing ==
  ASSUME IInv, HandleReport
  PROVE  Same
<1> USE DEF list, local
<1>1. TypeOK /\ Control /\ Served
  BY DEF IInv, Served
<1>2. CASE Crash
  BY <1>2, NothingChanges DEF Crash, Members
<1>3. CASE LogReport
  BY <1>2, <1>3, NothingChanges DEF LogReport, Members
<1>4. CASE CopyEntry
  BY <1>1, <1>4, TouchChangesNothing DEF CopyEntry, Control
<1>5. CASE CountReport
  BY <1>1, <1>5, TouchChangesNothing DEF CountReport, Control
<1>6. CASE TestServer
  BY <1>2, <1>6, NothingChanges DEF TestServer, Members
<1>7. CASE RenewOUTALL
  BY <1>2, <1>7, NothingChanges DEF RenewOUTALL, Members
<1>8. CASE ConvertClasses
  BY <1>2, <1>8, NothingChanges DEF ConvertClasses, Members
<1>9. CASE SetHitCount
  BY <1>1, <1>9, TouchChangesNothing DEF SetHitCount, Control, Renewing
<1>10. CASE TestHitCount
  BY <1>1, <1>10, TouchChangesNothing DEF TestHitCount, Control, Renewing
<1>11. QED
  BY <1>3, <1>4, <1>5, <1>6, <1>7, <1>8, <1>9, <1>10 DEF HandleReport

LEMMA StepRefines ==
  ASSUME IInv, [Next]_vars
  PROVE  [Membership!Next]_(Membership!vars)
<1>1. Membership!Peers = Peers
  BY DEF Membership!Peers, Peers
<1>2. ASSUME NEW p \in Peers, NEW c \in Channels, Contact(p, c)
      PROVE  Same \/ Membership!Open(p, c) \/ Membership!Join(p, c) \/ Membership!Renew(p, c)
  BY <1>2, CreateOpens, ConnectJoins, PingRenews DEF Contact
<1>3. UNCHANGED vars => Same
  BY NothingChanges DEF vars, list, Members
<1>4. Halted => UNCHANGED vars
  BY DEF Halted
<1>5. QED
  BY <1>1, <1>2, <1>3, <1>4, CheckChecks, ReportChangesNothing, SameMeans
  DEF Next, Membership!Next

LEMMA InitRefines == Init => Membership!Init
<1> SUFFICES ASSUME Init
             PROVE  /\ server = [c \in Channels |-> None]
                    /\ Silence = [c \in Channels |-> Membership!Nobody]
  BY DEF Membership!Init, Silence
<1>1. server = [c \in Channels |-> None] /\ \A c \in Channels : Members(c) = {}
  BY DEF Init, Members
<1>2. QED
  BY <1>1 DEF Silence, Membership!Nobody

\* Every run of the bootstrap is one of Membership: reports change no membership, and
\* creating, connecting, pinging and the check are a step of it each.
THEOREM BootstrapImplementsMembership == Spec => ImplementsMembership
<1>1. IInv /\ [Next]_vars => [Membership!Next]_(Membership!vars)
  BY StepRefines
<1>2. QED
  BY <1>1, InitRefines, InvariantHolds, PTL DEF ImplementsMembership, Membership!Spec, Spec

\* Two servers that contend for a channel never broadcast in it one after the other
\* without a moment in which it has no members.
THEOREM ChannelsAreNeverHandedOver == Spec => Membership!NeverHandedOver
<1> DEFINE Kept == \A c \in Channels :
             Membership!IsOpen(c) =>
               server'[c] = server[c] \/ (~Membership!IsOpen(c)' /\ Silence'[c] = Membership!Nobody)
<1>1. ASSUME IInv, [Next]_vars
      PROVE  Kept \/ Same
  <2>1. ASSUME NEW p \in Peers, NEW d \in Channels, Membership!Open(p, d)
        PROVE  Kept
    BY <1>1, <2>1 DEF Membership!Open, Membership!IsOpen, IInv, TypeOK
  <2>2. ASSUME NEW p \in Peers, NEW d \in Channels,
               Membership!Join(p, d) \/ Membership!Renew(p, d)
        PROVE  Kept
    BY <2>2 DEF Membership!Join, Membership!Renew
  <2>3. CASE Membership!Check
    <3>1. Silence' = [c \in Channels |->
                        IF Membership!StaysOpen(c)
                          THEN [p \in Membership!Staying(c) |-> Silence[c][p] + 1]
                          ELSE Membership!Nobody]
      BY <2>3 DEF Membership!Check, Silence
    <3>2. QED
      BY <2>3, <3>1 DEF Membership!Check, Membership!IsOpen
  <2>4. QED
    BY <1>1, <2>1, <2>2, <2>3, StepRefines, SameMeans DEF Membership!Next, Membership!Peers, Peers
<1>2. IInv /\ [Next]_vars => [Kept]_(Membership!vars)
  BY <1>1, SameMeans
<1>3. QED
  BY <1>2, InvariantHolds, PTL DEF Membership!NeverHandedOver, Silence, Spec

\* Nobody is forgotten by an open channel in which it was heard of less than TTLChannel
\* checks ago, whatever the threads of the bootstrap do to its entry meanwhile.
THEOREM NobodyForgottenEarly == Spec => Membership!NobodyLeavesEarly
<1> DEFINE Kept == \A c \in Channels : \A p \in Membership!Members(c) :
             p \in Membership!Members(c)' \/ ~Membership!IsOpen(c)' \/ Silence[c][p] + 1 >= TTLChannel
<1>1. ASSUME IInv, [Next]_vars
      PROVE  Kept \/ Same
  <2>1. ASSUME NEW q \in Peers, NEW d \in Channels,
               Membership!Join(q, d) \/ Membership!Renew(q, d)
        PROVE  Kept
    <3>1. Silence' = [Silence EXCEPT ![d] = Membership!Heard(d, q)]
      BY <2>1 DEF Membership!Join, Membership!Renew, Silence
    <3>2. DOMAIN Membership!Heard(d, q) = Membership!Members(d) \cup {q}
      BY DEF Membership!Heard
    <3>3. \A c \in Channels : Membership!Members(c) \subseteq Membership!Members(c)'
      BY <3>1, <3>2 DEF Membership!Members, Silence
    <3>4. QED
      BY <3>3
  <2>2. ASSUME NEW q \in Peers, NEW d \in Channels, Membership!Open(q, d)
        PROVE  Kept
    <3>1. Silence' = [Silence EXCEPT ![d] = [x \in {q} |-> 0]]
      BY <2>2 DEF Membership!Open, Silence
    <3>2. Membership!Members(d) = {}
      BY <2>2 DEF Membership!Open, Membership!IsOpen, Membership!Members, Members
    <3>3. \A c \in Channels : Membership!Members(c) \subseteq Membership!Members(c)'
      BY <3>1, <3>2 DEF Membership!Members, Silence
    <3>4. QED
      BY <3>3
  <2>3. CASE Membership!Check
    <3> SUFFICES ASSUME NEW c \in Channels, NEW p \in Membership!Members(c),
                        Membership!IsOpen(c)', ~(Silence[c][p] + 1 >= TTLChannel)
                 PROVE  p \in Membership!Members(c)'
      OBVIOUS
    <3>1. Membership!StaysOpen(c)
      BY <2>3 DEF Membership!Check, Membership!IsOpen
    <3>2. Silence'[c] = [x \in Membership!Staying(c) |-> Silence[c][x] + 1]
      BY <2>3, <3>1 DEF Membership!Check, Silence
    <3>3. p \in Membership!Staying(c)
      <4>1. Silence[c][p] \in Int /\ TTLChannel \in Int
        BY <1>1, SilenceIs, BootstrapAssumption
        DEF Membership!Members, Silence, Members, IInv, TypeOK
      <4>2. QED
        BY <4>1 DEF Membership!Staying, Silence
    <3>4. DOMAIN Silence'[c] = Membership!Staying(c)
      BY <3>2
    <3>5. QED
      BY <3>3, <3>4 DEF Membership!Members, Silence
  <2>4. QED
    BY <1>1, <2>1, <2>2, <2>3, StepRefines, SameMeans DEF Membership!Next, Membership!Peers, Peers
<1>2. IInv /\ [Next]_vars => [Kept]_(Membership!vars)
  BY <1>1, SameMeans
<1>3. QED
  BY <1>2, InvariantHolds, PTL DEF Membership!NobodyLeavesEarly, Silence, Spec
=============================================================================
