# Verification of TVPP

TVPP is a peer-to-peer live streaming system. A *server* node cuts a video
stream into chunks, *viewer* nodes exchange the chunks over UDP with the
partners they have chosen among themselves, and a *bootstrap* process tells
nodes about each other over TCP. The source is in `src/src` (client,
bootstrap, common). This directory holds TLA+ modules translated from that
source, the TLC configurations that check them on small instances, and theorems
that TLAPS proves for every instance.

## 1. The system

### Processes and threads

A node (`client/main.cpp:340-353`) runs these threads:

| thread | what it does |
|---|---|
| UDPStart | receives datagrams, `UDPServer::Handle_recv` puts them into a queue |
| UDPReceive | takes them out and handles pings, requests, data (`HandleUDPMessage`) |
| UDPSend | takes messages out of the send queue, through a leaky bucket |
| CyclicTimers | every 100 ms: bucket and other timers, connector, disconnector, PeerRequester (TCP to the bootstrap), and once a second `CheckPeerList` |
| Ping | once a second composes pings to the partners and to the bootstrap |
| MontarListaPedidos | (viewer) creates requests for chunks and sends them |
| ConsomeMedia / FeedPlayer | (viewer) plays one chunk after the other |
| GerarDados | (server) produces chunks |

The bootstrap (`bootstrap/main.cpp:169-173`) runs the TCP server, UDPStart,
UDPReceive and, once a second, CheckPeerList; a logging thread only reads.

### Inventory

**Partner bookkeeping** (`client/PeerManager.cpp`, `common/PeerData.cpp`, the
ping and peer-list handlers of `client/client.cpp`, `Connector`,
`Disconnector`). State: `peerList`, a map from ids to `PeerData`; the active
lists In, Out and Out-FREE with their sizes; the leases (TTL) of each entry; the
cooldown maps; one mutex for `peerList` and one per list. Operations: `AddPeer`,
`ConnectPeer`, `ConnectSpecial` (replace the worst partner), `DisconnectPeer`,
`RemovePeer`, `CheckPeerList`, `SetNewMMaxActivePeersOut` (a bootstrap answer
resizes and trims a list), the connector and the disconnector. Hard: three
threads, several mutexes, decisions made under one of them and carried out
after it was released, map look-ups that insert. Correct when: lists respect
their sizes, partners respect their leases, silent partners go, every partner has
its data.

**Chunk identifiers** (`common/ChunkUniqueID.cpp`). Names (cycle, position) over
a ring; successor, order, subtraction in unsigned arithmetic. Correct when the
operators agree with the numbers that the names stand for.

**Media pipeline** (`MediaBuffer`, `Request`, and `HandleDataMessage`,
`MontarListaPedidos`, `ColocarNaListaDePedidos`, `FazPedidos`, `FeedPlayer`,
`HandleRequestMessage` of `client/client.cpp`). State: the ring of chunks with
its cycles and bit map, the request lists, the positions of requester and player
and of the newest chunk. Four threads; the lists are cleared without their
mutexes, the bit map is shared without one. Correct when: the newest chunk is not
lost to a late one, nothing is requested twice or for ever, resets leave nothing
behind, the player never hangs, what is sent is what was asked for.

**Bootstrap server** (`bootstrap/bootstrap.cpp`, `common/Channel.cpp`). State:
`channelList`, per channel its server, its peers with their leases, report
counters and sizes of the out lists. Operations: create and connect over TCP,
pings and performance reports over UDP, the expiry check. Hard: reports are
handled for the most part after `channelListMutex` was released. Correct when:
channels live as long as their server, silent peers are forgotten, the topology is
renewed at its period, named peers are suitable.

**Datagram transport** (`common/udp.cpp`, `common/Scheduler`,
`client/Temporizable/LeakyBucket.cpp`, `common/AddressedMessage.cpp`). State: a
queue per direction, in one of four disciplines; a bucket of tokens. Hard: tests
of emptiness outside the lock, notifications that may be lost, Round Robin's key
pointer, waits for tokens. Correct when: each message comes out once, in order and
in turn, and none stays behind.

**Dynamic topology classes** (`Channel::RenewOUTALL`, `NormalizeClasses`). State:
the ranking of the ordinary nodes by the chunks they sent, and the out size of each,
which tells its class (B, C, D, or a size of its own). Operations: a renewal walks
the ranking in three parts, one of them backwards, and moves nodes towards the class of
their part, at most a percentage at a time. Hard: integer division of small
numbers, loop ends that are met at one place only, convergence while nodes come, go
and overtake one another. Correct when: the loops stay in their part, a node changes
by one class per renewal, few change at a time, the classes settle.

**Lock order of a node**. Twelve kinds of mutexes besides those of the three active
lists; eight kinds of threads; nested sections that reach over functions (`IsPeerActive`
under `peerListMutex`, `EnqueueSend` under a list's mutex). Correct when: no circular
wait, and nothing is held while a thread waits for what is not in the node.

**Stream producer** (`GerarDados`) and **Ping thread**: their locking is part of the
lock order. **Selection strategies**, **Messages**, **TCP servers and sessions**,
**Statistics and logging**, **Configuration**, **Unused code** (`UdpBuffer`): not
modelled in modules of their own; section 8 says why.

### How the components interact

UDPReceive drives partner bookkeeping (pings) and the media pipeline (data,
requests); all they send goes through the transport's send queue, and all they
receive comes through its receive queue. The bootstrap's answers reach a node in
its CyclicTimers thread (`ConnectToBootstrap`, `client.cpp:196-239`) and change
partner bookkeeping (sizes, new peers, the connector) and the pipeline (the
position to start from). The requester reads the In list and the chunk maps of
the partners. Nested mutexes are taken in the order request list, old request
list, peer list, In, Out, Out-FREE.

## 2. Plan

In this order, the most important behaviour first:

1. `PeerManager`, `PeerManagerProofs`: done.
2. `ChunkUniqueID`, `ChunkUniqueIDProofs`: done.
3. `MediaPipeline` (on `ChunkUniqueID`), `MediaPipelineProofs`: done.
4. `Bootstrap`, `BootstrapProofs`: done.
5. `Mailbox` (abstract), `Transport` (implements it), `TransportProofs`: done.
6. `TransportRefinement`, the proof that every step of `Transport` is a step or a
   stutter of `Mailbox`, for all four schedulers: done.
7. `TopologyClasses`, `TopologyProofs`: done.
8. `LockOrder`, `LockOrderProofs`: done.
9. `Membership` (abstract), what a node may assume of the bootstrap, implemented by
   `Bootstrap` with its unlocked reports, and the proof of it in `BootstrapProofs`: done.

Left:

10. `Partnership`: composes `PeerManager` with the requester, so that candidates
   are real partners; pending-request counters, stale `PeerData` pointers,
   leftovers of `oldRequestList`.
11. `Producer`: requests served from a place of the ring that `GerarDados` is
    refilling.

## 3. Modules

### PeerManager

Two threads: `R` (UDPReceive) and `T` (CyclicTimers); UDPSend appears as the one
action `CountSentChunk`. A step is a critical section, or one unlocked access:
`ConnectPeer` is `CheckCooldown` (the map is read before the mutex of the list)
followed by `ConnectPeer`; `DisconnectPeer` is `Disconnect` followed by
`StartCooldown`; `CheckPeerList` is `BeginCheck`, `Scan`, then `DropExpired` and
`RemovePeer` per peer, then `EndCheck`. `peerListMutex` and `activeMutex` are
variables where they are held over more than one step. `peerList[p]` of an absent
key inserts an entry whose `Peer` is NULL: the helper `Touch` does so and
`nullPeer` holds the keys; a dereference is `Crash`. Leases are decremented
without `peerListMutex`, so a refresh during `Scan` may be lost (`RefreshTTL`).
Which partner has the smallest announced size, which served most, which
candidate comes first: ties and random choices are nondeterministic.

### ChunkUniqueID

The constructor, `IncID`, the comparisons and the two subtractions, over a ring
of `BufferSize` places and cycles of `CycleModulus` (2^32 in the code). `Ord` is
the reference: the number of the chunk in the stream.

### MediaPipeline

Threads `R` (a data message: `ReceiveData`, `TakeRequest` or `NobodyAsked`,
`MarkAvailable`), `Q` (one round of MontarListaPedidos: `CreateRequest`,
`UnsetNext` or `NobodyHasNext`, then `LockRequests`, `SendRequests`, and the
reset `AskPosition`, `ForgetRequests`), `P` (FeedPlayer: `FindMedia`, `PlayMedia`,
`WaitForMedia`, `GiveUpOnMedia` then `MissChunk`, ...), and the timers
(`Reposition`). FeedPlayer's soft reset (`client.cpp:1441-1468`) uses the positions
without a mutex, so it is six steps: `StartReset` tests the distance, `ReadLatest` and
`SetToLatest` read the two halves of the newest chunk's name apart, in either order,
`SubtractOffset` goes back by the offset, `ClearOld` and `ClearNew` empty the lists. The
history variable `left` remembers where the reset found the player, until a repositioning
or a change of the newest chunk's cycle falls into it; `target` is the half that was read. Bits of the map share words: `word` is the copy that a thread is
writing back, so a concurrent change may be lost. Clearing a list that another
thread walks, or deleting the message that the player writes, is a step that may
kill the process (`Crash`) or go well. The partners are the most general
environment: any produced chunk may arrive from any partner at any time, any
request may time out, candidates come and go. Time is replaced by
nondeterminism (`waited`, `failing`, `timedOut`).

### Membership and Bootstrap

`Membership` is the abstract specification, with no threads, locks or reports: of each
channel its `broadcaster` and how many checks each member has been silent; `Open`,
`Join`, `Renew`, and `Check`, which turns out who was silent for `Patience` checks and
closes channels whose broadcaster went. The instance in `Bootstrap` maps
`broadcaster` to `server` and the silence of a member to what its lease has lost
(`TTLChannel - ttl`). A member has an entry with its Peer in a channel with a server, so
what `map[]` creates by accident is none, and the unlocked half of a report maps to stutters.


The TCP thread and CheckPeerList hold `channelListMutex` throughout, so each of
their handlers is one action. UDPReceive, `U`, holds it for the first half of
`HandlePingMessage` (`Ping`); each later use of `channelList` is an action
(`LogReport`, `CopyEntry`, `CountReport`, `TestServer`, `TestHitCount`, `RenewOUTALL`,
`ConvertClasses`, `SetHitCount`; the look-ups of lines 331-333, which all concern the
decrement, are the one step `CountReport`). Two history variables serve
`RenewalsAreSpaced`: `counted`, the reports counted for a channel since it was created or
renewed last, and `removed`, whether the checks removed the channel of the report in hand
after it passed the first test. Looking up an absent channel creates one whose
constructor sets nothing (`server = None`). Such a pointer is not initialised: the model
lets the process die when it is followed, or read a peer that is in no channel.
Out sizes are abstracted to *zero*, *own* (what the peer chose) and the classes B,
C, D; which ordinary nodes move to which class is left open.

### Mailbox and Transport

`Mailbox` is the abstract specification: a set of waiting messages, and for each the
messages of its address that are before it; `Enqueue`, `Take` and `Finish`. An
*ordered* mailbox takes a message only when none is before it. `Transport` is
the code: producers that push and then notify (two steps), the taker `C` that
tests the size, waits, chooses, locks and pops (each a step, because a push may
fall between them), then tests the age, waits for the bucket and sends. The
scheduler and the direction are chosen in `Init`. `Box` in `Transport` is the
refinement mapping: what waits in any queue, and who precedes whom in it
(`Ahead`).
`overtaken` is a ghost variable that records whom Round Robin has served while
an address waited.

### TopologyClasses

Nodes are the places 0, 1, ... of the ranking. `BeginRenewal`, `Visit` (one round of a
loop of `NormalizeClasses`) and `EndPass` are RenewOUTALL; `pc` names the part, `common`
and `contador` are the locals of the code. Between renewals nodes `Join` (with
any of `JoinSizes`), `Leave` and `Overtake`; a renewal of a list that changes under
it is in `Bootstrap`. `before` remembers the classes at the start of the
renewal for the properties.

### LockOrder

Each function of the node is the set of its *paths*: the mutexes it locks and unlocks,
in order, and its waits for something outside. Branches and early returns are
alternatives, loops none or one round, calls are substituted; what is independent is
a *section* of its own, which keeps the sets of paths small. A thread begins any
handler of its role, chooses a path for each section, and then acquires,
releases and waits as the path says; mutexes are not recursive. `scoped_lock`s are
released where they are unlocked or, at a return, with their scope.

`MCPeerManager`, `MCTransport` and `MCLockOrder` name constant values for TLC.

Operators marked `\* mutant` are faulty variants of the definition that follows
them; nothing uses them. Each property of a passing run was seen to fail when one
of them takes the place of its original: `PROJECT.json` lists the pairs.

## 4. Runs

Constants are named in the `.cfg` files. Deadlock is checked in every run; a
process that died stutters (`Halted`).

| run | properties | what it shows |
|---|---|---|
| `lists` | `TypeOK`, `ActiveBound`, `LeaseEnforced`, `LeaseNeedsPing` | In, Out and FREE lists respect their sizes, no partner outlives its lease, and nothing but its own accepted ping extends it, while pings, `CheckPeerList`, the connector, replacement of the worst partner and bootstrap answers that shrink Out and open FREE interleave. |
| `silent` | `SilentPartnerLeaves` | A partner that sends no more pings leaves the out lists for good, though the bootstrap may name it again and another peer wants its place. |
| `partner_data` | `ActivePeersHaveData`, violated | Finding 1. |
| `fresh_lease` | `ConnectedHasLease`, violated | Finding 2. |
| `media` | `TypeOK`, `RequestsAreBehind`, `RequestedOnce`, `BoundedTries`, `LatestIsHeld`, `PositionsAdvance`, `PlayerMovesOn` | Resets, repositionings, late and repeated chunks and timeouts leave the lists and the buffer consistent; player and requester go back only when the node is repositioned, or by a soft reset that a repositioning or a change of cycle falls into; the player leaves every position once a later chunk was received. |
| `media_served` | `ServesRequestedChunk`, violated | Finding 3. |
| `bootstrap_channels` | `TypeOK`, `ServerListed`, `RenewalsAreSpaced`, `ImplementsMembership`, `SilentPeerForgotten` | Two servers contend for a channel that two viewers join; reports are handled while channels disappear and come back, none changes who is a member or for how long, and the topology is renewed only when two reports of the server were counted. |
| `bootstrap_map` | `NoMapChannel`, violated | Finding 4. |
| `bootstrap_share` | `SharedPeersSuit`, violated | Finding 5. |
| `transport_queues` | `TypeOK`, `PopFindsMessage`, `RoundRobin`, `ImplementsMailbox`, `MessagesGetOut` | Four schedulers, both directions: every message comes out once, in its order and its turn; with FIFO and Round Robin none is left behind. |
| `lock_order` | `TypeOK`, `NoCircularWait`, `NothingHeldOutside`, `NobodyIsHeldUp` | Any two of the five threads that nest mutexes, each in any of its handlers, never block each other, and none keeps a mutex while it waits for player, bootstrap or datagrams. |
| `topology` | `TypeOK`, `StaysInPart`, `NoJump`, `FewMove`, `RenewalsConverge`, `ClassesSettle` | Renewals of up to seven nodes stay in their parts, move each node by one class and few at a time, never away from the class of its part; a renewal that finds something to do does some of it, and the classes settle once the ranking does. |

### Bounds, and why they are enough

* Two peers and lists of one or two places: with two, one list can be full while
  another peer wants in, two lists can have the same members (what finding 2 needs), and
  a peer can be in two lists at once. Leases of one or two steps are the
  shortest that can be refreshed before they end; `TTLFloor` stops the TTL of an
  entry that is still decremented after it expired, one below zero, which no test
  tells from lower values. `MaxSent` and `MaxShare` bound the count of chunks per
  peer and the peers in one answer. The proofs have none of these bounds except
  that they hold for every value of them.
* A ring of two places and a stream of three or more chunks: the stream goes round the ring, so a
  place is reused, positions wrap, and a late chunk of the previous cycle exists. A soft
  reset is then for the last chunk of the stream, so repositionings fall between its steps
  but no newer chunk does; that case is left to the theorem.
* Two servers and two viewers, one channel, leases of two seconds, a report
  period of two: a channel can be removed and created by another server while a
  report is handled, and `ShareSize` below the number of peers makes the selection cut.
* Four messages to three addresses, two to one of them: Round Robin has a
  cycle in which a key disappears and comes back; two requests in the reverse
  order exercise CDF; a message of the size of the bucket waits for two refills.
  A message may be sent again once it was finished, so the runs are not limited to
  four sends.
* Up to seven nodes and 30 percent: the parts have none, one or several nodes, the
  limit of changes rounds to 0, 1 and 2, so it ends a loop in some renewals and the
  end of the part does in others. (The default, 3 percent, changes nothing below 34 nodes.)
* Five threads, of which two are at work at a time: a circular wait of two is possible in
  every pair of handlers, also one of a thread with itself. Longer cycles, the other three roles
  and several threads of one role are left to the theorem, which has no bound. Of these three
  only UDPSend nests mutexes, and what it asks for then, others hold alone.

### Fairness

* `PeerManager`: CheckPeerList runs again and again, strongly fair because it waits for
  mutexes and shares its thread with the timers; every exchange with the
  bootstrap ends (the TCP session closes); a thread that waits for a mutex gets it
  eventually (strong fairness on the acquiring steps), because every critical
  section is finite; a ping that was taken is handled. Nothing is assumed of
  arriving messages or of the connector's timer.
* `MediaPipeline`: the player's thread runs (it needs `oldRequestListMutex`
  again and again, hence strong fairness), its writes to the player do not fail for
  ever (the player stays connected at last) and the receiver finishes the message it
  has taken. Nothing is assumed of requester, partners or the bootstrap.
* `Bootstrap`: CheckPeerList runs every second; a report that was taken is
  handled to its end.
* `LockOrder`: a thread on a path goes on, and gets a mutex that is free again and
  again (strong fairness per thread; every section is finite). Waits for the outside
  need never end, and a thread that is idle need never begin.
* `TopologyClasses`: renewals go on and begin again, because the server's reports do.
  Nodes move as they like; `ClassesSettle` says what follows when they stop.
* `Transport`: the taker runs unless it sleeps, a producer that pushed goes on to
  notify, and the timers refill the bucket. No fairness on pushes:
  `MessagesGetOut` says in its premise that the taker does not sleep for ever, that
  is, some thread sends again (the Ping thread does so every second), and that
  every message fits into the bucket. Without the first, the last message before a silence may
  stay in the queue (a notification sent between the test and the wait is lost);
  without the second, UDPSend waits for ever.

## 5. Findings

Disagreements between the code and what its comments say, each shown by a run:

1. `PeerManager.cpp:383`: `CheckPeerList` decides whom to remove, releases the
   mutexes, then removes. A ping in between leaves a partner without data.
2. `PeerManager.cpp:125`: `ConnectPeer` compares lists by content to choose which
   lease to set; a new Out partner may keep an old lease.
3. `client.cpp:623`: the place of a chunk may hold the chunk of the previous cycle,
   and is sent in its stead.
4. `bootstrap.cpp:277`: a report handled after its channel was removed creates a channel
   through `map[]`, which `Channel.cpp:13` means to avoid. In the
   trace the report is the server's own, held up for a whole TTL between its two halves.
5. `Channel.cpp:323`: with fewer suitable peers than may be named, `SelectPeerList`
   copies past the end of its vector.

Seven observations, without a run of their own:

* `AddressedMessage.cpp:25` divides microseconds as integers, so the age of a message is the
  number of times that the clock's second turned, not half seconds as
  `client.cpp:1624` has it. `GetAge` in `Transport` models this.
* `client.cpp:1291` treats `maxRequestAttempt == -1` as a case of its own (give up when the
  player's buffer runs low), but the other half of the condition,
  `attempts >= maxRequestAttempt`, is then always true: every request is given up at
  its first timeout. `GivesUp` in `MediaPipeline` has both halves, and `BoundedTries`
  is stated for positive limits.
* `main.cpp:32` of the bootstrap calls the percentage that "que pode alterar de classe em
  cada classe" (that may change class in each class); the part of C
  converts all its nodes, without a limit. `FewMove` is stated for the other two.
* The backward loop of the part of B ends at `start + 1`, before the first two nodes of the
  part, so these keep whatever class they have. `Settled` leaves them out.
* `bootstrap.cpp:331-343`: when a channel is removed and created again while a report of
  its old server is between its tests and the renewal, the report renews the topology of
  the new channel, long before that one's reports were counted. `RenewalsAreSpaced` exempts
  such a report (`removed`).
* `client.cpp:1441-1462`: a soft reset that a repositioning falls into overwrites the new
  position, or subtracts the offset from it; one that reads the cycle before the newest chunk
  goes on to the next and the position after it (or the reverse) lands a ring away. Either may
  send the player back. `PositionsAdvance` exempts these (`left = NoChunk`).
* `client.cpp:1461`: nothing keeps the offset below the size of the ring. It is three seconds
  of stream against 1600 chunks by default; with a longer one a soft reset would go back.

## 6. Proofs

Every theorem is for all values of the constants that satisfy the named
assumptions of its module (`PeersAssumption`, `TTLAssumption`, `SizesAssumption`,
`ConfigAssumption`; `RingAssumption`; `PipelineAssumption`;
`BootstrapAssumption`; `TransportAssumption`;
`ThreadsAssumption`; `TopologyAssumption`). TLC evaluates these assumptions in
the runs.

**PeerManagerProofs.** `TypeCorrect`: types, and `Control`, what a thread's place
says of its arguments and mutexes; one lemma per group of actions.
`ListsAreBounded`: `ActiveBound` is inductive given the types, because the test for
a full list and the insertion are one critical section (`EnterKeepsBound`), and
the size is lowered by the thread that will trim (`pc = "trim"`). Steps that
touch neither lists nor sizes are handled once, by `StepsAreQuiet`. `LeasesEnd`:
`LeaseEnforced` names the three places where an expired partner may still be in a list.
`LeasesAreEarned`: of the steps that are not quiet, four write leases; `Scan` lowers them,
`RefreshTTL` and the entry of a ping's sender are the partner's own doing, `RemovePeer`
takes the entry away, and the connector lets in only who is not yet in the In list
(`EnteringEarns`), so it touches no lease of a partner. Together with `LeasesEnd` this is
the safety part of `SilentPartnerLeaves`: without a ping a lease can only run out, and
when it has, the partner is being dropped.

**ChunkUniqueIDProofs.** `IncIDIsSuccessor`, `OrderIsNumeric`,
`OneCycleMeansOneRing`, `ShortOffset`: each operator in terms of `Ord`. The last
one states the borrow from a cycle that is not there: near the beginning of the
stream the result is one ring too far ahead.

**MediaPipelineProofs.** `TypeCorrect`; `NewestIsHeld` from the strengthening
`Held` (a place holds a chunk of its position and the cycle noted for it; a chunk in hand is
not older than what its place holds); `AllRequestsAreBehind` and
`NoSecondRequest` from `Orderly`, since a new request is for `requestPosition`,
which all others are before; `TriesAreBounded` from `NewOrTriedLess`.
`StreamGoesForward` is an action property. `InStream` says that what the ring holds, the
newest chunk received and the chunk about to be played or skipped are chunks of the stream, so
that comparisons are numeric (`OrderIsNumeric`) and `IncID` gives the next number without
overflow (`NextNumber`): each such move is one step on (`AdvanceIsNext`).
A soft reset needs more: `ResetIsAhead` carries from step to step that the newest chunk is a
ring or more after where the player was found (`RingAfterLeft`, from the test by
`BehindByRing`), as is what the reset has read or set, unless it was disturbed. As the
offset is shorter than the ring, the last subtraction ends after that place (`ResetEnds`);
`StepsForward` is all other steps. That the offset is shorter is an assumption
(`PipelineAssumption`), which the code does not check. All these theorems hold for
any buffer size, any number of partners and any initial content of the
uninitialised cycles.

**BootstrapProofs.** `TypeCorrect`, `ServersAreListed`, `RenewalsSpaced`, from
`IInv`. `Control` relates U's place to its report; `NoOldServer` says that absent
channels have no server, needed because the server of a channel that `Touch` creates
must not be the old one. `RenewalsSpaced` rests on two more: `Counting`, a server's counter
and the reports counted since the last renewal add up to at least `HitCount`, and `Taken`,
a report that passed the tests found the server's counter at zero and nobody has set it
since, unless the channel was removed. `BootstrapImplementsMembership`: `Spec => ImplementsMembership`,
from the same invariant. `SilenceIs` and `SameMeans` reduce a stutter of `Membership`
to "same servers, same members, same leases of members"; `TouchChangesNothing` and
`ReportChangesNothing` show it of every use of `channelList` after its mutex was
released, because what those create has no server or no Peer; one lemma each maps
channel creation, connection, the ping and the check to `Open`, `Join`, `Renew` and
`Check`. Two results follow for the nodes: `ChannelsAreNeverHandedOver` (two servers never
broadcast in a channel one after the other without it having closed, with no members,
in between) and `NobodyForgottenEarly` (an open channel turns out no member heard of less
than `TTLChannel` checks ago).

**TransportProofs.** `TypeCorrect`, `PopIsSafe`, `TurnsAreFair`. `PopFindsMessage`
is inductive with the types, because only C removes messages. For `RoundRobin` the
strengthening `Turns` says that whoever was served while `b` waits lies behind
`b` in the cyclic order that starts at `keyPointer` (`InTurn`); `NextKeyIsNext`
shows that Pop moves to the first of the others in that order.

**TransportRefinement.** `Refinement`: `Spec => ImplementsMailbox`. A push or a pop
changes one queue, so the lemmas say what `Append`, an insertion and `Tail` do to the
set of messages in a queue and to the order of any two of them (`PutBetween`,
`PutAtEnd`, `TakeHead`). Two invariants carry this to the mailbox: `Single`, no
message is twice in a queue, and `Apart`, none is in two queues nor both waiting and in
hand. `NextRefines` then goes through the actions: `Push` is `Enqueue`, the pops
are `Take`, the end of a send is `Finish`, all else stutters.

**LockOrderProofs.** `NoDeadlock` from a rank of the mutexes: along every path a mutex is
locked only when all that is held has a smaller rank, and at a wait or the end of a
section nothing is held (`TypeCorrect` and the invariant that what is
left of a path is *orderly* for what the thread holds). In a circular wait the
thread that asks for the mutex of the highest rank would wait for one that holds it and
asks for a higher one. It is the part of `NobodyIsHeldUp` that needs no fairness. Each function's paths are shown orderly once, by composition of
those it calls. The theorem covers all eight roles, any number of threads and cycles of
any length.

**TopologyProofs.** For every number of nodes and every percentage below 100 (the
default is 3, `bootstrap/main.cpp`; from 100 on the backward loop may indeed
run off its part). `IInv` says that the loop is in its part with room for what the limit
still lets it visit (`RoomInB`: a part of B of fewer than two nodes means a
limit of 0), that the nodes before it are as they were (`Ahead`), and
that `contador` counts those that moved. `PartsAreKept`, `NobodyJumps` and
`ChangeIsBounded` follow. `EveryRenewalConverges` needs to know what a renewal has done when
it ends: `CInv` adds to `IInv` that every part behind the loop is walked (`Behind`,
`Walked`) and that a loop that changed nobody saw only nodes of the right class, so a
renewal that ends with nobody changed (`Changed`) found the classes settled. It is the
safety part of `ClassesSettle`: each renewal lowers the distance of the classes from the
ranking, which is finite, until there is none.

### Only model-checked

Liveness (`SilentPartnerLeaves`, `PlayerMovesOn`, `SilentPeerForgotten`,
`MessagesGetOut`, `NobodyIsHeldUp`, `ClassesSettle`): TLAPS proves no properties
that rest on fairness and `ENABLED`. For three of them the safety part of the argument
is a theorem (`LeasesEnd` and `LeasesAreEarned`, `NoDeadlock`, `EveryRenewalConverges`);
that the steps are taken again and again until the end remains to TLC. What a recursive
definition computes for every input would need induction over data, which the
provers at hand cannot instantiate; no module declares a RECURSIVE operator. The
violated properties are, of course, only refuted.

## 7. What the models abstract

* Identifiers, addresses and chunks are atoms or small records; byte layouts,
  checksums, logging and statistics are absent.
* Undefined behaviour is a choice between the outcomes that the build can produce: a lost
  bit, a lost decrement, the death of the process. A list torn by a concurrent clear,
  or a map torn by concurrent inserts and look-ups, is represented by its
  interleavings and, for the request lists, by `Crash`. After `Crash` nothing is claimed.
* Durations are nondeterministic, except for leases, cooldowns, hit counters and
  the clock of `Transport`.
* The start-up call of `ConnectToBootstrap` is covered as T's first step; servers
  never run the connector, which is a special case of `NewMaxes` and `MaxShare`.
* Positions of the stream are read and written whole, except where the soft reset reads the two
  halves of one (`client.cpp:1460`). The player's increment and its subtraction are one
  step each, and so are a test of the distance that finds less than a ring and the look for
  the chunk that follows it.
* `Offset` is a constant; the code computes it from the estimated chunk rate each time.
* The NULL entries that look-ups of `oldRequestList` insert (`client.cpp:686`, `1543`) are left
  out: no test tells them from no entry.
* In `PeerManager`, the walk of the disconnector over an unlocked list is one step.

## 8. Not modelled

* **Composition of partners and requester**, requests against a ring that the producer
  refills: left in the plan (10 and 11). Until then the partners are an
  environment that may do anything, so nothing is claimed about the counter of
  pending requests (`Request.cpp:68`) or pointers kept over an unlock (`client.cpp:1272`).
* **Growth without bound**: peers that were never partners stay in `peerList`
  (`PeerManager.cpp:201`), late answers in `oldRequestList`; no document states a bound.
* **SugestedClass**: a new node gets any of `JoinSizes` (C, unless the bootstrap was started
  with `--indicateClassPosition`); the free riders of a renewal are only counted.
* **Ping thread, stream producer**: what they lock is in `LockOrder`; the statistics and
  durations that they compute are not modelled.
* **Threads of the bootstrap**: they share one mutex, so they are in no lock order.
* **Selection strategies**: they order candidates; every order is allowed. The filter of
  `RandomStrategyWhitoutPoorBand` is `Suits` in `PeerManager`.
* **Messages, TCP sessions, statistics, configuration**: encoding, Boost.Asio
  plumbing, counters nobody reads, options read once (they are the CONSTANTS).
* **UdpBuffer**: not used by the program.
