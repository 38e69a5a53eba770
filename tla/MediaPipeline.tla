--------------------------- MODULE MediaPipeline ---------------------------
(***************************************************************************)
(* How a viewer obtains and plays the stream: the request list, the media  *)
(* buffer and the player of client/client.cpp, with Request.cpp and        *)
(* MediaBuffer.cpp.                                                        *)
(*                                                                         *)
(* Four threads share this state.  R, UDPReceive, stores the chunks that   *)
(* arrive; Q, MontarListaPedidos, creates requests and sends them; P,      *)
(* FeedPlayer, plays one position after the other; the cyclic timers       *)
(* reposition the node when the bootstrap answers.  Some of the state is   *)
(* protected by mutexes and some is not; a step is what no other thread    *)
(* observes half done.  A position is read and written as a whole, but for *)
(* the one place where the player reads its two halves apart.              *)
(*                                                                         *)
(* The partners (module PeerManager) are the environment: any of them may  *)
(* be a candidate for a chunk that exists at one look and not at the next, *)
(* and a chunk may arrive late, twice, or without having been asked for.   *)
(* Times are abstract: a request may time out, and the player may lose     *)
(* patience, at any moment.                                                *)
(***************************************************************************)
EXTENDS ChunkUniqueID, FiniteSets

CONSTANTS
  Partners,       \* the neighbours that may be in peerActiveIn
  NoChunk,        \* an empty place of the buffer
  NoMessage,
  Offset,         \* initialOffset: stream rate * tipOffsetTime, in chunks
  MaxAttempts,    \* maxRequestAttempt
  PlayerEnabled,  \* XPConfig "playerEnabled"
  FirstIDs,       \* what the array id, never initialised, may hold
  StreamLength    \* bound: the number of chunks of the stream

ASSUME PipelineAssumption ==
  /\ NoChunk \notin ChunkIDs
  /\ NoMessage \notin Partners \X ChunkIDs
  /\ Offset \in Positions
  /\ MaxAttempts \in Nat \cup {-1}
  /\ PlayerEnabled \in BOOLEAN
  /\ FirstIDs \subseteq 0 .. (CycleModulus - 1)
  /\ StreamLength \in Nat /\ StreamLength < (CycleModulus - 1) * BufferSize

VARIABLES
  requestPosition, playerDeliveryPosition, latestReceivedPosition,
  receiveRequestPosition, \* the next bootstrap answer repositions the node
  requestList,            \* requests, each with its attempts
  oldRequestList,         \* the keys of oldRequestList that hold a request; a NULL,
                          \* which look-ups insert, is told from no key by nobody
  buffer, id, map,        \* MediaBuffer: messages, cycles, available places
  pc,                     \* where each thread is
  arrived,                \* R: the data message in hand
  word,                   \* R, Q: the copy of map that the thread is changing
  failing,                \* Q: failureCount > 0
  waited,                 \* P: waitTime >= maxWaitTime
  posMedia,               \* P: the place of the chunk being played
  target,                 \* P: what a soft reset has read of latestReceivedPosition
  left                    \* history: where the soft reset found the player, until
                          \* another thread disturbs it

positions == <<requestPosition, playerDeliveryPosition, latestReceivedPosition,
               receiveRequestPosition>>
requests == <<requestList, oldRequestList>>
media == <<buffer, id, map>>
locals == <<arrived, word, failing, waited, posMedia>>
reset == <<target, left>>
vars == <<positions, requests, media, pc, locals, reset>>

Goto(th, where) == pc' = [pc EXCEPT ![th] = where]

Crashed == pc["R"] = "crashed"

\* The process dies.
Crash ==
  /\ pc' = [th \in {"R", "Q", "P"} |-> "crashed"]
  /\ UNCHANGED <<positions, requests, media, locals, reset>>

\* requestListMutex is held while R looks a request up and while Q sends.
ListInUse == pc["R"] = "find" \/ pc["Q"] = "sending"

\* The lists are cleared without their mutexes, under the feet of a thread that
\* walks them.
ClearCrashes == ListInUse /\ Crash

\* The chunks that the neighbours and the bootstrap may know.
Produced == {c \in ChunkIDs : Ord(c) < StreamLength}

(***************************************************************************)
(* MediaBuffer.                                                            *)
(***************************************************************************)
Available(pos) == buffer[pos] # NoChunk /\ pos \in map

IsHeldCopy(c) == Available(c.pos) /\ c.cycle = id[c.pos] \* mutant

\* HandleDataMessage takes a chunk with this name for a copy.
IsCopy(c) ==
  (Available(c.pos) /\ c.cycle = id[c.pos]) \/ c.cycle < id[c.pos]

\* A bit of map is changed by reading and writing a word that holds the other
\* bits: two threads that do so at once may lose one of the changes.
MapSeenBy(th) == {map, word[th]}

(***************************************************************************)
(* R: HandleDataMessage.                                                   *)
(***************************************************************************)
ReceiveData(p, c) ==
  /\ pc["R"] = "idle"
  /\ c \in Produced /\ ~IsCopy(c)
  /\ ~ListInUse
  /\ arrived' = <<p, c>>
  /\ Goto("R", "find")
  /\ UNCHANGED <<positions, requests, media, word, failing, waited, posMedia, reset>>

\* The request of the chunk, if its sender was asked for it.
Answered == {r \in requestList : r.chunk = arrived[2] /\ arrived[1] \in r.asked}

\* MediaBuffer::Insert deletes the message that was in the place, which the
\* player may be reading.
InsertCrashes(c) ==
  /\ pc["P"] = "play" /\ PlayerEnabled
  /\ posMedia = c.pos /\ buffer[c.pos] # NoChunk
  /\ Crash

TakeRequest ==
  LET c == arrived[2] IN
  /\ pc["R"] = "find"
  /\ \E r \in Answered :
       \/ InsertCrashes(c)
       \/ /\ requestList' = requestList \ {r}
          /\ oldRequestList' = oldRequestList \cup {c}
          /\ buffer' = [buffer EXCEPT ![c.pos] = c]
          /\ id' = [id EXCEPT ![c.pos] = c.cycle]
          /\ word' = [word EXCEPT !["R"] = map]
          /\ Goto("R", "mark")
          /\ UNCHANGED <<positions, map, arrived, failing, waited, posMedia, reset>>

NobodyAsked ==
  /\ pc["R"] = "find" /\ Answered = {}
  /\ arrived' = NoMessage
  /\ Goto("R", "idle")
  /\ UNCHANGED <<positions, requests, media, word, failing, waited, posMedia, reset>>

\* The last step of Insert, and what follows it.
MarkAvailable ==
  LET c == arrived[2] IN
  /\ pc["R"] = "mark"
  /\ \E seen \in MapSeenBy("R") : map' = seen \cup {c.pos}
  /\ latestReceivedPosition' = IF After(c, latestReceivedPosition)
                               THEN c ELSE latestReceivedPosition
  /\ left' = IF pc["P"] = "set" /\ latestReceivedPosition'.cycle # latestReceivedPosition.cycle
             THEN NoChunk ELSE left
  /\ word' = [word EXCEPT !["R"] = {}]
  /\ arrived' = NoMessage
  /\ Goto("R", "idle")
  /\ UNCHANGED <<requestPosition, playerDeliveryPosition, receiveRequestPosition,
                 requests, buffer, id, failing, waited, posMedia, target>>

(***************************************************************************)
(* The timers: HandlePeerlistMessage, called with the bootstrap's answer,  *)
(* which tells some recent chunk of the server.                            *)
(***************************************************************************)
Reposition(serverTip) ==
  LET start == IF serverTip.cycle = 0 /\ serverTip.pos < Offset
               THEN FirstChunk ELSE MinusInt(serverTip, Offset)
  IN /\ ~Crashed /\ receiveRequestPosition
     /\ serverTip \in Produced
     /\ requestPosition' = start
     /\ playerDeliveryPosition' = start
     /\ receiveRequestPosition' = FALSE
     /\ left' = NoChunk
     /\ UNCHANGED <<latestReceivedPosition, requests, media, pc, locals, target>>

(***************************************************************************)
(* Q: MontarListaPedidos.                                                  *)
(***************************************************************************)
NewRequest(c) == [chunk |-> c, asked |-> {}, tries |-> 0, due |-> TRUE]

\* CriaRequest found candidates; the first half of ColocarNaListaDePedidos.
CreateRequest ==
  /\ pc["Q"] = "loop" /\ ~receiveRequestPosition
  /\ requestPosition \in Produced
  /\ ~ListInUse
  /\ requestList' = requestList \cup {NewRequest(requestPosition)}
  /\ requestPosition' = IncID(requestPosition)
  /\ word' = [word EXCEPT !["Q"] = map]
  /\ failing' = FALSE
  /\ Goto("Q", "unset")
  /\ UNCHANGED <<playerDeliveryPosition, latestReceivedPosition,
                 receiveRequestPosition, oldRequestList, media, arrived, waited, posMedia, reset>>

\* The place of the next chunk to request is no longer available.
UnsetNext ==
  /\ pc["Q"] = "unset"
  /\ \E seen \in MapSeenBy("Q") : map' = seen \ {requestPosition.pos}
  /\ word' = [word EXCEPT !["Q"] = {}]
  /\ Goto("Q", "send")
  /\ UNCHANGED <<positions, requests, buffer, id, arrived, failing, waited, posMedia, reset>>

NobodyHasNext ==
  /\ pc["Q"] = "loop" /\ ~receiveRequestPosition
  /\ failing' = TRUE
  /\ Goto("Q", "send")
  /\ UNCHANGED <<positions, requests, media, arrived, word, waited, posMedia, reset>>

LockRequests ==
  /\ pc["Q"] = "send" /\ ~ListInUse
  /\ Goto("Q", "sending")
  /\ UNCHANGED <<positions, requests, media, locals, reset>>

GivesUpLate(r, lowBuffer) == r.tries > MaxAttempts \* mutant

\* A request that timed out is given up after this many attempts.
GivesUp(r, lowBuffer) ==
  (MaxAttempts = -1 /\ lowBuffer /\ r.tries > 1) \/ r.tries >= MaxAttempts

\* Request::CreateAttempt
Attempted(r, p) ==
  [chunk |-> r.chunk, asked |-> r.asked \cup {p}, tries |-> r.tries + 1, due |-> FALSE]

\* FazPedidos.  Some of the requests sent before have timed out; for those that
\* are sent now, someone has the chunk.
SendRequests(timedOut, sendable, lowBuffer) ==
  LET dropped == {r \in timedOut : GivesUp(r, lowBuffer)}
      due == (timedOut \ dropped) \cup {r \in requestList : r.due}
      quiet == (requestList \ (dropped \cup due))
                 \cup {[r EXCEPT !.due = FALSE] : r \in due \ sendable}
  IN /\ pc["Q"] = "sending"
     /\ \A r \in timedOut : ~r.due
     /\ sendable \subseteq due
     /\ dropped # {} => pc["R"] # "mark" \* R then holds oldRequestListMutex
     /\ \E chosen \in [sendable -> Partners] :
          requestList' = quiet \cup {Attempted(r, chosen[r]) : r \in sendable}
     /\ oldRequestList' = oldRequestList \cup {r.chunk : r \in dropped}
     /\ Goto("Q", "loop") \/ (failing /\ Goto("Q", "failed"))
     /\ UNCHANGED <<positions, media, locals, reset>>

\* Ten seconds without a candidate: first the flag is set.
AskPosition ==
  /\ pc["Q"] = "failed"
  /\ receiveRequestPosition' = TRUE
  /\ failing' = FALSE
  /\ Goto("Q", "clear")
  /\ UNCHANGED <<requestPosition, playerDeliveryPosition, latestReceivedPosition,
                 requests, media, arrived, word, waited, posMedia, reset>>

KeptRequests == requestList \* mutant
RequestsAfterReset == {}

ForgetRequests ==
  /\ pc["Q"] = "clear"
  /\ \/ ClearCrashes
     \/ /\ requestList' = RequestsAfterReset /\ oldRequestList' = {}
        /\ Goto("Q", "loop")
        /\ UNCHANGED <<positions, media, locals, reset>>

(***************************************************************************)
(* P: FeedPlayer.  The soft reset sends the player after the newest chunk  *)
(* when it is a ring behind; none of its uses of the positions is under a  *)
(* mutex.                                                                  *)
(***************************************************************************)
RingDistance == Minus(latestReceivedPosition, playerDeliveryPosition).cycle > 0 \* mutant
OneRingBehind ==
  /\ After(latestReceivedPosition, playerDeliveryPosition)
  /\ Minus(latestReceivedPosition, playerDeliveryPosition).cycle > 0

StartReset ==
  /\ pc["P"] = "loop" /\ OneRingBehind
  /\ left' = playerDeliveryPosition
  /\ Goto("P", "reset")
  /\ UNCHANGED <<positions, requests, media, locals, target>>

\* The first of the two reads, GetCycle and GetPosition in either order.
ReadLatest ==
  /\ pc["P"] = "reset"
  /\ target' = latestReceivedPosition
  /\ Goto("P", "set")
  /\ UNCHANGED <<positions, requests, media, locals, left>>

\* The second one, and Set.
SetToLatest ==
  /\ pc["P"] = "set"
  /\ playerDeliveryPosition' \in {ChunkID(target.cycle, latestReceivedPosition.pos),
                                  ChunkID(latestReceivedPosition.cycle, target.pos)}
  /\ target' = FirstChunk
  /\ Goto("P", "offset")
  /\ UNCHANGED <<requestPosition, latestReceivedPosition, receiveRequestPosition,
                 requests, media, locals, left>>

SubtractOffset ==
  /\ pc["P"] = "offset"
  /\ playerDeliveryPosition' = MinusInt(playerDeliveryPosition, Offset)
  /\ left' = NoChunk
  /\ Goto("P", "clearOld")
  /\ UNCHANGED <<requestPosition, latestReceivedPosition, receiveRequestPosition,
                 requests, media, locals, target>>

ClearOld ==
  /\ pc["P"] = "clearOld"
  /\ \/ ClearCrashes
     \/ /\ oldRequestList' = {}
        /\ Goto("P", "clearNew")
        /\ UNCHANGED <<positions, requestList, media, locals, reset>>

ClearNew ==
  /\ pc["P"] = "clearNew"
  /\ \/ ClearCrashes
     \/ /\ requestList' = {}
        /\ Goto("P", "look")
        /\ UNCHANGED <<positions, oldRequestList, media, locals, reset>>

SoftReset ==
  \/ StartReset \/ ReadLatest \/ SetToLatest \/ SubtractOffset
  \/ ClearOld \/ ClearNew

\* No soft reset, or the end of one.
Looks == pc["P"] = "look" \/ (pc["P"] = "loop" /\ ~OneRingBehind)

CanPlay ==
  /\ AtOrAfter(latestReceivedPosition, playerDeliveryPosition)
  /\ Available(playerDeliveryPosition.pos)

FindMedia ==
  /\ Looks /\ CanPlay
  /\ Goto("P", "play")
  /\ posMedia' = playerDeliveryPosition.pos
  /\ UNCHANGED <<positions, requests, media, arrived, word, failing, waited, reset>>

\* The next position, once oldRequestListMutex is free (R holds it in "mark").
Advance ==
  /\ pc["R"] # "mark"
  /\ oldRequestList' = oldRequestList \ {playerDeliveryPosition}
  /\ playerDeliveryPosition' = IncID(playerDeliveryPosition)
  /\ waited' = FALSE /\ posMedia' = 0
  /\ Goto("P", "loop")
  /\ UNCHANGED <<requestPosition, latestReceivedPosition, receiveRequestPosition,
                 requestList, media, arrived, word, failing, reset>>

PlayMedia == pc["P"] = "play" /\ Advance

\* Sync_write failed: FeedPlayer returns and is called again.
PlayerGone ==
  /\ pc["P"] = "play" /\ PlayerEnabled
  /\ waited' = FALSE /\ posMedia' = 0
  /\ Goto("P", "loop")
  /\ UNCHANGED <<positions, requests, media, arrived, word, failing, reset>>

NoMedia == Looks /\ ~CanPlay

WaitForMedia ==
  /\ NoMedia /\ ~waited
  /\ waited' = TRUE
  /\ Goto("P", "loop")
  /\ UNCHANGED <<positions, requests, media, arrived, word, failing, posMedia, reset>>

MaySkipToPlayable == Before(IncID(playerDeliveryPosition), latestReceivedPosition) \* mutant
MaySkip == Before(playerDeliveryPosition, latestReceivedPosition)

\* The chunk will be skipped; the oldRequestListMutex is not free at once.
GiveUpOnMedia ==
  /\ NoMedia /\ waited /\ MaySkip
  /\ Goto("P", "miss")
  /\ UNCHANGED <<positions, requests, media, locals, reset>>

MissChunk == pc["P"] = "miss" /\ Advance

\* At the tip maxWaitTime is raised again.
BePatient ==
  /\ NoMedia /\ waited /\ ~MaySkip
  /\ waited' = (latestReceivedPosition # playerDeliveryPosition)
  /\ Goto("P", "loop")
  /\ UNCHANGED <<positions, requests, media, arrived, word, failing, posMedia, reset>>

(***************************************************************************)
(* The specification.                                                      *)
(***************************************************************************)
Init ==
  /\ requestPosition = FirstChunk
  /\ playerDeliveryPosition = FirstChunk
  /\ latestReceivedPosition = FirstChunk
  /\ receiveRequestPosition = TRUE
  /\ requestList = {} /\ oldRequestList = {}
  /\ buffer = [s \in Positions |-> NoChunk]
  /\ id \in [Positions -> FirstIDs]
  /\ map = {}
  /\ pc = [th \in {"R", "Q", "P"} |-> IF th = "R" THEN "idle" ELSE "loop"]
  /\ arrived = NoMessage
  /\ word = [th \in {"R", "Q"} |-> {}]
  /\ failing = FALSE /\ waited = FALSE /\ posMedia = 0
  /\ target = FirstChunk /\ left = NoChunk

Receive ==
  \/ \E p \in Partners, c \in Produced : ReceiveData(p, c)
  \/ TakeRequest \/ NobodyAsked \/ MarkAvailable

Timers == \E serverTip \in Produced : Reposition(serverTip)

Request ==
  \/ CreateRequest \/ UnsetNext \/ NobodyHasNext \/ LockRequests
  \/ \E timedOut \in SUBSET requestList, sendable \in SUBSET requestList, lowBuffer \in BOOLEAN :
       SendRequests(timedOut, sendable, lowBuffer)
  \/ AskPosition \/ ForgetRequests

Play ==
  \/ SoftReset \/ FindMedia \/ PlayMedia \/ PlayerGone
  \/ WaitForMedia \/ GiveUpOnMedia \/ MissChunk \/ BePatient

Halted == Crashed /\ UNCHANGED vars

Next == Receive \/ Timers \/ Request \/ Play \/ Halted

Spec == Init /\ [][Next]_vars

\* The threads are scheduled, the player, which needs oldRequestListMutex for
\* every position, does not wait for it for ever.  Writes to the player may fail
\* many times, but not for ever.
Fairness ==
  /\ SF_vars(Play) /\ <>[][~PlayerGone]_vars
  /\ WF_vars(TakeRequest \/ NobodyAsked \/ MarkAvailable)

LiveSpec == Spec /\ Fairness

(***************************************************************************)
(* Properties.                                                             *)
(***************************************************************************)
Requests == [chunk : ChunkIDs, asked : SUBSET Partners, tries : Nat, due : BOOLEAN]

\* The type invariant.
TypeOK ==
  /\ requestPosition \in ChunkIDs /\ playerDeliveryPosition \in ChunkIDs
  /\ latestReceivedPosition \in ChunkIDs /\ receiveRequestPosition \in BOOLEAN
  /\ requestList \in SUBSET Requests /\ oldRequestList \in SUBSET ChunkIDs
  /\ buffer \in [Positions -> ChunkIDs \cup {NoChunk}]
  /\ id \in [Positions -> 0 .. (CycleModulus - 1)] /\ map \in SUBSET Positions
  /\ pc \in [{"R", "Q", "P"} -> {"idle", "find", "mark", "loop", "unset", "send",
                                 "sending", "failed", "clear", "reset", "set", "offset",
                                 "clearOld", "clearNew", "look", "play", "miss",
                                 "crashed"}]
  /\ arrived \in (Partners \X ChunkIDs) \cup {NoMessage}
  /\ word \in [{"R", "Q"} -> SUBSET Positions]
  /\ failing \in BOOLEAN /\ waited \in BOOLEAN /\ posMedia \in Positions
  /\ target \in ChunkIDs /\ left \in ChunkIDs \cup {NoChunk}

\* Every chunk requested, also those received or given up, is before the next one
\* to request, and a node that asks for its position has no requests left once Q
\* has cleared them: the reset sets the flag before it clears the lists.
RequestsAreBehind ==
  pc["Q"] \notin {"clear", "crashed"} =>
    /\ \A r \in requestList : Before(r.chunk, requestPosition)
    /\ \A c \in oldRequestList : Before(c, requestPosition)
    /\ receiveRequestPosition => requestList = {} /\ oldRequestList = {}

\* Between two resets a chunk is requested once: there are no two requests for
\* it, and none after it was received or given up.  HandleDataMessage only looks
\* for the first request of a chunk, and oldRequestList has one place for it.
RequestedOnce ==
  /\ \A r, s \in requestList : r.chunk = s.chunk => r = s
  /\ \A r \in requestList : r.chunk \notin oldRequestList

\* A chunk is asked for at most MaxAttempts times (FazPedidos).
BoundedTries ==
  MaxAttempts > 0 => \A r \in requestList : r.tries <= MaxAttempts

\* Once anything was received, the newest chunk received is still in its place,
\* or a newer one is: late chunks never replace newer ones (HandleDataMessage).
LatestIsHeld ==
  LET held == buffer[latestReceivedPosition.pos] IN
  latestReceivedPosition # FirstChunk =>
    held # NoChunk /\ AtOrAfter(held, latestReceivedPosition)

Resetting == pc["P"] \in {"reset", "set", "offset"}

\* Player and requester go back in the stream only when the bootstrap repositions the
\* node: not at the end of the ring, and not when a reposition falls between finding a
\* chunk, or giving one up, and what follows.  A soft reset as a whole sends the player
\* forward too, whatever arrives meanwhile, but for one that another thread disturbs: the
\* node is repositioned before its end, or the newest chunk changes its cycle between the
\* two reads of its name.
PositionsAdvance ==
  [][\/ receiveRequestPosition /\ ~receiveRequestPosition'
     \/ /\ ~Before(requestPosition', requestPosition)
        /\ \/ Resetting'
           \/ Resetting /\ left = NoChunk
           \/ ~Before(playerDeliveryPosition', IF Resetting THEN left
                                               ELSE playerDeliveryPosition)]_vars

\* HandleRequestMessage, which R runs too, sends the chunk in the place of c.
Serves(c) ==
  pc["R"] = "idle" /\ Available(c.pos) /\ WithinOneCycle(latestReceivedPosition, c)

\* "If i have the chunk": what is sent for c is c.
ServesRequestedChunk == \A c \in ChunkIDs : Serves(c) => buffer[c.pos] = c

\* A chunk that does not come never stops the player: it moves on again and again,
\* or has again and again played all that was received (FeedPlayer).
PlayerMovesOn ==
  \/ []<>(~Before(playerDeliveryPosition, latestReceivedPosition) \/ Crashed)
  \/ []<><<playerDeliveryPosition' # playerDeliveryPosition>>_vars
=============================================================================
