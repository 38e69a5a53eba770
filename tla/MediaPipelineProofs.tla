------------------------ MODULE MediaPipelineProofs ------------------------
(***************************************************************************)
(* Proofs about MediaPipeline, for every ring, offset, number of partners  *)
(* and length of the stream that the modules' assumptions allow.           *)
(***************************************************************************)
EXTENDS MediaPipeline, ChunkUniqueIDProofs, TLAPS

(***************************************************************************)
(* Types.                                                                  *)
(***************************************************************************)
LEMMA ChunkTypes ==
  /\ FirstChunk \in ChunkIDs
  /\ \A c \in ChunkIDs : c.pos \in Positions /\ c.cycle \in 0 .. (CycleModulus - 1)
  /\ \A c \in ChunkIDs : IncID(c) \in ChunkIDs
  /\ \A c \in ChunkIDs : MinusInt(c, Offset) \in ChunkIDs
<1>1. FirstChunk \in ChunkIDs
  BY RingAssumption DEF FirstChunk, ChunkID, ChunkIDs, Positions
<1>2. \A c \in ChunkIDs : c.pos \in Positions /\ c.cycle \in 0 .. (CycleModulus - 1)
  BY DEF ChunkIDs
<1>3. ASSUME NEW c \in ChunkIDs PROVE IncID(c) \in ChunkIDs
  <2>1. (c.cycle + 1) % CycleModulus \in 0 .. (CycleModulus - 1)
    BY <1>2, RingAssumption
  <2>2. CASE c.pos + 1 >= BufferSize
    BY <2>1, <2>2, RingAssumption DEF IncID, ChunkID, ChunkIDs, Positions
  <2>3. CASE ~(c.pos + 1 >= BufferSize)
    <3>1. c.pos + 1 \in Positions
      BY <1>2, <2>3, RingAssumption DEF Positions
    <3>2. QED
      BY <1>2, <2>3, <3>1 DEF IncID, ChunkID, ChunkIDs
  <2>4. QED
    BY <2>2, <2>3
<1>4. \A c \in ChunkIDs : MinusInt(c, Offset) \in ChunkIDs
  BY ShortOffset, PipelineAssumption DEF Positions
<1>5. QED
  BY <1>1, <1>2, <1>3, <1>4

\* What each thread holds at each place in the code.
Control ==
  /\ pc["R"] \in {"find", "mark"} => arrived \in Partners \X Produced
  /\ pc["R"] \in {"idle", "find", "mark", "crashed"}
  /\ pc["P"] \in {"loop", "reset", "set", "offset", "clearOld", "clearNew", "look",
                  "play", "miss", "crashed"}
  /\ pc["Q"] \in {"loop", "unset", "send", "sending", "failed", "clear", "crashed"}

LEMMA CrashKeepsTypes ==
  ASSUME TypeOK, Control, Crash
  PROVE  TypeOK' /\ Control'
BY DEF TypeOK, Control, Crash, Requests, positions, requests, media, locals, reset

LEMMA ReceiveKeepsTypes ==
  ASSUME TypeOK, Control, Receive
  PROVE  TypeOK' /\ Control'
<1> USE DEF TypeOK, Control, Goto, positions, requests, media, locals, reset
<1>1. ASSUME NEW p \in Partners, NEW c \in Produced, ReceiveData(p, c)
      PROVE  TypeOK' /\ Control'
  BY <1>1 DEF ReceiveData, Produced
<1>2. CASE TakeRequest
  <2> DEFINE c == arrived[2]
  <2>1. c \in ChunkIDs /\ c.pos \in Positions /\ c.cycle \in 0 .. (CycleModulus - 1)
    BY <1>2, ChunkTypes DEF TakeRequest, Produced
  <2>2. PICK r \in Answered :
          \/ InsertCrashes(c)
          \/ /\ requestList' = requestList \ {r}
             /\ oldRequestList' = oldRequestList \cup {c}
             /\ buffer' = [buffer EXCEPT ![c.pos] = c]
             /\ id' = [id EXCEPT ![c.pos] = c.cycle]
             /\ word' = [word EXCEPT !["R"] = map]
             /\ Goto("R", "mark")
             /\ UNCHANGED <<positions, map, arrived, failing, waited, posMedia>>
    BY <1>2 DEF TakeRequest
  <2>3. CASE InsertCrashes(c)
    BY <2>3, CrashKeepsTypes DEF InsertCrashes
  <2>4. CASE ~InsertCrashes(c)
    BY <1>2, <2>1, <2>2, <2>4 DEF TakeRequest
  <2>5. QED
    BY <2>3, <2>4
<1>3. CASE NobodyAsked
  BY <1>3 DEF NobodyAsked
<1>4. CASE MarkAvailable
  <2>1. arrived[2] \in ChunkIDs /\ arrived[2].pos \in Positions
    BY <1>4, ChunkTypes DEF MarkAvailable, Produced
  <2>2. map' \in SUBSET Positions
    BY <1>4, <2>1 DEF MarkAvailable, MapSeenBy
  <2>3. QED
    BY <1>4, <2>1, <2>2 DEF MarkAvailable
<1>5. QED
  BY <1>1, <1>2, <1>3, <1>4 DEF Receive

\* What FazPedidos makes of a request it keeps.
Sent(r, due, sendable, chosen) ==
  IF r \in sendable THEN Attempted(r, chosen[r])
  ELSE IF r \in due THEN [r EXCEPT !.due = FALSE] ELSE r

\* One run of FazPedidos: what it drops, what was due, what it sends and to whom.
SentAs(dropped, due, sendable, chosen, lowBuffer) ==
  /\ sendable \subseteq due
  /\ \A r \in due : r.due \/ ~GivesUp(r, lowBuffer)
  /\ \A r \in requestList \ due : ~r.due
  /\ requestList' = {Sent(r, due, sendable, chosen) : r \in requestList \ dropped}
  /\ oldRequestList' = oldRequestList \cup {r.chunk : r \in dropped}

\* FazPedidos gives some requests up, for good, and keeps the others; only a
\* request that it need not give up is sent.
LEMMA SentRequests ==
  ASSUME NEW timedOut \in SUBSET requestList, NEW sendable \in SUBSET requestList,
         NEW lowBuffer \in BOOLEAN, SendRequests(timedOut, sendable, lowBuffer)
  PROVE  \E dropped \in SUBSET requestList, due \in SUBSET requestList,
            chosen \in [sendable -> Partners] :
           SentAs(dropped, due, sendable, chosen, lowBuffer)
<1> DEFINE dropped == {r \in timedOut : GivesUp(r, lowBuffer)}
           due == (timedOut \ dropped) \cup {r \in requestList : r.due}
           quiet == (requestList \ (dropped \cup due))
                      \cup {[r EXCEPT !.due = FALSE] : r \in due \ sendable}
<1>1. /\ \A r \in timedOut : ~r.due
      /\ sendable \subseteq due
      /\ \E chosen \in [sendable -> Partners] :
           requestList' = quiet \cup {Attempted(r, chosen[r]) : r \in sendable}
      /\ oldRequestList' = oldRequestList \cup {r.chunk : r \in dropped}
  BY DEF SendRequests
<1>2. /\ due \in SUBSET requestList /\ dropped \in SUBSET requestList
      /\ \A r \in due : r.due \/ ~GivesUp(r, lowBuffer)
      /\ \A r \in requestList \ due : ~r.due
  OBVIOUS
<1>3. due \cap dropped = {}
  BY <1>1
<1>4. PICK chosen \in [sendable -> Partners] :
        requestList' = quiet \cup {Attempted(r, chosen[r]) : r \in sendable}
  BY <1>1
<1>5. requestList' = {Sent(r, due, sendable, chosen) : r \in requestList \ dropped}
  <2> HIDE DEF dropped, due
  <2>1. ASSUME NEW q \in requestList'
        PROVE  \E r \in requestList \ dropped : q = Sent(r, due, sendable, chosen)
    <3>1. CASE q \in requestList \ (dropped \cup due)
      BY <1>1, <3>1 DEF Sent
    <3>2. CASE \E r \in due \ sendable : q = [r EXCEPT !.due = FALSE]
      BY <1>2, <1>3, <3>2 DEF Sent
    <3>3. CASE \E r \in sendable : q = Attempted(r, chosen[r])
      BY <1>1, <1>2, <1>3, <3>3 DEF Sent
    <3>4. QED
      BY <1>4, <2>1, <3>1, <3>2, <3>3
  <2>2. ASSUME NEW r \in requestList \ dropped
        PROVE  Sent(r, due, sendable, chosen) \in requestList'
    <3>1. CASE r \in sendable
      BY <1>4, <3>1 DEF Sent
    <3>2. CASE r \in due \ sendable
      BY <1>4, <3>2 DEF Sent
    <3>3. CASE r \notin due
      BY <1>1, <1>4, <3>3 DEF Sent
    <3>4. QED
      BY <3>1, <3>2, <3>3
  <2>3. QED
    BY <2>1, <2>2
<1>6. SentAs(dropped, due, sendable, chosen, lowBuffer)
  BY <1>1, <1>2, <1>5 DEF SentAs
<1>7. QED
  BY <1>2, <1>6

\* FazPedidos changes no chunk of a request.
LEMMA SentKeepsChunk ==
  ASSUME NEW r \in Requests, NEW due, NEW sendable, NEW chosen,
         r \in sendable => chosen[r] \in Partners
  PROVE  /\ Sent(r, due, sendable, chosen) \in Requests
         /\ Sent(r, due, sendable, chosen).chunk = r.chunk
<1>1. CASE r \in sendable
  BY <1>1 DEF Sent, Attempted, Requests
<1>2. CASE r \notin sendable
  BY <1>2 DEF Sent, Requests
<1>3. QED
  BY <1>1, <1>2

LEMMA SendKeepsTypes ==
  ASSUME TypeOK, NEW timedOut \in SUBSET requestList, NEW sendable \in SUBSET requestList,
         NEW lowBuffer \in BOOLEAN, SendRequests(timedOut, sendable, lowBuffer)
  PROVE  requestList' \in SUBSET Requests /\ oldRequestList' \in SUBSET ChunkIDs
<1>1. requestList \in SUBSET Requests /\ oldRequestList \in SUBSET ChunkIDs
  BY DEF TypeOK
<1>2. PICK dropped \in SUBSET requestList, due \in SUBSET requestList,
           chosen \in [sendable -> Partners] :
        SentAs(dropped, due, sendable, chosen, lowBuffer)
  BY SentRequests
<1>3. requestList' \in SUBSET Requests
  <2>1. ASSUME NEW r \in requestList PROVE Sent(r, due, sendable, chosen) \in Requests
    <3>1. r \in Requests /\ (r \in sendable => chosen[r] \in Partners)
      BY <1>1
    <3>2. QED
      BY <3>1, SentKeepsChunk
  <2>2. QED
    BY <1>2, <2>1 DEF SentAs
<1>4. oldRequestList' \in SUBSET ChunkIDs
  BY <1>1, <1>2 DEF Requests, SentAs
<1>5. QED
  BY <1>3, <1>4

LEMMA RequestKeepsTypes ==
  ASSUME TypeOK, Control, Request
  PROVE  TypeOK' /\ Control'
<1> USE DEF TypeOK, Control, Goto, positions, requests, media, locals, reset
<1>1. CASE CreateRequest
  <2>1. NewRequest(requestPosition) \in Requests
    BY DEF NewRequest, Requests
  <2>2. IncID(requestPosition) \in ChunkIDs
    BY ChunkTypes
  <2>3. QED
    BY <1>1, <2>1, <2>2 DEF CreateRequest
<1>2. CASE UnsetNext
  <2>1. map' \in SUBSET Positions
    BY <1>2 DEF UnsetNext, MapSeenBy
  <2>2. QED
    BY <1>2, <2>1 DEF UnsetNext
<1>3. CASE NobodyHasNext
  BY <1>3 DEF NobodyHasNext
<1>4. CASE LockRequests
  BY <1>4 DEF LockRequests
<1>5. ASSUME NEW timedOut \in SUBSET requestList, NEW sendable \in SUBSET requestList,
             NEW lowBuffer \in BOOLEAN, SendRequests(timedOut, sendable, lowBuffer)
      PROVE  TypeOK' /\ Control'
  <2>1. requestList' \in SUBSET Requests /\ oldRequestList' \in SUBSET ChunkIDs
    BY <1>5, SendKeepsTypes
  <2>2. QED
    BY <1>5, <2>1 DEF SendRequests
<1>6. CASE AskPosition
  BY <1>6 DEF AskPosition
<1>7. CASE ForgetRequests
  BY <1>7, CrashKeepsTypes DEF ForgetRequests, ClearCrashes, RequestsAfterReset
<1>8. QED
  BY <1>1, <1>2, <1>3, <1>4, <1>5, <1>6, <1>7 DEF Request

LEMMA PlayKeepsTypes ==
  ASSUME TypeOK, Control, Play
  PROVE  TypeOK' /\ Control'
<1> USE ChunkTypes DEF TypeOK, Control, Goto, positions, requests, media, locals, reset
<1>0. 0 \in Positions
  BY RingAssumption DEF Positions
<1>1. CASE SoftReset
  <2>1. CASE SetToLatest
    <3>1. playerDeliveryPosition' \in ChunkIDs
      BY <2>1 DEF SetToLatest, ChunkID, ChunkIDs
    <3>2. QED
      BY <2>1, <3>1 DEF SetToLatest
  <2>2. CASE StartReset \/ ReadLatest
    BY <2>2 DEF StartReset, ReadLatest
  <2>3. CASE SubtractOffset
    <3>1. MinusInt(playerDeliveryPosition, Offset) \in ChunkIDs
      BY ChunkTypes
    <3>2. playerDeliveryPosition' \in ChunkIDs
      BY <2>3, <3>1 DEF SubtractOffset
    <3>3. QED
      BY <2>3, <3>2 DEF SubtractOffset
  <2>4. CASE ClearOld \/ ClearNew
    BY <2>4, CrashKeepsTypes DEF ClearOld, ClearNew, ClearCrashes
  <2>5. QED
    BY <1>1, <2>1, <2>2, <2>3, <2>4 DEF SoftReset
<1>2. CASE FindMedia
  BY <1>2 DEF FindMedia
<1>3. CASE PlayMedia
  BY <1>0, <1>3 DEF PlayMedia, Advance
<1>4. CASE PlayerGone
  BY <1>0, <1>4 DEF PlayerGone
<1>5. CASE WaitForMedia
  BY <1>5 DEF WaitForMedia
<1>6. CASE GiveUpOnMedia
  BY <1>6 DEF GiveUpOnMedia
<1>7. CASE MissChunk
  BY <1>0, <1>7 DEF MissChunk, Advance
<1>8. CASE BePatient
  BY <1>8 DEF BePatient
<1>9. QED
  BY <1>1, <1>2, <1>3, <1>4, <1>5, <1>6, <1>7, <1>8 DEF Play

LEMMA RepositionKeepsTypes ==
  ASSUME TypeOK, Control, NEW serverTip \in Produced, Reposition(serverTip)
  PROVE  TypeOK' /\ Control'
<1>1. serverTip \in ChunkIDs /\ MinusInt(serverTip, Offset) \in ChunkIDs /\ FirstChunk \in ChunkIDs
  BY ChunkTypes DEF Produced
<1>2. requestPosition' \in ChunkIDs /\ playerDeliveryPosition' \in ChunkIDs
  BY <1>1 DEF Reposition
<1>3. /\ receiveRequestPosition' \in BOOLEAN /\ left' \in ChunkIDs \cup {NoChunk}
      /\ UNCHANGED <<latestReceivedPosition, requests, media, pc, locals, target>>
  BY DEF Reposition
<1>4. QED
  BY <1>2, <1>3 DEF TypeOK, Control, requests, media, locals

\* Every variable has its type in every reachable state of MediaPipeline, and each
\* thread is at one of its places: client.cpp never forms a chunk name outside the
\* ring, whatever is subtracted, so the buffer is never indexed out of its bounds.
THEOREM TypeCorrect == Spec => [](TypeOK /\ Control)
<1>1. Init => TypeOK /\ Control
  <2> SUFFICES ASSUME Init PROVE TypeOK /\ Control
    OBVIOUS
  <2>1. 0 \in Positions
    BY RingAssumption DEF Positions
  <2>2. id \in [Positions -> 0 .. (CycleModulus - 1)]
    BY PipelineAssumption DEF Init
  <2>3. QED
    BY ChunkTypes, <2>1, <2>2 DEF Init, TypeOK, Control
<1>2. TypeOK /\ Control /\ [Next]_vars => TypeOK' /\ Control'
  <2> SUFFICES ASSUME TypeOK, Control, [Next]_vars PROVE TypeOK' /\ Control'
    OBVIOUS
  <2>1. CASE UNCHANGED vars
    BY <2>1 DEF TypeOK, Control, vars, positions, requests, media, locals, reset
  <2>2. CASE Timers
    BY <2>2, RepositionKeepsTypes DEF Timers
  <2>3. QED
    BY <2>1, <2>2, ReceiveKeepsTypes, RequestKeepsTypes, PlayKeepsTypes DEF Next, Halted
<1>3. QED
  BY <1>1, <1>2, PTL DEF Spec

(***************************************************************************)
(* The newest chunk received stays in its place.  A place holds a chunk of *)
(* that place whose cycle is in id, so the test of HandleDataMessage keeps *)
(* older chunks out; the chunk in hand passed it.                          *)
(***************************************************************************)
Held ==
  /\ \A s \in Positions : buffer[s] # NoChunk => buffer[s].pos = s /\ buffer[s].cycle = id[s]
  /\ pc["R"] = "find" => id[arrived[2].pos] <= arrived[2].cycle
  /\ pc["R"] = "mark" => buffer[arrived[2].pos] = arrived[2]
  /\ LatestIsHeld

\* A chunk that replaces one of the same place is not older than what that one is
\* not older than.
LEMMA Replaces ==
  ASSUME NEW c \in ChunkIDs, NEW held \in ChunkIDs, NEW latest \in ChunkIDs,
         c.pos = held.pos, held.pos = latest.pos, held.cycle <= c.cycle,
         AtOrAfter(held, latest)
  PROVE  AtOrAfter(c, latest)
<1>1. /\ c.cycle \in Nat /\ held.cycle \in Nat /\ latest.cycle \in Nat
      /\ c.pos \in Nat /\ held.pos \in Nat /\ latest.pos \in Nat
  BY OrdType
<1>2. latest.cycle <= held.cycle
  BY <1>1 DEF AtOrAfter, After
<1>3. CASE c.cycle = latest.cycle
  <2>1. c = latest
    BY <1>3 DEF ChunkIDs
  <2>2. QED
    BY <2>1 DEF AtOrAfter
<1>4. CASE c.cycle # latest.cycle
  BY <1>1, <1>2, <1>4 DEF AtOrAfter, After
<1>5. QED
  BY <1>3, <1>4

LEMMA TakeKeepsHeld ==
  ASSUME TypeOK, Control, Held, TakeRequest
  PROVE  Held'
<1> DEFINE c == arrived[2]
<1>1. c \in ChunkIDs /\ c.pos \in Positions /\ pc["R"] = "find"
  BY ChunkTypes DEF TakeRequest, Control, Produced
<1>2. CASE InsertCrashes(c)
  BY <1>2, <1>1 DEF InsertCrashes, Crash, Held, LatestIsHeld, positions, media, locals, TypeOK
<1>3. CASE ~InsertCrashes(c)
  <2>1. /\ buffer' = [buffer EXCEPT ![c.pos] = c]
        /\ id' = [id EXCEPT ![c.pos] = c.cycle]
        /\ pc' = [pc EXCEPT !["R"] = "mark"]
        /\ UNCHANGED <<positions, arrived>>
    BY <1>3 DEF TakeRequest, Goto
  <2>2. \A s \in Positions : s # c.pos => buffer'[s] = buffer[s] /\ id'[s] = id[s]
    BY <2>1 DEF TypeOK
  <2>3. buffer'[c.pos] = c /\ id'[c.pos] = c.cycle
    BY <1>1, <2>1 DEF TypeOK
  <2>4. \A s \in Positions :
          buffer'[s] # NoChunk => buffer'[s].pos = s /\ buffer'[s].cycle = id'[s]
    BY <2>2, <2>3 DEF Held
  <2>5. LatestIsHeld'
    <3> DEFINE latest == latestReceivedPosition
               held == buffer[latest.pos]
    <3>1. latest' = latest
      BY <2>1 DEF positions
    <3> SUFFICES ASSUME latest # FirstChunk
                 PROVE  buffer'[latest.pos] # NoChunk /\ AtOrAfter(buffer'[latest.pos], latest)
      BY <3>1 DEF LatestIsHeld
    <3>2. latest \in ChunkIDs /\ latest.pos \in Positions
      BY ChunkTypes DEF TypeOK
    <3>3. held # NoChunk /\ AtOrAfter(held, latest)
      BY DEF Held, LatestIsHeld
    <3>4. held \in ChunkIDs /\ held.pos = latest.pos /\ held.cycle = id[latest.pos]
      BY <3>2, <3>3 DEF Held, TypeOK
    <3>5. CASE latest.pos = c.pos
      <4>1. held.cycle <= c.cycle
        BY <1>1, <3>4, <3>5 DEF Held
      <4>2. AtOrAfter(c, latest)
        BY <1>1, <3>2, <3>3, <3>4, <3>5, <4>1, Replaces
      <4>3. QED
        BY <1>1, <2>3, <3>5, <4>2, PipelineAssumption
    <3>6. CASE latest.pos # c.pos
      BY <2>2, <3>2, <3>3, <3>6
    <3>7. QED
      BY <3>5, <3>6
  <2>6. pc'["R"] = "mark" /\ arrived' = arrived
    BY <2>1 DEF TypeOK
  <2>7. QED
    BY <2>3, <2>4, <2>5, <2>6 DEF Held
<1>4. QED
  BY <1>2, <1>3

LEMMA MarkKeepsHeld ==
  ASSUME TypeOK, Control, Held, MarkAvailable
  PROVE  Held'
<1> DEFINE c == arrived[2]
<1>1. c \in ChunkIDs /\ buffer[c.pos] = c /\ c # NoChunk /\ AtOrAfter(c, c)
  BY PipelineAssumption DEF MarkAvailable, Control, Produced, Held, AtOrAfter
<1>2. /\ buffer' = buffer /\ id' = id /\ pc' = [pc EXCEPT !["R"] = "idle"]
      /\ latestReceivedPosition' = IF After(c, latestReceivedPosition)
                                   THEN c ELSE latestReceivedPosition
  BY DEF MarkAvailable, Goto
<1>3. LatestIsHeld'
  BY <1>1, <1>2 DEF LatestIsHeld, Held
<1>4. pc'["R"] = "idle"
  BY <1>2 DEF TypeOK
<1>5. QED
  BY <1>2, <1>3, <1>4 DEF Held

\* The other steps of R leave the buffer alone, and a chunk in hand was tested.
LEMMA LookKeepsHeld ==
  ASSUME TypeOK, Control, Held,
         NobodyAsked \/ \E p \in Partners, c \in Produced : ReceiveData(p, c)
  PROVE  Held'
<1>1. CASE NobodyAsked
  BY <1>1 DEF NobodyAsked, Goto, TypeOK, Held, LatestIsHeld, positions, media
<1>2. ASSUME NEW p \in Partners, NEW c \in Produced, ReceiveData(p, c) PROVE Held'
  <2>1. c.pos \in Positions /\ c.cycle \in Nat
    BY OrdType, ChunkTypes DEF Produced
  <2>2. id[c.pos] \in Nat /\ ~(c.cycle < id[c.pos])
    BY <1>2, <2>1, RingAssumption DEF ReceiveData, IsCopy, TypeOK
  <2>3. id[c.pos] <= c.cycle
    BY <2>1, <2>2
  <2>4. arrived' = <<p, c>> /\ pc'["R"] = "find"
    BY <1>2 DEF ReceiveData, Goto, TypeOK
  <2>5. /\ buffer' = buffer /\ id' = id
        /\ latestReceivedPosition' = latestReceivedPosition
    BY <1>2 DEF ReceiveData, positions, media
  <2>6. QED
    BY <2>3, <2>4, <2>5 DEF Held, LatestIsHeld
<1>3. QED
  BY <1>1, <1>2

LEMMA OthersKeepHeld ==
  ASSUME TypeOK, Control, Held, Timers \/ Request \/ Play \/ Halted \/ UNCHANGED vars
  PROVE  Held'
<1>1. /\ buffer' = buffer /\ id' = id /\ arrived' = arrived
      /\ latestReceivedPosition' = latestReceivedPosition
      /\ pc'["R"] \in {pc["R"], "crashed"}
  <2> USE DEF TypeOK, Goto, Crash, ClearCrashes, positions, requests, media, locals, vars
  <2>1. CASE Timers
    BY <2>1 DEF Timers, Reposition
  <2>2. CASE Request
    BY <2>2 DEF Request, CreateRequest, UnsetNext, NobodyHasNext, LockRequests, SendRequests,
                AskPosition, ForgetRequests
  <2>3. CASE Play
    BY <2>3 DEF Play, SoftReset, StartReset, ReadLatest, SetToLatest, SubtractOffset,
                ClearOld, ClearNew, FindMedia, PlayMedia, PlayerGone, WaitForMedia,
                GiveUpOnMedia, MissChunk, BePatient, Advance
  <2>4. QED
    BY <2>1, <2>2, <2>3 DEF Halted
<1>2. QED
  BY <1>1 DEF Held, LatestIsHeld

\* The newest chunk received is never replaced by an older one, whatever arrives,
\* in whatever order and however often: HandleDataMessage's test for copies is
\* enough although it is made before requestListMutex is taken.
THEOREM NewestIsHeld == Spec => []LatestIsHeld
<1>1. Init => Held
  BY DEF Init, Held, LatestIsHeld
<1>2. TypeOK /\ Control /\ Held /\ [Next]_vars => Held'
  BY TakeKeepsHeld, MarkKeepsHeld, LookKeepsHeld, OthersKeepHeld DEF Next, Receive
<1>3. Held => LatestIsHeld
  BY DEF Held
<1>4. QED
  BY <1>1, <1>2, <1>3, TypeCorrect, PTL DEF Spec

(***************************************************************************)
(* A chunk is requested once between two resets.  The next chunk to        *)
(* request is after all that were requested, and it only goes back when    *)
(* the flag is set, which Q does before it forgets the requests: while it  *)
(* has not forgotten them it creates none.                                 *)
(***************************************************************************)
Orderly == RequestsAreBehind /\ RequestedOnce

\* The successor of a produced chunk is the next number.
LEMMA NextNumber ==
  ASSUME NEW c \in Produced
  PROVE  IncID(c) \in ChunkIDs /\ Ord(IncID(c)) = Ord(c) + 1
<1>1. /\ c \in ChunkIDs /\ c.cycle \in 0 .. (CycleModulus - 1) /\ c.pos \in Nat
      /\ Ord(c) = c.cycle * BufferSize + c.pos /\ Ord(c) < (CycleModulus - 1) * BufferSize
  <2>1. c \in ChunkIDs /\ Ord(c) < StreamLength
    BY DEF Produced
  <2>2. (CycleModulus - 1) * BufferSize \in Nat
    BY RingAssumption
  <2>3. QED
    BY <2>1, <2>2, OrdType, ChunkTypes, PipelineAssumption DEF Ord
<1>2. c.cycle + 1 < CycleModulus
  <2>1. c.cycle # CycleModulus - 1
    BY <1>1, RingAssumption
  <2>2. QED
    BY <1>1, <2>1, RingAssumption
<1>3. QED
  BY <1>1, <1>2, IncIDIsSuccessor

LEMMA NextIsLater ==
  ASSUME NEW c \in Produced
  PROVE  Before(c, IncID(c)) /\ \A d \in ChunkIDs : Before(d, c) => Before(d, IncID(c))
<1>1. c \in ChunkIDs /\ IncID(c) \in ChunkIDs /\ Ord(IncID(c)) = Ord(c) + 1
  BY NextNumber DEF Produced
<1>2. \A d \in ChunkIDs : Ord(d) \in Nat
  BY OrdType
<1>3. QED
  BY <1>1, <1>2, OrderIsNumeric

LEMMA CreateKeepsOrder ==
  ASSUME TypeOK, Control, Orderly, CreateRequest
  PROVE  Orderly'
<1> DEFINE c == requestPosition
           n == NewRequest(c)
<1>1. /\ requestList' = requestList \cup {n} /\ oldRequestList' = oldRequestList
      /\ requestPosition' = IncID(c) /\ c \in Produced
      /\ ~receiveRequestPosition' /\ n.chunk = c /\ pc["Q"] = "loop"
  BY DEF CreateRequest, NewRequest
<1>2. /\ \A r \in requestList : Before(r.chunk, c) /\ r.chunk \in ChunkIDs
      /\ \A d \in oldRequestList : Before(d, c) /\ d \in ChunkIDs
  BY <1>1 DEF Orderly, RequestsAreBehind, TypeOK, Requests
<1>3. RequestsAreBehind'
  BY <1>1, <1>2, NextIsLater DEF RequestsAreBehind
<1>4. ~Before(c, c)
  <2>1. c.cycle \in Nat /\ c.pos \in Nat
    BY <1>1, OrdType DEF Produced
  <2>2. QED
    BY <2>1 DEF Before
<1>5. (\A r \in requestList : r.chunk # c) /\ c \notin oldRequestList
  BY <1>2, <1>4
<1>6. RequestedOnce'
  BY <1>1, <1>5 DEF Orderly, RequestedOnce
<1>7. QED
  BY <1>3, <1>6 DEF Orderly

LEMMA SendKeepsOrder ==
  ASSUME TypeOK, Control, Orderly,
         NEW timedOut \in SUBSET requestList, NEW sendable \in SUBSET requestList,
         NEW lowBuffer \in BOOLEAN, SendRequests(timedOut, sendable, lowBuffer)
  PROVE  Orderly'
<1>1. PICK dropped \in SUBSET requestList, due \in SUBSET requestList,
           chosen \in [sendable -> Partners] :
        SentAs(dropped, due, sendable, chosen, lowBuffer)
  BY SentRequests
<1>2. requestList \in SUBSET Requests
  BY DEF TypeOK
<1>3. ASSUME NEW q \in requestList'
      PROVE  \E r \in requestList \ dropped :
               q = Sent(r, due, sendable, chosen) /\ q.chunk = r.chunk
  <2>1. PICK r \in requestList \ dropped : q = Sent(r, due, sendable, chosen)
    BY <1>1 DEF SentAs
  <2>2. r \in Requests /\ (r \in sendable => chosen[r] \in Partners)
    BY <1>2
  <2>3. QED
    BY <2>1, <2>2, SentKeepsChunk
<1>4. /\ \A r, s \in requestList : r.chunk = s.chunk => r = s
      /\ \A r \in requestList : r.chunk \notin oldRequestList
  BY DEF Orderly, RequestedOnce
<1>5. oldRequestList' = oldRequestList \cup {r.chunk : r \in dropped}
  BY <1>1 DEF SentAs
<1>6. ASSUME NEW p \in requestList', NEW q \in requestList', p.chunk = q.chunk
      PROVE  p = q
  BY <1>3, <1>4, <1>6
<1>7. ASSUME NEW q \in requestList' PROVE q.chunk \notin oldRequestList'
  BY <1>3, <1>4, <1>5
<1>8. /\ pc["Q"] = "sending" /\ requestPosition' = requestPosition
      /\ receiveRequestPosition' = receiveRequestPosition
  BY DEF SendRequests, positions
<1>9. RequestsAreBehind'
  <2>1. /\ \A r \in requestList : Before(r.chunk, requestPosition)
        /\ \A d \in oldRequestList : Before(d, requestPosition)
        /\ receiveRequestPosition => requestList = {} /\ oldRequestList = {}
    BY <1>8 DEF Orderly, RequestsAreBehind
  <2>2. \A q \in requestList' : Before(q.chunk, requestPosition)
    BY <1>3, <2>1
  <2>3. \A d \in oldRequestList' : Before(d, requestPosition)
    BY <1>5, <2>1
  <2>4. receiveRequestPosition => requestList' = {} /\ oldRequestList' = {}
    BY <1>3, <1>5, <2>1
  <2>5. QED
    BY <1>8, <2>2, <2>3, <2>4 DEF RequestsAreBehind
<1>10. QED
  BY <1>6, <1>7, <1>9 DEF Orderly, RequestedOnce

LEMMA TakeKeepsOrder ==
  ASSUME TypeOK, Control, Orderly, TakeRequest
  PROVE  Orderly'
<1> DEFINE c == arrived[2]
<1>1. PICK r \in Answered :
        \/ InsertCrashes(c)
        \/ /\ requestList' = requestList \ {r}
           /\ oldRequestList' = oldRequestList \cup {c}
           /\ pc' = [pc EXCEPT !["R"] = "mark"]
           /\ UNCHANGED positions
  BY DEF TakeRequest, Goto
<1>2. r \in requestList /\ r.chunk = c
  BY DEF Answered
<1>3. CASE InsertCrashes(c)
  <2>1. pc'["Q"] = "crashed" /\ UNCHANGED requests
    BY <1>3 DEF InsertCrashes, Crash
  <2>2. QED
    BY <2>1 DEF Orderly, RequestsAreBehind, RequestedOnce, requests
<1>4. CASE ~InsertCrashes(c)
  <2>1. /\ requestList' = requestList \ {r} /\ oldRequestList' = oldRequestList \cup {c}
        /\ pc'["Q"] = pc["Q"] /\ requestPosition' = requestPosition
        /\ receiveRequestPosition' = receiveRequestPosition
    BY <1>1, <1>4 DEF positions, TypeOK
  <2>2. RequestsAreBehind'
    BY <1>2, <2>1 DEF Orderly, RequestsAreBehind
  <2>3. RequestedOnce'
    BY <1>2, <2>1 DEF Orderly, RequestedOnce
  <2>4. QED
    BY <2>2, <2>3 DEF Orderly
<1>5. QED
  BY <1>3, <1>4

LEMMA ResetKeepsOrder ==
  ASSUME TypeOK, Control, Orderly,
         AskPosition \/ ForgetRequests \/ ClearOld \/ ClearNew \/ Timers
  PROVE  Orderly'
<1> USE DEF Orderly, RequestsAreBehind, RequestedOnce, Goto, requests, positions
<1>1. CASE Crash
  BY <1>1 DEF Crash
<1>2. CASE AskPosition
  BY <1>2 DEF AskPosition, TypeOK
<1>3. CASE ForgetRequests /\ ~Crash
  BY <1>3 DEF ForgetRequests, ClearCrashes, RequestsAfterReset
<1>4. CASE (ClearOld \/ ClearNew) /\ ~Crash
  BY <1>4 DEF ClearOld, ClearNew, ClearCrashes, TypeOK
<1>5. CASE Timers
  BY <1>5 DEF Timers, Reposition
<1>6. QED
  BY <1>1, <1>2, <1>3, <1>4, <1>5

LEMMA OthersKeepOrder ==
  ASSUME TypeOK, Control, Orderly,
         \/ \E p \in Partners, c \in Produced : ReceiveData(p, c)
         \/ NobodyAsked \/ MarkAvailable \/ UnsetNext \/ NobodyHasNext \/ LockRequests
         \/ StartReset \/ ReadLatest \/ SetToLatest \/ SubtractOffset
         \/ FindMedia \/ PlayMedia \/ PlayerGone \/ WaitForMedia \/ GiveUpOnMedia
         \/ MissChunk \/ BePatient \/ Halted \/ UNCHANGED vars
  PROVE  Orderly'
<1>1. /\ requestList' = requestList /\ oldRequestList' \subseteq oldRequestList
      /\ requestPosition' = requestPosition
      /\ receiveRequestPosition' = receiveRequestPosition
      /\ pc'["Q"] \in {"clear", "crashed"} <=> pc["Q"] \in {"clear", "crashed"}
  BY DEF ReceiveData, NobodyAsked, MarkAvailable, UnsetNext, NobodyHasNext, LockRequests,
         StartReset, ReadLatest, SetToLatest, SubtractOffset, FindMedia, PlayMedia,
         PlayerGone, WaitForMedia, GiveUpOnMedia, MissChunk, BePatient, Advance,
         Halted, Goto, TypeOK, positions, requests, vars
<1>2. QED
  BY <1>1 DEF Orderly, RequestsAreBehind, RequestedOnce

LEMMA OrderIsKept == Spec => []Orderly
<1>1. Init => Orderly
  BY DEF Init, Orderly, RequestsAreBehind, RequestedOnce
<1>2. TypeOK /\ Control /\ Orderly /\ [Next]_vars => Orderly'
  BY CreateKeepsOrder, SendKeepsOrder, TakeKeepsOrder, ResetKeepsOrder, OthersKeepOrder
     DEF Next, Receive, Request, Play, SoftReset
<1>3. QED
  BY <1>1, <1>2, TypeCorrect, PTL DEF Spec

\* What was requested is before the next chunk to request, and a node that waits
\* for a new position has no requests, although the flag and the lists are changed
\* in two steps without a mutex and the bootstrap may answer between them.
THEOREM AllRequestsAreBehind == Spec => []RequestsAreBehind
<1>1. Orderly => RequestsAreBehind
  BY DEF Orderly
<1>2. QED
  BY <1>1, OrderIsKept, PTL

\* There is never a second request for a chunk that is requested, received or
\* given up, through all resets of Q and P and all answers of the bootstrap.
THEOREM NoSecondRequest == Spec => []RequestedOnce
<1>1. Orderly => RequestedOnce
  BY DEF Orderly
<1>2. QED
  BY <1>1, OrderIsKept, PTL

(***************************************************************************)
(* A request is sent a bounded number of times.                            *)
(***************************************************************************)
NewOrTriedLess == BoundedTries /\ \A r \in requestList : r.due => r.tries = 0

LEMMA SendKeepsTries ==
  ASSUME TypeOK, NewOrTriedLess,
         NEW timedOut \in SUBSET requestList, NEW sendable \in SUBSET requestList,
         NEW lowBuffer \in BOOLEAN, SendRequests(timedOut, sendable, lowBuffer)
  PROVE  NewOrTriedLess'
<1>1. PICK dropped \in SUBSET requestList, due \in SUBSET requestList,
           chosen \in [sendable -> Partners] :
        SentAs(dropped, due, sendable, chosen, lowBuffer)
  BY SentRequests
<1>2. requestList \in SUBSET Requests
  BY DEF TypeOK
<1>3. ASSUME NEW q \in requestList'
      PROVE  ~q.due /\ (MaxAttempts > 0 => q.tries <= MaxAttempts)
  <2>1. PICK r \in requestList \ dropped : q = Sent(r, due, sendable, chosen)
    BY <1>1 DEF SentAs
  <2>2. r \in Requests /\ r.tries \in Nat
    BY <1>2 DEF Requests
  <2>3. MaxAttempts > 0 => r.tries <= MaxAttempts
    BY DEF NewOrTriedLess, BoundedTries
  <2>4. CASE r \in sendable
    <3>1. q.tries = r.tries + 1 /\ ~q.due
      BY <2>1, <2>4 DEF Sent, Attempted
    <3>2. r.tries = 0 \/ ~GivesUp(r, lowBuffer)
      BY <1>1, <2>4 DEF SentAs, NewOrTriedLess
    <3>3. MaxAttempts > 0 => r.tries < MaxAttempts
      BY <2>2, <3>2, PipelineAssumption DEF GivesUp
    <3>4. QED
      BY <2>2, <3>1, <3>3, PipelineAssumption
  <2>5. CASE r \in due \ sendable
    BY <2>1, <2>2, <2>3, <2>5 DEF Sent, Requests
  <2>6. CASE r \notin due
    <3>1. q = r
      BY <1>1, <2>1, <2>6 DEF Sent, SentAs
    <3>2. ~r.due
      BY <1>1, <2>6 DEF SentAs
    <3>3. QED
      BY <2>3, <3>1, <3>2
  <2>7. QED
    BY <2>4, <2>5, <2>6
<1>4. QED
  BY <1>3 DEF NewOrTriedLess, BoundedTries

LEMMA OthersKeepTries ==
  ASSUME NewOrTriedLess,
         CreateRequest \/ TakeRequest \/ requestList' \in {requestList, {}}
  PROVE  NewOrTriedLess'
<1>1. CASE CreateRequest
  BY <1>1, PipelineAssumption DEF CreateRequest, NewRequest, NewOrTriedLess, BoundedTries
<1>2. CASE TakeRequest
  <2>1. requestList' \subseteq requestList
    BY <1>2 DEF TakeRequest, InsertCrashes, Crash, requests
  <2>2. QED
    BY <2>1 DEF NewOrTriedLess, BoundedTries
<1>3. CASE requestList' \in {requestList, {}}
  BY <1>3 DEF NewOrTriedLess, BoundedTries
<1>4. QED
  BY <1>1, <1>2, <1>3

\* No chunk is asked for more than MaxAttempts times, whatever the answers: the
\* attempts are counted and compared in two different loops of FazPedidos.
THEOREM TriesAreBounded == Spec => []BoundedTries
<1>1. Init => NewOrTriedLess
  BY DEF Init, NewOrTriedLess, BoundedTries
<1>2. TypeOK /\ NewOrTriedLess /\ [Next]_vars => NewOrTriedLess'
  <2> SUFFICES ASSUME TypeOK, NewOrTriedLess, [Next]_vars PROVE NewOrTriedLess'
    OBVIOUS
  <2> USE DEF Crash, ClearCrashes, requests, positions, locals
  <2>1. CASE Receive
    BY <2>1, OthersKeepTries DEF Receive, ReceiveData, NobodyAsked, MarkAvailable
  <2>2. CASE Request
    BY <2>2, OthersKeepTries, SendKeepsTries
       DEF Request, UnsetNext, NobodyHasNext, LockRequests, AskPosition, ForgetRequests,
           RequestsAfterReset
  <2>3. CASE Play
    BY <2>3, OthersKeepTries DEF Play, SoftReset, StartReset, ReadLatest, SetToLatest,
       SubtractOffset, ClearOld, ClearNew, FindMedia, PlayMedia, PlayerGone, WaitForMedia,
       GiveUpOnMedia, MissChunk, BePatient, Advance
  <2>4. CASE Timers \/ Halted \/ UNCHANGED vars
    BY <2>4, OthersKeepTries DEF Timers, Reposition, Halted, vars
  <2>5. QED
    BY <2>1, <2>2, <2>3, <2>4 DEF Next
<1>3. NewOrTriedLess => BoundedTries
  BY DEF NewOrTriedLess
<1>4. QED
  BY <1>1, <1>2, <1>3, TypeCorrect, PTL DEF Spec

(***************************************************************************)
(* The positions of player and requester.  No name that the node counts    *)
(* on from is so late in the stream that its cycle could overflow: the     *)
(* player only leaves places that were produced.  A soft reset that nobody *)
(* disturbs stays a ring after the position it left, until it subtracts an *)
(* offset of less than a ring.                                             *)
(***************************************************************************)
InStream ==
  /\ \A s \in Positions : buffer[s] # NoChunk => buffer[s] \in Produced
  /\ latestReceivedPosition \in Produced \cup {FirstChunk}
  /\ pc["P"] \in {"play", "miss"} => playerDeliveryPosition \in Produced

RingAfterLeft(c) == Ord(left) + BufferSize <= Ord(c)

ResetIsAhead ==
  left # NoChunk =>
    /\ pc["P"] = "reset" =>
         playerDeliveryPosition = left /\ RingAfterLeft(latestReceivedPosition)
    /\ pc["P"] = "set" =>
         /\ playerDeliveryPosition = left
         /\ RingAfterLeft(latestReceivedPosition) /\ RingAfterLeft(target)
         /\ target.cycle = latestReceivedPosition.cycle
    /\ pc["P"] = "offset" => RingAfterLeft(playerDeliveryPosition)

LEMMA FirstIsZero == FirstChunk \in ChunkIDs /\ Ord(FirstChunk) = 0
BY ChunkTypes, RingAssumption DEF FirstChunk, ChunkID, Ord

\* Where a reposition starts is not after what the server announced.
LEMMA StartIsProduced ==
  ASSUME NEW tip \in Produced
  PROVE  (IF tip.cycle = 0 /\ tip.pos < Offset THEN FirstChunk ELSE MinusInt(tip, Offset))
           \in Produced
<1>1. tip \in ChunkIDs /\ Ord(tip) \in Nat /\ Ord(tip) < StreamLength /\ Offset \in 0 .. (BufferSize - 1)
  BY OrdType, PipelineAssumption DEF Produced, Positions
<1>2. CASE tip.cycle = 0 /\ tip.pos < Offset
  BY <1>1, <1>2, FirstIsZero, PipelineAssumption DEF Produced
<1>3. CASE ~(tip.cycle = 0 /\ tip.pos < Offset)
  <2>1. Offset <= Ord(tip)
    <3>1. /\ tip.cycle \in Nat /\ tip.pos \in Nat /\ BufferSize \in Nat
          /\ Ord(tip) = tip.cycle * BufferSize + tip.pos
      BY <1>1, OrdType, RingAssumption DEF Ord
    <3>2. CASE tip.cycle = 0
      BY <1>1, <1>3, <3>1, <3>2
    <3>3. CASE tip.cycle > 0
      <4>1. BufferSize <= tip.cycle * BufferSize
        <5>1. 0 * BufferSize + BufferSize <= tip.cycle * BufferSize
          BY <3>1, <3>3, CyclesAreApart
        <5>2. QED
          BY <3>1, <5>1
      <4>2. tip.cycle * BufferSize \in Nat
        BY <3>1
      <4>3. QED
        BY <1>1, <3>1, <4>1, <4>2
    <3>4. QED
      BY <3>1, <3>2, <3>3
  <2>2. MinusInt(tip, Offset) \in ChunkIDs /\ Ord(MinusInt(tip, Offset)) = Ord(tip) - Offset
    BY <1>1, <2>1, ShortOffset
  <2>3. QED
    BY <1>1, <1>3, <2>1, <2>2, PipelineAssumption DEF Produced
<1>4. QED
  BY <1>2, <1>3

\* A player that is one ring behind has the newest chunk a ring ahead of it.
LEMMA BehindByRing ==
  ASSUME TypeOK, OneRingBehind
  PROVE  Ord(playerDeliveryPosition) + BufferSize <= Ord(latestReceivedPosition)
<1> DEFINE latest == latestReceivedPosition
           player == playerDeliveryPosition
<1>1. latest \in ChunkIDs /\ player \in ChunkIDs
  BY DEF TypeOK
<1>2. Ord(latest) \in Nat /\ Ord(player) \in Nat /\ BufferSize \in Nat
  BY <1>1, OrdType, RingAssumption
<1>3. After(latest, player) /\ Minus(latest, player).cycle # 0
  <2>1. Minus(latest, player).cycle > 0
    BY DEF OneRingBehind
  <2>2. QED
    BY <2>1 DEF OneRingBehind
<1>4. Ord(player) < Ord(latest) /\ ~WithinOneCycle(latest, player)
  BY <1>1, <1>3, OrderIsNumeric DEF WithinOneCycle
<1>5. QED
  BY <1>1, <1>2, <1>4, OneCycleMeansOneRing

\* What is a ring after a position is after it, and still is less an offset.
LEMMA RingAfterIsAfter ==
  ASSUME NEW c \in ChunkIDs, left \in ChunkIDs, RingAfterLeft(c)
  PROVE  /\ Ord(left) < Ord(c)
         /\ MinusInt(c, Offset) \in ChunkIDs /\ Ord(left) < Ord(MinusInt(c, Offset))
<1>1. /\ Ord(c) \in Nat /\ Ord(left) \in Nat /\ BufferSize \in Nat \ {0}
      /\ Offset \in 0 .. (BufferSize - 1)
  BY OrdType, RingAssumption, PipelineAssumption DEF Positions
<1>2. MinusInt(c, Offset) \in ChunkIDs /\ Ord(MinusInt(c, Offset)) = Ord(c) - Offset
  BY <1>1, ShortOffset DEF RingAfterLeft
<1>3. QED
  BY <1>1, <1>2 DEF RingAfterLeft

\* The newest chunk only becomes newer.
LEMMA LatestGrows ==
  ASSUME TypeOK, Control, MarkAvailable
  PROVE  Ord(latestReceivedPosition) <= Ord(latestReceivedPosition')
<1>1. arrived[2] \in ChunkIDs /\ latestReceivedPosition \in ChunkIDs
  BY DEF TypeOK, Control, MarkAvailable, Produced
<1>2. Ord(arrived[2]) \in Nat /\ Ord(latestReceivedPosition) \in Nat
  BY <1>1, OrdType
<1>3. QED
  BY <1>1, <1>2, OrderIsNumeric DEF MarkAvailable

LEMMA KeepsResetAhead ==
  ASSUME TypeOK, Control, ResetIsAhead, [Next]_vars
  PROVE  ResetIsAhead'
<1> USE DEF Goto, TypeOK, positions, media, locals, requests, reset
<1>1. CASE Crash
  BY <1>1 DEF Crash, ResetIsAhead
<1>2. CASE MarkAvailable
  <2>1. /\ Ord(latestReceivedPosition) <= Ord(latestReceivedPosition')
        /\ latestReceivedPosition' \in ChunkIDs
    BY <1>2, LatestGrows DEF MarkAvailable, Control, Produced
  <2>2. SUFFICES ASSUME left' # NoChunk PROVE ResetIsAhead'
    BY DEF ResetIsAhead
  <2>3. /\ left' = left /\ UNCHANGED <<playerDeliveryPosition, target>> /\ pc'["P"] = pc["P"]
        /\ pc["P"] = "set" => latestReceivedPosition'.cycle = latestReceivedPosition.cycle
    BY <1>2, <2>2 DEF MarkAvailable
  <2>4. RingAfterLeft(latestReceivedPosition)
          => Ord(left') + BufferSize <= Ord(latestReceivedPosition')
    <3>1. Ord(latestReceivedPosition) \in Nat /\ Ord(latestReceivedPosition') \in Nat
      BY <2>1, OrdType
    <3>2. left \in ChunkIDs /\ Ord(left) \in Nat /\ BufferSize \in Nat
      BY <2>2, <2>3, OrdType, RingAssumption
    <3>3. QED
      BY <2>1, <2>3, <3>1, <3>2 DEF RingAfterLeft
  <2>5. QED
    BY <2>2, <2>3, <2>4 DEF ResetIsAhead, RingAfterLeft
<1>3. CASE StartReset
  <2>1. Ord(left') + BufferSize <= Ord(latestReceivedPosition')
    BY <1>3, BehindByRing DEF StartReset
  <2>2. QED
    BY <1>3, <2>1 DEF StartReset, ResetIsAhead, RingAfterLeft
<1>4. CASE ReadLatest
  BY <1>4 DEF ReadLatest, ResetIsAhead, RingAfterLeft
<1>5. CASE SetToLatest
  <2>1. SUFFICES ASSUME left # NoChunk PROVE Ord(left') + BufferSize <= Ord(playerDeliveryPosition')
    BY <1>5 DEF SetToLatest, ResetIsAhead, RingAfterLeft
  <2>2. target.cycle = latestReceivedPosition.cycle /\ left' = left
    BY <1>5, <2>1 DEF SetToLatest, ResetIsAhead
  <2>3. playerDeliveryPosition' \in {target, latestReceivedPosition}
    BY <1>5, <2>2 DEF SetToLatest, ChunkID, ChunkIDs
  <2>4. QED
    BY <1>5, <2>1, <2>2, <2>3 DEF SetToLatest, ResetIsAhead, RingAfterLeft
<1>6. CASE Timers \/ SubtractOffset
  BY <1>6 DEF Timers, Reposition, SubtractOffset, ResetIsAhead
<1>7. CASE /\ ~Crash
           /\ \/ ClearOld \/ ClearNew \/ FindMedia \/ PlayMedia \/ PlayerGone \/ WaitForMedia
              \/ GiveUpOnMedia \/ MissChunk \/ BePatient
  <2>1. pc'["P"] \in {"clearNew", "look", "loop", "play", "miss"}
    BY <1>7 DEF ClearOld, ClearNew, ClearCrashes, FindMedia, PlayMedia, PlayerGone,
                WaitForMedia, GiveUpOnMedia, MissChunk, BePatient, Advance
  <2>2. QED
    BY <2>1 DEF ResetIsAhead
<1>8. CASE /\ ~Crash
           /\ \/ \E p \in Partners, c \in Produced : ReceiveData(p, c)
              \/ TakeRequest \/ NobodyAsked \/ Request \/ Halted \/ UNCHANGED vars
  <2>1. /\ UNCHANGED <<latestReceivedPosition, playerDeliveryPosition, reset>>
        /\ pc'["P"] = pc["P"]
    <3>1. CASE Request
      BY <1>8, <3>1 DEF Request, CreateRequest, UnsetNext, NobodyHasNext, LockRequests,
                  SendRequests, AskPosition, ForgetRequests, ClearCrashes
    <3>2. CASE ~Request
      BY <1>8, <3>2 DEF ReceiveData, TakeRequest, InsertCrashes, NobodyAsked, Halted, vars
    <3>3. QED
      BY <3>1, <3>2
  <2>2. QED
    BY <2>1 DEF ResetIsAhead, RingAfterLeft
<1>9. QED
  BY <1>1, <1>2, <1>3, <1>4, <1>5, <1>6, <1>7, <1>8 DEF Next, Receive, Play, SoftReset

\* The player moves to the next number, from a place that was produced.
LEMMA AdvanceIsNext ==
  ASSUME InStream, PlayMedia \/ MissChunk
  PROVE  /\ playerDeliveryPosition' = IncID(playerDeliveryPosition)
         /\ playerDeliveryPosition' \in ChunkIDs
         /\ Ord(playerDeliveryPosition') = Ord(playerDeliveryPosition) + 1
BY NextNumber DEF PlayMedia, MissChunk, Advance, InStream

\* A place that is not after the newest chunk received was produced.
LEMMA NotAfterLatest ==
  ASSUME TypeOK, InStream,
         \/ Before(playerDeliveryPosition, latestReceivedPosition)
         \/ /\ AtOrAfter(latestReceivedPosition, playerDeliveryPosition)
            /\ \E c \in Produced : TRUE
  PROVE  playerDeliveryPosition \in Produced
<1>1. /\ playerDeliveryPosition \in ChunkIDs /\ Ord(playerDeliveryPosition) \in Nat
      /\ latestReceivedPosition \in ChunkIDs /\ Ord(latestReceivedPosition) \in Nat
      /\ StreamLength \in Nat
  BY OrdType, PipelineAssumption DEF TypeOK
<1>2. Ord(playerDeliveryPosition) <= Ord(latestReceivedPosition)
  BY <1>1, OrderIsNumeric
<1>3. \/ Ord(playerDeliveryPosition) < Ord(latestReceivedPosition)
      \/ \E c \in Produced : TRUE
  BY <1>1, OrderIsNumeric
<1>4. CASE latestReceivedPosition \in Produced
  BY <1>1, <1>2, <1>4 DEF Produced
<1>5. CASE latestReceivedPosition = FirstChunk
  <2>1. Ord(playerDeliveryPosition) = 0 /\ \E c \in Produced : TRUE
    BY <1>1, <1>2, <1>3, <1>5, FirstIsZero
  <2>2. StreamLength > 0
    BY <1>1, <2>1, OrdType DEF Produced
  <2>3. QED
    BY <1>1, <2>1, <2>2 DEF Produced
<1>6. QED
  BY <1>4, <1>5 DEF InStream

LEMMA KeepsInStream ==
  ASSUME TypeOK, Control, InStream, [Next]_vars
  PROVE  InStream'
<1> USE DEF Goto, TypeOK, positions, media, locals, requests, reset
<1>1. CASE Crash
  BY <1>1 DEF Crash, InStream
<1> SUFFICES ASSUME ~Crash PROVE InStream'
  BY <1>1
<1>2. CASE MarkAvailable
  BY <1>2 DEF MarkAvailable, InStream, Control
<1>3. CASE TakeRequest
  <2>1. /\ buffer' = [buffer EXCEPT ![arrived[2].pos] = arrived[2]] /\ arrived[2] \in Produced
        /\ UNCHANGED positions /\ pc'["P"] = pc["P"]
    BY <1>3 DEF TakeRequest, InsertCrashes, Control
  <2>2. QED
    BY <2>1 DEF InStream
<1>4. CASE Timers
  <2>1. playerDeliveryPosition' \in Produced
    BY <1>4, StartIsProduced DEF Timers, Reposition
  <2>2. QED
    BY <1>4, <2>1 DEF Timers, Reposition, InStream
<1>5. CASE FindMedia
  <2>1. \E c \in Produced : TRUE
    BY <1>5, ChunkTypes DEF FindMedia, CanPlay, Available, InStream
  <2>2. playerDeliveryPosition \in Produced
    BY <1>5, <2>1, NotAfterLatest DEF FindMedia, CanPlay
  <2>3. QED
    BY <1>5, <2>2 DEF FindMedia, InStream
<1>6. CASE GiveUpOnMedia
  <2>1. playerDeliveryPosition \in Produced
    BY <1>6, NotAfterLatest DEF GiveUpOnMedia, MaySkip
  <2>2. QED
    BY <1>6, <2>1 DEF GiveUpOnMedia, InStream
<1>7. CASE \/ StartReset \/ ReadLatest \/ SetToLatest \/ SubtractOffset \/ ClearOld \/ ClearNew
           \/ PlayMedia \/ MissChunk \/ PlayerGone \/ WaitForMedia \/ BePatient
  <2>1. /\ UNCHANGED <<buffer, latestReceivedPosition>>
        /\ pc'["P"] \notin {"play", "miss"}
    BY <1>7 DEF StartReset, ReadLatest, SetToLatest, SubtractOffset, ClearOld, ClearNew,
                ClearCrashes, PlayMedia, MissChunk, PlayerGone, WaitForMedia, BePatient, Advance
  <2>2. QED
    BY <2>1 DEF InStream
<1>8. CASE \/ \E p \in Partners, c \in Produced : ReceiveData(p, c)
           \/ NobodyAsked \/ Request \/ Halted \/ UNCHANGED vars
  <2>1. /\ UNCHANGED <<buffer, latestReceivedPosition, playerDeliveryPosition>>
        /\ pc'["P"] = pc["P"]
    <3>1. CASE Request
      BY <3>1 DEF Request, CreateRequest, UnsetNext, NobodyHasNext, LockRequests, SendRequests,
                  AskPosition, ForgetRequests, ClearCrashes
    <3>2. CASE ~Request
      BY <1>8, <3>2 DEF ReceiveData, NobodyAsked, Halted, vars
    <3>3. QED
      BY <3>1, <3>2
  <2>2. QED
    BY <2>1 DEF InStream
<1>9. QED
  BY <1>2, <1>3, <1>4, <1>5, <1>6, <1>7, <1>8 DEF Next, Receive, Play, SoftReset

\* What each step does to the two positions.
RequesterForward ==
  \/ requestPosition' = requestPosition
  \/ requestPosition' \in ChunkIDs /\ Ord(requestPosition) < Ord(requestPosition')

PlayerForward ==
  \/ playerDeliveryPosition' = playerDeliveryPosition
  \/ /\ playerDeliveryPosition' \in ChunkIDs
     /\ Ord(playerDeliveryPosition) < Ord(playerDeliveryPosition')

LEMMA StepsForward ==
  ASSUME TypeOK, Control, InStream, [Next]_vars
  PROVE  \/ receiveRequestPosition /\ ~receiveRequestPosition'
         \/ /\ RequesterForward
            /\ SetToLatest \/ SubtractOffset \/ PlayerForward
<1> USE DEF positions, RequesterForward, PlayerForward
<1>1. CASE Timers
  BY <1>1 DEF Timers, Reposition
<1>2. CASE CreateRequest
  <2>1. requestPosition \in Produced /\ Ord(requestPosition) \in Nat
    BY <1>2, OrdType DEF CreateRequest, Produced
  <2>2. QED
    BY <1>2, <2>1, NextNumber DEF CreateRequest
<1>3. CASE SetToLatest \/ SubtractOffset
  BY <1>3 DEF SetToLatest, SubtractOffset
<1>4. CASE PlayMedia \/ MissChunk
  <2>1. Ord(playerDeliveryPosition) \in Nat
    BY OrdType DEF TypeOK
  <2>2. requestPosition' = requestPosition
    BY <1>4 DEF PlayMedia, MissChunk, Advance
  <2>3. QED
    BY <1>4, <2>1, <2>2, AdvanceIsNext
<1>5. CASE Crash \/ UNCHANGED vars
  BY <1>5 DEF Crash, vars
<1>6. CASE \/ Receive \/ UnsetNext \/ NobodyHasNext \/ LockRequests
           \/ \E timedOut \in SUBSET requestList, sendable \in SUBSET requestList,
                 lowBuffer \in BOOLEAN : SendRequests(timedOut, sendable, lowBuffer)
           \/ AskPosition \/ ForgetRequests
           \/ StartReset \/ ReadLatest \/ ClearOld \/ ClearNew
           \/ FindMedia \/ PlayerGone \/ WaitForMedia \/ GiveUpOnMedia \/ BePatient \/ Halted
  BY <1>5, <1>6 DEF Receive, ReceiveData, TakeRequest, InsertCrashes, NobodyAsked, MarkAvailable,
     UnsetNext, NobodyHasNext, LockRequests, SendRequests, AskPosition, ForgetRequests,
     StartReset, ReadLatest, ClearOld, ClearNew, ClearCrashes, FindMedia, PlayerGone,
     WaitForMedia, GiveUpOnMedia, BePatient, Halted, vars
<1>7. QED
  BY <1>1, <1>2, <1>3, <1>4, <1>5, <1>6 DEF Next, Request, Play, SoftReset

\* A soft reset ends by subtracting the offset, or with the process.
LEMMA ResetEnds ==
  ASSUME TypeOK, Control, [Next]_vars, Resetting
  PROVE  Resetting' \/ SubtractOffset \/ Crash
<1> USE DEF Goto, TypeOK, Resetting, reset
<1>1. CASE Timers
  BY <1>1 DEF Timers, Reposition
<1>2. CASE Receive
  BY <1>2 DEF Receive, ReceiveData, TakeRequest, InsertCrashes, NobodyAsked, MarkAvailable
<1>3. CASE Request
  BY <1>3 DEF Request, CreateRequest, UnsetNext, NobodyHasNext, LockRequests, SendRequests,
              AskPosition, ForgetRequests, ClearCrashes
<1>4. CASE Play
  BY <1>4 DEF Play, SoftReset, StartReset, ReadLatest, SetToLatest, ClearOld, ClearNew, FindMedia,
              PlayMedia, PlayerGone, WaitForMedia, GiveUpOnMedia, MissChunk, BePatient,
              NoMedia, Looks
<1>5. CASE Halted \/ UNCHANGED vars
  BY <1>5 DEF Halted, vars
<1>6. QED
  BY <1>1, <1>2, <1>3, <1>4, <1>5 DEF Next

\* The stream is played and requested forward, through the resets of Q and P, the end of
\* the ring and the wrap of the unsigned subtraction; only an answer of the bootstrap to a
\* node that asked for its position sends it back, at once or by way of a soft reset that
\* it disturbs, as a new cycle does that begins between the two reads of the newest name.
\* PipelineAssumption has the offset smaller than the ring, which the code does not check.
THEOREM StreamGoesForward == Spec => PositionsAdvance
<1>1. Init => InStream /\ ResetIsAhead
  BY DEF Init, InStream, ResetIsAhead
<1>2. TypeOK /\ Control /\ InStream /\ ResetIsAhead /\ [Next]_vars => InStream' /\ ResetIsAhead'
  BY KeepsInStream, KeepsResetAhead
<1>3. ASSUME TypeOK, Control, InStream, ResetIsAhead, [Next]_vars
      PROVE  \/ receiveRequestPosition /\ ~receiveRequestPosition'
             \/ /\ ~Before(requestPosition', requestPosition)
                /\ \/ Resetting'
                   \/ Resetting /\ left = NoChunk
                   \/ ~Before(playerDeliveryPosition', IF Resetting THEN left
                                                       ELSE playerDeliveryPosition)
  <2>1. ASSUME NEW c \in ChunkIDs, NEW d, d = c \/ (d \in ChunkIDs /\ Ord(c) < Ord(d))
        PROVE  ~Before(d, c)
    <3>1. d \in ChunkIDs /\ Ord(c) \in Nat /\ Ord(d) \in Nat /\ ~(Ord(d) < Ord(c))
      BY <2>1, OrdType
    <3>2. QED
      BY <3>1, OrderIsNumeric
  <2>2. RequesterForward => ~Before(requestPosition', requestPosition)
    BY <1>3, <2>1 DEF RequesterForward, TypeOK
  <2>3. PlayerForward => ~Before(playerDeliveryPosition', playerDeliveryPosition)
    BY <1>3, <2>1 DEF PlayerForward, TypeOK
  <2>4. CASE ~Resetting
    <3>1. SetToLatest \/ SubtractOffset => FALSE
      BY <2>4 DEF SetToLatest, SubtractOffset, Resetting
    <3>2. QED
      BY <1>3, <2>2, <2>3, <2>4, <3>1, StepsForward
  <2>5. CASE Resetting /\ ~Resetting' /\ left # NoChunk
    <3>1. left \in ChunkIDs /\ playerDeliveryPosition \in ChunkIDs
      BY <1>3, <2>5 DEF TypeOK
    <3>2. CASE SubtractOffset
      <4>1. RingAfterLeft(playerDeliveryPosition)
        BY <1>3, <2>5, <3>2 DEF ResetIsAhead, SubtractOffset
      <4>2. ~Before(playerDeliveryPosition', left)
        BY <2>1, <3>1, <3>2, <4>1, RingAfterIsAfter DEF SubtractOffset
      <4>3. QED
        BY <1>3, <2>2, <2>5, <4>2, StepsForward
    <3>3. CASE Crash
      <4>1. \/ playerDeliveryPosition = left
            \/ RingAfterLeft(playerDeliveryPosition)
        BY <1>3, <2>5 DEF ResetIsAhead, Resetting
      <4>2. ~Before(playerDeliveryPosition, left)
        BY <2>1, <3>1, <4>1, RingAfterIsAfter
      <4>3. QED
        BY <1>3, <2>2, <2>5, <3>3, <4>2, StepsForward DEF Crash, positions
    <3>4. QED
      BY <1>3, <2>5, <3>2, <3>3, ResetEnds
  <2>6. CASE Resetting /\ (Resetting' \/ left = NoChunk)
    BY <1>3, <2>2, <2>6, StepsForward
  <2>7. QED
    BY <2>4, <2>5, <2>6
<1>4. QED
  BY <1>1, <1>2, <1>3, TypeCorrect, PTL DEF Spec, PositionsAdvance
=============================================================================
