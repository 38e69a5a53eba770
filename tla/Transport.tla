----------------------------- MODULE Transport -----------------------------
(***************************************************************************)
(* The queue between the threads that hand messages over and the one       *)
(* thread, C, that takes them out: common/udp.cpp, the schedulers of       *)
(* common/Scheduler and client/Temporizable/LeakyBucket.cpp.  Of a node,   *)
(* role "send" is what EnqueueSend and UDPSend share, role "receive" what  *)
(* Handle_recv and UDPReceive share.                                       *)
(*                                                                         *)
(* Each scheduler locks its queue for a Push, for a GetSize and for the    *)
(* part of Pop that takes a message, but tests whether it is empty before  *)
(* it locks; the condition variables are notified without the mutex that   *)
(* the waiting thread holds.  C is the only thread that pops.  A           *)
(* condition variable may wake by itself (WakeBySelf).                     *)
(***************************************************************************)
EXTENDS Integers, Sequences, FiniteSetsExt, SequencesExt

CONSTANTS
  Messages,       \* records: address (a positive number, the order of their
                  \* names), opcode, size, and diff, how far the chunk asked
                  \* for is ahead of the player
  None,           \* no message
  Schedulers,     \* the options "FIFO", "Random", "CDF", "RR"
  Roles,          \* "send", "receive"
  Producers,      \* the threads that send
  WithBucket,     \* there is a leakyBucketUpload
  DataFilter,     \* leakyBucketDataFilter
  BucketSize,     \* limitUpload
  Refill,         \* what one alarm puts into the bucket
  TicksPerSecond  \* steps of the clock

Addresses == {m.address : m \in Messages}
Invalid == 0 \* keyPointer "invalid"

ASSUME TransportAssumption ==
  /\ \A m \in Messages :
       /\ m.address \in Nat \ {Invalid} /\ m.size \in Nat /\ m.diff \in Int
       /\ m.opcode \in {"data", "request", "other"}
  /\ None \notin Messages
  /\ Schedulers \subseteq {"FIFO", "Random", "CDF", "RR"} /\ Roles \subseteq {"send", "receive"}
  /\ Producers \in Nat \ {0}
  /\ WithBucket \in BOOLEAN /\ DataFilter \in BOOLEAN
  /\ BucketSize \in Nat /\ Refill \in Nat /\ TicksPerSecond \in Nat \ {0}

VARIABLES
  scheduler, role,
  fifo,       \* fifoQueue, of Random: randomList
  requests,   \* CDF: requestQueue
  rr,         \* RR: rrQueue
  keySet,     \* RR, also the keys of rrQueue
  keyPointer, \* RR
  notifying,  \* threads between their Push and their notify_one
  pc,         \* where C is
  message,    \* the message C took out
  tokens,     \* of the bucket
  age,        \* ticks since a message was made, up to a second
  clock,      \* ticks since the second began
  overtaken   \* RR, not in the code: whom C served while an address waited

queues == <<fifo, requests, rr, keySet>>
ghosts == <<overtaken>>
vars == <<scheduler, role, queues, keyPointer, notifying, pc, message, tokens, age, clock, ghosts>>

InRR == UNION {ToSet(rr[a]) : a \in Addresses}
Waiting == ToSet(fifo) \cup ToSet(requests) \cup InRR

(***************************************************************************)
(* The threads that hand messages over.                                    *)
(***************************************************************************)
PushAtFront(q, m) == <<m>> \o q \* mutant
PushAtEnd(q, m) == Append(q, m)

\* CDF: the place of m in a multimap ordered by diff.
UpperBound(i, m) == \A j \in DOMAIN requests : j < i <=> requests[j].diff <= m.diff

\* Random inserts at a random position that is always the first: drand48() is
\* cut to an integer before it is scaled.
Insert(m) ==
  \/ /\ scheduler = "FIFO" \/ (scheduler = "CDF" /\ m.opcode # "request")
     /\ fifo' = PushAtEnd(fifo, m)
     /\ UNCHANGED <<requests, rr, keySet>>
  \/ /\ scheduler = "Random"
     /\ fifo' = <<m>> \o fifo
     /\ UNCHANGED <<requests, rr, keySet>>
  \/ /\ scheduler = "CDF" /\ m.opcode = "request"
     /\ \E i \in 1 .. (Len(requests) + 1) :
          UpperBound(i, m) /\ requests' = InsertAt(requests, i, m)
     /\ UNCHANGED <<fifo, rr, keySet>>
  \/ /\ scheduler = "RR"
     /\ rr' = [rr EXCEPT ![m.address] = PushAtEnd(@, m)]
     /\ keySet' = keySet \cup {m.address}
     /\ UNCHANGED <<fifo, requests>>

\* One thread receives, any thread sends.
MayHandOver == notifying < (IF role = "receive" THEN 1 ELSE Producers)

Push(m) ==
  /\ MayHandOver
  /\ m \notin Waiting \cup {message}
  /\ Insert(m)
  /\ age' = [age EXCEPT ![m] = 0]
  /\ notifying' = notifying + 1
  /\ UNCHANGED <<scheduler, role, keyPointer, pc, message, tokens, clock, ghosts>>

\* A datagram that fails CheckIntegrity is not queued, but is announced.
BadDatagram ==
  /\ role = "receive" /\ MayHandOver
  /\ notifying' = notifying + 1
  /\ UNCHANGED <<scheduler, role, queues, keyPointer, pc, message, tokens, age, clock, ghosts>>

Goto(from, to) == pc = from /\ pc' = to
KeepQueues == UNCHANGED <<scheduler, role, queues, keyPointer, clock, ghosts>>

Notify ==
  /\ notifying > 0
  /\ notifying' = notifying - 1
  /\ pc' = IF pc = "asleep" THEN "choose" ELSE pc
  /\ KeepQueues /\ UNCHANGED <<message, tokens, age>>

(***************************************************************************)
(* C: GetNextMessageToSend, GetNextMessageToReceive.                       *)
(***************************************************************************)
GetSize ==
  /\ pc = "size"
  /\ pc' = IF Waiting = {} THEN "wait" ELSE "choose"
  /\ KeepQueues /\ UNCHANGED <<notifying, message, tokens, age>>

\* What is notified before C sleeps is lost.
Wait ==
  /\ Goto("wait", "asleep")
  /\ KeepQueues /\ UNCHANGED <<notifying, message, tokens, age>>

WakeBySelf ==
  /\ \/ Goto("asleep", "choose")
     \/ Goto("lowAsleep", "bucket")
  /\ KeepQueues /\ UNCHANGED <<notifying, message, tokens, age>>

\* Pop before it locks.  With nothing to take it returns NULL.
Choose ==
  /\ \/ fifo # <<>> /\ Goto("choose", "popFifo") /\ UNCHANGED keyPointer
     \/ fifo = <<>> /\ requests # <<>> /\ Goto("choose", "popRequest") /\ UNCHANGED keyPointer
     \/ /\ keySet # {} /\ Goto("choose", "popRR")
        /\ keyPointer' = IF keyPointer = Invalid THEN Min(keySet) ELSE keyPointer
     \/ Waiting = {} /\ Goto("choose", "size") /\ UNCHANGED keyPointer
  /\ UNCHANGED <<scheduler, role, queues, notifying, message, tokens, age, clock, ghosts>>

\* What follows a message that was taken out: UDPSend tests its age,
\* UDPReceive handles it.
Taken(m) ==
  /\ message' = m
  /\ pc' = IF role = "send" THEN "test" ELSE "finish"
  /\ UNCHANGED <<scheduler, role, notifying, tokens, age, clock>>

PopFifo ==
  /\ pc = "popFifo"
  /\ Taken(Head(fifo))
  /\ fifo' = Tail(fifo)
  /\ UNCHANGED <<requests, rr, keySet, keyPointer, ghosts>>

PopRequest ==
  /\ pc = "popRequest"
  /\ Taken(Head(requests))
  /\ requests' = Tail(requests)
  /\ UNCHANGED <<fifo, rr, keySet, keyPointer, ghosts>>

\* The loop of Pop: the next key in their cyclic order that has messages, other
\* than the one just served.
Others == {k \in keySet \ {keyPointer} : rr[k] # <<>>}

FirstKey == IF Others = {} THEN Invalid ELSE Min(Others) \* mutant
KeepKey == keyPointer \* mutant
NextKey ==
  LET later == {k \in Others : k > keyPointer}
  IN IF Others = {} THEN Invalid ELSE Min(IF later = {} THEN Others ELSE later)

PopRR ==
  LET a == keyPointer
  IN /\ pc = "popRR"
     /\ Taken(Head(rr[a]))
     /\ rr' = [rr EXCEPT ![a] = Tail(@)]
     /\ keySet' = IF Tail(rr[a]) = <<>> THEN keySet \ {a} ELSE keySet
     /\ keyPointer' = NextKey
     /\ overtaken' = [b \in Addresses |-> IF b = a \/ rr[b] = <<>> THEN {}
                                          ELSE overtaken[b] \cup {a}]
     /\ UNCHANGED <<fifo, requests>>

(***************************************************************************)
(* C: UDPSend and UDPReceive.                                              *)
(***************************************************************************)
\* GetAge divides the microseconds as integers: it is the number of times that
\* the clock's second turned.
GetAge(m) == IF age[m] > clock THEN 1 ELSE 0

Passes(m) == WithBucket /\ (DataFilter => m.opcode = "data")

Done == pc' = "size" /\ message' = None /\ age' = [age EXCEPT ![message] = 0]

TooOld == 2 * GetAge(message) >= 1

DropOld ==
  /\ pc = "test" /\ TooOld
  /\ Done
  /\ KeepQueues /\ UNCHANGED <<notifying, tokens>>

TestAge ==
  /\ pc = "test" /\ ~TooOld
  /\ pc' = IF Passes(message) THEN "bucket" ELSE "finish"
  /\ KeepQueues /\ UNCHANGED <<notifying, message, tokens, age>>

EnoughAbove(n) == tokens > n \* mutant
Enough(n) == tokens >= n

\* The mutex of the bucket is released before C waits.
DecToken ==
  /\ \/ Goto("bucket", "finish") /\ Enough(message.size) /\ tokens' = tokens - message.size
     \/ Goto("bucket", "low") /\ ~Enough(message.size) /\ UNCHANGED tokens
  /\ KeepQueues /\ UNCHANGED <<notifying, message, age>>

WaitForTokens ==
  /\ Goto("low", "lowAsleep")
  /\ KeepQueues /\ UNCHANGED <<notifying, message, tokens, age>>

\* The message is sent, or handled.
Finish ==
  /\ pc = "finish"
  /\ Done
  /\ KeepQueues /\ UNCHANGED <<notifying, tokens>>

(***************************************************************************)
(* The timers and time.                                                    *)
(***************************************************************************)
Uncapped(n) == n \* mutant
Capped(n) == IF n > BucketSize THEN BucketSize ELSE n

Replenish ==
  /\ role = "send" /\ WithBucket
  /\ tokens' = Capped(tokens + Refill)
  /\ pc' = IF pc = "lowAsleep" THEN "bucket" ELSE pc
  /\ KeepQueues /\ UNCHANGED <<notifying, message, age>>

Tick ==
  /\ role = "send"
  /\ clock' = (clock + 1) % TicksPerSecond
  /\ age' = [m \in Messages |->
               IF m \in Waiting \cup {message} /\ age[m] < TicksPerSecond THEN age[m] + 1
               ELSE age[m]]
  /\ UNCHANGED <<scheduler, role, queues, keyPointer, notifying, pc, message, tokens, ghosts>>

(***************************************************************************)
(* The specification.                                                      *)
(***************************************************************************)
Init ==
  /\ scheduler \in Schedulers /\ role \in Roles
  /\ fifo = <<>> /\ requests = <<>> /\ rr = [a \in Addresses |-> <<>>]
  /\ keySet = {} /\ keyPointer = Invalid
  /\ notifying = 0
  /\ pc = "size" /\ message = None
  /\ tokens = BucketSize
  /\ age = [m \in Messages |-> 0] /\ clock = 0
  /\ overtaken = [a \in Addresses |-> {}]

TakeOut == GetSize \/ Wait \/ Choose \/ PopFifo \/ PopRequest \/ PopRR
UDPSend == DropOld \/ TestAge \/ DecToken \/ WaitForTokens
C == TakeOut \/ UDPSend \/ Finish

Next ==
  \/ \E m \in Messages : Push(m)
  \/ BadDatagram \/ Notify
  \/ C \/ WakeBySelf
  \/ Replenish \/ Tick

Spec == Init /\ [][Next]_vars

\* C runs when nothing keeps it waiting, a thread that pushed goes on to notify,
\* and the timers go off every 100 ms.
Fairness == WF_vars(C) /\ WF_vars(Notify) /\ WF_vars(Replenish)

LiveSpec == Spec /\ Fairness

(***************************************************************************)
(* Properties.                                                             *)
(***************************************************************************)
Places == {"size", "wait", "asleep", "choose", "popFifo", "popRequest", "popRR", "test",
           "bucket", "low", "lowAsleep", "finish"}

\* The type invariant.  C holds a message from Pop to the end of its handling.
TypeOK ==
  /\ scheduler \in Schedulers /\ role \in Roles
  /\ fifo \in Seq(Messages) /\ requests \in Seq(Messages)
  /\ rr \in [Addresses -> Seq(Messages)]
  /\ keySet \in SUBSET Addresses /\ keyPointer \in Addresses \cup {Invalid}
  /\ notifying \in 0 .. Producers
  /\ pc \in Places
  /\ message \in Messages \cup {None}
  /\ message # None <=> pc \in {"test", "bucket", "low", "lowAsleep", "finish"}
  /\ tokens \in 0 .. BucketSize
  /\ age \in [Messages -> 0 .. TicksPerSecond] /\ clock \in 0 .. (TicksPerSecond - 1)
  /\ overtaken \in [Addresses -> SUBSET Addresses]

\* What Pop found before it locked the queue is still so when it takes the
\* message: no front() of an empty queue, no rrQueue.at() of a missing key, and
\* a keyPointer that was left from the last Pop is a key with messages.
PopFindsMessage ==
  /\ pc = "popFifo" => fifo # <<>>
  /\ pc = "popRequest" => requests # <<>>
  /\ pc = "popRR" => keyPointer # Invalid
  /\ keyPointer # Invalid => keyPointer \in keySet
  /\ \A a \in Addresses : a \in keySet <=> rr[a] # <<>>

\* RR: no address is served twice while another one waits, whatever is pushed
\* between two Pops and whichever keys come and go.
RoundRobin ==
  pc = "popRR" =>
    \A b \in Addresses \ {keyPointer} : rr[b] # <<>> => keyPointer \notin overtaken[b]

\* The queue implements a mailbox; with FIFO and RR, one that keeps the order of
\* the messages to an address.
Ordered == scheduler \in {"FIFO", "RR"}

Precedes(x, m, q) == \E j \in DOMAIN q : q[j] = m /\ \E i \in 1 .. (j - 1) : q[i] = x

Ahead(m) ==
  {x \in Messages : /\ Ordered /\ x.address = m.address
                    /\ Precedes(x, m, fifo) \/ Precedes(x, m, rr[m.address])}

Box == INSTANCE Mailbox WITH
         waiting <- Waiting, ahead <- [m \in Messages |-> Ahead(m)],
         current <- message, ordered <- Ordered

ImplementsMailbox == Box!Spec

\* With FIFO and RR no message is left behind, although notifications are lost,
\* C may wait for the bucket and a NULL from Pop sends it back to GetSize: as long
\* as some thread sends again whenever C sleeps, and the bucket may hold what is
\* sent.
AllFit == WithBucket => \A m \in Messages : m.size <= BucketSize

MessagesGetOut ==
  Ordered /\ AllFit /\ []<>(pc # "asleep") =>
    \A m \in Messages : m \in Waiting ~> m \notin Waiting
=============================================================================
