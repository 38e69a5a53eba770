------------------------ MODULE TransportRefinement ------------------------
(***************************************************************************)
(* Transport implements Mailbox, whatever the scheduler: what waits is     *)
(* what the queues hold, each message in one place of one of them, and     *)
(* with FIFO and RR what is ahead of a message is what is before it in its *)
(* queue and goes to the same address.                                     *)
(***************************************************************************)
EXTENDS TransportProofs

Single(q) == \A i, j \in DOMAIN q : q[i] = q[j] => i = j

\* No message is in two places, and RR keeps it with its address.
Apart ==
  /\ Single(fifo) /\ Single(requests) /\ \A a \in Addresses : Single(rr[a])
  /\ ToSet(fifo) \cap ToSet(requests) = {}
  /\ \A a \in Addresses : \A m \in ToSet(rr[a]) : m.address = a
  /\ scheduler = "RR" => fifo = <<>>
  /\ scheduler # "CDF" => requests = <<>>
  /\ scheduler # "RR" => \A a \in Addresses : rr[a] = <<>>
  /\ message \notin Waiting

RInv == IInv /\ Apart

(***************************************************************************)
(* Queues that grow and shrink.                                            *)
(***************************************************************************)
LEMMA PutBetween ==
  ASSUME NEW p \in Seq(Messages), NEW r \in Seq(Messages), NEW m \in Messages
  PROVE  /\ ToSet(p \o <<m>> \o r) = ToSet(p \o r) \cup {m}
         /\ m \notin ToSet(p \o r) /\ Single(p \o r) => Single(p \o <<m>> \o r)
<1> DEFINE q == p \o r
           s == p \o <<m>> \o r
           k == Len(p)
<1>1. /\ q \in Seq(Messages) /\ s \in Seq(Messages)
      /\ k \in Nat /\ Len(r) \in Nat
      /\ DOMAIN q = 1 .. (k + Len(r)) /\ DOMAIN s = 1 .. (k + 1 + Len(r))
  OBVIOUS
<1>2. /\ \A i \in DOMAIN s : s[i] = IF i <= k THEN q[i] ELSE IF i = k + 1 THEN m ELSE q[i - 1]
      /\ \A i \in DOMAIN s : (i <= k => i \in DOMAIN q) /\ (i > k + 1 => i - 1 \in DOMAIN q)
  OBVIOUS
<1>3. \A i \in DOMAIN q :
        /\ i <= k => i \in DOMAIN s /\ s[i] = q[i]
        /\ i > k => i + 1 \in DOMAIN s /\ s[i + 1] = q[i]
  BY <1>1, <1>2
<1>4. k + 1 \in DOMAIN s /\ s[k + 1] = m
  BY <1>1, <1>2
<1> HIDE DEF q, s, k
<1>5. ToSet(s) = ToSet(q) \cup {m}
  <2>1. ASSUME NEW i \in DOMAIN s PROVE s[i] \in ToSet(q) \cup {m}
    BY <1>1, <1>2 DEF ToSet
  <2>2. ASSUME NEW i \in DOMAIN q PROVE q[i] \in ToSet(s)
    BY <1>1, <1>3 DEF ToSet
  <2>3. QED
    BY <1>4, <2>1, <2>2 DEF ToSet
<1>6. ASSUME m \notin ToSet(q), Single(q) PROVE Single(s)
  <2>1. \A i \in DOMAIN q : q[i] # m
    BY <1>6 DEF ToSet
  <2>2. ASSUME NEW i \in DOMAIN s, NEW j \in DOMAIN s, s[i] = s[j], i < j PROVE FALSE
    <3>1. CASE i <= k /\ j <= k
      BY <1>1, <1>2, <1>6, <2>2, <3>1 DEF Single
    <3>2. CASE i <= k /\ j > k + 1
      <4>1. i \in DOMAIN q /\ j - 1 \in DOMAIN q /\ q[i] = q[j - 1]
        BY <1>1, <1>2, <2>2, <3>2
      <4>2. i = j - 1
        BY <1>6, <4>1 DEF Single
      <4>3. QED
        BY <1>1, <3>2, <4>2
    <3>3. CASE i = k + 1 \/ j = k + 1
      BY <1>1, <1>2, <2>1, <2>2, <3>3
    <3>4. CASE i > k + 1 /\ j > k + 1
      <4>1. i - 1 \in DOMAIN q /\ j - 1 \in DOMAIN q /\ q[i - 1] = q[j - 1]
        BY <1>1, <1>2, <2>2, <3>4
      <4>2. i - 1 = j - 1
        BY <1>6, <4>1 DEF Single
      <4>3. QED
        BY <1>1, <2>2, <4>2
    <3>5. QED
      BY <1>1, <2>2, <3>1, <3>2, <3>3, <3>4
  <2>3. QED
    BY <1>1, <2>2 DEF Single
<1>7. QED
  BY <1>5, <1>6 DEF q, s

LEMMA PutAtEnd ==
  ASSUME NEW q \in Seq(Messages), NEW m \in Messages, m \notin ToSet(q), Single(q)
  PROVE  /\ ToSet(Append(q, m)) = ToSet(q) \cup {m}
         /\ Single(Append(q, m))
         /\ \A x, y : Precedes(x, y, Append(q, m)) <=>
                        Precedes(x, y, q) \/ (y = m /\ x \in ToSet(q))
<1> DEFINE s == Append(q, m)
           n == Len(q)
<1>1. /\ n \in Nat /\ DOMAIN q = 1 .. n /\ DOMAIN s = 1 .. (n + 1)
      /\ s[n + 1] = m /\ \A i \in 1 .. n : s[i] = q[i]
  OBVIOUS
<1>2. \A i \in 1 .. n : q[i] # m
  BY <1>1 DEF ToSet
<1> HIDE DEF s, n
<1>3. ToSet(s) = ToSet(q) \cup {m} /\ Single(s)
  BY <1>1, <1>2 DEF ToSet, Single
<1>4. ASSUME NEW x, NEW y, Precedes(x, y, q) \/ (y = m /\ x \in ToSet(q))
      PROVE  Precedes(x, y, s)
  BY <1>1, <1>4 DEF Precedes, ToSet
<1>5. ASSUME NEW x, NEW y, Precedes(x, y, s)
      PROVE  Precedes(x, y, q) \/ (y = m /\ x \in ToSet(q))
  <2>1. PICK j \in DOMAIN s : s[j] = y /\ \E i \in 1 .. (j - 1) : s[i] = x
    BY <1>5 DEF Precedes
  <2>2. CASE j \in 1 .. n
    BY <1>1, <2>1, <2>2 DEF Precedes
  <2>3. CASE j = n + 1
    BY <1>1, <2>1, <2>3 DEF ToSet
  <2>4. QED
    BY <1>1, <2>2, <2>3
<1>6. QED
  BY <1>3, <1>4, <1>5 DEF s

LEMMA TakeHead ==
  ASSUME NEW q \in Seq(Messages), q # <<>>, Single(q)
  PROVE  /\ Head(q) \in ToSet(q) /\ Head(q) \in Messages
         /\ ToSet(Tail(q)) = ToSet(q) \ {Head(q)}
         /\ Single(Tail(q))
         /\ \A x : ~Precedes(x, Head(q), q)
         /\ \A x, y : Precedes(x, y, Tail(q)) <=> Precedes(x, y, q) /\ x # Head(q)
<1> DEFINE t == Tail(q)
           h == Head(q)
           n == Len(q)
<1>1. /\ n \in Nat \ {0} /\ DOMAIN q = 1 .. n /\ DOMAIN t = 1 .. (n - 1)
      /\ h = q[1] /\ h \in Messages /\ \A i \in 1 .. (n - 1) : t[i] = q[i + 1]
  OBVIOUS
<1> HIDE DEF t, h, n
<1>2. \A i \in 1 .. n : q[i] = h <=> i = 1
  BY <1>1 DEF Single
<1>3. \A i \in 1 .. n : i # 1 => i - 1 \in DOMAIN t /\ t[i - 1] = q[i]
  BY <1>1
<1>4. h \in ToSet(q) /\ Single(t)
  <2>1. h \in ToSet(q)
    BY <1>1 DEF ToSet
  <2>2. \A i, j \in 1 .. n : q[i] = q[j] => i = j
    BY <1>1 DEF Single
  <2>3. \A i \in DOMAIN t : t[i] = q[i + 1] /\ i + 1 \in 1 .. n /\ i \in Int
    BY <1>1
  <2>4. \A i, j \in DOMAIN t : t[i] = t[j] => i = j
    BY <2>2, <2>3
  <2>5. QED
    BY <2>1, <2>4 DEF Single
<1>5. ToSet(t) = ToSet(q) \ {h}
  <2>1. ASSUME NEW i \in DOMAIN t PROVE t[i] \in ToSet(q) \ {h}
    BY <1>1, <1>2 DEF ToSet
  <2>2. ASSUME NEW i \in 1 .. n, q[i] # h PROVE q[i] \in ToSet(t)
    BY <1>2, <1>3, <2>2 DEF ToSet
  <2>3. QED
    BY <1>1, <2>1, <2>2 DEF ToSet
<1>6. ASSUME NEW x, Precedes(x, h, q) PROVE FALSE
  BY <1>1, <1>2, <1>6 DEF Precedes
<1>7. ASSUME NEW x, NEW y, Precedes(x, y, t) PROVE Precedes(x, y, q) /\ x # h
  <2>1. PICK j \in DOMAIN t : t[j] = y /\ \E i \in 1 .. (j - 1) : t[i] = x
    BY <1>7 DEF Precedes
  <2>2. PICK i \in 1 .. (j - 1) : t[i] = x
    BY <2>1
  <2>3. j + 1 \in DOMAIN q /\ i + 1 \in 1 .. (j + 1 - 1) /\ q[j + 1] = y /\ q[i + 1] = x
    BY <1>1, <2>1, <2>2
  <2>4. i + 1 \in 1 .. n /\ i + 1 # 1
    BY <1>1, <2>1, <2>2, <2>3
  <2>5. QED
    BY <1>2, <2>3, <2>4 DEF Precedes
<1>8. ASSUME NEW x, NEW y, Precedes(x, y, q), x # h PROVE Precedes(x, y, t)
  <2>1. PICK j \in DOMAIN q : q[j] = y /\ \E i \in 1 .. (j - 1) : q[i] = x
    BY <1>8 DEF Precedes
  <2>2. PICK i \in 1 .. (j - 1) : q[i] = x
    BY <2>1
  <2>3. i \in 1 .. n /\ i # 1 /\ j \in 1 .. n /\ j # 1
    BY <1>1, <1>8, <2>1, <2>2
  <2>4. j - 1 \in DOMAIN t /\ i - 1 \in 1 .. (j - 1 - 1) /\ t[j - 1] = y /\ t[i - 1] = x
    BY <1>1, <2>1, <2>2, <2>3
  <2>5. QED
    BY <2>4 DEF Precedes
<1>9. QED
  BY <1>1, <1>4, <1>5, <1>6, <1>7, <1>8 DEF h, t

(***************************************************************************)
(* Handing over.                                                           *)
(***************************************************************************)
LEMMA QueueTypes ==
  ASSUME IInv
  PROVE  /\ fifo \in Seq(Messages) /\ requests \in Seq(Messages)
         /\ \A a \in Addresses : rr[a] \in Seq(Messages)
         /\ ToSet(fifo) \subseteq Messages /\ ToSet(requests) \subseteq Messages
         /\ \A a \in Addresses : ToSet(rr[a]) \subseteq Messages
         /\ ToSet(<<>>) = {}
BY DEF IInv, TypeOK, ToSet

LEMMA NothingPrecedes == \A x, y : ~Precedes(x, y, <<>>)
BY DEF Precedes

\* What a Push does to the mailbox.
Grows(m) ==
  /\ Apart'
  /\ Waiting' = Waiting \cup {m}
  /\ \A y \in Messages :
       Ahead(y)' = IF y = m THEN {x \in Waiting : Ordered /\ x.address = m.address} ELSE Ahead(y)

LEMMA GrowsUnordered ==
  ASSUME RInv, NEW m \in Messages, m \notin Waiting \cup {message},
         scheduler \in {"Random", "CDF"}, UNCHANGED <<scheduler, message, rr>>,
         \/ /\ requests' = requests /\ ToSet(fifo') = ToSet(fifo) \cup {m} /\ Single(fifo')
         \/ /\ scheduler = "CDF" /\ fifo' = fifo
            /\ ToSet(requests') = ToSet(requests) \cup {m} /\ Single(requests')
  PROVE  Grows(m)
<1>1. ~Ordered /\ ~Ordered'
  BY DEF Ordered
<1>2. Waiting' = Waiting \cup {m} /\ m \notin ToSet(fifo) /\ m \notin ToSet(requests)
  BY DEF Waiting, InRR
<1>3. Apart'
  BY <1>2 DEF Apart, RInv
<1>4. QED
  BY <1>1, <1>2, <1>3 DEF Grows, Ahead

LEMMA GrowsFifo ==
  ASSUME RInv, NEW m \in Messages, m \notin Waiting \cup {message}, scheduler = "FIFO",
         fifo' = Append(fifo, m), UNCHANGED <<scheduler, message, rr, requests>>
  PROVE  Grows(m)
<1>1. fifo \in Seq(Messages) /\ ToSet(fifo) \subseteq Messages /\ m \notin ToSet(fifo)
      /\ Single(fifo)
  BY QueueTypes DEF RInv, Apart, Waiting
<1>2. /\ ToSet(fifo') = ToSet(fifo) \cup {m} /\ Single(fifo')
      /\ \A x, y : Precedes(x, y, fifo') <=> Precedes(x, y, fifo) \/ (y = m /\ x \in ToSet(fifo))
  BY <1>1, PutAtEnd
<1>3. requests = <<>> /\ \A a \in Addresses : rr[a] = <<>>
  BY DEF RInv, Apart
<1>4. Waiting = ToSet(fifo) /\ Waiting' = Waiting \cup {m}
  BY <1>2, <1>3, QueueTypes DEF Waiting, InRR, RInv
<1>5. Apart'
  BY <1>2, <1>3, <1>4, QueueTypes DEF Apart, RInv
<1>6. ASSUME NEW x, NEW y, Precedes(x, y, fifo) PROVE y \in ToSet(fifo)
  BY <1>6 DEF Precedes, ToSet
<1>7. ASSUME NEW y \in Messages
      PROVE  Ahead(y)' = IF y = m THEN {x \in Waiting : Ordered /\ x.address = m.address} ELSE Ahead(y)
  <2>1. y.address \in Addresses /\ rr[y.address] = <<>> /\ rr'[y.address] = <<>> /\ Ordered /\ Ordered'
    BY <1>3, AddressOf DEF Ordered
  <2>2. Ahead(y)' = {x \in Messages : x.address = y.address /\ Precedes(x, y, fifo')}
    BY <2>1, NothingPrecedes DEF Ahead
  <2>3. Ahead(y) = {x \in Messages : x.address = y.address /\ Precedes(x, y, fifo)}
    BY <2>1, NothingPrecedes DEF Ahead
  <2>4. QED
    BY <1>1, <1>2, <1>4, <1>6, <2>1, <2>2, <2>3
<1>8. QED
  BY <1>4, <1>5, <1>7 DEF Grows

LEMMA GrowsRR ==
  ASSUME RInv, NEW m \in Messages, m \notin Waiting \cup {message}, scheduler = "RR",
         rr' = [rr EXCEPT ![m.address] = Append(@, m)],
         UNCHANGED <<scheduler, message, fifo, requests>>
  PROVE  Grows(m)
<1> DEFINE a == m.address
<1>1. /\ a \in Addresses /\ rr[a] \in Seq(Messages) /\ Single(rr[a])
      /\ rr \in [Addresses -> Seq(Messages)]
      /\ \A b \in Addresses : ToSet(rr[b]) \subseteq Messages /\ m \notin ToSet(rr[b])
      /\ \A b \in Addresses : \A x \in ToSet(rr[b]) : x.address = b
  BY AddressOf, QueueTypes DEF RInv, Apart, Waiting, InRR, IInv, TypeOK
<1> HIDE DEF a
<1>2. rr'[a] = Append(rr[a], m) /\ \A b \in Addresses : b # a => rr'[b] = rr[b]
  BY <1>1 DEF a
<1>3. /\ ToSet(rr'[a]) = ToSet(rr[a]) \cup {m} /\ Single(rr'[a])
      /\ \A x, y : Precedes(x, y, rr'[a]) <=> Precedes(x, y, rr[a]) \/ (y = m /\ x \in ToSet(rr[a]))
  BY <1>1, <1>2, PutAtEnd
<1>4. fifo = <<>> /\ requests = <<>> /\ ToSet(<<>>) = {}
  BY QueueTypes DEF RInv, Apart
<1>5. Waiting = InRR /\ Waiting' = InRR'
  BY <1>4 DEF Waiting
<1>6. InRR' = InRR \cup {m}
  BY <1>1, <1>2, <1>3 DEF InRR
<1>7. Apart'
  <2>1. \A b \in Addresses : Single(rr'[b]) /\ \A x \in ToSet(rr'[b]) : x.address = b
    BY <1>1, <1>2, <1>3 DEF RInv, Apart, a
  <2>2. QED
    BY <1>4, <1>5, <1>6, <2>1 DEF Apart, RInv
<1>8. ASSUME NEW x, NEW b \in Addresses, NEW y, Precedes(x, y, rr[b]) PROVE y \in ToSet(rr[b])
  BY <1>8 DEF Precedes, ToSet
<1>9. ASSUME NEW y \in Messages
      PROVE  Ahead(y)' = IF y = m THEN {x \in Waiting : Ordered /\ x.address = m.address} ELSE Ahead(y)
  <2>1. y.address \in Addresses /\ Ordered /\ Ordered'
    BY AddressOf DEF Ordered
  <2>2. Ahead(y)' = {x \in Messages : x.address = y.address /\ Precedes(x, y, rr'[y.address])}
    BY <1>4, <2>1, NothingPrecedes DEF Ahead
  <2>3. Ahead(y) = {x \in Messages : x.address = y.address /\ Precedes(x, y, rr[y.address])}
    BY <1>4, <2>1, NothingPrecedes DEF Ahead
  <2>4. CASE y = m
    <3>1. \A x : ~Precedes(x, m, rr[a])
      BY <1>1, <1>8
    <3>2. Ahead(y)' = {x \in ToSet(rr[a]) : x.address = a}
      BY <1>1, <1>3, <2>2, <2>4, <3>1 DEF a
    <3>3. {x \in ToSet(rr[a]) : x.address = a} = {x \in InRR : x.address = a}
      BY <1>1 DEF InRR
    <3>4. QED
      BY <1>5, <2>1, <2>4, <3>2, <3>3 DEF a
  <2>5. CASE y # m
    BY <1>1, <1>2, <1>3, <2>1, <2>2, <2>3, <2>5
  <2>6. QED
    BY <2>4, <2>5
<1>10. QED
  BY <1>5, <1>6, <1>7, <1>9 DEF Grows

LEMMA PushGrows ==
  ASSUME RInv, NEW m \in Messages, Push(m)
  PROVE  Grows(m)
<1>1. m \notin Waiting \cup {message} /\ Insert(m) /\ UNCHANGED <<scheduler, message>>
  BY DEF Push
<1>2. /\ fifo \in Seq(Messages) /\ requests \in Seq(Messages)
      /\ m \notin ToSet(fifo) /\ m \notin ToSet(requests) /\ Single(fifo) /\ Single(requests)
  BY <1>1, QueueTypes DEF RInv, Apart, Waiting
<1>3. CASE scheduler = "FIFO"
  BY <1>1, <1>3, GrowsFifo DEF Insert, PushAtEnd
<1>4. CASE scheduler = "CDF" /\ m.opcode # "request"
  <2>1. fifo' = Append(fifo, m) /\ UNCHANGED <<requests, rr>>
    BY <1>1, <1>4 DEF Insert, PushAtEnd
  <2>2. ToSet(fifo') = ToSet(fifo) \cup {m} /\ Single(fifo')
    BY <1>2, <2>1, PutAtEnd
  <2>3. QED
    BY <1>1, <1>4, <2>1, <2>2, GrowsUnordered
<1>5. CASE scheduler = "Random"
  <2>1. fifo' = <<m>> \o fifo /\ UNCHANGED <<requests, rr>>
    BY <1>1, <1>5 DEF Insert
  <2>2. fifo' = <<>> \o <<m>> \o fifo /\ fifo = <<>> \o fifo /\ <<>> \in Seq(Messages)
    BY <1>2, <2>1
  <2>3. /\ ToSet(<<>> \o <<m>> \o fifo) = ToSet(<<>> \o fifo) \cup {m}
        /\ m \notin ToSet(<<>> \o fifo) /\ Single(<<>> \o fifo) => Single(<<>> \o <<m>> \o fifo)
    BY <1>2, <2>2, PutBetween
  <2>4. ToSet(fifo') = ToSet(fifo) \cup {m} /\ Single(fifo')
    BY <1>2, <2>2, <2>3, Zenon
  <2>5. QED
    BY <1>1, <1>5, <2>1, <2>4, GrowsUnordered
<1>6. CASE scheduler = "CDF" /\ m.opcode = "request"
  <2>1. UNCHANGED <<fifo, rr>> /\ \E i \in 1 .. (Len(requests) + 1) : requests' = InsertAt(requests, i, m)
    BY <1>1, <1>6 DEF Insert
  <2>2. PICK i \in 1 .. (Len(requests) + 1) : requests' = InsertAt(requests, i, m)
    BY <2>1
  <2> DEFINE p == SubSeq(requests, 1, i - 1)
             r == SubSeq(requests, i, Len(requests))
  <2>3. p \in Seq(Messages) /\ r \in Seq(Messages) /\ requests = p \o r
    <3>1. /\ p \in Seq(Messages) /\ Len(p) = i - 1 /\ \A j \in 1 .. (i - 1) : p[j] = requests[j]
      BY <1>2
    <3>2. /\ r \in Seq(Messages) /\ Len(r) = Len(requests) - i + 1
          /\ \A j \in 1 .. (Len(requests) - i + 1) : r[j] = requests[i + j - 1]
      BY <1>2
    <3> HIDE DEF p, r
    <3>3. p \o r \in Seq(Messages) /\ Len(p \o r) = Len(requests)
          /\ \A j \in 1 .. Len(requests) : (p \o r)[j] = requests[j]
      <4>1. Len(requests) \in Nat /\ i - 1 \in 0 .. Len(requests)
        BY <1>2
      <4>2. /\ p \o r \in Seq(Messages) /\ Len(p \o r) = Len(p) + Len(r)
            /\ \A j \in 1 .. (Len(p) + Len(r)) :
                 (p \o r)[j] = IF j <= Len(p) THEN p[j] ELSE r[j - Len(p)]
        BY <3>1, <3>2, ConcatProperties
      <4>3. ASSUME NEW j \in 1 .. Len(requests) PROVE (p \o r)[j] = requests[j]
        <5>1. j \in 1 .. (Len(p) + Len(r)) /\ Len(p) = i - 1
          BY <3>1, <3>2, <4>1
        <5>2. (p \o r)[j] = IF j <= i - 1 THEN p[j] ELSE r[j - (i - 1)]
          BY <4>2, <5>1
        <5>3. CASE j <= i - 1
          <6>1. j \in 1 .. (i - 1)
            BY <4>1, <5>3
          <6>2. QED
            BY <3>1, <5>3, <5>2, <6>1
        <5>4. CASE j > i - 1
          <6>1. j - (i - 1) \in 1 .. (Len(requests) - i + 1) /\ i + (j - (i - 1)) - 1 = j
            BY <4>1, <5>4
          <6>2. (p \o r)[j] = r[j - (i - 1)]
            BY <4>1, <5>4, <5>2
          <6>3. QED
            BY <3>2, <6>1, <6>2
        <5>5. j <= i - 1 \/ j > i - 1
          BY <4>1
        <5>6. QED
          BY <5>3, <5>4, <5>5, Zenon
      <4>4. QED
        BY <3>1, <3>2, <4>1, <4>2, <4>3
    <3>4. QED
      BY <1>2, <3>1, <3>2, <3>3, SeqEqual
  <2>4. requests' = p \o <<m>> \o r
    BY <2>2 DEF InsertAt
  <2> HIDE DEF p, r
  <2>5. /\ ToSet(p \o <<m>> \o r) = ToSet(p \o r) \cup {m}
        /\ m \notin ToSet(p \o r) /\ Single(p \o r) => Single(p \o <<m>> \o r)
    BY <2>3, PutBetween
  <2>6. ToSet(requests') = ToSet(requests) \cup {m} /\ Single(requests')
    BY <1>2, <2>3, <2>4, <2>5, Zenon
  <2>7. QED
    BY <1>1, <1>6, <2>1, <2>6, GrowsUnordered
<1>7. scheduler \in {"FIFO", "Random"} \/ (scheduler = "CDF" /\ m.opcode # "request")
      \/ (scheduler = "CDF" /\ m.opcode = "request") \/ scheduler = "RR"
  BY <1>1, Zenon DEF Insert
<1>8. CASE scheduler = "RR"
  BY <1>1, <1>8, GrowsRR DEF Insert, PushAtEnd
<1>9. QED
  BY <1>3, <1>4, <1>5, <1>6, <1>7, <1>8

(***************************************************************************)
(* Taking out.                                                             *)
(***************************************************************************)
\* What a Pop does to the mailbox.
Shrinks(m) ==
  /\ Apart'
  /\ m \in Messages /\ m \in Waiting /\ Ahead(m) = {}
  /\ Waiting' = Waiting \ {m}
  /\ \A y \in Messages : Ahead(y)' = Ahead(y) \ {m}

LEMMA PopFifoShrinks ==
  ASSUME RInv, PopFifo
  PROVE  Shrinks(message')
<1> DEFINE h == Head(fifo)
<1>1. /\ fifo \in Seq(Messages) /\ fifo # <<>> /\ Single(fifo)
      /\ message' = h /\ fifo' = Tail(fifo) /\ UNCHANGED <<scheduler, requests, rr>>
  BY QueueTypes DEF PopFifo, Taken, RInv, IInv, PopFindsMessage, Apart
<1>2. /\ h \in ToSet(fifo) /\ h \in Messages
      /\ ToSet(fifo') = ToSet(fifo) \ {h} /\ Single(fifo')
      /\ \A x : ~Precedes(x, h, fifo)
      /\ \A x, y : Precedes(x, y, fifo') <=> Precedes(x, y, fifo) /\ x # h
  BY <1>1, TakeHead
<1> HIDE DEF h
<1>3. scheduler # "RR" /\ (\A a \in Addresses : rr[a] = <<>>) /\ h \notin ToSet(requests)
  BY <1>1, <1>2 DEF RInv, Apart
<1>4. InRR = {} /\ InRR' = {}
  BY <1>1, <1>3, QueueTypes DEF InRR, RInv
<1>5. h \in Waiting /\ Waiting' = Waiting \ {h}
  BY <1>1, <1>2, <1>3, <1>4 DEF Waiting
<1>6. Apart'
  BY <1>1, <1>2, <1>3, <1>5 DEF RInv, Apart
<1>7. ASSUME NEW y \in Messages
      PROVE  /\ Ahead(y) = {x \in Messages : Ordered /\ x.address = y.address /\ Precedes(x, y, fifo)}
             /\ Ahead(y)' = {x \in Messages : Ordered /\ x.address = y.address /\ Precedes(x, y, fifo')}
  <2>1. rr[y.address] = <<>> /\ rr'[y.address] = <<>> /\ (Ordered <=> Ordered')
    BY <1>1, <1>3, AddressOf DEF Ordered
  <2>2. QED
    BY <2>1, NothingPrecedes DEF Ahead
<1>8. QED
  BY <1>1, <1>2, <1>5, <1>6, <1>7 DEF Shrinks

LEMMA PopRequestShrinks ==
  ASSUME RInv, PopRequest
  PROVE  Shrinks(message')
<1> DEFINE h == Head(requests)
<1>1. /\ requests \in Seq(Messages) /\ requests # <<>> /\ Single(requests)
      /\ message' = h /\ requests' = Tail(requests) /\ UNCHANGED <<scheduler, fifo, rr>>
  BY QueueTypes DEF PopRequest, Taken, RInv, IInv, PopFindsMessage, Apart
<1>2. /\ h \in ToSet(requests) /\ h \in Messages
      /\ ToSet(requests') = ToSet(requests) \ {h} /\ Single(requests')
  BY <1>1, TakeHead
<1> HIDE DEF h
<1>3. scheduler = "CDF" /\ (\A a \in Addresses : rr[a] = <<>>) /\ h \notin ToSet(fifo)
  BY <1>1, <1>2 DEF RInv, Apart
<1>4. InRR = {} /\ InRR' = {}
  BY <1>1, <1>3, QueueTypes DEF InRR, RInv
<1>5. h \in Waiting /\ Waiting' = Waiting \ {h}
  BY <1>1, <1>2, <1>3, <1>4 DEF Waiting
<1>6. Apart'
  BY <1>1, <1>2, <1>3, <1>5 DEF RInv, Apart
<1>7. ~Ordered /\ ~Ordered'
  BY <1>1, <1>3 DEF Ordered
<1>8. QED
  BY <1>1, <1>2, <1>5, <1>6, <1>7 DEF Shrinks, Ahead

LEMMA PopRRShrinks ==
  ASSUME RInv, PopRR
  PROVE  Shrinks(message')
<1> DEFINE a == keyPointer
           h == Head(rr[a])
<1>1. /\ a \in Addresses /\ rr[a] \in Seq(Messages) /\ rr[a] # <<>> /\ Single(rr[a])
      /\ rr \in [Addresses -> Seq(Messages)]
      /\ message' = h /\ rr' = [rr EXCEPT ![a] = Tail(rr[a])]
      /\ UNCHANGED <<scheduler, fifo, requests>>
      /\ \A b \in Addresses : \A x \in ToSet(rr[b]) : x.address = b
  BY DEF PopRR, Taken, RInv, IInv, TypeOK, PopFindsMessage, Apart
<1> HIDE DEF a
<1>2. rr'[a] = Tail(rr[a]) /\ \A b \in Addresses : b # a => rr'[b] = rr[b]
  BY <1>1
<1>3. /\ h \in ToSet(rr[a]) /\ h \in Messages
      /\ ToSet(rr'[a]) = ToSet(rr[a]) \ {h} /\ Single(rr'[a])
      /\ \A x : ~Precedes(x, h, rr[a])
      /\ \A x, y : Precedes(x, y, rr'[a]) <=> Precedes(x, y, rr[a]) /\ x # h
  <2> DEFINE q == rr[a]
  <2>1. q \in Seq(Messages) /\ q # <<>> /\ Single(q) /\ rr'[a] = Tail(q)
    BY <1>1, <1>2
  <2> HIDE DEF q
  <2>2. /\ Head(q) \in ToSet(q) /\ Head(q) \in Messages
        /\ ToSet(Tail(q)) = ToSet(q) \ {Head(q)} /\ Single(Tail(q))
        /\ \A x : ~Precedes(x, Head(q), q)
        /\ \A x, y : Precedes(x, y, Tail(q)) <=> Precedes(x, y, q) /\ x # Head(q)
    BY <2>1, TakeHead
  <2>3. QED
    BY <2>1, <2>2, Zenon DEF q
<1> HIDE DEF h
<1>4. scheduler = "RR" /\ fifo = <<>> /\ requests = <<>> /\ h.address = a
      /\ \A b \in Addresses : b # a => h \notin ToSet(rr[b])
  BY <1>1, <1>3 DEF RInv, Apart
<1>5. Waiting = InRR /\ Waiting' = InRR'
  BY <1>1, <1>4, QueueTypes DEF Waiting, RInv
<1>6. h \in InRR /\ InRR' = InRR \ {h}
  BY <1>1, <1>2, <1>3, <1>4 DEF InRR
<1>7. Apart'
  <2>1. \A b \in Addresses : Single(rr'[b]) /\ \A x \in ToSet(rr'[b]) : x.address = b
    BY <1>1, <1>2, <1>3 DEF RInv, Apart
  <2>2. QED
    BY <1>1, <1>4, <1>5, <1>6, <2>1 DEF RInv, Apart
<1>8. ASSUME NEW y \in Messages
      PROVE  /\ Ahead(y) = {x \in Messages : x.address = y.address /\ Precedes(x, y, rr[y.address])}
             /\ Ahead(y)' = {x \in Messages : x.address = y.address /\ Precedes(x, y, rr'[y.address])}
  BY <1>1, <1>4, NothingPrecedes DEF Ahead, Ordered
<1>9. ASSUME NEW y \in Messages PROVE Ahead(y)' = Ahead(y) \ {h}
  <2>1. y.address \in Addresses
    BY AddressOf
  <2>2. CASE y.address = a
    BY <1>3, <1>8, <2>2
  <2>3. CASE y.address # a
    <3>1. rr'[y.address] = rr[y.address] /\ h \notin Ahead(y)
      BY <1>2, <1>4, <1>8, <2>1, <2>3
    <3>2. QED
      BY <1>8, <3>1
  <2>4. QED
    BY <2>2, <2>3
<1>10. Ahead(h) = {}
  BY <1>3, <1>4, <1>8
<1>11. QED
  BY <1>1, <1>3, <1>5, <1>6, <1>7, <1>9, <1>10 DEF Shrinks

(***************************************************************************)
(* Every step is a step of the mailbox, or none.                           *)
(***************************************************************************)
LEMMA OtherStepsLeaveQueues ==
  ASSUME RInv,
         \/ BadDatagram \/ Notify \/ GetSize \/ Wait \/ WakeBySelf \/ Choose \/ UDPSend \/ Finish
         \/ Replenish \/ Tick
  PROVE  /\ UNCHANGED <<scheduler, fifo, requests, rr>>
         /\ message' = message \/ (message # None /\ message' = None)
<1> USE DEF KeepQueues, queues, ghosts, Goto
<1>1. CASE DropOld \/ Finish
  BY <1>1 DEF DropOld, Finish, Done, RInv, IInv, TypeOK
<1>2. QED
  BY <1>1 DEF BadDatagram, Notify, GetSize, Wait, WakeBySelf, Choose, UDPSend, TestAge, DecToken,
              WaitForTokens, Replenish, Tick

LEMMA SameQueues ==
  ASSUME UNCHANGED <<scheduler, fifo, requests, rr>>
  PROVE  Waiting' = Waiting /\ \A y \in Messages : Ahead(y)' = Ahead(y)
BY DEF Waiting, InRR, Ahead, Ordered

LEMMA InitRefines == Init => RInv /\ Box!Init
<1> SUFFICES ASSUME Init PROVE RInv /\ Box!Init
  OBVIOUS
<1>1. IInv
  BY InitEstablishes
<1>2. fifo = <<>> /\ requests = <<>> /\ message = None /\ \A a \in Addresses : rr[a] = <<>>
  BY DEF Init
<1>3. Waiting = {}
  BY <1>1, <1>2, QueueTypes DEF Waiting, InRR
<1>4. Apart
  BY <1>1, <1>2, <1>3, QueueTypes DEF Apart, Single
<1>5. \A m \in Messages : Ahead(m) = {}
  BY <1>2, NothingPrecedes, AddressOf DEF Ahead
<1>6. QED
  BY <1>1, <1>2, <1>3, <1>4, <1>5 DEF RInv, Box!Init, Ordered

LEMMA NextRefines == RInv /\ [Next]_vars => RInv' /\ [Box!Next]_(Box!vars)
<1> SUFFICES ASSUME RInv, [Next]_vars PROVE RInv' /\ [Box!Next]_(Box!vars)
  OBVIOUS
<1> DEFINE Stays == /\ UNCHANGED <<scheduler, fifo, requests, rr>>
                    /\ message' = message \/ (message # None /\ message' = None)
<1>1. IInv'
  BY NextKeeps DEF RInv
<1>2. CASE Stays
  <2>1. Waiting' = Waiting /\ (\A y \in Messages : Ahead(y)' = Ahead(y)) /\ (Ordered <=> Ordered')
    BY <1>2, SameQueues DEF Ordered
  <2>2. None \notin Waiting
    BY QueueTypes, TransportAssumption DEF RInv, Waiting, InRR
  <2>3. Apart'
    BY <1>2, <2>1, <2>2 DEF RInv, Apart
  <2>4. Box!Finish \/ UNCHANGED Box!vars
    <3>1. [m \in Messages |-> Ahead(m)]' = [m \in Messages |-> Ahead(m)]
      BY <2>1
    <3>2. CASE message' = message
      BY <1>2, <2>1, <3>1, <3>2 DEF Box!vars, Ordered
    <3>3. CASE message # None /\ message' = None
      BY <1>2, <2>1, <3>1, <3>3 DEF Box!Finish, Ordered
    <3>4. QED
      BY <1>2, <3>2, <3>3
  <2>5. QED
    BY <1>1, <2>3, <2>4 DEF RInv, Box!Next
<1>3. CASE \E m \in Messages : Push(m)
  <2>1. PICK m \in Messages : Push(m)
    BY <1>3
  <2>2. Grows(m)
    BY <2>1, PushGrows
  <2>3. m \notin Waiting \cup {message} /\ UNCHANGED <<scheduler, message>>
    BY <2>1 DEF Push
  <2>4. Box!Enqueue(m)
    BY <2>2, <2>3 DEF Grows, Box!Enqueue, Ordered
  <2>5. QED
    BY <1>1, <2>2, <2>4 DEF Grows, RInv, Box!Next
<1>4. CASE PopFifo \/ PopRequest \/ PopRR
  <2>1. Shrinks(message')
    BY <1>4, PopFifoShrinks, PopRequestShrinks, PopRRShrinks
  <2>2. message = None /\ scheduler' = scheduler
    BY <1>4 DEF PopFifo, PopRequest, PopRR, Taken, RInv, IInv, TypeOK
  <2>3. Box!Take(message')
    BY <2>1, <2>2 DEF Shrinks, Box!Take, Ordered
  <2>4. QED
    BY <1>1, <2>1, <2>3 DEF Shrinks, RInv, Box!Next
<1>5. UNCHANGED vars => Stays
  BY DEF vars, queues
<1>6. QED
  BY <1>2, <1>3, <1>4, <1>5, OtherStepsLeaveQueues DEF Next, C, TakeOut

\* Messages are neither lost nor duplicated by the queues, C handles one at a time,
\* and FIFO and RR keep the order of the messages to one address: Transport is a
\* mailbox, for any messages, any number of threads, and all four schedulers.
THEOREM Refinement == Spec => ImplementsMailbox
<1>1. QED
  BY InitRefines, NextRefines, PTL DEF Spec, ImplementsMailbox, Box!Spec
=============================================================================
