------------------------- MODULE EventStreamProofs -------------------------
(* Proofs about EventStream, for any writers, browsers and queue sizes. *)
EXTENDS EventStream, SequenceTheorems, TLAPS

(***************************************************************************)
(* Queues and frames as sequences.                                         *)
(***************************************************************************)
LEMMA Appending ==
  ASSUME NEW s \in Seq(Events), NEW e \in Events
  PROVE  /\ Append(s, e) \in Seq(Events)
         /\ Len(Append(s, e)) = Len(s) + 1
         /\ Range(Append(s, e)) = Range(s) \cup {e}
         /\ IsInjective(s) /\ e \notin Range(s) => IsInjective(Append(s, e))
  <1>1. /\ Append(s, e) \in Seq(Events)
        /\ Len(Append(s, e)) = Len(s) + 1
        /\ Len(s) \in Nat
        /\ DOMAIN s = 1..Len(s) /\ DOMAIN Append(s, e) = 1..(Len(s) + 1)
        /\ \A i \in 1..Len(s) : Append(s, e)[i] = s[i]
        /\ Append(s, e)[Len(s) + 1] = e
    BY LenProperties
  <1> DEFINE t == Append(s, e)
  <1> HIDE DEF t
  <1>2. /\ DOMAIN t = 1..(Len(s) + 1) /\ t[Len(s) + 1] = e
        /\ \A i \in 1..Len(s) : t[i] = s[i]
    BY <1>1 DEF t
  <1>3. \A i \in 1..(Len(s) + 1) : i \in 1..Len(s) \/ i = Len(s) + 1
    BY <1>1
  <1>4. Range(t) = Range(s) \cup {e}
    BY <1>1, <1>2, <1>3 DEF Range
  <1>5. ASSUME IsInjective(s), e \notin Range(s) PROVE IsInjective(t)
    <2>1. \A i \in 1..Len(s) : s[i] # e
      BY <1>1, <1>5 DEF Range
    <2> QED
      BY <1>1, <1>2, <1>3, <1>5, <2>1 DEF IsInjective
  <1> QED
    BY <1>1, <1>4, <1>5 DEF t

LEMMA Taking ==
  ASSUME NEW s \in Seq(Events), s # <<>>
  PROVE  /\ Head(s) \in Events
         /\ Tail(s) \in Seq(Events)
         /\ Len(Tail(s)) = Len(s) - 1
         /\ Range(s) = {Head(s)} \cup Range(Tail(s))
  <1>1. /\ Head(s) \in Events /\ Tail(s) \in Seq(Events) /\ Len(Tail(s)) = Len(s) - 1
        /\ \A i \in 1..Len(Tail(s)) : Tail(s)[i] = s[i + 1]
    BY HeadTailProperties
  <1>2. Len(s) \in Nat \ {0} /\ DOMAIN s = 1..Len(s) /\ DOMAIN Tail(s) = 1..(Len(s) - 1)
    BY <1>1, LenProperties, EmptySeq
  <1>3. Head(s) = s[1]
    BY <1>2
  <1> DEFINE t == Tail(s)
             h == Head(s)
             n == Len(s)
  <1>4. /\ n \in Nat \ {0} /\ DOMAIN s = 1..n /\ DOMAIN t = 1..(n - 1) /\ h = s[1]
        /\ \A i \in 1..(n - 1) : t[i] = s[i + 1]
    BY <1>1, <1>2, <1>3
  <1> HIDE DEF t, h, n
  <1>5. Range(s) = {h} \cup Range(t)
    <2>1. \A i \in 1..n : i = 1 \/ i - 1 \in 1..(n - 1)
      BY <1>4
    <2>2. ASSUME NEW i \in 1..n PROVE s[i] = h \/ s[i] \in Range(t)
      <3>1. CASE i = 1
        BY <1>4, <3>1
      <3>2. CASE i - 1 \in 1..(n - 1)
        <4>1. t[i - 1] = s[(i - 1) + 1]
          BY <1>4, <3>2
        <4>2. (i - 1) + 1 = i
          BY <1>4
        <4> QED
          BY <1>4, <3>2, <4>1, <4>2 DEF Range
      <3> QED
        BY <2>1, <3>1, <3>2
    <2>3. ASSUME NEW i \in 1..(n - 1) PROVE t[i] \in Range(s)
      <3>1. i + 1 \in 1..n
        BY <1>4
      <3> QED
        BY <1>4, <3>1 DEF Range
    <2>4. h \in Range(s)
      BY <1>4 DEF Range
    <2>5. Range(s) \subseteq {h} \cup Range(t)
      BY <1>4, <2>2 DEF Range
    <2>6. Range(t) \subseteq Range(s)
      BY <1>4, <2>3 DEF Range
    <2> QED
      BY <2>4, <2>5, <2>6
  <1> QED
    BY <1>1, <1>5 DEF t, h

LEMMA Nothing == Range(<<>>) = {} /\ IsInjective(<<>>) /\ <<>> \in Seq(Events) /\ Len(<<>>) = 0
  BY EmptySeq DEF Range, IsInjective

LEMMA InitInv == Init => StreamInv
  <1> SUFFICES ASSUME Init PROVE StreamInv
    OBVIOUS
  <1> USE DEF Init
  <1>1. TypeOK
    <2>1. (CHOOSE c \in Clients : TRUE) \in Clients
      BY EventAssumption
    <2> QED
      BY <2>1, Nothing, EventAssumption DEF TypeOK
  <1>2. Born /\ WritersFit
    BY DEF Born, WritersFit
  <1>3. SeenFits
    BY DEF SeenFits
  <1>4. Promised
    BY DEF Promised
  <1>5. OncePerConnection
    BY Nothing DEF OncePerConnection
  <1> QED
    BY <1>1, <1>2, <1>3, <1>4, <1>5 DEF StreamInv

(***************************************************************************)
(* Types.                                                                  *)
(***************************************************************************)
LEMMA HistoryStored == \A last : History(last) \subseteq committed
  BY DEF History

LEMMA SendsTypes ==
  ASSUME TypeOK, NEW c \in Clients, NEW e \in Events, Sends(c, e)
  PROVE  frames' \in [Clients -> Seq(Events)] /\ cursor' \in [Clients -> {0} \cup Events]
  <1> DEFINE f == Append(frames[c], e)
  <1>1. f \in Seq(Events)
    BY Appending DEF TypeOK
  <1>2. frames' = [frames EXCEPT ![c] = f]
    BY DEF Sends
  <1> HIDE DEF f
  <1>3. frames' \in [Clients -> Seq(Events)]
    BY <1>1, <1>2 DEF TypeOK
  <1>4. cursor' \in [Clients -> {0} \cup Events]
    BY DEF Sends, TypeOK
  <1> QED
    BY <1>3, <1>4

LEMMA DeliverTypes ==
  ASSUME TypeOK, NEW c \in Clients, NEW e \in Events, Deliver(c, e)
  PROVE  /\ seen' \in [Clients -> SUBSET Events]
         /\ frames' \in [Clients -> Seq(Events)]
         /\ cursor' \in [Clients -> {0} \cup Events]
  <1>1. seen' \in [Clients -> SUBSET Events]
    BY DEF Deliver, TypeOK
  <1>2. CASE e \in seen[c]
    BY <1>1, <1>2 DEF Deliver, TypeOK
  <1>3. CASE e \notin seen[c]
    BY <1>1, <1>3, SendsTypes DEF Deliver
  <1> QED
    BY <1>2, <1>3

LEMMA ServedTypes ==
  ASSUME TypeOK, NEW w \in Writers, NEW c, Served(w, c)
  PROVE  /\ wpc' \in [Writers -> {"idle", "flushed", "put", "evict", "again", "commit"}]
         /\ todo' \in [Writers -> SUBSET Clients]
  BY DEF Served, TypeOK

LEMMA EndsTypes ==
  ASSUME TypeOK, NEW w \in Writers, Ends(w)
  PROVE  /\ wpc' \in [Writers -> {"idle", "flushed", "put", "evict", "again", "commit"}]
         /\ mine' \in [Writers -> SUBSET Events]
         /\ event' \in [Writers -> {0} \cup Events]
         /\ todo' \in [Writers -> SUBSET Clients]
  <1>1. wpc' \in [Writers -> {"idle", "flushed", "put", "evict", "again", "commit"}]
    BY DEF Ends, TypeOK
  <1>2. mine' \in [Writers -> SUBSET Events] /\ todo' \in [Writers -> SUBSET Clients]
    BY DEF Ends, TypeOK
  <1>3. event' \in [Writers -> {0} \cup Events]
    BY DEF Ends, TypeOK
  <1> QED
    BY <1>1, <1>2, <1>3

LEMMA NextTypeOK ==
  ASSUME TypeOK, WritersFit, [Next]_vars
  PROVE  TypeOK'
  <1> USE EventAssumption DEF TypeOK, writers, connections
  <1>1. ASSUME NEW w \in Writers, Publish(w) PROVE TypeOK'
    <2>1. created' \in Events /\ created' \in 0..MaxEvents
      BY <1>1 DEF Publish, Events
    <2> QED
      BY <1>1, <2>1 DEF Publish
  <1>2. ASSUME NEW w \in Writers, Broadcast(w) PROVE TypeOK'
    BY <1>2 DEF Broadcast, Subscribers
  <1>3. ASSUME NEW w \in Writers, NEW c \in Clients, wpc[w] # "idle", ~Full(c),
               queue' = [queue EXCEPT ![c] = Append(@, event[w])]
        PROVE  queue' \in [Clients -> Seq(Events)] /\ \A d \in Clients : Len(queue'[d]) <= Capacity
    <2>1. event[w] \in Events
      BY <1>3 DEF WritersFit
    <2> DEFINE q == Append(queue[c], event[w])
    <2>2. q \in Seq(Events) /\ Len(q) = Len(queue[c]) + 1 /\ Len(queue[c]) \in Nat
      BY <2>1, Appending, LenProperties
    <2>3. Len(q) <= Capacity
      BY <1>3, <2>2 DEF Full
    <2> HIDE DEF q
    <2>4. queue' = [queue EXCEPT ![c] = q]
      BY <1>3 DEF q
    <2>5. \A d \in Clients : queue'[d] = IF d = c THEN q ELSE queue[d]
      BY <2>4
    <2> QED
      BY <2>2, <2>3, <2>4, <2>5
  <1>4. ASSUME NEW w \in Writers, NEW c \in Clients, Put(w, c) PROVE TypeOK'
    <2>1. CASE Full(c)
      <3>1. wpc' = [wpc EXCEPT ![w] = "evict"]
        BY <1>4, <2>1 DEF Put
      <3>2. /\ to' = [to EXCEPT ![w] = c]
            /\ overflowed' = overflowed \cup {c}
        BY <1>4, <2>1 DEF Put
      <3>3. UNCHANGED <<created, committed, local, mine, event, todo, connections, queue, channel>>
        BY <1>4, <2>1 DEF Put
      <3> QED
        BY <3>1, <3>2, <3>3
    <2>2. CASE ~Full(c)
      <3>1. queue' \in [Clients -> Seq(Events)] /\ \A d \in Clients : Len(queue'[d]) <= Capacity
        BY <1>3, <1>4, <2>2 DEF Put
      <3> QED
        BY <1>4, <2>2, <3>1, ServedTypes DEF Put
    <2> QED
      BY <2>1, <2>2
  <1>5. ASSUME NEW c \in Clients, queue[c] # <<>>, queue' = [queue EXCEPT ![c] = Tail(@)]
        PROVE  queue' \in [Clients -> Seq(Events)] /\ \A d \in Clients : Len(queue'[d]) <= Capacity
    <2> DEFINE q == Tail(queue[c])
    <2>1. q \in Seq(Events) /\ Len(q) = Len(queue[c]) - 1 /\ Len(queue[c]) \in Nat
      BY <1>5, Taking, LenProperties
    <2> HIDE DEF q
    <2>2. queue' = [queue EXCEPT ![c] = q]
      BY <1>5 DEF q
    <2>3. \A d \in Clients : queue'[d] = IF d = c THEN q ELSE queue[d]
      BY <2>2
    <2>4. Len(q) <= Capacity
      BY <2>1
    <2>5. queue' \in [Clients -> Seq(Events)]
      BY <2>1, <2>2
    <2> QED
      BY <2>3, <2>4, <2>5
  <1>6. ASSUME NEW w \in Writers, Evict(w) PROVE TypeOK'
    <2>1. queue' \in [Clients -> Seq(Events)] /\ \A d \in Clients : Len(queue'[d]) <= Capacity
      <3>1. CASE queue' = queue
        BY <3>1
      <3>2. CASE queue[to[w]] # <<>> /\ queue' = [queue EXCEPT ![to[w]] = Tail(@)]
        BY <1>5, <3>2
      <3> QED
        BY <1>6, <3>1, <3>2 DEF Evict
    <2>2. /\ wpc' \in [Writers -> {"idle", "flushed", "put", "evict", "again", "commit"}]
          /\ todo' \in [Writers -> SUBSET Clients]
      BY <1>6, ServedTypes DEF Evict
    <2> QED
      BY <1>6, <2>2, <2>1 DEF Evict
  <1>7. ASSUME NEW w \in Writers, PutAgain(w) PROVE TypeOK'
    <2>1. queue' \in [Clients -> Seq(Events)] /\ \A d \in Clients : Len(queue'[d]) <= Capacity
      BY <1>3, <1>7 DEF PutAgain
    <2>2. /\ mine' \in [Writers -> SUBSET Events] /\ event' \in [Writers -> {0} \cup Events]
          /\ todo' \in [Writers -> SUBSET Clients]
          /\ wpc' \in [Writers -> {"idle", "flushed", "put", "evict", "again", "commit"}]
      <3>1. CASE Ends(w)
        BY <3>1, EndsTypes
      <3>2. CASE Served(w, to[w]) /\ UNCHANGED <<mine, event>>
        BY <3>2, ServedTypes
      <3> QED
        BY <1>7, <3>1, <3>2 DEF PutAgain
    <2> QED
      BY <1>7, <2>1, <2>2 DEF PutAgain
  <1>8. ASSUME NEW w \in Writers, QueueGone(w) PROVE TypeOK'
    BY <1>8 DEF QueueGone
  <1>9. ASSUME NEW w \in Writers, Fanout(w) PROVE TypeOK'
    <2>1. event[w] \in Events
      BY <1>9 DEF Fanout, WritersFit
    <2>2. \A c \in Clients : Append(channel[c], event[w]) \in Seq(Events)
      BY <2>1, Appending
    <2>3. channel' \in [Clients -> Seq(Events)]
      <3>1. CASE UNCHANGED channel
        BY <3>1
      <3>2. CASE channel' = [c \in Clients |->
                   IF c \in listening THEN Append(channel[c], event[w]) ELSE channel[c]]
        <4>1. \A c \in Clients :
                (IF c \in listening THEN Append(channel[c], event[w]) ELSE channel[c]) \in Seq(Events)
          BY <2>2
        <4> QED
          BY <3>2, <4>1
      <3> QED
        BY <1>9, <3>1, <3>2 DEF Fanout
    <2>4. wpc' \in [Writers -> {"idle", "flushed", "put", "evict", "again", "commit"}]
      BY <1>9 DEF Fanout
    <2> QED
      BY <1>9, <2>3, <2>4 DEF Fanout
  <1>10. ASSUME NEW w \in Writers, Commit(w) \/ RolledBack(w) PROVE TypeOK'
    <2>1. Ends(w)
      BY <1>10 DEF Commit, RolledBack
    <2>2. committed' \subseteq Events
      BY <1>10 DEF Commit, RolledBack
    <2>3. UNCHANGED <<created, local, to, connections, queue, channel, overflowed>>
      BY <1>10 DEF Commit, RolledBack
    <2> QED
      BY <2>1, <2>2, <2>3, EndsTypes
  <1>11. ASSUME NEW c \in Clients, Connect(c) PROVE TypeOK'
    <2>1. History(cursor[c]) \subseteq Events
      BY HistoryStored
    <2>2. initial' \in [Clients -> SUBSET Events]
      BY <1>11, <2>1 DEF Connect
    <2> QED
      BY <1>11, <2>2 DEF Connect
  <1>12. ASSUME NEW c \in Clients, Subscribe(c) \/ Listen(c) PROVE TypeOK'
    <2>1. CASE Subscribe(c)
      <3>1. Broadcasts \subseteq Events
        BY DEF Broadcasts, Events
      <3>2. before' \in [Clients -> SUBSET Events]
        BY <2>1, <3>1 DEF Subscribe
      <3> QED
        BY <2>1, <3>2 DEF Subscribe
    <2>2. CASE Listen(c)
      BY <2>2 DEF Listen
    <2> QED
      BY <1>12, <2>1, <2>2
  <1>13. ASSUME NEW c \in Clients, SendInitial(c) PROVE TypeOK'
    <2>1. PICK e \in initial[c] : initial' = [initial EXCEPT ![c] = @ \ {e}] /\ Sends(c, e)
      BY <1>13 DEF SendInitial
    <2>2. e \in Events
      BY <2>1
    <2>3. initial' \in [Clients -> SUBSET Events]
      BY <2>1
    <2> QED
      BY <1>13, <2>1, <2>2, <2>3, SendsTypes DEF SendInitial
  <1>14. ASSUME NEW c \in Clients, Live(c) PROVE TypeOK'
    <2>1. CASE queue[c] # <<>>
      <3>1. queue' \in [Clients -> Seq(Events)] /\ \A d \in Clients : Len(queue'[d]) <= Capacity
        BY <1>5, <1>14, <2>1 DEF Live
      <3>2. Head(queue[c]) \in Events
        BY <2>1, Taking
      <3>3. Deliver(c, Head(queue[c])) /\ UNCHANGED channel
        BY <1>14, <2>1 DEF Live
      <3> QED
        BY <1>14, <3>1, <3>2, <3>3, DeliverTypes DEF Live
    <2>2. CASE queue[c] = <<>>
      <3>1. /\ channel[c] # <<>> /\ channel' = [channel EXCEPT ![c] = Tail(@)]
            /\ Deliver(c, Head(channel[c])) /\ UNCHANGED queue
        BY <1>14, <2>2 DEF Live
      <3>2. Head(channel[c]) \in Events /\ Tail(channel[c]) \in Seq(Events)
        BY <3>1, Taking
      <3> QED
        BY <1>14, <3>1, <3>2, DeliverTypes DEF Live
    <2> QED
      BY <2>1, <2>2
  <1>15. ASSUME NEW c \in Clients, Leave(c) PROVE TypeOK'
    BY <1>15, Nothing DEF Leave
  <1>16. CASE UNCHANGED vars
    BY <1>16 DEF vars
  <1> QED
    BY <1>1, <1>2, <1>4, <1>6, <1>7, <1>8, <1>9, <1>10, <1>11, <1>12, <1>13, <1>14, <1>15, <1>16
    DEF Next, Goes, Stream

(***************************************************************************)
(* Events and writers.                                                     *)
(***************************************************************************)
LEMMA NextBorn ==
  ASSUME TypeOK, Born, [Next]_vars
  PROVE  Born'
  <1> USE DEF Born, TypeOK, writers, connections
  <1>1. ASSUME NEW w \in Writers, Publish(w) PROVE Born'
    <2>1. created' = created + 1 /\ created' \in Nat /\ created \in Nat
      BY <1>1 DEF Publish
    <2>2. 1..created \subseteq 1..created' /\ created' \in 1..created' /\ created' \notin 1..created
      BY <2>1
    <2>3. /\ mine'[w] = mine[w] \cup {created'}
          /\ \A v \in Writers : v # w => mine'[v] = mine[v]
      BY <1>1 DEF Publish
    <2>4. UNCHANGED <<committed, initial>>
      BY <1>1 DEF Publish
    <2> DEFINE old == 1..created
               new == 1..created'
               e == created'
    <2> HIDE DEF old, new, e
    <2>5. /\ old \subseteq new /\ e \in new /\ e \notin old
          /\ committed \subseteq old
          /\ \A v \in Writers : /\ mine[v] \subseteq old \ committed
                                 /\ mine'[v] = IF v = w THEN mine[v] \cup {e} ELSE mine[v]
      BY <2>2, <2>3 DEF old, new, e
    <2>6. committed \subseteq new /\ \A v \in Writers : mine'[v] \subseteq new \ committed
      <3> HIDE DEF Born, TypeOK
      <3> QED
        BY <2>5
    <2>7. \A v \in Writers : \A u \in Writers \ {v} : mine'[u] \cap mine'[v] = {}
      <3>1. SUFFICES ASSUME NEW v \in Writers, NEW u \in Writers \ {v}, NEW x,
                            x \in mine'[u], x \in mine'[v]
                     PROVE  FALSE
        OBVIOUS
      <3>2. x \in mine[u] \/ (u = w /\ x = e)
        BY <2>5, <3>1
      <3>3. x \in mine[v] \/ (v = w /\ x = e)
        BY <2>5, <3>1
      <3>4. ~(x \in mine[u] /\ x \in mine[v])
        OBVIOUS
      <3> HIDE DEF Born, TypeOK
      <3> QED
        BY <2>5, <3>1, <3>2, <3>3, <3>4
    <2> QED
      BY <2>4, <2>6, <2>7 DEF new
  <1>2. ASSUME NEW w \in Writers, Ends(w),
               committed' = committed \/ committed' = committed \cup mine[w],
               UNCHANGED <<created, initial>>
        PROVE  Born'
    <2>1. mine'[w] = {} /\ \A v \in Writers : v # w => mine'[v] = mine[v]
      BY <1>2 DEF Ends
    <2>2. committed \subseteq committed' /\ committed' \subseteq committed \cup mine[w]
      BY <1>2
    <2>3. committed' \subseteq 1..created' /\ \A c \in Clients : initial'[c] \subseteq committed'
      BY <1>2, <2>2
    <2>4. \A v \in Writers : mine'[v] \subseteq 1..created' \ committed'
      BY <1>2, <2>1, <2>2
    <2>5. \A v \in Writers : \A u \in Writers \ {v} : mine'[u] \cap mine'[v] = {}
      BY <2>1
    <2> QED
      BY <2>3, <2>4, <2>5
  <1>3. ASSUME NEW w \in Writers, Commit(w) \/ RolledBack(w) PROVE Born'
    BY <1>2, <1>3 DEF Commit, RolledBack
  <1>4. ASSUME UNCHANGED <<created, committed, mine, initial>> PROVE Born'
    BY <1>4
  <1>5. ASSUME NEW w \in Writers, PutAgain(w) PROVE Born'
    <2>1. CASE Ends(w)
      BY <1>2, <1>5, <2>1 DEF PutAgain
    <2>2. CASE UNCHANGED mine
      BY <1>4, <1>5, <2>2 DEF PutAgain
    <2> QED
      BY <1>5, <2>1, <2>2 DEF PutAgain
  <1>6. ASSUME NEW c \in Clients, Connect(c) PROVE Born'
    <2>1. \A d \in Clients : initial'[d] = IF d = c THEN History(cursor[c]) ELSE initial[d]
      BY <1>6 DEF Connect
    <2>2. History(cursor[c]) \subseteq committed
      BY HistoryStored
    <2> QED
      BY <1>6, <2>1, <2>2 DEF Connect
  <1>7. ASSUME NEW c \in Clients, SendInitial(c) \/ Leave(c) PROVE Born'
    <2>1. \A d \in Clients : initial'[d] \subseteq initial[d]
      <3>1. CASE SendInitial(c)
        BY <3>1 DEF SendInitial
      <3>2. CASE Leave(c)
        BY <3>2 DEF Leave
      <3> QED
        BY <1>7, <3>1, <3>2
    <2> QED
      BY <1>7, <2>1 DEF SendInitial, Leave
  <1>8. ASSUME NEW w \in Writers,
               \/ Broadcast(w) \/ (\E c \in Clients : Put(w, c))
               \/ Evict(w) \/ QueueGone(w) \/ Fanout(w)
        PROVE  Born'
    BY <1>4, <1>8 DEF Broadcast, Put, Evict, QueueGone, Fanout
  <1>9. ASSUME NEW c \in Clients, Subscribe(c) \/ Listen(c) \/ Live(c) PROVE Born'
    BY <1>4, <1>9 DEF Subscribe, Listen, Live
  <1>10. CASE UNCHANGED vars
    BY <1>4, <1>10 DEF vars
  <1> HIDE DEF Born, TypeOK, writers, connections
  <1> QED
    BY <1>1, <1>3, <1>5, <1>6, <1>7, <1>8, <1>9, <1>10 DEF Next, Goes, Stream

(* What a writer's step does to the other writers: nothing. *)
Only(w) ==
  \A v \in Writers : v # w => /\ wpc'[v] = wpc[v] /\ mine'[v] = mine[v]
                             /\ event'[v] = event[v] /\ todo'[v] = todo[v] /\ to'[v] = to[v]

LEMMA EndsOnly ==
  ASSUME TypeOK, NEW w \in Writers, Ends(w), UNCHANGED to
  PROVE  Only(w) /\ wpc'[w] = "idle" /\ mine'[w] = {} /\ todo'[w] = {}
  BY DEF Ends, Only, TypeOK

LEMMA ServedOnly ==
  ASSUME TypeOK, NEW w \in Writers, NEW c \in Clients, Served(w, c), UNCHANGED <<mine, event, to>>
  PROVE  /\ Only(w) /\ wpc'[w] = "put" /\ todo'[w] = todo[w] \ {c}
         /\ mine'[w] = mine[w] /\ event'[w] = event[w]
  BY DEF Served, Only, TypeOK

LEMMA NextWriters ==
  ASSUME TypeOK, WritersFit, [Next]_vars
  PROVE  WritersFit'
  <1> USE DEF WritersFit, writers, connections
  <1> DEFINE Fit(v) ==
        /\ wpc[v] = "idle" => mine[v] = {}
        /\ wpc[v] # "idle" => event[v] \in mine[v]
        /\ wpc[v] \in {"idle", "flushed", "commit"} => todo[v] = {}
        /\ wpc[v] \in {"evict", "again"} /\ to[v] \in todo[v] => to[v] \in overflowed
  <1>1. ASSUME NEW w \in Writers, Only(w), Fit(w)', overflowed \subseteq overflowed'
        PROVE  WritersFit'
    BY <1>1 DEF Only
  <1>2. ASSUME NEW w \in Writers, Publish(w) PROVE WritersFit'
    <2>1. /\ Only(w) /\ wpc'[w] = "flushed" /\ todo'[w] = {}
          /\ event'[w] \in mine'[w] /\ UNCHANGED overflowed
      BY <1>2 DEF Publish, Only, TypeOK
    <2> QED
      BY <1>1, <2>1
  <1>3. ASSUME NEW w \in Writers, Broadcast(w) PROVE WritersFit'
    <2>1. /\ Only(w) /\ wpc'[w] = "put" /\ event'[w] \in mine'[w] /\ UNCHANGED overflowed
      BY <1>3 DEF Broadcast, Only, TypeOK
    <2> QED
      BY <1>1, <2>1
  <1>4. ASSUME NEW w \in Writers, NEW c \in Clients, Put(w, c) PROVE WritersFit'
    <2>1. CASE Full(c)
      <3>1. /\ Only(w) /\ wpc'[w] = "evict" /\ to'[w] = c /\ event'[w] \in mine'[w]
            /\ overflowed' = overflowed \cup {c}
        BY <1>4, <2>1 DEF Put, Only, TypeOK
      <3> QED
        BY <1>1, <3>1
    <2>2. CASE ~Full(c)
      <3>1. Served(w, c) /\ UNCHANGED <<mine, event, to, overflowed>>
        BY <1>4, <2>2 DEF Put
      <3>2. event[w] \in mine[w]
        BY <1>4 DEF Put
      <3> QED
        BY <1>1, <3>1, <3>2, ServedOnly
    <2> QED
      BY <2>1, <2>2
  <1>5. ASSUME NEW w \in Writers, Evict(w) PROVE WritersFit'
    <2>1. event[w] \in mine[w] /\ to[w] \in Clients
      BY <1>5 DEF Evict, TypeOK
    <2>2. CASE queue[to[w]] = <<>>
      <3>1. Served(w, to[w]) /\ UNCHANGED <<mine, event, to, overflowed>>
        BY <1>5, <2>2 DEF Evict
      <3> QED
        BY <1>1, <2>1, <3>1, ServedOnly
    <2>3. CASE queue[to[w]] # <<>>
      <3>1. /\ Only(w) /\ wpc'[w] = "again" /\ event'[w] \in mine'[w]
            /\ to'[w] = to[w] /\ UNCHANGED overflowed
        BY <1>5, <2>1, <2>3 DEF Evict, Only, TypeOK
      <3>2. to[w] \in overflowed
        BY <1>5 DEF Evict
      <3> QED
        BY <1>1, <3>1, <3>2
    <2> QED
      BY <2>2, <2>3
  <1>6. ASSUME NEW w \in Writers, Ends(w), UNCHANGED <<to, overflowed>> PROVE WritersFit'
    BY <1>1, <1>6, EndsOnly
  <1>7. ASSUME NEW w \in Writers, PutAgain(w) PROVE WritersFit'
    <2>1. event[w] \in mine[w] /\ to[w] \in Clients
      BY <1>7 DEF PutAgain, TypeOK
    <2>2. CASE Full(to[w])
      BY <1>6, <1>7, <2>2 DEF PutAgain
    <2>3. CASE ~Full(to[w])
      <3>1. Served(w, to[w]) /\ UNCHANGED <<mine, event, to, overflowed>>
        BY <1>7, <2>3 DEF PutAgain
      <3> QED
        BY <1>1, <2>1, <3>1, ServedOnly
    <2> QED
      BY <2>2, <2>3
  <1>8. ASSUME NEW w \in Writers, QueueGone(w) PROVE WritersFit'
    <2>1. Only(w) /\ wpc'[w] = "put" /\ event'[w] \in mine'[w] /\ UNCHANGED overflowed
      BY <1>8 DEF QueueGone, Only, TypeOK
    <2> QED
      BY <1>1, <2>1
  <1>9. ASSUME NEW w \in Writers, Fanout(w) PROVE WritersFit'
    <2>1. /\ Only(w) /\ wpc'[w] = "commit" /\ event'[w] \in mine'[w] /\ todo'[w] = {}
          /\ UNCHANGED overflowed
      BY <1>9 DEF Fanout, Only, TypeOK
    <2> QED
      BY <1>1, <2>1
  <1>10. ASSUME NEW w \in Writers, Commit(w) \/ RolledBack(w) PROVE WritersFit'
    BY <1>6, <1>10 DEF Commit, RolledBack
  <1>11. ASSUME NEW c \in Clients, Leave(c) PROVE WritersFit'
    <2>1. /\ UNCHANGED <<wpc, mine, event, to>> /\ overflowed' = overflowed \ {c}
          /\ \A w \in Writers : todo'[w] = todo[w] \ {c}
      BY <1>11 DEF Leave
    <2> QED
      BY <2>1
  <1>12. ASSUME UNCHANGED <<writers, overflowed>> PROVE WritersFit'
    BY <1>12
  <1>13. ASSUME NEW c \in Clients,
                Connect(c) \/ Subscribe(c) \/ Listen(c) \/ SendInitial(c) \/ Live(c)
         PROVE  WritersFit'
    BY <1>12, <1>13 DEF Connect, Subscribe, Listen, SendInitial, Live
  <1>14. CASE UNCHANGED vars
    BY <1>12, <1>14 DEF vars
  <1> QED
    BY <1>2, <1>3, <1>4, <1>5, <1>7, <1>8, <1>9, <1>10, <1>11, <1>13, <1>14 DEF Next, Goes, Stream

(* Stored events were broadcast, and of a transaction's events all but the *)
(* one just flushed.                                                       *)
LEMMA StoredBroadcast ==
  ASSUME Born, WritersFit
  PROVE  committed \subseteq Broadcasts
  BY DEF Born, WritersFit, Broadcasts

LEMMA MineBroadcast ==
  ASSUME Born, WritersFit
  PROVE  \A w \in Writers : \A e \in mine[w] \ Broadcasts :
           e = event[w] /\ wpc[w] = "flushed"
  <1> SUFFICES ASSUME NEW w \in Writers, NEW e \in mine[w], e \notin Broadcasts
               PROVE  e = event[w] /\ wpc[w] = "flushed"
    OBVIOUS
  <1>1. PICK v \in Writers : wpc[v] = "flushed" /\ e = event[v]
    BY DEF Born, Broadcasts
  <1>2. e \in mine[v]
    BY <1>1 DEF WritersFit
  <1>3. v = w
    BY <1>2 DEF Born
  <1> QED
    BY <1>1, <1>3

(***************************************************************************)
(* Connections: what was seen is not sent again.                           *)
(***************************************************************************)
LEMMA Sending ==
  ASSUME TypeOK, NEW c \in Clients, NEW e \in Events, Sends(c, e)
  PROVE  /\ Range(frames'[c]) = Range(frames[c]) \cup {e}
         /\ IsInjective(frames[c]) /\ e \notin Range(frames[c]) => IsInjective(frames'[c])
         /\ \A d \in Clients : d # c => frames'[d] = frames[d]
  <1> DEFINE f == Append(frames[c], e)
  <1>1. /\ Range(f) = Range(frames[c]) \cup {e}
        /\ IsInjective(frames[c]) /\ e \notin Range(frames[c]) => IsInjective(f)
    BY Appending DEF TypeOK
  <1>2. frames' = [frames EXCEPT ![c] = f]
    BY DEF Sends
  <1> HIDE DEF f
  <1>3. \A d \in Clients : frames'[d] = IF d = c THEN f ELSE frames[d]
    BY <1>2 DEF TypeOK
  <1> QED
    BY <1>1, <1>3

LEMMA Delivering ==
  ASSUME TypeOK, SeenFits, OncePerConnection,
         NEW c \in Clients, NEW e \in Events, cpc[c] = "live", Deliver(c, e)
  PROVE  /\ Range(frames[c]) \subseteq Range(frames'[c])
         /\ Range(frames'[c]) \subseteq Range(frames[c]) \cup {e}
         /\ e \notin before[c] => e \in Range(frames'[c])
         /\ seen'[c] = seen[c] \cup {e}
         /\ e \notin seen[c] => e \in Range(frames'[c])
         /\ IsInjective(frames'[c])
         /\ \A d \in Clients : d # c => frames'[d] = frames[d] /\ seen'[d] = seen[d]
  <1>1. /\ seen'[c] = seen[c] \cup {e}
        /\ \A d \in Clients : d # c => seen'[d] = seen[d]
    BY DEF Deliver, TypeOK
  <1>2. IsInjective(frames[c])
    BY DEF OncePerConnection
  <1>3. CASE e \in seen[c]
    <2>1. UNCHANGED frames
      BY <1>3 DEF Deliver
    <2>2. e \in before[c] \/ e \in Range(frames[c])
      BY <1>3 DEF SeenFits
    <2> QED
      BY <1>1, <1>2, <1>3, <2>1, <2>2
  <1>4. CASE e \notin seen[c]
    <2>1. Sends(c, e)
      BY <1>4 DEF Deliver
    <2>2. e \notin Range(frames[c])
      BY <1>4 DEF SeenFits
    <2> QED
      BY <1>1, <1>2, <2>1, <2>2, Sending
  <1> QED
    BY <1>3, <1>4

LEMMA NextSeen ==
  ASSUME TypeOK, Born, WritersFit, SeenFits, OncePerConnection, [Next]_vars
  PROVE  SeenFits' /\ OncePerConnection'
  <1> USE DEF SeenFits, OncePerConnection, writers, connections
  <1> DEFINE Fit(d) ==
        /\ cpc[d] \in {"off", "asked"} => frames[d] = <<>>
        /\ cpc[d] \in {"subscribed", "live"} =>
             /\ initial[d] \subseteq seen[d]
             /\ Range(frames[d]) \subseteq seen[d] \ initial[d]
             /\ \A e \in seen[d] : e \in before[d] \/ e \in Range(frames[d])
        /\ IsInjective(frames[d])
  <1>1. ASSUME NEW c \in Clients, Fit(c)',
               \A d \in Clients : d # c => /\ cpc'[d] = cpc[d] /\ initial'[d] = initial[d]
                                          /\ seen'[d] = seen[d] /\ frames'[d] = frames[d]
                                          /\ before'[d] = before[d]
        PROVE  SeenFits' /\ OncePerConnection'
    BY <1>1
  <1>2. ASSUME UNCHANGED <<cpc, initial, seen, frames, before>>
        PROVE  SeenFits' /\ OncePerConnection'
    BY <1>2
  <1>3. ASSUME NEW c \in Clients, Connect(c) PROVE SeenFits' /\ OncePerConnection'
    <2>1. /\ cpc'[c] = "asked" /\ UNCHANGED <<seen, frames, before>> /\ frames[c] = <<>>
          /\ \A d \in Clients : d # c => cpc'[d] = cpc[d] /\ initial'[d] = initial[d]
      BY <1>3 DEF Connect, TypeOK
    <2>2. Fit(c)'
      BY <2>1
    <2> HIDE DEF Fit
    <2> QED
      BY <1>1, <2>1, <2>2
  <1>4. ASSUME NEW c \in Clients, Subscribe(c) PROVE SeenFits' /\ OncePerConnection'
    <2>1. /\ cpc'[c] = "subscribed" /\ UNCHANGED <<initial, frames>> /\ frames[c] = <<>>
          /\ seen'[c] = initial[c] /\ before'[c] = Broadcasts
          /\ \A d \in Clients : d # c => /\ cpc'[d] = cpc[d] /\ seen'[d] = seen[d]
                                        /\ before'[d] = before[d]
      BY <1>4 DEF Subscribe, TypeOK
    <2>2. initial[c] \subseteq Broadcasts
      BY StoredBroadcast DEF Born
    <2>3. Fit(c)'
      BY <2>1, <2>2, Nothing
    <2> HIDE DEF Fit
    <2> QED
      BY <1>1, <2>1, <2>3
  <1>5. ASSUME NEW c \in Clients, Listen(c) PROVE SeenFits' /\ OncePerConnection'
    <2>1. /\ cpc[c] = "subscribed" /\ cpc'[c] = "live"
          /\ UNCHANGED <<initial, seen, frames, before>>
          /\ \A d \in Clients : d # c => cpc'[d] = cpc[d]
      BY <1>5 DEF Listen, TypeOK
    <2>2. Fit(c)'
      BY <2>1
    <2> HIDE DEF Fit
    <2> QED
      BY <1>1, <2>1, <2>2
  <1>6. ASSUME NEW c \in Clients, SendInitial(c) PROVE SeenFits' /\ OncePerConnection'
    <2>1. PICK e \in initial[c] : initial' = [initial EXCEPT ![c] = @ \ {e}] /\ Sends(c, e)
      BY <1>6 DEF SendInitial
    <2>2. /\ cpc[c] = "live" /\ UNCHANGED <<cpc, seen, before>>
          /\ initial'[c] = initial[c] \ {e}
          /\ \A d \in Clients : d # c => initial'[d] = initial[d]
      BY <1>6, <2>1 DEF SendInitial, TypeOK
    <2>3. e \in Events /\ e \in seen[c] /\ e \notin Range(frames[c])
      BY <2>2 DEF TypeOK
    <2>4. /\ Range(frames'[c]) = Range(frames[c]) \cup {e}
          /\ IsInjective(frames'[c])
          /\ \A d \in Clients : d # c => frames'[d] = frames[d]
      BY <2>1, <2>3, Sending
    <2>5. Fit(c)'
      BY <2>2, <2>3, <2>4
    <2> HIDE DEF Fit
    <2> QED
      BY <1>1, <2>2, <2>4, <2>5
  <1>7. ASSUME NEW c \in Clients, NEW e \in Events, cpc[c] = "live", initial[c] = {},
               Deliver(c, e), UNCHANGED <<cpc, initial, before>>
        PROVE  SeenFits' /\ OncePerConnection'
    <2>1. /\ Range(frames[c]) \subseteq Range(frames'[c])
          /\ Range(frames'[c]) \subseteq Range(frames[c]) \cup {e}
          /\ seen'[c] = seen[c] \cup {e}
          /\ e \notin seen[c] => e \in Range(frames'[c])
          /\ IsInjective(frames'[c])
          /\ \A d \in Clients : d # c => frames'[d] = frames[d] /\ seen'[d] = seen[d]
      BY <1>7, Delivering
    <2>2. Fit(c)'
      BY <1>7, <2>1
    <2> HIDE DEF Fit
    <2> QED
      BY <1>1, <1>7, <2>1, <2>2
  <1>8. ASSUME NEW c \in Clients, Live(c) PROVE SeenFits' /\ OncePerConnection'
    <2>1. CASE queue[c] # <<>>
      <3>1. Head(queue[c]) \in Events
        BY <2>1, Taking DEF TypeOK
      <3> QED
        BY <1>7, <1>8, <2>1, <3>1 DEF Live
    <2>2. CASE queue[c] = <<>>
      <3>1. Head(channel[c]) \in Events
        BY <1>8, <2>2, Taking DEF Live, TypeOK
      <3> QED
        BY <1>7, <1>8, <2>2, <3>1 DEF Live
    <2> QED
      BY <2>1, <2>2
  <1>9. ASSUME NEW c \in Clients, Leave(c) PROVE SeenFits' /\ OncePerConnection'
    <2>1. /\ cpc'[c] = "off" /\ frames'[c] = <<>>
          /\ \A d \in Clients : d # c => /\ cpc'[d] = cpc[d] /\ initial'[d] = initial[d]
                                        /\ seen'[d] = seen[d] /\ frames'[d] = frames[d]
                                        /\ before'[d] = before[d]
      BY <1>9 DEF Leave, TypeOK
    <2>2. Fit(c)'
      BY <2>1, Nothing
    <2> HIDE DEF Fit
    <2> QED
      BY <1>1, <2>1, <2>2
  <1>10. ASSUME NEW w \in Writers,
                \/ Publish(w) \/ Broadcast(w) \/ (\E c \in Clients : Put(w, c)) \/ Evict(w)
                \/ PutAgain(w) \/ QueueGone(w) \/ Fanout(w) \/ Commit(w) \/ RolledBack(w)
         PROVE  SeenFits' /\ OncePerConnection'
    <2>1. UNCHANGED connections
      BY <1>10 DEF Publish, Broadcast, Put, Evict, PutAgain, QueueGone, Fanout, Commit, RolledBack
    <2> QED
      BY <1>2, <2>1
  <1>11. CASE UNCHANGED vars
    BY <1>2, <1>11 DEF vars
  <1> HIDE DEF SeenFits, OncePerConnection, Fit
  <1> QED
    BY <1>3, <1>4, <1>5, <1>6, <1>8, <1>9, <1>10, <1>11 DEF Next, Goes, Stream

(***************************************************************************)
(* Nothing is missed.                                                      *)
(***************************************************************************)

(* A step that takes nothing from a connection but events it overflowed.   *)
Keeps ==
  /\ cpc' = cpc /\ before' = before
  /\ \A d \in Subscribers \ overflowed : \A e \in Events :
       e \notin before[d] /\ Has(d, e) => Has(d, e)'

LEMMA Appended ==
  ASSUME TypeOK, NEW c \in Clients, NEW e \in Events, UNCHANGED frames,
         queue' = [queue EXCEPT ![c] = Append(@, e)]
  PROVE  Has(c, e)' /\ \A d \in Clients, x \in Events : Has(d, x) => Has(d, x)'
  <1> DEFINE q == Append(queue[c], e)
  <1>1. Range(q) = Range(queue[c]) \cup {e}
    BY Appending DEF TypeOK
  <1>2. queue' = [queue EXCEPT ![c] = q]
    OBVIOUS
  <1> HIDE DEF q
  <1>3. \A d \in Clients : queue'[d] = IF d = c THEN q ELSE queue[d]
    BY <1>2 DEF TypeOK
  <1> QED
    BY <1>1, <1>3 DEF Has

LEMMA PublishPromised ==
  ASSUME TypeOK, Born, WritersFit, Promised, NEW w \in Writers, Publish(w)
  PROVE  Promised'
  <1>1. /\ UNCHANGED <<committed, frames, queue, before, todo, overflowed, cpc>>
        /\ Only(w) \/ \A v \in Writers : v # w => mine'[v] = mine[v]
        /\ mine'[w] = mine[w] \cup {created'} /\ event'[w] = created'
        /\ wpc'[w] = "flushed" /\ todo[w] = {} /\ wpc[w] # "flushed"
        /\ local' \subseteq local \cup {created'}
        /\ \A v \in Writers : v # w => /\ mine'[v] = mine[v] /\ event'[v] = event[v]
                                      /\ wpc'[v] = wpc[v]
    BY DEF Publish, TypeOK, WritersFit, connections
  <1>2. created' \notin committed /\ \A v \in Writers : created' \notin mine[v]
    BY DEF Publish, Born, TypeOK
  <1>3. SUFFICES ASSUME NEW c \in (Subscribers \ overflowed)', NEW e \in local', (e \notin before[c])'
                 PROVE  (/\ e \in committed => Has(c, e)
                         /\ \A v \in Writers : e \in mine[v] =>
                              \/ Has(c, e)
                              \/ e = event[v] /\ (wpc[v] = "flushed" \/ c \in todo[v]))'
    BY DEF Promised
  <1>4. c \in Subscribers \ overflowed /\ (Has(c, e)' <=> Has(c, e)) /\ e \notin before[c]
    BY <1>1, <1>3 DEF Subscribers, Has
  <1>5. CASE e = created'
    BY <1>1, <1>2, <1>5
  <1>6. CASE e # created'
    BY <1>1, <1>4, <1>6 DEF Promised
  <1> QED
    BY <1>5, <1>6

LEMMA Promising ==
  ASSUME TypeOK, Promised, Keeps, UNCHANGED local, overflowed \subseteq overflowed',
         NEW w \in Writers, Only(w),
         committed' \subseteq committed \cup mine[w], mine'[w] \subseteq mine[w],
         \A c \in Subscribers \ overflowed' : \A e \in mine[w] \cap local : e \notin before[c] =>
           \/ Has(c, e)'
           \/ /\ committed' = committed
              /\ e \in mine'[w] => e = event'[w] /\ (wpc'[w] = "flushed" \/ c \in todo'[w])
  PROVE  Promised'
  <1>1. SUFFICES ASSUME NEW c \in (Subscribers \ overflowed)', NEW e \in local', (e \notin before[c])'
                 PROVE  (/\ e \in committed => Has(c, e)
                         /\ \A v \in Writers : e \in mine[v] =>
                              \/ Has(c, e)
                              \/ e = event[v] /\ (wpc[v] = "flushed" \/ c \in todo[v]))'
    BY DEF Promised
  <1>2. c \in Subscribers \ overflowed' /\ c \in Subscribers \ overflowed /\ e \in local /\ e \notin before[c]
    BY <1>1 DEF Subscribers, Keeps
  <1>3. e \in Events /\ (Has(c, e) => Has(c, e)')
    BY <1>2 DEF Keeps, TypeOK
  <1>4. e \in committed' => Has(c, e)'
    <2>1. CASE e \in committed
      BY <1>2, <1>3, <2>1 DEF Promised
    <2>2. CASE e \in committed' /\ e \notin committed
      BY <1>2, <2>2
    <2> QED
      BY <2>1, <2>2
  <1>5. ASSUME NEW v \in Writers, e \in mine'[v], v # w
        PROVE  Has(c, e)' \/ (e = event'[v] /\ (wpc'[v] = "flushed" \/ c \in todo'[v]))
    <2>1. /\ wpc'[v] = wpc[v] /\ mine'[v] = mine[v] /\ event'[v] = event[v] /\ todo'[v] = todo[v]
      BY <1>5 DEF Only
    <2>2. Has(c, e) \/ (e = event[v] /\ (wpc[v] = "flushed" \/ c \in todo[v]))
      BY <1>2, <1>5, <2>1 DEF Promised
    <2>3. CASE Has(c, e)
      BY <1>3, <2>3
    <2>4. CASE e = event[v] /\ (wpc[v] = "flushed" \/ c \in todo[v])
      BY <2>1, <2>4
    <2> QED
      BY <2>2, <2>3, <2>4
  <1>6. ASSUME e \in mine'[w]
        PROVE  Has(c, e)' \/ (e = event'[w] /\ (wpc'[w] = "flushed" \/ c \in todo'[w]))
    <2>1. e \in mine[w] \cap local /\ e \notin before[c]
      BY <1>2, <1>6
    <2> QED
      BY <1>2, <1>6, <2>1
  <1> QED
    BY <1>4, <1>5, <1>6

LEMMA WriterPromised ==
  ASSUME TypeOK, WritersFit, Promised, NEW w \in Writers, Goes(w) \/ RolledBack(w)
  PROVE  Promised'
  <1> USE DEF connections
  <1> DEFINE Owed(c, e) == e = event[w] /\ (wpc[w] = "flushed" \/ c \in todo[w])
  <1>1. \A c \in Subscribers \ overflowed : \A e \in mine[w] \cap local :
          e \notin before[c] => Has(c, e) \/ Owed(c, e)
    BY DEF Promised
  <1>2. ASSUME UNCHANGED <<cpc, before, frames, queue>> PROVE Keeps
    BY <1>2 DEF Keeps, Has
  <1>3. ASSUME NEW c \in Clients, NEW e \in Events, UNCHANGED <<cpc, before, frames>>,
               queue' = [queue EXCEPT ![c] = Append(@, e)]
        PROVE  Keeps /\ Has(c, e)'
    <2>1. Has(c, e)' /\ \A d \in Clients, x \in Events : Has(d, x) => Has(d, x)'
      BY <1>3, Appended
    <2>2. Subscribers \subseteq Clients
      BY DEF Subscribers
    <2> HIDE DEF Has
    <2> QED
      BY <1>3, <2>1, <2>2 DEF Keeps
  <1>4. wpc[w] # "idle" => event[w] \in mine[w] /\ event[w] \in Events
    BY DEF WritersFit, TypeOK
  <1>5. CASE Broadcast(w)
    <2>1. /\ Only(w) /\ event'[w] = event[w] /\ mine'[w] = mine[w]
          /\ todo'[w] = IF event[w] \in local THEN Subscribers ELSE {}
          /\ UNCHANGED <<local, committed, overflowed, cpc, before, frames, queue>>
          /\ wpc[w] = "flushed" /\ todo[w] = {}
      BY <1>5 DEF Broadcast, Only, TypeOK, WritersFit
    <2>2. Keeps /\ \A c, e : Has(c, e) => Has(c, e)'
      BY <1>2, <2>1 DEF Has
    <2> HIDE DEF Has
    <2> QED
      BY <1>1, <2>1, <2>2, Promising
  <1>6. ASSUME NEW c \in Clients, event[w] \in Events,
               queue' = [queue EXCEPT ![c] = Append(@, event[w])],
               Served(w, c), wpc[w] # "flushed",
               UNCHANGED <<mine, event, to, local, committed, overflowed, cpc, before, frames>>
        PROVE  Promised'
    <2>1. /\ Only(w) /\ todo'[w] = todo[w] \ {c} /\ mine'[w] = mine[w] /\ event'[w] = event[w]
      BY <1>6, ServedOnly
    <2>2. Keeps /\ Has(c, event[w])' /\ \A d \in Clients, x \in Events : Has(d, x) => Has(d, x)'
      BY <1>3, <1>6, Appended
    <2>3. Subscribers \subseteq Clients /\ mine[w] \subseteq Events
      BY DEF Subscribers, TypeOK
    <2> HIDE DEF Has
    <2> QED
      BY <1>1, <1>6, <2>1, <2>2, <2>3, Promising
  <1>7. ASSUME NEW c \in Clients, Put(w, c) PROVE Promised'
    <2>1. CASE Full(c)
      <3>1. /\ Only(w) /\ event'[w] = event[w] /\ mine'[w] = mine[w] /\ todo'[w] = todo[w]
            /\ wpc[w] = "put" /\ overflowed' = overflowed \cup {c}
            /\ UNCHANGED <<local, committed, cpc, before, frames, queue>>
        BY <1>7, <2>1 DEF Put, Only, TypeOK
      <3>2. Keeps /\ \A d, e : Has(d, e) => Has(d, e)'
        BY <1>2, <3>1 DEF Has
      <3> HIDE DEF Has
      <3> QED
        BY <1>1, <3>1, <3>2, Promising
    <2>2. CASE ~Full(c)
      <3>1. /\ wpc[w] = "put"
            /\ queue' = [queue EXCEPT ![c] = Append(@, event[w])] /\ Served(w, c)
            /\ UNCHANGED <<mine, event, to, local, committed, overflowed, cpc, before, frames>>
        BY <1>7, <2>2 DEF Put
      <3> QED
        BY <1>4, <1>6, <3>1
    <2> QED
      BY <2>1, <2>2
  <1>8. CASE Evict(w)
    <2> DEFINE c == to[w]
    <2>1. /\ c \in Clients /\ c \in overflowed
          /\ UNCHANGED <<mine, event, to, local, committed, overflowed, cpc, before, frames>>
          /\ wpc[w] = "evict"
      BY <1>8 DEF Evict, WritersFit, TypeOK
    <2>2. /\ Only(w) /\ mine'[w] = mine[w] /\ event'[w] = event[w]
          /\ todo[w] \subseteq todo'[w] \cup {c}
      BY <1>8 DEF Evict, Served, Only, TypeOK
    <2>3. \A d \in Clients : d # c => queue'[d] = queue[d]
      BY <1>8 DEF Evict, TypeOK
    <2> HIDE DEF c
    <2>4. \A d \in Subscribers \ overflowed, e \in Events : Has(d, e) => Has(d, e)'
      BY <2>1, <2>3 DEF Has, Subscribers
    <2>5. Keeps
      <3> HIDE DEF Has
      <3> QED
        BY <2>1, <2>4 DEF Keeps
    <2>6. mine[w] \subseteq Events
      BY DEF TypeOK
    <2> HIDE DEF Has
    <2> QED
      BY <1>1, <2>1, <2>2, <2>4, <2>5, <2>6, Promising
  <1>9. ASSUME Ends(w), UNCHANGED <<to, local, overflowed, cpc, before, frames, queue>>,
               committed' = committed \/ (/\ committed' = committed \cup mine[w]
                                          /\ wpc[w] = "commit")
        PROVE  Promised'
    <2>1. Only(w) /\ mine'[w] = {}
      BY <1>9, EndsOnly
    <2>2. Keeps /\ \A d, e : Has(d, e) => Has(d, e)'
      BY <1>2, <1>9 DEF Has
    <2>3. wpc[w] = "commit" => todo[w] = {}
      BY DEF WritersFit
    <2> HIDE DEF Has
    <2> QED
      BY <1>1, <1>9, <2>1, <2>2, <2>3, Promising
  <1>10. CASE PutAgain(w)
    <2>1. to[w] \in Clients
      BY DEF TypeOK
    <2>2. CASE Full(to[w])
      BY <1>9, <1>10, <2>2 DEF PutAgain
    <2>3. CASE ~Full(to[w])
      <3>1. /\ wpc[w] = "again"
            /\ queue' = [queue EXCEPT ![to[w]] = Append(@, event[w])] /\ Served(w, to[w])
            /\ UNCHANGED <<mine, event, to, local, committed, overflowed, cpc, before, frames>>
        BY <1>10, <2>3 DEF PutAgain
      <3> QED
        BY <1>4, <1>6, <2>1, <3>1
    <2> QED
      BY <2>2, <2>3
  <1>11. CASE QueueGone(w) \/ Fanout(w)
    <2>1. /\ Only(w) /\ event'[w] = event[w] /\ mine'[w] = mine[w] /\ todo'[w] = todo[w]
          /\ wpc[w] # "flushed"
          /\ UNCHANGED <<local, committed, overflowed, cpc, before, frames, queue>>
      BY <1>11 DEF QueueGone, Fanout, Only, TypeOK
    <2>2. Keeps /\ \A d, e : Has(d, e) => Has(d, e)'
      BY <1>2, <2>1 DEF Has
    <2> HIDE DEF Has
    <2> QED
      BY <1>1, <2>1, <2>2, Promising
  <1>12. CASE Commit(w) \/ RolledBack(w)
    BY <1>9, <1>12 DEF Commit, RolledBack
  <1> HIDE DEF connections
  <1> QED
    BY <1>5, <1>7, <1>8, <1>10, <1>11, <1>12 DEF Goes

(* A connection's step leaves what writers owe the others.                 *)
LEMMA StreamPromised ==
  ASSUME TypeOK, Born, WritersFit, SeenFits, OncePerConnection, Promised,
         NEW c \in Clients, Stream(c)
  PROVE  Promised'
  <1> USE DEF writers
  <1>1. ASSUME Subscribers' \ overflowed' \subseteq Subscribers \ overflowed,
               UNCHANGED <<committed, local, wpc, mine, event>>,
               \A d \in Subscribers' \ overflowed' :
                 /\ before'[d] = before[d]
                 /\ \A e \in Events : e \notin before[d] /\ Has(d, e) => Has(d, e)'
                 /\ \A v \in Writers : d \in todo[v] => d \in todo'[v]
        PROVE  Promised'
    <2>1. SUFFICES ASSUME NEW d \in (Subscribers \ overflowed)', NEW e \in local', (e \notin before[d])'
                   PROVE  (/\ e \in committed => Has(d, e)
                           /\ \A v \in Writers : e \in mine[v] =>
                                \/ Has(d, e)
                                \/ e = event[v] /\ (wpc[v] = "flushed" \/ d \in todo[v]))'
      BY DEF Promised
    <2>2. d \in Subscribers \ overflowed /\ e \in local /\ e \in Events /\ e \notin before[d]
      BY <1>1, <2>1 DEF TypeOK
    <2>3. Has(d, e) => Has(d, e)'
      BY <1>1, <2>1, <2>2
    <2> HIDE DEF Has
    <2> QED
      BY <1>1, <2>1, <2>2, <2>3 DEF Promised
  <1>2. CASE Connect(c)
    <2>1. Subscribers' = Subscribers
      BY <1>2 DEF Connect, Subscribers, TypeOK
    <2> QED
      BY <1>1, <1>2, <2>1 DEF Connect, Has
  <1>3. CASE Subscribe(c)
    <2>1. /\ Subscribers' = Subscribers \cup {c} /\ before'[c] = Broadcasts
          /\ \A d \in Clients : d # c => before'[d] = before[d]
          /\ UNCHANGED <<committed, local, wpc, mine, event, todo, frames, queue, overflowed>>
      BY <1>3 DEF Subscribe, Subscribers, TypeOK
    <2>2. SUFFICES ASSUME NEW d \in (Subscribers \ overflowed)', NEW e \in local', (e \notin before[d])'
                   PROVE  (/\ e \in committed => Has(d, e)
                           /\ \A v \in Writers : e \in mine[v] =>
                                \/ Has(d, e)
                                \/ e = event[v] /\ (wpc[v] = "flushed" \/ d \in todo[v]))'
      BY DEF Promised
    <2>3. CASE d = c
      <3>1. e \notin Broadcasts /\ e \in Events
        BY <2>1, <2>2, <2>3 DEF TypeOK
      <3>2. e \notin committed
        BY <3>1, StoredBroadcast
      <3>3. \A v \in Writers : e \in mine[v] => e = event[v] /\ wpc[v] = "flushed"
        BY <3>1, MineBroadcast
      <3> QED
        BY <2>1, <3>2, <3>3
    <2>4. CASE d # c
      <3>1. /\ d \in Subscribers \ overflowed /\ e \in local /\ e \notin before[d]
            /\ (Has(d, e)' <=> Has(d, e))
        BY <2>1, <2>2, <2>4 DEF Has, Subscribers
      <3> HIDE DEF Has
      <3> QED
        BY <2>1, <3>1 DEF Promised
    <2> QED
      BY <2>3, <2>4
  <1>4. CASE Listen(c)
    <2>1. Subscribers' = Subscribers
      BY <1>4 DEF Listen, Subscribers, TypeOK
    <2> QED
      BY <1>1, <1>4, <2>1 DEF Listen, Has
  <1>5. CASE SendInitial(c)
    <2>1. PICK e \in initial[c] : Sends(c, e)
      BY <1>5 DEF SendInitial
    <2>2. /\ Range(frames[c]) \subseteq Range(frames'[c])
          /\ \A d \in Clients : d # c => frames'[d] = frames[d]
      BY <2>1, Sending DEF TypeOK
    <2>3. /\ UNCHANGED <<committed, local, wpc, mine, event, todo, cpc, before, queue, overflowed>>
      BY <1>5 DEF SendInitial
    <2>4. Subscribers' = Subscribers /\ Subscribers \subseteq Clients
      BY <2>3 DEF Subscribers
    <2>5. \A d \in Clients, x \in Events : Has(d, x) => Has(d, x)'
      BY <2>2, <2>3 DEF Has
    <2> HIDE DEF Has
    <2> QED
      BY <1>1, <2>3, <2>4, <2>5
  <1>6. CASE Live(c)
    <2>1. /\ cpc[c] = "live"
          /\ UNCHANGED <<committed, local, wpc, mine, event, todo, cpc, before, overflowed>>
      BY <1>6 DEF Live
    <2>2. Subscribers' = Subscribers /\ Subscribers \subseteq Clients
      BY <2>1 DEF Subscribers
    <2>3. \A d \in Clients, x \in Events : x \notin before[d] /\ Has(d, x) => Has(d, x)'
      <3>1. CASE queue[c] = <<>>
        <4>1. /\ channel[c] # <<>> /\ Deliver(c, Head(channel[c])) /\ UNCHANGED queue
          BY <1>6, <3>1 DEF Live
        <4>2. Head(channel[c]) \in Events
          BY <4>1, Taking DEF TypeOK
        <4>3. /\ Range(frames[c]) \subseteq Range(frames'[c])
              /\ \A d \in Clients : d # c => frames'[d] = frames[d]
          BY <2>1, <4>1, <4>2, Delivering
        <4> QED
          BY <4>1, <4>3 DEF Has
      <3>2. CASE queue[c] # <<>>
        <4> DEFINE h == Head(queue[c])
                   q == Tail(queue[c])
        <4>1. /\ Deliver(c, h) /\ queue' = [queue EXCEPT ![c] = q]
          BY <1>6, <3>2 DEF Live
        <4>2. h \in Events /\ Range(queue[c]) = {h} \cup Range(q)
          BY <3>2, Taking DEF TypeOK
        <4>3. \A d \in Clients : queue'[d] = IF d = c THEN q ELSE queue[d]
          BY <4>1 DEF TypeOK
        <4> HIDE DEF h, q
        <4>4. /\ Range(frames[c]) \subseteq Range(frames'[c])
              /\ h \notin before[c] => h \in Range(frames'[c])
              /\ \A d \in Clients : d # c => frames'[d] = frames[d]
          BY <2>1, <4>1, <4>2, Delivering
        <4> QED
          BY <4>2, <4>3, <4>4 DEF Has
      <3> QED
        BY <3>1, <3>2
    <2> HIDE DEF Has
    <2> QED
      BY <1>1, <2>1, <2>2, <2>3
  <1>7. CASE Leave(c)
    <2>1. /\ Subscribers' = Subscribers \ {c} /\ overflowed' = overflowed \ {c}
          /\ Subscribers' \subseteq Clients
          /\ \A d \in Clients : d # c => /\ before'[d] = before[d] /\ frames'[d] = frames[d]
                                        /\ queue'[d] = queue[d]
          /\ \A v \in Writers : todo'[v] = todo[v] \ {c}
          /\ UNCHANGED <<committed, local, wpc, mine, event>>
      BY <1>7 DEF Leave, Subscribers, TypeOK
    <2>2. \A d \in Subscribers' \ overflowed', x \in Events : Has(d, x) => Has(d, x)'
      BY <2>1 DEF Has
    <2>3. \A d \in Subscribers' : d \in Clients /\ d # c
      BY <2>1
    <2> HIDE DEF Has
    <2> QED
      BY <1>1, <2>1, <2>2, <2>3
  <1> QED
    BY <1>2, <1>3, <1>4, <1>5, <1>6, <1>7 DEF Stream

(***************************************************************************)
(* The theorems.                                                           *)
(***************************************************************************)
LEMMA StreamInvHolds == Spec => []StreamInv
  <1>1. Init => StreamInv
    BY InitInv
  <1>2. StreamInv /\ [Next]_vars => StreamInv'
    <2> SUFFICES ASSUME StreamInv, [Next]_vars PROVE StreamInv'
      OBVIOUS
    <2> USE DEF StreamInv
    <2>1. TypeOK' /\ Born' /\ WritersFit' /\ SeenFits' /\ OncePerConnection'
      BY NextTypeOK, NextBorn, NextWriters, NextSeen
    <2>2. Promised'
      <3>1. CASE UNCHANGED vars
        BY <3>1 DEF vars, writers, connections, Promised, Subscribers, Has
      <3>2. ASSUME NEW w \in Writers, Publish(w) PROVE Promised'
        BY <3>2, PublishPromised
      <3>3. ASSUME NEW w \in Writers, Goes(w) \/ RolledBack(w) PROVE Promised'
        BY <3>3, WriterPromised
      <3>4. ASSUME NEW c \in Clients, Stream(c) PROVE Promised'
        BY <3>4, StreamPromised
      <3> QED
        BY <3>1, <3>2, <3>3, <3>4 DEF Next
    <2> QED
      BY <2>1, <2>2
  <1> QED
    BY <1>1, <1>2, PTL DEF Spec

(* Events, writers and connections keep their types, and no queue exceeds  *)
(* its maxsize (app/services/events.py).                                   *)
THEOREM StreamTypeCorrect == Spec => []TypeOK
  <1>1. StreamInv => TypeOK
    BY DEF StreamInv
  <1> QED
    BY <1>1, StreamInvHolds, PTL

(* A connection sends no event twice, by whatever ways it comes            *)
(* (stream_events).                                                        *)
THEOREM SentOnce == Spec => []OncePerConnection
  <1>1. StreamInv => OncePerConnection
    BY DEF StreamInv
  <1> QED
    BY <1>1, StreamInvHolds, PTL

(* Until its queue overflows, a connection has every committed event of    *)
(* this process whose broadcast had not begun when it subscribed, sent or  *)
(* queued (_broadcast, stream_events).                                     *)
THEOREM NothingMissed == Spec => []SubscribedMissNothing
  <1>1. StreamInv => SubscribedMissNothing
    BY DEF StreamInv, Promised, SubscribedMissNothing, Has
  <1> QED
    BY <1>1, StreamInvHolds, PTL

=============================================================================
