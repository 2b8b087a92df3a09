---------------------------- MODULE EventStream ----------------------------
(***************************************************************************)
(* The administrators' event stream of the FastAPI backend                 *)
(* (app/services/events.py).  A request writes its events into its own     *)
(* transaction and hands each to the connected browsers at once, before    *)
(* the commit; a browser that connects is sent the stored events after its *)
(* Last-Event-ID, then what its queue and the Redis channel bring.         *)
(*                                                                         *)
(* One store.  Events are numbered in the order of (created_at, id).       *)
(***************************************************************************)
EXTENDS Integers, FiniteSets, Sequences, Functions

CONSTANTS Writers,    \* requests and jobs that publish events
          Clients,    \* browsers
          Capacity,   \* maxsize of a subscriber's queue
          Limit,      \* stored events sent on connecting
          Redis,      \* whether REDIS_URL is set
          MaxEvents   \* bounds the events created

ASSUME EventAssumption ==
  /\ Clients # {}
  /\ Capacity \in Nat \ {0}
  /\ Limit \in Nat \ {0}
  /\ Redis \in BOOLEAN
  /\ MaxEvents \in Nat

VARIABLES
  created,     \* how many events were created
  committed,   \* backend_events
  local,       \* the events created in the process that serves the browsers
  wpc,         \* where each writer is
  mine,        \* its events not committed
  event,       \* the one it is publishing
  todo, to,    \* subscribers yet to be served, and the one being served
  cpc,         \* where each connection is
  cursor,      \* id of the last frame a browser received
  initial,     \* stored events yet to be sent
  seen,        \* ids the connection will not send again
  queue,       \* the connection's queue
  channel,     \* what Redis holds for the connection
  listening,   \* connections subscribed at Redis
  frames,      \* what the connection sent
  before,      \* history: events whose broadcast had begun when it subscribed
  overflowed   \* connections whose queue was found full

writers == <<wpc, mine, event, todo, to>>
connections == <<cpc, cursor, initial, seen, listening, frames, before>>
vars == <<created, committed, local, writers, connections, queue, channel, overflowed>>

Events == 1..MaxEvents
Subscribers == {c \in Clients : cpc[c] \in {"subscribed", "live"}}

Init ==
  /\ created = 0
  /\ committed = {}
  /\ local = {}
  /\ wpc = [w \in Writers |-> "idle"]
  /\ mine = [w \in Writers |-> {}]
  /\ event = [w \in Writers |-> 0]
  /\ todo = [w \in Writers |-> {}]
  /\ to = [w \in Writers |-> CHOOSE c \in Clients : TRUE]
  /\ cpc = [c \in Clients |-> "off"]
  /\ cursor = [c \in Clients |-> 0]
  /\ initial = [c \in Clients |-> {}]
  /\ seen = [c \in Clients |-> {}]
  /\ queue = [c \in Clients |-> <<>>]
  /\ channel = [c \in Clients |-> <<>>]
  /\ listening = {}
  /\ frames = [c \in Clients |-> <<>>]
  /\ before = [c \in Clients |-> {}]
  /\ overflowed = {}

-----------------------------------------------------------------------------
(* Writers.                                                                *)

(* publish_event's flush, for the first or a further event of a            *)
(* transaction, in the process that serves the browsers or in another.     *)
Publish(w) ==
  /\ wpc[w] \in {"idle", "commit"}
  /\ created < MaxEvents
  /\ created' = created + 1
  /\ mine' = [mine EXCEPT ![w] = @ \cup {created'}]
  /\ event' = [event EXCEPT ![w] = created']
  /\ \/ mine[w] \subseteq local /\ local' = local \cup {created'}
     \/ mine[w] \cap local = {} /\ UNCHANGED local
  /\ wpc' = [wpc EXCEPT ![w] = "flushed"]
  /\ UNCHANGED <<committed, todo, to, connections, queue, channel, overflowed>>

(* _broadcast copies the subscribers of its own process. *)
Broadcast(w) ==
  /\ wpc[w] = "flushed"
  /\ todo' = [todo EXCEPT ![w] = IF event[w] \in local THEN Subscribers ELSE {}]
  /\ wpc' = [wpc EXCEPT ![w] = "put"]
  /\ UNCHANGED <<created, committed, local, mine, event, to, connections, queue, channel, overflowed>>

Served(w, c) ==
  /\ todo' = [todo EXCEPT ![w] = @ \ {c}]
  /\ wpc' = [wpc EXCEPT ![w] = "put"]

(* Nothing of the transaction is kept. *)
Ends(w) ==
  /\ wpc' = [wpc EXCEPT ![w] = "idle"]
  /\ mine' = [mine EXCEPT ![w] = {}]
  /\ event' = [event EXCEPT ![w] = 0]
  /\ todo' = [todo EXCEPT ![w] = {}]

(* Mutant: the queue has no maxsize. *)
Unbounded(c) == FALSE

Full(c) == Len(queue[c]) >= Capacity

Put(w, c) ==
  /\ wpc[w] = "put"
  /\ c \in todo[w]
  /\ \/ /\ ~Full(c)
        /\ queue' = [queue EXCEPT ![c] = Append(@, event[w])]
        /\ Served(w, c)
        /\ UNCHANGED <<to, overflowed>>
     \/ /\ Full(c)
        /\ to' = [to EXCEPT ![w] = c]
        /\ wpc' = [wpc EXCEPT ![w] = "evict"]
        /\ overflowed' = overflowed \cup {c}
        /\ UNCHANGED <<queue, todo>>
  /\ UNCHANGED <<created, committed, local, mine, event, connections, channel>>

(* The oldest is dropped; if the browser emptied the queue meanwhile, it   *)
(* is the new one that is given up.                                        *)
Evict(w) ==
  LET c == to[w] IN
  /\ wpc[w] = "evict"
  /\ c \in todo[w]
  /\ \/ /\ queue[c] # <<>>
        /\ queue' = [queue EXCEPT ![c] = Tail(@)]
        /\ wpc' = [wpc EXCEPT ![w] = "again"]
        /\ UNCHANGED todo
     \/ /\ queue[c] = <<>>
        /\ Served(w, c)
        /\ UNCHANGED queue
  /\ UNCHANGED <<created, committed, local, mine, event, to, connections, channel, overflowed>>

(* Mutant: the writer waits for room. *)
PutAgainWaits(w) ==
  LET c == to[w] IN
  /\ wpc[w] = "again"
  /\ c \in todo[w]
  /\ ~Full(c)
  /\ queue' = [queue EXCEPT ![c] = Append(@, event[w])]
  /\ Served(w, c)
  /\ UNCHANGED <<created, committed, local, mine, event, to, connections, channel, overflowed>>

(* If another writer took the place, queue.Full leaves _broadcast and ends *)
(* the request.                                                            *)
PutAgain(w) ==
  LET c == to[w] IN
  /\ wpc[w] = "again"
  /\ c \in todo[w]
  /\ \/ /\ ~Full(c)
        /\ queue' = [queue EXCEPT ![c] = Append(@, event[w])]
        /\ Served(w, c)
        /\ UNCHANGED <<mine, event>>
     \/ /\ Full(c)
        /\ Ends(w)
        /\ UNCHANGED queue
  /\ UNCHANGED <<created, committed, local, to, connections, channel, overflowed>>

(* The queue being served belongs to a connection that is over. *)
QueueGone(w) ==
  /\ wpc[w] \in {"evict", "again"}
  /\ to[w] \notin todo[w]
  /\ wpc' = [wpc EXCEPT ![w] = "put"]
  /\ UNCHANGED <<created, committed, local, mine, event, todo, to, connections, queue, channel,
                 overflowed>>

(* _publish_redis, whose errors are ignored. *)
Fanout(w) ==
  /\ wpc[w] = "put"
  /\ todo[w] = {}
  /\ wpc' = [wpc EXCEPT ![w] = "commit"]
  /\ \/ /\ Redis
        /\ channel' = [c \in Clients |->
             IF c \in listening THEN Append(channel[c], event[w]) ELSE channel[c]]
     \/ UNCHANGED channel
  /\ UNCHANGED <<created, committed, local, mine, event, todo, to, connections, queue, overflowed>>

Commit(w) ==
  /\ wpc[w] = "commit"
  /\ committed' = committed \cup mine[w]
  /\ Ends(w)
  /\ UNCHANGED <<created, local, to, connections, queue, channel, overflowed>>

RolledBack(w) ==
  /\ wpc[w] # "idle"
  /\ Ends(w)
  /\ UNCHANGED <<created, committed, local, to, connections, queue, channel, overflowed>>

-----------------------------------------------------------------------------
(* Connections.                                                            *)

(* The Limit first events after the cursor; all events come after a cursor *)
(* that is not stored.                                                     *)
History(last) ==
  LET after == IF last \in committed THEN {e \in committed : e > last} ELSE committed
  IN  {e \in after : Cardinality({d \in after : d < e}) < Limit}

(* GET /admin/events reads the stored events; *)
Connect(c) ==
  /\ cpc[c] = "off"
  /\ cpc' = [cpc EXCEPT ![c] = "asked"]
  /\ initial' = [initial EXCEPT ![c] = History(cursor[c])]
  /\ UNCHANGED <<created, committed, local, writers, cursor, seen, listening, frames, before, queue,
                 channel, overflowed>>

(* The events that _broadcast was called for. *)
Broadcasts == (1..created) \ {event[w] : w \in {v \in Writers : wpc[v] = "flushed"}}

(* the response, once it is streamed, subscribes, *)
Subscribe(c) ==
  /\ cpc[c] = "asked"
  /\ cpc' = [cpc EXCEPT ![c] = "subscribed"]
  /\ seen' = [seen EXCEPT ![c] = initial[c]]
  /\ before' = [before EXCEPT ![c] = Broadcasts]
  /\ UNCHANGED <<created, committed, local, writers, cursor, initial, listening, frames, queue,
                 channel, overflowed>>

(* also at Redis, if it is there. *)
Listen(c) ==
  /\ cpc[c] = "subscribed"
  /\ cpc' = [cpc EXCEPT ![c] = "live"]
  /\ \/ Redis /\ listening' = listening \cup {c}
     \/ UNCHANGED listening
  /\ UNCHANGED <<created, committed, local, writers, cursor, initial, seen, frames, before, queue,
                 channel, overflowed>>

Sends(c, e) ==
  /\ frames' = [frames EXCEPT ![c] = Append(@, e)]
  /\ cursor' = [cursor EXCEPT ![c] = e]

SendInitial(c) ==
  /\ cpc[c] = "live"
  /\ \E e \in initial[c] :
       /\ \A d \in initial[c] : e <= d
       /\ initial' = [initial EXCEPT ![c] = @ \ {e}]
       /\ Sends(c, e)
  /\ UNCHANGED <<created, committed, local, writers, cpc, seen, listening, before, queue, channel,
                 overflowed>>

(* Mutant: ids sent from the queue are not remembered. *)
DeliverForgetting(c, e) ==
  /\ UNCHANGED seen
  /\ IF e \in seen[c] THEN UNCHANGED <<frames, cursor>> ELSE Sends(c, e)

Deliver(c, e) ==
  /\ seen' = [seen EXCEPT ![c] = @ \cup {e}]
  /\ IF e \in seen[c] THEN UNCHANGED <<frames, cursor>> ELSE Sends(c, e)

(* Mutant: Redis is asked also when the queue had an event. *)
LiveOverriding(c) ==
  /\ cpc[c] = "live"
  /\ initial[c] = {}
  /\ \/ /\ queue[c] # <<>>
        /\ queue' = [queue EXCEPT ![c] = Tail(@)]
        /\ channel[c] = <<>>
        /\ Deliver(c, Head(queue[c]))
        /\ UNCHANGED channel
     \/ /\ channel[c] # <<>>
        /\ queue' = [queue EXCEPT ![c] = IF @ = <<>> THEN @ ELSE Tail(@)]
        /\ channel' = [channel EXCEPT ![c] = Tail(@)]
        /\ Deliver(c, Head(channel[c]))
  /\ UNCHANGED <<created, committed, local, writers, cpc, initial, listening, before, overflowed>>

(* The loop takes from the queue, and from Redis when the queue is empty. *)
Live(c) ==
  /\ cpc[c] = "live"
  /\ initial[c] = {}
  /\ \/ /\ queue[c] # <<>>
        /\ queue' = [queue EXCEPT ![c] = Tail(@)]
        /\ Deliver(c, Head(queue[c]))
        /\ UNCHANGED channel
     \/ /\ queue[c] = <<>>
        /\ channel[c] # <<>>
        /\ channel' = [channel EXCEPT ![c] = Tail(@)]
        /\ Deliver(c, Head(channel[c]))
        /\ UNCHANGED queue
  /\ UNCHANGED <<created, committed, local, writers, cpc, initial, listening, before, overflowed>>

(* sse_max_seconds have passed, or the browser has gone: unsubscribe. *)
Leave(c) ==
  /\ cpc[c] # "off"
  /\ cpc' = [cpc EXCEPT ![c] = "off"]
  /\ initial' = [initial EXCEPT ![c] = {}]
  /\ seen' = [seen EXCEPT ![c] = {}]
  /\ queue' = [queue EXCEPT ![c] = <<>>]
  /\ channel' = [channel EXCEPT ![c] = <<>>]
  /\ listening' = listening \ {c}
  /\ frames' = [frames EXCEPT ![c] = <<>>]
  /\ before' = [before EXCEPT ![c] = {}]
  /\ overflowed' = overflowed \ {c}
  /\ todo' = [w \in Writers |-> todo[w] \ {c}]
  /\ UNCHANGED <<created, committed, local, wpc, mine, event, to, cursor>>

-----------------------------------------------------------------------------
(* What a request does once it has published. *)
Goes(w) ==
  \/ Broadcast(w)
  \/ \E c \in Clients : Put(w, c)
  \/ Evict(w)
  \/ PutAgain(w)
  \/ QueueGone(w)
  \/ Fanout(w)
  \/ Commit(w)

Stream(c) == Connect(c) \/ Subscribe(c) \/ Listen(c) \/ SendInitial(c) \/ Live(c) \/ Leave(c)

Next ==
  \/ \E w \in Writers : Publish(w) \/ Goes(w) \/ RolledBack(w)
  \/ \E c \in Clients : Stream(c)

Spec == Init /\ [][Next]_vars

(* Requests run; of browsers nothing is assumed. *)
FairSpec == Spec /\ \A w \in Writers : WF_vars(Goes(w))

-----------------------------------------------------------------------------
TypeOK ==
  /\ created \in 0..MaxEvents
  /\ committed \subseteq Events
  /\ local \subseteq Events
  /\ wpc \in [Writers -> {"idle", "flushed", "put", "evict", "again", "commit"}]
  /\ mine \in [Writers -> SUBSET Events]
  /\ event \in [Writers -> {0} \cup Events]
  /\ todo \in [Writers -> SUBSET Clients]
  /\ to \in [Writers -> Clients]
  /\ cpc \in [Clients -> {"off", "asked", "subscribed", "live"}]
  /\ cursor \in [Clients -> {0} \cup Events]
  /\ initial \in [Clients -> SUBSET Events]
  /\ seen \in [Clients -> SUBSET Events]
  /\ queue \in [Clients -> Seq(Events)]
  /\ \A c \in Clients : Len(queue[c]) <= Capacity
  /\ channel \in [Clients -> Seq(Events)]
  /\ frames \in [Clients -> Seq(Events)]
  /\ listening \subseteq Clients
  /\ before \in [Clients -> SUBSET Events]
  /\ overflowed \subseteq Clients

(* A connection sends an event once, although the queue, Redis and the     *)
(* stored events may each bring it (seen, in stream_events).               *)
OncePerConnection == \A c \in Clients : IsInjective(frames[c])

(* A connection misses no committed event of its process whose broadcast   *)
(* had not begun when it subscribed: it is sent or waits in the queue,     *)
(* until the queue was once found full (_broadcast, stream_events).  One   *)
(* broadcast before that and committed after the stored events were read   *)
(* is missed, and exempt.                                                  *)
SubscribedMissNothing ==
  \A c \in Subscribers \ overflowed : \A e \in local \cap committed :
    e \notin before[c] => e \in Range(frames[c]) \cup Range(queue[c])

(* "A slow admin client should not block POS/admin requests" (_broadcast): *)
(* a request ends although no browser ever reads.                          *)
SlowClientsBlockNobody == \A w \in Writers : wpc[w] # "idle" ~> wpc[w] = "idle"

-----------------------------------------------------------------------------
(* Why this holds: the inductive strengthening of the invariants above.    *)

(* Nothing refers to an event not yet created, and each is committed or of *)
(* one transaction.                                                        *)
Born ==
  /\ committed \subseteq 1..created
  /\ \A w \in Writers :
       /\ mine[w] \subseteq 1..created \ committed
       /\ \A v \in Writers \ {w} : mine[v] \cap mine[w] = {}
  /\ \A c \in Clients : initial[c] \subseteq committed

(* A writer is publishing one of its events, and evicts from queues known  *)
(* to have been full.                                                      *)
WritersFit ==
  \A w \in Writers :
    /\ wpc[w] = "idle" => mine[w] = {}
    /\ wpc[w] # "idle" => event[w] \in mine[w]
    /\ wpc[w] \in {"idle", "flushed", "commit"} => todo[w] = {}
    /\ wpc[w] \in {"evict", "again"} /\ to[w] \in todo[w] => to[w] \in overflowed

(* What a connection has seen it sent, will send, or had been broadcast    *)
(* before it subscribed.                                                   *)
SeenFits ==
  \A c \in Clients :
    /\ cpc[c] \in {"off", "asked"} => frames[c] = <<>>
    /\ cpc[c] \in {"subscribed", "live"} =>
         /\ initial[c] \subseteq seen[c]
         /\ Range(frames[c]) \subseteq seen[c] \ initial[c]
         /\ \A e \in seen[c] : e \in before[c] \/ e \in Range(frames[c])

Has(c, e) == e \in Range(frames[c]) \cup Range(queue[c])

(* An event the connection does not have is one a writer is on the way to  *)
(* give it.                                                                *)
Promised ==
  \A c \in Subscribers \ overflowed : \A e \in local :
    e \notin before[c] =>
      /\ e \in committed => Has(c, e)
      /\ \A w \in Writers : e \in mine[w] =>
           \/ Has(c, e)
           \/ e = event[w] /\ (wpc[w] = "flushed" \/ c \in todo[w])

StreamInv ==
  /\ TypeOK
  /\ Born
  /\ WritersFit
  /\ SeenFits
  /\ Promised
  /\ OncePerConnection

=============================================================================
