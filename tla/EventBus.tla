------------------------------ MODULE EventBus ------------------------------
(***************************************************************************)
(* The event bus (src/fws/eventbus.py): threads publish, each subscription *)
(* has a queue of bounded depth that drops its oldest event on overflow,   *)
(* and one reader (a websocket or an SSE stream) takes from it.            *)
(*                                                                         *)
(* publish() takes its sequence number and its targets under the bus lock  *)
(* and offers the event to one subscription after the other outside it.    *)
(* _offer() is a loop of separate operations on the queue: put, or find it *)
(* full and take out the oldest, and count that. get() takes an event and  *)
(* then looks at the count. Any of these may come between any others.      *)
(*                                                                         *)
(* The count is a plain attribute. Looking at it, attaching and clearing   *)
(* it are one step, and so is counting up: the interpreter lock of CPython *)
(* 3.11 and later (pyproject.toml) is not handed over inside either.       *)
(***************************************************************************)
EXTENDS Integers, Sequences, FiniteSets

CONSTANTS
    Publisher,  \* threads that publish
    Sub,        \* subscriptions; each is made once
    Kind,       \* kinds of events
    Filters,    \* what subscriptions ask for, as the sets of kinds selected
    None,       \* no event, no subscription
    Depth,      \* QUEUE_DEPTH
    MaxSeq      \* bound of the model: the events published

ASSUME DepthAssumption == Depth \in Nat \ {0} /\ MaxSeq \in Nat
ASSUME PublisherAssumption == IsFiniteSet(Publisher)
ASSUME FiltersAssumption == Filters \subseteq SUBSET Kind

VARIABLES
    seq,        \* _seq
    subs,       \* _subs
    filter,     \* subscription -> the kinds it selects
    queue,      \* subscription -> _q
    dropped,    \* subscription -> dropped, the count to be attached
    event,      \* publisher -> the event it publishes, or None
    targets,    \* publisher -> the subscriptions it has yet to offer it to
    stuck,      \* publisher -> the one whose queue it found full, or None
    at,         \* publisher -> where it is in _offer()
    reader,     \* subscription -> where its reader is
    evicted,    \* history: subscription -> events dropped from its queue
    told,       \* history: subscription -> drops its reader was told of
    gap,        \* history: subscription -> drops before the last event read
    last        \* history: subscription -> publisher -> the seq of the last
                \* event read from it

busVars == <<seq, subs, filter>>
offerVars == <<event, targets, stuck, at>>
historyVars == <<evicted, told, gap, last>>
vars == <<seq, subs, filter, queue, dropped, event, targets, stuck, at, reader,
          evicted, told, gap, last>>

Event == [seq : 1..MaxSeq, kind : Kind, by : Publisher]

ASSUME NoneAssumption == None \notin Event \cup Sub

TypeOK ==
    /\ seq \in 0..MaxSeq
    /\ subs \in SUBSET Sub
    /\ filter \in [Sub -> SUBSET Kind]
    /\ queue \in [Sub -> Seq(Event)] /\ \A s \in Sub : Len(queue[s]) <= Depth
    /\ dropped \in [Sub -> Nat]
    /\ event \in [Publisher -> Event \cup {None}]
    /\ targets \in [Publisher -> SUBSET Sub]
    /\ stuck \in [Publisher -> Sub \cup {None}]
    /\ at \in [Publisher -> {"put", "evict", "count"}]
    /\ reader \in [Sub -> {"unmade", "reading", "got", "closed"}]
    /\ evicted \in [Sub -> Nat]
    /\ told \in [Sub -> Nat]
    /\ gap \in [Sub -> Nat]
    /\ last \in [Sub -> [Publisher -> 0..MaxSeq]]

Init ==
    /\ seq = 0
    /\ subs = {}
    /\ filter = [s \in Sub |-> {}]
    /\ queue = [s \in Sub |-> <<>>]
    /\ dropped = [s \in Sub |-> 0]
    /\ event = [p \in Publisher |-> None]
    /\ targets = [p \in Publisher |-> {}]
    /\ stuck = [p \in Publisher |-> None]
    /\ at = [p \in Publisher |-> "put"]
    /\ reader = [s \in Sub |-> "unmade"]
    /\ evicted = [s \in Sub |-> 0]
    /\ told = [s \in Sub |-> 0]
    /\ gap = [s \in Sub |-> 0]
    /\ last = [s \in Sub |-> [p \in Publisher |-> 0]]

-----------------------------------------------------------------------------
(* Subscriptions.                                                          *)

Subscribe(s, kinds) ==
    /\ reader[s] = "unmade"
    /\ reader' = [reader EXCEPT ![s] = "reading"]
    /\ subs' = subs \cup {s}
    /\ filter' = [filter EXCEPT ![s] = kinds]
    /\ UNCHANGED <<seq, queue, dropped, offerVars, historyVars>>

\* The reader goes away; a publisher that took it for a target before that
\* still offers its event.
CloseSub(s) ==
    /\ reader[s] \in {"reading", "got"}
    /\ reader' = [reader EXCEPT ![s] = "closed"]
    /\ subs' = subs \ {s}
    /\ UNCHANGED <<seq, filter, queue, dropped, offerVars, historyVars>>

\* get(): the queue gives its oldest event ...
Take(s) ==
    /\ reader[s] = "reading"
    /\ queue[s] # <<>>
    /\ queue' = [queue EXCEPT ![s] = Tail(@)]
    /\ reader' = [reader EXCEPT ![s] = "got"]
    /\ last' = [last EXCEPT ![s][Head(queue[s]).by] = Head(queue[s]).seq]
    /\ gap' = [gap EXCEPT ![s] = evicted[s]]
    /\ UNCHANGED <<busVars, dropped, offerVars, evicted, told>>

\* ... which then carries the count, if there is one.
Report(s) ==
    /\ reader[s] = "got"
    /\ reader' = [reader EXCEPT ![s] = "reading"]
    /\ told' = [told EXCEPT ![s] = @ + dropped[s]]
    /\ dropped' = [dropped EXCEPT ![s] = 0]
    /\ UNCHANGED <<busVars, queue, offerVars, evicted, gap, last>>

-----------------------------------------------------------------------------
(* Publishing.                                                             *)

\* Mutant of Targets: subscriptions that are behind are passed over.
TargetsKeepingUp(kind) ==
    {s \in subs : kind \in filter[s] /\ Len(queue[s]) < Depth}

Targets(kind) == {s \in subs : kind \in filter[s]}

\* publish(), up to the end of its critical section. An event nobody wants is
\* finished with there.
Publish(p, kind) ==
    /\ event[p] = None
    /\ seq < MaxSeq
    /\ seq' = seq + 1
    /\ targets' = [targets EXCEPT ![p] = Targets(kind)]
    /\ event' = [event EXCEPT ![p] =
                    IF Targets(kind) = {} THEN None
                    ELSE [seq |-> seq + 1, kind |-> kind, by |-> p]]
    /\ UNCHANGED <<subs, filter, queue, dropped, stuck, at, reader, historyVars>>

Full(s) == Len(queue[s]) = Depth

\* p tries to put its event into the queue of s, again if it was full before.
Offers(p, s) ==
    /\ at[p] = "put"
    /\ s \in targets[p]
    /\ stuck[p] \in {None, s}

\* What p has left when it is done with s.
Done(p, s) ==
    /\ targets' = [targets EXCEPT ![p] = @ \ {s}]
    /\ event' = [event EXCEPT ![p] = IF targets[p] = {s} THEN None ELSE @]
    /\ stuck' = [stuck EXCEPT ![p] = None]

\* Mutant of Put: after an overflow the event is put once more.
PutTwice(p, s) ==
    /\ Offers(p, s)
    /\ ~Full(s)
    /\ queue' = [queue EXCEPT ![s] = Append(@, event[p])]
    /\ IF stuck[p] = s THEN stuck' = [stuck EXCEPT ![p] = None] /\ UNCHANGED <<event, targets>>
                       ELSE Done(p, s)
    /\ UNCHANGED <<busVars, dropped, at, reader, historyVars>>

Put(p, s) ==
    /\ Offers(p, s)
    /\ ~Full(s)
    /\ queue' = [queue EXCEPT ![s] = Append(@, event[p])]
    /\ Done(p, s)
    /\ UNCHANGED <<busVars, dropped, at, reader, historyVars>>

\* Mutant of FindFull: put() instead of put_nowait(), which waits for room.
FindFullWaits(p, s) ==
    /\ Offers(p, s)
    /\ Full(s)
    /\ UNCHANGED vars

FindFull(p, s) ==
    /\ Offers(p, s)
    /\ Full(s)
    /\ stuck' = [stuck EXCEPT ![p] = s]
    /\ at' = [at EXCEPT ![p] = "evict"]
    /\ UNCHANGED <<busVars, queue, dropped, event, targets, reader, historyVars>>

\* Mutant of Evict: the drop is not counted.
EvictUncounted(p) ==
    LET s == stuck[p] IN
    /\ at[p] = "evict"
    /\ queue[s] # <<>>
    /\ queue' = [queue EXCEPT ![s] = Tail(@)]
    /\ evicted' = [evicted EXCEPT ![s] = @ + 1]
    /\ at' = [at EXCEPT ![p] = "put"]
    /\ UNCHANGED <<busVars, dropped, event, targets, stuck, reader, told, gap, last>>

\* The oldest event goes, even if the reader has made room meanwhile.
Evict(p) ==
    LET s == stuck[p] IN
    /\ at[p] = "evict"
    /\ queue[s] # <<>>
    /\ queue' = [queue EXCEPT ![s] = Tail(@)]
    /\ evicted' = [evicted EXCEPT ![s] = @ + 1]
    /\ at' = [at EXCEPT ![p] = "count"]
    /\ UNCHANGED <<busVars, dropped, event, targets, stuck, reader, told, gap, last>>

\* Others have emptied the queue meanwhile.
FindEmpty(p) ==
    /\ at[p] = "evict"
    /\ queue[stuck[p]] = <<>>
    /\ at' = [at EXCEPT ![p] = "put"]
    /\ UNCHANGED <<busVars, queue, dropped, event, targets, stuck, reader, historyVars>>

Count(p) ==
    /\ at[p] = "count"
    /\ dropped' = [dropped EXCEPT ![stuck[p]] = @ + 1]
    /\ at' = [at EXCEPT ![p] = "put"]
    /\ UNCHANGED <<busVars, queue, event, targets, stuck, reader, historyVars>>

Offer(p) ==
    \/ \E s \in Sub : Put(p, s) \/ FindFull(p, s)
    \/ Evict(p) \/ FindEmpty(p) \/ Count(p)

-----------------------------------------------------------------------------
Read(s) == Take(s) \/ Report(s)

Subscribing == \E s \in Sub : CloseSub(s) \/ \E kinds \in Filters : Subscribe(s, kinds)

Next ==
    \/ Subscribing
    \/ \E s \in Sub : Read(s)
    \/ \E p \in Publisher : Offer(p) \/ \E kind \in Kind : Publish(p, kind)

(***************************************************************************)
(* Fairness: a thread that publishes keeps running. No reader has to read. *)
(***************************************************************************)
Fairness == \A p \in Publisher : WF_vars(Offer(p))

Spec == Init /\ [][Next]_vars
FairSpec == Spec /\ Fairness

-----------------------------------------------------------------------------
(* Properties.                                                             *)

Offering(s) == {p \in Publisher : s \in targets[p]}
Counting(s) == {p \in Publisher : stuck[p] = s /\ at[p] = "count"}

\* The reader of s waits, and there is nothing under way to it.
Quiet(s) == reader[s] = "reading" /\ queue[s] = <<>> /\ Offering(s) = {}

\* A consumer always knows how much it missed: by the time a reader has read
\* all there is, it was told of every event that was dropped, and no other
\* (eventbus.py:20-24, 48-74).
GapsAreTold == \A s \in Sub : Quiet(s) => told[s] = evicted[s]

\* A reader gets what one thread published in the order it was published in,
\* and nothing twice (eventbus.py:48-74, 109-130).
ReadsInOrder ==
    [][\A s \in Sub : Take(s) =>
            Head(queue[s]).seq > last[s][Head(queue[s]).by]]_vars

\* publish() never blocks: it comes to its end with every queue full and every
\* reader asleep (eventbus.py:18-24, 48-59, 109-114).
PublishEnds == \A p \in Publisher : event[p] # None ~> event[p] = None

(***************************************************************************)
(* The inductive invariant of the proofs.                                  *)
(***************************************************************************)
\* A publisher in the middle of _offer() still has an event for that target.
OfferSound ==
    \A p \in Publisher :
        /\ event[p] = None <=> targets[p] = {}
        /\ event[p] # None => event[p].by = p /\ event[p].seq <= seq
        /\ stuck[p] # None => stuck[p] \in targets[p]
        /\ at[p] # "put" => stuck[p] # None

\* Every drop is told, counted, or about to be counted; and while there is a
\* count, there is an event to carry it on its way to the reader.
DropsSound ==
    \A s \in Sub :
        /\ evicted[s] = told[s] + dropped[s] + Cardinality(Counting(s))
        /\ dropped[s] # 0 => \/ queue[s] # <<>> \/ reader[s] \in {"got", "closed"}
                             \/ \E p \in Publisher : stuck[p] = s

\* A publisher's events stand in a queue in their order, after what was read
\* of it and before what it offers.
OrderSound ==
    \A s \in Sub :
        /\ \A i \in DOMAIN queue[s] :
                /\ last[s][queue[s][i].by] < queue[s][i].seq
                /\ queue[s][i].seq <= seq
                /\ \A j \in DOMAIN queue[s] :
                        i < j /\ queue[s][i].by = queue[s][j].by =>
                            queue[s][i].seq < queue[s][j].seq
        /\ \A p \in Publisher : last[s][p] <= seq
        /\ \A p \in Offering(s) :
                /\ last[s][p] < event[p].seq
                /\ \A i \in DOMAIN queue[s] :
                        queue[s][i].by = p => queue[s][i].seq < event[p].seq

BusInv ==
    /\ TypeOK
    /\ OfferSound
    /\ DropsSound
    /\ OrderSound

\* "The returned event carries `dropped` when this subscriber has missed
\* anything, so a consumer can never mistake a gap for quiet"
\* (eventbus.py:64-66): who is handed an event from behind a gap is told of the
\* gap with it. (Not while a publisher is between dropping and counting.)
GapsAreToldAtOnce ==
    [][\A s \in Sub : Report(s) => told'[s] >= gap[s]]_vars
=============================================================================
