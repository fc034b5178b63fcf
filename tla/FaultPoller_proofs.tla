------------------------- MODULE FaultPoller_proofs -------------------------
(***************************************************************************)
(* Proofs about EventBus, for any publishers, subscriptions and depth: the *)
(* inductive invariant, that readers are told of all they missed, and that *)
(* they get each publisher's events in order. Then of FaultPoller: it uses *)
(* the bus as EventBus specifies, so that what is proved of the bus holds  *)
(* of it, and a reader that lost nothing knows what the poller knows.      *)
(***************************************************************************)
EXTENDS FaultPoller, FiniteSetTheorems, TLAPS

-----------------------------------------------------------------------------
(* The event bus.                                                          *)

\* What is known of a queue's head and tail.
LEMMA TailFacts ==
  ASSUME NEW q \in Seq(Event), q # <<>>
  PROVE  /\ Len(q) \in Nat \ {0} /\ DOMAIN q = 1..Len(q)
         /\ Head(q) = q[1] /\ q[1] \in Event
         /\ Tail(q) \in Seq(Event) /\ Len(Tail(q)) = Len(q) - 1
         /\ DOMAIN Tail(q) = 1..(Len(q) - 1)
         /\ \A i \in 1..(Len(q) - 1) : Tail(q)[i] = q[i + 1] /\ q[i + 1] \in Event
  <1>1. Len(q) \in Nat \ {0} /\ DOMAIN q = 1..Len(q)
    OBVIOUS
  <1>2. \A i \in 1..Len(q) : q[i] \in Event
    OBVIOUS
  <1>3. /\ Tail(q) \in Seq(Event) /\ Len(Tail(q)) = Len(q) - 1
        /\ \A i \in 1..(Len(q) - 1) : Tail(q)[i] = q[i + 1]
    BY <1>1
  <1>4. QED
    BY <1>1, <1>2, <1>3

LEMMA AppendFacts ==
  ASSUME NEW q \in Seq(Event), NEW e \in Event
  PROVE  /\ Append(q, e) \in Seq(Event) /\ Len(q) \in Nat
         /\ Len(Append(q, e)) = Len(q) + 1 /\ Append(q, e) # <<>>
         /\ DOMAIN q = 1..Len(q) /\ DOMAIN Append(q, e) = 1..(Len(q) + 1)
         /\ \A i \in 1..Len(q) : Append(q, e)[i] = q[i]
         /\ Append(q, e)[Len(q) + 1] = e
  OBVIOUS

LEMMA EventFacts == \A e \in Event : e.seq \in Nat /\ e.by \in Publisher
  BY DepthAssumption DEF Event

LEMMA CountingFinite ==
  ASSUME NEW s \in Sub
  PROVE  IsFiniteSet(Counting(s)) /\ Cardinality(Counting(s)) \in Nat
  <1>1. IsFiniteSet(Counting(s))
    BY PublisherAssumption, FS_Subset DEF Counting
  <1>2. QED
    BY <1>1, FS_CardinalityType

LEMMA InitInv == Init => BusInv
  <1> SUFFICES ASSUME Init PROVE BusInv
    OBVIOUS
  <1>1. TypeOK
    BY DepthAssumption DEF Init, TypeOK
  <1>2. OfferSound
    BY NoneAssumption DEF Init, OfferSound
  <1>3. DropsSound
    <2>1. \A s \in Sub : Counting(s) = {}
      BY DEF Init, Counting
    <2>2. \A s \in Sub : Cardinality(Counting(s)) = 0
      BY <2>1, FS_EmptySet
    <2>3. QED
      BY <2>2 DEF Init, DropsSound
  <1>4. OrderSound
    BY DepthAssumption DEF Init, OrderSound, Offering
  <1>5. QED
    BY <1>1, <1>2, <1>3, <1>4 DEF BusInv

-----------------------------------------------------------------------------
(* Each conjunct of the invariant over the steps.                          *)

\* A publisher that offers has an event to offer.
LEMMA OfferedEvent ==
  ASSUME TypeOK, OfferSound, NEW p \in Publisher, NEW s \in Sub, Offers(p, s)
  PROVE  event[p] \in Event /\ event[p].by = p /\ event[p].seq <= seq
  BY DEF TypeOK, OfferSound, Offers

LEMMA TypingStep == TypeOK /\ OfferSound /\ [Next]_vars => TypeOK'
  <1> SUFFICES ASSUME TypeOK, OfferSound, [Next]_vars PROVE TypeOK'
    OBVIOUS
  <1> USE DepthAssumption DEF TypeOK, busVars, offerVars, historyVars
  <1>1. CASE UNCHANGED vars
    BY <1>1 DEF vars
  <1>2. ASSUME NEW s \in Sub, NEW kinds \in Filters, Subscribe(s, kinds) PROVE TypeOK'
    BY <1>2, FiltersAssumption DEF Subscribe
  <1>3. ASSUME NEW s \in Sub, CloseSub(s) PROVE TypeOK'
    BY <1>3 DEF CloseSub
  <1>4. ASSUME NEW s \in Sub, Take(s) PROVE TypeOK'
    <2>1. /\ Tail(queue[s]) \in Seq(Event) /\ Len(Tail(queue[s])) <= Depth
          /\ Head(queue[s]) \in Event
      BY <1>4, TailFacts DEF Take
    <2>2. /\ queue' \in [Sub -> Seq(Event)]
          /\ \A u \in Sub : Len(queue'[u]) <= Depth
      BY <1>4, <2>1 DEF Take
    <2>3. last' \in [Sub -> [Publisher -> 0..MaxSeq]]
      BY SMTT(30), <1>4, <2>1 DEF Take, Event
    <2>4. QED
      BY <1>4, <2>2, <2>3 DEF Take
  <1>5. ASSUME NEW s \in Sub, Report(s) PROVE TypeOK'
    BY <1>5 DEF Report
  <1>6. ASSUME NEW p \in Publisher, NEW kind \in Kind, Publish(p, kind) PROVE TypeOK'
    <2>1. [seq |-> seq + 1, kind |-> kind, by |-> p] \in Event
      BY <1>6 DEF Publish, Event
    <2>2. Targets(kind) \in SUBSET Sub
      BY DEF Targets
    <2>3. event' \in [Publisher -> Event \cup {None}]
      BY <1>6, <2>1 DEF Publish
    <2>4. QED
      BY <1>6, <2>2, <2>3 DEF Publish
  <1>7. ASSUME NEW p \in Publisher, NEW s \in Sub, Put(p, s) PROVE TypeOK'
    <2>1. event[p] \in Event
      BY <1>7, OfferedEvent DEF Put
    <2>2. /\ Append(queue[s], event[p]) \in Seq(Event)
          /\ Len(Append(queue[s], event[p])) <= Depth
      BY <1>7, <2>1, AppendFacts DEF Put, Full
    <2>3. /\ queue' \in [Sub -> Seq(Event)]
          /\ \A u \in Sub : Len(queue'[u]) <= Depth
      BY <1>7, <2>2 DEF Put
    <2>4. QED
      BY <1>7, <2>3 DEF Put, Done
  <1>8. ASSUME NEW p \in Publisher, NEW s \in Sub, FindFull(p, s) PROVE TypeOK'
    BY <1>8 DEF FindFull
  <1>9. ASSUME NEW p \in Publisher, Evict(p) PROVE TypeOK'
    <2>1. stuck[p] \in Sub
      BY <1>9 DEF Evict, OfferSound
    <2>2. Tail(queue[stuck[p]]) \in Seq(Event) /\ Len(Tail(queue[stuck[p]])) <= Depth
      BY <1>9, <2>1, TailFacts DEF Evict
    <2>3. /\ queue' \in [Sub -> Seq(Event)]
          /\ \A u \in Sub : Len(queue'[u]) <= Depth
      BY <1>9, <2>1, <2>2 DEF Evict
    <2>4. QED
      BY SMTT(30), <1>9, <2>1, <2>3 DEF Evict
  <1>10. ASSUME NEW p \in Publisher, FindEmpty(p) PROVE TypeOK'
    BY <1>10 DEF FindEmpty
  <1>11. ASSUME NEW p \in Publisher, Count(p) PROVE TypeOK'
    <2>1. stuck[p] \in Sub
      BY <1>11 DEF Count, OfferSound
    <2>2. QED
      BY <1>11, <2>1 DEF Count
  <1>12. CASE Next
    <2>1. CASE Subscribing
      BY <1>2, <1>3, <2>1 DEF Subscribing
    <2>2. ASSUME NEW s \in Sub, Read(s) PROVE TypeOK'
      BY <1>4, <1>5, <2>2 DEF Read
    <2>3. ASSUME NEW p \in Publisher, Offer(p) PROVE TypeOK'
      BY <1>7, <1>8, <1>9, <1>10, <1>11, <2>3 DEF Offer
    <2>4. QED
      BY <1>6, <1>12, <2>1, <2>2, <2>3 DEF Next
  <1>13. QED
    BY <1>1, <1>12

\* OfferSound, for one publisher.
OfferSoundAt(p) ==
    /\ event[p] = None <=> targets[p] = {}
    /\ event[p] # None => event[p].by = p /\ event[p].seq <= seq
    /\ stuck[p] # None => stuck[p] \in targets[p]
    /\ at[p] # "put" => stuck[p] # None

LEMMA OfferSoundStep == TypeOK /\ OfferSound /\ [Next]_vars => OfferSound'
  <1> SUFFICES ASSUME TypeOK, OfferSound, [Next]_vars, NEW q \in Publisher
               PROVE  OfferSoundAt(q)'
    BY DEF OfferSound, OfferSoundAt
  <1>1. /\ OfferSoundAt(q)
        /\ event \in [Publisher -> Event \cup {None}]
        /\ targets \in [Publisher -> SUBSET Sub]
        /\ stuck \in [Publisher -> Sub \cup {None}]
        /\ at \in [Publisher -> {"put", "evict", "count"}]
        /\ seq \in Nat
        /\ None \notin Event /\ None \notin Sub
    BY NoneAssumption, DepthAssumption DEF OfferSound, OfferSoundAt, TypeOK
  <1>2. CASE UNCHANGED <<event, targets, stuck, at, seq>>
    BY <1>1, <1>2 DEF OfferSoundAt
  <1>3. ASSUME NEW s \in Sub, Read(s) PROVE OfferSoundAt(q)'
    BY <1>2, <1>3 DEF Read, Take, Report, busVars, offerVars
  <1>4. CASE Subscribing
    BY <1>2, <1>4 DEF Subscribing, Subscribe, CloseSub, offerVars
  <1>5. ASSUME NEW p \in Publisher, NEW kind \in Kind, Publish(p, kind)
        PROVE  OfferSoundAt(q)'
    <2> DEFINE e == [seq |-> seq + 1, kind |-> kind, by |-> p]
    <2>1. e \in Event /\ e.seq = seq + 1 /\ e.by = p /\ e # None
      <3>1. seq + 1 \in 1..MaxSeq
        BY <1>5, <1>1, DepthAssumption DEF Publish, TypeOK
      <3>2. e \in Event
        BY <3>1 DEF Event
      <3>3. QED
        BY <3>2, <1>1
    <2>2. CASE q = p
      <3>1. /\ targets'[p] = Targets(kind) /\ seq' = seq + 1
            /\ event'[p] = IF Targets(kind) = {} THEN None ELSE e
            /\ stuck' = stuck /\ at' = at
        BY <1>5, <1>1 DEF Publish
      <3>2. stuck[p] = None /\ at[p] = "put"
        BY <1>5, <1>1, <2>2 DEF Publish, OfferSoundAt
      <3> HIDE DEF e
      <3>3. QED
        BY <3>1, <3>2, <2>1, <2>2, <1>1 DEF OfferSoundAt
    <2>3. CASE q # p
      <3>1. /\ targets'[q] = targets[q] /\ event'[q] = event[q] /\ seq' = seq + 1
            /\ stuck' = stuck /\ at' = at
        BY <1>5, <1>1, <2>3 DEF Publish
      <3>2. event[q] # None => event[q].seq \in Nat
        BY <1>1 DEF Event
      <3>3. QED
        BY <3>1, <3>2, <1>1 DEF OfferSoundAt
    <2>4. QED
      BY <2>2, <2>3
  <1>6. ASSUME NEW p \in Publisher, NEW s \in Sub, Put(p, s) PROVE OfferSoundAt(q)'
    <2>1. /\ s \in targets[p] /\ stuck[p] \in {None, s} /\ at[p] = "put"
          /\ at' = at /\ seq' = seq
      BY <1>6 DEF Put, Offers, busVars
    <2>2. CASE q = p
      <3>1. /\ targets'[p] = targets[p] \ {s} /\ stuck'[p] = None
            /\ event'[p] = IF targets[p] = {s} THEN None ELSE event[p]
        BY <1>6, <1>1 DEF Put, Done
      <3>2. QED
        BY <3>1, <2>1, <2>2, <1>1 DEF OfferSoundAt
    <2>3. CASE q # p
      <3>1. targets'[q] = targets[q] /\ event'[q] = event[q] /\ stuck'[q] = stuck[q]
        BY <1>6, <1>1, <2>3 DEF Put, Done
      <3>2. QED
        BY <3>1, <2>1, <1>1 DEF OfferSoundAt
    <2>4. QED
      BY <2>2, <2>3
  <1>7. ASSUME NEW p \in Publisher, NEW s \in Sub, FindFull(p, s) PROVE OfferSoundAt(q)'
    BY <1>1, <1>7 DEF FindFull, Offers, OfferSoundAt, busVars
  <1>8. ASSUME NEW p \in Publisher, Evict(p) \/ FindEmpty(p) \/ Count(p)
        PROVE  OfferSoundAt(q)'
    <2>1. /\ UNCHANGED <<event, targets, stuck, seq>>
          /\ at[p] # "put"
          /\ at'[q] # "put" => at[q] # "put"
      BY <1>1, <1>8 DEF Evict, FindEmpty, Count, busVars
    <2>2. QED
      BY <2>1, <1>1 DEF OfferSoundAt
  <1>9. QED
    BY <1>2, <1>3, <1>4, <1>5, <1>6, <1>7, <1>8
       DEF Next, Offer, vars

-----------------------------------------------------------------------------
(* What readers are told.                                                  *)

\* DropsSound, for one subscription: the two conjuncts.
DropsCounted(u) == evicted[u] = told[u] + dropped[u] + Cardinality(Counting(u))
Carried(u) == dropped[u] # 0 => \/ queue[u] # <<>> \/ reader[u] \in {"got", "closed"}
                                \/ \E p \in Publisher : stuck[p] = u

LEMMA DropsCountedStep ==
  ASSUME TypeOK, OfferSound, NEW u \in Sub, DropsCounted(u), [Next]_vars
  PROVE  DropsCounted(u)'
  <1>1. /\ evicted[u] \in Nat /\ told[u] \in Nat /\ dropped[u] \in Nat
        /\ IsFiniteSet(Counting(u)) /\ Cardinality(Counting(u)) \in Nat
        /\ evicted \in [Sub -> Nat] /\ told \in [Sub -> Nat] /\ dropped \in [Sub -> Nat]
        /\ at \in [Publisher -> {"put", "evict", "count"}]
        /\ stuck \in [Publisher -> Sub \cup {None}]
    BY CountingFinite DEF TypeOK
  <1>2. ASSUME UNCHANGED <<stuck, at>> PROVE Counting(u)' = Counting(u)
    BY <1>2 DEF Counting
  <1>3. CASE UNCHANGED <<stuck, at, evicted, told, dropped>>
    BY <1>1, <1>2, <1>3 DEF DropsCounted
  <1>4. ASSUME NEW s \in Sub, Read(s) PROVE DropsCounted(u)'
    <2>1. CASE Take(s)
      BY <1>3, <2>1 DEF Take, offerVars
    <2>2. CASE Report(s)
      <3>1. /\ Counting(u)' = Counting(u) /\ evicted' = evicted
            /\ told' = [told EXCEPT ![s] = @ + dropped[s]]
            /\ dropped' = [dropped EXCEPT ![s] = 0]
        BY <1>2, <2>2 DEF Report, offerVars
      <3>2. told'[u] + dropped'[u] = told[u] + dropped[u]
        BY <3>1, <1>1
      <3>3. QED
        BY <3>1, <3>2 DEF DropsCounted
    <2>3. QED
      BY <1>4, <2>1, <2>2 DEF Read
  <1>5. CASE Subscribing
    BY <1>3, <1>5 DEF Subscribing, Subscribe, CloseSub, offerVars, historyVars
  <1>6. ASSUME NEW p \in Publisher, NEW kind \in Kind, Publish(p, kind)
        PROVE  DropsCounted(u)'
    BY <1>3, <1>6 DEF Publish, historyVars
  <1>7. ASSUME NEW p \in Publisher, NEW s \in Sub, Put(p, s) PROVE DropsCounted(u)'
    <2>1. Counting(u)' = Counting(u)
      BY <1>7, <1>1 DEF Put, Offers, Done, Counting
    <2>2. QED
      BY <1>7, <2>1 DEF Put, historyVars, DropsCounted
  <1>8. ASSUME NEW p \in Publisher, NEW s \in Sub, FindFull(p, s) PROVE DropsCounted(u)'
    <2>1. Counting(u)' = Counting(u)
      BY <1>8, <1>1 DEF FindFull, Offers, Counting
    <2>2. QED
      BY <1>8, <2>1 DEF FindFull, historyVars, DropsCounted
  <1>9. ASSUME NEW p \in Publisher, Evict(p) PROVE DropsCounted(u)'
    <2>1. /\ at[p] = "evict" /\ at' = [at EXCEPT ![p] = "count"] /\ stuck' = stuck
          /\ evicted' = [evicted EXCEPT ![stuck[p]] = @ + 1]
          /\ told' = told /\ dropped' = dropped /\ stuck[p] \in Sub
      BY <1>9, <1>1 DEF Evict, OfferSound
    <2>2. CASE stuck[p] = u
      <3>1. Counting(u)' = Counting(u) \cup {p} /\ p \notin Counting(u)
        BY <2>1, <2>2, <1>1 DEF Counting
      <3>2. Cardinality(Counting(u)') = Cardinality(Counting(u)) + 1
        BY <3>1, <1>1, FS_AddElement
      <3>3. evicted'[u] = evicted[u] + 1
        BY <2>1, <2>2, <1>1
      <3>4. QED
        BY <3>2, <3>3, <2>1, <1>1 DEF DropsCounted
    <2>3. CASE stuck[p] # u
      <3>1. Counting(u)' = Counting(u) /\ evicted'[u] = evicted[u]
        BY <2>1, <2>3, <1>1 DEF Counting
      <3>2. QED
        BY <3>1, <2>1 DEF DropsCounted
    <2>4. QED
      BY <2>2, <2>3
  <1>10. ASSUME NEW p \in Publisher, FindEmpty(p) PROVE DropsCounted(u)'
    <2>1. Counting(u)' = Counting(u)
      BY <1>10, <1>1 DEF FindEmpty, Counting
    <2>2. QED
      BY <1>10, <2>1 DEF FindEmpty, historyVars, DropsCounted
  <1>11. ASSUME NEW p \in Publisher, Count(p) PROVE DropsCounted(u)'
    <2>1. /\ at[p] = "count" /\ at' = [at EXCEPT ![p] = "put"] /\ stuck' = stuck
          /\ dropped' = [dropped EXCEPT ![stuck[p]] = @ + 1]
          /\ told' = told /\ evicted' = evicted /\ stuck[p] \in Sub
      BY <1>11, <1>1 DEF Count, historyVars, OfferSound
    <2>2. CASE stuck[p] = u
      <3>1. Counting(u)' = Counting(u) \ {p} /\ p \in Counting(u)
        BY <2>1, <2>2, <1>1 DEF Counting
      <3>2. Cardinality(Counting(u)') = Cardinality(Counting(u)) - 1
        BY <3>1, <1>1, FS_RemoveElement
      <3>3. dropped'[u] = dropped[u] + 1
        BY <2>1, <2>2, <1>1
      <3>4. QED
        BY <3>2, <3>3, <2>1, <1>1 DEF DropsCounted
    <2>3. CASE stuck[p] # u
      <3>1. Counting(u)' = Counting(u) /\ dropped'[u] = dropped[u]
        BY <2>1, <2>3, <1>1 DEF Counting
      <3>2. QED
        BY <3>1, <2>1 DEF DropsCounted
    <2>4. QED
      BY <2>2, <2>3
  <1>12. QED
    BY <1>3, <1>4, <1>5, <1>6, <1>7, <1>8, <1>9, <1>10, <1>11
       DEF Next, Offer, vars

LEMMA CarriedStep ==
  ASSUME TypeOK, OfferSound, NEW u \in Sub, Carried(u), [Next]_vars
  PROVE  Carried(u)'
  <1>1. /\ dropped \in [Sub -> Nat] /\ queue \in [Sub -> Seq(Event)]
        /\ reader \in [Sub -> {"unmade", "reading", "got", "closed"}]
        /\ stuck \in [Publisher -> Sub \cup {None}]
    BY DEF TypeOK
  <1>2. CASE UNCHANGED <<dropped, queue, reader, stuck>>
    BY <1>2 DEF Carried
  <1>3. CASE Subscribing
    <2>1. /\ UNCHANGED <<dropped, queue, stuck>>
          /\ reader[u] \in {"got", "closed"} => reader'[u] \in {"got", "closed"}
      BY <1>1, <1>3 DEF Subscribing, Subscribe, CloseSub, offerVars
    <2>2. QED
      BY <2>1 DEF Carried
  <1>4. ASSUME NEW s \in Sub, Read(s) PROVE Carried(u)'
    <2>1. CASE s = u /\ Take(s)
      BY <1>1, <2>1 DEF Take, Carried
    <2>2. CASE s = u /\ Report(s)
      BY <1>1, <2>2 DEF Report, Carried
    <2>3. CASE s # u
      <3>1. /\ dropped'[u] = dropped[u] /\ queue'[u] = queue[u] /\ reader'[u] = reader[u]
            /\ stuck' = stuck
        BY <1>1, <1>4, <2>3 DEF Read, Take, Report, offerVars
      <3>2. QED
        BY <3>1 DEF Carried
    <2>4. QED
      BY <1>4, <2>1, <2>2, <2>3 DEF Read
  <1>5. ASSUME NEW p \in Publisher, NEW kind \in Kind, Publish(p, kind)
        PROVE  Carried(u)'
    BY <1>2, <1>5 DEF Publish
  <1>6. ASSUME NEW p \in Publisher, NEW s \in Sub, Put(p, s) PROVE Carried(u)'
    <2>1. dropped' = dropped /\ reader' = reader
      BY <1>6 DEF Put
    <2>2. CASE s = u
      <3>1. event[p] \in Event
        BY <1>6, OfferedEvent DEF Put
      <3>2. queue'[u] = Append(queue[u], event[p])
        BY <1>1, <1>6, <2>2 DEF Put
      <3>3. queue[u] \in Seq(Event)
        BY <1>1
      <3>4. Append(queue[u], event[p]) # <<>>
        BY <3>1, <3>3, AppendFacts, Zenon
      <3>5. QED
        BY <3>2, <3>4 DEF Carried
    <2>3. CASE s # u
      <3>1. queue'[u] = queue[u]
        BY <1>1, <1>6, <2>3 DEF Put
      <3>2. stuck[p] # u /\ stuck' = [stuck EXCEPT ![p] = None]
        BY <1>6, <2>3, NoneAssumption DEF Put, Offers, Done
      <3>3. \A q \in Publisher : stuck[q] = u => stuck'[q] = u
        BY <1>1, <3>2
      <3>4. QED
        BY <2>1, <3>1, <3>3 DEF Carried
    <2>4. QED
      BY <2>2, <2>3
  <1>7. ASSUME NEW p \in Publisher, NEW s \in Sub, FindFull(p, s) PROVE Carried(u)'
    <2>1. UNCHANGED <<dropped, queue, reader>>
      BY <1>7 DEF FindFull
    <2>2. \A q \in Publisher : stuck[q] = u => stuck'[q] = u
      BY <1>1, <1>7, NoneAssumption DEF FindFull, Offers
    <2>3. QED
      BY <2>1, <2>2 DEF Carried
  <1>8. ASSUME NEW p \in Publisher, Evict(p) \/ Count(p) PROVE Carried(u)'
    <2>1. stuck' = stuck /\ reader' = reader /\ stuck[p] \in Sub
      BY <1>8, <1>1 DEF Evict, Count, OfferSound
    <2>2. CASE stuck[p] = u
      BY <2>1, <2>2 DEF Carried
    <2>3. CASE stuck[p] # u
      <3>1. dropped'[u] = dropped[u] /\ queue'[u] = queue[u]
        BY <1>1, <1>8, <2>1, <2>3 DEF Evict, Count
      <3>2. QED
        BY <2>1, <3>1 DEF Carried
    <2>4. QED
      BY <2>2, <2>3
  <1>9. ASSUME NEW p \in Publisher, FindEmpty(p) PROVE Carried(u)'
    BY <1>2, <1>9 DEF FindEmpty
  <1>10. QED
    BY <1>2, <1>3, <1>4, <1>5, <1>6, <1>7, <1>8, <1>9 DEF Next, Offer, vars

LEMMA DropsStep == TypeOK /\ OfferSound /\ DropsSound /\ [Next]_vars => DropsSound'
  BY DropsCountedStep, CarriedStep DEF DropsSound, DropsCounted, Carried

-----------------------------------------------------------------------------
(* The order in which readers get events.                                  *)

\* A queue q whose reader has read up to l[p] from each p, at sequence number n.
Sorted(q, l, n) ==
    \A i \in DOMAIN q :
        /\ l[q[i].by] < q[i].seq
        /\ q[i].seq <= n
        /\ \A j \in DOMAIN q : i < j /\ q[i].by = q[j].by => q[i].seq < q[j].seq

\* Number k comes after what p has in q.
After(q, p, k) == \A i \in DOMAIN q : q[i].by = p => q[i].seq < k

\* Taking the oldest event out, whether or not it was read.
LEMMA SortedTail ==
  ASSUME NEW q \in Seq(Event), q # <<>>, NEW l \in [Publisher -> 0..MaxSeq],
         NEW n \in Nat, Sorted(q, l, n)
  PROVE  /\ Sorted(Tail(q), l, n)
         /\ Sorted(Tail(q), [l EXCEPT ![Head(q).by] = Head(q).seq], n)
         /\ l[Head(q).by] < Head(q).seq /\ Head(q).seq <= n
         /\ \A p \in Publisher, k \in Nat : After(q, p, k) => After(Tail(q), p, k)
  <1> DEFINE t == Tail(q)
             m == [l EXCEPT ![Head(q).by] = Head(q).seq]
  <1>1. /\ Len(q) \in Nat \ {0} /\ DOMAIN q = 1..Len(q)
        /\ Head(q) = q[1] /\ q[1] \in Event
        /\ DOMAIN t = 1..(Len(q) - 1)
        /\ \A i \in 1..(Len(q) - 1) : t[i] = q[i + 1] /\ q[i + 1] \in Event
    BY TailFacts
  <1> HIDE DEF t
  <1>2. l[q[1].by] < q[1].seq /\ q[1].seq <= n
    BY <1>1 DEF Sorted
  <1>3. Sorted(t, l, n)
    <2> SUFFICES ASSUME NEW i \in DOMAIN t
                 PROVE  /\ l[t[i].by] < t[i].seq /\ t[i].seq <= n
                        /\ \A j \in DOMAIN t :
                              i < j /\ t[i].by = t[j].by => t[i].seq < t[j].seq
      BY DEF Sorted
    <2>1. i + 1 \in DOMAIN q /\ t[i] = q[i + 1]
      BY <1>1
    <2>2. \A j \in DOMAIN t : j + 1 \in DOMAIN q /\ t[j] = q[j + 1] /\ (i < j => i + 1 < j + 1)
      BY <1>1
    <2>3. QED
      BY <2>1, <2>2 DEF Sorted
  <1>4. Sorted(t, m, n)
    <2>1. \A i \in DOMAIN t : m[t[i].by] < t[i].seq
      <3> SUFFICES ASSUME NEW i \in DOMAIN t PROVE m[t[i].by] < t[i].seq
        OBVIOUS
      <3>1. /\ i + 1 \in DOMAIN q /\ 1 \in DOMAIN q /\ 1 < i + 1
            /\ t[i] = q[i + 1] /\ t[i] \in Event
        BY <1>1
      <3>2. t[i].by \in Publisher
        BY <3>1 DEF Event
      <3>3. CASE t[i].by = q[1].by
        <4>1. m[t[i].by] = q[1].seq
          BY <3>2, <3>3, <1>1
        <4>2. QED
          BY <4>1, <3>1, <3>3 DEF Sorted
      <3>4. CASE t[i].by # q[1].by
        <4>1. m[t[i].by] = l[t[i].by]
          BY <3>2, <3>4, <1>1
        <4>2. QED
          BY <4>1, <1>3 DEF Sorted
      <3>5. QED
        BY <3>3, <3>4
    <2>2. QED
      BY <2>1, <1>3 DEF Sorted
  <1>5. ASSUME NEW p \in Publisher, NEW k \in Nat, After(q, p, k) PROVE After(t, p, k)
    <2> SUFFICES ASSUME NEW i \in DOMAIN t, t[i].by = p PROVE t[i].seq < k
      BY DEF After
    <2>1. i + 1 \in DOMAIN q /\ t[i] = q[i + 1]
      BY <1>1
    <2>2. QED
      BY <1>5, <2>1 DEF After
  <1>6. QED
    BY <1>1, <1>2, <1>3, <1>4, <1>5 DEF t

\* Putting in an event that comes after what its publisher has there.
LEMMA SortedAppend ==
  ASSUME NEW q \in Seq(Event), NEW l \in [Publisher -> 0..MaxSeq], NEW n \in Nat,
         Sorted(q, l, n), NEW e \in Event,
         l[e.by] < e.seq, e.seq <= n, After(q, e.by, e.seq)
  PROVE  /\ Sorted(Append(q, e), l, n)
         /\ \A p \in Publisher \ {e.by}, k \in Nat :
               After(q, p, k) => After(Append(q, e), p, k)
  <1> DEFINE a == Append(q, e)
  <1>1. /\ Len(q) \in Nat /\ DOMAIN q = 1..Len(q) /\ DOMAIN a = 1..(Len(q) + 1)
        /\ \A i \in 1..Len(q) : a[i] = q[i]
        /\ a[Len(q) + 1] = e
    BY AppendFacts
  <1> HIDE DEF a
  <1>2. Sorted(a, l, n)
    <2> SUFFICES ASSUME NEW i \in DOMAIN a
                 PROVE  /\ l[a[i].by] < a[i].seq /\ a[i].seq <= n
                        /\ \A j \in DOMAIN a :
                              i < j /\ a[i].by = a[j].by => a[i].seq < a[j].seq
      BY DEF Sorted
    <2>1. CASE i = Len(q) + 1
      BY <1>1, <2>1
    <2>2. CASE i \in DOMAIN q
      <3>1. /\ a[i] = q[i] /\ l[q[i].by] < q[i].seq /\ q[i].seq <= n
            /\ \A j \in DOMAIN q : i < j /\ q[i].by = q[j].by => q[i].seq < q[j].seq
        BY <1>1, <2>2 DEF Sorted
      <3>2. q[i].by = e.by => q[i].seq < e.seq
        BY <2>2 DEF After
      <3>3. \A j \in DOMAIN a : (j \in DOMAIN q /\ a[j] = q[j]) \/ j = Len(q) + 1
        BY <1>1
      <3>4. QED
        BY <3>1, <3>2, <3>3, <1>1
    <2>3. QED
      BY <1>1, <2>1, <2>2
  <1>3. ASSUME NEW p \in Publisher \ {e.by}, NEW k \in Nat, After(q, p, k)
        PROVE  After(a, p, k)
    BY <1>1, <1>3 DEF After
  <1>4. QED
    BY <1>2, <1>3 DEF a

\* OrderSound, for one subscription.
OrderSoundAt(u) ==
    /\ Sorted(queue[u], last[u], seq)
    /\ \A p \in Publisher : last[u][p] <= seq
    /\ \A p \in Offering(u) : /\ last[u][p] < event[p].seq
                              /\ After(queue[u], p, event[p].seq)

LEMMA OrderStepAt ==
  ASSUME TypeOK, TypeOK', OfferSound, NEW u \in Sub, OrderSoundAt(u), [Next]_vars
  PROVE  OrderSoundAt(u)'
  <1>1. /\ queue \in [Sub -> Seq(Event)] /\ queue[u] \in Seq(Event)
        /\ last \in [Sub -> [Publisher -> 0..MaxSeq]]
        /\ last[u] \in [Publisher -> 0..MaxSeq]
        /\ \A p \in Publisher : last[u][p] \in Nat
        /\ event \in [Publisher -> Event \cup {None}]
        /\ targets \in [Publisher -> SUBSET Sub]
        /\ seq \in Nat /\ MaxSeq \in Nat
    BY SMTT(30), DepthAssumption DEF TypeOK
  <1>2. \A p \in Offering(u) : /\ p \in Publisher /\ event[p] \in Event
                               /\ event[p].by = p /\ event[p].seq \in Nat
                               /\ event[p].seq <= seq
    BY <1>1 DEF Offering, OfferSound, Event
  <1>3. CASE UNCHANGED <<seq, queue, event, targets, last>>
    BY <1>3 DEF OrderSoundAt, Offering
  <1>4. ASSUME NEW s \in Sub, Read(s) PROVE OrderSoundAt(u)'
    <2>1. UNCHANGED <<seq, event, targets>>
      BY <1>4 DEF Read, Take, Report, busVars, offerVars
    <2>2. CASE s = u /\ Take(u)
      <3> DEFINE h == Head(queue[u])
      <3>1. /\ queue[u] # <<>> /\ queue'[u] = Tail(queue[u])
            /\ last'[u] = [last[u] EXCEPT ![h.by] = h.seq]
        BY <1>1, <2>2 DEF Take
      <3>2. h \in Event /\ h.seq \in Nat
        BY <1>1, <3>1, TailFacts, EventFacts
      <3>3. /\ Sorted(Tail(queue[u]), last'[u], seq)
            /\ h.seq <= seq
            /\ \A p \in Publisher, k \in Nat :
                  After(queue[u], p, k) => After(Tail(queue[u]), p, k)
        <4>1. /\ queue[u] \in Seq(Event) /\ queue[u] # <<>> /\ seq \in Nat
              /\ last[u] \in [Publisher -> 0..MaxSeq]
          BY <1>1, <3>1
        <4>2. Sorted(queue[u], last[u], seq)
          BY DEF OrderSoundAt
        <4>3. QED
          BY <3>1, <4>1, <4>2, SortedTail
      <3>4. \A p \in Publisher : last'[u][p] = IF p = h.by THEN h.seq ELSE last[u][p]
        BY <1>1, <3>1
      <3>5. \A p \in Offering(u) : p = h.by => h.seq < event[p].seq
        <4>1. 1 \in DOMAIN queue[u] /\ h = queue[u][1]
          BY <1>1, <3>1, TailFacts
        <4>2. QED
          BY <4>1 DEF OrderSoundAt, After
      <3> HIDE DEF h
      <3>6. QED
        BY <2>1, <3>1, <3>3, <3>4, <3>5, <1>1, <1>2 DEF OrderSoundAt, Offering
    <2>3. CASE s # u \/ Report(s)
      <3>1. queue'[u] = queue[u] /\ last'[u] = last[u]
        BY <1>1, <1>4, <2>3 DEF Read, Take, Report
      <3>2. QED
        BY <2>1, <3>1 DEF OrderSoundAt, Offering
    <2>4. QED
      BY <1>4, <2>2, <2>3 DEF Read
  <1>5. CASE Subscribing
    BY <1>3, <1>5 DEF Subscribing, Subscribe, CloseSub, offerVars, historyVars
  <1>6. ASSUME NEW p \in Publisher, NEW kind \in Kind, Publish(p, kind)
        PROVE  OrderSoundAt(u)'
    <2>1. /\ seq' = seq + 1 /\ queue' = queue /\ last' = last
          /\ \A r \in Publisher \ {p} : targets'[r] = targets[r] /\ event'[r] = event[r]
      BY <1>1, <1>6 DEF Publish, historyVars
    <2>2. p \in Offering(u)' => event'[p].seq = seq + 1
      BY <1>1, <1>6 DEF Publish, Offering
    <2>3. \A i \in DOMAIN queue[u] : queue[u][i].seq \in Nat
      <3> TAKE i \in DOMAIN queue[u]
      <3>1. queue[u][i] \in Event
        BY <1>1
      <3>2. QED
        BY <3>1, EventFacts
    <2>4. Sorted(queue[u], last[u], seq + 1)
      BY <1>1, <2>3 DEF OrderSoundAt, Sorted
    <2>5. After(queue[u], p, seq + 1)
      BY <1>1, <2>3 DEF OrderSoundAt, Sorted, After
    <2>6. \A r \in Offering(u)' \ {p} : r \in Offering(u) /\ event'[r] = event[r]
      BY <2>1 DEF Offering
    <2>7. QED
      <3>1. Sorted(queue'[u], last'[u], seq')
        BY <2>1, <2>4
      <3>2. \A r \in Publisher : last'[u][r] <= seq'
        BY <2>1, <1>1 DEF OrderSoundAt
      <3>3. ASSUME NEW r \in Offering(u)'
            PROVE  last'[u][r] < event'[r].seq /\ After(queue'[u], r, event'[r].seq)
        <4>1. CASE r = p
          <5>1. last[u][p] <= seq /\ last[u][p] \in Nat /\ event'[p].seq = seq + 1
            BY <4>1, <3>3, <2>2, <1>1 DEF OrderSoundAt
          <5>2. last[u][p] < event'[p].seq
            BY <5>1, <1>1
          <5>3. QED
            BY <4>1, <5>1, <5>2, <2>1, <2>5
        <4>2. CASE r # p
          BY <4>2, <3>3, <2>1, <2>6 DEF OrderSoundAt
        <4>3. QED
          BY <4>1, <4>2
      <3>4. QED
        BY <3>1, <3>2, <3>3 DEF OrderSoundAt
  <1>7. ASSUME NEW p \in Publisher, NEW s \in Sub, Put(p, s) PROVE OrderSoundAt(u)'
    <2>1. /\ seq' = seq /\ last' = last
          /\ \A r \in Publisher \ {p} : targets'[r] = targets[r] /\ event'[r] = event[r]
          /\ targets'[p] = targets[p] \ {s}
          /\ event'[p] = IF targets[p] = {s} THEN None ELSE event[p]
          /\ s \in targets[p]
      BY <1>1, <1>7 DEF Put, Offers, Done, busVars, historyVars
    <2>2. CASE s = u
      <3>1. p \in Offering(u) /\ queue'[u] = Append(queue[u], event[p])
        BY <1>1, <1>7, <2>1, <2>2 DEF Put, Offering
      <3>2. /\ Sorted(queue'[u], last[u], seq)
            /\ \A r \in Publisher \ {p}, k \in Nat :
                  After(queue[u], r, k) => After(queue'[u], r, k)
        <4>1. /\ Sorted(queue[u], last[u], seq)
              /\ last[u][p] < event[p].seq /\ After(queue[u], p, event[p].seq)
          BY <3>1 DEF OrderSoundAt
        <4>2. event[p] \in Event /\ event[p].by = p /\ event[p].seq <= seq
          BY <3>1, <1>2
        <4>3. /\ queue[u] \in Seq(Event) /\ seq \in Nat
              /\ last[u] \in [Publisher -> 0..MaxSeq]
          BY <1>1
        <4>4. QED
          BY <3>1, <4>1, <4>2, <4>3, SortedAppend
      <3>3. \A r \in Offering(u)' : r \in Offering(u) \ {p} /\ event'[r] = event[r]
        BY <2>1, <2>2 DEF Offering
      <3>4. QED
        BY <2>1, <3>2, <3>3, <1>2 DEF OrderSoundAt
    <2>3. CASE s # u
      <3>1. queue'[u] = queue[u]
        BY <1>1, <1>7, <2>3 DEF Put
      <3>2. \A r \in Offering(u)' : r \in Offering(u) /\ event'[r] = event[r]
        BY <2>1, <2>3 DEF Offering
      <3>3. QED
        BY <2>1, <3>1, <3>2 DEF OrderSoundAt
    <2>4. QED
      BY <2>2, <2>3
  <1>8. ASSUME NEW p \in Publisher, Evict(p) PROVE OrderSoundAt(u)'
    <2>1. UNCHANGED <<seq, event, targets, last>> /\ stuck[p] \in Sub
      BY <1>8 DEF Evict, busVars, OfferSound, TypeOK
    <2>2. CASE stuck[p] = u
      <3>1. queue[u] # <<>> /\ queue'[u] = Tail(queue[u])
        BY <1>1, <1>8, <2>2 DEF Evict
      <3>2. /\ Sorted(Tail(queue[u]), last[u], seq)
            /\ \A r \in Publisher, k \in Nat :
                  After(queue[u], r, k) => After(Tail(queue[u]), r, k)
        BY <1>1, <3>1, SortedTail DEF OrderSoundAt
      <3>3. QED
        BY <2>1, <3>1, <3>2, <1>2 DEF OrderSoundAt, Offering
    <2>3. CASE stuck[p] # u
      <3>1. queue'[u] = queue[u]
        BY <1>1, <1>8, <2>3 DEF Evict
      <3>2. QED
        BY <2>1, <3>1 DEF OrderSoundAt, Offering
    <2>4. QED
      BY <2>2, <2>3
  <1>9. ASSUME NEW p \in Publisher,
               FindEmpty(p) \/ Count(p) \/ \E s \in Sub : FindFull(p, s)
        PROVE  OrderSoundAt(u)'
    BY <1>3, <1>9 DEF FindEmpty, Count, FindFull, busVars, historyVars
  <1>10. QED
    BY <1>3, <1>4, <1>5, <1>6, <1>7, <1>8, <1>9 DEF Next, Offer, vars

LEMMA OrderStep ==
  TypeOK /\ TypeOK' /\ OfferSound /\ OrderSound /\ [Next]_vars => OrderSound'
  <1>1. OrderSound <=> \A u \in Sub : OrderSoundAt(u)
    BY DEF OrderSound, OrderSoundAt, Sorted, After
  <1>2. OrderSound' <=> \A u \in Sub : OrderSoundAt(u)'
    BY DEF OrderSound, OrderSoundAt, Sorted, After
  <1>3. QED
    BY <1>1, <1>2, OrderStepAt

-----------------------------------------------------------------------------
LEMMA NextInv == BusInv /\ [Next]_vars => BusInv'
  BY TypingStep, OfferSoundStep, DropsStep, OrderStep DEF BusInv

\* The inductive invariant of the bus, whatever its constants.
THEOREM BusInvariant == Spec => []BusInv
  BY InitInv, NextInv, PTL DEF Spec

\* The bus's state is what its declarations say; no queue outgrows its depth
\* (eventbus.py:33, 43).
THEOREM BusTyping == Spec => []TypeOK
  <1>1. BusInv => TypeOK
    BY DEF BusInv
  <1>2. QED
    BY <1>1, BusInvariant, PTL

\* A reader that has read all there is was told of every drop, for any number
\* of publishers that overtake each other in _offer() (eventbus.py:48-74).
THEOREM NoSilentGaps == Spec => []GapsAreTold
  <1>1. BusInv => GapsAreTold
    <2> SUFFICES ASSUME BusInv, NEW s \in Sub, Quiet(s) PROVE told[s] = evicted[s]
      BY DEF GapsAreTold
    <2>1. \A p \in Publisher : stuck[p] # s
      BY NoneAssumption DEF BusInv, OfferSound, Quiet, Offering
    <2>2. Counting(s) = {}
      BY <2>1 DEF Counting
    <2>3. Cardinality(Counting(s)) = 0
      BY <2>2, FS_EmptySet
    <2>4. dropped[s] = 0
      BY <2>1 DEF BusInv, DropsSound, Quiet
    <2>5. evicted[s] = told[s] + 0 + 0 /\ told[s] \in Nat
      BY <2>3, <2>4 DEF BusInv, DropsSound, TypeOK
    <2>6. QED
      BY <2>5
  <1>2. QED
    BY <1>1, BusInvariant, PTL

\* A reader gets each publisher's events in their order, and none twice
\* (eventbus.py:48-74, 109-130).
THEOREM OrderIsKept == Spec => ReadsInOrder
  <1>1. BusInv /\ [Next]_vars =>
            [\A s \in Sub : Take(s) => Head(queue[s]).seq > last[s][Head(queue[s]).by]]_vars
    <2> SUFFICES ASSUME BusInv, NEW s \in Sub, Take(s)
                 PROVE  Head(queue[s]).seq > last[s][Head(queue[s]).by]
      OBVIOUS
    <2>1. /\ queue[s] \in Seq(Event) /\ queue[s] # <<>>
          /\ last[s] \in [Publisher -> 0..MaxSeq]
      BY DEF BusInv, TypeOK, Take
    <2>2. /\ Head(queue[s]) = queue[s][1] /\ 1 \in DOMAIN queue[s]
          /\ queue[s][1] \in Event
      BY <2>1, TailFacts
    <2>3. last[s][queue[s][1].by] < queue[s][1].seq
      BY <2>2 DEF BusInv, OrderSound
    <2>4. QED
      BY <2>1, <2>2, <2>3, DepthAssumption DEF Event
  <1>2. QED
    BY <1>1, BusInvariant, PTL DEF Spec, ReadsInOrder

-----------------------------------------------------------------------------
(* The fault poller.                                                       *)

\* The steps, told apart by what they do to the fault state and to the bus.
FirstReading ==
    /\ faulted = None /\ faulted' \in BOOLEAN
    /\ UNCHANGED <<vars, view>>
    /\ since' = [s \in Sub |-> faulted']

Edge ==
    /\ faulted # None /\ faulted' \in BOOLEAN
    /\ event[Poller] = None
    /\ UNCHANGED viewVars
    /\ \E kind \in FaultKind : Says(kind) = faulted' /\ Publish(Poller, kind)

OtherNews ==
    /\ UNCHANGED <<faulted, viewVars>>
    /\ \E p \in Publisher, kind \in Kind \ FaultKind : Publish(p, kind)

OfferGoesOn ==
    /\ UNCHANGED <<faulted, viewVars>>
    /\ \E p \in Publisher : Offer(p)

StepCases ==
    \/ UNCHANGED <<vars, faulted, viewVars>>
    \/ FirstReading
    \/ Edge
    \/ OtherNews
    \/ OfferGoesOn
    \/ \E s \in Sub : ReadEvent(s)
    \/ Subscriptions

LEMMA Kinds ==
  /\ FaultKind \subseteq Kind /\ None \notin FaultKind
  /\ {"recording.dumped", "telemetry.up", "telemetry.down", "program.state", "audit"}
        \subseteq Kind \ FaultKind
  BY PollerAssumption DEF FaultKind, PollerKind

LEMMA PollCases ==
  ASSUME PollerTypeOK, NEW now \in BOOLEAN, Poll(now)
  PROVE  StepCases
  <1>1. CASE faulted = None
    <2>1. FirstReading
      BY <1>1 DEF Poll, Fault, Nothing, FirstReading
    <2>2. QED
      BY <2>1 DEF StepCases
  <1>2. CASE faulted # None /\ now = faulted
    <2>1. UNCHANGED <<vars, faulted, viewVars>>
      BY <1>2 DEF Poll, Fault, Nothing, viewVars
    <2>2. QED
      BY <2>1 DEF StepCases
  <1>3. CASE faulted # None /\ now # faulted
    <2>1. /\ faulted' = now /\ event[Poller] = None /\ UNCHANGED viewVars
          /\ Publish(Poller, IF now THEN "fault.latched" ELSE "fault.cleared")
      BY <1>3 DEF Poll, Step, Fault, Announce, viewVars
    <2>2. CASE now = TRUE
      <3>1. Publish(Poller, "fault.latched") /\ Says("fault.latched") = now
        BY <2>1, <2>2 DEF Says
      <3>2. Edge
        BY <1>3, <2>1, <3>1 DEF Edge, FaultKind
      <3>3. QED
        BY <3>2 DEF StepCases
    <2>3. CASE now = FALSE
      <3>1. Publish(Poller, "fault.cleared") /\ Says("fault.cleared") = now
        BY <2>1, <2>3 DEF Says
      <3>2. Edge
        BY <1>3, <2>1, <3>1 DEF Edge, FaultKind
      <3>3. QED
        BY <3>2 DEF StepCases
    <2>4. QED
      BY <2>2, <2>3
  <1>4. QED
    BY <1>1, <1>2, <1>3

LEMMA EveryStep ==
  ASSUME PollerTypeOK, [PollerNext]_allVars
  PROVE  StepCases
  <1>1. CASE UNCHANGED allVars
    <2>1. UNCHANGED <<vars, faulted, viewVars>>
      BY <1>1 DEF allVars, pollerVars, edgeVars
    <2>2. QED
      BY <2>1 DEF StepCases
  <1>2. CASE PollFails \/ PollDies
    <2>1. UNCHANGED <<vars, faulted, viewVars>>
      BY <1>2 DEF PollFails, PollDies, edgeVars
    <2>2. QED
      BY <2>1 DEF StepCases
  <1>3. CASE \E named \in BOOLEAN : Dump(named)
    <2>1. /\ UNCHANGED <<faulted, viewVars>>
          /\ UNCHANGED vars \/ Publish(Poller, "recording.dumped")
      BY <1>3 DEF Dump, Nothing, Announce, edgeVars
    <2>2. QED
      BY <2>1, Kinds, PollerAssumption DEF StepCases, OtherNews
  <1>4. ASSUME NEW connected \in BOOLEAN, NEW state \in RunState \cup {None},
               Snapshot(connected, state)
        PROVE  StepCases
    <2>1. /\ UNCHANGED <<faulted, viewVars>>
          /\ \/ UNCHANGED vars
             \/ Publish(Poller, "telemetry.up") \/ Publish(Poller, "telemetry.down")
      <3>1. UNCHANGED <<faulted, viewVars>>
        BY <1>4 DEF Snapshot
      <3>2. CASE connected = TRUE
        BY <1>4, <3>1, <3>2 DEF Snapshot, Nothing, Announce
      <3>3. CASE connected = FALSE
        BY <1>4, <3>1, <3>3 DEF Snapshot, Nothing, Announce
      <3>4. QED
        BY <3>2, <3>3
    <2>2. QED
      BY <2>1, Kinds, PollerAssumption DEF StepCases, OtherNews
  <1>5. CASE ProgramState
    <2>1. /\ UNCHANGED <<faulted, viewVars>>
          /\ UNCHANGED vars \/ Publish(Poller, "program.state")
      BY <1>5 DEF ProgramState, Nothing, Announce
    <2>2. QED
      BY <2>1, Kinds, PollerAssumption DEF StepCases, OtherNews
  <1>6. ASSUME NEW p \in Publisher, Audit(p) PROVE StepCases
    BY <1>6, Kinds DEF Audit, pollerVars, edgeVars, StepCases, OtherNews
  <1>7. ASSUME NEW p \in Publisher, OfferStep(p) PROVE StepCases
    BY <1>7 DEF OfferStep, pollerVars, edgeVars, StepCases, OfferGoesOn
  <1>8. QED
    BY <1>1, <1>2, <1>3, <1>4, <1>5, <1>6, <1>7, PollCases
       DEF PollerNext, PollerRound, StepCases

-----------------------------------------------------------------------------
(* The poller and the handlers use the bus as EventBus specifies.          *)

LEMMA BusStep == StepCases => [Next]_vars
  <1>1. FirstReading => UNCHANGED vars
    BY DEF FirstReading
  <1>2. Edge => Next
    BY Kinds, PollerAssumption DEF Edge, Next
  <1>3. OtherNews \/ OfferGoesOn => Next
    BY DEF OtherNews, OfferGoesOn, Next
  <1>4. (\E s \in Sub : ReadEvent(s)) \/ Subscriptions => Next
    BY DEF ReadEvent, Subscriptions, Next
  <1>5. QED
    BY <1>1, <1>2, <1>3, <1>4 DEF StepCases

LEMMA PollerTypingStep ==
  ASSUME PollerTypeOK, TypeOK', [PollerNext]_allVars
  PROVE  PollerTypeOK'
  <1> USE DEF PollerTypeOK, FaultKind, edgeVars, viewVars
  <1>1. CASE UNCHANGED allVars
    BY <1>1 DEF allVars, pollerVars
  <1>2. ASSUME NEW now \in BOOLEAN, Poll(now) PROVE PollerTypeOK'
    BY <1>2 DEF Poll, Step, Fault
  <1>3. CASE PollFails \/ PollDies
    BY <1>3 DEF PollFails, PollDies, Step
  <1>4. CASE \E named \in BOOLEAN : Dump(named)
    BY <1>4 DEF Dump, Step
  <1>5. CASE \E connected \in BOOLEAN, state \in RunState \cup {None} :
                Snapshot(connected, state)
    BY <1>5 DEF Snapshot, Step
  <1>6. CASE ProgramState
    BY <1>6 DEF ProgramState, Step
  <1>7. CASE \E p \in Publisher : Audit(p) \/ OfferStep(p)
    BY <1>7 DEF Audit, OfferStep, pollerVars
  <1>8. ASSUME NEW s \in Sub, ReadEvent(s) PROVE PollerTypeOK'
    BY <1>8 DEF ReadEvent, pollerVars
  <1>9. CASE Subscriptions
    BY <1>9 DEF Subscriptions, pollerVars
  <1>10. QED
    BY <1>1, <1>2, <1>3, <1>4, <1>5, <1>6, <1>7, <1>8, <1>9
       DEF PollerNext, PollerRound

LEMMA PollerInitTyping == PollerInit => PollerTypeOK
  BY InitInv DEF PollerInit, PollerTypeOK, BusInv

LEMMA PollerTyping == PollerSpec => [](BusInv /\ PollerTypeOK)
  <1>1. PollerInit => BusInv /\ PollerTypeOK
    BY InitInv, PollerInitTyping DEF PollerInit
  <1>2. BusInv /\ PollerTypeOK /\ [PollerNext]_allVars => BusInv' /\ PollerTypeOK'
    <2> SUFFICES ASSUME BusInv, PollerTypeOK, [PollerNext]_allVars
                 PROVE  BusInv' /\ PollerTypeOK'
      OBVIOUS
    <2>1. BusInv'
      BY EveryStep, BusStep, NextInv
    <2>2. TypeOK'
      BY <2>1 DEF BusInv
    <2>3. QED
      BY <2>1, <2>2, PollerTypingStep
  <1>3. QED
    BY <1>1, <1>2, PTL DEF PollerSpec

\* The state of the poller and of its edge detector is what their declarations
\* say (eventbus.py:152-156; app.py:262-282).
THEOREM PollerTypesHold == PollerSpec => []PollerTypeOK
  BY PollerTyping, PTL

\* The poller, the handlers and the readers use the bus as EventBus specifies:
\* the theorems about EventBus hold of them (app.py:140-142, 262-282, 844-921).
THEOREM PollerDrivesTheBus == PollerSpec => Spec
  <1>1. PollerInit => Init
    BY DEF PollerInit
  <1>2. PollerTypeOK /\ [PollerNext]_allVars => [Next]_vars
    BY EveryStep, BusStep
  <1>3. QED
    BY <1>1, <1>2, PollerTypesHold, PTL DEF PollerSpec, Spec

-----------------------------------------------------------------------------
(* The last fault event in a queue.                                        *)

\* The last fault event in q, if there is one, says b.
LastSays(q, b) ==
    \A i \in Faults(q) : (\A j \in Faults(q) : j <= i) => Says(q[i].kind) = b

LEMMA TailFaults ==
  ASSUME NEW q \in Seq(Event), q # <<>>, NEW b, LastSays(q, b)
  PROVE  /\ LastSays(Tail(q), b)
         /\ Faults(Tail(q)) = {} => IF Head(q).kind \in FaultKind
                                    THEN Says(Head(q).kind) = b
                                    ELSE Faults(q) = {}
  <1> DEFINE t == Tail(q)
  <1>1. /\ Len(q) \in Nat \ {0} /\ DOMAIN q = 1..Len(q)
        /\ Head(q) = q[1] /\ DOMAIN t = 1..(Len(q) - 1)
        /\ \A i \in 1..(Len(q) - 1) : t[i] = q[i + 1]
    BY TailFacts
  <1> HIDE DEF t
  <1>2. \A i \in DOMAIN t : i \in Nat /\ i + 1 \in DOMAIN q /\ t[i] = q[i + 1]
    BY <1>1
  <1>3. \A i \in Faults(t) : i \in Nat /\ i + 1 \in Faults(q) /\ t[i] = q[i + 1]
    BY <1>2 DEF Faults
  <1>4. \A j \in DOMAIN q : j \in Nat /\ (j # 1 => j - 1 \in DOMAIN t /\ t[j - 1] = q[j])
    BY <1>1
  <1>5. \A j \in Faults(q) : j \in Nat /\ (j # 1 => j - 1 \in Faults(t))
    BY <1>4 DEF Faults
  <1>6. LastSays(t, b)
    <2> SUFFICES ASSUME NEW i \in Faults(t), \A j \in Faults(t) : j <= i
                 PROVE  Says(t[i].kind) = b
      BY DEF LastSays
    <2>1. i \in Nat /\ i + 1 \in Faults(q) /\ t[i] = q[i + 1]
      BY <1>3
    <2>2. ASSUME NEW j \in Faults(q) PROVE j <= i + 1
      <3>1. CASE j = 1
        BY <3>1, <2>1
      <3>2. CASE j # 1
        <4>1. j \in Nat /\ j - 1 <= i
          BY <1>5, <3>2
        <4>2. QED
          BY <4>1, <2>1
      <3>3. QED
        BY <3>1, <3>2
    <2>3. QED
      BY <2>1, <2>2 DEF LastSays
  <1>7. Faults(t) = {} => \A j \in Faults(q) : j = 1
    BY <1>5
  <1>8. Head(q).kind \in FaultKind => 1 \in Faults(q)
    BY <1>1 DEF Faults
  <1>9. Faults(t) = {} => IF Head(q).kind \in FaultKind
                          THEN Says(Head(q).kind) = b ELSE Faults(q) = {}
    <2> SUFFICES ASSUME Faults(t) = {}
                 PROVE  IF Head(q).kind \in FaultKind
                        THEN Says(Head(q).kind) = b ELSE Faults(q) = {}
      OBVIOUS
    <2>1. CASE Head(q).kind \in FaultKind
      <3>1. 1 \in Faults(q) /\ \A j \in Faults(q) : j <= 1
        BY <1>7, <1>8, <2>1
      <3>2. Says(q[1].kind) = b
        BY <3>1 DEF LastSays
      <3>3. QED
        BY <3>2, <2>1, <1>1
    <2>2. CASE Head(q).kind \notin FaultKind
      <3>1. 1 \notin Faults(q)
        BY <1>1, <2>2 DEF Faults
      <3>2. QED
        BY <3>1, <1>7, <2>2
    <2>3. QED
      BY <2>1, <2>2
  <1>10. QED
    BY <1>6, <1>9 DEF t

LEMMA FaultsOfTail ==
  ASSUME NEW q \in Seq(Event), q # <<>>, Faults(q) = {}
  PROVE  Faults(Tail(q)) = {} /\ Head(q).kind \notin FaultKind
  <1> DEFINE t == Tail(q)
  <1>1. /\ Len(q) \in Nat \ {0} /\ DOMAIN q = 1..Len(q)
        /\ Head(q) = q[1] /\ DOMAIN t = 1..(Len(q) - 1)
        /\ \A i \in 1..(Len(q) - 1) : t[i] = q[i + 1]
    BY TailFacts
  <1> HIDE DEF t
  <1>2. 1 \in DOMAIN q /\ \A i \in DOMAIN t : i + 1 \in DOMAIN q /\ t[i] = q[i + 1]
    BY <1>1
  <1>3. \A i \in DOMAIN q : q[i].kind \notin FaultKind
    BY DEF Faults
  <1>4. Faults(t) = {}
    BY <1>2, <1>3 DEF Faults
  <1>5. QED
    BY <1>1, <1>2, <1>3, <1>4 DEF t

LEMMA AppendFaults ==
  ASSUME NEW q \in Seq(Event), NEW e \in Event
  PROVE  /\ e.kind \in FaultKind => /\ Faults(Append(q, e)) # {}
                                    /\ LastSays(Append(q, e), Says(e.kind))
         /\ e.kind \notin FaultKind =>
                /\ Faults(Append(q, e)) = Faults(q)
                /\ \A b : LastSays(q, b) => LastSays(Append(q, e), b)
  <1> DEFINE a == Append(q, e)
  <1>1. /\ Len(q) \in Nat /\ DOMAIN q = 1..Len(q) /\ DOMAIN a = 1..(Len(q) + 1)
        /\ \A i \in 1..Len(q) : a[i] = q[i]
        /\ a[Len(q) + 1] = e
    BY AppendFacts
  <1> HIDE DEF a
  <1>2. Len(q) + 1 \in DOMAIN a /\ \A i \in DOMAIN a : i <= Len(q) + 1 /\ i \in Nat
    BY <1>1
  <1>3. ASSUME e.kind \in FaultKind
        PROVE  Faults(a) # {} /\ LastSays(a, Says(e.kind))
    <2>1. Len(q) + 1 \in Faults(a)
      BY <1>1, <1>2, <1>3 DEF Faults
    <2>2. ASSUME NEW i \in Faults(a), \A j \in Faults(a) : j <= i
          PROVE  a[i] = e
      <3>1. i \in DOMAIN a /\ Len(q) + 1 <= i
        BY <2>1, <2>2 DEF Faults
      <3>2. i = Len(q) + 1
        BY <3>1, <1>1
      <3>3. QED
        BY <3>2, <1>1
    <2>3. QED
      BY <2>1, <2>2 DEF LastSays
  <1>4. ASSUME e.kind \notin FaultKind
        PROVE  Faults(a) = Faults(q) /\ \A b : LastSays(q, b) => LastSays(a, b)
    <2>1. \A i \in DOMAIN a : \/ i \in DOMAIN q /\ a[i] = q[i]
                              \/ i = Len(q) + 1 /\ a[i] = e
      <3> TAKE i \in DOMAIN a
      <3>1. CASE i = Len(q) + 1
        BY <1>1, <3>1
      <3>2. CASE i # Len(q) + 1
        <4>1. i \in DOMAIN q
          BY <1>1, <3>2
        <4>2. a[i] = q[i]
          BY <1>1, <4>1
        <4>3. QED
          BY <4>1, <4>2
      <3>3. QED
        BY <3>1, <3>2
    <2>2. \A i \in DOMAIN q : i \in DOMAIN a /\ a[i] = q[i]
      BY <1>1
    <2>3. Faults(a) = Faults(q)
      BY <2>1, <2>2, <1>4 DEF Faults
    <2>4. \A i \in Faults(q) : a[i] = q[i]
      BY <2>2 DEF Faults
    <2>5. QED
      BY <2>3, <2>4 DEF LastSays
  <1>5. QED
    BY <1>3, <1>4 DEF a

-----------------------------------------------------------------------------
(* Who publishes fault events, and who is offered them.                    *)

\* PollerSound, for one subscription and one publisher.
SubSound(u) ==
    /\ u \in subs <=> reader[u] \in {"reading", "got"}
    /\ reader[u] = "unmade" => Offering(u) = {} /\ queue[u] = <<>> /\ view[u] = None
    /\ Faults(queue[u]) # {} \/ view[u] # None => faulted # None

PublisherSound(p) ==
    event[p] # None /\ event[p].kind \in FaultKind => p = Poller /\ faulted # None

LEMMA OnceKnown == StepCases /\ faulted # None => faulted' # None
  BY PollerAssumption DEF StepCases, FirstReading, Edge, OtherNews, OfferGoesOn,
                          ReadEvent, Subscriptions, pollerVars, edgeVars

LEMMA PublisherStep ==
  ASSUME TypeOK, StepCases, NEW q \in Publisher, PublisherSound(q)
  PROVE  PublisherSound(q)'
  <1>1. event \in [Publisher -> Event \cup {None}] /\ None \notin Event
    BY NoneAssumption DEF TypeOK
  <1>2. CASE event'[q] = event[q] \/ event'[q] = None
    BY <1>2, OnceKnown DEF PublisherSound
  <1>3. ASSUME NEW p \in Publisher, NEW kind, Publish(p, kind)
        PROVE  \/ event'[q] = event[q] \/ event'[q] = None
               \/ q = p /\ event'[q].kind = kind
    <2>1. /\ p # q => event'[q] = event[q]
          /\ p = q => \/ event'[q] = None
                      \/ event'[q] = [seq |-> seq + 1, kind |-> kind, by |-> p]
      BY <1>1, <1>3 DEF Publish
    <2>2. QED
      BY <2>1
  <1>4. CASE Edge
    BY <1>2, <1>3, <1>4, PollerAssumption DEF Edge, PublisherSound
  <1>5. CASE OtherNews
    BY <1>2, <1>3, <1>5 DEF OtherNews, PublisherSound
  <1>6. CASE OfferGoesOn
    <2>1. PICK p \in Publisher : Offer(p)
      BY <1>6 DEF OfferGoesOn
    <2>2. event'[q] = event[q] \/ event'[q] = None
      BY <1>1, <2>1 DEF Offer, Put, Done, FindFull, Evict, FindEmpty, Count
    <2>3. QED
      BY <1>2, <2>2
  <1>7. CASE \/ UNCHANGED <<vars, faulted, viewVars>> \/ FirstReading
             \/ \E s \in Sub : ReadEvent(s)
             \/ Subscriptions
    <2>1. event' = event
      BY <1>7 DEF vars, FirstReading, ReadEvent, Read, Take, Report,
                  Subscriptions, Subscribing, Subscribe, CloseSub, offerVars
    <2>2. QED
      BY <1>2, <2>1
  <1>8. QED
    BY <1>4, <1>5, <1>6, <1>7 DEF StepCases

LEMMA SubStep ==
  ASSUME TypeOK, OfferSound, PollerTypeOK, StepCases, NEW u \in Sub, SubSound(u),
         \A p \in Publisher : PublisherSound(p)
  PROVE  SubSound(u)'
  <1>1. /\ queue \in [Sub -> Seq(Event)] /\ queue[u] \in Seq(Event)
        /\ targets \in [Publisher -> SUBSET Sub]
        /\ reader \in [Sub -> {"unmade", "reading", "got", "closed"}]
        /\ view \in [Sub -> {"fault.latched", "fault.cleared", None}]
    BY DEF TypeOK, PollerTypeOK
  <1>2. CASE UNCHANGED <<subs, reader, queue, view, targets>>
    BY <1>2, OnceKnown DEF SubSound, Offering
  <1>3. ASSUME NEW p \in Publisher, NEW kind, Publish(p, kind), view' = view
        PROVE  SubSound(u)'
    <2>1. UNCHANGED <<subs, reader, queue>>
      BY <1>3 DEF Publish
    <2>2. ASSUME reader[u] = "unmade" PROVE Offering(u)' = {}
      <3>1. u \notin Targets(kind)
        BY <2>2 DEF SubSound, Targets
      <3>2. targets' = [targets EXCEPT ![p] = Targets(kind)]
        BY <1>3 DEF Publish
      <3>3. QED
        BY <1>1, <2>2, <3>1, <3>2 DEF SubSound, Offering
    <2>3. QED
      BY <1>3, <2>1, <2>2, OnceKnown DEF SubSound
  <1>4. CASE Edge \/ OtherNews
    BY <1>3, <1>4, PollerAssumption DEF Edge, OtherNews, viewVars
  <1>5. ASSUME NEW p \in Publisher, Offer(p), view' = view PROVE SubSound(u)'
    <2>1. ASSUME NEW s \in Sub, Put(p, s) PROVE SubSound(u)'
      <3>1. /\ UNCHANGED <<subs, reader>> /\ s \in targets[p]
            /\ targets' = [targets EXCEPT ![p] = @ \ {s}]
            /\ queue' = [queue EXCEPT ![s] = Append(@, event[p])]
        BY <2>1 DEF Put, Offers, Done, busVars
      <3>2. Offering(u)' \subseteq Offering(u)
        BY <1>1, <3>1 DEF Offering
      <3>3. CASE s # u
        <4>1. queue'[u] = queue[u]
          BY <1>1, <3>1, <3>3
        <4>2. QED
          BY <1>5, <3>1, <3>2, <4>1, OnceKnown DEF SubSound
      <3>4. CASE s = u
        <4>1. reader[u] # "unmade"
          BY <3>1, <3>4 DEF SubSound, Offering
        <4>2. queue'[u] = Append(queue[u], event[p]) /\ event[p] \in Event
          BY <1>1, <2>1, <3>1, <3>4, OfferedEvent DEF Put
        <4>3. event[p].kind \in FaultKind => faulted # None
          BY <4>2, NoneAssumption DEF PublisherSound
        <4>4. event[p].kind \notin FaultKind => Faults(queue'[u]) = Faults(queue[u])
          BY <1>1, <4>2, AppendFaults
        <4>5. QED
          BY <1>5, <3>1, <4>1, <4>3, <4>4, OnceKnown DEF SubSound
      <3>5. QED
        BY <3>3, <3>4
    <2>2. CASE Evict(p)
      <3>1. /\ UNCHANGED <<subs, reader, targets>> /\ stuck[p] \in targets[p]
            /\ queue[stuck[p]] # <<>>
            /\ queue' = [queue EXCEPT ![stuck[p]] = Tail(@)]
        BY <2>2 DEF Evict, busVars, OfferSound
      <3>2. CASE stuck[p] # u
        <4>1. queue'[u] = queue[u]
          BY <1>1, <3>1, <3>2
        <4>2. QED
          BY <1>5, <3>1, <4>1, OnceKnown DEF SubSound, Offering
      <3>3. CASE stuck[p] = u
        <4>1. reader[u] # "unmade"
          BY <3>1, <3>3 DEF SubSound, Offering
        <4>2. queue[u] # <<>> /\ queue'[u] = Tail(queue[u])
          BY <1>1, <3>1, <3>3
        <4>3. Faults(queue[u]) = {} => Faults(queue'[u]) = {}
          BY <1>1, <4>2, FaultsOfTail
        <4>4. QED
          BY <1>5, <3>1, <4>1, <4>3, OnceKnown DEF SubSound
      <3>4. QED
        BY <3>2, <3>3
    <2>3. CASE FindEmpty(p) \/ Count(p) \/ \E s \in Sub : FindFull(p, s)
      BY <1>2, <1>5, <2>3 DEF FindEmpty, Count, FindFull, busVars
    <2>4. QED
      BY <1>5, <2>1, <2>2, <2>3 DEF Offer
  <1>6. ASSUME NEW s \in Sub, ReadEvent(s) PROVE SubSound(u)'
    <2>1. CASE s = u /\ Take(u)
      <3>1. /\ subs' = subs /\ targets' = targets /\ reader[u] = "reading"
            /\ reader'[u] = "got" /\ queue[u] # <<>> /\ queue'[u] = Tail(queue[u])
        BY <1>1, <2>1 DEF Take, busVars, offerVars
      <3>2. view'[u] = IF Head(queue[u]).kind \in FaultKind
                       THEN Head(queue[u]).kind ELSE view[u]
        BY <1>1, <1>6, <2>1, <3>1 DEF ReadEvent
      <3>3. Faults(queue[u]) = {} => Faults(queue'[u]) = {} /\ view'[u] = view[u]
        BY <1>1, <3>1, <3>2, FaultsOfTail
      <3>4. QED
        BY <3>1, <3>3, OnceKnown DEF SubSound
    <2>2. CASE s = u /\ Report(u)
      <3>1. /\ UNCHANGED <<subs, targets, queue>> /\ reader[u] = "got"
            /\ reader'[u] = "reading" /\ view' = view
        BY <1>1, <1>6, <2>2 DEF Report, ReadEvent, busVars, offerVars
      <3>2. QED
        BY <3>1, OnceKnown DEF SubSound
    <2>3. CASE s # u
      <3>1. /\ subs' = subs /\ targets' = targets /\ reader'[u] = reader[u]
            /\ queue'[u] = queue[u] /\ view'[u] = view[u]
        BY <1>1, <1>6, <2>3 DEF ReadEvent, Read, Take, Report, busVars, offerVars
      <3>2. QED
        BY <3>1, OnceKnown DEF SubSound, Offering
    <2>4. QED
      BY <1>6, <2>1, <2>2, <2>3 DEF ReadEvent, Read
  <1>7. CASE Subscriptions
    <2>1. /\ UNCHANGED <<targets, queue, view>>
          /\ u \in subs' <=> reader'[u] \in {"reading", "got"}
          /\ reader'[u] = "unmade" => reader[u] = "unmade"
      BY <1>1, <1>7 DEF Subscriptions, Subscribing, Subscribe, CloseSub, offerVars,
                        SubSound
    <2>2. QED
      BY <2>1, OnceKnown DEF SubSound, Offering
  <1>8. QED
    BY <1>2, <1>4, <1>5, <1>6, <1>7 DEF StepCases, vars, viewVars, FirstReading, OfferGoesOn

-----------------------------------------------------------------------------
(* What a reader can know.                                                 *)

\* ViewSound, for one subscription.
Pending(u) == u \in targets[Poller] /\ event[Poller].kind \in FaultKind

LastWord(u) ==
    IF Pending(u) THEN Says(event[Poller].kind) = faulted
    ELSE IF Faults(queue[u]) # {} THEN LastSays(queue[u], faulted)
    ELSE Believes(u) = faulted

Watching(u) == u \in subs /\ evicted[u] = 0 /\ FaultKind \subseteq filter[u]

ViewSoundAt(u) == Watching(u) => LastWord(u)

LEMMA ViewStep ==
  ASSUME TypeOK, OfferSound, PollerTypeOK, StepCases, NEW u \in Sub, ViewSoundAt(u),
         SubSound(u), \A p \in Publisher : PublisherSound(p)
  PROVE  ViewSoundAt(u)'
  <1>1. /\ queue \in [Sub -> Seq(Event)] /\ queue[u] \in Seq(Event)
        /\ targets \in [Publisher -> SUBSET Sub]
        /\ event \in [Publisher -> Event \cup {None}]
        /\ view \in [Sub -> {"fault.latched", "fault.cleared", None}]
        /\ since \in [Sub -> BOOLEAN \cup {None}]
        /\ evicted \in [Sub -> Nat]
        /\ filter \in [Sub -> SUBSET Kind]
        /\ Poller \in Publisher
        /\ targets[Poller] # {} => event[Poller] # None
    BY PollerAssumption DEF TypeOK, PollerTypeOK, OfferSound
  \* What the last word depends on.
  <1>2. ASSUME UNCHANGED faulted, Pending(u)' <=> Pending(u),
               Pending(u) => event'[Poller] = event[Poller],
               queue'[u] = queue[u], view'[u] = view[u], since'[u] = since[u],
               Watching(u)' => Watching(u)
        PROVE  ViewSoundAt(u)'
    BY <1>2 DEF ViewSoundAt, LastWord, Believes, LastSays
  <1>3. CASE UNCHANGED <<vars, faulted, viewVars>>
    <2>1. UNCHANGED <<faulted, event, targets, queue, view, since, subs, evicted, filter>>
      BY <1>3 DEF vars, viewVars
    <2>2. QED
      BY <1>2, <2>1 DEF Pending, Watching
  <1>4. CASE FirstReading
    <2>1. /\ UNCHANGED <<event, targets, queue, view>> /\ faulted = None
          /\ since'[u] = faulted'
      BY <1>4 DEF FirstReading, vars
    <2>2. ~Pending(u)
      BY <1>1, <2>1 DEF Pending, PublisherSound
    <2>3. Faults(queue[u]) = {} /\ view[u] = None
      BY <2>1 DEF SubSound
    <2>4. ~Pending(u)' /\ Faults(queue'[u]) = {} /\ Believes(u)' = faulted'
      BY <2>1, <2>2, <2>3 DEF Pending, Believes
    <2>5. QED
      BY <2>4 DEF ViewSoundAt, LastWord
  <1>5. CASE Edge
    <2>1. PICK kind \in FaultKind : Says(kind) = faulted' /\ Publish(Poller, kind)
      BY <1>5 DEF Edge
    <2>2. /\ UNCHANGED <<subs, filter, evicted>>
          /\ targets'[Poller] = Targets(kind)
          /\ Targets(kind) # {} => event'[Poller].kind = kind
      BY <1>1, <2>1 DEF Publish, historyVars
    <2>3. ASSUME Watching(u)' PROVE Pending(u)' /\ Says(event'[Poller].kind) = faulted'
      <3>1. u \in Targets(kind)
        BY <2>2, <2>3 DEF Watching, Targets
      <3>2. event'[Poller].kind = kind
        BY <2>2, <3>1
      <3>3. QED
        BY <2>1, <2>2, <3>1, <3>2 DEF Pending
    <2>4. QED
      BY <2>3 DEF ViewSoundAt, LastWord
  <1>6. CASE OtherNews
    <2>1. PICK p \in Publisher, kind \in Kind \ FaultKind : Publish(p, kind)
      BY <1>6 DEF OtherNews
    <2>2. /\ UNCHANGED <<faulted, view, since, queue, subs, filter, evicted>>
          /\ event[p] = None
          /\ targets' = [targets EXCEPT ![p] = Targets(kind)]
          /\ event' = [event EXCEPT ![p] = IF Targets(kind) = {} THEN None
                            ELSE [seq |-> seq + 1, kind |-> kind, by |-> p]]
      BY <1>6, <2>1 DEF OtherNews, Publish, viewVars, historyVars
    <2>3. CASE p = Poller
      <3>1. ~Pending(u)
        BY <1>1, <2>2, <2>3 DEF Pending
      <3>2. u \in targets'[Poller] => event'[Poller].kind = kind
        BY <1>1, <2>2, <2>3
      <3>3. ~Pending(u)'
        BY <3>2, <2>1 DEF Pending
      <3>4. QED
        BY <1>2, <2>2, <3>1, <3>3 DEF Watching
    <2>4. CASE p # Poller
      <3>1. targets'[Poller] = targets[Poller] /\ event'[Poller] = event[Poller]
        BY <1>1, <2>2, <2>4
      <3>2. QED
        BY <1>2, <2>2, <3>1 DEF Watching, Pending
    <2>5. QED
      BY <2>3, <2>4
  <1>7. CASE OfferGoesOn
    <2>1. PICK p \in Publisher : Offer(p)
      BY <1>7 DEF OfferGoesOn
    <2>2. UNCHANGED <<faulted, view, since>>
      BY <1>7 DEF OfferGoesOn, viewVars
    <2>3. ASSUME NEW s \in Sub, Put(p, s) PROVE ViewSoundAt(u)'
      <3>1. /\ UNCHANGED <<subs, filter, evicted>> /\ s \in targets[p]
            /\ targets' = [targets EXCEPT ![p] = @ \ {s}]
            /\ event' = [event EXCEPT ![p] = IF targets[p] = {s} THEN None ELSE @]
            /\ queue' = [queue EXCEPT ![s] = Append(@, event[p])]
        BY <2>3 DEF Put, Offers, Done, busVars, historyVars
      <3>2. Watching(u)' => Watching(u)
        BY <3>1 DEF Watching
      <3>3. p # Poller \/ s # u => /\ u \in targets'[Poller] <=> u \in targets[Poller]
                                   /\ u \in targets[Poller] =>
                                        event'[Poller] = event[Poller]
        BY <1>1, <3>1
      <3>4. CASE s # u
        <4>1. queue'[u] = queue[u]
          BY <1>1, <3>1, <3>4
        <4>2. QED
          BY <1>2, <2>2, <3>2, <3>3, <3>4, <4>1 DEF Pending
      <3>5. CASE s = u
        <4> DEFINE e == event[p]
        <4>1. e \in Event /\ queue'[u] = Append(queue[u], e)
          BY <1>1, <2>3, <3>1, <3>5, OfferedEvent DEF Put
        <4>2. CASE e.kind \in FaultKind
          <5>1. p = Poller
            BY <4>1, <4>2, NoneAssumption DEF PublisherSound
          <5>2. Pending(u) /\ ~Pending(u)'
            BY <1>1, <3>1, <3>5, <4>2, <5>1 DEF Pending
          <5>3. Faults(queue'[u]) # {} /\ LastSays(queue'[u], Says(e.kind))
            BY <1>1, <4>1, <4>2, AppendFaults
          <5>4. Watching(u)' => Says(e.kind) = faulted
            BY <3>2, <5>1, <5>2 DEF ViewSoundAt, LastWord
          <5>5. Watching(u)' => LastSays(queue'[u], faulted')
            BY <2>2, <5>3, <5>4
          <5> HIDE DEF e
          <5>6. QED
            BY <5>2, <5>3, <5>5 DEF ViewSoundAt, LastWord, LastSays
        <4>3. CASE e.kind \notin FaultKind
          <5>1. Pending(u)' <=> Pending(u)
            BY <1>1, <3>1, <3>3, <3>5, <4>3 DEF Pending
          <5>2. Pending(u) => event'[Poller] = event[Poller]
            BY <3>3, <3>5, <4>3 DEF Pending
          <5>3. /\ Faults(queue'[u]) = Faults(queue[u])
                /\ LastSays(queue[u], faulted) => LastSays(queue'[u], faulted')
            BY <1>1, <2>2, <4>1, <4>3, AppendFaults
          <5>4. Believes(u)' = Believes(u)
            BY <2>2 DEF Believes
          <5>5. QED
            BY <2>2, <3>2, <5>1, <5>2, <5>3, <5>4 DEF ViewSoundAt, LastWord, LastSays
        <4>4. QED
          BY <4>2, <4>3
      <3>6. QED
        BY <3>4, <3>5
    <2>4. CASE Evict(p)
      <3>1. /\ UNCHANGED <<subs, filter, targets, event>> /\ stuck[p] \in Sub
            /\ queue' = [queue EXCEPT ![stuck[p]] = Tail(@)]
            /\ evicted' = [evicted EXCEPT ![stuck[p]] = @ + 1]
        BY <2>4 DEF Evict, busVars, OfferSound, TypeOK
      <3>2. CASE stuck[p] = u
        BY <1>1, <3>1, <3>2 DEF ViewSoundAt, Watching
      <3>3. CASE stuck[p] # u
        <4>1. queue'[u] = queue[u] /\ evicted'[u] = evicted[u]
          BY <1>1, <3>1, <3>3
        <4>2. QED
          BY <1>2, <2>2, <3>1, <4>1 DEF Watching, Pending
      <3>4. QED
        BY <3>2, <3>3
    <2>5. CASE FindEmpty(p) \/ Count(p) \/ \E s \in Sub : FindFull(p, s)
      <3>1. UNCHANGED <<subs, filter, targets, event, queue, evicted>>
        BY <2>5 DEF FindEmpty, Count, FindFull, busVars, historyVars
      <3>2. QED
        BY <1>2, <2>2, <3>1 DEF Watching, Pending
    <2>6. QED
      BY <2>1, <2>3, <2>4, <2>5 DEF Offer
  <1>8. ASSUME NEW s \in Sub, ReadEvent(s) PROVE ViewSoundAt(u)'
    <2>1. /\ UNCHANGED <<faulted, since, subs, filter, evicted, targets, event>>
      BY <1>8 DEF ReadEvent, Read, Take, Report, pollerVars, edgeVars, busVars, offerVars
    <2>2. CASE s = u /\ Take(u)
      <3> DEFINE h == Head(queue[u])
      <3>1. /\ queue[u] # <<>> /\ queue'[u] = Tail(queue[u])
            /\ view'[u] = IF h.kind \in FaultKind THEN h.kind ELSE view[u]
        BY <1>1, <1>8, <2>2 DEF ReadEvent, Take
      <3>2. CASE Pending(u)
        BY <2>1, <3>2 DEF ViewSoundAt, LastWord, Pending, Watching
      <3>3. CASE ~Pending(u) /\ Faults(queue[u]) # {}
        <4>1. ASSUME Watching(u)' PROVE LastWord(u)'
          <5>1. LastSays(queue[u], faulted)
            BY <2>1, <3>3, <4>1 DEF ViewSoundAt, LastWord, Watching
          <5>2. /\ LastSays(queue'[u], faulted)
                /\ Faults(queue'[u]) = {} =>
                      h.kind \in FaultKind /\ Says(h.kind) = faulted
            BY <1>1, <3>1, <3>3, <5>1, TailFaults
          <5>3. Faults(queue'[u]) = {} => Believes(u)' = faulted
            BY <3>1, <5>2, Kinds DEF Believes
          <5>4. QED
            BY <2>1, <3>3, <5>2, <5>3 DEF LastWord, Pending, LastSays
        <4>2. QED
          BY <4>1 DEF ViewSoundAt
      <3>4. CASE ~Pending(u) /\ Faults(queue[u]) = {}
        <4>1. Faults(queue'[u]) = {} /\ view'[u] = view[u]
          BY <1>1, <3>1, <3>4, FaultsOfTail
        <4>2. QED
          BY <2>1, <3>4, <4>1 DEF ViewSoundAt, LastWord, Pending, Watching, Believes
      <3>5. QED
        BY <3>2, <3>3, <3>4
    <2>3. CASE s # u \/ Report(s)
      <3>1. queue'[u] = queue[u] /\ view'[u] = view[u]
        BY <1>1, <1>8, <2>3 DEF ReadEvent, Read, Take, Report
      <3>2. QED
        BY <1>2, <2>1, <3>1 DEF Pending, Watching
    <2>4. QED
      BY <1>8, <2>2, <2>3 DEF ReadEvent, Read
  <1>9. CASE Subscriptions
    <2>1. /\ UNCHANGED <<faulted, view, evicted, targets, event, queue>>
          /\ since'[u] = IF u \in subs' \ subs THEN faulted ELSE since[u]
      BY <1>9 DEF Subscriptions, pollerVars, edgeVars, Subscribing, Subscribe,
                  CloseSub, offerVars, historyVars
    <2>2. CASE u \in subs' \ subs
      <3>1. reader[u] = "unmade"
        BY <1>9, <2>2 DEF Subscriptions, Subscribing, Subscribe, CloseSub
      <3>2. ~Pending(u) /\ queue[u] = <<>> /\ view[u] = None
        BY <1>1, <3>1 DEF SubSound, Pending, Offering
      <3>3. Faults(queue'[u]) = {}
        BY <2>1, <3>2 DEF Faults
      <3>4. QED
        BY <2>1, <2>2, <3>2, <3>3 DEF ViewSoundAt, LastWord, Pending, Believes
    <2>3. CASE u \in subs /\ u \in subs'
      <3>1. filter'[u] = filter[u]
        BY <1>1, <1>9, <2>3 DEF Subscriptions, Subscribing, Subscribe, CloseSub, SubSound
      <3>2. QED
        BY <1>2, <2>1, <2>3, <3>1 DEF Pending, Watching
    <2>4. CASE u \notin subs'
      BY <2>4 DEF ViewSoundAt, Watching
    <2>5. QED
      BY <2>2, <2>3, <2>4
  <1>10. QED
    BY <1>3, <1>4, <1>5, <1>6, <1>7, <1>8, <1>9 DEF StepCases

LEMMA PollerInitInv == PollerInit => PollerInv
  <1> SUFFICES ASSUME PollerInit PROVE PollerInv
    OBVIOUS
  <1>1. BusInv /\ PollerTypeOK
    BY InitInv, PollerInitTyping DEF PollerInit
  <1>2. PollerSound
    BY DEF PollerInit, Init, PollerSound, Offering, Faults
  <1>3. ViewSound
    BY DEF PollerInit, Init, ViewSound
  <1>4. QED
    BY <1>1, <1>2, <1>3 DEF PollerInv

LEMMA PollerNextInv == PollerInv /\ [PollerNext]_allVars => PollerInv'
  <1> SUFFICES ASSUME PollerInv, [PollerNext]_allVars PROVE PollerInv'
    OBVIOUS
  <1>1. BusInv /\ PollerTypeOK /\ TypeOK /\ OfferSound /\ StepCases
    BY EveryStep DEF PollerInv, BusInv
  <1>2. BusInv'
    BY <1>1, BusStep, NextInv
  <1>3. PollerTypeOK'
    BY <1>1, <1>2, PollerTypingStep DEF BusInv
  <1>4. /\ \A s \in Sub : SubSound(s)
        /\ \A p \in Publisher : PublisherSound(p)
        /\ \A s \in Sub : ViewSoundAt(s)
    BY PollerAssumption DEF PollerInv, PollerSound, SubSound, PublisherSound, ViewSound,
       ViewSoundAt, Watching, LastWord, Pending, LastSays
  <1>5. /\ \A s \in Sub : SubSound(s)'
        /\ \A p \in Publisher : PublisherSound(p)'
        /\ \A s \in Sub : ViewSoundAt(s)'
    BY <1>1, <1>4, SubStep, PublisherStep, ViewStep
  <1>6. PollerSound'
    BY <1>5 DEF PollerSound, SubSound, PublisherSound
  <1>7. subs' \subseteq Sub
    BY <1>2 DEF BusInv, TypeOK
  <1>8. ViewSound'
    BY <1>5, <1>7 DEF ViewSound, ViewSoundAt, Watching, LastWord, Pending, LastSays
  <1>9. QED
    BY <1>2, <1>3, <1>6, <1>8 DEF PollerInv

\* The inductive invariant of the poller on the bus, whatever the constants.
THEOREM PollerInvariant == PollerSpec => []PollerInv
  BY PollerInitInv, PollerNextInv, PTL DEF PollerSpec

\* A reader of fault events that has read all there is, and lost none, knows
\* what the poller knows (eventbus.py:20-24, 156-166; app.py:262-277).
THEOREM ReadersKnowTheFault == PollerSpec => []KnowsTheFault
  <1>1. GapsAreTold /\ PollerInv => KnowsTheFault
    <2> SUFFICES ASSUME GapsAreTold, PollerInv, NEW s \in Sub, Quiet(s), told[s] = 0,
                        FaultKind \subseteq filter[s]
                 PROVE  Believes(s) = faulted
      BY DEF KnowsTheFault
    <2>1. evicted[s] = 0 /\ reader[s] = "reading" /\ queue[s] = <<>>
      BY DEF GapsAreTold, Quiet
    <2>2. s \in subs
      BY <2>1 DEF PollerInv, PollerSound
    <2>3. s \notin targets[Poller]
      BY PollerAssumption DEF Quiet, Offering
    <2>4. Faults(queue[s]) = {}
      BY <2>1 DEF Faults
    <2>5. QED
      BY <2>1, <2>2, <2>3, <2>4 DEF PollerInv, ViewSound
  <1>2. QED
    BY <1>1, PollerInvariant, PollerDrivesTheBus, NoSilentGaps, PTL
=============================================================================
