--------------------------- MODULE Archives_proofs ---------------------------
(***************************************************************************)
(* Proofs about Archives: how often the log is fetched, that a flight has  *)
(* its flag, and what an archive that is handed out holds, for every       *)
(* number of threads and every choice of the limits.                       *)
(***************************************************************************)
EXTENDS Archives, FiniteSetTheorems, TLAPS

\* A request before its verdict is looked up, and one that transfers.
Waiting(h) == At(h, "compiling") \/ At(h, "rejected")
InFlight(h) == At(h, "prepare") \/ At(h, "open") \/ At(h, "receive")

\* What a request is after.
Wants ==
    \A h \in Handler : /\ Waiting(h) => job[h].wants = "log"
                       /\ InFlight(h) => job[h].wants \in Bundle

\* A flag is up exactly for the one that flies.
Flagged(flag, bundle) ==
    IF flag THEN \E h \in Handler : Flying(bundle) = {h} ELSE Flying(bundle) = {}

OneFlight == Flagged(fetching, "log") /\ Flagged(listBusy, "userdata")

\* The attempts that still count are those the fetcher remembers.
Remembered ==
    /\ attempts \subseteq starts
    /\ \A s \in starts : s < clock /\ (clock - s < Window => s \in attempts)
    /\ \A s, t \in starts : s < t => t - s >= MinInterval

\* What is noted of the past lies in it.
Noted ==
    /\ \A h \in Handler :
         /\ Waiting(h) => job[h].since < clock /\ job[h].before <= logged
         /\ InFlight(h) /\ job[h].wants = "log" => job[h].began < clock
         /\ job[h] # None => job[h].record <= logged
    /\ cache # None => cache.began < clock

\* An archive of the log that is asked for at a time holds what every request
\* that compiled before then has found in the log.
Holds(archive, began) ==
    /\ archive.what = "log"
    /\ \A g \in Handler : Waiting(g) /\ job[g].since <= began => archive.upto >= job[g].before

SlotHolds ==
    \A h \in Handler :
        At(h, "receive") =>
            /\ slot \in Archive
            /\ job[h].alone /\ job[h].wants = "log" =>
                  Holds(slot, job[h].began) /\ slot.upto >= job[h].record

CacheHolds == cache # None /\ cache.alone => Holds(cache.archive, cache.began)

ArchivesIInv == ArchivesTypeOK /\ Wants /\ OneFlight /\ Remembered /\ Noted /\ SlotHolds /\ CacheHolds

-----------------------------------------------------------------------------
(* Finite sets of clock readings.                                          *)

LEMMA ReadingsAreFinite ==
  ASSUME NEW S \in SUBSET (0..MaxTime)
  PROVE  IsFiniteSet(S) /\ Cardinality(S) \in Nat
<1>1. IsFiniteSet(0..MaxTime)
  BY ArchivesAssumption, FS_Interval DEF ArchivesAssumption
<1>2. IsFiniteSet(S)
  BY <1>1, FS_Subset
<1>3. QED
  BY <1>2, FS_CardinalityType

LEMMA FewerReadings ==
  ASSUME NEW S \in SUBSET (0..MaxTime), NEW T \in SUBSET S
  PROVE  Cardinality(T) <= Cardinality(S)
  BY ReadingsAreFinite, FS_Subset

LEMMA OneMoreReading ==
  ASSUME NEW S \in SUBSET (0..MaxTime), NEW t
  PROVE  Cardinality(S \cup {t}) <= Cardinality(S) + 1
<1>1. IsFiniteSet(S) /\ Cardinality(S) \in Nat
  BY ReadingsAreFinite
<1>2. QED
  BY <1>1, FS_AddElement

\* One flight, counted.
LEMMA FlightsAreCounted ==
  ASSUME NEW flag \in BOOLEAN, NEW bundle, Flagged(flag, bundle)
  PROVE  Cardinality(Flying(bundle)) = (IF flag THEN 1 ELSE 0)
<1>1. CASE flag
  BY <1>1, FS_Singleton DEF Flagged
<1>2. CASE ~flag
  BY <1>2, FS_EmptySet DEF Flagged
<1>3. QED
  BY <1>1, <1>2

LEMMA Start == Init => ArchivesIInv
<1> SUFFICES ASSUME Init
             PROVE  ArchivesIInv
  OBVIOUS
<1> USE ArchivesAssumption DEF ArchivesAssumption, Init
<1>1. ArchivesTypeOK
  <2>1. Cardinality(attempts) <= Budget
    BY FS_EmptySet
  <2>2. job \in [Handler -> Job \cup {None}]
    OBVIOUS
  <2>3. clock \in 0..MaxTime /\ logged \in 0..MaxRecords
    OBVIOUS
  <2>4. attempts \in SUBSET (0..MaxTime) /\ starts \in SUBSET (0..MaxTime)
    OBVIOUS
  <2>5. QED
    BY <2>1, <2>2, <2>3, <2>4, Zenon DEF ArchivesTypeOK
<1>2. \A h \in Handler : \A place : ~At(h, place)
  BY DEF At
<1>3. Wants /\ Noted /\ SlotHolds
  BY <1>2 DEF Wants, Waiting, InFlight, Noted, SlotHolds
<1>4. OneFlight
  BY <1>2 DEF OneFlight, Flagged, Flying
<1>5. Remembered /\ CacheHolds
  BY DEF Remembered, CacheHolds
<1>6. QED
  BY <1>1, <1>3, <1>4, <1>5 DEF ArchivesIInv

-----------------------------------------------------------------------------
(* Types.                                                                  *)

LEMMA NewJobsAreJobs ==
  ASSUME NEW place \in {"compiling", "prepare"}, NEW bundle \in Bundle
  PROVE  NewJob(place, bundle) \in Job
  BY ArchivesAssumption DEF ArchivesAssumption, NewJob, Job

LEMMA FetchingJobsAreJobs ==
  ASSUME NEW j \in Job, NEW time \in 0..MaxTime
  PROVE  [j EXCEPT !.at = "prepare", !.since = 0, !.began = time] \in Job
<1>1. 0 \in 0..MaxTime
  BY ArchivesAssumption DEF ArchivesAssumption
<1>2. [j EXCEPT !.at = "prepare"] \in Job
  BY DEF Job
<1>3. [j EXCEPT !.at = "prepare", !.since = 0] \in Job
  BY <1>1, <1>2 DEF Job
<1>4. QED
  BY <1>3 DEF Job

LEMMA TypesStay == ArchivesTypeOK /\ Wants /\ SlotHolds /\ [Next]_vars => ArchivesTypeOK'
<1> SUFFICES ASSUME ArchivesTypeOK, Wants, SlotHolds, [Next]_vars
             PROVE  ArchivesTypeOK'
  OBVIOUS
<1> USE ArchivesAssumption DEF ArchivesAssumption, ArchivesTypeOK, vars, controller, fetcher, lister, At
<1>0. CASE UNCHANGED vars
  BY <1>0
<1>1. CASE Tick
  BY <1>1 DEF Tick
<1>2. ASSUME NEW h \in Handler, Compile(h)
      PROVE  ArchivesTypeOK'
  <2>1. clock' \in 0..MaxTime
    BY <1>2 DEF Compile, Reading
  <2>2. job' \in [Handler -> Job \cup {None}]
    <3>1. NewJob("compiling", "log") \in Job
      BY NewJobsAreJobs DEF Bundle
    <3>2. [NewJob("compiling", "log") EXCEPT !.since = clock, !.before = logged] \in Job
      BY <3>1 DEF Job
    <3>3. QED
      BY <1>2, <3>2 DEF Compile
  <2>3. QED
    BY <1>2, <2>1, <2>2 DEF Compile
<1>3. ASSUME NEW h \in Handler, Compiled(h)
      PROVE  ArchivesTypeOK'
  <2>1. logged' \in 0..MaxRecords /\ logged' = logged + 1 /\ job[h] \in Job
    BY <1>3 DEF Compiled
  <2>2. job' \in [Handler -> Job \cup {None}]
    <3>1. CASE job' = [job EXCEPT ![h].at = "rejected", ![h].record = logged + 1]
      BY <2>1, <3>1 DEF Job
    <3>2. CASE Answer(h)
      BY <3>2 DEF Answer
    <3>3. QED
      BY <1>3, <3>1, <3>2 DEF Compiled
  <2>3. QED
    BY <1>3, <2>1, <2>2 DEF Compiled
<1>4. ASSUME NEW h \in Handler, CompileFails(h) \/ Share(h)
      PROVE  ArchivesTypeOK'
  BY <1>4 DEF CompileFails, Share, Answer
<1>5. ASSUME NEW h \in Handler, Suppress(h)
      PROVE  ArchivesTypeOK'
  <2>1. attempts' \subseteq attempts
    BY <1>5 DEF Suppress, Recent
  <2>2. Cardinality(attempts') <= Budget
    BY <2>1, FewerReadings, ReadingsAreFinite
  <2>3. QED
    BY <1>5, <2>1, <2>2 DEF Suppress, Answer
<1>6. ASSUME NEW h \in Handler, StartFetch(h)
      PROVE  ArchivesTypeOK'
  <2>1. Recent \in SUBSET (0..MaxTime) /\ attempts' = Recent \cup {clock} /\ clock' = clock + 1
    BY <1>6 DEF StartFetch, Recent, Reading
  <2>2. Cardinality(Recent) < Budget
    BY <1>6 DEF StartFetch, MayFetch
  <2>3. Cardinality(attempts') <= Budget /\ attempts' \in SUBSET (0..MaxTime)
    <3>1. Cardinality(Recent \cup {clock}) <= Cardinality(Recent) + 1
      BY <2>1, OneMoreReading
    <3>2. attempts' \in SUBSET (0..MaxTime)
      <4>1. clock \in 0..MaxTime
        OBVIOUS
      <4>2. QED
        BY <2>1, <4>1, Zenon
    <3>3. Cardinality(Recent) \in Nat /\ Cardinality(attempts') \in Nat
      BY <2>1, <3>2, ReadingsAreFinite
    <3>4. Cardinality(attempts') <= Cardinality(Recent) + 1
      BY <2>1, <3>1
    <3>5. QED
      BY <2>2, <3>2, <3>3, <3>4
  <2>4. job' \in [Handler -> Job \cup {None}]
    <3>1. job[h] \in Job
      BY <1>6 DEF StartFetch
    <3>2. [job[h] EXCEPT !.at = "prepare", !.since = 0, !.began = clock] \in Job
      BY ZenonT(40), <3>1, FetchingJobsAreJobs
    <3>3. job' = [job EXCEPT ![h] = [job[h] EXCEPT !.at = "prepare", !.since = 0, !.began = clock]]
      BY <1>6 DEF StartFetch
    <3>4. QED
      BY <3>2, <3>3
  <2>5. QED
    BY <1>6, <2>1, <2>3, <2>4 DEF StartFetch, Reading
<1>7. ASSUME NEW h \in Handler, GetBackup(h) \/ \E refresh \in BOOLEAN : List(h, refresh)
      PROVE  ArchivesTypeOK'
  <2>1. NewJob("prepare", "userdata") \in Job /\ NewJob("prepare", "datasource") \in Job
    BY NewJobsAreJobs DEF Bundle
  <2>2. CASE GetBackup(h)
    BY <2>1, <2>2 DEF GetBackup
  <2>3. CASE \E refresh \in BOOLEAN : List(h, refresh)
    BY <2>1, <2>3 DEF List
  <2>4. QED
    BY <1>7, <2>2, <2>3
<1>8. ASSUME NEW h \in Handler, Prepare(h)
      PROVE  ArchivesTypeOK'
  BY <1>8 DEF Prepare, To, Wants, InFlight, Job
<1>9. ASSUME NEW h \in Handler, Open(h)
      PROVE  ArchivesTypeOK'
  <2>1. slot' \in Archive
    BY <1>9 DEF Open, Wants, InFlight, Archive
  <2>2. job' \in [Handler -> Job \cup {None}]
    <3>1. \A g \in Handler : job[g] # None => [job[g] EXCEPT !.alone = FALSE] \in Job
      BY DEF Job
    <3>2. [job[h] EXCEPT !.at = "receive"] \in Job
      BY <1>9 DEF Open, Job
    <3>3. QED
      BY <1>9, <3>1, <3>2 DEF Open
  <2>3. QED
    BY <1>9, <2>1, <2>2 DEF Open
<1>10. ASSUME NEW h \in Handler, Receive(h)
       PROVE  ArchivesTypeOK'
  <2>1. \A time \in 0..MaxTime : Keep(h, time) \in Cached
    BY <1>10 DEF Receive, SlotHolds, Keep, Cached, Job
  <2>2. job[h].began \in 0..MaxTime
    BY <1>10 DEF Receive, Job
  <2>3. QED
    BY <1>10, <2>1, <2>2 DEF Receive, Answer
<1>11. ASSUME NEW h \in Handler, TransferFails(h)
       PROVE  ArchivesTypeOK'
  BY <1>11 DEF TransferFails, Answer
<1>12. QED
  BY <1>0, <1>1, <1>2, <1>3, <1>4, <1>5, <1>6, <1>7, <1>8, <1>9, <1>10, <1>11 DEF Next, HandlerStep

-----------------------------------------------------------------------------
(* What a request is after, and who flies.                                 *)

\* How a step of h changes the requests: h's own, and no other but for what
\* it has of the download slot.
Moved(h, j) == \A g \in Handler : job'[g] = IF g = h THEN j ELSE job[g]

LEMMA Moves ==
  ASSUME ArchivesTypeOK, NEW h \in Handler
  PROVE  /\ Compile(h) => Moved(h, [NewJob("compiling", "log") EXCEPT !.since = clock, !.before = logged])
         /\ Compiled(h) => \/ Moved(h, [job[h] EXCEPT !.at = "rejected", !.record = logged + 1])
                           \/ Moved(h, None)
         /\ CompileFails(h) \/ Share(h) \/ Suppress(h) => Moved(h, None)
         /\ StartFetch(h) => Moved(h, [job[h] EXCEPT !.at = "prepare", !.since = 0, !.began = clock])
         /\ GetBackup(h) => Moved(h, NewJob("prepare", "datasource"))
         /\ \A refresh \in BOOLEAN : List(h, refresh) => Moved(h, NewJob("prepare", "userdata"))
         /\ Prepare(h) => Moved(h, [job[h] EXCEPT !.at = "open"])
         /\ Receive(h) \/ TransferFails(h) => Moved(h, None)
<1> USE DEF ArchivesTypeOK, Moved, Answer, To
<1>1. Compile(h) => Moved(h, [NewJob("compiling", "log") EXCEPT !.since = clock, !.before = logged])
  BY DEF Compile
<1>2. Compiled(h) => \/ Moved(h, [job[h] EXCEPT !.at = "rejected", !.record = logged + 1])
                     \/ Moved(h, None)
  BY DEF Compiled
<1>3. CompileFails(h) \/ Share(h) \/ Suppress(h) => Moved(h, None)
  BY DEF CompileFails, Share, Suppress
<1>4. StartFetch(h) => Moved(h, [job[h] EXCEPT !.at = "prepare", !.since = 0, !.began = clock])
  BY DEF StartFetch
<1>5. GetBackup(h) => Moved(h, NewJob("prepare", "datasource"))
  BY DEF GetBackup
<1>6. \A refresh \in BOOLEAN : List(h, refresh) => Moved(h, NewJob("prepare", "userdata"))
  BY DEF List
<1>7. Prepare(h) => Moved(h, [job[h] EXCEPT !.at = "open"])
  BY DEF Prepare
<1>8. Receive(h) \/ TransferFails(h) => Moved(h, None)
  BY DEF Receive, TransferFails
<1>9. QED
  BY <1>1, <1>2, <1>3, <1>4, <1>5, <1>6, <1>7, <1>8

\* Whoever else there is stays where it is.
LEMMA OthersStay ==
  ASSUME ArchivesTypeOK, NEW h \in Handler, NEW g \in Handler \ {h},
         \/ Compile(h) \/ Compiled(h) \/ StartFetch(h) \/ Prepare(h)
         \/ GetBackup(h) \/ \E refresh \in BOOLEAN : List(h, refresh)
  PROVE  job'[g] = job[g]
  BY DEF ArchivesTypeOK, Compile, Compiled, StartFetch, Prepare, GetBackup, List, Answer, To

\* Open(h) moves h, and spoils the download of whoever has a port open.
LEMMA OpenMoves ==
  ASSUME ArchivesTypeOK, NEW h \in Handler, Open(h), NEW g \in Handler
  PROVE  /\ g = h => At(h, "open") /\ job'[g] = [job[h] EXCEPT !.at = "receive"]
         /\ g # h /\ At(g, "receive") => job'[g] = [job[g] EXCEPT !.alone = FALSE]
         /\ g # h /\ ~At(g, "receive") => job'[g] = job[g]
  BY DEF ArchivesTypeOK, Open, At

LEMMA JobsAreRecords ==
  ASSUME ArchivesTypeOK, NEW g \in Handler, job[g] # None
  PROVE  job[g] \in Job
  BY DEF ArchivesTypeOK

\* A request that ends is at no place.
LEMMA EndedIsNowhere ==
  ASSUME NEW h \in Handler, Moved(h, None), NEW g \in Handler
  PROVE  (Waiting(g)' \/ InFlight(g)' \/ job'[g] # None) => g # h /\ job'[g] = job[g]
  BY DEF Moved, Waiting, InFlight, At

-----------------------------------------------------------------------------
(* What a request is after, and what is noted of the past.                 *)

\* Everything about requests but the slot and the flights.
LEMMA RequestsStay ==
  ArchivesTypeOK /\ Wants /\ Noted /\ [Next]_vars => Wants' /\ Noted'
<1> SUFFICES ASSUME ArchivesTypeOK, Wants, Noted, [Next]_vars
             PROVE  Wants' /\ Noted'
  OBVIOUS
<1>t. /\ clock \in Nat /\ logged \in Nat
      /\ \A g \in Handler : job[g] # None => job[g] \in Job
  BY ArchivesAssumption, JobsAreRecords DEF ArchivesAssumption, ArchivesTypeOK
<1>c. clock' \in Nat /\ logged' \in Nat /\ clock <= clock' /\ logged <= logged'
  <2>1. clock' = clock \/ clock' = clock + 1
    BY ZenonT(40) DEF Next, HandlerStep, vars, Tick, Compile, Compiled, CompileFails, Share,
       Suppress, StartFetch, Reading, List, GetBackup, Prepare, Open, Receive, TransferFails
  <2>2. logged' = logged \/ logged' = logged + 1
    BY ZenonT(40) DEF Next, HandlerStep, vars, controller, Tick, Compile, Compiled, CompileFails, Share,
       Suppress, StartFetch, List, GetBackup, Prepare, Open, Receive, TransferFails
  <2>3. QED
    BY <1>t, <2>1, <2>2
<1> DEFINE Sound(g) ==
      /\ Waiting(g)' => job'[g].wants = "log"
      /\ InFlight(g)' => job'[g].wants \in Bundle
      /\ Waiting(g)' => job'[g].since < clock' /\ job'[g].before <= logged'
      /\ InFlight(g)' /\ job'[g].wants = "log" => job'[g].began < clock'
      /\ job'[g] # None => job'[g].record <= logged'
<1>1. ASSUME NEW g \in Handler, job'[g] = job[g]
      PROVE  Sound(g)
  BY <1>t, <1>c, <1>1 DEF Wants, Noted, Waiting, InFlight, At, Job
<1>2. ASSUME NEW h \in Handler, Moved(h, None), NEW g \in Handler
      PROVE  Sound(g)
  BY <1>1, <1>2, EndedIsNowhere
<1>3. ASSUME NEW g \in Handler
      PROVE  Sound(g)
  <2>1. ASSUME NEW h \in Handler, Compile(h)
        PROVE  Sound(g)
    <3>1. CASE g = h
      <4>1. job'[g] = [NewJob("compiling", "log") EXCEPT !.since = clock, !.before = logged]
        BY ZenonT(40), <2>1, <3>1, Moves DEF Moved
      <4>2. clock' = clock + 1
        BY <2>1 DEF Compile, Reading
      <4>3. QED
        BY <1>t, <1>c, <4>1, <4>2 DEF NewJob, Waiting, InFlight, At
    <3>2. QED
      BY <1>1, <2>1, <3>1, OthersStay
  <2>2. ASSUME NEW h \in Handler, Compiled(h)
        PROVE  Sound(g)
    <3>1. CASE g = h /\ job'[g] = [job[h] EXCEPT !.at = "rejected", !.record = logged + 1]
      <4>1. Waiting(h) /\ logged' = logged + 1 /\ clock' = clock
        BY <2>2 DEF Compiled, Waiting
      <4>2. job[h] \in Job
        BY <1>t, <4>1 DEF Waiting, At
      <4>3. QED
        BY <1>t, <3>1, <4>1, <4>2 DEF Wants, Noted, Waiting, InFlight, At, Job
    <3>2. QED
      <4>1. CASE g # h
        BY <1>1, <2>2, <4>1, OthersStay
      <4>2. CASE Moved(h, None)
        BY <1>2, <4>2
      <4>3. CASE g = h /\ Moved(h, [job[h] EXCEPT !.at = "rejected", !.record = logged + 1])
        BY <3>1, <4>3 DEF Moved
      <4>4. QED
        BY ZenonT(40), <2>2, <4>1, <4>2, <4>3, Moves
  <2>3. ASSUME NEW h \in Handler, CompileFails(h) \/ Share(h) \/ Suppress(h) \/ Receive(h) \/ TransferFails(h)
        PROVE  Sound(g)
    BY ZenonT(40), <1>2, <2>3, Moves
  <2>4. ASSUME NEW h \in Handler, StartFetch(h)
        PROVE  Sound(g)
    <3>1. CASE g = h
      <4>1. job'[g] = [job[h] EXCEPT !.at = "prepare", !.since = 0, !.began = clock]
        BY ZenonT(40), <2>4, <3>1, Moves DEF Moved
      <4>2. Waiting(h) /\ clock' = clock + 1 /\ logged' = logged
        BY <2>4 DEF StartFetch, Reading, Waiting, controller
      <4>3. job[h] \in Job
        BY <1>t, <4>2 DEF Waiting, At
      <4>4. QED
        BY <1>t, <3>1, <4>1, <4>2, <4>3 DEF Wants, Noted, Waiting, InFlight, At, Job, Bundle
    <3>2. QED
      BY <1>1, <2>4, <3>1, OthersStay
  <2>5. ASSUME NEW h \in Handler, GetBackup(h) \/ \E refresh \in BOOLEAN : List(h, refresh)
        PROVE  Sound(g)
    <3>1. CASE g = h
      <4>1. job'[g] = NewJob("prepare", "datasource") \/ job'[g] = NewJob("prepare", "userdata")
        BY ZenonT(40), <2>5, <3>1, Moves DEF Moved
      <4>2. QED
        BY <1>c, <4>1 DEF NewJob, Waiting, InFlight, At, Bundle
    <3>2. QED
      BY <1>1, <2>5, <3>1, OthersStay
  <2>6. ASSUME NEW h \in Handler, Prepare(h)
        PROVE  Sound(g)
    <3>1. CASE g = h
      <4>1. job'[g] = [job[h] EXCEPT !.at = "open"] /\ InFlight(h)
        BY ZenonT(40), <2>6, <3>1, Moves DEF Moved, Prepare, InFlight
      <4>2. job[h] \in Job
        BY <1>t, <4>1 DEF InFlight, At
      <4>3. QED
        BY <1>t, <1>c, <3>1, <4>1, <4>2 DEF Wants, Noted, Waiting, InFlight, At, Job
    <3>2. QED
      BY <1>1, <2>6, <3>1, OthersStay
  <2>7. ASSUME NEW h \in Handler, Open(h)
        PROVE  Sound(g)
    <3>1. CASE g = h
      <4>1. job'[g] = [job[h] EXCEPT !.at = "receive"] /\ InFlight(h)
        BY <2>7, <3>1, OpenMoves DEF InFlight
      <4>2. job[h] \in Job
        BY <1>t, <4>1 DEF InFlight, At
      <4>3. QED
        BY <1>t, <1>c, <3>1, <4>1, <4>2 DEF Wants, Noted, Waiting, InFlight, At, Job
    <3>2. CASE g # h /\ At(g, "receive")
      <4>1. job'[g] = [job[g] EXCEPT !.alone = FALSE] /\ InFlight(g)
        BY <2>7, <3>2, OpenMoves DEF InFlight
      <4>2. job[g] \in Job
        BY <1>t, <4>1 DEF InFlight, At
      <4>3. QED
        BY <1>t, <1>c, <4>1, <4>2 DEF Wants, Noted, Waiting, InFlight, At, Job
    <3>3. QED
      BY <1>1, <2>7, <3>1, <3>2, OpenMoves
  <2>8. CASE Tick \/ UNCHANGED vars
    BY <1>1, <2>8 DEF Tick, vars
  <2>9. QED
    BY <2>1, <2>2, <2>3, <2>4, <2>5, <2>6, <2>7, <2>8 DEF Next, HandlerStep
<1>4. cache' # None => cache'.began < clock'
  <2>1. ASSUME NEW h \in Handler, Receive(h), job[h].wants = "log"
        PROVE  cache' # None => cache'.began < clock'
    BY <1>c, <1>t, <2>1 DEF Receive, Keep, Noted, InFlight, At, Job
  <2>2. cache' = cache \/ \E h \in Handler : Receive(h) /\ job[h].wants = "log"
    BY ZenonT(40) DEF Next, HandlerStep, vars, fetcher, Tick, Compile, Compiled, CompileFails, Share, Suppress,
       StartFetch, List, GetBackup, Prepare, Open, Receive, TransferFails
  <2>3. CASE cache' = cache
    BY <1>t, <1>c, <2>3 DEF Noted, ArchivesTypeOK, Cached
  <2>4. QED
    BY <2>1, <2>2, <2>3
<1>5. QED
  BY <1>3, <1>4 DEF Wants, Noted

-----------------------------------------------------------------------------
(* The limits.                                                             *)

LEMMA RememberedStays == ArchivesTypeOK /\ Remembered /\ [Next]_vars => Remembered'
<1> SUFFICES ASSUME ArchivesTypeOK, Remembered, [Next]_vars
             PROVE  Remembered'
  OBVIOUS
<1>t. clock \in Nat /\ starts \subseteq Nat /\ MinInterval \in Nat /\ Window \in Nat /\ MinInterval <= Window
  BY ArchivesAssumption DEF ArchivesAssumption, ArchivesTypeOK
<1>1. ASSUME NEW h \in Handler, StartFetch(h)
      PROVE  Remembered'
  <2>1. /\ starts' = starts \cup {clock} /\ attempts' = Recent \cup {clock} /\ clock' = clock + 1
        /\ \A t \in Recent : clock - t >= MinInterval
    BY <1>1 DEF StartFetch, MayFetch, Reading
  <2>2. attempts' \subseteq starts'
    BY <2>1 DEF Recent, Remembered
  <2>3. \A s \in starts' : s < clock' /\ (clock' - s < Window => s \in attempts')
    BY <1>t, <2>1 DEF Recent, Remembered
  <2>4. \A s \in starts : clock - s >= MinInterval
    BY <1>t, <2>1 DEF Recent, Remembered
  <2>5. \A s, t \in starts' : s < t => t - s >= MinInterval
    BY <1>t, <2>1, <2>4 DEF Remembered
  <2>6. QED
    BY <2>2, <2>3, <2>5 DEF Remembered
<1>2. ASSUME NEW h \in Handler, Suppress(h)
      PROVE  Remembered'
  BY <1>2 DEF Suppress, Recent, Remembered
<1>3. CASE starts' = starts /\ attempts' = attempts /\ clock' \in {clock, clock + 1}
  <2>1. \A s \in starts : s \in Nat /\ s < clock'
    BY <1>t, <1>3 DEF Remembered
  <2>2. \A s \in starts : clock' - s < Window => clock - s < Window
    <3>1. clock' = clock \/ clock' = clock + 1
      BY <1>3
    <3>2. QED
      BY <1>t, <2>1, <3>1
  <2>3. QED
    BY <1>3, <2>1, <2>2 DEF Remembered
<1>4. \/ starts' = starts /\ attempts' = attempts /\ clock' \in {clock, clock + 1}
      \/ \E h \in Handler : StartFetch(h) \/ Suppress(h)
  <2>1. clock' \in {clock, clock + 1}
    BY ZenonT(40) DEF Next, HandlerStep, vars, Tick, Compile, Compiled, CompileFails, Share, Suppress, StartFetch,
       Reading, List, GetBackup, Prepare, Open, Receive, TransferFails
  <2>2. \/ starts' = starts /\ attempts' = attempts
        \/ \E h \in Handler : StartFetch(h) \/ Suppress(h)
    BY DEF Next, HandlerStep, vars, fetcher, Tick, Compile, Compiled, CompileFails, Share,
       List, GetBackup, Prepare, Open, Receive, TransferFails
  <2>3. QED
    BY <2>1, <2>2
<1>5. QED
  BY <1>1, <1>2, <1>3, <1>4

\* What the fetcher remembers is within the budget, and so is what counts.
LEMMA PacedWhileRemembered == ArchivesTypeOK /\ Remembered => FetchesArePaced
<1> SUFFICES ASSUME ArchivesTypeOK, Remembered
             PROVE  FetchesArePaced
  OBVIOUS
<1> DEFINE counting == {s \in starts : clock - s < Window}
<1>1. counting \in SUBSET attempts /\ attempts \in SUBSET (0..MaxTime)
  BY DEF Remembered, ArchivesTypeOK
<1>2. Cardinality(counting) <= Cardinality(attempts)
  BY <1>1, FewerReadings
<1>3. Cardinality(counting) \in Nat /\ Cardinality(attempts) \in Nat
  BY <1>1, ReadingsAreFinite
<1>4. Cardinality(attempts) <= Budget /\ Budget \in Nat
  BY ArchivesAssumption DEF ArchivesAssumption, ArchivesTypeOK
<1>5. Cardinality(counting) <= Budget
  BY <1>2, <1>3, <1>4
<1>6. QED
  BY <1>5 DEF FetchesArePaced, Remembered

-----------------------------------------------------------------------------
(* The flights.                                                            *)

Flies(h, bundle) == InFlight(h) /\ job[h].wants = bundle

\* Nothing changes for a bundle that nobody begins or ends to fetch.
LEMMA SameFlights ==
  ASSUME NEW bundle, NEW flag, NEW newFlag, Flagged(flag, bundle), newFlag = flag,
         \A g \in Handler : Flies(g, bundle)' <=> Flies(g, bundle)
  PROVE  IF newFlag THEN \E h \in Handler : Flying(bundle)' = {h} ELSE Flying(bundle)' = {}
<1>1. Flying(bundle)' = Flying(bundle)
  BY DEF Flying, Flies, InFlight
<1>2. QED
  BY <1>1 DEF Flagged

\* A flight begins where there was none.
LEMMA FlightBegins ==
  ASSUME NEW bundle, Flagged(FALSE, bundle), NEW h \in Handler, Flies(h, bundle)',
         \A g \in Handler \ {h} : Flies(g, bundle)' <=> Flies(g, bundle)
  PROVE  Flying(bundle)' = {h}
<1>1. Flying(bundle) = {}
  BY DEF Flagged
<1>2. QED
  BY <1>1 DEF Flying, Flies, InFlight

\* The one that flies ends its flight, and there is none.
LEMMA FlightEnds ==
  ASSUME NEW bundle, NEW flag \in BOOLEAN, Flagged(flag, bundle), NEW h \in Handler, Flies(h, bundle),
         ~Flies(h, bundle)', \A g \in Handler \ {h} : Flies(g, bundle)' <=> Flies(g, bundle)
  PROVE  Flying(bundle)' = {}
<1>1. h \in Flying(bundle)
  BY DEF Flying, Flies, InFlight
<1>2. Flying(bundle) = {h}
  BY <1>1 DEF Flagged
<1>3. QED
  BY <1>2 DEF Flying, Flies, InFlight

LEMMA FlightsStay ==
  ArchivesTypeOK /\ Wants /\ OneFlight /\ [Next]_vars => OneFlight'
<1> SUFFICES ASSUME ArchivesTypeOK, Wants, OneFlight, [Next]_vars
             PROVE  OneFlight'
  OBVIOUS
<1> DEFINE Kept(h, bundle) == Flies(h, bundle)' <=> Flies(h, bundle)
<1>t. fetching \in BOOLEAN /\ listBusy \in BOOLEAN
  BY DEF ArchivesTypeOK
<1>s. ASSUME NEW g \in Handler, NEW bundle, job'[g] = job[g]
      PROVE  Kept(g, bundle)
  BY <1>s DEF Flies, InFlight, At
<1>u. ASSUME fetching' = fetching, \A g \in Handler : Kept(g, "log")
      PROVE  Flagged(fetching, "log")'
  BY <1>u, SameFlights DEF OneFlight, Flagged
<1>v. ASSUME listBusy' = listBusy, \A g \in Handler : Kept(g, "userdata")
      PROVE  Flagged(listBusy, "userdata")'
  BY <1>v, SameFlights DEF OneFlight, Flagged
<1>1. ASSUME UNCHANGED <<fetching, listBusy>>,
             \A g \in Handler : Kept(g, "log") /\ Kept(g, "userdata")
      PROVE  OneFlight'
  BY <1>u, <1>v, <1>1 DEF OneFlight
<1>2. ASSUME NEW h \in Handler, Compile(h) \/ Compiled(h) \/ GetBackup(h)
      PROVE  OneFlight'
  <2>1. ~Flies(h, "log") /\ ~Flies(h, "userdata")
    BY <1>2 DEF Compile, Compiled, GetBackup, Flies, InFlight, At
  <2>2. ~Flies(h, "log")' /\ ~Flies(h, "userdata")'
    <3>1. CASE job'[h] = None
      BY <3>1 DEF Flies, InFlight, At
    <3>2. CASE Compile(h)
      <4>1. job'[h] = [NewJob("compiling", "log") EXCEPT !.since = clock, !.before = logged]
        BY ZenonT(40), <3>2, Moves DEF Moved
      <4>2. QED
        BY <4>1 DEF NewJob, Flies, InFlight, At
    <3>3. CASE GetBackup(h)
      <4>1. job'[h] = NewJob("prepare", "datasource")
        BY ZenonT(40), <3>3, Moves DEF Moved
      <4>2. QED
        BY <4>1 DEF NewJob, Flies
    <3>4. CASE Compiled(h) /\ job'[h] = [job[h] EXCEPT !.at = "rejected", !.record = logged + 1]
      <4>1. job[h] \in Job
        BY <3>4, JobsAreRecords DEF Compiled, At
      <4>2. QED
        BY <3>4, <4>1 DEF Job, Flies, InFlight, At
    <3>5. QED
      BY ZenonT(40), <1>2, <3>1, <3>2, <3>3, <3>4, Moves DEF Moved
  <2>3. \A g \in Handler \ {h} : Kept(g, "log") /\ Kept(g, "userdata")
    BY <1>2, <1>s, OthersStay
  <2>4. UNCHANGED <<fetching, listBusy>>
    BY <1>2 DEF Compile, Compiled, GetBackup, fetcher, lister
  <2>5. QED
    BY <1>1, <2>1, <2>2, <2>3, <2>4
<1>3. ASSUME NEW h \in Handler, CompileFails(h) \/ Share(h) \/ Suppress(h)
      PROVE  OneFlight'
  <2>1. ~Flies(h, "log") /\ ~Flies(h, "userdata")
    BY <1>3 DEF CompileFails, Share, Suppress, Flies, InFlight, At
  <2>2. Moved(h, None)
    BY ZenonT(40), <1>3, Moves
  <2>3. \A g \in Handler : Kept(g, "log") /\ Kept(g, "userdata")
    <3>1. ASSUME NEW g \in Handler \ {h}
          PROVE  job'[g] = job[g]
      BY <2>2 DEF Moved
    <3>2. ~Flies(h, "log")' /\ ~Flies(h, "userdata")'
      BY <2>2 DEF Moved, Flies, InFlight, At
    <3>3. QED
      BY <2>1, <3>1, <3>2, <1>s
  <2>4. UNCHANGED <<fetching, listBusy>>
    BY <1>3 DEF CompileFails, Share, Suppress, fetcher, lister
  <2>5. QED
    BY <1>1, <2>3, <2>4
<1>4. ASSUME NEW h \in Handler, StartFetch(h)
      PROVE  OneFlight'
  <2>1. job'[h] = [job[h] EXCEPT !.at = "prepare", !.since = 0, !.began = clock] /\ Waiting(h)
    BY ZenonT(40), <1>4, Moves DEF Moved, StartFetch, Waiting
  <2>2. job[h] \in Job /\ job[h].wants = "log"
    BY <2>1, JobsAreRecords DEF Waiting, At, Wants
  <2>3. [job[h] EXCEPT !.at = "prepare", !.since = 0, !.began = clock] \in Job
    BY ZenonT(40), <2>2, FetchingJobsAreJobs DEF ArchivesTypeOK
  <2>4. Flies(h, "log")' /\ ~Flies(h, "userdata")'
    BY <2>1, <2>2, <2>3, NoneIsNoJob DEF Flies, InFlight, At, Job
  <2>5. ~Flies(h, "userdata")
    BY <2>2 DEF Flies
  <2>6. \A g \in Handler \ {h} : Kept(g, "log") /\ Kept(g, "userdata")
    BY <1>4, <1>s, OthersStay
  <2>7. ~fetching /\ fetching' = TRUE /\ listBusy' = listBusy
    BY <1>4 DEF StartFetch, MayFetch, lister
  <2>8. Flying("log")' = {h}
    BY <2>4, <2>6, <2>7, FlightBegins DEF OneFlight, Flagged
  <2>9. Flagged(listBusy, "userdata")'
    BY <1>v, <2>4, <2>5, <2>6, <2>7
  <2>10. QED
    BY <2>7, <2>8, <2>9 DEF OneFlight, Flagged
<1>5. ASSUME NEW h \in Handler, NEW refresh \in BOOLEAN, List(h, refresh)
      PROVE  OneFlight'
  <2>1. job'[h] = NewJob("prepare", "userdata") /\ job[h] = None
    BY ZenonT(40), <1>5, Moves DEF Moved, List
  <2>2. NewJob("prepare", "userdata") # None
    BY NewJobsAreJobs, NoneIsNoJob DEF Bundle
  <2>3. Flies(h, "userdata")' /\ ~Flies(h, "log")' /\ ~Flies(h, "log")
    BY <2>1, <2>2 DEF Flies, InFlight, At, NewJob
  <2>4. \A g \in Handler \ {h} : Kept(g, "log") /\ Kept(g, "userdata")
    BY <1>5, <1>s, OthersStay
  <2>5. ~listBusy /\ listBusy' = TRUE /\ fetching' = fetching
    BY <1>5 DEF List, fetcher
  <2>6. Flying("userdata")' = {h}
    BY <2>3, <2>4, <2>5, FlightBegins DEF OneFlight, Flagged
  <2>7. Flagged(fetching, "log")'
    BY <1>u, <2>3, <2>4, <2>5
  <2>8. QED
    BY <2>5, <2>6, <2>7 DEF OneFlight, Flagged
<1>6. ASSUME NEW h \in Handler, Prepare(h) \/ Open(h)
      PROVE  OneFlight'
  <2>1. ASSUME NEW g \in Handler, NEW bundle
        PROVE  Kept(g, bundle)
    <3>1. CASE job'[g] = job[g]
      BY <1>s, <3>1
    <3>2. CASE job'[g] # job[g]
      <4>1. /\ InFlight(g)
            /\ \/ job'[g] = [job[g] EXCEPT !.at = "open"] \/ job'[g] = [job[g] EXCEPT !.at = "receive"]
               \/ job'[g] = [job[g] EXCEPT !.alone = FALSE]
        <5>1. CASE Prepare(h)
          <6>1. g = h /\ At(h, "prepare")
            BY <3>2, <5>1, OthersStay DEF Prepare
          <6>2. QED
            BY ZenonT(40), <5>1, <6>1, Moves DEF Moved, InFlight
        <5>2. CASE Open(h)
          BY <3>2, <5>2, OpenMoves DEF InFlight
        <5>3. QED
          BY <1>6, <5>1, <5>2
      <4>2. job[g] \in Job
        BY <4>1, JobsAreRecords DEF InFlight, At
      <4>3. job'[g] \in Job /\ job'[g].wants = job[g].wants /\ job'[g].at \in {"prepare", "open", "receive"}
        BY ZenonT(40), <4>1, <4>2 DEF Job, InFlight, At
      <4>4. QED
        BY <4>1, <4>2, <4>3, NoneIsNoJob DEF Flies, InFlight, At
    <3>3. QED
      BY <3>1, <3>2
  <2>2. UNCHANGED <<fetching, listBusy>>
    BY <1>6 DEF Prepare, Open, fetcher, lister
  <2>3. QED
    BY <1>1, <2>1, <2>2
<1>7. ASSUME NEW h \in Handler, Receive(h) \/ TransferFails(h)
      PROVE  OneFlight'
  <2>1. Moved(h, None) /\ Flies(h, job[h].wants)
    BY ZenonT(40), <1>7, Moves DEF Receive, TransferFails, Flies, InFlight
  <2>2. \A bundle : ~Flies(h, bundle)' /\ \A g \in Handler \ {h} : Kept(g, bundle)
    BY <2>1, <1>s DEF Moved, Flies, InFlight, At
  <2>3. Flagged(fetching, "log")'
    <3>1. CASE job[h].wants = "log"
      <4>1. fetching' = FALSE
        BY <1>7, <3>1, <1>t DEF Receive, TransferFails
      <4>2. Flying("log")' = {}
        BY <1>t, <2>1, <2>2, <3>1, FlightEnds DEF OneFlight
      <4>3. QED
        BY <4>1, <4>2 DEF Flagged
    <3>2. CASE job[h].wants # "log"
      <4>1. fetching' = fetching
        BY <1>7, <3>2, <1>t DEF Receive, TransferFails
      <4>2. ~Flies(h, "log")
        BY <3>2 DEF Flies
      <4>3. QED
        BY <1>u, <2>2, <4>1, <4>2
    <3>3. QED
      BY <3>1, <3>2
  <2>4. Flagged(listBusy, "userdata")'
    <3>1. CASE job[h].wants = "userdata"
      <4>1. listBusy' = FALSE
        BY <1>7, <3>1, <1>t DEF Receive, TransferFails
      <4>2. Flying("userdata")' = {}
        BY <1>t, <2>1, <2>2, <3>1, FlightEnds DEF OneFlight
      <4>3. QED
        BY <4>1, <4>2 DEF Flagged
    <3>2. CASE job[h].wants # "userdata"
      <4>1. listBusy' = listBusy
        BY <1>7, <3>2, <1>t DEF Receive, TransferFails, lister
      <4>2. ~Flies(h, "userdata")
        BY <3>2 DEF Flies
      <4>3. QED
        BY <1>v, <2>2, <4>1, <4>2
    <3>3. QED
      BY <3>1, <3>2
  <2>5. QED
    BY <2>3, <2>4 DEF OneFlight
<1>8. CASE Tick \/ UNCHANGED vars
  BY <1>1, <1>8, <1>s DEF Tick, vars, fetcher, lister
<1>9. QED
  BY <1>2, <1>3, <1>4, <1>5, <1>6, <1>7, <1>8 DEF Next, HandlerStep

-----------------------------------------------------------------------------
(* What an archive holds.                                                  *)

\* A request that was waiting waits on, or has just come with a later reading.
LEMMA WaitersAreOld ==
  ASSUME ArchivesTypeOK, Noted, [Next]_vars, NEW g \in Handler, Waiting(g)'
  PROVE  \/ Waiting(g) /\ job'[g].since = job[g].since /\ job'[g].before = job[g].before
         \/ job'[g].since = clock
<1>1. CASE job'[g] = job[g]
  BY <1>1 DEF Waiting, At
<1>2. ASSUME NEW h \in Handler, Compile(h)
      PROVE  job'[g] = job[g] \/ job'[g].since = clock
  <2>1. CASE g = h
    <3>1. job'[g] = [NewJob("compiling", "log") EXCEPT !.since = clock, !.before = logged]
      BY ZenonT(40), <1>2, <2>1, Moves DEF Moved
    <3>2. QED
      BY <3>1 DEF NewJob
  <2>2. CASE g # h
    BY <1>2, <2>2, OthersStay
  <2>3. QED
    BY <2>1, <2>2
<1>3. ASSUME NEW h \in Handler, Compiled(h), job'[g] # job[g]
      PROVE  Waiting(g) /\ job'[g].since = job[g].since /\ job'[g].before = job[g].before
  <2>1. g = h /\ Waiting(h) /\ job[h] \in Job
    BY <1>3, OthersStay, JobsAreRecords DEF Compiled, Waiting, At
  <2>2. job'[h] = [job[h] EXCEPT !.at = "rejected", !.record = logged + 1]
    BY ZenonT(40), <1>3, <2>1, Moves DEF Moved, Waiting, At
  <2>3. QED
    BY <2>1, <2>2 DEF Job
<1>4. ASSUME NEW h \in Handler, Moved(h, None)
      PROVE  job'[g] = job[g]
  BY <1>4, EndedIsNowhere
<1>5. ASSUME NEW h \in Handler, \/ StartFetch(h) \/ Prepare(h) \/ Open(h) \/ GetBackup(h)
                                \/ \E refresh \in BOOLEAN : List(h, refresh)
      PROVE  job'[g] = job[g]
  <2>1. ASSUME g = h, ~Open(h)
        PROVE  FALSE
    <3>1. CASE StartFetch(h)
      <4>1. job[h] \in Job
        BY <3>1, JobsAreRecords DEF StartFetch, At
      <4>2. QED
        BY ZenonT(40), <2>1, <3>1, <4>1, Moves DEF Moved, Waiting, At, Job
    <3>2. CASE Prepare(h)
      <4>1. job[h] \in Job
        BY <3>2, JobsAreRecords DEF Prepare, At
      <4>2. QED
        BY ZenonT(40), <2>1, <3>2, <4>1, Moves DEF Moved, Waiting, At, Job
    <3>3. CASE GetBackup(h) \/ \E refresh \in BOOLEAN : List(h, refresh)
      <4>1. job'[h] = NewJob("prepare", "datasource") \/ job'[h] = NewJob("prepare", "userdata")
        BY ZenonT(40), <3>3, Moves DEF Moved
      <4>2. QED
        BY <2>1, <4>1 DEF Waiting, At, NewJob
    <3>4. QED
      BY <1>5, <2>1, <3>1, <3>2, <3>3
  <2>2. CASE Open(h)
    <3>1. CASE g = h \/ At(g, "receive")
      <4>1. job[g] \in Job
        BY <2>2, <3>1, JobsAreRecords DEF Open, At
      <4>2. QED
        <5>1. \/ job'[g] = [job[g] EXCEPT !.at = "receive"]
              \/ job'[g] = [job[g] EXCEPT !.alone = FALSE] /\ job[g].at = "receive"
          BY <2>2, <3>1, OpenMoves DEF At
        <5>2. QED
          BY <4>1, <5>1 DEF Waiting, At, Job
    <3>2. QED
      BY <2>2, <3>1, OpenMoves
  <2>3. QED
    BY <1>5, <2>1, <2>2, OthersStay
<1>6. CASE Tick \/ UNCHANGED vars
  BY <1>1, <1>6 DEF Tick, vars
<1>7. ASSUME NEW h \in Handler, CompileFails(h) \/ Share(h) \/ Suppress(h) \/ Receive(h) \/ TransferFails(h)
      PROVE  job'[g] = job[g]
  BY ZenonT(40), <1>4, <1>7, Moves
<1>8. QED
  BY <1>1, <1>2, <1>3, <1>5, <1>6, <1>7 DEF Next, HandlerStep

\* What an archive holds, it holds from then on: whoever comes later compiles later.
LEMMA HoldsStill ==
  ASSUME ArchivesTypeOK, Noted, [Next]_vars, NEW archive, NEW began \in Nat, began < clock,
         Holds(archive, began)
  PROVE  Holds(archive, began)'
<1> SUFFICES ASSUME NEW g \in Handler, Waiting(g)', job'[g].since <= began
             PROVE  archive.upto >= job'[g].before
  BY DEF Holds
<1>1. clock \in Nat
  BY ArchivesAssumption DEF ArchivesAssumption, ArchivesTypeOK
<1>2. Waiting(g) /\ job'[g].since = job[g].since /\ job'[g].before = job[g].before
  BY <1>1, WaitersAreOld
<1>3. QED
  BY <1>2 DEF Holds

\* Only Open fills the download slot, and only Receive the cache.
LEMMA SlotStays ==
  ASSUME [Next]_vars
  PROVE  slot' = slot \/ \E h \in Handler : Open(h)
  BY ZenonT(40) DEF Next, HandlerStep, vars, controller, Tick, Compile, Compiled, CompileFails, Share,
     Suppress, StartFetch, List, GetBackup, Prepare, Receive, TransferFails

LEMMA CacheStays ==
  ASSUME [Next]_vars
  PROVE  cache' = cache \/ \E h \in Handler : Receive(h) /\ job[h].wants = "log"
  BY ZenonT(40) DEF Next, HandlerStep, vars, fetcher, Tick, Compile, Compiled, CompileFails, Share,
     Suppress, StartFetch, List, GetBackup, Prepare, Open, Receive, TransferFails

\* Who has a port open had it before, unless it is who opens one now.
LEMMA ReceiversWait ==
  ASSUME ArchivesTypeOK, [Next]_vars, NEW g \in Handler, At(g, "receive")',
         ~\E h \in Handler : Open(h)
  PROVE  job'[g] = job[g]
<1>1. ASSUME NEW h \in Handler, Moved(h, None)
      PROVE  job'[g] = job[g]
  BY <1>1 DEF Moved, At
<1>2. ASSUME NEW h \in Handler, job'[g] # job[g],
             \/ Compile(h) \/ Compiled(h) \/ StartFetch(h) \/ Prepare(h)
             \/ GetBackup(h) \/ \E refresh \in BOOLEAN : List(h, refresh)
      PROVE  FALSE
  <2>1. g = h
    BY <1>2, OthersStay
  <2>2. CASE Compile(h)
    <3>1. job'[g] = [NewJob("compiling", "log") EXCEPT !.since = clock, !.before = logged]
      BY ZenonT(40), <2>1, <2>2, Moves DEF Moved
    <3>2. QED
      BY <3>1 DEF NewJob, At
  <2>3. CASE Compiled(h) \/ StartFetch(h) \/ Prepare(h)
    <3>1. job[g] \in Job
      BY <2>1, <2>3, JobsAreRecords DEF Compiled, StartFetch, Prepare, At
    <3>2. \/ job'[g] = [job[g] EXCEPT !.at = "rejected", !.record = logged + 1]
          \/ job'[g] = None
          \/ job'[g] = [job[g] EXCEPT !.at = "prepare", !.since = 0, !.began = clock]
          \/ job'[g] = [job[g] EXCEPT !.at = "open"]
      BY ZenonT(40), <2>1, <2>3, Moves DEF Moved
    <3>3. QED
      BY <3>1, <3>2 DEF Job, At
  <2>4. CASE GetBackup(h) \/ \E refresh \in BOOLEAN : List(h, refresh)
    <3>1. job'[g] = NewJob("prepare", "datasource") \/ job'[g] = NewJob("prepare", "userdata")
      BY ZenonT(40), <2>1, <2>4, Moves DEF Moved
    <3>2. QED
      BY <3>1 DEF NewJob, At
  <2>5. QED
    BY <1>2, <2>2, <2>3, <2>4
<1>3. ASSUME NEW h \in Handler, CompileFails(h) \/ Share(h) \/ Suppress(h) \/ Receive(h) \/ TransferFails(h)
      PROVE  job'[g] = job[g]
  BY ZenonT(40), <1>1, <1>3, Moves
<1>4. CASE Tick \/ UNCHANGED vars
  BY <1>4 DEF Tick, vars
<1>5. QED
  BY <1>2, <1>3, <1>4 DEF Next, HandlerStep

\* The port that opens delivers all that is on record, and spoils the download
\* of whoever had one open.
LEMMA OpenedSlotHolds ==
  ASSUME ArchivesTypeOK, Wants, Noted, SlotHolds, [Next]_vars, NEW h \in Handler, Open(h)
  PROVE  SlotHolds'
<1>1. /\ slot' = [what |-> job[h].wants, upto |-> IF job[h].wants = "log" THEN logged ELSE 0]
      /\ At(h, "open") /\ job[h] \in Job /\ job[h].wants \in Bundle
  BY JobsAreRecords DEF Open, At, Wants, InFlight
<1>2. logged \in 0..MaxRecords /\ logged \in Nat /\ 0 \in 0..MaxRecords
  BY ArchivesAssumption DEF ArchivesAssumption, ArchivesTypeOK
<1>3. slot' \in Archive
  BY <1>1, <1>2 DEF Archive
<1>4. ASSUME NEW g \in Handler, Waiting(g)'
      PROVE  Waiting(g) /\ job'[g].before = job[g].before
  <2>1. CASE job'[g] = job[g]
    BY <1>4, <2>1 DEF Waiting, At
  <2>2. CASE g = h
    <3>1. job'[g] = [job[h] EXCEPT !.at = "receive"]
      BY <2>2, OpenMoves
    <3>2. QED
      BY <1>1, <1>4, <3>1 DEF Waiting, At, Job
  <2>3. CASE g # h /\ At(g, "receive")
    <3>1. job[g] \in Job /\ job[g].at = "receive" /\ job'[g] = [job[g] EXCEPT !.alone = FALSE]
      BY <2>3, OpenMoves, JobsAreRecords DEF At
    <3>2. QED
      BY <1>4, <3>1 DEF Waiting, At, Job
  <2>4. QED
    BY <2>1, <2>2, <2>3, OpenMoves
<1>5. ASSUME job[h].wants = "log", NEW began
      PROVE  Holds(slot, began)'
  <2>1. slot'.what = "log" /\ slot'.upto = logged
    BY <1>1, <1>5
  <2>2. \A g \in Handler : Waiting(g)' => logged >= job'[g].before
    <3>1. ASSUME NEW g \in Handler, Waiting(g)'
          PROVE  logged >= job'[g].before
      <4>1. job[g].before <= logged /\ job[g] \in Job
        BY <1>4, <3>1, JobsAreRecords DEF Noted, Waiting, At
      <4>2. job[g].before \in Nat
        BY <4>1, ArchivesAssumption DEF Job, ArchivesAssumption
      <4>3. QED
        BY <1>2, <1>4, <3>1, <4>1, <4>2
    <3>2. QED
      BY <3>1
  <2>3. QED
    BY <2>1, <2>2 DEF Holds
<1>6. ASSUME NEW g \in Handler, At(g, "receive")', job'[g].alone, job'[g].wants = "log"
      PROVE  Holds(slot, job[g].began)' /\ slot'.upto >= job'[g].record
  <2>1. g = h
    <3>1. CASE g # h /\ At(g, "receive")
      <4>1. job[g] \in Job
        BY <3>1, JobsAreRecords DEF At
      <4>2. QED
        BY ZenonT(40), <1>6, <3>1, <4>1, OpenMoves DEF Job
    <3>2. CASE g # h /\ ~At(g, "receive")
      BY <1>6, <3>2, OpenMoves DEF At
    <3>3. QED
      BY <3>1, <3>2
  <2>2. job'[h] = [job[h] EXCEPT !.at = "receive"]
    BY OpenMoves
  <2>3. job[h].wants = "log" /\ job'[h].record = job[h].record
    BY <1>1, <1>6, <2>1, <2>2 DEF Job
  <2>4. job[h].record <= logged /\ job[h].record \in Nat
    <3>1. job[h].record <= logged
      BY <1>1 DEF Noted, At
    <3>2. QED
      BY <1>1, <3>1, ArchivesAssumption DEF Job, ArchivesAssumption
  <2>5. slot'.upto = logged
    BY <1>1, <2>3
  <2>6. slot'.upto >= job'[g].record
    BY <1>2, <2>1, <2>3, <2>4, <2>5
  <2>7. Holds(slot, job[g].began)'
    BY <1>5, <2>3
  <2>8. QED
    BY <2>6, <2>7
<1>7. QED
  BY <1>3, <1>6 DEF SlotHolds

LEMMA SlotHoldsStays ==
  ArchivesTypeOK /\ Wants /\ Noted /\ SlotHolds /\ [Next]_vars => SlotHolds'
<1> SUFFICES ASSUME ArchivesTypeOK, Wants, Noted, SlotHolds, [Next]_vars
             PROVE  SlotHolds'
  OBVIOUS
<1>1. CASE \E h \in Handler : Open(h)
  BY <1>1, OpenedSlotHolds
<1>2. CASE ~\E h \in Handler : Open(h)
  <2>1. slot' = slot
    BY <1>2, SlotStays
  <2>2. ASSUME NEW g \in Handler, At(g, "receive")'
        PROVE  /\ slot' \in Archive
               /\ job'[g].alone /\ job'[g].wants = "log" =>
                     Holds(slot, job[g].began)' /\ slot'.upto >= job'[g].record
    <3>1. job'[g] = job[g] /\ At(g, "receive")
      BY <1>2, <2>2, ReceiversWait DEF At
    <3>2. slot' \in Archive
      BY <2>1, <3>1 DEF SlotHolds
    <3>3. ASSUME job[g].alone, job[g].wants = "log"
          PROVE  Holds(slot, job[g].began)' /\ slot.upto >= job[g].record
      <4>1. Holds(slot, job[g].began) /\ slot.upto >= job[g].record
        BY <3>1, <3>3 DEF SlotHolds
      <4>2. job[g].began < clock /\ job[g] \in Job
        BY <3>1, <3>3, JobsAreRecords DEF Noted, InFlight, At
      <4>3. job[g].began \in Nat
        BY <4>2, ArchivesAssumption DEF Job, ArchivesAssumption
      <4>4. Holds(slot, job[g].began)'
        <5>1. \A archive, began : Holds(archive, began) /\ began \in Nat /\ began < clock =>
                  /\ archive.what = "log"
                  /\ \A w \in Handler : Waiting(w)' /\ job'[w].since <= began
                                           => archive.upto >= job'[w].before
          BY HoldsStill DEF Holds
        <5>2. QED
          BY <2>1, <3>1, <4>1, <4>2, <4>3, <5>1 DEF Holds
      <4>5. QED
        BY <4>1, <4>4
    <3>4. QED
      BY <2>1, <3>1, <3>2, <3>3
  <2>3. QED
    BY <2>2 DEF SlotHolds
<1>3. QED
  BY <1>1, <1>2

\* What a fetch delivers, it keeps with the time it began.
LEMMA CacheHoldsStays ==
  ArchivesTypeOK /\ Noted /\ SlotHolds /\ CacheHolds /\ [Next]_vars => CacheHolds'
<1> SUFFICES ASSUME ArchivesTypeOK, Noted, SlotHolds, CacheHolds, [Next]_vars,
                    cache' # None, cache'.alone
             PROVE  Holds(cache.archive, cache.began)'
  BY DEF CacheHolds
<1> DEFINE Lasting(archive, began) ==
      /\ archive.what = "log"
      /\ \A g \in Handler : Waiting(g)' /\ job'[g].since <= began => archive.upto >= job'[g].before
<1>1. ASSUME NEW archive, NEW began \in Nat, began < clock, Holds(archive, began)
      PROVE  Lasting(archive, began)
  BY <1>1, HoldsStill DEF Holds
<1>2. CASE cache' = cache
  <2>1. Holds(cache.archive, cache.began) /\ cache.began < clock
    BY <1>2 DEF CacheHolds, Noted
  <2>2. cache.began \in Nat
    BY <1>2, ArchivesAssumption DEF ArchivesTypeOK, Cached, ArchivesAssumption
  <2>3. Lasting(cache.archive, cache.began)
    BY <1>1, <2>1, <2>2
  <2>4. QED
    BY <1>2, <2>3 DEF Holds
<1>3. ASSUME NEW h \in Handler, Receive(h), job[h].wants = "log"
      PROVE  Holds(cache.archive, cache.began)'
  <2>1. cache' = [archive |-> slot, began |-> job[h].began, alone |-> job[h].alone] /\ At(h, "receive")
    BY <1>3 DEF Receive, Keep
  <2>2. Holds(slot, job[h].began)
    BY <1>3, <2>1 DEF SlotHolds
  <2>3. job[h].began < clock /\ job[h] \in Job
    BY <1>3, <2>1, JobsAreRecords DEF Noted, InFlight, At
  <2>4. job[h].began \in Nat
    BY <2>3, ArchivesAssumption DEF Job, ArchivesAssumption
  <2>5. Lasting(slot, job[h].began)
    BY <1>1, <2>2, <2>3, <2>4
  <2>6. QED
    BY <2>1, <2>5 DEF Holds
<1>4. QED
  BY <1>2, <1>3, CacheStays

-----------------------------------------------------------------------------
(* The theorems.                                                           *)

\* What holds of the archives and of who asks for them in every state that is
\* reached: the flights have their flags, the fetcher remembers the attempts
\* that count, and what lies ready holds what those who may be handed it need.
THEOREM ArchivesInvariant == Spec => []ArchivesIInv
<1>1. Init => ArchivesIInv
  BY Start
<1>2. ArchivesIInv /\ [Next]_vars => ArchivesIInv'
  <2> SUFFICES ASSUME ArchivesIInv, [Next]_vars
               PROVE  ArchivesIInv'
    OBVIOUS
  <2>1. ArchivesTypeOK /\ Wants /\ OneFlight /\ Remembered /\ Noted /\ SlotHolds /\ CacheHolds
    BY DEF ArchivesIInv
  <2>2. ArchivesTypeOK'
    BY <2>1, TypesStay
  <2>3. Wants' /\ Noted'
    BY <2>1, RequestsStay
  <2>4. OneFlight'
    BY <2>1, FlightsStay
  <2>5. Remembered'
    BY <2>1, RememberedStays
  <2>6. SlotHolds' /\ CacheHolds'
    BY <2>1, SlotHoldsStays, CacheHoldsStays
  <2>7. QED
    BY <2>2, <2>3, <2>4, <2>5, <2>6 DEF ArchivesIInv
<1>3. QED
  BY <1>1, <1>2, PTL DEF Spec

\* One flight at a time for the log and for the listing, and the flag is up
\* exactly while somebody is there to take it down, whatever fails
\* (lua_verdict.py _inflight, files_listing.py _inflight).
THEOREM FlightsHaveFlags == Spec => []ArchivesInv
<1>1. ArchivesIInv => ArchivesInv
  <2> SUFFICES ASSUME ArchivesTypeOK, OneFlight
               PROVE  SingleFlight
    BY DEF ArchivesIInv, ArchivesInv
  <2>1. fetching \in BOOLEAN /\ listBusy \in BOOLEAN
    BY DEF ArchivesTypeOK
  <2>2. Cardinality(Flying("log")) = (IF fetching THEN 1 ELSE 0)
    BY <2>1, FlightsAreCounted DEF OneFlight
  <2>3. Cardinality(Flying("userdata")) = (IF listBusy THEN 1 ELSE 0)
    BY <2>1, FlightsAreCounted DEF OneFlight
  <2>4. QED
    BY <2>2, <2>3 DEF SingleFlight
<1>2. QED
  BY <1>1, ArchivesInvariant, PTL

\* However many programs are rejected by however many threads, two fetches of
\* the log begin at least the cooldown apart, and no more of them than the
\* budget within a window (lua_verdict.py LogFetcher.fetch).
THEOREM FetchesStayPaced == Spec => []FetchesArePaced
<1>1. ArchivesIInv => FetchesArePaced
  BY PacedWhileRemembered DEF ArchivesIInv
<1>2. QED
  BY <1>1, ArchivesInvariant, PTL

\* An archive that nobody else's download took the port of explains the
\* rejection it is handed out for: one's own fetch holds the record of it, a
\* shared one all that was on record when the compile was called.
THEOREM ArchivesExplain == Spec => ArchiveExplains
<1> DEFINE Explains == \A h \in Handler :
             /\ Share(h) /\ cache.alone => Covers(cache, job[h].before)
             /\ Receive(h) /\ job[h].wants = "log" /\ job[h].alone
                    => Covers(cache', job[h].record)
<1>1. ArchivesIInv => Explains
  <2> SUFFICES ASSUME ArchivesIInv, NEW h \in Handler
               PROVE  /\ Share(h) /\ cache.alone => Covers(cache, job[h].before)
                      /\ Receive(h) /\ job[h].wants = "log" /\ job[h].alone
                             => Covers(cache', job[h].record)
    OBVIOUS
  <2>1. ASSUME Share(h), cache.alone
        PROVE  Covers(cache, job[h].before)
    <3>1. Waiting(h) /\ cache # None /\ cache.began >= job[h].since
      BY <2>1 DEF Share, Shareable, Waiting
    <3>2. Holds(cache.archive, cache.began)
      BY <2>1, <3>1 DEF ArchivesIInv, CacheHolds
    <3>3. job[h].since <= cache.began
      <4>1. job[h] \in Job /\ cache \in Cached
        BY <3>1, JobsAreRecords DEF ArchivesIInv, ArchivesTypeOK, Waiting, At
      <4>2. job[h].since \in Int /\ cache.began \in Int
        BY <4>1, ArchivesAssumption DEF Job, Cached, ArchivesAssumption
      <4>3. QED
        BY <3>1, <4>2
    <3>4. QED
      BY <3>1, <3>2, <3>3 DEF Holds, Covers
  <2>2. ASSUME Receive(h), job[h].wants = "log", job[h].alone
        PROVE  Covers(cache', job[h].record)
    <3>1. cache'.archive = slot /\ At(h, "receive")
      BY <2>2 DEF Receive, Keep
    <3>2. Holds(slot, job[h].began) /\ slot.upto >= job[h].record
      BY <2>2, <3>1 DEF ArchivesIInv, SlotHolds
    <3>3. QED
      BY <3>1, <3>2 DEF Holds, Covers
  <2>3. QED
    BY <2>1, <2>2
<1>2. QED
  BY <1>1, ArchivesInvariant, PTL DEF ArchiveExplains
=============================================================================
