------------------------------ MODULE Archives ------------------------------
(***************************************************************************)
(* The archives the gateway asks of the controller: its log, for the       *)
(* verdict behind a rejected program (src/fws/lua_verdict.py LogFetcher,   *)
(* files_api.py _commit); its user data, read as a directory listing       *)
(* (files_listing.py ControllerListing); and the backup bundles            *)
(* (backup_api.py get_backup). Each is fetched by a driver of its own, so  *)
(* that no lock keeps two fetches apart: prepare, open and receive are     *)
(* three calls, and the controller (testing/fake_controller.py) keeps one  *)
(* prepared bundle and one content for the next download.                  *)
(*                                                                         *)
(* The log is the number of records in it, one for each compile, and an    *)
(* archive of it knows how many it holds. The monotonic clock is read to   *)
(* compare readings, of which no two are equal: taking one advances it.    *)
(***************************************************************************)
EXTENDS Integers, FiniteSets, TLC

CONSTANTS
    Handler,      \* request threads
    MinInterval, Budget, Window, \* the log fetcher's limits, in clock units
    Ttl,          \* how long a listing is fresh
    MaxRecords,   \* bound: compiles
    MaxTime,      \* bound: the clock
    None

ASSUME ArchivesAssumption ==
    /\ MinInterval \in Nat /\ Budget \in Nat \ {0} /\ Window \in Nat /\ Ttl \in Nat
    /\ MaxRecords \in Nat /\ MaxTime \in Nat
    /\ MinInterval <= Window

VARIABLES
    clock,
    logged,    \* external: how many compiles the log tells of
    prepared,  \* external: the bundle that was prepared last, or None
    slot,      \* external: the archive the next download delivers, or None
    attempts,  \* LogFetcher._attempts, of which no two are equal
    fetching,  \* LogFetcher._inflight
    cache,     \* LogFetcher._cache with the time its fetch began, or None
    listing,   \* ControllerListing._entries with their time, or None
    listBusy,  \* ControllerListing._inflight
    job,       \* handler -> what it is at, or None
    starts     \* history: when fetches of the log began

controller == <<logged, prepared, slot>>
fetcher == <<attempts, fetching, cache>>
lister == <<listing, listBusy>>
vars == <<clock, controller, fetcher, lister, job, starts>>

Bundle == {"log", "userdata", "datasource"}

\* What a bundle holds: upto counts the records in a log.
Archive == [what : Bundle, upto : 0..MaxRecords]

\* since: the reading before the compile, while it is needed; began: the fetch's
\* start. History: before, the log's length at the compile's call; record, the
\* compile's number in it; alone, the archive to receive is the one it opened.
Job == [at : {"compiling", "rejected", "prepare", "open", "receive"}, wants : Bundle \cup {None},
        since : 0..MaxTime, began : 0..MaxTime, before : 0..MaxRecords,
        record : 0..MaxRecords, alone : BOOLEAN]

\* Nobody's job.
ASSUME NoneIsNoJob == None \notin Job

Cached == [archive : Archive, began : 0..MaxTime, alone : BOOLEAN]

ArchivesTypeOK ==
    /\ clock \in 0..MaxTime
    /\ logged \in 0..MaxRecords
    /\ prepared \in Bundle \cup {None} /\ slot \in Archive \cup {None}
    /\ attempts \in SUBSET (0..MaxTime) /\ Cardinality(attempts) <= Budget
    /\ fetching \in BOOLEAN /\ listBusy \in BOOLEAN
    /\ cache \in Cached \cup {None} /\ listing \in Cached \cup {None}
    /\ job \in [Handler -> Job \cup {None}]
    /\ starts \in SUBSET (0..MaxTime)

Init ==
    /\ clock = 0 /\ logged = 0 /\ prepared = None /\ slot = None
    /\ attempts = {} /\ fetching = FALSE /\ cache = None
    /\ listing = None /\ listBusy = FALSE
    /\ job = [h \in Handler |-> None]
    /\ starts = {}

Tick == clock < MaxTime /\ clock' = clock + 1
        /\ UNCHANGED <<controller, fetcher, lister, job, starts>>

Reading == clock < MaxTime /\ clock' = clock + 1

At(h, place) == job[h] # None /\ job[h].at = place
To(h, place) == job' = [job EXCEPT ![h].at = place]
Answer(h) == job' = [job EXCEPT ![h] = None]

-----------------------------------------------------------------------------
(* The compile that precedes a fetch.                                      *)

NewJob(place, bundle) == [at |-> place, wants |-> bundle, since |-> 0, began |-> 0,
                          before |-> 0, record |-> 0, alone |-> TRUE]

\* _commit() reads the clock, then calls the compiler.
Compile(h) ==
    /\ job[h] = None /\ logged < MaxRecords /\ Reading
    /\ job' = [job EXCEPT ![h] = [NewJob("compiling", "log") EXCEPT
                                        !.since = clock, !.before = logged]]
    /\ UNCHANGED <<controller, fetcher, lister, starts>>

\* A verdict, written to the log before it is answered: a rejection looks it
\* up, anything else (or an answer that is lost) ends the request.
Compiled(h) ==
    /\ At(h, "compiling") /\ logged < MaxRecords
    /\ logged' = logged + 1
    /\ \/ job' = [job EXCEPT ![h].at = "rejected", ![h].record = logged + 1]
       \/ Answer(h)
    /\ UNCHANGED <<clock, prepared, slot, fetcher, lister, starts>>

\* A wedged validator answers late and logs nothing; a call may fail.
CompileFails(h) ==
    /\ At(h, "compiling") /\ Answer(h)
    /\ UNCHANGED <<clock, controller, fetcher, lister, starts>>

-----------------------------------------------------------------------------
(* LogFetcher.fetch(), up to the release of its lock.                      *)

Recent == {t \in attempts : clock - t < Window}

\* Mutant: any archive will do.
ShareableAny(h) == cache # None

Shareable(h) == cache # None /\ cache.began >= job[h].since

\* An archive whose fetch began at or after the compile is shared.
Share(h) ==
    /\ At(h, "rejected") /\ Shareable(h)
    /\ Answer(h)
    /\ UNCHANGED <<clock, controller, fetcher, lister, starts>>

\* Mutant: the cooldown of a failed attempt is not observed.
MayFetchAgain == Cardinality(Recent) < Budget /\ ~fetching

\* Enough time since the last attempt, and so since any.
MayFetch == /\ \A t \in Recent : clock - t >= MinInterval
            /\ Cardinality(Recent) < Budget
            /\ ~fetching

\* Cooldown, budget, or a fetch that goes on: the reason is not looked up.
Suppress(h) ==
    /\ At(h, "rejected") /\ ~Shareable(h) /\ ~MayFetch
    /\ attempts' = Recent
    /\ Answer(h)
    /\ UNCHANGED <<clock, controller, fetching, cache, lister, starts>>

StartFetch(h) ==
    /\ At(h, "rejected") /\ ~Shareable(h) /\ MayFetch /\ Reading
    /\ attempts' = Recent \cup {clock}
    /\ starts' = starts \cup {clock}
    /\ fetching' = TRUE
    /\ job' = [job EXCEPT ![h].at = "prepare", ![h].since = 0, ![h].began = clock]
    /\ UNCHANGED <<controller, cache, lister>>

-----------------------------------------------------------------------------
(* ControllerListing.get() and get_backup(), up to their first call.       *)

\* A listing that is fresh, or that somebody fetches already, is answered at
\* once with what there is.
List(h, refresh) ==
    /\ job[h] = None
    /\ ~(listing # None /\ clock - listing.began < Ttl /\ ~refresh)
    /\ ~listBusy
    /\ listBusy' = TRUE
    /\ job' = [job EXCEPT ![h] = NewJob("prepare", "userdata")]
    /\ UNCHANGED <<clock, controller, fetcher, listing, starts>>

GetBackup(h) ==
    /\ job[h] = None
    /\ job' = [job EXCEPT ![h] = NewJob("prepare", "datasource")]
    /\ UNCHANGED <<clock, controller, fetcher, lister, starts>>

-----------------------------------------------------------------------------
(* The transfer: prepare, open, receive.                                   *)

Prepare(h) ==
    /\ At(h, "prepare")
    /\ prepared' = job[h].wants
    /\ To(h, "open")
    /\ UNCHANGED <<clock, logged, slot, fetcher, lister, starts>>

\* The archive is built as the port opens, and only if it was the last one
\* prepared. Whoever had a port open will receive this one.
Open(h) ==
    /\ At(h, "open") /\ prepared = job[h].wants
    /\ prepared' = None
    /\ slot' = [what |-> job[h].wants, upto |-> IF job[h].wants = "log" THEN logged ELSE 0]
    /\ job' = [g \in Handler |->
                 IF g = h THEN [job[h] EXCEPT !.at = "receive"]
                 ELSE IF At(g, "receive") THEN [job[g] EXCEPT !.alone = FALSE] ELSE job[g]]
    /\ UNCHANGED <<clock, logged, fetcher, lister, starts>>

Keep(h, time) == [archive |-> slot, began |-> time, alone |-> job[h].alone]

\* What arrives is kept: by the fetcher with the time it began, by the listing
\* with the time it ended.
Receive(h) ==
    /\ At(h, "receive")
    /\ Answer(h)
    /\ IF job[h].wants = "log"
       THEN fetching' = FALSE /\ cache' = Keep(h, job[h].began)
       ELSE UNCHANGED <<fetching, cache>>
    /\ IF job[h].wants = "userdata"
       THEN listBusy' = FALSE /\ listing' = Keep(h, clock)
       ELSE UNCHANGED lister
    /\ UNCHANGED <<clock, controller, attempts, starts>>

\* Mutant: a failed fetch leaves its flag up.
TransferFailsInFlight(h) ==
    /\ \E place \in {"prepare", "open", "receive"} : At(h, place)
    /\ Answer(h)
    /\ UNCHANGED <<clock, controller, fetcher, lister, starts>>

\* Any of the three calls fails, or the bytes do: nothing is kept.
TransferFails(h) ==
    /\ \E place \in {"prepare", "open", "receive"} : At(h, place)
    /\ Answer(h)
    /\ fetching' = (fetching /\ job[h].wants # "log")
    /\ listBusy' = (listBusy /\ job[h].wants # "userdata")
    /\ UNCHANGED <<clock, controller, attempts, cache, listing, starts>>

HandlerStep(h) ==
    \/ Compiled(h) \/ CompileFails(h) \/ Share(h) \/ Suppress(h) \/ StartFetch(h)
    \/ Prepare(h) \/ Open(h) \/ Receive(h) \/ TransferFails(h)

Next ==
    \/ Tick
    \/ \E h \in Handler : \/ Compile(h) \/ GetBackup(h)
                          \/ \E refresh \in BOOLEAN : List(h, refresh)
                          \/ HandlerStep(h)

Spec == Init /\ [][Next]_vars

Symmetry == Permutations(Handler)

-----------------------------------------------------------------------------
(* Properties.                                                             *)

Covers(kept, records) == kept.archive.what = "log" /\ kept.archive.upto >= records

\* Unless another download took its port, an archive explains the rejection it
\* is handed out for: one's own fetch holds its record, and a shared one all
\* that was on record when the compile was called (lua_verdict.py fetch).
ArchiveExplains ==
    [][\A h \in Handler :
        /\ Share(h) /\ cache.alone => Covers(cache, job[h].before)
        /\ Receive(h) /\ job[h].wants = "log" /\ job[h].alone
               => Covers(cache', job[h].record)]_vars

\* Fetches of the log stay within the limits, failed ones included: this is what
\* keeps the transfer service from being wedged again.
FetchesArePaced ==
    /\ \A s, t \in starts : s < t => t - s >= MinInterval
    /\ Cardinality({s \in starts : clock - s < Window}) <= Budget

Flying(bundle) == {h \in Handler : \E place \in {"prepare", "open", "receive"} :
                                      At(h, place) /\ job[h].wants = bundle}

\* One flight at a time, and the flag is up exactly while somebody is there to
\* take it down: a fetch that fails shuts nobody out for good.
SingleFlight ==
    /\ Cardinality(Flying("log")) = (IF fetching THEN 1 ELSE 0)
    /\ Cardinality(Flying("userdata")) = (IF listBusy THEN 1 ELSE 0)

\* The state is what the code's types say it is, and a flight has its flag.
ArchivesInv == ArchivesTypeOK /\ SingleFlight

\* What the comment in _commit() says of the reading it takes before the
\* compile: it floors the log's freshness, so that a stale archive is not reused.
SharedArchiveIsFresh ==
    [][\A h \in Handler : Share(h) /\ cache.alone => Covers(cache, job[h].record)]_vars

=============================================================================
