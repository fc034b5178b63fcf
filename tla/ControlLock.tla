---------------------------- MODULE ControlLock ----------------------------
(***************************************************************************)
(* The single-writer control lock and its disconnect watchdog              *)
(* (src/fws/control.py).                                                   *)
(*                                                                         *)
(* A lease is an object with a secret token; one lease may cover several   *)
(* domains, and the table maps each domain to the lease that holds it.     *)
(* Request threads acquire, renew, release and break; the reaper thread    *)
(* takes expired leases out of the table and then, outside the mutex,      *)
(* calls on_lapse once for each.                                           *)
(*                                                                         *)
(* Each critical section of the mutex is one step. What the code reads     *)
(* before it takes the mutex is a step of its own: acquire() and reap()    *)
(* both read the clock first and decide with that reading later.           *)
(***************************************************************************)
EXTENDS Integers

CONSTANTS
    Client,     \* client ids
    Domain,     \* control.DOMAINS
    Token,      \* lease tokens; each is issued once (secrets.token_urlsafe)
    None,       \* no lease, no request
    MinTtl,     \* MIN_TTL_S
    MaxTtl,     \* MAX_TTL_S
    AskedTtl,   \* the lifetimes requests ask for
    MaxTime     \* bound of the model: the clock stops here

ASSUME TtlAssumption ==
    /\ MinTtl \in Nat \ {0} /\ MaxTtl \in Nat /\ MinTtl <= MaxTtl
    /\ AskedTtl \subseteq Nat
    /\ MaxTime \in Nat

VARIABLES
    now,            \* time.time()
    lease,          \* token -> the Lease object, None until it is issued
    table,          \* _leases: domain -> token of the lease held there
    acq,            \* client -> its acquire() between the clock and the mutex
    reaper,         \* where the reaper thread is
    reapNow,        \* the clock reading reap() works with
    lapsed,         \* reap()'s local list: leases whose on_lapse is still due
    lapseErrors,    \* whether _lapse_errors has been counted up
    stopping,       \* _stop is set: close() was called
    fate            \* history: how each lease ended

lockVars == <<lease, table, fate>>
reapVars == <<reaper, reapNow, lapsed, lapseErrors>>
vars == <<now, lease, table, acq, reaper, reapNow, lapsed, lapseErrors,
          stopping, fate>>

Time == 0..MaxTime

Lease == [client: Client, domains: SUBSET Domain, expires: 0..(MaxTime + MaxTtl)]

\* acquire() with its arguments checked and the clock read.
Acquire == [domains: (SUBSET Domain) \ {{}}, ttl: MinTtl..MaxTtl, at: Time]

ASSUME NoneAssumption == None \notin Client \cup Token \cup Lease \cup Acquire

Fate == {"unissued", "open", "goodbye", "overtaken", "fired"}

TypeOK ==
    /\ now \in Time
    /\ lease \in [Token -> Lease \cup {None}]
    /\ table \in [Domain -> Token \cup {None}]
    /\ acq \in [Client -> Acquire \cup {None}]
    /\ reaper \in {"wait", "scan", "fire", "exited"}
    /\ reapNow \in Time
    /\ lapsed \in SUBSET Token
    /\ lapseErrors \in BOOLEAN
    /\ stopping \in BOOLEAN
    /\ fate \in [Token -> Fate]

-----------------------------------------------------------------------------
\* Mutant of Clamp: raised to the minimum, not lowered to the maximum.
ClampLow(ttl) == IF ttl < MinTtl THEN MinTtl ELSE ttl

Clamp(ttl) == IF ttl < MinTtl THEN MinTtl
              ELSE IF ttl > MaxTtl THEN MaxTtl ELSE ttl

\* The leases the table still refers to.
Held == {t \in Token : \E d \in Domain : table[d] = t}

LiveAt(t, time) == lease[t].expires > time

\* held_by(domain): the lease, unless it has run out.
HeldBy(d) == IF table[d] # None /\ LiveAt(table[d], now) THEN table[d] ELSE None

\* The client in control of a domain.
Owner(d) == IF HeldBy(d) # None THEN lease[HeldBy(d)].client ELSE None

\* The leases this step takes the last domain from.
Dropped == Held \ Held'

(***************************************************************************)
(* fate is bookkeeping for the properties, not state of the program. A     *)
(* lease that a request drops from the table ends as "goodbye" when its    *)
(* client or an administrator ended it, and as "overtaken" when it had run *)
(* out and a new lease was written over it.                                *)
(***************************************************************************)
SayGoodbye == fate' = [t \in Token |-> IF t \in Dropped THEN "goodbye" ELSE fate[t]]

Init ==
    /\ now = 0
    /\ lease = [t \in Token |-> None]
    /\ table = [d \in Domain |-> None]
    /\ acq = [c \in Client |-> None]
    /\ reaper = "wait"
    /\ reapNow = 0
    /\ lapsed = {}
    /\ lapseErrors = FALSE
    /\ stopping = FALSE
    /\ fate = [t \in Token |-> "unissued"]

Tick ==
    /\ now < MaxTime
    /\ now' = now + 1
    /\ UNCHANGED <<lockVars, acq, reapVars, stopping>>

-----------------------------------------------------------------------------
(* Requests.                                                               *)

\* acquire(), up to the mutex: the arguments are checked, the lifetime is
\* clamped and the clock is read.
AcquireStart(c, ds, ttl) ==
    /\ acq[c] = None
    /\ ds # {}
    /\ \E t \in Token : lease[t] = None    \* bound of the model: a token is left
    /\ acq' = [acq EXCEPT ![c] = [domains |-> ds, ttl |-> Clamp(ttl), at |-> now]]
    /\ UNCHANGED <<now, lockVars, reapVars, stopping>>

\* Mutant of ConflictOn: a holder counts only while it outlives the lease asked.
ConflictOnLonger(c, d) ==
    /\ table[d] # None
    /\ LiveAt(table[d], acq[c].at + acq[c].ttl)
    /\ lease[table[d]].client # c

\* Another client's lease on d counts as held at the time acquire() read.
ConflictOn(c, d) ==
    /\ table[d] # None
    /\ LiveAt(table[d], acq[c].at)
    /\ lease[table[d]].client # c

AcquireConflict(c) ==
    /\ acq[c] # None
    /\ \E d \in acq[c].domains : ConflictOn(c, d)
    /\ acq' = [acq EXCEPT ![c] = None]
    /\ UNCHANGED <<now, lockVars, reapVars, stopping>>

\* The client's own leases on the domains it asks for, live or run out.
Replaced(c) == {t \in Token : /\ \E d \in acq[c].domains : table[d] = t
                              /\ lease[t].client = c}

AcquireGrant(c, t) ==
    /\ acq[c] # None
    /\ lease[t] = None
    /\ \A d \in acq[c].domains : ~ConflictOn(c, d)
    /\ lease' = [lease EXCEPT ![t] = [client |-> c, domains |-> acq[c].domains,
                                      expires |-> acq[c].at + acq[c].ttl]]
    /\ table' = [d \in Domain |-> IF d \in acq[c].domains THEN t
                                  ELSE IF table[d] \in Replaced(c) THEN None
                                  ELSE table[d]]
    /\ fate' = [u \in Token |->
                   IF u = t THEN "open"
                   ELSE IF u \notin Dropped THEN fate[u]
                   ELSE IF LiveAt(u, now) THEN "goodbye" ELSE "overtaken"]
    /\ acq' = [acq EXCEPT ![c] = None]
    /\ UNCHANGED <<now, reapVars, stopping>>

\* renew() does not ask whether the lease has run out, only whether the table
\* still refers to it. The clock is read under the mutex.
Renew(t, ttl) ==
    /\ t \in Held
    /\ lease' = [lease EXCEPT ![t].expires = now + Clamp(ttl)]
    /\ UNCHANGED <<now, table, acq, reapVars, stopping, fate>>

Release(t) ==
    /\ t \in Held
    /\ table' = [d \in Domain |-> IF table[d] = t THEN None ELSE table[d]]
    /\ SayGoodbye
    /\ UNCHANGED <<now, lease, acq, reapVars, stopping>>

\* break_lock() takes one domain away; the lease keeps its others, and the
\* Lease object still lists the broken one.
BreakLock(d) ==
    /\ table[d] # None
    /\ table' = [table EXCEPT ![d] = None]
    /\ SayGoodbye
    /\ UNCHANGED <<now, lease, acq, reapVars, stopping>>

-----------------------------------------------------------------------------
(* The reaper thread.                                                      *)

\* Mutant of ReapRead: the clock is read once, when the thread starts.
ReapReadOnce ==
    /\ reaper = "wait"
    /\ ~stopping
    /\ reaper' = "scan"
    /\ UNCHANGED <<now, lockVars, acq, reapNow, lapsed, lapseErrors, stopping>>

ReapRead ==
    /\ reaper = "wait"
    /\ ~stopping
    /\ reaper' = "scan"
    /\ reapNow' = now
    /\ UNCHANGED <<now, lockVars, acq, lapsed, lapseErrors, stopping>>

\* Mutant of RunOut: the comparison is off by one.
RunOutEarly == {t \in Held : ~LiveAt(t, reapNow + 1)}

\* The leases a scan with the reading reapNow takes out of the table.
RunOut == {t \in Held : ~LiveAt(t, reapNow)}

\* Mutant of ReapRemove: the scan forgets to delete what it collects.
ReapRemoveKeeps ==
    /\ reaper = "scan"
    /\ lapsed' = RunOut
    /\ reaper' = IF RunOut = {} THEN "wait" ELSE "fire"
    /\ UNCHANGED <<now, lockVars, acq, reapNow, lapseErrors, stopping>>

ReapRemove ==
    /\ reaper = "scan"
    /\ lapsed' = RunOut
    /\ table' = [d \in Domain |-> IF table[d] \in RunOut THEN None ELSE table[d]]
    /\ reaper' = IF RunOut = {} THEN "wait" ELSE "fire"
    /\ UNCHANGED <<now, lease, acq, reapNow, lapseErrors, stopping, fate>>

\* Mutant of Fire: one guard around the whole loop, so that the first callback
\* that raises ends the batch.
FireGuardsBatch(t, raises) ==
    /\ reaper = "fire"
    /\ t \in lapsed
    /\ lapsed' = IF raises THEN {} ELSE lapsed \ {t}
    /\ reaper' = IF lapsed' = {} THEN "wait" ELSE "fire"
    /\ lapseErrors' = (lapseErrors \/ raises)
    /\ fate' = [fate EXCEPT ![t] = "fired"]
    /\ UNCHANGED <<now, lease, table, acq, reapNow, stopping>>

\* Mutant of Fire: no guard, so that a callback that raises ends the thread.
FireUnguarded(t, raises) ==
    /\ reaper = "fire"
    /\ t \in lapsed
    /\ lapsed' = lapsed \ {t}
    /\ reaper' = IF raises THEN "exited" ELSE IF lapsed' = {} THEN "wait" ELSE "fire"
    /\ lapseErrors' = (lapseErrors \/ raises)
    /\ fate' = [fate EXCEPT ![t] = "fired"]
    /\ UNCHANGED <<now, lease, table, acq, reapNow, stopping>>

\* on_lapse(lease) returns, or raises and is counted; either way the loop
\* goes on to the next lapsed lease.
Fire(t, raises) ==
    /\ reaper = "fire"
    /\ t \in lapsed
    /\ lapsed' = lapsed \ {t}
    /\ reaper' = IF lapsed' = {} THEN "wait" ELSE "fire"
    /\ lapseErrors' = (lapseErrors \/ raises)
    /\ fate' = [fate EXCEPT ![t] = "fired"]
    /\ UNCHANGED <<now, lease, table, acq, reapNow, stopping>>

\* close() only sets the event: a reap in progress runs to its end.
Close ==
    /\ ~stopping
    /\ stopping' = TRUE
    /\ UNCHANGED <<now, lockVars, acq, reapVars>>

ReaperExit ==
    /\ reaper = "wait"
    /\ stopping
    /\ reaper' = "exited"
    /\ UNCHANGED <<now, lockVars, acq, reapNow, lapsed, lapseErrors, stopping>>

-----------------------------------------------------------------------------
AcquireFinish(c) == AcquireConflict(c) \/ \E t \in Token : AcquireGrant(c, t)

Request ==
    \/ \E c \in Client, ds \in SUBSET Domain, ttl \in AskedTtl : AcquireStart(c, ds, ttl)
    \/ \E c \in Client : AcquireFinish(c)
    \/ \E t \in Token, ttl \in AskedTtl : Renew(t, ttl)
    \/ \E t \in Token : Release(t)
    \/ \E d \in Domain : BreakLock(d)

Reap ==
    \/ ReapRead
    \/ ReapRemove
    \/ \E t \in Token, raises \in BOOLEAN : Fire(t, raises)
    \/ ReaperExit

Next == Tick \/ Request \/ Reap \/ Close

(***************************************************************************)
(* Fairness. The reaper is a thread in a loop that sleeps at most its      *)
(* interval, the clock advances and a request that reached the mutex gets  *)
(* it. Nothing makes a client send a request, an administrator break a     *)
(* lock, or the process shut down.                                         *)
(***************************************************************************)
Fairness ==
    /\ WF_vars(Reap)
    /\ WF_vars(Tick)
    /\ \A c \in Client : WF_vars(AcquireFinish(c))

Spec == Init /\ [][Next]_vars
FairSpec == Spec /\ Fairness

-----------------------------------------------------------------------------
(* Properties.                                                             *)

\* What the reaper is about to call on_lapse for has run out, is out of the
\* table, and cannot come back: a renewal that arrived between reap()'s clock
\* reading and its critical section has saved the lease (control.py:88-100).
FiresOnlyTheDead == \A t \in lapsed : ~LiveAt(t, now) /\ t \notin Held

\* A lease that was released, broken, replaced or whose lapse was reported is
\* out of the table and never reported again: "explicit release does not fire
\* the watchdog", and one lapse is one call (control.py:95-100, 216-230).
GoneForGood ==
    \A t \in Token : fate[t] \in {"goodbye", "overtaken", "fired"} =>
                        t \notin Held \cup lapsed

\* No lease slips between the table and the watchdog: until it has ended, a
\* lease is in the table or its lapse is due (one failing callback must not
\* deny the watchdog to the leases behind it, control.py:104-112).
EveryLeaseAccountedFor ==
    \A t \in Token : fate[t] = "open" => t \in Held \cup lapsed

\* A holder that vanished keeps others out for at most MAX_TTL_S from now,
\* whatever lifetimes it asked for (control.py:171, 199).
VanishedHolderBlocksBriefly ==
    \A t \in Held : lease[t].expires <= now + MaxTtl

\* The reaper frees no domain whose lease is live when it does so, although it
\* judges with a clock reading from before the mutex (control.py:88-94).
ReapSparesTheLiving ==
    [][ReapRemove => \A d \in Domain : HeldBy(d) # None => table'[d] = table[d]]_vars

\* The lock implements DomainOwnership: whoever takes a domain found it free,
\* or run out, or already his own (control.py:173-195).
Ownership == INSTANCE DomainOwnership WITH owner <- [d \in Domain |-> Owner(d)]
ImplementsOwnership == Ownership!Spec

\* While the reaper runs, a lease that has run out does not stay in the table
\* unless its client renews it (control.py:75-100).
LapseIsNoticed ==
    \A t \in Token : (t \in Held /\ ~LiveAt(t, now)) ~>
                        (t \notin Held \/ LiveAt(t, now) \/ stopping)

\* Every lease taken out by the reaper gets its on_lapse call, even when the
\* calls before it raise and when close() is called meanwhile
\* (control.py:104-112).
LapseIsReported == \A t \in Token : t \in lapsed ~> fate[t] = "fired"

(***************************************************************************)
(* The inductive invariant the proofs use: what the table refers to is an  *)
(* open lease that covers the domain, what the reaper carries is an open   *)
(* lease that has run out, and no recorded clock reading is ahead of now.  *)
(***************************************************************************)
TableSound ==
    \A d \in Domain : table[d] # None =>
        /\ lease[table[d]] # None
        /\ d \in lease[table[d]].domains
        /\ fate[table[d]] = "open"
        /\ table[d] \notin lapsed

LapsedSound ==
    /\ reaper # "fire" => lapsed = {}
    /\ \A t \in lapsed : lease[t] # None /\ ~LiveAt(t, now) /\ fate[t] = "open"

FateSound == \A t \in Token : fate[t] = "unissued" <=> lease[t] = None

ClockSound ==
    /\ reapNow <= now
    /\ \A c \in Client : acq[c] # None => acq[c].at <= now
    /\ \A t \in Token : lease[t] # None => lease[t].expires <= now + MaxTtl

IInv ==
    /\ TypeOK
    /\ TableSound
    /\ LapsedSound
    /\ FateSound
    /\ ClockSound
    /\ EveryLeaseAccountedFor

\* "lapsing issues the stop" (control.py:4-5): a lease whose client stopped
\* renewing ends with its on_lapse call. (It does not: acquire() writes over a
\* lease that has run out and was not reaped yet.)
EveryLapseIsReported == \A t \in Token : fate[t] # "overtaken"
=============================================================================
