---------------------------- MODULE RobotDriver ----------------------------
(***************************************************************************)
(* The RPC driver (src/fws/driver.py): every call to the controller goes   *)
(* through one lock, and a circuit breaker stops dialling for a moment     *)
(* after a run of transport failures.                                      *)
(*                                                                         *)
(* _call() consults the breaker before it takes the lock, so a call may    *)
(* dial long after it was let through; what a dial came to is recorded     *)
(* under the lock. set_mode() notes the commanded mode after _call() has   *)
(* returned, outside the lock.                                             *)
(*                                                                         *)
(* Clock readings are modelled by what is compared: how long the breaker   *)
(* stays open and how long ago the last failure was, each up to the bound  *)
(* past which a longer time makes no difference.                           *)
(***************************************************************************)
EXTENDS Integers, Sequences, FiniteSets

CONSTANTS
    Caller,         \* the threads that call the driver
    None,           \* nobody, no mode
    OfflineAfter,   \* _offline_after_failures; 0 disables the breaker
    Cooldown,       \* OFFLINE_COOLDOWN_S
    Window          \* FAILURE_WINDOW_S

ASSUME NoneAssumption == None \notin Caller \cup {"manual", "auto"}
ASSUME BreakerAssumption ==
    /\ OfflineAfter \in Nat
    /\ IsFiniteSet(Caller)
    /\ Cooldown \in Nat \ {0}
    /\ Window \in Nat

VARIABLES
    pc,             \* where each caller is in _call() or set_mode()
    method,         \* what it calls: a mode, or anything else
    lock,           \* who holds _lock
    failures,       \* _consecutive_transport_failures, counted to OfflineAfter
    sinceFailure,   \* the clock less _last_transport_failure, to Window + 1
    offlineFor,     \* _offline_until less the clock, or 0
    lastSetMode,    \* last_set_mode
    up,             \* external: the controller answers
    mode,           \* external: the controller's own auto/manual mode
    acked,          \* history: the last Mode command answered with success
    recent,         \* history: how the last OfflineAfter dials ended
    drained         \* history: dials begun since the breaker opened

breakerVars == <<failures, sinceFailure, offlineFor>>
callVars == <<pc, method, lock>>
historyVars == <<acked, recent, drained>>
vars == <<pc, method, lock, failures, sinceFailure, offlineFor, lastSetMode,
          up, mode, acked, recent, drained>>

Mode == {"manual", "auto"}
Method == Mode \cup {"other"}
Ending == {"answered", "lost", "lostLate"}

TypeOK ==
    /\ pc \in [Caller -> {"idle", "queued", "dialing", "noting"}]
    /\ method \in [Caller -> Method]
    /\ lock \in Caller \cup {None}
    /\ failures \in 0..(OfflineAfter + 1)
    /\ sinceFailure \in 0..(Window + 1)
    /\ offlineFor \in 0..Cooldown
    /\ lastSetMode \in Mode \cup {None}
    /\ up \in BOOLEAN
    /\ mode \in Mode
    /\ acked \in Mode \cup {None}
    /\ recent \in Seq(Ending) /\ Len(recent) <= OfflineAfter
    /\ drained \in 0..Cardinality(Caller)

Init ==
    /\ pc = [c \in Caller |-> "idle"]
    /\ method = [c \in Caller |-> "other"]
    /\ lock = None
    /\ failures = 0
    /\ sinceFailure = Window + 1
    /\ offlineFor = 0
    /\ lastSetMode = None
    /\ up \in BOOLEAN
    /\ mode \in Mode
    /\ acked = None
    /\ recent = <<>>
    /\ drained = 0

-----------------------------------------------------------------------------
Capped(n, most) == IF n > most THEN most ELSE n

\* The history keeps the last OfflineAfter dials.
Remember(ending) ==
    LET all == Append(recent, ending)
    IN  recent' = IF Len(all) > OfflineAfter THEN Tail(all) ELSE all

\* A second passes.
Tick ==
    /\ sinceFailure <= Window \/ offlineFor > 0
    /\ sinceFailure' = Capped(sinceFailure + 1, Window + 1)
    /\ offlineFor' = IF offlineFor > 0 THEN offlineFor - 1 ELSE 0
    /\ drained' = IF offlineFor' = 0 THEN 0 ELSE drained
    /\ UNCHANGED <<callVars, failures, lastSetMode, up, mode, acked, recent>>

\* The controller or the network goes away, or comes back.
Reachability ==
    /\ up' = ~up
    /\ UNCHANGED <<callVars, breakerVars, lastSetMode, mode, historyVars>>

\* Mutant of Enter: the breaker is not consulted.
EnterUnchecked(c, m) ==
    /\ pc[c] = "idle"
    /\ pc' = [pc EXCEPT ![c] = "queued"]
    /\ method' = [method EXCEPT ![c] = m]
    /\ UNCHANGED <<lock, breakerVars, lastSetMode, up, mode, historyVars>>

\* _call() up to the lock, with the breaker closed.
Enter(c, m) ==
    /\ pc[c] = "idle"
    /\ offlineFor = 0
    /\ pc' = [pc EXCEPT ![c] = "queued"]
    /\ method' = [method EXCEPT ![c] = m]
    /\ UNCHANGED <<lock, breakerVars, lastSetMode, up, mode, historyVars>>

\* Mutant of Refuse: a refused call counts as one more failure.
RefuseCounts(c) ==
    /\ pc[c] = "idle"
    /\ offlineFor > 0
    /\ offlineFor' = Cooldown
    /\ UNCHANGED <<callVars, failures, sinceFailure, lastSetMode, up, mode, historyVars>>

\* With the breaker open the call is not attempted, and nothing changes.
Refuse(c) ==
    /\ pc[c] = "idle"
    /\ offlineFor > 0
    /\ UNCHANGED vars

TakeLock(c) ==
    /\ pc[c] = "queued"
    /\ lock = None
    /\ lock' = c
    /\ pc' = [pc EXCEPT ![c] = "dialing"]
    /\ drained' = IF offlineFor > 0 THEN Capped(drained + 1, Cardinality(Caller))
                                    ELSE 0
    /\ UNCHANGED <<method, breakerVars, lastSetMode, up, mode, acked, recent>>

\* The caller leaves _call() and the lock.
Leave(c, where) ==
    /\ pc[c] = "dialing"
    /\ lock' = None
    /\ pc' = [pc EXCEPT ![c] = where]

Executed(c) == IF method[c] \in Mode THEN method[c] ELSE mode

\* Mutant of Answered: success does not reset the run of failures.
AnsweredKeepsCount(c) ==
    /\ up
    /\ Leave(c, IF method[c] \in Mode THEN "noting" ELSE "idle")
    /\ mode' = Executed(c)
    /\ acked' = IF method[c] \in Mode THEN method[c] ELSE acked
    /\ Remember("answered")
    /\ UNCHANGED <<method, breakerVars, lastSetMode, up, drained>>

\* The controller answers and did what it was told.
Answered(c) ==
    /\ up
    /\ Leave(c, IF method[c] \in Mode THEN "noting" ELSE "idle")
    /\ failures' = 0
    /\ mode' = Executed(c)
    /\ acked' = IF method[c] \in Mode THEN method[c] ELSE acked
    /\ Remember("answered")
    /\ UNCHANGED <<method, sinceFailure, offlineFor, lastSetMode, up, drained>>

\* A fault or a non-zero error code: an answer, and a refusal.
Faulted(c) ==
    /\ up
    /\ Leave(c, "idle")
    /\ failures' = 0
    /\ Remember("answered")
    /\ UNCHANGED <<method, sinceFailure, offlineFor, lastSetMode, up, mode, acked, drained>>

\* Mutant of Garbled: the exception leaves the lock taken.
GarbledKeepsLock(c) ==
    /\ up
    /\ pc[c] = "dialing"
    /\ pc' = [pc EXCEPT ![c] = "idle"]
    /\ mode' \in {mode, Executed(c)}
    /\ UNCHANGED <<method, lock, breakerVars, lastSetMode, up, historyVars>>

\* An answer that is no XML-RPC answer (an HTTP error, a malformed body): the
\* exception is neither a Fault nor an OSError and passes through unrecorded.
Garbled(c) ==
    /\ up
    /\ Leave(c, "idle")
    /\ mode' \in {mode, Executed(c)}
    /\ UNCHANGED <<method, breakerVars, lastSetMode, up, historyVars>>

\* No answer. The command may have been carried out all the same.
Lost(c) ==
    LET late == sinceFailure > Window
        run == Capped((IF late THEN 0 ELSE failures) + 1, OfflineAfter + 1)
        opens == OfflineAfter > 0 /\ run >= OfflineAfter
    IN  /\ ~up
        /\ Leave(c, "idle")
        /\ failures' = run
        /\ sinceFailure' = 0
        /\ offlineFor' = IF opens THEN Cooldown ELSE offlineFor
        /\ mode' \in {mode, Executed(c)}
        /\ Remember(IF late THEN "lostLate" ELSE "lost")
        /\ UNCHANGED <<method, lastSetMode, up, acked, drained>>

\* set_mode() after _call() returned.
NoteMode(c) ==
    /\ pc[c] = "noting"
    /\ lastSetMode' = method[c]
    /\ pc' = [pc EXCEPT ![c] = "idle"]
    /\ UNCHANGED <<method, lock, breakerVars, up, mode, historyVars>>

EndDial(c) == Answered(c) \/ Faulted(c) \/ Garbled(c) \/ Lost(c)

Next ==
    \/ Tick
    \/ Reachability
    \/ \E c \in Caller : \/ \E m \in Method : Enter(c, m)
                         \/ Refuse(c)
                         \/ TakeLock(c)
                         \/ EndDial(c)
                         \/ NoteMode(c)

(***************************************************************************)
(* Fairness: time passes, every dial ends (the transport has a socket      *)
(* timeout), a thread that may run does, and the lock, when free, goes to  *)
(* someone who waits. Which one it goes to is not promised.                *)
(***************************************************************************)
Fairness ==
    /\ WF_vars(Tick)
    /\ WF_vars(\E c \in Caller : TakeLock(c))
    /\ \A c \in Caller : WF_vars(EndDial(c)) /\ WF_vars(NoteMode(c))

Spec == Init /\ [][Next]_vars
FairSpec == Spec /\ Fairness

-----------------------------------------------------------------------------
(* Properties.                                                             *)

\* Calls are serialised: whoever is on the wire holds the lock, alone, on
\* every way out of a call (driver.py:96-98, 167-192).
OneOnTheWire == \A c \in Caller : pc[c] = "dialing" <=> lock = c

\* The breaker opens only after OfflineAfter dials in a row went unanswered,
\* each within the window of the one before; an answer or a long quiet time in
\* between starts the count again (driver.py:153-157, 170-188).
OpensOnlyOnARun ==
    [][offlineFor' > offlineFor =>
          /\ Len(recent') = OfflineAfter
          /\ \A i \in 1..OfflineAfter : recent'[i] # "answered"
          /\ \A i \in 2..OfflineAfter : recent'[i] = "lost"]_vars

\* While the breaker is open the wire is tried by those only who had passed it
\* before it opened: every other caller is refused at once (driver.py:145-155).
OutageCostsOneQueue == offlineFor > 0 => drained < Cardinality(Caller)

\* Recovery is automatic: once the controller answers for good the breaker
\* closes and stays closed, however many callers are turned away meanwhile
\* (driver.py:155-157).
RecoversByItself == <>[]up => <>[](offlineFor = 0)

\* No ending of a call, not even one the driver does not know, keeps the lock
\* (driver.py:167-192).
LockIsFreedAgain == []<>(lock = None)

(***************************************************************************)
(* The inductive invariant of the proofs: who notes a mode has set one; the*)
(* count of failures is a run at the end of the history, all but its first *)
(* within the window; and while the breaker is open, nobody joins those    *)
(* who wait for the wire.                                                  *)
(***************************************************************************)
NotingSound == \A c \in Caller : pc[c] = "noting" => method[c] \in Mode

Run == Capped(failures, OfflineAfter)

EndsInRun(h, n) ==
    /\ n <= Len(h)
    /\ \A i \in 1..Len(h) : /\ i > Len(h) - n => h[i] # "answered"
                            /\ i > Len(h) - n + 1 => h[i] = "lost"

RunSound == EndsInRun(recent, Run)

Queue == {c \in Caller : pc[c] = "queued"}

QueueSound ==
    /\ offlineFor = 0 => drained = 0
    /\ offlineFor > 0 => drained + Cardinality(Queue) < Cardinality(Caller)

DriverInv ==
    /\ TypeOK
    /\ OneOnTheWire
    /\ NotingSound
    /\ RunSound
    /\ QueueSound

\* "the driver remembers the last mode it successfully commanded"
\* (driver.py:110-112). (Not with two callers: the notes are taken outside the
\* lock and may be taken in the other order.)
RemembersLastMode ==
    (\A c \in Caller : pc[c] # "noting") => lastSetMode = acked
=============================================================================
