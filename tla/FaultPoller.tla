----------------------------- MODULE FaultPoller -----------------------------
(***************************************************************************)
(* The fault poller (src/fws/app.py, _error_poller) and its edge detector  *)
(* (src/fws/eventbus.py, EdgeDetector), as one of the threads that publish *)
(* on the event bus. The other publishers are handlers and the watchdog,   *)
(* with the audit records they write (src/fws/events.py).                  *)
(*                                                                         *)
(* Each round asks the controller for its fault codes, dumps the flight    *)
(* recorder when a fault appears, and then looks at one snapshot of the    *)
(* telemetry. The thread catches RobotError around the first part only.    *)
(***************************************************************************)
EXTENDS EventBus

CONSTANTS
    Poller,     \* the thread of _error_poller()
    RunState    \* values of program_state in the telemetry

PollerKind == {"fault.latched", "fault.cleared", "recording.dumped",
               "telemetry.up", "telemetry.down", "program.state"}

ASSUME PollerAssumption ==
    /\ Poller \in Publisher
    /\ Kind = PollerKind \cup {"audit"}
    /\ None \notin RunState /\ None \notin BOOLEAN /\ None \notin Kind

VARIABLES
    round,          \* where the poller is
    faulted,        \* EdgeDetector._faulted
    streamOk,       \* EdgeDetector._stream_ok
    program,        \* EdgeDetector._program
    seen,           \* the program state in the snapshot it works with
    view,           \* history: subscription -> the last fault event it read
    since           \* history: subscription -> the fault state its reader
                    \* starts from: faulted when it was made, or the first reading

edgeVars == <<faulted, streamOk, program>>
pollerVars == <<round, edgeVars, seen>>
viewVars == <<view, since>>
allVars == <<vars, pollerVars, viewVars>>

PollerTypeOK ==
    /\ TypeOK
    /\ round \in {"poll", "dump", "snapshot", "program", "dead"}
    /\ faulted \in BOOLEAN \cup {None}
    /\ streamOk \in BOOLEAN \cup {None}
    /\ program \in RunState \cup {None}
    /\ seen \in RunState \cup {None}
    /\ view \in [Sub -> {"fault.latched", "fault.cleared", None}]
    /\ since \in [Sub -> BOOLEAN \cup {None}]

PollerInit ==
    /\ Init
    /\ round = "poll"
    /\ faulted = None
    /\ streamOk = None
    /\ program = None
    /\ seen = None
    /\ view = [s \in Sub |-> None]
    /\ since = [s \in Sub |-> None]

-----------------------------------------------------------------------------
\* The poller goes from one step of its round to another, having published all
\* it had to, and with or without something new to publish.
Step(from, to) == round = from /\ event[Poller] = None /\ round' = to

Announce(kind) == Publish(Poller, kind)
Nothing == UNCHANGED vars

\* Mutant of Fault: a fault that clears is announced and not noted.
FaultOnlyLatches(now) ==
    IF faulted = None THEN faulted' = now /\ Nothing
    ELSE IF now = faulted THEN UNCHANGED faulted /\ Nothing
    ELSE /\ faulted' = TRUE
         /\ Announce(IF now THEN "fault.latched" ELSE "fault.cleared")

\* EdgeDetector.fault(): the first reading is not a transition.
Fault(now) ==
    IF faulted = None THEN faulted' = now /\ Nothing
    ELSE IF now = faulted THEN UNCHANGED faulted /\ Nothing
    ELSE /\ faulted' = now
         /\ Announce(IF now THEN "fault.latched" ELSE "fault.cleared")

\* The controller tells its fault codes.
Poll(now) ==
    /\ Step("poll", IF now /\ faulted = FALSE THEN "dump" ELSE "snapshot")
    /\ Fault(now)
    /\ since' = IF faulted = None THEN [s \in Sub |-> now] ELSE since
    /\ UNCHANGED <<streamOk, program, seen, view>>

\* A RobotError.
PollFails ==
    /\ Step("poll", "snapshot")
    /\ UNCHANGED <<vars, edgeVars, seen, viewVars>>

\* Any other exception: an answer that is not XML-RPC, or not a list of codes.
\* It ends the thread.
PollDies ==
    /\ Step("poll", "dead")
    /\ UNCHANGED <<vars, edgeVars, seen, viewVars>>

\* recorder.dump() gives a name unless it had nothing to write or failed.
Dump(named) ==
    /\ Step("dump", "snapshot")
    /\ IF named THEN Announce("recording.dumped") ELSE Nothing
    /\ UNCHANGED <<edgeVars, seen, viewVars>>

\* telemetry.snapshot(), and EdgeDetector.stream().
Snapshot(connected, state) ==
    /\ Step("snapshot", "program")
    /\ streamOk' = connected
    /\ seen' = state
    /\ IF streamOk \in {None, connected} THEN Nothing
       ELSE Announce(IF connected THEN "telemetry.up" ELSE "telemetry.down")
    /\ UNCHANGED <<faulted, program, viewVars>>

\* EdgeDetector.program_state(), with the same snapshot.
ProgramState ==
    /\ Step("program", "poll")
    /\ program' = IF seen = None THEN program ELSE seen
    /\ IF program = None \/ program' = program THEN Nothing
       ELSE Announce("program.state")
    /\ UNCHANGED <<faulted, streamOk, seen, viewVars>>

PollerRound ==
    \/ \E now \in BOOLEAN : Poll(now)
    \/ PollFails \/ PollDies
    \/ \E named \in BOOLEAN : Dump(named)
    \/ \E connected \in BOOLEAN, state \in RunState \cup {None} :
            Snapshot(connected, state)
    \/ ProgramState

-----------------------------------------------------------------------------
\* AuditLog.record() publishes what it recorded.
Audit(p) ==
    /\ p # Poller
    /\ Publish(p, "audit")
    /\ UNCHANGED <<pollerVars, viewVars>>

OfferStep(p) == Offer(p) /\ UNCHANGED <<pollerVars, viewVars>>

FaultKind == {"fault.latched", "fault.cleared"}

ReadEvent(s) ==
    /\ Read(s)
    /\ view' = IF reader[s] = "reading" /\ Head(queue[s]).kind \in FaultKind
               THEN [view EXCEPT ![s] = Head(queue[s]).kind] ELSE view
    /\ UNCHANGED <<pollerVars, since>>

Subscriptions ==
    /\ Subscribing
    /\ since' = [s \in Sub |-> IF s \in subs' \ subs THEN faulted ELSE since[s]]
    /\ UNCHANGED <<pollerVars, view>>

PollerNext ==
    \/ PollerRound
    \/ \E p \in Publisher : Audit(p) \/ OfferStep(p)
    \/ \E s \in Sub : ReadEvent(s)
    \/ Subscriptions

PollerSpec == PollerInit /\ [][PollerNext]_allVars
PollerFairSpec == PollerSpec /\ \A p \in Publisher : WF_allVars(OfferStep(p))

-----------------------------------------------------------------------------
(* Properties.                                                             *)

\* What a fault event says of the arm, and what those a reader got say.
Says(kind) == kind = "fault.latched"
Believes(s) == IF view[s] = None THEN since[s] ELSE Says(view[s])

\* A reader of fault events that has read all there is, and was told of no gap,
\* knows what the poller knows; what it starts from it has to ask for, since the
\* first reading is not an edge (eventbus.py:20-24, 156-166; app.py:262-277).
KnowsTheFault ==
    \A s \in Sub : Quiet(s) /\ told[s] = 0 /\ FaultKind \subseteq filter[s] =>
        Believes(s) = faulted

(***************************************************************************)
(* The inductive invariant of the proofs.                                  *)
(***************************************************************************)
Faults(q) == {i \in DOMAIN q : q[i].kind \in FaultKind}

\* A subscription is in the bus's list while its reader is there, and nothing is
\* on its way to it before it is made; only the poller publishes fault events,
\* and none before its first reading.
PollerSound ==
    /\ \A s \in Sub : s \in subs <=> reader[s] \in {"reading", "got"}
    /\ \A s \in Sub : reader[s] = "unmade" =>
            Offering(s) = {} /\ queue[s] = <<>> /\ view[s] = None
    /\ \A p \in Publisher : event[p] # None /\ event[p].kind \in FaultKind =>
            p = Poller /\ faulted # None
    /\ \A s \in Sub : Faults(queue[s]) # {} \/ view[s] # None => faulted # None

\* The last fault event that was read from, waits in, or is offered to the queue
\* of a reader that lost nothing says what the poller knows.
ViewSound ==
    \A s \in subs : evicted[s] = 0 /\ FaultKind \subseteq filter[s] =>
        IF s \in targets[Poller] /\ event[Poller].kind \in FaultKind
        THEN Says(event[Poller].kind) = faulted
        ELSE IF Faults(queue[s]) # {}
        THEN \A i \in Faults(queue[s]) :
                (\A j \in Faults(queue[s]) : j <= i) => Says(queue[s][i].kind) = faulted
        ELSE Believes(s) = faulted

PollerInv ==
    /\ BusInv
    /\ PollerTypeOK
    /\ PollerSound
    /\ ViewSound
=============================================================================
