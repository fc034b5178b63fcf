---------------------------- MODULE Capabilities ----------------------------
(***************************************************************************)
(* What the gateway believes of the controller's firmware                  *)
(* (src/fws/capabilities.py): a map of verdicts, filled by a sweep over    *)
(* all the probes and corrected by single probes of has() and require(),   *)
(* each of which asks the controller with nothing held and then writes.    *)
(*                                                                         *)
(* A supported getter answers an error code while the controller is        *)
(* faulted, and so may a getter that the firmware lacks; the fault is read *)
(* by a call of its own. Fifteen seconds are a set: the features that were *)
(* probed again a short while ago.                                         *)
(***************************************************************************)
EXTENDS Naturals, FiniteSets

CONSTANTS
    Thread,     \* request threads, and the one that starts the gateway
    Feature,    \* the probed features
    Supported,  \* external: those the firmware has
    MaxMoves,   \* bound: how often the controller faults, recovers, goes or comes
    MaxSweeps,  \* bound: sweeps
    None

ASSUME CapabilitiesAssumption ==
    Feature # {} /\ Supported \subseteq Feature /\ MaxMoves \in Nat /\ MaxSweeps \in Nat

VARIABLES
    up, faulted,  \* external: it can be reached; it is in a fault
    map,          \* Capabilities._map; a feature that is not in it is unknown
    cooling,      \* those _reprobed_at holds back
    job,          \* thread -> what it is at, or None
    moves, sweeps \* bounds: what is left

external == <<up, faulted, moves>>
capabilitiesVars == <<external, map, cooling, job, sweeps>>

State == {"available", "absent", "unknown"}

\* sure: history, it is absence, and the fault was read and stayed as it was read.
Verdict == [state : State, sure : BOOLEAN]
Unknown == [state |-> "unknown", sure |-> FALSE]

\* fault: as it was read; found: the verdicts of a sweep; clean: history.
Job == [kind : {"sweep", "single"}, at : {"gate", "readFault", "ask", "judge", "store"},
        todo : SUBSET Feature, fault : BOOLEAN,
        found : [Feature -> Verdict \cup {None}], clean : BOOLEAN]

CapabilitiesTypeOK ==
    /\ up \in BOOLEAN /\ faulted \in BOOLEAN
    /\ map \in [Feature -> Verdict]
    /\ cooling \subseteq Feature
    /\ job \in [Thread -> Job \cup {None}]
    /\ moves \in 0..MaxMoves /\ sweeps \in 0..MaxSweeps

Nothing == [f \in Feature |-> None]

CapabilitiesInit ==
    /\ up \in BOOLEAN /\ faulted \in BOOLEAN
    /\ map = [f \in Feature |-> Unknown]
    /\ cooling = {}
    /\ job = [h \in Thread |-> None]
    /\ moves = MaxMoves /\ sweeps = MaxSweeps

\* The controller faults or recovers, comes or goes.
Moves ==
    /\ moves > 0 /\ moves' = moves - 1
    /\ \/ faulted' = ~faulted /\ up' = up
       \/ up' = ~up /\ faulted' = faulted
    /\ job' = [h \in Thread |->
                 IF job[h] = None THEN None ELSE [job[h] EXCEPT !.clean = @ /\ faulted' = faulted]]
    /\ UNCHANGED <<map, cooling, sweeps>>

CoolDown(f) ==
    /\ f \in cooling /\ cooling' = cooling \ {f}
    /\ UNCHANGED <<external, map, job, sweeps>>

At(h, place) == job[h] # None /\ job[h].at = place
Becomes(h, j) == job' = [job EXCEPT ![h] = j]
NewJob(kind, place, features) ==
    [kind |-> kind, at |-> place, todo |-> features, fault |-> FALSE,
     found |-> Nothing, clean |-> TRUE]

StateOf(f) == map[f].state

-----------------------------------------------------------------------------
(* probe(), has() and require(), up to their first call.                   *)

StartSweep(h) ==
    /\ job[h] = None /\ sweeps > 0 /\ sweeps' = sweeps - 1
    /\ Becomes(h, NewJob("sweep", "readFault", Feature))
    /\ UNCHANGED <<external, map, cooling>>

\* What is known is answered at once.
Has(h, f) ==
    /\ job[h] = None /\ StateOf(f) = "unknown"
    /\ Becomes(h, NewJob("single", "gate", {f}))
    /\ UNCHANGED <<external, map, cooling, sweeps>>

\* _reprobe_unknown(): at most one probe of a feature in every interval.
Gate(h) ==
    /\ At(h, "gate")
    /\ \A f \in job[h].todo :
         IF f \in cooling
         THEN Becomes(h, None) /\ cooling' = cooling
         ELSE Becomes(h, [job[h] EXCEPT !.at = "ask"]) /\ cooling' = cooling \cup {f}
    /\ UNCHANGED <<external, map, sweeps>>

\* require() asks again without a limit.
Require(h, f) ==
    /\ job[h] = None /\ StateOf(f) = "unknown"
    /\ Becomes(h, NewJob("single", "ask", {f}))
    /\ UNCHANGED <<external, map, cooling, sweeps>>

-----------------------------------------------------------------------------
(* The probes.                                                             *)

\* _is_faulted(): a fault that cannot be read is taken for none.
FaultRead == up /\ faulted

ReadFault(h) ==
    /\ At(h, "readFault")
    /\ Becomes(h, [job[h] EXCEPT !.at = "ask", !.fault = FaultRead, !.clean = up])
    /\ UNCHANGED <<external, map, cooling, sweeps>>

\* What the controller may say to a getter: there is no such method, an error
\* code, or a value; and in a fault what is neither code nor list, or no XML-RPC.
\* As long as it cannot be reached, the call is lost. No probe is of a method
\* that the driver refuses.
Answers(f) ==
    (IF up THEN {} ELSE {"lost"})
    \cup (IF up /\ f \notin Supported THEN {"noMethod", "code"} ELSE {})
    \cup (IF up /\ f \in Supported THEN {"value"} ELSE {})
    \cup (IF up /\ f \in Supported /\ faulted THEN {"code"} ELSE {})
    \cup (IF up /\ faulted THEN {"odd", "noReply"} ELSE {})

\* Mutant: an error code is proof of absence.
JudgedByCode(answer, fault, clean) ==
    [state |-> CASE answer = "value" -> "available"
                 [] answer \in {"noMethod", "code"} -> "absent"
                 [] answer \in {"lost", "odd"} -> "unknown",
     sure |-> clean /\ answer \in {"noMethod", "code"}]

\* _probe_one(): an error code proves absence only while there is no fault.
Judged(answer, fault, clean) ==
    [state |-> CASE answer = "value" -> "available"
                 [] answer = "noMethod" \/ (answer = "code" /\ ~fault) -> "absent"
                 [] answer \in {"lost", "odd"} \/ (answer = "code" /\ fault) -> "unknown",
     sure |-> clean /\ (answer = "noMethod" \/ (answer = "code" /\ ~fault))]

Found(h, f, verdict) ==
    LET rest == job[h].todo \ {f}
    IN  Becomes(h, [job[h] EXCEPT !.todo = rest, !.found = [@ EXCEPT ![f] = verdict],
                                  !.at = IF rest = {} THEN "store" ELSE "ask"])

\* One fault read serves a sweep; a single probe reads it after an error code.
\* An answer that is no XML-RPC raises out of the probe, and of the sweep with it.
Ask(h) ==
    /\ At(h, "ask")
    /\ LET f == CHOOSE x \in job[h].todo : TRUE IN
         \E answer \in Answers(f) :
            IF answer = "noReply" THEN Becomes(h, None)
            ELSE IF job[h].kind # "sweep" /\ answer = "code"
            THEN Becomes(h, [job[h] EXCEPT !.at = "judge"])
            ELSE Found(h, f, Judged(answer, job[h].fault, job[h].clean))
    /\ UNCHANGED <<external, map, cooling, sweeps>>

Judge(h) ==
    /\ At(h, "judge")
    /\ \A f \in job[h].todo : Found(h, f, Judged("code", FaultRead, job[h].clean /\ up))
    /\ UNCHANGED <<external, map, cooling, sweeps>>

\* Mutant: a single verdict is answered and not kept.
StoreSweeps(h) ==
    /\ At(h, "store")
    /\ map' = IF job[h].kind = "sweep" THEN job[h].found ELSE map
    /\ Becomes(h, None)
    /\ UNCHANGED <<external, cooling, sweeps>>

\* A sweep replaces the whole map, a single probe its own entry, whatever was
\* written since they asked.
Store(h) ==
    /\ At(h, "store")
    /\ map' = [f \in Feature |-> IF job[h].found[f] = None THEN map[f] ELSE job[h].found[f]]
    /\ Becomes(h, None)
    /\ UNCHANGED <<external, cooling, sweeps>>

GoOn(h) == Gate(h) \/ ReadFault(h) \/ Ask(h) \/ Judge(h) \/ Store(h)

CapabilitiesNext ==
    \/ Moves
    \/ \E f \in Feature : CoolDown(f)
    \/ \E h \in Thread : \/ StartSweep(h) \/ GoOn(h)
                         \/ \E f \in Feature : Has(h, f) \/ Require(h, f)

CapabilitiesSpec == CapabilitiesInit /\ [][CapabilitiesNext]_capabilitiesVars

\* Calls time out, time passes, and the state that clients poll asks
\* for every feature that is not known yet, again and again.
CapabilitiesFair ==
    /\ CapabilitiesSpec
    /\ \A f \in Feature : WF_capabilitiesVars(CoolDown(f))
    /\ \A h \in Thread : WF_capabilitiesVars(GoOn(h))
    /\ \A f \in Feature : SF_capabilitiesVars(\E h \in Thread : Has(h, f))

-----------------------------------------------------------------------------
(* Properties.                                                             *)

\* ABSENT is a fact about the firmware: a verdict that says so of a supported
\* feature was reached over a fault that came or went between the two calls, or
\* that could not be read (capabilities.py _probe_one, probe).
AbsentIsTrue ==
    \A f \in Feature : map[f].state = "absent" /\ map[f].sure => f \notin Supported

\* A verdict that could not be reached heals by itself once the controller
\* answers and has no fault, even if a sweep begun before writes over it
\* (capabilities.py has, _reprobe_unknown).
UnknownHeals ==
    <>[](up /\ ~faulted) => \A f \in Feature : <>[](StateOf(f) # "unknown")

=============================================================================
