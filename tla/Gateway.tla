------------------------------- MODULE Gateway -------------------------------
(***************************************************************************)
(* The command path of the gateway: the control lock (ControlLock), the    *)
(* gates of the routes that move the arm, their transmission, the stop     *)
(* routes, and what the disconnect watchdog does when a lease lapses       *)
(* (src/fws/app.py, move_api.py, programs_api.py, control_api.py).         *)
(*                                                                         *)
(* A handler runs on a pool thread. A route that moves asks held_by(),     *)
(* then check(), runs its pre-flight and transmits; other threads, and the *)
(* clock, may come in between any two of these. A stop route and the       *)
(* watchdog's on_lapse send a cascade of stops, one RPC after the other.   *)
(* on_lapse runs on the reaper thread, between two steps of ControlLock:   *)
(* ControlLock's Fire is its end.                                          *)
(*                                                                         *)
(* The controller is external: jogs, moves and the Lua interpreter are     *)
(* modelled by what each RPC starts and stops.                             *)
(***************************************************************************)
EXTENDS ControlLock, Sequences

CONSTANTS
    Handler,    \* request threads
    Reaper,     \* the reaper thread
    Motion,     \* the domain "motion"
    Program     \* the domain "program"

Agent == Handler \cup {Reaper}

\* Routes by how they let a request through: by _require() or the programs'
\* _lock() (jogs, and running, pausing and resuming a program), by
\* _require_motion() (moves), or always (the three stop routes).
Gated == {"require", "requireMotion"}
Stops == {"stop", "stopProgram", "safetyStop"}
Route == Gated \cup Stops

ASSUME GatewayAssumption ==
    /\ Reaper \notin Handler
    /\ {Motion, Program} \subseteq Domain /\ Motion # Program

VARIABLES
    req,        \* handler -> the request it works on, or None
    serving,    \* the lease whose on_lapse runs, or None
    todo,       \* agent -> the stops it has yet to send
    failed,     \* agent -> the stops whose result is "error"
    escaped,    \* the agents whose cascade an exception cut short
    jogging,    \* external: a StartJOG is being carried out
    moving,     \* external: a MoveL is being carried out
    program,    \* external: the Lua interpreter
    before,     \* history: agent -> what has been going on since before its
                \* cascade began
    misread     \* history: the agents whose reading of the program's state was
                \* no state

cascadeVars == <<serving, todo, failed, escaped>>
armVars == <<jogging, moving, program>>
historyVars == <<before, misread>>
gatewayVars == <<req, cascadeVars, armVars, historyVars>>
allVars == <<vars, gatewayVars>>

Pending == [at : {"gate", "check", "cleared", "stopping"}, route : Route,
             token : Token \cup {None}, under : Token \cup {None}]

StopRPC == {"ReadProgram", "ProgramStop", "ImmStopJOG", "StopMotion"}
Activity == {"jog", "move", "program"}

GatewayTypeOK ==
    /\ req \in [Handler -> Pending \cup {None}]
    /\ serving \in Token \cup {None}
    /\ todo \in [Agent -> Seq(StopRPC)] /\ \A a \in Agent : Len(todo[a]) <= 3
    /\ failed \in [Agent -> SUBSET StopRPC]
    /\ escaped \in SUBSET Agent
    /\ jogging \in BOOLEAN /\ moving \in BOOLEAN
    /\ program \in {"stopped", "running", "paused", "halfStopped"}
    /\ before \in [Agent -> SUBSET Activity]
    /\ misread \in SUBSET Agent

GatewayInit ==
    /\ Init
    /\ req = [h \in Handler |-> None]
    /\ serving = None
    /\ todo = [a \in Agent |-> <<>>]
    /\ failed = [a \in Agent |-> {}]
    /\ escaped = {}
    /\ jogging = FALSE
    /\ moving = FALSE
    /\ program = "stopped"
    /\ before = [a \in Agent |-> {}]
    /\ misread = {}

-----------------------------------------------------------------------------
(* The arm.                                                                *)

Going == {x \in Activity : \/ x = "jog" /\ jogging
                           \/ x = "move" /\ moving
                           \/ x = "program" /\ program = "running"}

\* What began before a cascade stays in its history while it goes on.
StillGoing ==
    /\ before' = [a \in Agent |-> before[a] \cap Going']
    /\ UNCHANGED misread

\* A bounded jog, a move or a program comes to its own end.
ActivityEnds ==
    /\ \/ jogging /\ jogging' = FALSE /\ UNCHANGED <<moving, program>>
       \/ moving /\ moving' = FALSE /\ UNCHANGED <<jogging, program>>
       \/ program = "running" /\ program' = "stopped" /\ UNCHANGED <<jogging, moving>>
    /\ StillGoing
    /\ UNCHANGED <<vars, req, cascadeVars>>

-----------------------------------------------------------------------------
(* Routes that move.                                                       *)

Arrive(h, r, t) ==
    /\ req[h] = None
    /\ r \in Gated
    /\ t # None => lease[t] # None
    /\ req' = [req EXCEPT ![h] = [at |-> "gate", route |-> r, token |-> t, under |-> None]]
    /\ UNCHANGED <<vars, cascadeVars, armVars, historyVars>>

\* Where a gate takes the request: let through under lease t (None: unheld),
\* on to its next step, or its end.
To(h, where) == req' = [req EXCEPT ![h].at = where]
Clear(h, t) ==
    req' = [req EXCEPT ![h] = [@ EXCEPT !.at = "cleared", !.token = None, !.under = t]]
Finish(h) == req' = [req EXCEPT ![h] = None]

\* _require() and the programs' _lock(): an unheld domain is free for all.
RequireLook(h) ==
    /\ req[h] # None /\ req[h].at = "gate" /\ req[h].route = "require"
    /\ IF HeldBy(Motion) = None THEN Clear(h, None) ELSE To(h, "check")
    /\ UNCHANGED <<vars, cascadeVars, armVars, historyVars>>

\* _require_motion(): a move needs a lease.
RequireMotionLook(h) ==
    /\ req[h] # None /\ req[h].at = "gate" /\ req[h].route = "requireMotion"
    /\ IF HeldBy(Motion) = None THEN Finish(h) ELSE To(h, "check")
    /\ UNCHANGED <<vars, cascadeVars, armVars, historyVars>>

\* check() looks the holder up again.
Check(h) ==
    /\ req[h] # None /\ req[h].at = "check"
    /\ IF HeldBy(Motion) \in {None, req[h].token} THEN Clear(h, HeldBy(Motion))
                                                  ELSE Finish(h)
    /\ UNCHANGED <<vars, cascadeVars, armVars, historyVars>>

\* A pre-flight refuses, or the RPC fails before the controller acts on it.
PreflightFails(h) ==
    /\ req[h] # None /\ req[h].at = "cleared"
    /\ Finish(h)
    /\ UNCHANGED <<vars, cascadeVars, armVars, historyVars>>

\* The command reaches the controller, whether or not its answer comes back.
Transmit(h, r) ==
    /\ req[h] # None /\ req[h].at = "cleared" /\ req[h].route = r
    /\ Finish(h)
    /\ StillGoing
    /\ UNCHANGED <<vars, cascadeVars>>

SendJog(h) ==
    /\ jogging' = TRUE
    /\ UNCHANGED <<moving, program>>
    /\ Transmit(h, "require")

SendMove(h) ==
    /\ moving' = TRUE
    /\ UNCHANGED <<jogging, program>>
    /\ Transmit(h, "requireMotion")

SendRun(h) ==
    /\ program' = IF program = "stopped" THEN "running" ELSE program
    /\ UNCHANGED <<jogging, moving>>
    /\ Transmit(h, "require")

SendPause(h) ==
    /\ program' = IF program = "running" THEN "paused" ELSE program
    /\ UNCHANGED <<jogging, moving>>
    /\ Transmit(h, "require")

SendResume(h) ==
    /\ program' = IF program = "paused" THEN "running" ELSE program
    /\ UNCHANGED <<jogging, moving>>
    /\ Transmit(h, "require")

Send(h) == SendJog(h) \/ SendMove(h) \/ SendRun(h) \/ SendPause(h) \/ SendResume(h)

-----------------------------------------------------------------------------
(* Stops.                                                                  *)

\* An agent begins a cascade.
Begin(a, stops) ==
    /\ todo' = [todo EXCEPT ![a] = stops]
    /\ failed' = [failed EXCEPT ![a] = {}]
    /\ before' = [before EXCEPT ![a] = Going]
    /\ escaped' = escaped \ {a}
    /\ misread' = misread \ {a}

\* The RPCs of a stop route, in their order. (The outputs that /safety/stop
\* switches off first are not part of the arm.)
StopsOf(r) ==
    CASE r = "stop" -> <<"ImmStopJOG", "StopMotion">>
      [] r = "stopProgram" -> <<"ProgramStop", "StopMotion">>
      [] r = "safetyStop" -> <<"ProgramStop", "StopMotion", "ImmStopJOG">>

\* The stop routes ask for no lease.
ArriveStop(h, r) ==
    /\ req[h] = None
    /\ r \in Stops
    /\ req' = [req EXCEPT ![h] = [at |-> "stopping", route |-> r,
                                  token |-> None, under |-> None]]
    /\ Begin(h, StopsOf(r))
    /\ UNCHANGED <<vars, serving, armVars>>

\* Mutant of LapseStops: the motion cascade comes first.
LapseStopsMotionFirst(ds) ==
    (IF Motion \in ds THEN <<"ImmStopJOG", "StopMotion">> ELSE <<>>)
    \o (IF Program \in ds THEN <<"ReadProgram">> ELSE <<>>)

\* What the lapse of a lease on ds sends. The domains are those the lease was
\* granted, whether or not it still held them all.
LapseStops(ds) ==
    (IF Program \in ds THEN <<"ReadProgram">> ELSE <<>>)
    \o (IF Motion \in ds THEN <<"ImmStopJOG", "StopMotion">> ELSE <<>>)

LapseBegins(t) ==
    /\ reaper = "fire"
    /\ t \in lapsed
    /\ serving = None
    /\ serving' = t
    /\ Begin(Reaper, LapseStops(lease[t].domains))
    /\ UNCHANGED <<vars, req, armVars>>

\* What an RPC does to the arm. A StopMotion cuts into the move of a running
\* program and leaves the interpreter half-stopped.
Effect(rpc) ==
    /\ jogging' = (jogging /\ rpc # "ImmStopJOG")
    /\ moving' = (moving /\ rpc # "StopMotion")
    /\ program' = IF rpc = "ProgramStop" /\ program \in {"running", "paused"} THEN "stopped"
                  ELSE IF rpc = "StopMotion" /\ program = "running" THEN "halfStopped"
                  ELSE program

NoEffect == UNCHANGED armVars

\* The next stop is answered with success. _stop_program_if_running() sends
\* ProgramStop only if it read a program running or paused.
StopAnswered(a) ==
    /\ todo[a] # <<>>
    /\ Effect(Head(todo[a]))
    /\ todo' = [todo EXCEPT ![a] =
                    IF Head(@) = "ReadProgram" /\ program \in {"running", "paused"}
                    THEN <<"ProgramStop">> \o Tail(@) ELSE Tail(@)]
    /\ StillGoing
    /\ UNCHANGED <<vars, req, serving, failed, escaped>>

\* Mutant of StopRefused: the first stop that fails ends the cascade.
StopRefusedEndsCascade(a) ==
    /\ todo[a] # <<>>
    /\ Effect(Head(todo[a])) \/ NoEffect
    /\ todo' = [todo EXCEPT ![a] = <<>>]
    /\ failed' = [failed EXCEPT ![a] = @ \cup {Head(todo[a])}]
    /\ StillGoing
    /\ UNCHANGED <<vars, req, serving, escaped>>

\* Mutant of StopRefused: the stop is sent again until it is answered.
StopRefusedRetries(a) ==
    /\ todo[a] # <<>>
    /\ Effect(Head(todo[a])) \/ NoEffect
    /\ failed' = [failed EXCEPT ![a] = @ \cup {Head(todo[a])}]
    /\ StillGoing
    /\ UNCHANGED <<vars, req, serving, todo, escaped>>

\* A RobotError: an answer with an error code, a fault, the breaker, or no
\* answer to a stop that may have been carried out. It is noted in the results
\* and the cascade goes on.
StopRefused(a) ==
    /\ todo[a] # <<>>
    /\ Effect(Head(todo[a])) \/ NoEffect
    /\ todo' = [todo EXCEPT ![a] = Tail(@)]
    /\ failed' = [failed EXCEPT ![a] = @ \cup {Head(todo[a])}]
    /\ StillGoing
    /\ UNCHANGED <<vars, req, serving, escaped>>

\* An exception that is no RobotError (an answer that is not XML-RPC) leaves
\* the cascade and everything behind it.
StopEscapes(a) ==
    /\ todo[a] # <<>>
    /\ Effect(Head(todo[a])) \/ NoEffect
    /\ todo' = [todo EXCEPT ![a] = <<>>]
    /\ escaped' = escaped \cup {a}
    /\ StillGoing
    /\ UNCHANGED <<vars, req, serving, failed>>

\* GetProgramState answers with an error code. Only the second element of the
\* answer is looked at, so that this counts as "not running".
ProgramMisread(a) ==
    /\ todo[a] # <<>> /\ Head(todo[a]) = "ReadProgram"
    /\ todo' = [todo EXCEPT ![a] = Tail(@)]
    /\ misread' = misread \cup {a}
    /\ UNCHANGED <<vars, req, serving, failed, escaped, armVars, before>>

StopStep(a) ==
    StopAnswered(a) \/ StopRefused(a) \/ StopEscapes(a) \/ ProgramMisread(a)

\* The results of a cascade go out of scope.
Forget(a) ==
    /\ failed' = [failed EXCEPT ![a] = {}]
    /\ escaped' = escaped \ {a}
    /\ misread' = misread \ {a}
    /\ before' = [before EXCEPT ![a] = {}]

\* The stop route answers, with its results or with an internal error.
StopResponds(h) ==
    /\ req[h] # None /\ req[h].at = "stopping"
    /\ todo[h] = <<>>
    /\ Finish(h)
    /\ Forget(h)
    /\ UNCHANGED <<vars, serving, todo, armVars>>

\* Mutant of LapseEnds: an exception ends the reaper thread.
LapseEndsUnguarded ==
    /\ serving # None
    /\ todo[Reaper] = <<>>
    /\ lapsed' = lapsed \ {serving}
    /\ fate' = [fate EXCEPT ![serving] = "fired"]
    /\ reaper' = IF Reaper \in escaped THEN "exited"
                 ELSE IF lapsed' = {} THEN "wait" ELSE "fire"
    /\ serving' = None
    /\ Forget(Reaper)
    /\ UNCHANGED <<now, lease, table, acq, reapNow, lapseErrors, stopping,
                   req, todo, armVars>>

\* on_lapse returns or raises, and the reaper goes on (ControlLock's Fire).
LapseEnds ==
    /\ serving # None
    /\ todo[Reaper] = <<>>
    /\ Fire(serving, Reaper \in escaped)
    /\ serving' = None
    /\ Forget(Reaper)
    /\ UNCHANGED <<req, todo, armVars>>

-----------------------------------------------------------------------------
Move(h) ==
    \/ \E r \in Gated, t \in Token \cup {None} : Arrive(h, r, t)
    \/ RequireLook(h) \/ RequireMotionLook(h) \/ Check(h) \/ PreflightFails(h)
    \/ Send(h)

StopRoute(h) ==
    \/ \E r \in Stops : ArriveStop(h, r)
    \/ StopStep(h)
    \/ StopResponds(h)

\* on_lapse, on the reaper thread.
OnLapse ==
    \/ \E t \in Token : LapseBegins(t)
    \/ StopStep(Reaper)
    \/ LapseEnds

\* Everything else the lock does; the lease routes only call it.
LockReaps == (ReapRead \/ ReapRemove \/ ReaperExit) /\ UNCHANGED gatewayVars
TimePasses == Tick /\ UNCHANGED gatewayVars
LeaseRoute == Request /\ UNCHANGED gatewayVars
Shutdown == Close /\ UNCHANGED gatewayVars

GatewayNext ==
    \/ \E h \in Handler : Move(h) \/ StopRoute(h)
    \/ OnLapse
    \/ ActivityEnds
    \/ LockReaps
    \/ TimePasses
    \/ LeaseRoute
    \/ Shutdown

(***************************************************************************)
(* Fairness: that of the reaper thread, whose RPCs end (the transport has  *)
(* a socket timeout). No client has to do anything.                        *)
(***************************************************************************)
GatewayFairness == WF_allVars(OnLapse) /\ WF_allVars(LockReaps)

GatewaySpec == GatewayInit /\ [][GatewayNext]_allVars
GatewayFairSpec == GatewaySpec /\ GatewayFairness

-----------------------------------------------------------------------------
(* Properties.                                                             *)

Queued(a) == {todo[a][i] : i \in DOMAIN todo[a]}

\* The stops that end an activity, and the activities a cascade is to end.
Against(x) == CASE x = "jog" -> {"ImmStopJOG"}
                [] x = "move" -> {"StopMotion"}
                [] x = "program" -> {"ReadProgram", "ProgramStop"}

LapseEndsWhat(t) ==
    (IF Motion \in lease[t].domains THEN {"jog", "move"} ELSE {})
    \cup (IF Program \in lease[t].domains THEN {"program"} ELSE {})

RouteEndsWhat(r) == CASE r = "stop" -> {"jog", "move"}
                      [] r = "stopProgram" -> {"move", "program"}
                      [] r = "safetyStop" -> Activity

Promised(a) ==
    IF a = Reaper THEN IF serving = None THEN {} ELSE LapseEndsWhat(serving)
    ELSE IF req[a] # None /\ req[a].at = "stopping" THEN RouteEndsWhat(req[a].route)
    ELSE {}

\* Whatever was under way when a stop or a lapse began its cascade, and is
\* among what that cascade is for, is over, or its stop is still to be sent, or
\* the results say that it failed: one refused stop does not deny the others
\* (app.py:148-161, 173-180, 755-776; programs_api.py:443-451;
\* control_api.py:304-347). An exception
\* ends a cascade, and a program whose state cannot be read is not stopped.
StopsReachTheArm ==
    \A a \in Agent \ escaped : \A x \in Promised(a) \cap before[a] :
        \/ Against(x) \cap (Queued(a) \cup failed[a]) # {}
        \/ x = "program" /\ a \in misread

\* This step is the watchdog's StopMotion, and it cuts into a program that
\* was running when the watchdog began, read as such and not refused to stop.
CutsProgram ==
    /\ serving # None
    /\ todo[Reaper] # <<>> /\ Head(todo[Reaper]) = "StopMotion"
    /\ todo'[Reaper] # todo[Reaper]
    /\ "program" \in before[Reaper] /\ program' = "halfStopped"
    /\ failed[Reaper] = {} /\ Reaper \notin misread

\* The lapse of a lease that covers the program stops it through the
\* interpreter before it stops motion (app.py:167-178).
ProgramStoppedFirst ==
    [][CutsProgram => Program \notin lease[serving].domains]_allVars

\* Every lapse's on_lapse call comes to its end, whatever its stops came to.
EveryLapseIsServed == LapseIsReported

\* The gateway drives the lock as ControlLock specifies: an on_lapse that
\* takes many steps, among those of other threads, is one Fire.
DrivesTheLock == Spec

(***************************************************************************)
(* The inductive invariant of the proofs: besides the lock's own, on_lapse *)
(* is called for a lease the reaper took out of the table.                 *)
(***************************************************************************)
ServingSound == serving # None => serving \in lapsed

GatewayInv ==
    /\ IInv
    /\ GatewayTypeOK
    /\ ServingSound
    /\ StopsReachTheArm

\* "A running program is stopped through the interpreter (ProgramStop) BEFORE
\* the motion cascade" (app.py:167-171). (Not when the lease covers motion
\* alone, which is all that starting a program asks for.)
WatchdogCutsNoProgram == [][~CutsProgram]_allVars

\* "A move must be stoppable by the watchdog if you disappear mid-motion"
\* (move_api.py:78-79): when a move goes out that was let through under a lease,
\* that lease is held, or was given up by its client or an operator, or the
\* StopMotion of its lapse is still to come; lapses whose stops failed are left
\* aside. (Not so: it may have been sent, and answered, before the move. And a
\* move that its second look let through under no lease at all has none to come.)
StopToCome(t) ==
    \/ t \in Held
    \/ t \in lapsed /\ (serving # t \/ "StopMotion" \in Queued(Reaper))
LapseFailed == Reaper \in escaped \/ "StopMotion" \in failed[Reaper] \/ lapseErrors
MoveIsStoppable ==
    [][\A h \in Handler : SendMove(h) /\ req[h].under # None =>
            \/ StopToCome(req[h].under)
            \/ fate[req[h].under] = "goodbye" \/ LapseFailed]_allVars

\* "A failed lapse callback means a stop was NOT issued for a holder that went
\* away. Counted cumulatively" (control.py:128-131): a lapse that leaves going
\* what it was to stop is counted. (Not when the stop was refused.)
MissedStopsAreCounted ==
    [][serving # None /\ serving' = None /\ Promised(Reaper) \cap before[Reaper] # {}
           => lapseErrors']_allVars
=============================================================================
