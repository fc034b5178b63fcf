----------------------------- MODULE Requests ------------------------------
(***************************************************************************)
(* What a request must pass before the gateway calls the controller, route *)
(* by route: the rows of Routes and FileKinds, and the generic invoker's   *)
(* (src/fws/invoke.py, invoke_api.py, commands_api.py, access.py), run     *)
(* behind the middlewares of Startup.                                      *)
(*                                                                         *)
(* The lease changes hands between any two steps, the two looks of a gate  *)
(* among them, and a call comes to whatever the controller makes of it:    *)
(* what the driver knows as an error, or an answer that it does not know,  *)
(* whose exception leaves the handler. Requests come one at a time;        *)
(* Gateway has the interleavings of several.                               *)
(***************************************************************************)
EXTENDS Startup, FileKinds, SequencesExt

CONSTANT None

ASSUME NoneAssumption == None \notin {"config", "motion", "gone"}

-----------------------------------------------------------------------------
(* The generic invoker: one command of each kind the registry has.         *)

Command(wire, simple, danger, hazard) ==
    [wire |-> wire, simple |-> simple, danger |-> danger, hazard |-> hazard]

Commands ==
    [GetActualTCPPose |-> Command("GetActualTCPPose", TRUE, "read", None),
     GetActualTCPSpeed |-> Command("none", FALSE, "read", None),
     ProgramStop |-> Command("ProgramStop", TRUE, "stop", None),
     ResetAllError |-> Command("ResetAllError", TRUE, "stop", None),
     SetSpeed |-> Command("SetSpeed", TRUE, "config", None),
     WaitMs |-> Command("WaitMs", TRUE, "config", "blocks-the-rpc-lock"),
     SetAnticollision |-> Command("SetAnticollision", TRUE, "config", "weakens-a-safety-guard"),
     MoveGripper |-> Command("MoveGripper", TRUE, "motion", None),
     AxleSensorActivate |-> Command("AxleSensorActivate", TRUE, "unknown", None),
     MoveL |-> Command("none", FALSE, "motion", None),
     GetLuaList |-> Command("none", FALSE, "refused", None),
     ShutDownRobotOS |-> Command("ShutDownRobotOS", TRUE, "refused", None)]

Verified == {"GetActualTCPPose", "ResetAllError"}
Recovered == {"GetActualTCPSpeed"}
TypedRouteOwned == {"ResetAllError"}

\* REFUSED, which the driver will not send unless it is told to.
DriverRefused == {"ShutDownRobotOS", "GetLuaList", "SoftwareUpgrade"}
Barred(method) == method \in DriverRefused /\ ~latched

Known(name) == name \in DOMAIN Commands

\* check_callable(): 200 if it is.
CheckCallable(name) ==
    LET c == Commands[name] IN
    IF latched THEN 200
    ELSE IF name \in TypedRouteOwned THEN 409
    ELSE IF c.danger = "refused" \/ c.wire \in DriverRefused THEN 403
    ELSE IF c.simple \/ name \in Recovered THEN 200
    ELSE 422

WireName(name) == IF name \in Recovered THEN name ELSE Commands[name].wire

\* A wrong form of it: the class alone decides.
RequirementsByClass(name) ==
    LET c == Commands[name] IN
    [domain |-> CASE c.danger \in {"read", "stop"} -> None
                  [] c.danger = "config" -> "config"
                  [] OTHER -> "motion",
     confirm |-> c.danger \in {"motion", "unknown"}]

\* requirements(): hazards add to what the class asks for.
Requirements(name) ==
    LET c == Commands[name]
        open == c.danger \in {"read", "stop"}
    IN  [domain |-> IF c.danger = "refused" \/ (open /\ c.hazard = None) THEN None
                    ELSE IF open \/ c.danger = "config" THEN "config"
                    ELSE "motion",
         confirm |-> c.danger # "refused"
                     /\ (c.danger \in {"motion", "unknown"} \/ c.hazard # None)]

\* The raw call is not recorded, and goes by the registry's name for it.
Generic(name) ==
    [invoke |-> <<Rule("known", 404), Rule("callable", 0), SoundOrFull("arguments", 422),
                  Rule("occupied", 428), Rule("gate", 0), Audit, Raw(WireName(name), 502)>>,
     commands |-> <<Rule("known", 404), Rule("callable", 0), SoundOrFull("arguments", 422),
                    Enabled("passthrough"), Rule("verified", 403), Rule("open", 428),
                    Raw(Commands[name].wire, 502)>>]

-----------------------------------------------------------------------------
(* Requests.                                                               *)

GenericRoutes == {"invoke", "commands"}
Route == DOMAIN Handlers \cup GenericRoutes \cup FileRoutes \cup {"services"}

\* What the route's path names besides: a command, a kind of file, or nothing.
Named(route) ==
    IF route \in GenericRoutes THEN DOMAIN Commands \cup {None}
    ELSE IF route \in FileRoutes THEN DOMAIN FileTypes \cup DOMAIN RefusedKinds \cup {None}
    ELSE {None}

Handler(route, name) ==
    IF route \in FileRoutes THEN FileRow(route, name)
    ELSE IF route = "services" THEN ServicesRow(cfg.flags)
    ELSE IF route \notin GenericRoutes THEN Handlers[route]
    ELSE IF Known(name) THEN Generic(name)[route]
    ELSE <<Rule("known", 404)>>

\* The row of a request, behind the middlewares: the read-only one is the outer.
Row(r) ==
    <<Step("writable", "none", 403), Step("keyed", "none", 401)>> \o Handler(r.route, r.name)

\* What of a request may be wrong: one of the things its row looks at, or nothing.
Flaws(row) == {None} \cup {s.of : s \in {x \in ToSet(row) : x.does \in {"sound", "soundOrFull"}}}

\* Whether a row looks at the caller's lease token, and at confirmations.
LooksAt(row, checks) ==
    IF \E s \in ToSet(row) : s.does \in checks \/ (s.does = "rule" /\ s.of \in {"gate", "open"})
    THEN BOOLEAN ELSE {FALSE}

VARIABLES
    req,        \* the request that is served, or None
    at,         \* the step it is at
    status,     \* its answer, 0 as long as there is none
    holder,     \* who holds the domain it asks for: "me", "other" or None
    sent,       \* the calls made for it
    recorded,   \* it is in the audit trail
    warrant     \* history: the domain whose lease a gate last saw it hold, "gone" if the gate
                \* found on its second look that nobody held it any more, or None

requestVars == <<req, at, status, sent, recorded, warrant>>
vars == <<startVars, requestVars, holder>>

Init ==
    /\ StartInit
    /\ req = None
    /\ at = 1
    /\ status = 0
    /\ holder = None
    /\ sent = <<>>
    /\ recorded = FALSE
    /\ warrant = None

\* A request, with a token or none, a key or none, and every confirmation given or none.
Arrive(route, name) ==
    /\ stage = "serving" /\ req = None
    /\ LET row == Handler(route, name) IN
       \E token \in LooksAt(row, {"free", "freeOrFull", "checked"}), key \in BOOLEAN,
          confirm \in LooksAt(row, {"confirmed", "confirmedEver"}), flaw \in Flaws(row) :
           req' = [route |-> route, name |-> name, token |-> token, key |-> key,
                   confirm |-> confirm, flaw |-> flaw]
    /\ UNCHANGED <<startVars, at, status, holder, sent, recorded, warrant>>

Serving == req # None /\ status = 0 /\ at <= Len(Row(req))
Now == Row(req)[at]

Mine == holder = "me" /\ req.token

\* What _lock() answers: unheld counts as free.
FreeStatus == IF holder = None \/ Mine THEN 200 ELSE IF req.token THEN 423 ELSE 428

\* control.check(): another's lease refuses, and no lease does not.
Unopposed == holder = None \/ Mine

\* gate(), with what the second look adds to the first. What is missing is told at once in the
\* code: without a lease it answers 428, confirmed or not.
OccupiedStatus(name) ==
    IF latched \/ Requirements(name).domain = None \/ holder # None THEN 200 ELSE 428
GateStatus(name) ==
    LET needs == Requirements(name) IN
    IF latched THEN 200
    ELSE IF needs.domain # None /\ ~Unopposed THEN 423
    ELSE IF needs.confirm /\ ~req.confirm THEN 428
    ELSE 200

RuleStatus(s) ==
    CASE s.of = "known" -> IF Known(req.name) THEN 200 ELSE s.no
      [] s.of = "callable" -> CheckCallable(req.name)
      [] s.of = "occupied" -> OccupiedStatus(req.name)
      [] s.of = "gate" -> GateStatus(req.name)
      [] s.of = "verified" ->
            IF req.name \in Verified \/ "unverified" \in cfg.flags THEN 200 ELSE s.no
      [] s.of = "open" ->
            IF latched \/ Requirements(req.name).domain = None THEN 200 ELSE s.no

Verdict(s) ==
    CASE s.does = "writable" ->
            IF Writable(IF req.route \in GetRoutes THEN "GET" ELSE "POST") THEN 200 ELSE s.no
      [] s.does = "keyed" -> IF Authorised(req.route, req.key) THEN 200 ELSE s.no
      [] s.does = "enabled" -> IF s.of \in cfg.flags THEN 200 ELSE s.no
      [] s.does = "free" -> FreeStatus
      [] s.does = "freeOrFull" ->
            IF latched THEN 200 ELSE IF s.no = 0 \/ FreeStatus = 200 THEN FreeStatus ELSE s.no
      [] s.does = "occupied" -> IF latched \/ holder # None THEN 200 ELSE s.no
      [] s.does = "checked" -> IF latched \/ Unopposed THEN 200 ELSE s.no
      [] s.does = "confirmed" -> IF latched \/ req.confirm THEN 200 ELSE s.no
      [] s.does = "confirmedEver" -> IF req.confirm THEN 200 ELSE s.no
      [] s.does = "sound" -> IF req.flaw # s.of THEN 200 ELSE s.no
      [] s.does = "soundOrFull" -> IF latched \/ req.flaw # s.of THEN 200 ELSE s.no
      [] s.does = "refuse" -> s.no
      [] s.does = "rule" -> RuleStatus(s)

\* The domain whose lease a step looks for.
Asked(s) ==
    IF s.does \in {"free", "freeOrFull", "checked"} THEN s.of
    ELSE IF s.does = "rule" /\ s.of = "gate" THEN Requirements(req.name).domain
    ELSE None

\* What a step that passes has seen of the lease.
Seen(s) ==
    IF Asked(s) = None THEN warrant
    ELSE IF Mine THEN Asked(s)
    ELSE IF s.does \in {"checked", "rule"} /\ holder = None /\ ~latched THEN "gone"
    ELSE warrant

Guard ==
    /\ Serving /\ Now.does \notin Calls \cup {"audit"}
    /\ IF Verdict(Now) = 200
       THEN /\ at' = at + 1 /\ UNCHANGED status
            /\ warrant' = Seen(Now)
       ELSE status' = Verdict(Now) /\ UNCHANGED <<at, warrant>>
    /\ UNCHANGED <<startVars, req, holder, sent, recorded>>

Record ==
    /\ Serving /\ Now.does = "audit"
    /\ recorded' = TRUE
    /\ at' = at + 1
    /\ UNCHANGED <<startVars, req, status, holder, sent, warrant>>

\* What ends a request whose call came to this.
Ends(s, outcome) ==
    \/ outcome = "escapes" /\ s.does \notin Shields
    \/ outcome # "done" /\ s.does \in {"must", "mustOrFull", "mayMust", "orUnknown"}
    \/ outcome = "refused" /\ s.does \in {"mayDrop", "mayHeed"}
    \/ outcome \in {"fault", "lost"} /\ s.does = "raw"

Outcomes == {"done", "refused", "fault", "lost", "escapes"}

\* The controller does it, refuses it with a code, answers with a fault, cannot be heard, or answers
\* what is no XML-RPC or not of the shape that is looked for: the exception is none that _call() or
\* the handler knows, and the request ends with 500. What the driver refuses is not sent.
Call(outcome) ==
    /\ Serving /\ Now.does \in Calls
    /\ ~(Now.does = "mustOrFull" /\ latched)
    /\ LET barred == Barred(Now.of) /\ Now.does # "refusedToo" IN
       /\ barred => outcome = "fault"
       /\ sent' = IF barred THEN sent ELSE Append(sent, Now.of)
    /\ IF Ends(Now, outcome)
       THEN /\ status' = IF outcome = "escapes" THEN 500
                         ELSE IF Now.does = "orUnknown" /\ outcome # "refused" THEN 200
                         ELSE Now.no
            /\ UNCHANGED at
       ELSE at' = at + 1 /\ UNCHANGED status
    /\ UNCHANGED <<startVars, req, holder, recorded, warrant>>

\* A call that is left out: full access lifts the check, or there is nothing to ask.
Skip ==
    /\ Serving /\ Now.does \in Left /\ (Now.does = "mustOrFull" => latched)
    /\ at' = at + 1
    /\ UNCHANGED <<startVars, req, status, holder, sent, recorded, warrant>>

Respond ==
    /\ req # None /\ status = 0 /\ at > Len(Row(req))
    /\ status' = 200
    /\ UNCHANGED <<startVars, req, at, holder, sent, recorded, warrant>>

Over ==
    /\ status # 0
    /\ req' = None
    /\ at' = 1 /\ status' = 0 /\ sent' = <<>> /\ recorded' = FALSE /\ warrant' = None
    /\ UNCHANGED <<startVars, holder>>

\* External: leases are acquired, lapse and are broken.
LeaseMoves(h) ==
    /\ req # None /\ status = 0
    /\ holder' = h
    /\ UNCHANGED <<startVars, requestVars>>

Start == Starting /\ UNCHANGED <<requestVars, holder>>

Next ==
    \/ Start
    \/ \E route \in Route : \E name \in Named(route) : Arrive(route, name)
    \/ Guard
    \/ Record
    \/ \E outcome \in Outcomes : Call(outcome)
    \/ Skip
    \/ Respond
    \/ Over
    \/ \E h \in {None, "me", "other"} : LeaseMoves(h)

Spec == Init /\ [][Next]_vars

-----------------------------------------------------------------------------
(* Properties.                                                             *)

\* Nothing is done for a caller without a key, but for the one stop that is open to all and what
\* /health reads, unless the gateway was configured without a key file: and then it is configured
\* to bind the loopback only and gives no root access to the controller. Whatever becomes of the
\* key file between the checks (config.py check_safe_to_start, app.py _auth_middleware).
KeysGuard ==
    (sent # <<>> /\ ~cfg.full)
        => \/ req.key /\ digests
           \/ req.route \in OpenPaths
           \/ ~cfg.keyFile /\ cfg.loopback /\ ToSet(sent) \cap {"shell", "qconn"} = {}

\* What is never to reach the controller reaches it on the one route that is for it, switched on
\* and confirmed twice, or under full access. The invoker and the driver each refuse it.
RefusedStaysOff ==
    \A i \in DOMAIN sent :
        sent[i] \in DriverRefused
            => latched \/ (req.route = "shutdown" /\ "shutdown" \in cfg.flags /\ req.confirm)

\* What moves the arm, or might, is sent for a caller that has confirmed and was seen to hold the
\* motion lease, or found it gone between the two looks of its gate: the first look has seen a
\* lease, of anybody's, and the second lets through where there is none. What changes the
\* controller is sent for one that was seen to hold a lease, or found it gone; what weakens a
\* guard or blocks the channel is confirmed besides; the raw route sends none of them
\* (move_api.py _require_motion, gripper_api.py _gate, invoke.py gate).
Warranted ==
    (sent # <<>> /\ ~latched) =>
        /\ req.route \in {"move"} \cup DOMAIN Gripper =>
              warrant \in {"motion", "gone"} /\ req.confirm
        /\ req.route \in GenericRoutes =>
              LET c == Commands[req.name]
                  open == c.danger \in {"read", "stop"} /\ c.hazard = None
              IN  /\ req.name \notin TypedRouteOwned
                  /\ c.danger \in {"motion", "unknown"} =>
                        warrant \in {"motion", "gone"} /\ req.confirm
                  /\ ~open => warrant # None
                  /\ c.hazard # None => req.confirm
                  /\ req.route = "commands" => open

Stops ==
    [motion_stop |-> <<"ImmStopJOG", "StopMotion">>,
     safety_stop |-> <<"SetDO", "SetAO", "ProgramStop", "StopMotion", "ImmStopJOG">>,
     execution_stop |-> <<"ProgramStop", "StopMotion">>]

\* The three stop routes, once past the middlewares, answer 200 and have tried every stop they
\* have in its order, whatever errors the driver made of the ones before, whoever holds a lease
\* and whichever features are off; or they answer 500, and then the last one they tried has raised
\* what is no RobotError, and the ones after it are not sent. Only a read-only gateway refuses
\* them, and a missing key all but the first (app.py _stop_all, programs_api.py stop_program,
\* control_api.py safety_stop).
StopsAreServed ==
    (status # 0 /\ ~cfg.readOnly /\ req.route \in DOMAIN Stops) =>
        LET stops == Stops[req.route] IN
        \/ status = 200 /\ sent = stops
        \/ status = 500 /\ \E n \in 1..Len(stops) : sent = SubSeq(stops, 1, n)
        \/ status = 401 /\ sent = <<>> /\ req.route # "motion_stop"

\* No request makes the controller stage firmware, joint parameters or a kernel, delete every
\* peripheral driver or touch a trajectory: a number that is a log in one direction is a firmware
\* slot in the other, and a kind has the verbs the wire gave it.
FileTypesAreSafe ==
    \A i \in DOMAIN sent, kind \in DOMAIN RefusedKinds : sent[i] \notin RefusedKinds[kind]

\* What a route that changes something may ask for before it does.
Reads ==
    {"GetInverseKin", "GetForwardKin", "GetJointSoftLimitDeg", "GetRobotMotionDone",
     "GetRobotErrorCode", "GetProgramState", "GetLoadedProgram", "GetActualTCPPose",
     "GetActualTCPNum", "GetActualWObjNum", "PointTableDownload", "download_0", "download_11",
     "probes"}

\* The routes that write their line in the trail before they call. The others do it after, once
\* the controller has answered.
RecordedFirst ==
    {"invoke", "jog", "jog_linear", "reset_errors", "move", "shutdown", "shell", "restart", "reboot"}
        \cup DOMAIN RobotEnable \cup DOMAIN Gripper

\* Whatever a request other than a GET has had the controller do is in the trail: on the routes
\* that jog and move, power, invoke by name or run a shell command before the controller has it,
\* so that a call that never comes back is there too; on all others by the time that the request
\* is answered with success. What is neither is what such a route had done before it failed. The
\* raw route keeps no trail.
ChangesAreRecorded ==
    (req # None /\ req.route \notin GetRoutes \cup {"commands"}) =>
        \A i \in DOMAIN sent :
            \/ sent[i] \in Reads
            \/ recorded
            \/ req.route \notin RecordedFirst /\ status # 200

=============================================================================
