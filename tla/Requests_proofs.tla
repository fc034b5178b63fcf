--------------------------- MODULE Requests_proofs ---------------------------
(***************************************************************************)
(* Proofs about Requests: what a handler's row has before its calls, row by*)
(* row, and from it that no call is made for a request that its guards did *)
(* not let through, for every deployment.                                  *)
(***************************************************************************)
EXTENDS Requests, SequenceTheorems, TLAPS

-----------------------------------------------------------------------------
(* What is said of a row.                                                  *)

\* The calls of REFUSED_TYPES, and the two services that give root on the controller.
Forbidden == {"upload_1", "upload_2", "upload_5", "upload_6", "upload_10", "delete_12",
              "upload_20", "delete_20"}
Root == {"shell", "qconn"}

IsSeq(row) == row \in Seq({row[i] : i \in DOMAIN row})

\* No step makes a forbidden call, or ends a request as if nothing were wrong.
Sane(row) == IsSeq(row) /\ \A i \in DOMAIN row : row[i].of \notin Forbidden /\ row[i].no # 200

\* The call that may send what the driver refuses stands behind the switch and the confirmation.
Reserved(row) ==
    \A i \in DOMAIN row :
        row[i].does = "refusedToo" => i > 2 /\ row[1] = Enabled("shutdown") /\ row[2] = Confirmed(422)

\* A service that gives root is called behind its own switch.
Opened(row) ==
    \A i \in DOMAIN row :
        row[i].does \in Calls /\ row[i].of \in Root => i > 1 /\ row[1] = Enabled(row[i].of)

\* A route that changes something has a line in the trail for it.
Audited(row) ==
    \/ \E a \in DOMAIN row : row[a].does = "audit"
    \/ \A i \in DOMAIN row : row[i].does \in Calls => row[i].of \in Reads

\* The line in the trail is before every call that does more than read.
Recording(row) ==
    \E a \in DOMAIN row :
        row[a].does = "audit" /\ \A i \in 1..a : row[i].does \in Calls => row[i].of \in Reads

\* Every call is behind the second look of a gate at the motion lease and behind the confirmation,
\* and no gate of the row asks for anything else.
OnMotion(row) ==
    /\ \E h, c \in DOMAIN row :
          /\ row[h] = Checked("motion") /\ row[c] = Confirmed(400)
          /\ \A i \in DOMAIN row : row[i].does \in Calls => h < i /\ c < i
    /\ \A i \in DOMAIN row :
          /\ row[i].does \in {"free", "freeOrFull", "checked"} => row[i].of = "motion"
          /\ row[i].does # "rule"

StopRoutes == {"motion_stop", "safety_stop", "execution_stop"}
StopRow ==
    [motion_stop |-> MotionStop.motion_stop, safety_stop |-> SafetyStop.safety_stop,
     execution_stop |-> ExecutionStop.execution_stop]

Kept(route, row) ==
    /\ Sane(row)
    /\ route # "services" => Opened(row)
    /\ IF route = "shutdown" THEN Reserved(row)
       ELSE \A i \in DOMAIN row : row[i].does # "refusedToo"
    /\ route # "execution" => \A i \in DOMAIN row : row[i].does # "orUnknown"
    /\ route \in RecordedFirst => Recording(row) \/ \A i \in DOMAIN row : row[i].does \notin Calls
    /\ route \in {"move"} \cup DOMAIN Gripper => OnMotion(row)
    /\ route \in StopRoutes => row = StopRow[route]

KeptTable(table) == \A route \in DOMAIN table : Kept(route, table[route])

-----------------------------------------------------------------------------
(* Rows of ordinary steps, on routes that none of this is about.           *)

Ordinary(s) == s.does \notin {"refusedToo", "orUnknown"} /\ s.of \notin Root \cup Forbidden /\ s.no # 200
OrdinaryRow(row) == IsSeq(row) /\ \A i \in DOMAIN row : Ordinary(row[i])

Watched ==
    {"enable", "disable", "jog", "jog_linear", "reset_errors", "move", "shutdown", "shell",
     "restart", "reboot", "processes", "qconn", "gripper_activate", "gripper_command", "invoke",
     "motion_stop", "safety_stop", "execution_stop", "execution"}

OrdinaryTable(table) == \A route \in DOMAIN table : route \notin Watched /\ OrdinaryRow(table[route])

\* The routes the properties name are watched.
LEMMA WatchedRoutes ==
  RecordedFirst \cup {"move", "shutdown", "execution"} \cup DOMAIN Gripper \cup StopRoutes \subseteq Watched
  BY DEF RecordedFirst, RobotEnable, Gripper, StopRoutes, Watched

\* A row of ordinary steps keeps all that is said of rows.
LEMMA OrdinaryIsKept ==
  ASSUME NEW route, route \notin Watched, NEW row, OrdinaryRow(row)
  PROVE  Kept(route, row)
<1>1. Sane(row) /\ Opened(row) /\ \A i \in DOMAIN row : row[i].does \notin {"refusedToo", "orUnknown"}
  BY DEF OrdinaryRow, Ordinary, Sane, Opened
<1>2. QED
  BY <1>1, WatchedRoutes DEF Kept

LEMMA OrdinaryTableIsKept ==
  ASSUME NEW table, OrdinaryTable(table)
  PROVE  KeptTable(table)
  BY OrdinaryIsKept DEF OrdinaryTable, KeptTable

\* A sequence is one over every set that has its elements.
LEMMA RowIn ==
  ASSUME NEW row, IsSeq(row), NEW S, \A i \in DOMAIN row : row[i] \in S
  PROVE  row \in Seq(S)
  BY DEF IsSeq

LEMMA EmptyRow == OrdinaryRow(<<>>)
  BY DEF OrdinaryRow, IsSeq

\* Rows of ordinary steps may be joined.
LEMMA JoinedRow ==
  ASSUME NEW row, NEW other, OrdinaryRow(row), OrdinaryRow(other)
  PROVE  OrdinaryRow(row \o other)
<1>1. row \in Seq({row[i] : i \in DOMAIN row}) /\ other \in Seq({other[i] : i \in DOMAIN other})
  BY DEF OrdinaryRow, IsSeq
<1>2. /\ DOMAIN row = 1..Len(row) /\ DOMAIN other = 1..Len(other)
      /\ Len(row) \in Nat /\ Len(other) \in Nat
  BY <1>1
<1>3. /\ DOMAIN (row \o other) = 1..(Len(row) + Len(other))
      /\ \A i \in 1..(Len(row) + Len(other)) :
            (row \o other)[i] = IF i <= Len(row) THEN row[i] ELSE other[i - Len(row)]
  BY <1>1, <1>2
<1>4. row \o other \in Seq({(row \o other)[i] : i \in DOMAIN (row \o other)})
  <2> DEFINE all == {(row \o other)[i] : i \in DOMAIN (row \o other)}
  <2>1. \A i \in DOMAIN row : i \in DOMAIN (row \o other) /\ (row \o other)[i] = row[i]
    BY <1>2, <1>3
  <2>2. \A i \in DOMAIN other : /\ Len(row) + i \in DOMAIN (row \o other)
                               /\ (row \o other)[Len(row) + i] = other[i]
    BY <1>2, <1>3
  <2>3. \A i \in DOMAIN row : row[i] \in all
    BY <2>1
  <2>4. \A i \in DOMAIN other : other[i] \in all
    BY <2>2
  <2>5. row \in Seq(all) /\ other \in Seq(all)
    <3> HIDE DEF all
    <3>1. QED
      BY <1>1, <2>3, <2>4, RowIn DEF IsSeq
  <2>6. QED
    BY SMTT(30), <2>5
<1>5. \A i \in DOMAIN (row \o other) : Ordinary((row \o other)[i])
  <2> SUFFICES ASSUME NEW i \in 1..(Len(row) + Len(other))
               PROVE  Ordinary((row \o other)[i])
    BY <1>3
  <2>1. i <= Len(row) => i \in DOMAIN row
    BY <1>2
  <2>2. i > Len(row) => i - Len(row) \in DOMAIN other
    BY <1>2
  <2>3. QED
    BY <1>2, <1>3, <2>1, <2>2 DEF OrdinaryRow
<1>6. QED
  BY <1>4, <1>5 DEF OrdinaryRow, IsSeq

\* A line in the trail that is in the second of them is in both joined.
LEMMA JoinedAudit ==
  ASSUME NEW row, IsSeq(row), NEW other, IsSeq(other), NEW a \in DOMAIN other, other[a] = Audit
  PROVE  Audited(row \o other)
<1> DEFINE all == {row[i] : i \in DOMAIN row} \cup {other[i] : i \in DOMAIN other}
           both == row \o other
<1>1. row \in Seq(all) /\ other \in Seq(all)
  BY RowIn
<1> HIDE DEF all
<1>2. a \in 1..Len(other) /\ Len(row) \in Nat /\ Len(other) \in Nat
  BY <1>1
<1>3. Len(row) + a \in DOMAIN both /\ both[Len(row) + a] = Audit
  BY <1>1, <1>2
<1>4. Audit.does = "audit"
  BY DEF Audit, Step
<1> HIDE DEF both
<1>5. Audited(both)
  BY <1>3, <1>4 DEF Audited
<1>6. QED
  BY <1>5 DEF both

LEMMA PossibleRow ==
  ASSUME NEW condition, NEW row, OrdinaryRow(row)
  PROVE  OrdinaryRow(If(condition, row))
  BY EmptyRow DEF If

\* Calls that are tried one after the other, none of them to a service that gives root.
LEMMA TriedRow ==
  ASSUME NEW methods, IsSeq(methods),
         \A i \in DOMAIN methods : methods[i] \notin Root \cup Forbidden
  PROVE  OrdinaryRow(TriedAll(methods))
<1>1. methods \in Seq({methods[i] : i \in DOMAIN methods})
  BY DEF IsSeq
<1>2. \A i \in DOMAIN methods : Ordinary(Tried(methods[i]))
  BY DEF Ordinary, Tried, Step
<1>3. DOMAIN methods = 1..Len(methods) /\ Len(methods) \in Nat
  BY <1>1
<1>4. QED
  BY <1>2, <1>3 DEF OrdinaryRow, IsSeq, TriedAll


\* A row of so many steps.
LEMMA Row1 ==
  ASSUME NEW a, Ordinary(a)
  PROVE  OrdinaryRow(<<a>>)
  BY DEF OrdinaryRow, IsSeq

LEMMA Row2 ==
  ASSUME NEW a, NEW b, Ordinary(a), Ordinary(b)
  PROVE  OrdinaryRow(<<a, b>>)
  BY DEF OrdinaryRow, IsSeq

LEMMA Row3 ==
  ASSUME NEW a, NEW b, NEW c, Ordinary(a), Ordinary(b), Ordinary(c)
  PROVE  OrdinaryRow(<<a, b, c>>)
  BY DEF OrdinaryRow, IsSeq

LEMMA Row4 ==
  ASSUME NEW a, NEW b, NEW c, NEW d, Ordinary(a), Ordinary(b), Ordinary(c), Ordinary(d)
  PROVE  OrdinaryRow(<<a, b, c, d>>)
  BY DEF OrdinaryRow, IsSeq

LEMMA Row5 ==
  ASSUME NEW a, NEW b, NEW c, NEW d, NEW e, Ordinary(a), Ordinary(b), Ordinary(c),
         Ordinary(d), Ordinary(e)
  PROVE  OrdinaryRow(<<a, b, c, d, e>>)
  BY DEF OrdinaryRow, IsSeq

LEMMA Row6 ==
  ASSUME NEW a, NEW b, NEW c, NEW d, NEW e, NEW f, Ordinary(a), Ordinary(b),
         Ordinary(c), Ordinary(d), Ordinary(e), Ordinary(f)
  PROVE  OrdinaryRow(<<a, b, c, d, e, f>>)
  BY DEF OrdinaryRow, IsSeq

LEMMA Row7 ==
  ASSUME NEW a, NEW b, NEW c, NEW d, NEW e, NEW f, NEW g, Ordinary(a), Ordinary(b),
         Ordinary(c), Ordinary(d), Ordinary(e), Ordinary(f), Ordinary(g)
  PROVE  OrdinaryRow(<<a, b, c, d, e, f, g>>)
  BY DEF OrdinaryRow, IsSeq

LEMMA Row8 ==
  ASSUME NEW a, NEW b, NEW c, NEW d, NEW e, NEW f, NEW g, NEW h, Ordinary(a),
         Ordinary(b), Ordinary(c), Ordinary(d), Ordinary(e), Ordinary(f), Ordinary(g),
         Ordinary(h)
  PROVE  OrdinaryRow(<<a, b, c, d, e, f, g, h>>)
  BY DEF OrdinaryRow, IsSeq

LEMMA Row9 ==
  ASSUME NEW a, NEW b, NEW c, NEW d, NEW e, NEW f, NEW g, NEW h, NEW i, Ordinary(a),
         Ordinary(b), Ordinary(c), Ordinary(d), Ordinary(e), Ordinary(f), Ordinary(g),
         Ordinary(h), Ordinary(i)
  PROVE  OrdinaryRow(<<a, b, c, d, e, f, g, h, i>>)
  BY DEF OrdinaryRow, IsSeq

LEMMA Row10 ==
  ASSUME NEW a, NEW b, NEW c, NEW d, NEW e, NEW f, NEW g, NEW h, NEW i, NEW j,
         Ordinary(a), Ordinary(b), Ordinary(c), Ordinary(d), Ordinary(e), Ordinary(f),
         Ordinary(g), Ordinary(h), Ordinary(i), Ordinary(j)
  PROVE  OrdinaryRow(<<a, b, c, d, e, f, g, h, i, j>>)
  BY DEF OrdinaryRow, IsSeq

\* The guards, calls and lines of the rows that are not watched, form by form.
LEMMA OrdinaryChecks ==
  /\ Ordinary(Able) /\ Ordinary(Audit) /\ Ordinary(Confirmed(400)) /\ Ordinary(Confirmed(422))
  /\ Ordinary(ConfirmedEver(400)) /\ Ordinary(Enabled("ftp")) /\ Ordinary(Free("config"))
  /\ Ordinary(Free("motion")) /\ Ordinary(Free("program")) /\ Ordinary(FreePose)
  /\ Ordinary(Sound("base64", 422)) /\ Ordinary(Sound("busy", 409))
  /\ Ordinary(Sound("disk", 507)) /\ Ordinary(Sound("faulted", 409))
  /\ Ordinary(Sound("idle", 409)) /\ Ordinary(Sound("index", 409))
  /\ Ordinary(Sound("kind", 502)) /\ Ordinary(Sound("listed", 404))
  /\ Ordinary(Sound("listing", 503)) /\ Ordinary(Sound("loaded", 409))
  /\ Ordinary(Sound("name", 404)) /\ Ordinary(Sound("name", 422)) /\ Ordinary(Sound("path", 409))
  /\ Ordinary(Sound("pose", 409)) /\ Ordinary(Sound("range", 422))
  /\ Ordinary(Sound("readback", 502)) /\ Ordinary(Sound("running", 409))
  /\ Ordinary(Sound("size", 413)) /\ Ordinary(Sound("stale", 503))
  /\ Ordinary(Sound("telemetry", 503)) /\ Ordinary(Sound("visuals", 422))
  BY DEF Ordinary, Step, Root, Forbidden, Able, Audit, Confirmed, ConfirmedEver, Enabled, Free,
     FreePose, Sound

LEMMA OrdinaryCalls ==
  /\ Ordinary(Limits) /\ Ordinary(MayHeed("GetCurrentLine"))
  /\ Ordinary(MayHeed("GetLoadedProgram")) /\ Ordinary(MayHeed("GetRobotMotionDone"))
  /\ Ordinary(MayMust("GetActualToolFlangePose", 502))
  /\ Ordinary(MayMust("GetJointSoftLimitDeg", 503)) /\ Ordinary(MayMust("GetLoadedProgram", 502))
  /\ Ordinary(MayMust("GetRobotInstallAngle", 502))
  /\ Ordinary(MayMust("GetSlaveFirmVersion", 502))
  /\ Ordinary(MayMust("GetSlaveHardVersion", 502)) /\ Ordinary(MayMust("GetTCPOffset", 502))
  /\ Ordinary(MayMust("GetTargetPayloadCog", 502)) /\ Ordinary(MayMust("GetWObjOffset", 502))
  /\ Ordinary(MayTry("GetActualTCPNum")) /\ Ordinary(MayTry("GetActualWObjNum"))
  /\ Ordinary(MayShielded("GetInverseKin")) /\ Ordinary(MayTry("GetProgramState"))
  /\ Ordinary(MayShielded("userData"))
  /\ Ordinary(Tried("GetActualTCPPose")) /\ Ordinary(Shielded("GetJointSoftLimitDeg"))
  /\ Ordinary(Tried("GetLoadedProgram")) /\ Ordinary(Tried("GetProgramState"))
  /\ Ordinary(Tried("GetRobotErrorCode")) /\ Ordinary(Tried("GetTargetPayload"))
  /\ Ordinary(Tried("PointTableDownload"))
  BY DEF Ordinary, Step, Root, Forbidden, Limits, MayHeed, MayMust, MayShielded, MayTry,
     Shielded, Tried

LEMMA OrdinaryMusts ==
  /\ Ordinary(Must("FT_Activate", 503)) /\ Ordinary(Must("FT_SetZero", 503))
  /\ Ordinary(Must("GetAI", 502)) /\ Ordinary(Must("GetActualTCPNum", 502))
  /\ Ordinary(Must("GetActualToolFlangePose", 503)) /\ Ordinary(Must("GetActualWObjNum", 502))
  /\ Ordinary(Must("GetDI", 502)) /\ Ordinary(Must("GetForceSensorPayload", 503))
  /\ Ordinary(Must("GetForceSensorPayloadCog", 503)) /\ Ordinary(Must("GetForwardKin", 503))
  /\ Ordinary(Must("GetJointSoftLimitDeg", 502)) /\ Ordinary(Must("GetMotionQueueLength", 503))
  /\ Ordinary(Must("GetRobotErrorCode", 502)) /\ Ordinary(Must("GetRobotErrorCode", 503))
  /\ Ordinary(Must("GetSoftwareVersion", 502)) /\ Ordinary(Must("GetSoftwareVersion", 503))
  /\ Ordinary(Must("GetTargetPayload", 502)) /\ Ordinary(Must("GetToolDI", 502))
  /\ Ordinary(Must("LuaUpLoadUpdate", 422)) /\ Ordinary(Must("Mode", 503))
  /\ Ordinary(Must("PointTableDownload", 502)) /\ Ordinary(Must("PointTableSwitch", 502))
  /\ Ordinary(Must("PointTableUpload", 502)) /\ Ordinary(Must("ProgramLoad", 502))
  /\ Ordinary(Must("ProgramPause", 502)) /\ Ordinary(Must("ProgramResume", 502))
  /\ Ordinary(Must("ProgramRun", 502)) /\ Ordinary(Must("SetAO", 502))
  /\ Ordinary(Must("SetDO", 502)) /\ Ordinary(Must("SetForceSensorPayload", 503))
  /\ Ordinary(Must("SetForceSensorPayloadCog", 503)) /\ Ordinary(Must("SetLoadWeight", 502))
  /\ Ordinary(Must("SetSpeed", 502)) /\ Ordinary(Must("SetToolCoord", 502))
  /\ Ordinary(Must("SetWObjCoord", 502)) /\ Ordinary(Must("delete_0", 502))
  /\ Ordinary(Must("download_0", 404)) /\ Ordinary(Must("download_0", 502))
  /\ Ordinary(Must("download_2", 502)) /\ Ordinary(Must("ftp", 502))
  /\ Ordinary(Must("prepare", 502)) /\ Ordinary(Must("upload_0", 502))
  BY DEF Ordinary, Step, Root, Forbidden, Must

\* The tables whose rows are written out.
LEMMA PlainTables ==
  /\ OrdinaryTable(Outputs) /\ OrdinaryTable(Frames) /\ OrdinaryTable(Payload)
  /\ OrdinaryTable(ModeAndSpeed) /\ OrdinaryTable(ForceRoutes) /\ OrdinaryTable(FtpRoutes)
  /\ OrdinaryTable(Preview) /\ OrdinaryTable(Errors) /\ OrdinaryTable(Identity)
  /\ OrdinaryTable(Inputs) /\ OrdinaryTable(FrameReads) /\ OrdinaryTable(PayloadRead)
  /\ OrdinaryTable(ModelReads) /\ OrdinaryTable(ProgramPut)
  /\ OrdinaryTable(ProgramGet) /\ OrdinaryTable(ProgramDelete) /\ OrdinaryTable(ProgramLoad)
  /\ OrdinaryTable(ProgramSelect) /\ OrdinaryTable(PauseAndResume) /\ OrdinaryTable(Backup)
  /\ OrdinaryTable(Points) /\ OrdinaryTable(Poses) /\ OrdinaryTable(Recordings)
  /\ OrdinaryTable(Torques)
<1>1. OrdinaryTable(Outputs)
  BY OrdinaryChecks, OrdinaryCalls, OrdinaryMusts, Row4
  DEF Outputs, OrdinaryTable, Watched
<1>2. OrdinaryTable(Frames)
  BY OrdinaryChecks, OrdinaryCalls, OrdinaryMusts, Row5
  DEF Frames, OrdinaryTable, Watched
<1>3. OrdinaryTable(Payload)
  BY OrdinaryChecks, OrdinaryCalls, OrdinaryMusts, Row4
  DEF Payload, OrdinaryTable, Watched
<1>4. OrdinaryTable(ModeAndSpeed)
  BY OrdinaryChecks, OrdinaryCalls, OrdinaryMusts, Row3, Row4
  DEF ModeAndSpeed, OrdinaryTable, Watched
<1>5. OrdinaryTable(ForceRoutes)
  BY OrdinaryChecks, OrdinaryCalls, OrdinaryMusts, Row4, Row5
  DEF ForceRoutes, OrdinaryTable, Watched
<1>6. OrdinaryTable(FtpRoutes)
  BY OrdinaryChecks, OrdinaryCalls, OrdinaryMusts, Row2, Row3, Row5, Row6
  DEF FtpRoutes, OrdinaryTable, Watched
<1>7. OrdinaryTable(Preview)
  BY OrdinaryChecks, OrdinaryCalls, OrdinaryMusts, Row1
  DEF Preview, OrdinaryTable, Watched
<1>8. OrdinaryTable(Errors)
  BY OrdinaryChecks, OrdinaryCalls, OrdinaryMusts, Row1
  DEF Errors, OrdinaryTable, Watched
<1>9. OrdinaryTable(Identity)
  BY OrdinaryChecks, OrdinaryCalls, OrdinaryMusts, Row2, Row4
  DEF Identity, OrdinaryTable, Watched
<1>10. OrdinaryTable(Inputs)
  BY OrdinaryChecks, OrdinaryCalls, OrdinaryMusts, Row2
  DEF Inputs, OrdinaryTable, Watched
<1>11. OrdinaryTable(FrameReads)
  BY OrdinaryChecks, OrdinaryCalls, OrdinaryMusts, Row3, Row4
  DEF FrameReads, OrdinaryTable, Watched
<1>12. OrdinaryTable(PayloadRead)
  BY OrdinaryChecks, OrdinaryCalls, OrdinaryMusts, Row3
  DEF PayloadRead, OrdinaryTable, Watched
<1>13. OrdinaryTable(ModelReads)
  BY OrdinaryChecks, OrdinaryCalls, OrdinaryMusts, Row1, Row2
  DEF ModelReads, OrdinaryTable, Watched
<1>14. OrdinaryTable(ProgramPut)
  BY OrdinaryChecks, OrdinaryCalls, OrdinaryMusts, Row9
  DEF ProgramPut, OrdinaryTable, Watched
<1>15. OrdinaryTable(ProgramGet)
  BY OrdinaryChecks, OrdinaryCalls, OrdinaryMusts, Row2
  DEF ProgramGet, OrdinaryTable, Watched
<1>16. OrdinaryTable(ProgramDelete)
  BY OrdinaryChecks, OrdinaryCalls, OrdinaryMusts, Row6
  DEF ProgramDelete, OrdinaryTable, Watched
<1>17. OrdinaryTable(ProgramLoad)
  BY OrdinaryChecks, OrdinaryCalls, OrdinaryMusts, Row4
  DEF ProgramLoad, OrdinaryTable, Watched
<1>18. OrdinaryTable(ProgramSelect)
  BY OrdinaryChecks, OrdinaryCalls, OrdinaryMusts, Row10
  DEF ProgramSelect, OrdinaryTable, Watched
<1>19. OrdinaryTable(PauseAndResume)
  BY OrdinaryChecks, OrdinaryCalls, OrdinaryMusts, Row3
  DEF PauseAndResume, OrdinaryTable, Watched
<1>20. OrdinaryTable(Backup)
  BY OrdinaryChecks, OrdinaryCalls, OrdinaryMusts, Row4
  DEF Backup, OrdinaryTable, Watched
<1>21. OrdinaryTable(Points)
  BY OrdinaryChecks, OrdinaryCalls, OrdinaryMusts, Row2, Row4, Row8
  DEF Points, OrdinaryTable, Watched
<1>22. OrdinaryTable(Poses)
  BY OrdinaryChecks, OrdinaryCalls, OrdinaryMusts, Row1, Row3, Row7
  DEF Poses, OrdinaryTable, Watched
<1>23. OrdinaryTable(Recordings)
  BY OrdinaryChecks, OrdinaryCalls, OrdinaryMusts, Row1, Row2, Row4
  DEF Recordings, OrdinaryTable, Watched
<1>24. OrdinaryTable(Torques)
  BY OrdinaryChecks, OrdinaryCalls, OrdinaryMusts, Row1
  DEF Torques, OrdinaryTable, Watched
<1>25. QED
  BY <1>1, <1>2, <1>3, <1>4, <1>5, <1>6, <1>7, <1>8, <1>9, <1>10, <1>11, <1>12, <1>13, <1>14,
     <1>15, <1>16, <1>17, <1>18, <1>19, <1>20, <1>21, <1>22, <1>23, <1>24

\* The same for lists of so many calls.
LEMMA Tried1 ==
  ASSUME NEW a, a \notin Root \cup Forbidden
  PROVE  OrdinaryRow(TriedAll(<<a>>))
<1>1. IsSeq(<<a>>)
  BY DEF IsSeq
<1>2. \A i \in DOMAIN <<a>> : <<a>>[i] \notin Root \cup Forbidden
  OBVIOUS
<1>3. QED
  BY <1>1, <1>2, TriedRow

LEMMA Tried2 ==
  ASSUME NEW a, NEW b, a \notin Root \cup Forbidden, b \notin Root \cup Forbidden
  PROVE  OrdinaryRow(TriedAll(<<a, b>>))
<1>1. IsSeq(<<a, b>>)
  BY DEF IsSeq
<1>2. \A i \in DOMAIN <<a, b>> : <<a, b>>[i] \notin Root \cup Forbidden
  OBVIOUS
<1>3. QED
  BY <1>1, <1>2, TriedRow

LEMMA Tried5 ==
  ASSUME NEW a, NEW b, NEW c, NEW d, NEW e,
         \A method \in {a, b, c, d, e} : method \notin Root \cup Forbidden
  PROVE  OrdinaryRow(TriedAll(<<a, b, c, d, e>>))
<1>1. IsSeq(<<a, b, c, d, e>>)
  BY DEF IsSeq
<1>2. \A i \in DOMAIN <<a, b, c, d, e>> : <<a, b, c, d, e>>[i] \notin Root \cup Forbidden
  OBVIOUS
<1>3. QED
  BY <1>1, <1>2, TriedRow

\* The tables of reads, most of which are lists of calls that are tried.
LEMMA TriedTables ==
  /\ OrdinaryTable(System) /\ OrdinaryTable(RecoveredReads) /\ OrdinaryTable(ForceReads)
  /\ OrdinaryTable(CapabilityRoutes) /\ OrdinaryTable(Recovery) /\ OrdinaryTable(Streams)
<1> USE DEF OrdinaryTable, Watched
<1>1. OrdinaryTable(System)
  <2>1. OrdinaryRow(System["health"])
    BY Tried2 DEF System, Root, Forbidden
  <2>2. OrdinaryRow(System["version"]) /\ OrdinaryRow(System["state"]) /\ OrdinaryRow(System["limits"])
    BY OrdinaryCalls, OrdinaryMusts, Row1 DEF System
  <2>3. DOMAIN System = {"health", "version", "state", "limits"}
    BY DEF System
  <2>4. QED
    BY <2>1, <2>2, <2>3
<1>2. OrdinaryTable(RecoveredReads)
  <2>1. OrdinaryRow(RecoveredReads["velocity"]) /\ OrdinaryRow(RecoveredReads["gripper"])
    BY Tried5 DEF RecoveredReads, Root, Forbidden
  <2>2. OrdinaryRow(RecoveredReads["active_frames"])
    BY Tried2 DEF RecoveredReads, Root, Forbidden
  <2>3. OrdinaryRow(RecoveredReads["flange_pose"]) /\ OrdinaryRow(RecoveredReads["motion_queue"])
    BY OrdinaryCalls, OrdinaryMusts, Row1, Row2 DEF RecoveredReads
  <2>4. DOMAIN RecoveredReads = {"velocity", "flange_pose", "active_frames", "motion_queue", "gripper"}
    BY DEF RecoveredReads
  <2>5. QED
    BY <2>1, <2>2, <2>3, <2>4
<1>3. OrdinaryTable(ForceReads)
  <2>1. OrdinaryRow(ForceReads["force_config"])
    BY Tried5 DEF ForceReads, Root, Forbidden
  <2>2. OrdinaryRow(ForceReads["force"]) /\ OrdinaryRow(ForceReads["force_payload_read"])
    BY OrdinaryChecks, OrdinaryCalls, OrdinaryMusts, Row1, Row3 DEF ForceReads
  <2>3. DOMAIN ForceReads = {"force", "force_config", "force_payload_read"}
    BY DEF ForceReads
  <2>4. QED
    BY <2>1, <2>2, <2>3
<1>4. OrdinaryTable(CapabilityRoutes)
  BY EmptyRow, Tried1 DEF CapabilityRoutes, Root, Forbidden
<1>5. OrdinaryTable(Recovery)
  BY Tried1 DEF Recovery, Root, Forbidden
<1>6. OrdinaryTable(Streams)
  BY EmptyRow, Row1, OrdinaryCalls DEF Streams
<1>7. QED
  BY <1>1, <1>2, <1>3, <1>4, <1>5, <1>6

\* Catalogues, and routes that answer from the memory.
LEMMA QuietTable ==
  ASSUME NEW routes, routes \cap Watched = {}
  PROVE  OrdinaryTable(Quiet(routes))
  BY EmptyRow DEF OrdinaryTable, Quiet

LEMMA CatalogueTable ==
  ASSUME NEW lists, NEW entry, (lists \cup {entry}) \cap Watched = {}
  PROVE  OrdinaryTable(Catalogue(lists, entry))
<1>1. OrdinaryRow(<<Sound("name", 404)>>)
  BY OrdinaryChecks, Row1
<1>2. QED
  BY <1>1, PossibleRow DEF OrdinaryTable, Catalogue

LEMMA QuietTables ==
  /\ OrdinaryTable(InvokeCatalogue) /\ OrdinaryTable(CommandCatalogue) /\ OrdinaryTable(LuaCatalogue)
  /\ OrdinaryTable(ErrorTable) /\ OrdinaryTable(ModeRead) /\ OrdinaryTable(Strategies)
  /\ OrdinaryTable(Observed) /\ OrdinaryTable(Trail) /\ OrdinaryTable(FileTable)
  /\ OrdinaryTable(ProgramList) /\ OrdinaryTable(BackupList) /\ OrdinaryTable(PoseList)
  /\ OrdinaryTable(RecordingList)
<1>1. OrdinaryTable(InvokeCatalogue) /\ OrdinaryTable(CommandCatalogue) /\ OrdinaryTable(LuaCatalogue)
  BY CatalogueTable DEF InvokeCatalogue, CommandCatalogue, LuaCatalogue, Watched
<1>2. /\ OrdinaryTable(ErrorTable) /\ OrdinaryTable(ModeRead) /\ OrdinaryTable(Strategies)
      /\ OrdinaryTable(Observed) /\ OrdinaryTable(Trail)
  BY QuietTable DEF ErrorTable, ModeRead, Strategies, Observed, Trail, Watched
<1>3. /\ OrdinaryTable(FileTable) /\ OrdinaryTable(ProgramList) /\ OrdinaryTable(BackupList)
      /\ OrdinaryTable(PoseList) /\ OrdinaryTable(RecordingList)
  BY QuietTable DEF FileTable, ProgramList, BackupList, PoseList, RecordingList, Watched
<1>4. QED
  BY <1>1, <1>2, <1>3

\* The rows that have the path check or the listing in them.
LEMMA JoinedTables ==
  OrdinaryTable(ProgramValidate) /\ OrdinaryTable(ProgramRun) /\ OrdinaryTable(Versions)
<1>1. OrdinaryRow(CheckPath) /\ OrdinaryRow(Listed)
  BY OrdinaryChecks, OrdinaryCalls, OrdinaryMusts, Row4, Row2 DEF CheckPath, Listed
<1>2. OrdinaryTable(ProgramValidate)
  <2>1. OrdinaryRow(<<Sound("name", 422)>>) /\ OrdinaryRow(<<Audit>>)
    BY OrdinaryChecks, Row1
  <2>2. OrdinaryRow(<<Sound("name", 422)>> \o CheckPath \o <<Audit>>)
    BY <1>1, <2>1, JoinedRow
  <2>3. /\ DOMAIN ProgramValidate = {"program_validate"}
        /\ ProgramValidate["program_validate"] = <<Sound("name", 422)>> \o CheckPath \o <<Audit>>
    BY DEF ProgramValidate
  <2>4. QED
    BY <2>2, <2>3 DEF OrdinaryTable, Watched
<1>3. OrdinaryTable(ProgramRun)
  <2> DEFINE before == <<Free("motion"), Confirmed(400), Must("GetRobotErrorCode", 502),
                         Sound("faulted", 409), MayMust("GetLoadedProgram", 502), Sound("loaded", 409)>>
             after == <<Sound("path", 409), Must("ProgramRun", 502), Audit>>
  <2>1. OrdinaryRow(before) /\ OrdinaryRow(after)
    BY OrdinaryChecks, OrdinaryCalls, OrdinaryMusts, Row6, Row3
  <2>2. OrdinaryRow(before \o CheckPath \o after)
    <3> HIDE DEF before, after
    <3> QED
      BY <1>1, <2>1, JoinedRow
  <2>3. DOMAIN ProgramRun = {"run"} /\ ProgramRun["run"] = before \o CheckPath \o after
    BY DEF ProgramRun
  <2>4. QED
    BY ZenonT(40), <2>2, <2>3 DEF OrdinaryTable, Watched
<1>4. OrdinaryTable(Versions)
  <2>1. OrdinaryRow(<<Sound("name", 422)>>) /\ OrdinaryRow(<<Sound("listed", 404)>>)
    BY OrdinaryChecks, Row1
  <2>2. OrdinaryRow(<<Sound("name", 422)>> \o Listed \o <<Sound("listed", 404)>>)
    BY <1>1, <2>1, JoinedRow
  <2>3. DOMAIN Versions = {"versions"} /\ Versions["versions"] = <<Sound("name", 422)>> \o Listed \o <<Sound("listed", 404)>>
    BY DEF Versions
  <2>4. QED
    BY ZenonT(40), <2>2, <2>3 DEF OrdinaryTable, Watched
<1>5. QED
  BY <1>2, <1>3, <1>4

-----------------------------------------------------------------------------
(* Rows of the routes that are watched.                                    *)

Is(s, does, of, no) == s.does = does /\ s.of = of /\ s.no = no

\* The steps of the watched rows, field by field.
LEMMA WatchedSteps ==
  /\ Is(Audit, "audit", "none", 0) /\ Is(Bounded(502), "sound", "driverBounds", 502)
  /\ Is(Bounded(503), "sound", "driverBounds", 503)
  /\ Is(Confirmed(400), "confirmed", "none", 400) /\ Is(Confirmed(422), "confirmed", "none", 422)
  /\ Is(Enabled("luaValidate"), "enabled", "luaValidate", 403)
  /\ Is(Enabled("movel"), "enabled", "movel", 403)
  /\ Is(Enabled("qconn"), "enabled", "qconn", 403)
  /\ Is(Enabled("shell"), "enabled", "shell", 403)
  /\ Is(Enabled("shutdown"), "enabled", "shutdown", 403)
  /\ Is(Free("config"), "free", "config", 0)
  /\ Is(FreeOrFull("motion"), "freeOrFull", "motion", 0)
  /\ Is(Occupied("motion"), "occupied", "motion", 428)
  /\ Is(Checked("motion"), "checked", "motion", 423) /\ Is(Limits, "mayTry", "GetJointSoftLimitDeg", 0)
  /\ Is(MayDrop("shell", 502), "mayDrop", "shell", 502)
  /\ Is(MayHeed("GetCurrentLine"), "mayHeed", "GetCurrentLine", 502)
  /\ Is(MayHeed("GetLoadedProgram"), "mayHeed", "GetLoadedProgram", 502)
  /\ Is(MayMust("Mode", 503), "mayMust", "Mode", 503)
  /\ Is(OrUnknown("GetProgramState"), "orUnknown", "GetProgramState", 502)
  /\ Is(Must("GetInverseKin", 409), "must", "GetInverseKin", 409)
  /\ Is(Must("GetRobotErrorCode", 503), "must", "GetRobotErrorCode", 503)
  /\ Is(Must("GetRobotMotionDone", 503), "must", "GetRobotMotionDone", 503)
  /\ Is(Must("Mode", 503), "must", "Mode", 503) /\ Is(Must("MoveL", 502), "must", "MoveL", 502)
  /\ Is(Must("ResetAllError", 503), "must", "ResetAllError", 503)
  /\ Is(Must("RobotEnable", 503), "must", "RobotEnable", 503)
  /\ Is(Must("StartJOG", 503), "must", "StartJOG", 503)
  /\ Is(Must("qconn", 503), "must", "qconn", 503) /\ Is(Must("shell", 502), "must", "shell", 502)
  /\ Is(MustOrFull("GetForwardKin", 409), "mustOrFull", "GetForwardKin", 409)
  /\ Is(Raw("ActGripper", 502), "raw", "ActGripper", 502)
  /\ Is(Raw("MoveGripper", 502), "raw", "MoveGripper", 502)
  /\ Is(RefusedToo("ShutDownRobotOS"), "refusedToo", "ShutDownRobotOS", 0)
  /\ Is(Sound("allowlist", 403), "sound", "allowlist", 403)
  /\ Is(Sound("commandSet", 400), "sound", "commandSet", 400)
  /\ Is(Sound("never", 501), "sound", "never", 501)
  /\ Is(Sound("shape", 422), "sound", "shape", 422)
  /\ Is(Sound("standstill", 409), "sound", "standstill", 409)
  /\ Is(SoundOrFull("fitted", 409), "soundOrFull", "fitted", 409)
  /\ Is(SoundOrFull("floor", 409), "soundOrFull", "floor", 409)
  /\ Is(SoundOrFull("limits", 409), "soundOrFull", "limits", 409)
  /\ Is(SoundOrFull("step", 422), "soundOrFull", "step", 422)
  /\ Is(SoundOrFull("vel", 422), "soundOrFull", "vel", 422)
  /\ Is(Tried("ImmStopJOG"), "tried", "ImmStopJOG", 0)
  /\ Is(Tried("ProgramStop"), "tried", "ProgramStop", 0)
  /\ Is(Tried("SetAO"), "tried", "SetAO", 0) /\ Is(Tried("SetDO"), "tried", "SetDO", 0)
  /\ Is(Tried("StopMotion"), "tried", "StopMotion", 0)
  /\ Is(Tried("luaValidator"), "tried", "luaValidator", 0)
  BY DEF Is, Step, Audit, Bounded, Checked, Confirmed, Enabled, Free, FreeOrFull, Limits, MayDrop,
     MayHeed, MayMust, MayTry, Must, MustOrFull, Occupied, OrUnknown, Raw, RefusedToo, Sound,
     SoundOrFull, Tried

\* Table by table, what is said of rows holds of the watched ones.
LEMMA RobotEnableIsKept == KeptTable(RobotEnable)
<1>1. Kept("enable", RobotEnable["enable"])
  <2>1. Sane(RobotEnable["enable"])
    BY WatchedSteps DEF Is, RobotEnable, Sane, IsSeq, Forbidden
  <2>2. Opened(RobotEnable["enable"])
    BY WatchedSteps DEF Is, RobotEnable, Opened, Calls, Left, Root
  <2>3. \A i \in DOMAIN RobotEnable["enable"] : RobotEnable["enable"][i].does \notin {"refusedToo", "orUnknown"}
    BY WatchedSteps DEF Is, RobotEnable
  <2>4. Recording(RobotEnable["enable"])
    BY SMTT(30), WatchedSteps DEF Is, RobotEnable, Recording, Calls, Left, Reads
  <2>5. QED
    BY <2>1, <2>2, <2>3, <2>4 DEF Kept, RecordedFirst, RobotEnable, Gripper, StopRoutes, StopRow
<1>2. Kept("disable", RobotEnable["disable"])
  <2>1. Sane(RobotEnable["disable"])
    BY WatchedSteps DEF Is, RobotEnable, Sane, IsSeq, Forbidden
  <2>2. Opened(RobotEnable["disable"])
    BY WatchedSteps DEF Is, RobotEnable, Opened, Calls, Left, Root
  <2>3. \A i \in DOMAIN RobotEnable["disable"] : RobotEnable["disable"][i].does \notin {"refusedToo", "orUnknown"}
    BY WatchedSteps DEF Is, RobotEnable
  <2>4. Recording(RobotEnable["disable"])
    BY WatchedSteps DEF Is, RobotEnable, Recording, Calls, Left, Reads
  <2>5. QED
    BY <2>1, <2>2, <2>3, <2>4 DEF Kept, RecordedFirst, RobotEnable, Gripper, StopRoutes, StopRow
<1>3. DOMAIN RobotEnable = {"enable", "disable"}
  BY DEF RobotEnable
<1>4. QED
  BY <1>1, <1>2, <1>3 DEF KeptTable

LEMMA JogIsKept == KeptTable(Jog)
<1>1. Kept("jog", Jog["jog"])
  <2>1. Sane(Jog["jog"])
    BY WatchedSteps DEF Is, Jog, Sane, IsSeq, Forbidden
  <2>2. Opened(Jog["jog"])
    BY WatchedSteps DEF Is, Jog, Opened, Calls, Left, Root
  <2>3. \A i \in DOMAIN Jog["jog"] : Jog["jog"][i].does \notin {"refusedToo", "orUnknown"}
    BY WatchedSteps DEF Is, Jog
  <2>4. Recording(Jog["jog"])
    BY SMTT(30), WatchedSteps DEF Is, Jog, Recording, Calls, Left, Reads
  <2>5. QED
    BY <2>1, <2>2, <2>3, <2>4 DEF Kept, RecordedFirst, RobotEnable, Gripper, StopRoutes, StopRow
<1>2. DOMAIN Jog = {"jog"}
  BY DEF Jog
<1>3. QED
  BY <1>1, <1>2 DEF KeptTable

LEMMA JogLinearIsKept == KeptTable(JogLinear)
<1>1. Kept("jog_linear", JogLinear["jog_linear"])
  <2>1. Sane(JogLinear["jog_linear"])
    BY WatchedSteps DEF Is, JogLinear, Sane, IsSeq, Forbidden
  <2>2. Opened(JogLinear["jog_linear"])
    BY WatchedSteps DEF Is, JogLinear, Opened, Calls, Left, Root
  <2>3. \A i \in DOMAIN JogLinear["jog_linear"] : JogLinear["jog_linear"][i].does \notin {"refusedToo", "orUnknown"}
    BY WatchedSteps DEF Is, JogLinear
  <2>4. Recording(JogLinear["jog_linear"])
    BY SMTT(30), WatchedSteps DEF Is, JogLinear, Recording, Calls, Left, Reads
  <2>5. QED
    BY <2>1, <2>2, <2>3, <2>4 DEF Kept, RecordedFirst, RobotEnable, Gripper, StopRoutes, StopRow
<1>2. DOMAIN JogLinear = {"jog_linear"}
  BY DEF JogLinear
<1>3. QED
  BY <1>1, <1>2 DEF KeptTable

LEMMA ResetErrorsIsKept == KeptTable(ResetErrors)
<1>1. Kept("reset_errors", ResetErrors["reset_errors"])
  <2>1. Sane(ResetErrors["reset_errors"])
    BY WatchedSteps DEF Is, ResetErrors, Sane, IsSeq, Forbidden
  <2>2. Opened(ResetErrors["reset_errors"])
    BY WatchedSteps DEF Is, ResetErrors, Opened, Calls, Left, Root
  <2>3. \A i \in DOMAIN ResetErrors["reset_errors"] : ResetErrors["reset_errors"][i].does \notin {"refusedToo", "orUnknown"}
    BY WatchedSteps DEF Is, ResetErrors
  <2>4. Recording(ResetErrors["reset_errors"])
    BY WatchedSteps DEF Is, ResetErrors, Recording, Calls, Left, Reads
  <2>5. QED
    BY <2>1, <2>2, <2>3, <2>4 DEF Kept, RecordedFirst, RobotEnable, Gripper, StopRoutes, StopRow
<1>2. DOMAIN ResetErrors = {"reset_errors"}
  BY DEF ResetErrors
<1>3. QED
  BY <1>1, <1>2 DEF KeptTable

LEMMA MotionStopIsKept == KeptTable(MotionStop)
<1>1. Kept("motion_stop", MotionStop["motion_stop"])
  <2>1. Sane(MotionStop["motion_stop"])
    BY WatchedSteps DEF Is, MotionStop, Sane, IsSeq, Forbidden
  <2>2. Opened(MotionStop["motion_stop"])
    BY WatchedSteps DEF Is, MotionStop, Opened, Calls, Left, Root
  <2>3. \A i \in DOMAIN MotionStop["motion_stop"] : MotionStop["motion_stop"][i].does \notin {"refusedToo", "orUnknown"}
    BY WatchedSteps DEF Is, MotionStop
  <2>4. QED
    BY <2>1, <2>2, <2>3 DEF Kept, RecordedFirst, RobotEnable, Gripper, StopRoutes, StopRow
<1>2. DOMAIN MotionStop = {"motion_stop"}
  BY DEF MotionStop
<1>3. QED
  BY <1>1, <1>2 DEF KeptTable

LEMMA MoveIsKept == KeptTable(Move)
<1>1. Kept("move", Move["move"])
  <2>1. Sane(Move["move"])
    BY WatchedSteps DEF Is, Move, Sane, IsSeq, Forbidden
  <2>2. Opened(Move["move"])
    BY WatchedSteps DEF Is, Move, Opened, Calls, Left, Root
  <2>3. \A i \in DOMAIN Move["move"] : Move["move"][i].does \notin {"refusedToo", "orUnknown"}
    BY WatchedSteps DEF Is, Move
  <2>4. Recording(Move["move"])
    <3>1. /\ 11 \in DOMAIN Move["move"] /\ Move["move"][11].does = "audit"
          /\ \A i \in 1..11 : Move["move"][i].does \in Calls => Move["move"][i].of \in Reads
      BY WatchedSteps DEF Is, Move, Calls, Left, Reads
    <3>2. QED
      BY <3>1 DEF Recording
  <2>5. OnMotion(Move["move"])
    <3>1. /\ {4, 5} \subseteq DOMAIN Move["move"]
          /\ Move["move"][4] = Checked("motion") /\ Move["move"][5] = Confirmed(400)
      BY DEF Move
    <3>2. \A i \in DOMAIN Move["move"] :
             /\ Move["move"][i].does \in Calls => 4 < i /\ 5 < i
             /\ Move["move"][i].does \in {"free", "freeOrFull", "checked"} => Move["move"][i].of = "motion"
             /\ Move["move"][i].does # "rule"
      BY WatchedSteps DEF Is, Move, Calls, Left
    <3>3. QED
      BY <3>1, <3>2 DEF OnMotion
  <2>6. QED
    BY <2>1, <2>2, <2>3, <2>4, <2>5 DEF Kept, RecordedFirst, RobotEnable, Gripper,
       StopRoutes, StopRow
<1>2. DOMAIN Move = {"move"}
  BY DEF Move
<1>3. QED
  BY <1>1, <1>2 DEF KeptTable

LEMMA SafetyStopIsKept == KeptTable(SafetyStop)
<1>1. Kept("safety_stop", SafetyStop["safety_stop"])
  <2>1. Sane(SafetyStop["safety_stop"])
    BY WatchedSteps DEF Is, SafetyStop, Sane, IsSeq, Forbidden
  <2>2. Opened(SafetyStop["safety_stop"])
    BY WatchedSteps DEF Is, SafetyStop, Opened, Calls, Left, Root
  <2>3. \A i \in DOMAIN SafetyStop["safety_stop"] : SafetyStop["safety_stop"][i].does \notin {"refusedToo", "orUnknown"}
    BY WatchedSteps DEF Is, SafetyStop
  <2>4. QED
    BY <2>1, <2>2, <2>3 DEF Kept, RecordedFirst, RobotEnable, Gripper, StopRoutes, StopRow
<1>2. DOMAIN SafetyStop = {"safety_stop"}
  BY DEF SafetyStop
<1>3. QED
  BY <1>1, <1>2 DEF KeptTable

LEMMA GripperIsKept == KeptTable(Gripper)
<1>1. Kept("gripper_activate", Gripper["gripper_activate"])
  <2>1. Sane(Gripper["gripper_activate"])
    BY WatchedSteps DEF Is, Gripper, Sane, IsSeq, Forbidden
  <2>2. Opened(Gripper["gripper_activate"])
    BY WatchedSteps DEF Is, Gripper, Opened, Calls, Left, Root
  <2>3. \A i \in DOMAIN Gripper["gripper_activate"] : Gripper["gripper_activate"][i].does \notin {"refusedToo", "orUnknown"}
    BY WatchedSteps DEF Is, Gripper
  <2>4. Recording(Gripper["gripper_activate"])
    BY SMTT(30), WatchedSteps DEF Is, Gripper, Recording, Calls, Left, Reads
  <2>5. OnMotion(Gripper["gripper_activate"])
    BY SMTT(30), WatchedSteps DEF Is, Gripper, OnMotion, Calls, Left
  <2>6. QED
    BY <2>1, <2>2, <2>3, <2>4, <2>5 DEF Kept, RecordedFirst, RobotEnable, Gripper,
       StopRoutes, StopRow
<1>2. Kept("gripper_command", Gripper["gripper_command"])
  <2>1. Sane(Gripper["gripper_command"])
    BY WatchedSteps DEF Is, Gripper, Sane, IsSeq, Forbidden
  <2>2. Opened(Gripper["gripper_command"])
    BY WatchedSteps DEF Is, Gripper, Opened, Calls, Left, Root
  <2>3. \A i \in DOMAIN Gripper["gripper_command"] : Gripper["gripper_command"][i].does \notin {"refusedToo", "orUnknown"}
    BY WatchedSteps DEF Is, Gripper
  <2>4. Recording(Gripper["gripper_command"])
    BY SMTT(30), WatchedSteps DEF Is, Gripper, Recording, Calls, Left, Reads
  <2>5. OnMotion(Gripper["gripper_command"])
    BY WatchedSteps DEF Is, Gripper, OnMotion, Calls, Left
  <2>6. QED
    BY <2>1, <2>2, <2>3, <2>4, <2>5 DEF Kept, RecordedFirst, RobotEnable, Gripper,
       StopRoutes, StopRow
<1>3. DOMAIN Gripper = {"gripper_activate", "gripper_command"}
  BY DEF Gripper
<1>4. QED
  BY <1>1, <1>2, <1>3 DEF KeptTable

LEMMA PowerIsKept == KeptTable(Power)
<1>1. Kept("shutdown", Power["shutdown"])
  <2>1. Sane(Power["shutdown"])
    BY WatchedSteps DEF Is, Power, Sane, IsSeq, Forbidden
  <2>2. Opened(Power["shutdown"])
    BY WatchedSteps DEF Is, Power, Opened, Calls, Left, Root
  <2>3. Reserved(Power["shutdown"])
    BY WatchedSteps DEF Is, Power, Reserved
  <2>4. Recording(Power["shutdown"])
    BY SMTT(30), WatchedSteps DEF Is, Power, Recording, Calls, Left, Reads
  <2>5. \A i \in DOMAIN Power["shutdown"] : Power["shutdown"][i].does # "orUnknown"
    BY WatchedSteps DEF Is, Power
  <2>6. QED
    BY <2>1, <2>2, <2>3, <2>4, <2>5 DEF Kept, RecordedFirst, RobotEnable, Gripper, StopRoutes, StopRow
<1>2. DOMAIN Power = {"shutdown"}
  BY DEF Power
<1>3. QED
  BY <1>1, <1>2 DEF KeptTable

LEMMA ShellRoutesIsKept == KeptTable(ShellRoutes)
<1>1. Kept("processes", ShellRoutes["processes"])
  <2>1. Sane(ShellRoutes["processes"])
    BY WatchedSteps DEF Is, ShellRoutes, Sane, IsSeq, Forbidden
  <2>2. Opened(ShellRoutes["processes"])
    BY WatchedSteps DEF Is, ShellRoutes, Opened, Calls, Left, Root
  <2>3. \A i \in DOMAIN ShellRoutes["processes"] : ShellRoutes["processes"][i].does \notin {"refusedToo", "orUnknown"}
    BY WatchedSteps DEF Is, ShellRoutes
  <2>4. QED
    BY <2>1, <2>2, <2>3 DEF Kept, RecordedFirst, RobotEnable, Gripper, StopRoutes, StopRow
<1>2. Kept("shell", ShellRoutes["shell"])
  <2>1. Sane(ShellRoutes["shell"])
    BY WatchedSteps DEF Is, ShellRoutes, Sane, IsSeq, Forbidden
  <2>2. Opened(ShellRoutes["shell"])
    BY WatchedSteps DEF Is, ShellRoutes, Opened, Calls, Left, Root
  <2>3. \A i \in DOMAIN ShellRoutes["shell"] : ShellRoutes["shell"][i].does \notin {"refusedToo", "orUnknown"}
    BY WatchedSteps DEF Is, ShellRoutes
  <2>4. Recording(ShellRoutes["shell"])
    BY WatchedSteps DEF Is, ShellRoutes, Recording, Calls, Left, Reads
  <2>5. QED
    BY <2>1, <2>2, <2>3, <2>4 DEF Kept, RecordedFirst, RobotEnable, Gripper, StopRoutes, StopRow
<1>3. Kept("restart", ShellRoutes["restart"])
  <2>1. Sane(ShellRoutes["restart"])
    BY WatchedSteps DEF Is, ShellRoutes, Sane, IsSeq, Forbidden
  <2>2. Opened(ShellRoutes["restart"])
    BY WatchedSteps DEF Is, ShellRoutes, Opened, Calls, Left, Root
  <2>3. \A i \in DOMAIN ShellRoutes["restart"] : ShellRoutes["restart"][i].does \notin {"refusedToo", "orUnknown"}
    BY WatchedSteps DEF Is, ShellRoutes
  <2>4. Recording(ShellRoutes["restart"])
    BY WatchedSteps DEF Is, ShellRoutes, Recording, Calls, Left, Reads
  <2>5. QED
    BY <2>1, <2>2, <2>3, <2>4 DEF Kept, RecordedFirst, RobotEnable, Gripper, StopRoutes, StopRow
<1>4. Kept("reboot", ShellRoutes["reboot"])
  <2>1. Sane(ShellRoutes["reboot"])
    BY WatchedSteps DEF Is, ShellRoutes, Sane, IsSeq, Forbidden
  <2>2. Opened(ShellRoutes["reboot"])
    BY WatchedSteps DEF Is, ShellRoutes, Opened, Calls, Left, Root
  <2>3. \A i \in DOMAIN ShellRoutes["reboot"] : ShellRoutes["reboot"][i].does \notin {"refusedToo", "orUnknown"}
    BY WatchedSteps DEF Is, ShellRoutes
  <2>4. Recording(ShellRoutes["reboot"])
    BY SMTT(30), WatchedSteps DEF Is, ShellRoutes, Recording, Calls, Left, Reads
  <2>5. QED
    BY <2>1, <2>2, <2>3, <2>4 DEF Kept, RecordedFirst, RobotEnable, Gripper, StopRoutes, StopRow
<1>5. DOMAIN ShellRoutes = {"processes", "shell", "restart", "reboot"}
  BY DEF ShellRoutes
<1>6. QED
  BY <1>1, <1>2, <1>3, <1>4, <1>5 DEF KeptTable

LEMMA OtherServicesIsKept == KeptTable(OtherServices)
<1>1. Kept("qconn", OtherServices["qconn"])
  <2>1. Sane(OtherServices["qconn"])
    BY WatchedSteps DEF Is, OtherServices, Sane, IsSeq, Forbidden
  <2>2. Opened(OtherServices["qconn"])
    BY WatchedSteps DEF Is, OtherServices, Opened, Calls, Left, Root
  <2>3. \A i \in DOMAIN OtherServices["qconn"] : OtherServices["qconn"][i].does \notin {"refusedToo", "orUnknown"}
    BY WatchedSteps DEF Is, OtherServices
  <2>4. QED
    BY <2>1, <2>2, <2>3 DEF Kept, RecordedFirst, RobotEnable, Gripper, StopRoutes, StopRow
<1>2. Kept("lua_validator", OtherServices["lua_validator"])
  <2>1. Sane(OtherServices["lua_validator"])
    BY WatchedSteps DEF Is, OtherServices, Sane, IsSeq, Forbidden
  <2>2. Opened(OtherServices["lua_validator"])
    BY WatchedSteps DEF Is, OtherServices, Opened, Calls, Left, Root
  <2>3. \A i \in DOMAIN OtherServices["lua_validator"] : OtherServices["lua_validator"][i].does \notin {"refusedToo", "orUnknown"}
    BY WatchedSteps DEF Is, OtherServices
  <2>4. QED
    BY <2>1, <2>2, <2>3 DEF Kept, RecordedFirst, RobotEnable, Gripper, StopRoutes, StopRow
<1>3. Kept("lua_validate", OtherServices["lua_validate"])
  <2>1. Sane(OtherServices["lua_validate"])
    BY WatchedSteps DEF Is, OtherServices, Sane, IsSeq, Forbidden
  <2>2. Opened(OtherServices["lua_validate"])
    BY WatchedSteps DEF Is, OtherServices, Opened, Calls, Left, Root
  <2>3. \A i \in DOMAIN OtherServices["lua_validate"] : OtherServices["lua_validate"][i].does \notin {"refusedToo", "orUnknown"}
    BY WatchedSteps DEF Is, OtherServices
  <2>4. QED
    BY <2>1, <2>2, <2>3 DEF Kept, RecordedFirst, RobotEnable, Gripper, StopRoutes, StopRow
<1>4. DOMAIN OtherServices = {"qconn", "lua_validator", "lua_validate"}
  BY DEF OtherServices
<1>5. QED
  BY <1>1, <1>2, <1>3, <1>4 DEF KeptTable

LEMMA ExecutionStopIsKept == KeptTable(ExecutionStop)
<1>1. Kept("execution_stop", ExecutionStop["execution_stop"])
  <2>1. Sane(ExecutionStop["execution_stop"])
    BY WatchedSteps DEF Is, ExecutionStop, Sane, IsSeq, Forbidden
  <2>2. Opened(ExecutionStop["execution_stop"])
    BY WatchedSteps DEF Is, ExecutionStop, Opened, Calls, Left, Root
  <2>3. \A i \in DOMAIN ExecutionStop["execution_stop"] : ExecutionStop["execution_stop"][i].does \notin {"refusedToo", "orUnknown"}
    BY WatchedSteps DEF Is, ExecutionStop
  <2>4. QED
    BY <2>1, <2>2, <2>3 DEF Kept, RecordedFirst, RobotEnable, Gripper, StopRoutes, StopRow
<1>2. DOMAIN ExecutionStop = {"execution_stop"}
  BY DEF ExecutionStop
<1>3. QED
  BY <1>1, <1>2 DEF KeptTable

LEMMA ExecutionReadIsKept == KeptTable(ExecutionRead)
<1>1. Kept("execution", ExecutionRead["execution"])
  <2>1. Sane(ExecutionRead["execution"])
    BY WatchedSteps DEF Is, ExecutionRead, Sane, IsSeq, Forbidden
  <2>2. Opened(ExecutionRead["execution"])
    BY WatchedSteps DEF Is, ExecutionRead, Opened, Calls, Left, Root
  <2>3. \A i \in DOMAIN ExecutionRead["execution"] : ExecutionRead["execution"][i].does # "refusedToo"
    BY WatchedSteps DEF Is, ExecutionRead
  <2>4. QED
    BY <2>1, <2>2, <2>3 DEF Kept, RecordedFirst, RobotEnable, Gripper, StopRoutes, StopRow
<1>2. DOMAIN ExecutionRead = {"execution"}
  BY DEF ExecutionRead
<1>3. QED
  BY <1>1, <1>2 DEF KeptTable

\* So it holds of every table, and of the handlers made from them.
LEMMA TablesAreKept == \A table \in Tables : KeptTable(table)
<1>1. \A table \in Tables :
         \/ table \in {RobotEnable, Jog, JogLinear, ResetErrors, MotionStop, Move, SafetyStop,
                       Gripper, Power, ShellRoutes, OtherServices, ExecutionStop, ExecutionRead}
         \/ OrdinaryTable(table)
  BY PlainTables, TriedTables, QuietTables, JoinedTables DEF Tables
<1>2. QED
  BY <1>1, OrdinaryTableIsKept, RobotEnableIsKept, JogIsKept, JogLinearIsKept, ResetErrorsIsKept,
     MotionStopIsKept, MoveIsKept, SafetyStopIsKept, GripperIsKept, PowerIsKept, ShellRoutesIsKept,
     OtherServicesIsKept, ExecutionStopIsKept, ExecutionReadIsKept

LEMMA HandlersAreKept == \A route \in DOMAIN Handlers : Kept(route, Handlers[route])
<1> SUFFICES ASSUME NEW route \in DOMAIN Handlers
             PROVE  Kept(route, Handlers[route])
  OBVIOUS
<1>1. \E table \in Tables : route \in DOMAIN table
  BY DEF Handlers
<1> DEFINE table == CHOOSE table \in Tables : route \in DOMAIN table
<1>2. table \in Tables /\ route \in DOMAIN table
  BY <1>1
<1>3. Handlers[route] = table[route]
  BY DEF Handlers
<1>4. QED
  BY <1>2, <1>3, TablesAreKept DEF KeptTable

-----------------------------------------------------------------------------
(* Rows that depend on a kind of file, on the flags or on a command.       *)

\* Whatever the kind, a route of files has ordinary steps only: no verb of a kind is a refused call.
LEMMA FileRowIsOrdinary ==
  ASSUME NEW route \in FileRoutes, NEW kind
  PROVE  /\ OrdinaryRow(FileRow(route, kind))
         /\ route \in {"file_upload", "file_delete"} => Audited(FileRow(route, kind))
<1>1. CASE Resolve(kind) # 200
  <2> DEFINE refuse == Refuse(Resolve(kind))
  <2>1. Ordinary(refuse) /\ refuse.does \notin Calls
    BY <1>1 DEF Resolve, Ordinary, Refuse, Step, Root, Forbidden, Calls, Left
  <2>2. FileRow(route, kind) = <<refuse>>
    BY <1>1 DEF FileRow
  <2> HIDE DEF refuse
  <2>3. QED
    BY <2>1, <2>2, Row1 DEF Audited
<1>2. CASE Resolve(kind) = 200
  <2>1. kind \in {"lua", "open_lua", "point_table", "controller_log"}
    BY <1>2 DEF Resolve, FileTypes
  <2>2. /\ FileTypes[kind].upload \notin Root \cup Forbidden
        /\ FileTypes[kind].download \notin Root \cup Forbidden
        /\ FileTypes[kind].delete \notin Root \cup Forbidden
    BY <2>1 DEF FileTypes, Types, Root, Forbidden
  <2>3. /\ Kinds[kind].prepare \notin Root \cup Forbidden /\ Kinds[kind].commit \notin Root \cup Forbidden
        /\ Kinds[kind].domain \notin Root \cup Forbidden
    BY <2>1 DEF Kinds, Root, Forbidden
  <2>4. /\ OrdinaryRow(<<Refuse(405)>>) /\ OrdinaryRow(<<FileName(kind)>>) /\ OrdinaryRow(<<Audit>>)
        /\ OrdinaryRow(<<Free(Kinds[kind].domain)>>)
        /\ OrdinaryRow(<<Must(Kinds[kind].prepare, 404)>>)
        /\ OrdinaryRow(<<Must(Kinds[kind].commit, 422)>>)
    <3>1. /\ Ordinary(Refuse(405)) /\ Ordinary(FileName(kind)) /\ Ordinary(Audit)
          /\ Ordinary(Free(Kinds[kind].domain)) /\ Ordinary(Must(Kinds[kind].prepare, 404))
          /\ Ordinary(Must(Kinds[kind].commit, 422))
      BY <2>3 DEF Ordinary, Refuse, FileName, Sound, Audit, Free, Must, Step, Root, Forbidden
    <3>2. QED
      BY <3>1, Row1
  <2>5. CASE route = "file_upload"
    <3>1. /\ Ordinary(Tried(FileTypes[kind].download)) /\ Ordinary(Must(FileTypes[kind].upload, 502))
          /\ Ordinary(Sound("match", 412)) /\ Ordinary(Sound("body", 422))
          /\ Ordinary(Sound("size", 413)) /\ Ordinary(FileName(kind))
      BY <2>2 DEF Ordinary, Tried, Must, FileName, Sound, Step, Root, Forbidden
    <3>2. /\ OrdinaryRow(<<FileName(kind), Sound("body", 422), Sound("size", 413)>>)
          /\ OrdinaryRow(<<Tried(FileTypes[kind].download), Sound("match", 412)>>)
          /\ OrdinaryRow(<<Must(FileTypes[kind].upload, 502)>>)
      BY <3>1, Row1, Row2, Row3
    <3> DEFINE before ==
           If("upload" \notin Ops(kind), <<Refuse(405)>>)
           \o If(Kinds[kind].domain # "none", <<Free(Kinds[kind].domain)>>)
           \o <<FileName(kind), Sound("body", 422), Sound("size", 413)>>
           \o If("download" \in Ops(kind), <<Tried(FileTypes[kind].download), Sound("match", 412)>>)
           \o <<Must(FileTypes[kind].upload, 502)>>
           \o If(Kinds[kind].commit # "none", <<Must(Kinds[kind].commit, 422)>>)
    <3>3. OrdinaryRow(before)
      BY <2>4, <3>2, JoinedRow, PossibleRow
    <3>4. FileRow(route, kind) = before \o <<Audit>>
      BY SMTT(30), <1>2, <2>5 DEF FileRow, FileUpload
    <3> HIDE DEF before
    <3>5. Audited(before \o <<Audit>>)
      <4> DEFINE last == <<Audit>>
      <4>1. IsSeq(last) /\ 1 \in DOMAIN last /\ last[1] = Audit
        BY DEF IsSeq
      <4> HIDE DEF last
      <4>2. Audited(before \o last)
        BY <3>3, <4>1, JoinedAudit DEF OrdinaryRow
      <4>3. QED
        BY <4>2 DEF last
    <3>6. QED
      BY <2>4, <3>3, <3>4, <3>5, JoinedRow
  <2>6. CASE route = "file_download"
    <3>1. Ordinary(Must(FileTypes[kind].download, 404))
      BY <2>2 DEF Ordinary, Must, Step
    <3>2. OrdinaryRow(<<Must(FileTypes[kind].download, 404)>>)
      BY <3>1, Row1
    <3>3. OrdinaryRow(FileDownload(kind))
      BY <2>4, <3>2, JoinedRow, PossibleRow DEF FileDownload
    <3>4. QED
      BY <1>2, <2>6, <3>3 DEF FileRow
  <2>7. CASE route = "file_delete"
    <3>1. Ordinary(Must(FileTypes[kind].delete, 502))
      BY <2>2 DEF Ordinary, Must, Step
    <3>2. /\ OrdinaryRow(<<Must(FileTypes[kind].delete, 502), Audit>>)
          /\ OrdinaryRow(<<Tried("GetLoadedProgram"), Sound("loaded", 409)>>)
      BY <3>1, OrdinaryChecks, OrdinaryCalls, Row2
    <3> DEFINE before ==
           If("delete" \notin Ops(kind), <<Refuse(405)>>)
           \o If(Kinds[kind].domain # "none", <<Free(Kinds[kind].domain)>>)
           \o <<FileName(kind)>>
           \o If(kind = "lua", <<Tried("GetLoadedProgram"), Sound("loaded", 409)>>)
           last == Must(FileTypes[kind].delete, 502)
    <3>3. OrdinaryRow(before)
      BY <2>4, <3>2, JoinedRow, PossibleRow
    <3>4. FileRow(route, kind) = before \o <<last, Audit>>
      BY <1>2, <2>7 DEF FileRow, FileDelete
    <3> HIDE DEF before, last
    <3>5. Audited(before \o <<last, Audit>>)
      <4> DEFINE end == <<last, Audit>>
      <4>1. IsSeq(end) /\ 2 \in DOMAIN end /\ end[2] = Audit
        BY DEF IsSeq
      <4> HIDE DEF end
      <4>2. Audited(before \o end)
        BY <3>3, <4>1, JoinedAudit DEF OrdinaryRow
      <4>3. QED
        BY <4>2 DEF end
    <3>6. OrdinaryRow(<<last, Audit>>)
      BY <3>2 DEF last
    <3>7. QED
      BY <3>3, <3>4, <3>5, <3>6, JoinedRow
  <2>8. CASE route = "file_list"
    <3>1. Ordinary(Sound("source", 422))
      BY DEF Ordinary, Sound, Step, Root, Forbidden
    <3>2. OrdinaryRow(<<Sound("source", 422)>>) /\ OrdinaryRow(Listed)
      BY <3>1, OrdinaryChecks, OrdinaryCalls, Row1, Row2 DEF Listed
    <3>3. OrdinaryRow(FileList)
      BY <3>2, JoinedRow DEF FileList
    <3>4. QED
      BY <1>2, <2>8, <3>3 DEF FileRow
  <2>9. QED
    BY <2>5, <2>6, <2>7, <2>8 DEF FileRoutes
<1>3. QED
  BY <1>1, <1>2

LEMMA Pair ==
  ASSUME NEW a, NEW b
  PROVE  <<a>> \o <<b>> = <<a, b>>
<1> DEFINE both == <<a>> \o <<b>>
<1>1. both \in Seq({a, b}) /\ <<a, b>> \in Seq({a, b})
  OBVIOUS
<1>2. Len(both) = 2 /\ both[1] = a /\ both[2] = b
  OBVIOUS
<1>3. both = <<a, b>>
  <2> HIDE DEF both
  <2>1. QED
    BY <1>1, <1>2
<1>4. QED
  BY <1>3

\* The row of /services calls a service that gives root if its flag is on.
LEMMA ServicesAreKept ==
  ASSUME NEW flags
  PROVE  /\ Kept("services", ServicesRow(flags))
         /\ \A i \in DOMAIN ServicesRow(flags) :
               ServicesRow(flags)[i].of \in Root => ServicesRow(flags)[i].of \in flags
<1> DEFINE tried == Tried("qconn")
           other == Tried("luaValidator")
<1>1. /\ TriedAll(<<"qconn">>) = <<tried>> /\ TriedAll(<<"luaValidator">>) = <<other>>
  BY DEF TriedAll
<1>2. /\ Is(tried, "tried", "qconn", 0) /\ Is(other, "tried", "luaValidator", 0)
  BY DEF Is, Tried, Step
<1> HIDE DEF tried, other
<1>3. ServicesRow(flags) \in {<<>>, <<tried>>, <<other>>, <<tried, other>>}
  <2>1. ServicesRow(flags) = If("qconn" \in flags, <<tried>>) \o If("luaValidate" \in flags, <<other>>)
    BY <1>1 DEF ServicesRow
  <2>2. /\ If("qconn" \in flags, <<tried>>) \in {<<>>, <<tried>>}
        /\ If("luaValidate" \in flags, <<other>>) \in {<<>>, <<other>>}
    BY DEF If
  <2>3. <<>> \o <<>> = <<>> /\ <<>> \o <<other>> = <<other>>
    OBVIOUS
  <2>4. <<tried>> \o <<>> = <<tried>>
    <3>1. <<tried>> \in Seq({tried})
      OBVIOUS
    <3>2. QED
      BY <3>1, ConcatEmptySeq
  <2>5. <<tried>> \o <<other>> = <<tried, other>>
    BY Pair
  <2>6. QED
    BY <2>1, <2>2, <2>3, <2>4, <2>5
<1>4. "qconn" \notin flags => ServicesRow(flags) \in {<<>>, <<other>>}
  <2>1. <<>> \o <<>> = <<>> /\ <<>> \o <<other>> = <<other>>
    OBVIOUS
  <2>2. QED
    BY <1>1, <2>1 DEF ServicesRow, If
<1>5. Sane(ServicesRow(flags))
  <2>1. IsSeq(<<>>) /\ IsSeq(<<tried>>) /\ IsSeq(<<other>>) /\ IsSeq(<<tried, other>>)
    BY DEF IsSeq
  <2>2. \A i \in DOMAIN ServicesRow(flags) :
           ServicesRow(flags)[i].of \notin Forbidden /\ ServicesRow(flags)[i].no # 200
    BY <1>2, <1>3 DEF Is, Forbidden
  <2>3. QED
    BY <1>3, <2>1, <2>2 DEF Sane
<1>6. \A i \in DOMAIN ServicesRow(flags) : ServicesRow(flags)[i].does \notin {"refusedToo", "orUnknown"}
  BY <1>2, <1>3 DEF Is
<1>7. "services" \notin RecordedFirst \cup {"move"} \cup DOMAIN Gripper \cup StopRoutes
  BY DEF RecordedFirst, RobotEnable, Gripper, StopRoutes
<1>8. \A i \in DOMAIN ServicesRow(flags) :
         ServicesRow(flags)[i].of \in Root => ServicesRow(flags)[i].of \in flags
  BY <1>2, <1>3, <1>4 DEF Is, Root
<1>9. QED
  BY <1>5, <1>6, <1>7, <1>8 DEF Kept

\* The rows of the generic invoker, for every command of the registry.
LEMMA GenericIsKept ==
  ASSUME NEW route \in GenericRoutes, NEW name \in DOMAIN Commands
  PROVE  Kept(route, Generic(name)[route])
<1>1. WireName(name) \notin Root \cup Forbidden /\ Commands[name].wire \notin Root \cup Forbidden
  BY DEF Commands, Command, WireName, Recovered, Root, Forbidden
<1>2. /\ Ordinary(Rule("known", 404)) /\ Ordinary(Rule("callable", 0)) /\ Ordinary(Rule("gate", 0))
      /\ Ordinary(Rule("occupied", 428))
      /\ Ordinary(Rule("verified", 403)) /\ Ordinary(Rule("open", 428)) /\ Ordinary(Audit)
      /\ Ordinary(SoundOrFull("arguments", 422)) /\ Ordinary(Enabled("passthrough"))
      /\ Ordinary(Raw(WireName(name), 502)) /\ Ordinary(Raw(Commands[name].wire, 502))
  <2> HIDE DEF Commands
  <2>1. QED
    BY <1>1 DEF Ordinary, Rule, Audit, SoundOrFull, Enabled, Raw, Step, Root, Forbidden
<1>3. OrdinaryRow(Generic(name)["invoke"]) /\ OrdinaryRow(Generic(name)["commands"])
  BY <1>2, Row7 DEF Generic
<1>4. CASE route = "commands"
  BY <1>3, <1>4, OrdinaryIsKept DEF Watched
<1>5. CASE route = "invoke"
  <2> DEFINE row == Generic(name)["invoke"]
  <2>1. Sane(row) /\ Opened(row) /\ \A i \in DOMAIN row : row[i].does \notin {"refusedToo", "orUnknown"}
    BY <1>3 DEF OrdinaryRow, Ordinary, Sane, Opened
  <2>2. /\ 6 \in DOMAIN row /\ row[6].does = "audit"
        /\ \A i \in 1..6 : row[i].does \notin Calls
    BY DEF Generic, Rule, SoundOrFull, Audit, Step, Calls, Left
  <2>3. Recording(row)
    BY <2>2 DEF Recording
  <2>4. "invoke" \notin {"move", "shutdown"} \cup DOMAIN Gripper \cup StopRoutes
    BY DEF Gripper, StopRoutes
  <2>5. QED
    BY <1>5, <2>1, <2>3, <2>4 DEF Kept
<1>6. QED
  BY <1>4, <1>5 DEF GenericRoutes

-----------------------------------------------------------------------------
(* The row of the request that is served.                                  *)

Own == Handler(req.route, req.name)
Steps == Row(req)

\* What is said of rows holds of the row of the request that is served.
LEMMA OwnIsKept ==
  ASSUME req.route \in Route, req.name \in Named(req.route)
  PROVE  Kept(req.route, Own)
<1>1. CASE req.route \in FileRoutes
  <2>1. OrdinaryRow(Own)
    BY <1>1, FileRowIsOrdinary DEF Own, Handler
  <2>2. req.route \notin Watched
    BY <1>1 DEF FileRoutes, Watched
  <2>3. QED
    BY <2>1, <2>2, OrdinaryIsKept
<1>2. CASE req.route \notin FileRoutes /\ req.route = "services"
  BY <1>2, ServicesAreKept DEF Own, Handler
<1>3. CASE req.route \notin FileRoutes \cup GenericRoutes \cup {"services"}
  BY <1>3, HandlersAreKept DEF Own, Handler, Route
<1>4. CASE req.route \in GenericRoutes
  <2>1. req.route \notin FileRoutes \cup {"services"}
    BY <1>4 DEF GenericRoutes, FileRoutes
  <2>2. CASE Known(req.name)
    BY <1>4, <2>1, <2>2, GenericIsKept DEF Own, Handler, Known
  <2>3. CASE ~Known(req.name)
    <3> DEFINE rule == Rule("known", 404)
    <3>1. Ordinary(rule) /\ rule.does \notin Calls
      BY DEF Ordinary, Rule, Step, Root, Forbidden, Calls, Left
    <3>2. Own = <<rule>>
      BY <1>4, <2>1, <2>3 DEF Own, Handler
    <3> HIDE DEF rule
    <3>3. OrdinaryRow(Own)
      BY <3>1, <3>2, Row1
    <3>4. Sane(Own) /\ Opened(Own) /\ \A i \in DOMAIN Own : Own[i].does \notin {"refusedToo", "orUnknown"}
      BY <3>3 DEF OrdinaryRow, Ordinary, Sane, Opened
    <3>5. \A i \in DOMAIN Own : Own[i].does \notin Calls
      BY <3>1, <3>2
    <3>6. req.route \notin {"move", "shutdown"} \cup DOMAIN Gripper \cup StopRoutes
      BY <1>4 DEF GenericRoutes, Gripper, StopRoutes
    <3>7. QED
      BY <3>4, <3>5, <3>6 DEF Kept
  <2>4. QED
    BY <2>2, <2>3
<1>5. QED
  BY <1>1, <1>2, <1>3, <1>4

\* The two middlewares stand before the handler's own steps.
LEMMA StepsAre ==
  ASSUME req.route \in Route, req.name \in Named(req.route)
  PROVE  /\ Len(Own) \in Nat /\ DOMAIN Own = 1..Len(Own)
         /\ Len(Steps) = Len(Own) + 2 /\ DOMAIN Steps = 1..(Len(Own) + 2)
         /\ Is(Steps[1], "writable", "none", 403) /\ Is(Steps[2], "keyed", "none", 401)
         /\ \A i \in 1..Len(Own) : Steps[i + 2] = Own[i]
         /\ \A i \in DOMAIN Steps : Steps[i].no # 200
<1> DEFINE first == Step("writable", "none", 403)
           second == Step("keyed", "none", 401)
<1>1. Is(first, "writable", "none", 403) /\ Is(second, "keyed", "none", 401)
  BY DEF Is, Step
<1>2. Steps = <<first, second>> \o Own
  BY DEF Steps, Row, Own
<1> HIDE DEF first, second
<1>3. Kept(req.route, Own)
  BY OwnIsKept
<1>4. IsSeq(Own) /\ \A i \in DOMAIN Own : Own[i].no # 200
  BY <1>3 DEF Kept, Sane
<1>5. Len(Own) \in Nat /\ DOMAIN Own = 1..Len(Own)
  BY <1>4 DEF IsSeq
<1> DEFINE all == {Own[i] : i \in DOMAIN Own} \cup {first, second}
<1>6. Own \in Seq(all)
  BY <1>4, RowIn
<1>7. <<first, second>> \in Seq(all)
  OBVIOUS
<1> HIDE DEF all
<1>8. /\ Len(Steps) = Len(Own) + 2 /\ DOMAIN Steps = 1..(Len(Own) + 2)
      /\ Steps[1] = first /\ Steps[2] = second
      /\ \A i \in 1..Len(Own) : Steps[i + 2] = Own[i]
  BY <1>2, <1>5, <1>6, <1>7
<1>9. \A i \in DOMAIN Steps : Steps[i].no # 200
  <2> SUFFICES ASSUME NEW i \in 1..(Len(Own) + 2)
               PROVE  Steps[i].no # 200
    BY <1>8
  <2>1. i = 1 \/ i = 2 \/ (i - 2 \in 1..Len(Own) /\ (i - 2) + 2 = i)
    BY <1>5
  <2>2. CASE i = 1 \/ i = 2
    BY <1>1, <1>8, <2>2 DEF Is
  <2>3. CASE i - 2 \in 1..Len(Own) /\ (i - 2) + 2 = i
    <3>1. Steps[(i - 2) + 2] = Own[i - 2]
      BY <1>8, <2>3
    <3>2. Own[i - 2].no # 200
      BY <1>4, <1>5, <2>3
    <3>3. QED
      BY <2>3, <3>1, <3>2
  <2>4. QED
    BY <2>1, <2>2, <2>3
<1>10. QED
  BY <1>1, <1>5, <1>8, <1>9

-----------------------------------------------------------------------------
(* The inductive invariant.                                                *)

\* What the start has checked of the settings by the time requests are served.
Settled ==
    (stage = "serving" /\ ~cfg.full)
        => (cfg.loopback \/ cfg.keyFile) /\ (cfg.flags \cap Root = {} \/ cfg.keyFile)

\* What is known of a request that is past a step.
Cleared(s) ==
    /\ s.does = "keyed" => Authorised(req.route, req.key)
    /\ s.does = "enabled" => s.of \in cfg.flags
    /\ s.does = "confirmed" => latched \/ req.confirm
    /\ s.does = "checked" => latched \/ s.of = None \/ warrant # None
    /\ s.does = "audit" => recorded
    /\ (s.does = "rule" /\ s.of = "callable") => CheckCallable(req.name) = 200
    /\ (s.does = "rule" /\ s.of = "gate") =>
          \/ latched
          \/ /\ Requirements(req.name).domain = None \/ warrant # None
             /\ Requirements(req.name).confirm => req.confirm
    /\ (s.does = "rule" /\ s.of = "open") => latched \/ Requirements(req.name).domain = None

\* A step that has the driver send a call.
Makes(s, method) ==
    s.does \in Calls /\ s.of = method /\ (s.does = "refusedToo" \/ ~Barred(method))

\* A request that is past its row, or was answered on the way because a state could not be read.
Ended == at = Len(Steps) + 1 \/ (at \in DOMAIN Steps /\ Steps[at].does = "orUnknown")

Served ==
    /\ stage = "serving"
    /\ req.route \in Route /\ req.name \in Named(req.route)
    /\ at \in 1..(Len(Steps) + 1)
    /\ \A j \in 1..(at - 1) : Cleared(Steps[j])
    /\ warrant \notin {None, "gone"} => \E j \in 1..(at - 1) : warrant = Asked(Steps[j])
    /\ status = 200 => Ended
    /\ \A i \in DOMAIN sent : \E j \in 1..at : j \in DOMAIN Steps /\ Makes(Steps[j], sent[i])

RequestInv ==
    /\ Settled
    /\ IsSeq(sent)
    /\ req = None => at = 1 /\ status = 0 /\ sent = <<>> /\ warrant = None
    /\ req # None => Served

LEMMA AppendIsSeq ==
  ASSUME NEW q, IsSeq(q), NEW x
  PROVE  /\ IsSeq(Append(q, x)) /\ Len(q) \in Nat /\ DOMAIN q = 1..Len(q)
         /\ Len(Append(q, x)) = Len(q) + 1 /\ DOMAIN Append(q, x) = 1..(Len(q) + 1)
         /\ \A i \in 1..Len(q) : Append(q, x)[i] = q[i]
         /\ Append(q, x)[Len(q) + 1] = x
<1> DEFINE all == {q[i] : i \in DOMAIN q} \cup {x}
           longer == Append(q, x)
<1>1. q \in Seq(all) /\ x \in all
  BY RowIn
<1> HIDE DEF all
<1>2. /\ Len(q) \in Nat /\ DOMAIN q = 1..Len(q)
      /\ Len(longer) = Len(q) + 1 /\ DOMAIN longer = 1..(Len(q) + 1)
      /\ \A i \in 1..Len(q) : longer[i] = q[i]
      /\ longer[Len(q) + 1] = x
  BY <1>1
<1>3. longer \in Seq(all)
  BY <1>1
<1> HIDE DEF longer
<1>4. IsSeq(longer)
  BY <1>3 DEF IsSeq
<1>5. QED
  BY <1>2, <1>4 DEF longer

\* A request keeps its row, what it has cleared and what it has sent.
LEMMA StepsStay ==
  ASSUME UNCHANGED <<startVars, req>>
  PROVE  Steps' = Steps /\ Own' = Own
  BY DEF Steps, Own, Row, Handler, startVars

LEMMA ClearedStays ==
  ASSUME NEW s, Cleared(s), UNCHANGED <<startVars, req>>,
         recorded => recorded', warrant # None => warrant' # None
  PROVE  Cleared(s)'
  BY DEF Cleared, Authorised, Enforced, CheckCallable, startVars

LEMMA AskedStays ==
  ASSUME NEW s, UNCHANGED req
  PROVE  Asked(s)' = Asked(s)
  BY DEF Asked

LEMMA MakesStays ==
  ASSUME NEW s, NEW method, Makes(s, method), UNCHANGED startVars
  PROVE  Makes(s, method)'
  BY DEF Makes, Barred, startVars

\* The steps below a step and below the next.
LEMMA Below ==
  ASSUME NEW n \in Nat, NEW m, m = n \/ m = n + 1
  PROVE  /\ \A j \in 1..(m - 1) : j \in 1..(n - 1) \/ (j = n /\ m = n + 1)
         /\ \A j \in 1..(n - 1) : j \in 1..(m - 1)
         /\ \A j \in 1..n : j \in 1..m
         /\ (n >= 1 /\ m = n + 1) => n \in 1..(m - 1)
         /\ n >= 1 => n \in 1..m
<1>1. CASE m = n
  BY <1>1
<1>2. CASE m = n + 1
  BY <1>2
<1>3. QED
  BY <1>1, <1>2

\* What a step s of the request may do: pass it, see who holds its domain, send its call, answer.
Passes(s) == at' = at \/ (at' = at + 1 /\ at \in DOMAIN Steps /\ Cleared(s)')
Sees(s) ==
    \/ warrant' = warrant
    \/ warrant' # None /\ at' = at + 1 /\ warrant' \in {Asked(s), "gone"}
Sends(s) == sent' = sent \/ (sent' = Append(sent, s.of) /\ at \in DOMAIN Steps /\ Makes(s, s.of))
Answers(s) ==
    \/ status' # 200
    \/ /\ at' = at
       /\ \/ status' = status
          \/ at = Len(Steps) + 1
          \/ at \in DOMAIN Steps /\ s.does = "orUnknown"

LEMMA ServedStays ==
  ASSUME Served, IsSeq(sent), UNCHANGED <<startVars, req>>, recorded => recorded',
         NEW CONSTANT s, s = Steps[at],
         Passes(s), Sees(s), Sends(s), Answers(s)
  PROVE  Served' /\ IsSeq(sent')
<1>1. Steps' = Steps
  BY StepsStay
<1>2. /\ Len(Own) \in Nat /\ Len(Steps) = Len(Own) + 2 /\ DOMAIN Steps = 1..(Len(Own) + 2)
  BY StepsAre DEF Served
<1>3. /\ at \in Nat /\ at >= 1 /\ (at' = at \/ at' = at + 1)
      /\ at' = at + 1 => at \in DOMAIN Steps /\ Cleared(s)'
      /\ at \in 1..(Len(Steps) + 1) /\ at' \in 1..(Len(Steps) + 1)
  <2>1. at' = at \/ (at' = at + 1 /\ at \in DOMAIN Steps /\ Cleared(s)')
    BY DEF Passes
  <2>2. at \in 1..(Len(Own) + 3) /\ Len(Steps) + 1 = Len(Own) + 3
    BY <1>2 DEF Served
  <2>3. QED
    BY <1>2, <2>1, <2>2
<1>4. stage' = "serving" /\ (req.route \in Route /\ req.name \in Named(req.route))'
  BY DEF Served, startVars, Named
<1>5. /\ \A j \in 1..(at' - 1) : j \in 1..(at - 1) \/ (j = at /\ at' = at + 1)
      /\ \A j \in 1..(at - 1) : j \in 1..(at' - 1)
      /\ \A j \in 1..at : j \in 1..at'
      /\ at' = at + 1 => at \in 1..(at' - 1)
      /\ at \in 1..at'
  <2>1. at \in Nat /\ at >= 1 /\ (at' = at \/ at' = at + 1)
    BY <1>3
  <2>2. QED
    BY <2>1, Below
<1>6. \A j \in 1..(at' - 1) : Cleared(Steps[j])'
  <2> SUFFICES ASSUME NEW j \in 1..(at' - 1)
               PROVE  Cleared(Steps[j])'
    OBVIOUS
  <2>1. CASE j \in 1..(at - 1)
    <3>1. Cleared(Steps[j])
      BY <2>1 DEF Served
    <3>2. warrant # None => warrant' # None
      BY DEF Sees
    <3>3. QED
      BY <1>1, <3>1, <3>2, ClearedStays
  <2>2. CASE j = at /\ at' = at + 1
    <3>1. s = Steps'[j] /\ Cleared(s)'
      BY <1>1, <1>3, <2>2
    <3>2. QED
      BY <3>1 DEF Cleared
  <2>3. QED
    BY <1>5, <2>1, <2>2
<1>7. warrant' \notin {None, "gone"} => \E j \in 1..(at' - 1) : warrant' = Asked(Steps[j])'
  <2>1. CASE warrant' = warrant
    <3>1. warrant' \notin {None, "gone"} => \E j \in 1..(at - 1) : warrant = Asked(Steps[j])
      BY <2>1 DEF Served
    <3>2. \A j \in 1..(at - 1) : Asked(Steps[j])' = Asked(Steps[j])
      BY <1>1 DEF Asked
    <3>3. QED
      BY <1>5, <2>1, <3>1, <3>2
  <2>2. CASE at' = at + 1 /\ warrant' = Asked(s)
    <3>1. at \in 1..(at' - 1) /\ s = Steps'[at]
      BY <1>1, <1>5, <2>2
    <3>2. Asked(s)' = Asked(s)
      BY AskedStays
    <3>3. QED
      BY <2>2, <3>1, <3>2 DEF Asked
  <2>3. QED
    BY <2>1, <2>2 DEF Sees
<1>8. \A i \in DOMAIN sent' : \E j \in 1..at' : j \in DOMAIN Steps /\ Makes(Steps[j], sent[i])'
  <2> SUFFICES ASSUME NEW i \in DOMAIN sent'
               PROVE  \E j \in 1..at' : j \in DOMAIN Steps /\ Makes(Steps[j], sent[i])'
    OBVIOUS
  <2>1. CASE i \in DOMAIN sent /\ sent'[i] = sent[i]
    <3>1. PICK j \in 1..at : j \in DOMAIN Steps /\ Makes(Steps[j], sent[i])
      BY <2>1 DEF Served
    <3>2. Steps'[j] = Steps[j] /\ latched' = latched
      BY <1>1 DEF startVars
    <3>3. Makes(Steps[j], sent[i])'
      BY <2>1, <3>1, <3>2 DEF Makes, Barred
    <3>4. QED
      BY <1>1, <1>5, <3>1, <3>3
  <2>2. CASE sent'[i] = s.of /\ at \in DOMAIN Steps /\ Makes(s, s.of)
    <3>1. Steps'[at] = s /\ latched' = latched
      BY <1>1 DEF startVars
    <3>2. at \in 1..at' /\ at \in DOMAIN Steps'
      BY <1>1, <1>5, <2>2
    <3>3. \A j : j = at => Makes(Steps[j], sent[i])'
      BY <2>2, <3>1 DEF Makes, Barred
    <3>4. QED
      BY <1>1, <3>2, <3>3
  <2>3. QED
    BY <2>1, <2>2, AppendIsSeq DEF Sends
<1>9. IsSeq(sent')
  <2>1. CASE sent' = Append(sent, s.of)
    BY <2>1, AppendIsSeq
  <2>2. CASE sent' = sent
    BY <2>2
  <2>3. QED
    BY <2>1, <2>2 DEF Sends
<1>10. (status = 200 => Ended)'
  <2>1. Steps[at]' = Steps[at'] /\ Len(Steps)' = Len(Steps) /\ (DOMAIN Steps)' = DOMAIN Steps
    BY <1>1
  <2>2. ASSUME status' = 200
        PROVE  at' = Len(Steps) + 1 \/ (at' \in DOMAIN Steps /\ Steps[at'].does = "orUnknown")
    <3>1. at' = at
      BY <2>2 DEF Answers
    <3>2. status = 200 \/ at = Len(Steps) + 1 \/ (at \in DOMAIN Steps /\ s.does = "orUnknown")
      BY <2>2 DEF Answers
    <3>3. QED
      BY <3>1, <3>2 DEF Served, Ended
  <2>3. QED
    BY <2>1, <2>2 DEF Ended
<1>11. Served'
  BY <1>1, <1>3, <1>4, <1>6, <1>7, <1>8, <1>10 DEF Served
<1>12. QED
  BY <1>9, <1>11

-----------------------------------------------------------------------------
(* The invariant is kept.                                                  *)

\* A guard that lets a request through says what it has seen.
LEMMA VerdictClears ==
  ASSUME NEW CONSTANT s, s.no # 200, Verdict(s) = 200, s.does \notin Calls \cup {"audit"},
         UNCHANGED <<startVars, req, holder, recorded>>,
         warrant' = Seen(s)
  PROVE  Cleared(s)'
<1> DEFINE passed == /\ s.does = "keyed" => Authorised(req.route, req.key)
                     /\ s.does = "enabled" => s.of \in cfg.flags
                     /\ s.does = "confirmed" => latched \/ req.confirm
                     /\ s.does = "checked" => latched \/ Unopposed
                     /\ s.does = "rule" => RuleStatus(s) = 200
<1>1. passed
  <2>1. s.does = "keyed" => Authorised(req.route, req.key)
    BY DEF Verdict
  <2>2. s.does = "enabled" => s.of \in cfg.flags
    BY DEF Verdict
  <2>3. s.does = "confirmed" => latched \/ req.confirm
    BY DEF Verdict
  <2>4. s.does = "checked" => latched \/ Unopposed
    BY DEF Verdict
  <2>5. s.does = "rule" => RuleStatus(s) = 200
    BY DEF Verdict
  <2>6. QED
    BY <2>1, <2>2, <2>3, <2>4, <2>5
<1>2. s.does = "checked" => latched \/ s.of = None \/ warrant' # None
  BY <1>1, NoneAssumption DEF Unopposed, Asked, Seen
<1>3. (s.does = "rule" /\ s.of = "callable") => CheckCallable(req.name) = 200
  BY <1>1 DEF RuleStatus
<1>4. (s.does = "rule" /\ s.of = "open") => latched \/ Requirements(req.name).domain = None
  BY <1>1 DEF RuleStatus
<1>5. (s.does = "rule" /\ s.of = "gate") => GateStatus(req.name) = 200
  BY <1>1 DEF RuleStatus
<1>6. (s.does = "rule" /\ s.of = "gate") =>
         \/ latched
         \/ /\ Requirements(req.name).domain = None \/ warrant' # None
            /\ Requirements(req.name).confirm => req.confirm
  <2>1. GateStatus(req.name) = 200 =>
           \/ latched
           \/ /\ Requirements(req.name).domain = None \/ Unopposed
              /\ Requirements(req.name).confirm => req.confirm
    BY DEF GateStatus
  <2>2. (s.does = "rule" /\ s.of = "gate") => Asked(s) = Requirements(req.name).domain
    BY DEF Asked
  <2>3. (s.does = "rule" /\ s.of = "gate" /\ ~latched /\ Unopposed) =>
           Requirements(req.name).domain = None \/ warrant' # None
    BY <2>2, NoneAssumption DEF Unopposed, Seen
  <2>4. QED
    BY <1>5, <2>1, <2>3
<1>7. CheckCallable(req.name)' = CheckCallable(req.name)
  BY DEF CheckCallable, startVars
<1>8. QED
  BY <1>1, <1>2, <1>3, <1>4, <1>6, <1>7 DEF Cleared, Authorised, Enforced, startVars

\* The start lets no gateway serve that fails the check (config.py check_safe_to_start).
LEMMA SettledStep ==
  ASSUME Settled, Starting \/ UNCHANGED startVars
  PROVE  Settled'
<1>1. CASE CommandLine \/ Build \/ KeyFileChanges
  BY <1>1 DEF Settled, CommandLine, Build, KeyFileChanges
<1>2. CASE Lifespan
  <2>1. (stage' = "serving" /\ ~cfg.full) => Problems(cfg, file) = {}
    BY <1>2 DEF Lifespan, SafeToStart
  <2>2. Problems(cfg, file) = {} =>
           (cfg.loopback \/ cfg.keyFile) /\ (cfg.flags \cap {"shell", "qconn"} = {} \/ cfg.keyFile)
    BY DEF Problems
  <2>3. QED
    BY <1>2, <2>1, <2>2 DEF Settled, Root, Lifespan
<1>3. CASE UNCHANGED startVars
  BY <1>3 DEF Settled, startVars
<1>4. QED
  BY <1>1, <1>2, <1>3 DEF Starting

\* With the invariant of the start.
LEMMA StepStays ==
  ASSUME RequestInv, req # None, UNCHANGED <<startVars, req>>, recorded => recorded',
         NEW CONSTANT s, s = Steps[at], Passes(s), Sees(s), Sends(s), Answers(s)
  PROVE  RequestInv'
<1>1. Served /\ IsSeq(sent) /\ Settled
  BY DEF RequestInv
<1>2. Served' /\ IsSeq(sent')
  BY <1>1, ServedStays
<1>3. Settled'
  BY <1>1, SettledStep
<1>4. QED
  BY <1>2, <1>3 DEF RequestInv

\* The step a served request is at.
LEMMA NowIs ==
  ASSUME RequestInv, Serving
  PROVE  req # None /\ Served /\ Now = Steps[at] /\ at \in DOMAIN Steps /\ Now.no # 200
<1>1. req # None /\ Served
  BY DEF Serving, RequestInv
<1>2. Now = Steps[at] /\ at <= Len(Steps)
  BY DEF Serving, Now, Steps
<1>3. /\ Len(Own) \in Nat /\ Len(Steps) = Len(Own) + 2 /\ DOMAIN Steps = 1..(Len(Own) + 2)
      /\ \A i \in DOMAIN Steps : Steps[i].no # 200
  BY <1>1, StepsAre DEF Served
<1>4. at \in DOMAIN Steps
  BY <1>1, <1>2, <1>3 DEF Served
<1>5. QED
  BY <1>1, <1>2, <1>3, <1>4

LEMMA StepsHaveAnEnd ==
  (req.route \in Route /\ req.name \in Named(req.route)) => Len(Steps) \in Nat
  BY StepsAre

LEMMA RequestInit == Init => RequestInv
<1> SUFFICES ASSUME Init
             PROVE  RequestInv
  OBVIOUS
<1>1. Settled
  BY DEF Init, StartInit, Settled
<1>2. IsSeq(sent)
  BY DEF Init, IsSeq
<1>3. QED
  BY <1>1, <1>2 DEF Init, RequestInv

LEMMA RequestStep == RequestInv /\ [Next]_vars => RequestInv'
<1> SUFFICES ASSUME RequestInv, [Next]_vars
             PROVE  RequestInv'
  OBVIOUS
<1>1. CASE Start
  <2>1. req = None
    BY <1>1 DEF Start, Starting, CommandLine, Build, Lifespan, KeyFileChanges, RequestInv, Served
  <2>2. Settled'
    BY <1>1, SettledStep DEF Start, RequestInv
  <2>3. QED
    BY <1>1, <2>1, <2>2 DEF Start, requestVars, RequestInv
<1>2. CASE \E route \in Route : \E name \in Named(route) : Arrive(route, name)
  <2>1. PICK route \in Route : \E name \in Named(route) : Arrive(route, name)
    BY <1>2
  <2>2. PICK name \in Named(route) : Arrive(route, name)
    BY <2>1
  <2>3. /\ stage = "serving" /\ req = None /\ UNCHANGED <<startVars, at, status, sent, warrant>>
        /\ req'.route = route /\ req'.name = name
    BY <2>2 DEF Arrive
  <2>4. /\ at = 1 /\ sent = <<>> /\ warrant = None /\ status = 0 /\ IsSeq(sent) /\ Settled
    BY <2>3 DEF RequestInv
  <2>5. Settled'
    BY <2>3, <2>4, SettledStep
  <2>6. (req.route \in Route /\ req.name \in Named(req.route))'
    BY <2>3 DEF Named
  <2>7. Len(Steps)' \in Nat
    <3>1. ((req.route \in Route /\ req.name \in Named(req.route)) => Len(Steps) \in Nat)'
      BY StepsHaveAnEnd, PTL
    <3>2. QED
      BY <2>6, <3>1
  <2>8. Served'
    BY <2>3, <2>4, <2>6, <2>7 DEF Served, startVars
  <2>9. QED
    BY <2>3, <2>4, <2>5, <2>8 DEF RequestInv
<1>3. CASE Guard
  <2>1. PICK s : s = Now
    OBVIOUS
  <2>2. /\ req # None /\ s = Steps[at] /\ at \in DOMAIN Steps /\ s.no # 200
        /\ s.does \notin Calls \cup {"audit"} /\ UNCHANGED <<startVars, req, holder, sent, recorded>>
    BY <1>3, <2>1, NowIs DEF Guard
  <2>3. CASE Verdict(Now) = 200
    <3>1. at' = at + 1 /\ warrant' = Seen(s) /\ status' = status /\ status = 0
      BY <1>3, <2>1, <2>3 DEF Guard, Serving
    <3>2. Cleared(s)'
      BY <2>1, <2>2, <2>3, <3>1, VerdictClears
    <3>3. Passes(s) /\ Sees(s) /\ Sends(s) /\ Answers(s)
      BY <2>2, <3>1, <3>2, NoneAssumption DEF Passes, Sees, Seen, Sends, Answers
    <3>4. QED
      BY <2>2, <3>3, StepStays
  <2>4. CASE Verdict(Now) # 200
    <3>1. Passes(s) /\ Sees(s) /\ Sends(s) /\ Answers(s)
      BY <1>3, <2>2, <2>4 DEF Guard, Passes, Sees, Sends, Answers
    <3>2. QED
      BY <2>2, <3>1, StepStays
  <2>5. QED
    BY <2>3, <2>4
<1>4. CASE Record
  <2>1. PICK s : s = Now
    OBVIOUS
  <2>2. /\ req # None /\ s = Steps[at] /\ at \in DOMAIN Steps /\ s.does = "audit" /\ at' = at + 1
        /\ recorded' /\ status' = 0 /\ UNCHANGED <<startVars, req, sent, warrant>>
    BY <1>4, <2>1, NowIs DEF Record, Serving
  <2>3. Cleared(s)'
    BY <2>2 DEF Cleared
  <2>4. Passes(s) /\ Sees(s) /\ Sends(s) /\ Answers(s)
    BY <2>2, <2>3 DEF Passes, Sees, Sends, Answers
  <2>5. QED
    BY <2>2, <2>4, StepStays
<1>5. CASE \E outcome \in Outcomes : Call(outcome)
  <2>1. PICK outcome \in Outcomes : Call(outcome)
    BY <1>5
  <2>2. PICK s : s = Now
    OBVIOUS
  <2>3. /\ req # None /\ s = Steps[at] /\ at \in DOMAIN Steps /\ s.does \in Calls
        /\ UNCHANGED <<startVars, req, recorded, warrant>>
        /\ at' = at \/ at' = at + 1
    BY <2>1, <2>2, NowIs DEF Call
  <2>4. Cleared(s)'
    BY <2>3 DEF Cleared, Calls, Left
  <2>5. Sends(s)
    <3>1. sent' = IF Barred(s.of) /\ s.does # "refusedToo" THEN sent ELSE Append(sent, s.of)
      BY <2>1, <2>2 DEF Call
    <3>2. QED
      BY <2>3, <3>1 DEF Sends, Makes
  <2>6. Passes(s) /\ Sees(s)
    BY <2>3, <2>4 DEF Passes, Sees
  <2>7. Answers(s)
    <3>1. status = 0 /\ s.no # 200
      BY <2>1, <2>2, NowIs DEF Call, Serving
    <3>2. status' = 200 => at' = at /\ s.does = "orUnknown"
      BY <2>1, <2>2, <3>1 DEF Call
    <3>3. QED
      BY <2>3, <3>2 DEF Answers
  <2>8. QED
    BY <2>3, <2>5, <2>6, <2>7, StepStays
<1>6. CASE Skip
  <2>1. PICK s : s = Now
    OBVIOUS
  <2>2. /\ req # None /\ s = Steps[at] /\ at \in DOMAIN Steps /\ s.does \in Left /\ at' = at + 1
        /\ status' = 0 /\ UNCHANGED <<startVars, req, sent, recorded, warrant>>
    BY <1>6, <2>1, NowIs DEF Skip, Serving
  <2>3. Cleared(s)'
    BY <2>2 DEF Cleared, Left
  <2>4. Passes(s) /\ Sees(s) /\ Sends(s) /\ Answers(s)
    BY <2>2, <2>3 DEF Passes, Sees, Sends, Answers
  <2>5. QED
    BY <2>2, <2>4, StepStays
<1>7. CASE Respond
  <2>1. req # None /\ at > Len(Steps) /\ UNCHANGED <<startVars, req, at, sent, recorded, warrant>>
    BY <1>7 DEF Respond, Steps
  <2>2. PICK s : s = Steps[at]
    OBVIOUS
  <2>3. Passes(s) /\ Sees(s) /\ Sends(s) /\ Answers(s)
    <3>1. Served /\ Len(Steps) \in Nat
      BY <2>1, StepsHaveAnEnd DEF RequestInv, Served
    <3>2. at = Len(Steps) + 1
      BY <2>1, <3>1 DEF Served
    <3>3. QED
      BY <2>1, <3>2 DEF Passes, Sees, Sends, Answers
  <2>4. QED
    BY <2>1, <2>2, <2>3, StepStays
<1>8. CASE Over
  <2>1. Settled' /\ IsSeq(sent')
    BY <1>8, SettledStep DEF Over, RequestInv, IsSeq
  <2>2. QED
    BY <1>8, <2>1 DEF Over, RequestInv
<1>9. CASE \E h \in {None, "me", "other"} : LeaseMoves(h)
  <2>1. req # None /\ UNCHANGED <<startVars, requestVars>>
    BY <1>9 DEF LeaseMoves
  <2>2. PICK s : s = Steps[at]
    OBVIOUS
  <2>3. Passes(s) /\ Sees(s) /\ Sends(s) /\ Answers(s)
    BY <2>1 DEF Passes, Sees, Sends, Answers, requestVars
  <2>4. QED
    BY <2>1, <2>2, <2>3, StepStays DEF requestVars
<1>10. CASE UNCHANGED vars
  <2>1. CASE req = None
    <3>1. Settled'
      BY <1>10, SettledStep DEF RequestInv, vars
    <3>2. QED
      BY <1>10, <2>1, <3>1 DEF RequestInv, vars, requestVars
  <2>2. CASE req # None
    <3>1. UNCHANGED <<startVars, req, at, status, sent, recorded, warrant>>
      BY <1>10 DEF vars, requestVars
    <3>2. PICK s : s = Steps[at]
      OBVIOUS
    <3>3. Passes(s) /\ Sees(s) /\ Sends(s) /\ Answers(s)
      BY <3>1 DEF Passes, Sees, Sends, Answers
    <3>4. QED
      BY <2>2, <3>1, <3>2, <3>3, StepStays
  <2>3. QED
    BY <2>1, <2>2
<1>11. QED
  BY <1>1, <1>2, <1>3, <1>4, <1>5, <1>6, <1>7, <1>8, <1>9, <1>10 DEF Next

\* Of every request it is known, at every step, that it is past all its row has before.
THEOREM RequestsInvariant == Spec => []RequestInv
<1>1. Init => RequestInv
  BY RequestInit
<1>2. RequestInv /\ [Next]_vars => RequestInv'
  BY RequestStep
<1>3. QED
  BY <1>1, <1>2, PTL DEF Spec

-----------------------------------------------------------------------------
(* What follows for what is sent.                                          *)

\* A call that was sent is a step of the handler's own row, and the request is past all before it.
LEMMA SentIsBehind ==
  ASSUME RequestInv, NEW i \in DOMAIN sent
  PROVE  /\ req # None /\ Served /\ Kept(req.route, Own)
         /\ Authorised(req.route, req.key)
         /\ \E k \in DOMAIN Own : /\ Makes(Own[k], sent[i])
                                  /\ \A m \in DOMAIN Own : m < k => Cleared(Own[m])
         /\ warrant \notin {None, "gone"} => \E m \in DOMAIN Own : warrant = Asked(Own[m])
<1>1. req # None /\ Served
  BY DEF RequestInv
<1>2. Kept(req.route, Own)
  BY <1>1, OwnIsKept DEF Served
<1>3. /\ Len(Own) \in Nat /\ DOMAIN Own = 1..Len(Own)
      /\ Len(Steps) = Len(Own) + 2 /\ DOMAIN Steps = 1..(Len(Own) + 2)
      /\ Is(Steps[1], "writable", "none", 403) /\ Is(Steps[2], "keyed", "none", 401)
      /\ \A k \in 1..Len(Own) : Steps[k + 2] = Own[k]
  BY <1>1, StepsAre DEF Served
<1>4. PICK j \in 1..at : j \in DOMAIN Steps /\ Makes(Steps[j], sent[i])
  BY <1>1 DEF Served
<1>5. j > 2 /\ at \in Nat
  <2>1. at \in Nat
    BY <1>1, <1>3 DEF Served
  <2>2. Steps[1].does \notin Calls /\ Steps[2].does \notin Calls
    BY <1>3 DEF Is, Calls, Left
  <2>3. j # 1 /\ j # 2
    BY <1>4, <2>2 DEF Makes
  <2>4. QED
    BY <2>1, <2>3
<1>6. PICK k \in Nat : k = j - 2
  BY <1>5
<1>7. k \in DOMAIN Own /\ k + 2 = j
  BY <1>3, <1>4, <1>5, <1>6
<1>8. Makes(Own[k], sent[i])
  BY <1>3, <1>4, <1>7
<1>9. ASSUME NEW m \in DOMAIN Own, m < k
      PROVE  Cleared(Own[m])
  <2>1. m + 2 \in 1..(at - 1)
    BY <1>3, <1>5, <1>6, <1>9
  <2>2. Cleared(Steps[m + 2])
    BY <1>1, <2>1 DEF Served
  <2>3. QED
    BY <1>3, <2>2
<1>10. Authorised(req.route, req.key)
  <2>1. 2 \in 1..(at - 1)
    BY <1>5
  <2>2. Cleared(Steps[2])
    BY <1>1, <2>1 DEF Served
  <2>3. QED
    BY <1>3, <2>2 DEF Cleared, Is
<1>11. ASSUME warrant \notin {None, "gone"}
       PROVE  \E m \in DOMAIN Own : warrant = Asked(Own[m])
  <2>1. PICK l \in 1..(at - 1) : warrant = Asked(Steps[l])
    BY <1>1, <1>11 DEF Served
  <2>2. l # 1 /\ l # 2
    BY <1>3, <1>11, <2>1 DEF Asked, Is
  <2>3. at <= Len(Own) + 3
    BY <1>1, <1>3 DEF Served
  <2>4. PICK m \in Nat : m = l - 2
    BY <1>5, <2>1, <2>2
  <2>5. m \in 1..Len(Own) /\ m + 2 = l
    BY <1>3, <1>5, <2>1, <2>2, <2>3, <2>4
  <2>6. QED
    BY <1>3, <2>1, <2>5
<1>12. QED
  BY <1>1, <1>2, <1>7, <1>8, <1>9, <1>10, <1>11

\* Root on the controller is reached for a gateway that has it switched on.
LEMMA RootIsOn ==
  ASSUME RequestInv, NEW i \in DOMAIN sent, sent[i] \in Root
  PROVE  sent[i] \in cfg.flags
<1>1. PICK k \in DOMAIN Own : /\ Makes(Own[k], sent[i])
                              /\ \A m \in DOMAIN Own : m < k => Cleared(Own[m])
  BY SentIsBehind
<1>2. Own[k].does \in Calls /\ Own[k].of = sent[i]
  BY <1>1 DEF Makes
<1>3. Served /\ Kept(req.route, Own)
  BY SentIsBehind
<1>4. CASE req.route = "services"
  <2>1. Own = ServicesRow(cfg.flags)
    BY <1>4 DEF Own, Handler, FileRoutes
  <2>2. QED
    BY <1>2, <2>1, ServicesAreKept
<1>5. CASE req.route # "services"
  <2>1. k > 1 /\ Own[1] = Enabled(sent[i])
    BY <1>2, <1>3, <1>5 DEF Kept, Opened
  <2>2. 1 \in DOMAIN Own
    BY <1>3, <2>1, StepsAre DEF Served
  <2>3. Cleared(Enabled(sent[i]))
    BY <1>1, <2>1, <2>2
  <2>4. QED
    BY <2>3 DEF Cleared, Enabled, Step
<1>6. QED
  BY <1>4, <1>5

\* KeysGuard follows: the middleware has asked for the key, or no key file was named, and a gateway
\* without one has passed the check of its bind address and of its services (auth.py, config.py).
LEMMA KeysAreAsked == RequestInv => KeysGuard
<1> SUFFICES ASSUME RequestInv, sent # <<>>, ~cfg.full
             PROVE  \/ req.key /\ digests
                    \/ req.route \in OpenPaths
                    \/ ~cfg.keyFile /\ cfg.loopback /\ ToSet(sent) \cap {"shell", "qconn"} = {}
  BY DEF KeysGuard
<1>1. \E i : i \in DOMAIN sent
  BY DEF RequestInv, IsSeq
<1>2. PICK i : i \in DOMAIN sent
  BY <1>1
<1>3. Served /\ Authorised(req.route, req.key) /\ Settled
  BY <1>2, SentIsBehind DEF RequestInv
<1>4. ~cfg.keyFile => cfg.loopback /\ cfg.flags \cap Root = {}
  BY <1>3 DEF Settled, Served
<1>5. cfg.flags \cap Root = {} => ToSet(sent) \cap {"shell", "qconn"} = {}
  BY RootIsOn DEF ToSet, Root
<1>6. QED
  BY <1>3, <1>4, <1>5 DEF Authorised, Enforced

\* For every deployment and whatever becomes of the key file: no call is made without a key, but for
\* the open paths and on a loopback gateway that gives no root (app.py _auth_middleware, config.py).
THEOREM KeysAlwaysGuard == Spec => []KeysGuard
  BY RequestsInvariant, KeysAreAsked, PTL

\* A refused call that was sent is the one step that may, which has the switch and the confirmation
\* before it.
LEMMA RefusedIsKeptOff == RequestInv => RefusedStaysOff
<1> SUFFICES ASSUME RequestInv, NEW i \in DOMAIN sent, sent[i] \in DriverRefused, ~latched
             PROVE  req.route = "shutdown" /\ "shutdown" \in cfg.flags /\ req.confirm
  BY DEF RefusedStaysOff
<1>1. PICK k \in DOMAIN Own : /\ Makes(Own[k], sent[i])
                              /\ \A m \in DOMAIN Own : m < k => Cleared(Own[m])
  BY SentIsBehind
<1>2. Own[k].does = "refusedToo"
  BY <1>1 DEF Makes, Barred
<1>3. Served /\ Kept(req.route, Own)
  BY SentIsBehind
<1>4. req.route = "shutdown" /\ Reserved(Own)
  BY <1>2, <1>3 DEF Kept
<1>5. k > 2 /\ Own[1] = Enabled("shutdown") /\ Own[2] = Confirmed(422)
  BY <1>2, <1>4 DEF Reserved
<1>6. 1 \in DOMAIN Own /\ 2 \in DOMAIN Own /\ 1 < k /\ 2 < k
  BY <1>3, <1>5, StepsAre DEF Served
<1>7. Cleared(Enabled("shutdown")) /\ Cleared(Confirmed(422))
  BY <1>1, <1>5, <1>6
<1>8. QED
  BY <1>4, <1>7 DEF Cleared, Enabled, Confirmed, Step

\* What the driver refuses reaches the controller on the shutdown route only, switched on and
\* confirmed, unless full access is on (driver.py REFUSED, system_api.py, access.py).
THEOREM RefusedAlwaysStaysOff == Spec => []RefusedStaysOff
  BY RequestsInvariant, RefusedIsKeptOff, PTL

\* No step of a row has a refused call.
LEMMA FilesAreKeptSafe == RequestInv => FileTypesAreSafe
<1> SUFFICES ASSUME RequestInv, NEW i \in DOMAIN sent, NEW kind \in DOMAIN RefusedKinds
             PROVE  sent[i] \notin RefusedKinds[kind]
  BY DEF FileTypesAreSafe
<1>1. PICK k \in DOMAIN Own : Makes(Own[k], sent[i])
  BY SentIsBehind
<1>2. Own[k].of = sent[i] /\ Own[k].of \notin Forbidden
  BY <1>1, SentIsBehind DEF Makes, Kept, Sane
<1>3. RefusedKinds[kind] \subseteq Forbidden
  BY DEF RefusedKinds, Forbidden
<1>4. QED
  BY <1>2, <1>3

\* No route stages firmware, joint parameters or a kernel, or deletes what files_wire.py names only to
\* refuse.
THEOREM FileTypesAreAlwaysSafe == Spec => []FileTypesAreSafe
  BY RequestsInvariant, FilesAreKeptSafe, PTL

-----------------------------------------------------------------------------
(* The trail.                                                              *)

\* Rows that end in their line, or have it next to the end.
LEMMA EndsInAudit ==
  /\ \A a : Audited(<<a, Audit>>)
  /\ \A a, b : Audited(<<a, b, Audit>>)
  /\ \A a, b, c : Audited(<<a, b, c, Audit>>)
  /\ \A a, b, c, d : Audited(<<a, b, c, d, Audit>>)
  /\ \A a, b, c, d, e : Audited(<<a, b, c, d, e, Audit>>)
  /\ \A a, b, c, d, e, f : Audited(<<a, b, c, d, e, f, Audit>>)
  /\ \A a, b, c, d, e, f, g : Audited(<<a, b, c, d, e, f, Audit, g>>)
  /\ \A a, b, c, d, e, f, g, h : Audited(<<a, b, c, d, e, f, g, h, Audit>>)
  /\ \A a, b, c, d, e, f, g, h, i : Audited(<<a, b, c, d, e, f, g, h, i, Audit>>)
<1> USE DEF Audited
<1>1. Audit.does = "audit"
  BY DEF Audit, Step
<1>2. QED
  BY <1>1

\* Rows without a call, or of one that only reads.
LEMMA NothingToAudit ==
  /\ Audited(<<>>)
  /\ \A a : a.does \notin Calls \/ a.of \in Reads => Audited(<<a>>)
  BY DEF Audited

AuditedTable(table) ==
    \A route \in DOMAIN table \ (GetRoutes \cup RecordedFirst) : Audited(table[route])

\* The tables of GET routes.
LEMMA ReadsNeedNoTrail ==
  /\ AuditedTable(System) /\ AuditedTable(Errors) /\ AuditedTable(Identity) /\ AuditedTable(Inputs)
  /\ AuditedTable(FrameReads) /\ AuditedTable(PayloadRead) /\ AuditedTable(RecoveredReads)
  /\ AuditedTable(ForceReads) /\ AuditedTable(ModelReads) /\ AuditedTable(InvokeCatalogue)
  /\ AuditedTable(CommandCatalogue) /\ AuditedTable(ErrorTable) /\ AuditedTable(ModeRead)
  /\ AuditedTable(Strategies) /\ AuditedTable(Torques) /\ AuditedTable(Recovery)
  /\ AuditedTable(Streams) /\ AuditedTable(Observed) /\ AuditedTable(Trail)
  /\ AuditedTable(FileTable) /\ AuditedTable(ProgramList) /\ AuditedTable(BackupList)
  /\ AuditedTable(PoseList) /\ AuditedTable(RecordingList) /\ AuditedTable(Versions)
  BY DEF AuditedTable, GetRoutes

LEMMA SingleReadsNeedNoTrail ==
  AuditedTable(ExecutionRead) /\ AuditedTable(ProgramGet) /\ AuditedTable(Backup)
  BY DEF AuditedTable, GetRoutes, ExecutionRead, ProgramGet, Backup

\* The tables whose routes have their line before they call.
LEMMA RecordedFirstTables ==
  /\ AuditedTable(RobotEnable) /\ AuditedTable(Gripper) /\ AuditedTable(Jog)
  /\ AuditedTable(JogLinear) /\ AuditedTable(ResetErrors) /\ AuditedTable(Move)
  /\ AuditedTable(Power) /\ AuditedTable(ShellRoutes)
<1>1. AuditedTable(RobotEnable) /\ AuditedTable(Gripper)
  BY DEF AuditedTable, RecordedFirst
<1>2. /\ AuditedTable(Jog) /\ AuditedTable(JogLinear) /\ AuditedTable(ResetErrors)
      /\ AuditedTable(Move) /\ AuditedTable(Power)
  BY DEF AuditedTable, RecordedFirst, Jog, JogLinear, ResetErrors, Move, Power
<1>3. AuditedTable(ShellRoutes)
  BY DEF AuditedTable, RecordedFirst, ShellRoutes, GetRoutes
<1>4. QED
  BY <1>1, <1>2, <1>3

\* And those that have it after.
LEMMA RecordedLaterTables ==
  /\ AuditedTable(MotionStop) /\ AuditedTable(SafetyStop) /\ AuditedTable(ExecutionStop)
  /\ AuditedTable(Outputs) /\ AuditedTable(Frames) /\ AuditedTable(Payload)
  /\ AuditedTable(ModeAndSpeed) /\ AuditedTable(ForceRoutes) /\ AuditedTable(FtpRoutes)
  /\ AuditedTable(ProgramPut) /\ AuditedTable(ProgramDelete) /\ AuditedTable(ProgramLoad)
  /\ AuditedTable(ProgramSelect) /\ AuditedTable(PauseAndResume) /\ AuditedTable(Points)
<1> USE EndsInAudit DEF AuditedTable
<1>1. AuditedTable(MotionStop) /\ AuditedTable(SafetyStop) /\ AuditedTable(ExecutionStop)
  BY DEF MotionStop, SafetyStop, ExecutionStop
<1>2. AuditedTable(Outputs) /\ AuditedTable(Frames) /\ AuditedTable(Payload)
  BY DEF Outputs, Frames, Payload
<1>3. AuditedTable(ModeAndSpeed) /\ AuditedTable(ForceRoutes)
  BY DEF ModeAndSpeed, ForceRoutes
<1>4. AuditedTable(FtpRoutes)
  BY DEF FtpRoutes, GetRoutes
<1>5. AuditedTable(ProgramPut)
  BY DEF ProgramPut
<1>6. AuditedTable(ProgramDelete) /\ AuditedTable(ProgramLoad)
  BY DEF ProgramDelete, ProgramLoad
<1>7. AuditedTable(ProgramSelect)
  BY DEF ProgramSelect
<1>8. AuditedTable(PauseAndResume)
  BY DEF PauseAndResume
<1>9. AuditedTable(Points)
  BY DEF Points, GetRoutes
<1>10. QED
  BY <1>1, <1>2, <1>3, <1>4, <1>5, <1>6, <1>7, <1>8, <1>9

\* Some routes of these have nothing to record.
LEMMA QuietRoutes ==
  /\ AuditedTable(Poses) /\ AuditedTable(Recordings) /\ AuditedTable(OtherServices)
  /\ AuditedTable(Preview) /\ AuditedTable(LuaCatalogue) /\ AuditedTable(CapabilityRoutes)
<1> USE DEF AuditedTable
<1>1. \A what, no : Sound(what, no).does \notin Calls
  BY DEF Sound, Step, Calls, Left
<1>2. AuditedTable(Poses)
  BY <1>1, EndsInAudit, NothingToAudit DEF Poses, GetRoutes
<1>3. AuditedTable(Recordings)
  BY <1>1, EndsInAudit, NothingToAudit DEF Recordings, GetRoutes
<1>4. AuditedTable(OtherServices)
  <2>1. Enabled("luaValidate").does \notin Calls
    BY DEF Enabled, Step, Calls, Left
  <2>2. Audited(<<Enabled("luaValidate"), Sound("never", 501)>>)
    BY <1>1, <2>1 DEF Audited
  <2>3. QED
    BY <2>2 DEF OtherServices, GetRoutes
<1>5. AuditedTable(Preview)
  <2>1. Must("GetForwardKin", 503).of \in Reads
    BY DEF Must, Step, Reads
  <2>2. QED
    BY <2>1, NothingToAudit DEF Preview
<1>6. AuditedTable(LuaCatalogue)
  BY <1>1, NothingToAudit DEF LuaCatalogue, Catalogue, If
<1>7. AuditedTable(CapabilityRoutes)
  <2>1. Tried("probes").of \in Reads
    BY DEF Tried, Step, Reads
  <2>2. TriedAll(<<"probes">>) = <<Tried("probes")>>
    BY DEF TriedAll
  <2>3. QED
    BY <2>1, <2>2, NothingToAudit DEF CapabilityRoutes
<1>8. QED
  BY <1>2, <1>3, <1>4, <1>5, <1>6, <1>7

\* The rows with the path check in them.
LEMMA JoinedAudits == AuditedTable(ProgramValidate) /\ AuditedTable(ProgramRun)
<1>1. OrdinaryRow(CheckPath)
  BY OrdinaryChecks, OrdinaryCalls, OrdinaryMusts, Row4 DEF CheckPath
<1>2. AuditedTable(ProgramValidate)
  <2> DEFINE before == <<Sound("name", 422)>>
             after == <<Audit>>
  <2>1. OrdinaryRow(before) /\ IsSeq(after) /\ 1 \in DOMAIN after /\ after[1] = Audit
    BY OrdinaryChecks, Row1 DEF IsSeq
  <2>2. /\ DOMAIN ProgramValidate = {"program_validate"}
        /\ ProgramValidate["program_validate"] = before \o CheckPath \o after
    BY DEF ProgramValidate
  <2> HIDE DEF before, after
  <2>3. Audited(before \o CheckPath \o after)
    BY <1>1, <2>1, JoinedRow, JoinedAudit DEF OrdinaryRow
  <2>4. QED
    BY <2>2, <2>3 DEF AuditedTable
<1>3. AuditedTable(ProgramRun)
  <2> DEFINE before == <<Free("motion"), Confirmed(400), Must("GetRobotErrorCode", 502),
                         Sound("faulted", 409), MayMust("GetLoadedProgram", 502), Sound("loaded", 409)>>
             after == <<Sound("path", 409), Must("ProgramRun", 502), Audit>>
  <2>1. OrdinaryRow(before) /\ IsSeq(after) /\ 3 \in DOMAIN after /\ after[3] = Audit
    BY OrdinaryChecks, OrdinaryCalls, OrdinaryMusts, Row6 DEF IsSeq
  <2>2. DOMAIN ProgramRun = {"run"} /\ ProgramRun["run"] = before \o CheckPath \o after
    BY DEF ProgramRun
  <2> HIDE DEF before, after
  <2>3. Audited(before \o CheckPath \o after)
    BY <1>1, <2>1, JoinedRow, JoinedAudit DEF OrdinaryRow
  <2>4. QED
    BY <2>2, <2>3 DEF AuditedTable
<1>4. QED
  BY <1>2, <1>3

LEMMA HandlersAreAudited ==
  \A route \in DOMAIN Handlers \ (GetRoutes \cup RecordedFirst) : Audited(Handlers[route])
<1>1. \A table \in Tables : AuditedTable(table)
  BY ReadsNeedNoTrail, SingleReadsNeedNoTrail, RecordedFirstTables, RecordedLaterTables,
     QuietRoutes, JoinedAudits DEF Tables
<1> SUFFICES ASSUME NEW route \in DOMAIN Handlers, route \notin GetRoutes \cup RecordedFirst
             PROVE  Audited(Handlers[route])
  OBVIOUS
<1>2. \E table \in Tables : route \in DOMAIN table
  BY DEF Handlers
<1> DEFINE table == CHOOSE table \in Tables : route \in DOMAIN table
<1>3. table \in Tables /\ route \in DOMAIN table
  BY <1>2
<1>4. Handlers[route] = table[route]
  BY DEF Handlers
<1>5. QED
  BY <1>1, <1>3, <1>4 DEF AuditedTable

\* So a request that is no GET has a row with a line for the trail in it, or nothing to record.
LEMMA OwnIsAudited ==
  ASSUME req.route \in Route, req.name \in Named(req.route), req.route \notin GetRoutes \cup {"commands"}
  PROVE  Audited(Own)
<1>1. CASE req.route \in RecordedFirst
  <2>1. Recording(Own) \/ \A i \in DOMAIN Own : Own[i].does \notin Calls
    BY <1>1, OwnIsKept DEF Kept
  <2>2. QED
    BY <2>1 DEF Recording, Audited
<1>2. CASE req.route \in FileRoutes
  <2>1. req.route \in {"file_upload", "file_delete"}
    BY <1>2 DEF FileRoutes, GetRoutes
  <2>2. QED
    BY <1>2, <2>1, FileRowIsOrdinary DEF Own, Handler
<1>3. CASE req.route \notin RecordedFirst \cup FileRoutes
  <2>1. req.route \notin GenericRoutes \cup {"services"}
    BY <1>3 DEF GenericRoutes, RecordedFirst, GetRoutes
  <2>2. req.route \in DOMAIN Handlers /\ Own = Handlers[req.route]
    BY <1>3, <2>1 DEF Route, Own, Handler
  <2>3. QED
    BY <1>3, <2>2, HandlersAreAudited
<1>4. QED
  BY <1>1, <1>2, <1>3

\* A call beyond the line in the trail has it before; and one that was answered with success is
\* past its whole row.
LEMMA ChangesAreInTheTrail == RequestInv => ChangesAreRecorded
<1> SUFFICES ASSUME RequestInv, req # None, req.route \notin GetRoutes \cup {"commands"},
                    NEW i \in DOMAIN sent, req.route \in RecordedFirst \/ status = 200
             PROVE  sent[i] \in Reads \/ recorded
  BY DEF ChangesAreRecorded
<1>1. PICK k \in DOMAIN Own : /\ Makes(Own[k], sent[i])
                              /\ \A m \in DOMAIN Own : m < k => Cleared(Own[m])
  BY SentIsBehind
<1>2. Own[k].does \in Calls /\ Own[k].of = sent[i]
  BY <1>1 DEF Makes
<1>3. Served /\ Kept(req.route, Own)
  BY SentIsBehind
<1>4. /\ Len(Own) \in Nat /\ DOMAIN Own = 1..Len(Own)
      /\ Len(Steps) = Len(Own) + 2 /\ DOMAIN Steps = 1..(Len(Own) + 2)
      /\ Is(Steps[1], "writable", "none", 403) /\ Is(Steps[2], "keyed", "none", 401)
      /\ \A m \in 1..Len(Own) : Steps[m + 2] = Own[m]
  BY <1>3, StepsAre DEF Served
<1>5. CASE req.route \in RecordedFirst
  <2>1. Recording(Own)
    BY <1>2, <1>3, <1>5 DEF Kept
  <2>2. PICK a \in DOMAIN Own : /\ Own[a].does = "audit"
                                /\ \A m \in 1..a : Own[m].does \in Calls => Own[m].of \in Reads
    BY <2>1 DEF Recording
  <2>3. CASE k <= a
    BY <1>2, <1>4, <2>2, <2>3
  <2>4. CASE a < k
    BY <1>1, <2>2, <2>4 DEF Cleared
  <2>5. QED
    BY <1>4, <2>3, <2>4
<1>6. CASE status = 200
  <2>1. \A j \in DOMAIN Steps : Steps[j].does # "orUnknown"
    <3> SUFFICES ASSUME NEW j \in 1..(Len(Own) + 2)
                 PROVE  Steps[j].does # "orUnknown"
      BY <1>4
    <3>1. req.route # "execution"
      BY DEF GetRoutes
    <3>2. \A m \in DOMAIN Own : Own[m].does # "orUnknown"
      BY <1>3, <3>1 DEF Kept
    <3>3. j = 1 \/ j = 2 \/ (j - 2 \in 1..Len(Own) /\ (j - 2) + 2 = j)
      BY <1>4
    <3>4. QED
      BY <1>4, <3>2, <3>3 DEF Is
  <2>2. at = Len(Own) + 3
    BY <1>3, <1>4, <1>6, <2>1 DEF Served, Ended
  <2>3. \A m \in DOMAIN Own : Cleared(Own[m])
    <3> SUFFICES ASSUME NEW m \in 1..Len(Own)
                 PROVE  Cleared(Own[m])
      BY <1>4
    <3>1. m + 2 \in 1..(at - 1)
      BY <1>4, <2>2
    <3>2. Cleared(Steps[m + 2])
      BY <1>3, <3>1 DEF Served
    <3>3. QED
      BY <1>4, <3>2
  <2>4. Audited(Own)
    BY <1>3, OwnIsAudited DEF Served
  <2>5. CASE \E a \in DOMAIN Own : Own[a].does = "audit"
    BY <2>3, <2>5 DEF Cleared
  <2>6. QED
    BY <1>2, <2>4, <2>5 DEF Audited
<1>7. QED
  BY <1>5, <1>6

\* On every route but the raw one, what a request that is no GET has had the controller do is in the
\* trail once it is answered with success; on those that jog, move, power, invoke by name or run a
\* shell command before the controller has it (app.py, move_api.py, gripper_api.py, system_api.py,
\* services_api.py, invoke.py; programs_api.py and control_api.py have it after).
THEOREM ChangesAreAlwaysRecorded == Spec => []ChangesAreRecorded
  BY RequestsInvariant, ChangesAreInTheTrail, PTL

-----------------------------------------------------------------------------
(* The lease and the confirmation.                                         *)

\* What moves the arm by a route of its own.
LEMMA MotionIsWarranted ==
  ASSUME RequestInv, sent # <<>>, ~latched, req.route \in {"move"} \cup DOMAIN Gripper
  PROVE  warrant \in {"motion", "gone"} /\ req.confirm
<1>1. \E i : i \in DOMAIN sent
  BY DEF RequestInv, IsSeq
<1>2. PICK i : i \in DOMAIN sent
  BY <1>1
<1>3. PICK k \in DOMAIN Own : /\ Makes(Own[k], sent[i])
                              /\ \A m \in DOMAIN Own : m < k => Cleared(Own[m])
  BY <1>2, SentIsBehind
<1>4. OnMotion(Own)
  BY <1>2, SentIsBehind DEF Kept
<1>5. PICK h \in DOMAIN Own, c \in DOMAIN Own :
         /\ Own[h] = Checked("motion") /\ Own[c] = Confirmed(400)
         /\ \A m \in DOMAIN Own : Own[m].does \in Calls => h < m /\ c < m
  BY <1>4 DEF OnMotion
<1>6. Cleared(Checked("motion")) /\ Cleared(Confirmed(400))
  BY <1>3, <1>5 DEF Makes
<1>7. warrant # None /\ req.confirm
  BY <1>6, NoneAssumption DEF Cleared, Checked, Confirmed, Step
<1>8. \A m \in DOMAIN Own : Asked(Own[m]) \in {"motion", None}
  BY <1>4 DEF OnMotion, Asked
<1>9. warrant # "gone" => warrant = "motion"
  BY <1>2, <1>7, <1>8, SentIsBehind
<1>10. QED
  BY <1>7, <1>9

\* What the invoker sends by name.
LEMMA InvokedIsWarranted ==
  ASSUME RequestInv, sent # <<>>, ~latched, req.route \in GenericRoutes
  PROVE  LET c == Commands[req.name]
             open == c.danger \in {"read", "stop"} /\ c.hazard = None
         IN  /\ req.name \notin TypedRouteOwned
             /\ c.danger \in {"motion", "unknown"} =>
                   warrant \in {"motion", "gone"} /\ req.confirm
             /\ ~open => warrant # None
             /\ c.hazard # None => req.confirm
             /\ req.route = "commands" => open
<1> DEFINE c == Commands[req.name]
           open == c.danger \in {"read", "stop"} /\ c.hazard = None
           needs == Requirements(req.name)
<1>1. \E i : i \in DOMAIN sent
  BY DEF RequestInv, IsSeq
<1>2. PICK i : i \in DOMAIN sent
  BY <1>1
<1>3. PICK k \in DOMAIN Own : /\ Makes(Own[k], sent[i])
                              /\ \A m \in DOMAIN Own : m < k => Cleared(Own[m])
  BY <1>2, SentIsBehind
<1>4. req.route \notin FileRoutes \cup {"services"}
  BY DEF GenericRoutes, FileRoutes
<1>5. Known(req.name)
  <2>1. Own[k].does \in Calls
    BY <1>3 DEF Makes
  <2>2. ~Known(req.name) => Own = <<Rule("known", 404)>>
    BY <1>4 DEF Own, Handler
  <2>3. QED
    BY <2>1, <2>2 DEF Rule, Step, Calls, Left
<1>6. Own = Generic(req.name)[req.route]
  BY <1>4, <1>5 DEF Own, Handler
<1>7. CheckCallable(req.name) = 200 =>
         req.name \notin TypedRouteOwned /\ c.danger # "refused"
  BY DEF CheckCallable
<1>8. /\ needs.domain = IF c.danger = "refused" \/ open THEN None
                        ELSE IF c.danger \in {"read", "stop", "config"} THEN "config" ELSE "motion"
      /\ needs.confirm <=> c.danger # "refused"
                             /\ (c.danger \in {"motion", "unknown"} \/ c.hazard # None)
  BY DEF Requirements
<1>9. CASE req.route = "invoke"
  <2>1. /\ Own = <<Rule("known", 404), Rule("callable", 0), SoundOrFull("arguments", 422),
                   Rule("occupied", 428), Rule("gate", 0), Audit, Raw(WireName(req.name), 502)>>
    BY <1>6, <1>9 DEF Generic
  <2>2. k = 7
    BY <1>3, <2>1 DEF Makes, Rule, SoundOrFull, Audit, Step, Calls, Left
  <2>3. Cleared(Rule("callable", 0)) /\ Cleared(Rule("gate", 0))
    BY <1>3, <2>1, <2>2
  <2>4. CheckCallable(req.name) = 200
    BY <2>3 DEF Cleared, Rule, Step
  <2>5. (needs.domain = None \/ warrant # None) /\ (needs.confirm => req.confirm)
    BY <2>3 DEF Cleared, Rule, Step
  <2>6. warrant \notin {None, "gone"} => warrant = needs.domain
    <3>1. ASSUME warrant \notin {None, "gone"}
          PROVE  \E m \in DOMAIN Own : warrant = Asked(Own[m])
      BY <1>2, <3>1, SentIsBehind
    <3>2. \A m \in DOMAIN Own : Asked(Own[m]) \in {needs.domain, None}
      BY <2>1 DEF Asked, Rule, SoundOrFull, Audit, Raw, Step
    <3>3. QED
      BY <3>1, <3>2
  <2> HIDE DEF needs
  <2>7. QED
    BY <1>7, <1>8, <1>9, <2>4, <2>5, <2>6, NoneAssumption
<1>10. CASE req.route = "commands"
  <2>1. /\ Own = <<Rule("known", 404), Rule("callable", 0), SoundOrFull("arguments", 422),
                   Enabled("passthrough"), Rule("verified", 403), Rule("open", 428),
                   Raw(Commands[req.name].wire, 502)>>
    BY <1>6, <1>10 DEF Generic
  <2>2. k = 7
    BY <1>3, <2>1 DEF Makes, Rule, SoundOrFull, Enabled, Step, Calls, Left
  <2>3. Cleared(Rule("callable", 0)) /\ Cleared(Rule("open", 428))
    BY <1>3, <2>1, <2>2
  <2>4. CheckCallable(req.name) = 200 /\ needs.domain = None
    BY <2>3 DEF Cleared, Rule, Step
  <2> HIDE DEF needs
  <2>5. QED
    BY <1>7, <1>8, <2>4, NoneAssumption
<1>11. QED
  BY <1>9, <1>10 DEF GenericRoutes

LEMMA SentIsWarranted == RequestInv => Warranted
  BY MotionIsWarranted, InvokedIsWarranted DEF Warranted

\* Motion is sent for a caller that was seen to hold the motion lease and has confirmed, and what
\* the invoker sends has the lease and the confirmation its class and hazard ask for (invoke_api.py).
THEOREM AlwaysWarranted == Spec => []Warranted
  BY RequestsInvariant, SentIsWarranted, PTL

-----------------------------------------------------------------------------
(* The stop routes.                                                        *)

\* How many of n stops a request that is at this step has tried.
Tries(n) == IF at <= 3 THEN 0 ELSE IF at <= n + 3 THEN at - 3 ELSE n

\* A stop request has tried its stops so far; it ends past them all, at a middleware, or at the
\* stop whose exception escaped.
StopInv ==
    (req # None /\ req.route \in StopRoutes) =>
        LET stops == Stops[req.route] IN
        /\ Len(sent) = Tries(Len(stops)) + (IF status = 500 THEN 1 ELSE 0)
        /\ \A i \in 1..Len(sent) : sent[i] = stops[i]
        /\ status \in {0, 200, 401, 403, 500}
        /\ status = 200 => at = Len(stops) + 4
        /\ status = 401 => req.route # "motion_stop" /\ at = 2
        /\ status = 403 => cfg.readOnly
        /\ status = 500 => at - 2 \in 1..Len(stops)

\* The row of a stop route: two middlewares, its stops, the line in the trail.
LEMMA StopSteps ==
  ASSUME Served, req.route \in StopRoutes, NEW n, n = Len(Stops[req.route])
  PROVE  /\ n \in {2, 5} /\ DOMAIN Stops[req.route] = 1..n /\ DOMAIN Steps = 1..(n + 3)
         /\ Len(Steps) = n + 3
         /\ Is(Steps[1], "writable", "none", 403) /\ Is(Steps[2], "keyed", "none", 401)
         /\ \A i \in 1..n : /\ Is(Steps[i + 2], "tried", Stops[req.route][i], 0)
                            /\ Stops[req.route][i] \notin DriverRefused
         /\ Is(Steps[n + 3], "audit", "none", 0)
<1>1. Own = StopRow[req.route]
  BY OwnIsKept DEF Served, Kept
<1>2. /\ n \in {2, 5} /\ DOMAIN Stops[req.route] = 1..n /\ Len(Own) = n + 1
      /\ \A i \in 1..n : /\ Is(Own[i], "tried", Stops[req.route][i], 0)
                         /\ Stops[req.route][i] \notin DriverRefused
      /\ Is(Own[n + 1], "audit", "none", 0)
  <2>1. CASE req.route = "motion_stop"
    BY <1>1, <2>1, WatchedSteps DEF StopRow, Stops, MotionStop, Is, DriverRefused
  <2>2. CASE req.route = "safety_stop"
    BY <1>1, <2>2, WatchedSteps DEF StopRow, Stops, SafetyStop, Is, DriverRefused
  <2>3. CASE req.route = "execution_stop"
    BY <1>1, <2>3, WatchedSteps DEF StopRow, Stops, ExecutionStop, Is, DriverRefused
  <2>4. QED
    BY <2>1, <2>2, <2>3 DEF StopRoutes
<1>3. /\ Len(Own) \in Nat
      /\ Len(Steps) = Len(Own) + 2 /\ DOMAIN Steps = 1..(Len(Own) + 2)
      /\ Is(Steps[1], "writable", "none", 403) /\ Is(Steps[2], "keyed", "none", 401)
      /\ \A i \in 1..Len(Own) : Steps[i + 2] = Own[i]
  BY StepsAre DEF Served
<1>4. Steps[n + 3] = Own[n + 1] /\ \A i \in 1..n : Steps[i + 2] = Own[i]
  <2>1. n + 1 \in 1..Len(Own) /\ (n + 1) + 2 = n + 3 /\ \A i \in 1..n : i \in 1..Len(Own)
    BY <1>2
  <2>2. QED
    BY <1>3, <2>1
<1>5. QED
  BY <1>2, <1>3, <1>4

\* Where a stop request stands when it is at a step.
LEMMA StopNow ==
  ASSUME RequestInv, StopInv, Serving, req.route \in StopRoutes, NEW n, n = Len(Stops[req.route])
  PROVE  /\ n \in {2, 5} /\ at \in 1..(n + 3) /\ IsSeq(sent)
         /\ \/ at = 1 /\ Is(Now, "writable", "none", 403)
            \/ at = 2 /\ Is(Now, "keyed", "none", 401)
            \/ at - 2 \in 1..n /\ Is(Now, "tried", Stops[req.route][at - 2], 0)
                               /\ Stops[req.route][at - 2] \notin DriverRefused
            \/ at = n + 3 /\ Is(Now, "audit", "none", 0)
<1>1. Served /\ Now = Steps[at] /\ at \in DOMAIN Steps /\ IsSeq(sent)
  BY NowIs DEF RequestInv
<1>2. /\ n \in {2, 5} /\ DOMAIN Steps = 1..(n + 3)
      /\ Is(Steps[1], "writable", "none", 403) /\ Is(Steps[2], "keyed", "none", 401)
      /\ \A i \in 1..n : /\ Is(Steps[i + 2], "tried", Stops[req.route][i], 0)
                         /\ Stops[req.route][i] \notin DriverRefused
      /\ Is(Steps[n + 3], "audit", "none", 0)
  BY ZenonT(40), <1>1, StopSteps
<1>3. at = 1 \/ at = 2 \/ (at - 2 \in 1..n /\ (at - 2) + 2 = at) \/ at = n + 3
  BY <1>1, <1>2
<1>4. QED
  BY <1>1, <1>2, <1>3

LEMMA StopInit == Init => StopInv
  BY DEF Init, StopInv

\* No answer of the controller ends a stop request, and no guard of its row is behind a lease.
LEMMA StopStep == RequestInv /\ StopInv /\ [Next]_vars => StopInv'
<1> SUFFICES ASSUME RequestInv, StopInv, [Next]_vars, req' # None, req'.route \in StopRoutes
             PROVE  StopInv'
  BY DEF StopInv
<1>1. ASSUME req' = req, UNCHANGED <<at, status, sent>>, cfg' = cfg
      PROVE  StopInv'
  BY <1>1 DEF StopInv, Tries
<1>2. CASE \E route \in Route : \E name \in Named(route) : Arrive(route, name)
  <2>1. req = None /\ UNCHANGED <<at, status, sent>>
    BY <1>2 DEF Arrive
  <2>2. at' = 1 /\ status' = 0 /\ sent' = <<>>
    BY <2>1 DEF RequestInv
  <2>3. QED
    BY <2>2 DEF StopInv, Tries
<1>3. CASE Guard \/ Record \/ Skip \/ \E outcome \in Outcomes : Call(outcome)
  <2>1. Serving /\ req' = req /\ cfg' = cfg
    BY <1>3 DEF Guard, Record, Skip, Call, startVars
  <2> DEFINE stops == Stops[req.route]
  <2> PICK n : n = Len(stops)
    OBVIOUS
  <2>2. /\ n \in {2, 5} /\ at \in 1..(n + 3) /\ IsSeq(sent)
        /\ \/ at = 1 /\ Is(Now, "writable", "none", 403)
           \/ at = 2 /\ Is(Now, "keyed", "none", 401)
           \/ at - 2 \in 1..n /\ Is(Now, "tried", stops[at - 2], 0) /\ stops[at - 2] \notin DriverRefused
           \/ at = n + 3 /\ Is(Now, "audit", "none", 0)
    BY <2>1, StopNow
  <2>3. status = 0 /\ Len(sent) = Tries(n) /\ IsSeq(sent) /\ \A i \in 1..Len(sent) : sent[i] = stops[i]
    <3>1. Tries(n) \in Nat
      BY <2>2 DEF Tries
    <3>2. /\ req # None /\ status = 0 /\ Len(sent) = Tries(n) + (IF status = 500 THEN 1 ELSE 0)
          /\ \A i \in 1..Len(sent) : sent[i] = stops[i]
      BY <2>1 DEF Serving, StopInv
    <3>3. QED
      BY <2>2, <3>1, <3>2
  <2>4. SUFFICES /\ Len(sent') = Tries(n)' + (IF status' = 500 THEN 1 ELSE 0)
                 /\ \A i \in 1..Len(sent') : sent'[i] = stops[i]
                 /\ status' \in {0, 200, 401, 403, 500} /\ (status' = 200 => at' = n + 4)
                 /\ (status' = 401 => req.route # "motion_stop" /\ at' = 2)
                 /\ (status' = 403 => cfg.readOnly) /\ (status' = 500 => at' - 2 \in 1..n)
    BY <2>1 DEF StopInv, Tries
  <2>5. CASE Guard
    <3>1. Now.does \notin Calls \cup {"audit"} /\ sent' = sent
      BY <2>5 DEF Guard
    <3>2. at \in {1, 2}
      BY <2>2, <3>1 DEF Is, Calls
    <3>3. CASE Verdict(Now) = 200
      BY <2>2, <2>3, <2>5, <3>1, <3>2, <3>3 DEF Guard, Tries
    <3>4. CASE Verdict(Now) # 200
      <4>1. status' = Verdict(Now) /\ at' = at
        BY <2>5, <3>4 DEF Guard
      <4>2. at = 1 => Verdict(Now) = 403 /\ cfg.readOnly
        BY <2>2, <3>4 DEF Is, Verdict, Writable
      <4>3. at = 2 => Verdict(Now) = 401 /\ req.route # "motion_stop"
        BY <2>2, <3>4 DEF Is, Verdict, Authorised, OpenPaths
      <4>4. Len(sent') = 0 /\ Tries(n)' = 0 /\ sent' = sent
        BY <2>3, <3>1, <3>2, <4>1 DEF Tries
      <4>5. /\ status' \in {401, 403} /\ (status' = 401 => at' = 2 /\ req.route # "motion_stop")
            /\ status' = 403 => cfg.readOnly
        BY <3>2, <4>1, <4>2, <4>3
      <4>6. QED
        BY <2>3, <4>4, <4>5
    <3>5. QED
      BY <3>3, <3>4
  <2>6. CASE Record
    <3>1. Now.does = "audit" /\ at' = at + 1 /\ UNCHANGED <<sent, status>>
      BY <2>6 DEF Record
    <3>2. at = n + 3
      BY <2>2, <3>1 DEF Is
    <3>3. QED
      BY <2>2, <2>3, <3>1, <3>2 DEF Tries
  <2>7. CASE Skip
    <3>1. Now.does \in Left
      BY <2>7 DEF Skip
    <3>2. QED
      BY <2>2, <3>1 DEF Is, Left
  <2>8. ASSUME NEW outcome, Call(outcome)
        PROVE  /\ Len(sent') = Tries(n)' + (IF status' = 500 THEN 1 ELSE 0)
               /\ \A i \in 1..Len(sent') : sent'[i] = stops[i]
               /\ status' \in {0, 500} /\ (status' = 500 => at' - 2 \in 1..n)
    <3>1. Now.does \in Calls
      BY <2>8 DEF Call
    <3>2. /\ at - 2 \in 1..n /\ Now.does = "tried" /\ Now.of = stops[at - 2] /\ ~Barred(Now.of)
      BY <2>2, <3>1 DEF Is, Calls, Left, Barred
    <3>3. sent' = Append(sent, stops[at - 2])
      BY <2>8, <3>2 DEF Call
    <3>4. \/ at' = at + 1 /\ status' = 0
          \/ at' = at /\ status' = 500
      BY <2>3, <2>8, <3>2 DEF Call, Ends
    <3>5. Len(sent) = at - 3
      BY <2>2, <2>3, <3>2 DEF Tries
    <3>6. Len(sent') = at - 2 /\ \A i \in 1..(at - 2) : sent'[i] = stops[i]
      <4>1. /\ Len(sent') = Len(sent) + 1 /\ \A i \in 1..Len(sent) : sent'[i] = sent[i]
            /\ sent'[Len(sent) + 1] = stops[at - 2]
        BY <2>2, <3>3, AppendIsSeq
      <4>2. \A i \in 1..(at - 2) : i \in 1..(at - 3) \/ i = at - 2
        BY <2>2
      <4>3. at - 3 + 1 = at - 2
        BY <2>2
      <4>4. QED
        BY <2>3, <3>5, <4>1, <4>2, <4>3
    <3>7. CASE at' = at + 1 /\ status' = 0
      <4>1. Tries(n)' = at - 2
        BY <2>2, <3>2, <3>7 DEF Tries
      <4>2. QED
        BY <2>2, <3>6, <3>7, <4>1
    <3>8. CASE at' = at /\ status' = 500
      <4>1. Tries(n)' = at - 3
        BY <2>2, <3>2, <3>8 DEF Tries
      <4>2. QED
        BY <2>2, <3>2, <3>6, <3>8, <4>1
    <3>9. QED
      BY <3>4, <3>7, <3>8
  <2>9. QED
    BY <1>3, <2>5, <2>6, <2>7, <2>8
<1>4. CASE Respond
  <2>1. /\ req' = req /\ cfg' = cfg /\ req # None /\ status = 0 /\ status' = 200
        /\ at > Len(Steps) /\ UNCHANGED <<at, sent>>
    BY <1>4 DEF Respond, Steps, startVars
  <2>2. Served /\ req.route \in StopRoutes
    BY <2>1 DEF RequestInv
  <2> DEFINE n == Len(Stops[req.route])
  <2>3. n \in {2, 5} /\ Len(Steps) = n + 3
    BY <2>2, StopSteps
  <2>4. at = n + 4
    BY <2>1, <2>2, <2>3 DEF Served
  <2>5. QED
    BY <2>1, <2>2, <2>4 DEF StopInv, Tries
<1>5. CASE Over
  BY <1>5 DEF Over
<1>6. CASE Start \/ (\E h \in {None, "me", "other"} : LeaseMoves(h)) \/ UNCHANGED vars
  <2>1. req' = req /\ UNCHANGED <<at, status, sent>> /\ cfg' = cfg
    BY <1>6 DEF Start, Starting, CommandLine, Build, Lifespan, KeyFileChanges, LeaseMoves, vars,
                requestVars, startVars
  <2>2. QED
    BY <1>1, <2>1
<1>7. QED
  BY <1>2, <1>3, <1>4, <1>5, <1>6 DEF Next

LEMMA StopsInvariant == Spec => [](RequestInv /\ StopInv)
<1>1. Init => RequestInv /\ StopInv
  BY RequestInit, StopInit
<1>2. RequestInv /\ StopInv /\ [Next]_vars => RequestInv' /\ StopInv'
  BY RequestStep, StopStep
<1>3. QED
  BY <1>1, <1>2, PTL DEF Spec

LEMMA SameSeq ==
  ASSUME NEW q, IsSeq(q), NEW other, IsSeq(other), Len(q) = Len(other),
         \A i \in 1..Len(q) : q[i] = other[i]
  PROVE  q = other
<1> DEFINE all == {q[i] : i \in DOMAIN q} \cup {other[i] : i \in DOMAIN other}
<1>1. q \in Seq(all) /\ other \in Seq(all)
  BY RowIn
<1> HIDE DEF all
<1>2. QED
  BY <1>1

\* A sequence that agrees with the first so many of another is their part of it.
LEMMA FirstOf ==
  ASSUME NEW q, IsSeq(q), NEW whole, IsSeq(whole), Len(q) \in 1..Len(whole),
         \A i \in 1..Len(q) : q[i] = whole[i]
  PROVE  q = SubSeq(whole, 1, Len(q))
<1> DEFINE all == {whole[i] : i \in DOMAIN whole}
           part == SubSeq(whole, 1, Len(q))
<1>1. whole \in Seq(all) /\ Len(whole) \in Nat
  BY DEF IsSeq
<1>2. Len(q) \in Nat /\ Len(q) <= Len(whole)
  BY <1>1
<1>3. part \in Seq(all) /\ Len(part) = Len(q) /\ \A i \in 1..Len(q) : part[i] = whole[i]
  <2> HIDE DEF all
  <2>1. QED
    BY <1>1, <1>2, SubSeqProperties
<1> HIDE DEF part, all
<1>4. IsSeq(part)
  BY <1>3 DEF IsSeq
<1>5. q = part
  BY <1>3, <1>4, SameSeq
<1>6. QED
  BY <1>5 DEF part

\* At the end that is all of them, or all up to the one that raised.
LEMMA StopsHaveBeenTried == RequestInv /\ StopInv => StopsAreServed
<1> SUFFICES ASSUME RequestInv, StopInv, status # 0, ~cfg.readOnly, req.route \in DOMAIN Stops
             PROVE  LET stops == Stops[req.route] IN
                    \/ status = 200 /\ sent = stops
                    \/ status = 500 /\ \E n \in 1..Len(stops) : sent = SubSeq(stops, 1, n)
                    \/ status = 401 /\ sent = <<>> /\ req.route # "motion_stop"
  BY DEF StopsAreServed
<1> DEFINE stops == Stops[req.route]
<1>1. req.route \in StopRoutes /\ req # None /\ IsSeq(sent) /\ Served
  BY DEF RequestInv, Stops, StopRoutes
<1>2. Len(stops) \in {2, 5}
  BY <1>1, StopSteps
<1>3. IsSeq(stops)
  <2>1. /\ IsSeq(<<"ImmStopJOG", "StopMotion">>) /\ IsSeq(<<"ProgramStop", "StopMotion">>)
        /\ IsSeq(<<"SetDO", "SetAO", "ProgramStop", "StopMotion", "ImmStopJOG">>)
    BY DEF IsSeq
  <2>2. QED
    BY <1>1, <2>1 DEF Stops, StopRoutes
<1>4. /\ Len(sent) = Tries(Len(stops)) + (IF status = 500 THEN 1 ELSE 0)
      /\ \A i \in 1..Len(sent) : sent[i] = stops[i]
      /\ status \in {200, 401, 500}
      /\ status = 200 => at = Len(stops) + 4
      /\ status = 401 => req.route # "motion_stop" /\ at = 2
      /\ status = 500 => at - 2 \in 1..Len(stops)
  BY <1>1 DEF StopInv
<1>5. at \in Nat /\ Len(sent) \in Nat
  <2>1. Len(Steps) \in Nat
    BY <1>1, StepsHaveAnEnd DEF Served
  <2>2. QED
    BY <1>1, <2>1 DEF Served, IsSeq
<1> HIDE DEF stops
<1>6. CASE status = 200
  <2>1. Len(sent) = Len(stops)
    BY <1>2, <1>4, <1>6 DEF Tries
  <2>2. sent = stops
    BY <1>1, <1>3, <1>4, <2>1, SameSeq
  <2>3. QED
    BY <1>6, <2>2 DEF stops
<1>7. CASE status = 500
  <2>1. Len(sent) = at - 2 /\ Len(sent) \in 1..Len(stops)
    BY <1>2, <1>4, <1>5, <1>7 DEF Tries
  <2>2. sent = SubSeq(stops, 1, Len(sent))
    BY <1>1, <1>3, <1>4, <2>1, FirstOf
  <2>3. QED
    BY <1>7, <2>1, <2>2 DEF stops
<1>8. CASE status = 401
  <2>1. Len(sent) = 0
    BY <1>4, <1>8 DEF Tries
  <2>2. sent = <<>>
    BY <1>1, <2>1 DEF IsSeq
  <2>3. QED
    BY <1>4, <1>8, <2>2
<1>9. QED
  BY <1>4, <1>6, <1>7, <1>8

\* The three stop routes answer 200 and have tried all their stops in order, whatever errors the
\* driver made of them and whoever holds a lease; or an exception that is no RobotError has ended
\* them with 500 at one of their stops, and those before it have been tried (app.py,
\* programs_api.py, control_api.py, driver.py).
THEOREM StopsAreAlwaysServed == Spec => []StopsAreServed
  BY StopsInvariant, StopsHaveBeenTried, PTL

=============================================================================
