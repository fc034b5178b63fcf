------------------------------- MODULE Routes -------------------------------
(***************************************************************************)
(* The handlers of the gateway's routes as rows: the steps a handler takes,*)
(* in their order (src/fws/app.py, control_api.py, force_api.py,           *)
(* gripper_api.py, move_api.py, programs_api.py, poses_api.py,             *)
(* recorder_api.py, backup_api.py, system_api.py, services_api.py,         *)
(* model_api.py). A step is a guard that ends the request with its status, *)
(* a line in the audit trail, or a call to the controller. A step has one  *)
(* status, where the code may word a fault and an error code differently.  *)
(* A failure that the code knows, a RobotError or a ServiceError, ends a   *)
(* request as its step says; any other exception escapes the handler, but  *)
(* for the shielded steps. Requests runs the rows.                         *)
(***************************************************************************)
EXTENDS Integers, Sequences

-----------------------------------------------------------------------------
(* The steps of handlers. Each constructor is a form of check or call.     *)

Step(does, of, no) == [does |-> does, of |-> of, no |-> no]

Enabled(flag) == Step("enabled", flag, 403)         \* _require_flag()
\* _lock(): held_by() and, if there is a lease, check(). As check() lets through where there is
\* none any more, the last look alone decides, and one step stands for the two.
Free(domain) == Step("free", domain, 0)
FreeOrFull(domain) == Step("freeOrFull", domain, 0) \* _require(): lifted by full access
FreePose == Step("freeOrFull", "config", 423)       \* _require_config(): one status for both

\* _gate(), _require_motion(): two looks at the lock, the first for a lease of anybody's, the
\* second for another's.
Occupied(domain) == Step("occupied", domain, 428)
Checked(domain) == Step("checked", domain, 423)

Confirmed(no) == Step("confirmed", "none", no)          \* every confirmation the route asks for
ConfirmedEver(no) == Step("confirmedEver", "none", no)  \* full access does not give it
Sound(what, no) == Step("sound", what, no)          \* a check of arguments or surroundings
SoundOrFull(what, no) == Step("soundOrFull", what, no)
Refuse(no) == Step("refuse", "none", no)
Rule(which, no) == Step("rule", which, no)          \* the generic invoker's rules
Audit == Step("audit", "none", 0)
Must(method, no) == Step("must", method, no)        \* an error, or an error code, ends it
MustOrFull(method, no) == Step("mustOrFull", method, no)  \* full access leaves it out
MayDrop(method, no) == Step("mayDrop", method, no)  \* a lost answer is as good as one
Tried(method) == Step("tried", method, 0)           \* whatever comes of it, go on
Raw(method, no) == Step("raw", method, no)          \* an error ends it; an error code is let by
RefusedToo(method) == Step("refusedToo", method, 0) \* allow_refused; errors are let by

\* The same, and the call may be left out: what it asks for is known, or not to be had.
MayMust(method, no) == Step("mayMust", method, no)
MayTry(method) == Step("mayTry", method, 0)
MayHeed(method) == Step("mayHeed", method, 502)     \* an error is let by, an error code ends it

\* "except Exception": whatever comes of it, and whatever it raises, go on.
Shielded(method) == Step("shielded", method, 0)
MayShielded(method) == Step("mayShield", method, 0)

\* An error is answered with 200 and "unknown", an error code ends it.
OrUnknown(method) == Step("orUnknown", method, 502)

\* jog(), jog_linear() and move_l() of the driver check their numbers for themselves.
Bounded(no) == Sound("driverBounds", no)

Shields == {"shielded", "mayShield"}
Left == {"mustOrFull", "mayMust", "mayTry", "mayHeed", "mayShield"}
Calls == Left \cup {"must", "mayDrop", "tried", "raw", "refusedToo", "orUnknown", "shielded"}

-----------------------------------------------------------------------------
(* The routes.                                                             *)

RobotEnable ==
    [enable |-> <<FreeOrFull("motion"), Confirmed(400), Audit, Must("Mode", 503),
                  Must("RobotEnable", 503), MayMust("Mode", 503)>>,
     disable |-> <<FreeOrFull("motion"), Audit, Must("Mode", 503), Must("RobotEnable", 503)>>]

\* The soft limits, read once; where there are none to be had, or no telemetry, jog goes on.
Limits == MayTry("GetJointSoftLimitDeg")

Jog == [jog |->
    <<FreeOrFull("motion"), Limits, SoundOrFull("limits", 409), SoundOrFull("step", 422),
      SoundOrFull("vel", 422), Audit, Bounded(503), Must("StartJOG", 503)>>]

\* A z floor is configured.
JogLinear == [jog_linear |->
    <<FreeOrFull("motion"), SoundOrFull("step", 422), SoundOrFull("vel", 422),
      Must("GetInverseKin", 409), Limits, SoundOrFull("limits", 409), MustOrFull("GetForwardKin", 409),
      SoundOrFull("floor", 409), Audit, Bounded(503), Must("StartJOG", 503)>>]

ResetErrors == [reset_errors |-> <<Audit, Must("ResetAllError", 503), Must("GetRobotErrorCode", 503)>>]

MotionStop == [motion_stop |-> <<Tried("ImmStopJOG"), Tried("StopMotion"), Audit>>]

Move == [move |->
    <<Enabled("movel"), Sound("shape", 422), Occupied("motion"), Checked("motion"), Confirmed(400),
      SoundOrFull("vel", 422), Must("GetInverseKin", 409), Limits, SoundOrFull("limits", 409),
      SoundOrFull("floor", 409), Audit, Bounded(502), Must("MoveL", 502)>>]

Outputs ==
    [digital_output |-> <<Free("motion"), Confirmed(400), Must("SetDO", 502), Audit>>,
     analog_output |-> <<Free("motion"), Confirmed(400), Must("SetAO", 502), Audit>>]

\* A wrong row for it: a step that fails ends the sequence.
SafetyStopGivesUp == [safety_stop |->
    <<Must("SetDO", 502), Must("SetAO", 502), Tried("ProgramStop"), Tried("StopMotion"),
      Tried("ImmStopJOG"), Audit>>]

\* The example's safe outputs are one digital and one analog.
SafetyStop == [safety_stop |->
    <<Tried("SetDO"), Tried("SetAO"), Tried("ProgramStop"), Tried("StopMotion"),
      Tried("ImmStopJOG"), Audit>>]

Frames ==
    [tool_frame_put |-> <<Free("config"), Sound("range", 422), Confirmed(400),
                      Must("SetToolCoord", 502), Audit>>,
     work_frame_put |-> <<Free("config"), Sound("range", 422), Confirmed(400),
                      Must("SetWObjCoord", 502), Audit>>]

Payload == [payload_put |-> <<Free("config"), Confirmed(400), Must("SetLoadWeight", 502), Audit>>]

ModeAndSpeed ==
    [auto |-> <<Free("motion"), Confirmed(400), Must("Mode", 503), Audit>>,
     manual |-> <<Free("motion"), Must("Mode", 503), Audit>>,
     speed |-> <<Free("motion"), Must("SetSpeed", 502), Audit>>]

ForceRoutes ==
    [force_payload |-> <<Confirmed(422), Free("config"), Must("SetForceSensorPayload", 503),
                         Must("SetForceSensorPayloadCog", 503), Audit>>,
     force_zero |-> <<Confirmed(422), Free("config"), Must("FT_SetZero", 503), Audit>>,
     force_activate |-> <<Confirmed(422), Free("config"), Must("FT_Activate", 503), Audit>>]

\* The code that ActGripper and MoveGripper answer with is not looked at.
Gripper ==
    [gripper_activate |-> <<Occupied("motion"), Checked("motion"), Confirmed(400),
                            SoundOrFull("fitted", 409), Audit, Raw("ActGripper", 502)>>,
     gripper_command |-> <<Occupied("motion"), Checked("motion"), Confirmed(400),
                           SoundOrFull("fitted", 409), Audit, Raw("MoveGripper", 502)>>]

\* A wrong row for it: the flag alone opens it.
PowerUnconfirmed == [shutdown |->
    <<Enabled("shutdown"), Free("config"), Must("GetRobotMotionDone", 503),
      Sound("standstill", 409), Audit, RefusedToo("ShutDownRobotOS")>>]

Power == [shutdown |->
    <<Enabled("shutdown"), Confirmed(422), Free("config"), Must("GetRobotMotionDone", 503),
      Sound("standstill", 409), Audit, RefusedToo("ShutDownRobotOS")>>]

FtpRoutes ==
    [ftp_list |-> <<Enabled("ftp"), Must("ftp", 502)>>,
     ftp_download |-> <<Enabled("ftp"), Must("ftp", 502), Audit>>,
     ftp_upload |-> <<Enabled("ftp"), Confirmed(400), Free("config"), Sound("base64", 422),
                      Must("ftp", 502), Audit>>,
     ftp_delete |-> <<Enabled("ftp"), ConfirmedEver(400), Free("config"), Must("ftp", 502), Audit>>]

\* A wrong order for shell: the line in the trail after the command.
ShellAuditsLate ==
    [processes |-> <<Enabled("shell"), Must("shell", 502), Audit>>,
     shell |-> <<Enabled("shell"), Sound("allowlist", 403), Confirmed(400), Free("config"),
                 Must("shell", 502), Audit>>,
     restart |-> <<Enabled("shell"), Sound("commandSet", 400), Confirmed(422), Free("config"),
                   Audit, Must("shell", 502)>>,
     reboot |-> <<Enabled("shell"), Sound("commandSet", 400), Confirmed(422), Free("config"),
                  Audit, MayDrop("shell", 502)>>]

ShellRoutes ==
    [processes |-> <<Enabled("shell"), Must("shell", 502), Audit>>,
     shell |-> <<Enabled("shell"), Sound("allowlist", 403), Confirmed(400), Free("config"),
                 Audit, Must("shell", 502)>>,
     restart |-> <<Enabled("shell"), Sound("commandSet", 400), Confirmed(422), Free("config"),
                   Audit, Must("shell", 502)>>,
     reboot |-> <<Enabled("shell"), Sound("commandSet", 400), Confirmed(422), Free("config"),
                  Audit, MayDrop("shell", 502)>>]

OtherServices ==
    [qconn |-> <<Enabled("qconn"), Must("qconn", 503)>>,
     lua_validator |-> <<Enabled("luaValidate"), Tried("luaValidator")>>,
     lua_validate |-> <<Enabled("luaValidate"), Sound("never", 501)>>]

-----------------------------------------------------------------------------
(* Routes that only read.                                                  *)

Able == Sound("capability", 501)     \* _cap()

If(condition, row) == IF condition THEN row ELSE <<>>

TriedAll(methods) == [i \in DOMAIN methods |-> Tried(methods[i])]

System ==
    [health |-> TriedAll(<<"GetForceSensorPayload", "GetTargetPayload">>),
     version |-> <<Must("GetSoftwareVersion", 503)>>,
     state |-> <<Must("GetRobotErrorCode", 503)>>,
     limits |-> <<MayMust("GetJointSoftLimitDeg", 503)>>]

\* Catalogues and tables, and what the gateway has in its memory: no call, no line in the trail.
Quiet(routes) == [route \in routes |-> <<>>]

Catalogue(lists, entry) ==
    [route \in lists \cup {entry} |-> If(route = entry, <<Sound("name", 404)>>)]

InvokeCatalogue == Catalogue({"invoke_list", "invoke_policy"}, "invoke_get")
CommandCatalogue == Catalogue({"commands_list"}, "commands_get")
LuaCatalogue ==
    Catalogue({"lua_functions", "lua_firmware", "lua_sections", "lua_conflicts", "lua_bridge",
               "lua_lint"}, "lua_function")
ErrorTable == Quiet({"error_codes", "error_code"})
CapabilityRoutes == [capabilities |-> <<>>, capabilities_refresh |-> TriedAll(<<"probes">>)]
ModeRead == Quiet({"robot_mode"})
Strategies == Quiet({"force_strategies"})
Torques == [joint_torques |-> <<Sound("telemetry", 503)>>]

\* Connections to the controller's ports, one after the other.
Recovery == [recovery |-> TriedAll(<<"ports">>)]

\* The streams ask for the key themselves; the soft limits are read for the state's first sample.
Streams == [ws_state |-> <<Limits>>, ws_events |-> <<>>]
Observed == Quiet({"metrics", "events_stream"})
Trail == Quiet({"events", "index"})

\* With the flags that are on: a probe of each service that is.
ServicesRow(flags) ==
    If("qconn" \in flags, TriedAll(<<"qconn">>)) \o If("luaValidate" \in flags, TriedAll(<<"luaValidator">>))

\* What the gateway has uploaded, from its indexes, and what it can do.
FileTable == Quiet({"file_types", "verdicts"})
ProgramList == Quiet({"programs"})
BackupList == Quiet({"backups"})
PoseList == Quiet({"poses"})
RecordingList == Quiet({"recordings"})

\* ControllerListing.get(): the two calls of the user data backup as one, left out while the
\* archive is fresh or another is fetching it; 503 when there is no archive at all.
Listed == <<MayShielded("userData"), Sound("listing", 503)>>
Versions == [versions |-> <<Sound("name", 422)>> \o Listed \o <<Sound("listed", 404)>>]

Preview == [preview |-> <<Must("GetForwardKin", 503)>>]

Errors == [errors |-> <<Must("GetRobotErrorCode", 503)>>]

Identity ==
    [robot |-> <<Must("GetSoftwareVersion", 502), MayMust("GetRobotInstallAngle", 502),
                 MayMust("GetSlaveFirmVersion", 502), MayMust("GetSlaveHardVersion", 502)>>,
     robot_state |-> <<Tried("GetRobotErrorCode"), MayTry("GetProgramState")>>]

Inputs ==
    [digital_input |-> <<Able, Must("GetDI", 502)>>,
     analog_input |-> <<Able, Must("GetAI", 502)>>,
     tool_digital_input |-> <<Able, Must("GetToolDI", 502)>>]

FrameReads ==
    [tool_frame |-> <<Able, Must("GetActualTCPNum", 502), MayMust("GetTCPOffset", 502),
                      MayMust("GetActualToolFlangePose", 502)>>,
     work_frame |-> <<Able, Must("GetActualWObjNum", 502), MayMust("GetWObjOffset", 502)>>]

PayloadRead ==
    [payload |-> <<Able, Must("GetTargetPayload", 502), MayMust("GetTargetPayloadCog", 502)>>]

RecoveredReads ==
    [velocity |-> TriedAll(<<"GetActualJointSpeedsDegree", "GetActualTCPSpeed", "GetTargetTCPSpeed",
                             "GetActualTCPCompositeSpeed", "GetTargetTCPCompositeSpeed">>),
     flange_pose |-> <<Must("GetActualToolFlangePose", 503)>>,
     active_frames |-> TriedAll(<<"GetActualTCPNum", "GetActualWObjNum">>),
     motion_queue |-> <<Must("GetMotionQueueLength", 503), MayHeed("GetRobotMotionDone")>>,
     gripper |-> TriedAll(<<"GetGripperCurPosition", "GetGripperCurSpeed", "GetGripperCurCurrent",
                            "GetGripperVoltage", "GetGripperTemp">>)]

ForceReads ==
    [force |-> <<Sound("telemetry", 503)>>,
     force_config |-> TriedAll(<<"FT_GetConfig", "GetForceSensorPayload", "GetForceSensorPayloadCog",
                                 "GetForceAndTorqueDragState", "AxleSensorConfigGet">>),
     force_payload_read |-> <<Must("GetForceSensorPayload", 503),
                              Must("GetForceSensorPayloadCog", 503), Tried("GetTargetPayload")>>]

ModelReads ==
    [model |-> <<Shielded("GetJointSoftLimitDeg")>>,
     urdf |-> <<Shielded("GetJointSoftLimitDeg"), Sound("visuals", 422)>>]

\* Validation, and the path check in it: the program is read back, and joints asked for each
\* target in it. A target that the controller does not answer for counts as out of reach.
CheckPath ==
    <<Must("download_0", 502), Tried("GetActualTCPPose"), Must("GetJointSoftLimitDeg", 502),
      MayShielded("GetInverseKin")>>
ProgramValidate == [program_validate |-> <<Sound("name", 422)>> \o CheckPath \o <<Audit>>]

\* Without skip_validation.
ProgramRun ==
    [run |-> <<Free("motion"), Confirmed(400), Must("GetRobotErrorCode", 502), Sound("faulted", 409),
               MayMust("GetLoadedProgram", 502), Sound("loaded", 409)>> \o CheckPath
             \o <<Sound("path", 409), Must("ProgramRun", 502), Audit>>]

\* The extras of execution: an error code of theirs ends the request they are extras of.
ExecutionRead ==
    [execution |-> <<OrUnknown("GetProgramState"), MayHeed("GetLoadedProgram"),
                     MayHeed("GetCurrentLine")>>]

-----------------------------------------------------------------------------
(* Programs, points and poses. Their effects are Programs' and PoseStore's.*)

ProgramPut ==
    [program_put |-> <<Free("program"), Sound("name", 422), Sound("size", 413), Sound("index", 409),
                       Tried("GetProgramState"), Sound("running", 409), Must("upload_0", 502),
                       Must("LuaUpLoadUpdate", 422), Audit>>]
ProgramGet == [program_get |-> <<Sound("name", 422), Must("download_0", 404)>>]
ProgramDelete ==
    [program_delete |-> <<Free("program"), Sound("name", 422), Tried("GetLoadedProgram"),
                          Sound("loaded", 409), Must("delete_0", 502), Audit>>]
ProgramLoad ==
    [program_load |-> <<Free("program"), Sound("name", 422), Must("ProgramLoad", 502), Audit>>]

\* With start set.
ProgramSelect ==
    [program_select |-> <<Free("program"), Sound("name", 422), Must("ProgramLoad", 502), Audit,
                          Free("motion"), Confirmed(400), Must("GetRobotErrorCode", 502),
                          Sound("faulted", 409), Must("ProgramRun", 502), Audit>>]

PauseAndResume ==
    [pause |-> <<Free("motion"), Must("ProgramPause", 502), Audit>>,
     resume |-> <<Free("motion"), Must("ProgramResume", 502), Audit>>]

ExecutionStop == [execution_stop |-> <<Tried("ProgramStop"), Tried("StopMotion"), Audit>>]

Backup == [backup |-> <<Sound("kind", 502), Must("prepare", 502), Must("download_2", 502), Audit>>]

Points ==
    [points_get |-> <<Sound("name", 422), Must("PointTableDownload", 502)>>,
     points_put |-> <<Free("config"), Sound("name", 422), Confirmed(400), Sound("base64", 422),
                      Must("PointTableUpload", 502), Tried("PointTableDownload"), Audit,
                      Sound("readback", 502)>>,
     points_switch |-> <<Free("config"), Sound("name", 422), Must("PointTableSwitch", 502), Audit>>]

Poses ==
    [pose_get |-> <<Sound("name", 404)>>,
     pose_put |-> <<FreePose, Sound("pose", 409), Audit>>,
     pose_capture |-> <<FreePose, Sound("telemetry", 503), Sound("stale", 503),
                        MayTry("GetActualTCPNum"), MayTry("GetActualWObjNum"), Sound("pose", 409),
                        Audit>>,
     pose_rename |-> <<FreePose, Sound("name", 404), Audit>>,
     pose_delete |-> <<FreePose, Sound("name", 404), Audit>>,
     pose_program |-> <<Sound("name", 404)>>]

Recordings ==
    [recording_start |-> <<Sound("name", 422), Sound("busy", 409), Sound("disk", 507), Audit>>,
     recording_finish |-> <<Sound("idle", 409), Audit>>,
     recording_get |-> <<Sound("name", 404)>>,
     recording_delete |-> <<Sound("name", 404), Audit>>]

-----------------------------------------------------------------------------

GetRoutes ==
    {"ftp_list", "ftp_download", "processes", "services", "file_list", "qconn", "lua_validator", "execution", "program_get",
     "backup", "points_get", "pose_get", "recording_get", "file_download"}
        \cup UNION {DOMAIN System, DOMAIN Errors, DOMAIN Identity, DOMAIN Inputs, DOMAIN FrameReads,
                    DOMAIN PayloadRead, DOMAIN RecoveredReads, DOMAIN ForceReads, DOMAIN ModelReads,
                    DOMAIN InvokeCatalogue, DOMAIN CommandCatalogue, DOMAIN LuaCatalogue \ {"lua_lint"},
                    DOMAIN ErrorTable, {"capabilities"}, DOMAIN ModeRead, DOMAIN Strategies,
                    DOMAIN Torques, DOMAIN Recovery, DOMAIN Streams, DOMAIN Observed, DOMAIN Trail,
                    DOMAIN FileTable, DOMAIN ProgramList, DOMAIN BackupList, DOMAIN PoseList,
                    DOMAIN RecordingList, DOMAIN Versions}

\* The tables of rows. No two have a route in common.
Tables ==
    {RobotEnable, Jog, JogLinear, ResetErrors, MotionStop, Move, Outputs, SafetyStop, Frames,
     Payload, ModeAndSpeed, ForceRoutes, Gripper, Power, FtpRoutes, ShellRoutes, OtherServices, System,
     Preview, Errors, Identity, Inputs, FrameReads, PayloadRead, RecoveredReads, ForceReads,
     ModelReads, ExecutionRead, ProgramPut, ProgramGet, ProgramDelete, ProgramLoad,
     ProgramSelect, PauseAndResume, ExecutionStop, Backup, Points, Poses, Recordings,
     ProgramValidate, ProgramRun, InvokeCatalogue, CommandCatalogue, LuaCatalogue, ErrorTable,
     CapabilityRoutes, ModeRead, Strategies, Torques, Recovery, Streams, Observed, Trail,
     FileTable, ProgramList, BackupList, PoseList, RecordingList, Versions}

Handlers ==
    [route \in UNION {DOMAIN table : table \in Tables} |->
        (CHOOSE table \in Tables : route \in DOMAIN table)[route]]

ASSUME TablesAreDisjoint ==
    \A one, other \in Tables : one = other \/ DOMAIN one \cap DOMAIN other = {}

=============================================================================
