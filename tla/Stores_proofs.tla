---------------------------- MODULE Stores_proofs ----------------------------
(***************************************************************************)
(* Proofs about Stores: what the pose store has answered, and what the     *)
(* recorder has told, is on the disk, whenever the gateway crashes and     *)
(* however the disk fills up, for every set of names and every size of the *)
(* ring and the buffer.                                                    *)
(*                                                                         *)
(* The two stores share nothing but the disk, so that each has an          *)
(* invariant of its own, kept by its own steps.                            *)
(***************************************************************************)
EXTENDS Stores, TLAPS

\* What was answered of a pose is in memory as it is on disk: writing the whole
\* store for another pose's sake puts the same there again.
MemoryAgrees == \A n \in PoseName : answered[n] # "unanswered" => poses[n] = answered[n]

\* The names of a change that is not written yet have no answer.
PoseInv == PoseTypeOK /\ AnsweredPosesSurvive /\ MemoryAgrees

\* The frames counted are in the file or in the buffer, as long as the open
\* file is this writer's alone; and nothing is told of it yet.
CountedIsKept ==
    recording # None /\ hold = "whole" =>
        /\ told[recording] = None
        /\ rows[recording] \in Nat
        /\ counted = rows[recording] + buffered

\* A file that two have open is spoilt, and one that a dump has open alone is no
\* recording's and nothing is told of it: emptying the file where it is makes both
\* writers sharers.
OpenFilesAgree ==
    /\ recording # None /\ hold = "shared" => recording \in spoilt
    /\ dumping # None /\ dumping.file = "shared" =>
           dumping.name \in spoilt /\ (recording = dumping.name => hold # "whole")
    /\ dumping # None /\ dumping.file = "whole" =>
           told[dumping.name] = None /\ ~Recorded(dumping.name)

RecInv == RecTypeOK /\ ToldIsRecorded /\ CountedIsKept /\ OpenFilesAgree

StoresInv == full \in BOOLEAN /\ left \in 0..MaxRequests /\ PoseInv /\ RecInv

-----------------------------------------------------------------------------
(* The pose store.                                                         *)

LEMMA PosesStart == PoseInit => PoseInv
  BY DEF PoseInit, PoseInv, PoseTypeOK, Poses, NoPoses, Loaded, AnsweredPosesSurvive, MemoryAgrees

\* A change in memory takes back the answers of the names it touches.
LEMMA ChangesKeep ==
  ASSUME PoseInv, NEW names \in SUBSET PoseName, NEW new \in Poses, Change(names, new),
         \A n \in PoseName \ names : new[n] = poses[n]
  PROVE  PoseInv'
<1> USE DEF PoseInv, Change
<1>1. PoseTypeOK'
  BY DEF PoseTypeOK, Poses
<1>2. AnsweredPosesSurvive' /\ MemoryAgrees'
  BY DEF PoseTypeOK, Poses, AnsweredPosesSurvive, MemoryAgrees
<1>3. QED
  BY <1>1, <1>2

LEMMA PoseRequestsKeep == PoseInv /\ PoseRequest => PoseInv'
<1> SUFFICES ASSUME PoseInv, PoseRequest
             PROVE  PoseInv'
  OBVIOUS
<1>1. poses \in Poses
  BY DEF PoseInv, PoseTypeOK
<1>2. ASSUME NEW n \in PoseName, NEW pose \in Pose, NEW overwrite \in BOOLEAN,
             SavePose(n, pose, overwrite)
      PROVE  PoseInv'
  BY <1>1, <1>2, ChangesKeep DEF SavePose, Poses
<1>3. ASSUME NEW n \in PoseName, DeletePose(n)
      PROVE  PoseInv'
  BY <1>1, <1>3, ChangesKeep DEF DeletePose, Poses
<1>4. ASSUME NEW n \in PoseName, NEW new \in PoseName, RenamePose(n, new)
      PROVE  PoseInv'
  <2> DEFINE renamed == [poses EXCEPT ![n] = None, ![new] = poses[n]]
  <2>1. {n, new} \in SUBSET PoseName /\ renamed \in Poses
    BY <1>1 DEF Poses
  <2>2. \A m \in PoseName \ {n, new} : renamed[m] = poses[m]
    BY <1>1 DEF Poses
  <2>3. Change({n, new}, renamed)
    BY <1>4 DEF RenamePose
  <2>4. QED
    BY <2>1, <2>2, <2>3, ChangesKeep
<1>5. QED
  BY <1>2, <1>3, <1>4 DEF PoseRequest

LEMMA PoseWritesKeep == PoseInv /\ PoseWrite => PoseInv'
<1> SUFFICES ASSUME PoseInv, PoseWrite
             PROVE  PoseInv'
  OBVIOUS
<1> USE DEF PoseInv, PoseTypeOK, Poses, AnsweredPosesSurvive, MemoryAgrees
<1>1. CASE WriteTemp
  BY <1>1 DEF WriteTemp
<1>2. CASE WriteFails
  BY <1>2 DEF WriteFails
<1>3. CASE Replace
  BY <1>3 DEF Replace
<1>4. QED
  BY <1>1, <1>2, <1>3 DEF PoseWrite

\* A store that does not parse has no answer to lose: what is answered was
\* written, and what is written replaces the store whole.
LEMMA PoseRestartKeeps == PoseInv /\ PoseRestart => PoseInv'
  BY DEF PoseInv, PoseTypeOK, Poses, NoPoses, AnsweredPosesSurvive, MemoryAgrees, PoseRestart, Loaded

LEMMA PosesStay == PoseInv /\ UNCHANGED poseVars => PoseInv'
  BY DEF PoseInv, PoseTypeOK, poseVars, AnsweredPosesSurvive, MemoryAgrees

-----------------------------------------------------------------------------
(* The recorder.                                                           *)

LEMMA RecorderStarts == RecInit => RecInv
  BY StoresAssumption
  DEF StoresAssumption, RecInit, RecInv, RecTypeOK, Content, ToldIsRecorded, CountedIsKept,
      OpenFilesAgree

\* A step that leaves the directory, what is told and who has what open alone.
LEMMA CountingKeeps ==
  ASSUME RecInv, UNCHANGED <<rows, told, spoilt, hold, dumping, recording>>,
         ring' \in 0..RingSize, counted' \in 0..MaxFrames, buffered' \in 0..FlushAt,
         recording # None => counted' + buffered = counted + buffered'
  PROVE  RecInv'
<1> USE StoresAssumption
    DEF StoresAssumption, RecInv, RecTypeOK
<1>1. RecTypeOK'
  OBVIOUS
<1>2. ToldIsRecorded'
  BY DEF ToldIsRecorded
<1>3. CountedIsKept'
  <2> SUFFICES ASSUME recording # None, hold = "whole"
               PROVE  /\ told[recording] = None /\ rows[recording] \in Nat
                      /\ counted' = rows[recording] + buffered'
    BY DEF CountedIsKept
  <2>1. /\ told[recording] = None /\ rows[recording] \in Nat
        /\ counted = rows[recording] + buffered
    BY DEF CountedIsKept
  <2>2. /\ counted \in Nat /\ buffered \in Nat /\ counted' \in Nat /\ buffered' \in Nat
        /\ counted' + buffered = counted + buffered'
    OBVIOUS
  <2>3. QED
    BY <2>1, <2>2
<1>4. OpenFilesAgree'
  <2>1. /\ dumping' = dumping /\ recording' = recording /\ hold' = hold
        /\ told' = told /\ spoilt' = spoilt
    OBVIOUS
  <2>2. QED
    BY <2>1 DEF OpenFilesAgree, Recorded
<1>5. QED
  BY <1>1, <1>2, <1>3, <1>4

\* The open file is dropped: what there is and what is told of it stay.
LEMMA ClosingKeeps ==
  ASSUME RecInv, Closed, UNCHANGED <<rows, told, spoilt, dumping>>, ring' \in 0..RingSize
  PROVE  RecInv'
<1> USE StoresAssumption
    DEF StoresAssumption, RecInv, RecTypeOK, Closed
<1>1. RecTypeOK' /\ ToldIsRecorded' /\ CountedIsKept'
  BY DEF ToldIsRecorded, CountedIsKept
<1>2. OpenFilesAgree'
  BY DEF OpenFilesAgree, Recorded
<1>3. QED
  BY <1>1, <1>2

\* A file that is open and no longer has its name takes the frames with it; a
\* full buffer is written whole or ends the recording.
LEMMA FeedKeeps == RecInv /\ Feed => RecInv'
<1> SUFFICES ASSUME RecInv, Feed
             PROVE  RecInv'
  OBVIOUS
<1> USE StoresAssumption DEF StoresAssumption, RecInv, RecTypeOK
<1>1. ring' \in 0..RingSize /\ dumping' = dumping /\ told' = told /\ spoilt' = spoilt
  BY DEF Feed
<1>2. CASE recording = None
  <2>1. UNCHANGED <<recording, counted, buffered, hold, rows>>
    BY <1>2 DEF Feed
  <2>2. QED
    BY <1>1, <1>2, <2>1, CountingKeeps
<1>3. CASE recording # None /\ buffered + 1 < FlushAt
  <2>1. /\ recording' = recording /\ hold' = hold /\ rows' = rows /\ counted < MaxFrames
        /\ counted' = counted + 1 /\ buffered' = buffered + 1
    BY <1>3 DEF Feed
  <2>2. QED
    BY <1>1, <1>3, <2>1, CountingKeeps
<1>4. CASE recording # None /\ buffered + 1 >= FlushAt /\ ~full
  <2>1. /\ recording' = recording /\ hold' = hold /\ recording \in RecName
        /\ counted' = counted + 1 /\ buffered' = 0 /\ counted < MaxFrames
        /\ rows' = Flushed(buffered + 1)
    BY <1>4 DEF Feed
  <2>2. OpenFilesAgree'
    BY <1>1, <2>1 DEF OpenFilesAgree, Recorded
  <2>3. CASE hold = "whole"
    <3>1. rows' = [rows EXCEPT ![recording] = @ + (buffered + 1)]
      BY <2>1, <2>3 DEF Flushed
    <3>2. rows'[recording] = counted + 1 /\ told[recording] = None
      BY <2>1, <2>3, <3>1, <1>4 DEF CountedIsKept
    <3>3. rows' \in [RecName -> Content]
      BY <2>1, <3>1, <3>2 DEF Content
    <3>4. QED
      BY <1>1, <1>4, <2>1, <2>2, <3>1, <3>2, <3>3 DEF ToldIsRecorded, CountedIsKept
  <2>4. CASE hold = "shared"
    <3>1. rows' = [rows EXCEPT ![recording] = Torn] /\ recording \in spoilt
      BY <1>4, <2>1, <2>4 DEF Flushed, OpenFilesAgree
    <3>2. rows' \in [RecName -> Content]
      BY <2>1, <3>1 DEF Content
    <3>3. QED
      BY <1>1, <2>1, <2>2, <2>4, <3>1, <3>2 DEF ToldIsRecorded, CountedIsKept
  <2>5. CASE hold = "gone"
    <3>1. rows' = rows
      BY <2>1, <2>5 DEF Flushed
    <3>2. QED
      BY <1>1, <2>1, <2>2, <2>5, <3>1 DEF ToldIsRecorded, CountedIsKept
  <2>6. QED
    BY <2>3, <2>4, <2>5
<1>5. CASE recording # None /\ buffered + 1 >= FlushAt /\ full
  <2>1. Closed /\ rows' = rows
    BY <1>5 DEF Feed
  <2>2. QED
    BY <1>1, <2>1, ClosingKeeps
<1>6. full \/ ~full
  OBVIOUS
<1>7. QED
  BY <1>2, <1>3, <1>4, <1>5, <1>6

\* stop() tells the number it counted: the same as the file holds, once the
\* buffer has been flushed into it.
LEMMA StopRecKeeps == RecInv /\ StopRec => RecInv'
<1> SUFFICES ASSUME RecInv, StopRec
             PROVE  RecInv'
  OBVIOUS
<1> USE StoresAssumption DEF StoresAssumption, RecInv, RecTypeOK
<1>1. /\ Closed /\ ring' = ring /\ dumping' = dumping
      /\ recording \in RecName /\ recording # None
      /\ Finish /\ rows' = IF full THEN rows ELSE Flushed(buffered)
  BY DEF StopRec
<1>2. CASE hold = "gone"
  <2>1. rows' = rows /\ told' = told /\ spoilt' = spoilt
    BY <1>1, <1>2 DEF Finish, Flushed
  <2>2. QED
    BY <1>1, <2>1, ClosingKeeps
<1>3. CASE hold # "gone"
  <2>1. /\ told' = [told EXCEPT ![recording] = counted]
        /\ spoilt' = IF full /\ buffered > 0 THEN spoilt \cup {recording} ELSE spoilt
    BY <1>1, <1>3 DEF Finish
  <2>2. /\ rows' \in [RecName -> Content]
        /\ \A n \in RecName \ {recording} : rows'[n] = rows[n]
        /\ recording \notin spoilt' => rows'[recording] = counted
    <3>1. CASE full
      BY <1>1, <1>3, <2>1, <3>1 DEF CountedIsKept, OpenFilesAgree
    <3>2. CASE ~full /\ hold = "whole"
      BY <1>1, <2>1, <3>2 DEF CountedIsKept, Flushed, Content
    <3>3. CASE ~full /\ hold = "shared"
      <4>1. rows' = [rows EXCEPT ![recording] = Torn] /\ recording \in spoilt'
        BY <1>1, <2>1, <3>3 DEF Flushed, OpenFilesAgree
      <4>2. QED
        BY <1>1, <4>1 DEF Content
    <3>4. QED
      BY <1>3, <3>1, <3>2, <3>3
  <2>3. RecTypeOK'
    BY <1>1, <2>1, <2>2 DEF Closed
  <2>4. ToldIsRecorded'
    BY <1>1, <2>1, <2>2 DEF ToldIsRecorded
  <2>5. CountedIsKept'
    BY <1>1 DEF Closed, CountedIsKept
  <2>6. OpenFilesAgree'
    <3>1. /\ dumping' = dumping /\ recording' = None /\ hold' = "whole"
          /\ spoilt \subseteq spoilt'
      BY <1>1, <2>1 DEF Closed
    <3>2. dumping # None /\ dumping.file = "whole" => told'[dumping.name] = None
      BY <1>1, <1>3, <2>1 DEF OpenFilesAgree, Recorded
    <3>3. dumping # None => dumping.name \in RecName
      OBVIOUS
    <3>4. ~Recorded(dumping.name)' \/ dumping = None
      BY <3>1, <3>3 DEF Recorded
    <3>5. QED
      BY <3>1, <3>2, <3>3, <3>4 DEF OpenFilesAgree
  <2>7. QED
    BY <2>3, <2>4, <2>5, <2>6
<1>4. QED
  BY <1>2, <1>3

\* A new recording has its file to itself, or shares it with the dump.
LEMMA StartRecKeeps ==
  ASSUME RecInv, NEW n \in RecName, StartRec(n)
  PROVE  RecInv'
<1> USE StoresAssumption DEF StoresAssumption, RecInv, RecTypeOK
<1>1. /\ recording = None /\ recording' = n /\ counted' = 0 /\ buffered' = 0 /\ ring' = ring
      /\ rows' = [rows EXCEPT ![n] = 0] /\ told' = [told EXCEPT ![n] = None]
  BY DEF StartRec, Emptied
<1>2. rows' \in [RecName -> Content]
  BY <1>1 DEF Content
<1>3. CASE DumpedTo(n)
  <2>1. /\ hold' = "shared" /\ spoilt' = spoilt \cup {n}
        /\ dumping' = [dumping EXCEPT !.file = "shared"]
    BY <1>3 DEF StartRec, Emptied
  <2>2. /\ dumping # None /\ dumping.name = n
        /\ dumping \in [name : FaultName, frames : 1..RingSize,
                        file : {"closed", "whole", "shared", "gone"}]
    BY <1>3 DEF DumpedTo
  <2>3. /\ dumping'.file = "shared" /\ dumping'.name = n
        /\ dumping' \in [name : FaultName, frames : 1..RingSize,
                         file : {"closed", "whole", "shared", "gone"}]
    BY <2>1, <2>2
  <2>4. QED
    BY <1>1, <1>2, <2>1, <2>2, <2>3 DEF ToldIsRecorded, CountedIsKept, OpenFilesAgree, Recorded
<1>4. CASE ~DumpedTo(n)
  <2>1. hold' = "whole" /\ dumping' = dumping /\ spoilt' = spoilt \ {n}
    BY <1>4 DEF StartRec, Emptied
  <2>2. QED
    BY <1>1, <1>2, <1>4, <2>1
    DEF DumpedTo, ToldIsRecorded, CountedIsKept, OpenFilesAgree, Recorded
<1>5. QED
  BY <1>3, <1>4

\* What loses its name is nobody's: neither writer can spoil a later file of it.
LEMMA DeleteRecKeeps ==
  ASSUME RecInv, NEW n \in RecName, DeleteRec(n)
  PROVE  RecInv'
<1> USE StoresAssumption DEF StoresAssumption, RecInv, RecTypeOK
<1>1. /\ rows' = [rows EXCEPT ![n] = None] /\ told' = [told EXCEPT ![n] = None]
      /\ spoilt' = spoilt \ {n} /\ UNCHANGED <<ring, recording, counted, buffered>>
      /\ hold' = IF recording = n THEN "gone" ELSE hold
      /\ dumping' = IF DumpedTo(n) THEN [dumping EXCEPT !.file = "gone"] ELSE dumping
  BY DEF DeleteRec
<1>2. /\ rows' \in [RecName -> Content]
      /\ dumping' \in [name : FaultName, frames : 1..RingSize,
                       file : {"closed", "whole", "shared", "gone"}] \cup {None}
  BY <1>1 DEF Content, DumpedTo
<1>3. RecTypeOK' /\ ToldIsRecorded' /\ CountedIsKept'
  BY <1>1, <1>2 DEF ToldIsRecorded, CountedIsKept
<1>4. OpenFilesAgree'
  BY <1>1 DEF DumpedTo, OpenFilesAgree, Recorded
<1>5. QED
  BY <1>3, <1>4

LEMMA RecRequestsKeep == RecInv /\ RecRequest => RecInv'
  BY StartRecKeeps, DeleteRecKeeps, StopRecKeeps DEF RecRequest

\* A dump onto the file of a recording spoils it for both.
LEMMA DumpOpenKeeps == RecInv /\ DumpOpen => RecInv'
<1> SUFFICES ASSUME RecInv, DumpOpen
             PROVE  RecInv'
  OBVIOUS
<1> USE StoresAssumption DEF StoresAssumption, RecInv, RecTypeOK
<1>1. /\ dumping # None /\ dumping.name \in RecName
      /\ dumping \in [name : FaultName, frames : 1..RingSize,
                      file : {"closed", "whole", "shared", "gone"}]
      /\ UNCHANGED <<ring, recording, counted, buffered>>
  BY DEF DumpOpen
<1>2. ASSUME Emptied(dumping.name, Recorded(dumping.name)),
             hold' = IF Recorded(dumping.name) THEN "shared" ELSE hold,
             dumping' = [dumping EXCEPT !.file =
                            IF Recorded(dumping.name) THEN "shared" ELSE "whole"]
      PROVE  RecInv'
  <2> DEFINE n == dumping.name
  <2>1. /\ rows' = [rows EXCEPT ![n] = 0] /\ told' = [told EXCEPT ![n] = None]
        /\ rows' \in [RecName -> Content]
    BY <1>1, <1>2 DEF Emptied, Content
  <2>2. /\ dumping' \in [name : FaultName, frames : 1..RingSize, file : {"shared", "whole"}]
        /\ dumping'.name = n /\ dumping'.file = IF Recorded(n) THEN "shared" ELSE "whole"
    BY <1>1, <1>2
  <2>3. CASE Recorded(n)
    <3>1. hold' = "shared" /\ spoilt' = spoilt \cup {n} /\ recording = n
      BY <1>2, <2>3 DEF Emptied, Recorded
    <3>2. QED
      BY <1>1, <2>1, <2>2, <2>3, <3>1
      DEF ToldIsRecorded, CountedIsKept, OpenFilesAgree, Recorded
  <2>4. CASE ~Recorded(n)
    <3>1. hold' = hold /\ spoilt' = spoilt \ {n}
      BY <1>2, <2>4 DEF Emptied
    <3>2. RecTypeOK' /\ ToldIsRecorded' /\ CountedIsKept'
      BY <1>1, <2>1, <2>2, <2>4, <3>1 DEF ToldIsRecorded, CountedIsKept, Recorded
    <3>3. OpenFilesAgree'
      BY <1>1, <2>1, <2>2, <2>4, <3>1 DEF OpenFilesAgree, Recorded
    <3>4. QED
      BY <3>2, <3>3
  <2>5. QED
    BY <2>3, <2>4
<1>3. ASSUME dumping' = None, UNCHANGED <<hold, rows, told, spoilt>>
      PROVE  RecInv'
  BY <1>1, <1>3 DEF ToldIsRecorded, CountedIsKept, OpenFilesAgree
<1>4. QED
  BY <1>2, <1>3 DEF DumpOpen

LEMMA DumpWriteKeeps == RecInv /\ DumpWrite => RecInv'
<1> SUFFICES ASSUME RecInv, DumpWrite
             PROVE  RecInv'
  OBVIOUS
<1> USE StoresAssumption DEF StoresAssumption, RecInv, RecTypeOK
<1> DEFINE n == dumping.name
<1>1. /\ dumping # None /\ dumping' = None /\ n \in RecName /\ dumping.frames \in Nat
      /\ UNCHANGED <<ring, recording, counted, buffered, hold, spoilt>>
  BY DEF DumpWrite
<1>2. OpenFilesAgree'
  BY <1>1 DEF OpenFilesAgree
<1>3. CASE dumping.file = "gone"
  <2>1. UNCHANGED <<rows, told>>
    BY <1>3 DEF DumpWrite
  <2>2. QED
    BY <1>1, <1>2, <2>1 DEF ToldIsRecorded, CountedIsKept
<1>4. CASE dumping.file = "shared"
  <2>1. /\ rows' = [rows EXCEPT ![n] = Torn]
        /\ told' = told \/ told' = [told EXCEPT ![n] = dumping.frames]
    BY <1>4 DEF DumpWrite
  <2>2. n \in spoilt /\ (recording = n => hold # "whole")
    BY <1>1, <1>4 DEF OpenFilesAgree
  <2>3. rows' \in [RecName -> Content] /\ told' \in [RecName -> Nat \cup {None}]
    BY <1>1, <2>1 DEF Content
  <2>4. \A m \in RecName \ {n} : rows'[m] = rows[m] /\ told'[m] = told[m]
    BY <1>1, <2>1
  <2>5. ToldIsRecorded' /\ CountedIsKept'
    BY <1>1, <2>2, <2>4 DEF ToldIsRecorded, CountedIsKept
  <2>6. QED
    BY <1>1, <1>2, <2>3, <2>5
<1>5. CASE dumping.file = "whole"
  <2>1. PICK frames \in Nat : rows' = [rows EXCEPT ![n] = frames]
    BY <1>1, <1>5 DEF DumpWrite
  <2>2. \/ told' = told
        \/ rows' = [rows EXCEPT ![n] = dumping.frames] /\ told' = [told EXCEPT ![n] = dumping.frames]
    BY <1>5 DEF DumpWrite
  <2>3. told[n] = None /\ ~Recorded(n)
    BY <1>1, <1>5 DEF OpenFilesAgree
  <2>4. rows' \in [RecName -> Content] /\ told' \in [RecName -> Nat \cup {None}]
    BY <1>1, <2>1, <2>2 DEF Content
  <2>5. ToldIsRecorded' /\ CountedIsKept'
    BY <1>1, <2>1, <2>2, <2>3 DEF ToldIsRecorded, CountedIsKept, Recorded
  <2>6. QED
    BY <1>1, <1>2, <2>4, <2>5
<1>6. QED
  BY <1>3, <1>4, <1>5 DEF DumpWrite

LEMMA RecThreadsKeep == RecInv /\ RecThread => RecInv'
<1> SUFFICES ASSUME RecInv, RecThread
             PROVE  RecInv'
  OBVIOUS
<1>1. ASSUME NEW n \in FaultName, DumpCopy(n)
      PROVE  RecInv'
  BY <1>1, StoresAssumption
  DEF StoresAssumption, RecInv, RecTypeOK, DumpCopy, ToldIsRecorded, CountedIsKept, OpenFilesAgree,
      Recorded
<1>2. QED
  BY <1>1, FeedKeeps, DumpOpenKeeps, DumpWriteKeeps DEF RecThread

LEMMA RecRestartKeeps == RecInv /\ RecRestart => RecInv'
  BY StoresAssumption
  DEF StoresAssumption, RecInv, RecTypeOK, RecRestart, Closed, ToldIsRecorded, CountedIsKept,
      OpenFilesAgree

LEMMA RecorderStays == RecInv /\ UNCHANGED recVars => RecInv'
  BY DEF RecInv, RecTypeOK, recVars, ToldIsRecorded, CountedIsKept, OpenFilesAgree, Recorded

-----------------------------------------------------------------------------
(* Both.                                                                   *)

LEMMA StoresInvariance == StoresInv /\ [Next]_vars => StoresInv'
<1> SUFFICES ASSUME StoresInv, [Next]_vars
             PROVE  StoresInv'
  OBVIOUS
<1>1. full' \in BOOLEAN /\ left' \in 0..MaxRequests
  <2>1. full' = full \/ full' = ~full
    BY DEF Next, vars, DiskMoves
  <2>2. left' = left \/ (left > 0 /\ left' = left - 1)
    BY DEF Next, vars, Request
  <2>3. full' \in BOOLEAN
    BY <2>1, Zenon DEF StoresInv
  <2>4. left' \in 0..MaxRequests
    BY <2>2, StoresAssumption DEF StoresAssumption, StoresInv
  <2>5. QED
    BY <2>3, <2>4
<1>2. PoseInv'
  <2> PoseInv
    BY DEF StoresInv
  <2>1. PoseRequest \/ PoseWrite \/ PoseRestart \/ UNCHANGED poseVars
    BY DEF Next, vars
  <2>2. QED
    BY <2>1, PoseRequestsKeep, PoseWritesKeep, PoseRestartKeeps, PosesStay
<1>3. RecInv'
  <2> RecInv
    BY DEF StoresInv
  <2>1. RecRequest \/ RecThread \/ RecRestart \/ UNCHANGED recVars
    BY DEF Next, vars
  <2>2. QED
    BY <2>1, RecRequestsKeep, RecThreadsKeep, RecRestartKeeps, RecorderStays
<1>4. QED
  BY <1>1, <1>2, <1>3 DEF StoresInv

\* The inductive invariant holds of every behaviour.
THEOREM StoresInvariant == Spec => []StoresInv
<1>1. Init => StoresInv
  BY PosesStart, RecorderStarts, StoresAssumption
  DEF StoresAssumption, Init, DiskInit, StoresInv
<1>2. QED
  BY <1>1, StoresInvariance, PTL DEF Spec

\* The variables of both stores have their types.
THEOREM StoresTyping == Spec => []StoresTypeOK
<1>1. StoresInv => StoresTypeOK
  BY DEF StoresInv, StoresTypeOK, PoseInv, RecInv
<1>2. QED
  BY <1>1, StoresInvariant, PTL

\* A pose change that was answered survives every crash and every failed write
\* (poses.py _save_locked), for every set of names.
THEOREM AnswersSurvive == Spec => []AnsweredPosesSurvive
<1>1. StoresInv => AnsweredPosesSurvive
  BY DEF StoresInv, PoseInv
<1>2. QED
  BY <1>1, StoresInvariant, PTL

\* The number that finish or a dump tells is the number of frames in the file
\* (recorder.py stop, dump), whatever the sizes of ring and buffer, save for a file
\* that a recording and a dump had open together or that a full disk cut short.
THEOREM FinishTellsTheTruth == Spec => []ToldIsRecorded
<1>1. StoresInv => ToldIsRecorded
  BY DEF StoresInv, RecInv
<1>2. QED
  BY <1>1, StoresInvariant, PTL

=============================================================================
