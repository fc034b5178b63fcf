----------------------------- MODULE PoseStore -----------------------------
(***************************************************************************)
(* Named poses (src/fws/poses.py, poses_api.py): a dictionary in memory    *)
(* that is written whole after each change, to a temporary file that then  *)
(* replaces the store. One lock covers the change and the write, so that   *)
(* handlers need no names here; a crash may come in between.               *)
(***************************************************************************)
EXTENDS Disk, Naturals

CONSTANTS
    PoseName, Pose   \* names, and what a pose holds

VARIABLES
    poses,     \* PoseStore._poses: name -> pose, or None
    poseFile,  \* poses.json: whether it parses, and what it holds
    writing,   \* the write that goes on: its stage and the names changed, or None
    answered   \* history: name -> what the last change of it that was answered made it

poseVars == <<poses, poseFile, writing, answered>>

Poses == [PoseName -> Pose \cup {None}]
NoPoses == [n \in PoseName |-> None]

PoseTypeOK ==
    /\ poses \in Poses
    /\ poseFile \in [whole : BOOLEAN, at : Poses]
    /\ writing \in [at : {"temp", "replace"}, names : SUBSET PoseName] \cup {None}
    /\ answered \in [PoseName -> Pose \cup {None, "unanswered"}]

\* _load(): a file that does not parse is left where it is, and the store
\* starts empty.
Loaded(f) == IF f.whole THEN f.at ELSE NoPoses

PoseInit ==
    /\ poseFile \in [whole : BOOLEAN, at : Poses]
    /\ ~poseFile.whole => poseFile.at = NoPoses
    /\ poses = Loaded(poseFile)
    /\ writing = None
    /\ answered = [n \in PoseName |-> "unanswered"]

\* A change in memory, with the lock taken until it is written.
Change(names, new) ==
    /\ writing = None
    /\ poses' = new
    /\ writing' = [at |-> "temp", names |-> names]
    /\ answered' = [n \in PoseName |-> IF n \in names THEN "unanswered" ELSE answered[n]]
    /\ UNCHANGED poseFile

\* PUT and capture: 409 for a name that exists, unless it is to be overwritten.
SavePose(n, pose, overwrite) ==
    /\ poses[n] = None \/ overwrite
    /\ Change({n}, [poses EXCEPT ![n] = pose])

DeletePose(n) ==
    /\ poses[n] # None
    /\ Change({n}, [poses EXCEPT ![n] = None])

RenamePose(old, new) ==
    /\ poses[old] # None /\ poses[new] = None
    /\ Change({old, new}, [poses EXCEPT ![old] = None, ![new] = poses[old]])

\* Mutant: the store is written in place.
WriteInPlace ==
    /\ writing # None /\ writing.at = "temp" /\ ~full
    /\ writing' = [writing EXCEPT !.at = "replace"]
    /\ poseFile' = [poseFile EXCEPT !.whole = FALSE]
    /\ UNCHANGED <<poses, answered>>

\* The temporary file is written and synced.
WriteTemp ==
    /\ writing # None /\ writing.at = "temp" /\ ~full
    /\ writing' = [writing EXCEPT !.at = "replace"]
    /\ UNCHANGED <<poses, poseFile, answered>>

\* The request ends in an error; what it changed in memory stays changed.
WriteFails ==
    /\ writing # None /\ full
    /\ writing' = None
    /\ UNCHANGED <<poses, poseFile, answered>>

Replace ==
    /\ writing # None /\ writing.at = "replace"
    /\ poseFile' = [whole |-> TRUE, at |-> poses]
    /\ writing' = None
    /\ answered' = [n \in PoseName |-> IF n \in writing.names THEN poses[n] ELSE answered[n]]
    /\ UNCHANGED poses

PoseRestart ==
    /\ poses' = Loaded(poseFile)
    /\ writing' = None
    /\ UNCHANGED <<poseFile, answered>>

PoseRequest ==
    \E n \in PoseName :
        \/ \E pose \in Pose, overwrite \in BOOLEAN : SavePose(n, pose, overwrite)
        \/ DeletePose(n)
        \/ \E new \in PoseName : RenamePose(n, new)

PoseWrite == WriteTemp \/ WriteFails \/ Replace

\* A change that was answered is on disk, as it was answered, until another
\* change of that pose is asked for, whatever crash or failed write of another
\* pose comes in between (poses.py _save_locked).
AnsweredPosesSurvive ==
    \A n \in PoseName :
        answered[n] # "unanswered" => poseFile.whole /\ poseFile.at[n] = answered[n]

=============================================================================
