------------------------------- MODULE Stores -------------------------------
(***************************************************************************)
(* What the gateway keeps on its disk, together: the pose store and the    *)
(* recorder's files, under a disk that fills up and a gateway that crashes *)
(* and starts again at any step (src/fws/app.py builds both over data_dir). *)
(***************************************************************************)
EXTENDS PoseStore, Recorder

CONSTANT MaxRequests  \* bound: requests, crashes and changes of the disk

ASSUME StoresAssumption ==
    /\ FaultName \subseteq RecName /\ MaxRequests \in Nat
    /\ RingSize \in Nat \ {0} /\ FlushAt \in Nat \ {0} /\ MaxFrames \in Nat
    /\ Torn \notin Nat \cup {None} /\ None \notin Nat \cup RecName

VARIABLE left  \* how many of them may still come

vars == <<full, poseVars, recVars, left>>

StoresTypeOK == full \in BOOLEAN /\ PoseTypeOK /\ RecTypeOK /\ left \in 0..MaxRequests

Init == DiskInit /\ PoseInit /\ RecInit /\ left = MaxRequests

Request == left > 0 /\ left' = left - 1

Next ==
    \/ Request /\ PoseRequest /\ UNCHANGED <<full, recVars>>
    \/ Request /\ RecRequest /\ UNCHANGED <<full, poseVars>>
    \/ Request /\ DiskMoves /\ UNCHANGED <<poseVars, recVars>>
    \/ Request /\ PoseRestart /\ RecRestart /\ UNCHANGED full
    \/ PoseWrite /\ UNCHANGED <<full, recVars, left>>
    \/ RecThread /\ UNCHANGED <<full, poseVars, left>>

Spec == Init /\ [][Next]_vars

=============================================================================
