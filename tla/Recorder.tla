------------------------------ MODULE Recorder ------------------------------
(***************************************************************************)
(* The flight recorder (src/fws/recorder.py, recorder_api.py, and the      *)
(* threads of app.py that feed it and dump it): a ring of the last frames, *)
(* a dump of it when a fault latches, and recordings that clients start    *)
(* and finish. A frame is counted when it is given to the file object,     *)
(* which buffers it; the bytes reach the disk later.                       *)
(***************************************************************************)
EXTENDS Disk, Naturals, FiniteSets

CONSTANTS
    RecName,    \* names of files in the recordings directory
    FaultName,  \* those a dump may get: one for every second
    RingSize,   \* frames the ring keeps
    FlushAt,    \* frames that fill the file object's buffer
    MaxFrames,  \* bound: frames in a recording
    Torn        \* what two writers leave in one file: anything

VARIABLES
    ring,       \* how many frames the ring holds
    recording,  \* FlightRecorder._recording, and with it _sink, or None
    counted,    \* _frames_recorded
    buffered,   \* how many of them are not in the file yet
    hold,       \* what the open file is: this writer's alone ("whole"), another's
                \* too ("shared"), or without a name since it was deleted ("gone")
    rows,       \* the directory: name -> the frames in the file, Torn, or None
    dumping,    \* the dump under way: its name, its frames and its file, or None
    told,       \* history: name -> the frames its finish, or its dump, has told of
    spoilt      \* history: names whose file two had open, or a full disk cut short

recVars == <<ring, recording, counted, buffered, hold, rows, dumping, told, spoilt>>

Content == Nat \cup {None, Torn}

RecTypeOK ==
    /\ ring \in 0..RingSize
    /\ recording \in RecName \cup {None}
    /\ counted \in 0..MaxFrames /\ buffered \in 0..FlushAt
    /\ hold \in {"whole", "shared", "gone"}
    /\ rows \in [RecName -> Content]
    /\ dumping \in [name : FaultName, frames : 1..RingSize,
                    file : {"closed", "whole", "shared", "gone"}] \cup {None}
    /\ told \in [RecName -> Nat \cup {None}] /\ spoilt \subseteq RecName

RecInit ==
    /\ ring = 0 /\ recording = None /\ counted = 0 /\ buffered = 0 /\ hold = "whole"
    /\ rows = [n \in RecName |-> None]
    /\ dumping = None
    /\ told = rows /\ spoilt = {}

Closed == recording' = None /\ counted' = 0 /\ buffered' = 0 /\ hold' = "whole"

\* The file with the name n is the one that the recording, or the dump, has open.
Recorded(n) == recording = n /\ hold # "gone"
DumpedTo(n) == dumping # None /\ dumping.name = n /\ dumping.file \in {"whole", "shared"}

\* What a flush leaves in the directory.
Flushed(frames) ==
    [rows EXCEPT ![recording] =
        CASE hold = "whole" -> @ + frames [] hold = "shared" -> Torn [] hold = "gone" -> @]

\* open("w") empties the file of that name where it is: one that another writer
\* has open stays open, and both go on writing into it, each from its own place.
Emptied(n, shared) ==
    /\ rows' = [rows EXCEPT ![n] = 0] /\ told' = [told EXCEPT ![n] = None]
    /\ spoilt' = IF shared THEN spoilt \cup {n} ELSE spoilt \ {n}

\* feed(), ten times a second. A write that fails ends the recording.
Feed ==
    /\ recording # None => counted < MaxFrames
    /\ ring' = IF ring = RingSize THEN ring ELSE ring + 1
    /\ \/ /\ recording = None
          /\ UNCHANGED <<recording, counted, buffered, hold, rows>>
       \/ /\ recording # None /\ buffered + 1 < FlushAt
          /\ counted' = counted + 1 /\ buffered' = buffered + 1
          /\ UNCHANGED <<recording, hold, rows>>
       \/ /\ recording # None /\ buffered + 1 >= FlushAt /\ ~full
          /\ counted' = counted + 1 /\ buffered' = 0
          /\ rows' = Flushed(buffered + 1)
          /\ UNCHANGED <<recording, hold>>
       \/ /\ recording # None /\ buffered + 1 >= FlushAt /\ full
          /\ Closed /\ rows' = rows
    /\ UNCHANGED <<dumping, told, spoilt>>

\* start(): a file of that name is emptied, whatever it holds and whoever writes it.
StartRec(n) ==
    /\ recording = None
    /\ full => rows[n] # None
    /\ Emptied(n, DumpedTo(n))
    /\ recording' = n /\ counted' = 0 /\ buffered' = 0
    /\ IF DumpedTo(n)
       THEN hold' = "shared" /\ dumping' = [dumping EXCEPT !.file = "shared"]
       ELSE hold' = "whole" /\ dumping' = dumping
    /\ ring' = ring

\* What stop() tells of a file that is still there, and whether the close that
\* flushes the rest failed unseen.
Finish ==
    IF hold = "gone"
    THEN UNCHANGED <<told, spoilt>>
    ELSE /\ told' = [told EXCEPT ![recording] = counted]
         /\ spoilt' = IF full /\ buffered > 0 THEN spoilt \cup {recording} ELSE spoilt

\* Mutant: the file is dropped without being closed.
StopUnflushed == recording # None /\ Closed /\ rows' = rows /\ Finish /\ UNCHANGED <<ring, dumping>>

\* stop(): closing flushes the rest; that this fails is not told.
StopRec ==
    /\ recording # None
    /\ Closed /\ rows' = IF full THEN rows ELSE Flushed(buffered)
    /\ Finish
    /\ UNCHANGED <<ring, dumping>>

\* delete(), also of the file that is being recorded, or dumped to.
DeleteRec(n) ==
    /\ rows[n] # None
    /\ rows' = [rows EXCEPT ![n] = None] /\ told' = [told EXCEPT ![n] = None]
    /\ spoilt' = spoilt \ {n}
    /\ hold' = IF recording = n THEN "gone" ELSE hold
    /\ dumping' = IF DumpedTo(n) THEN [dumping EXCEPT !.file = "gone"] ELSE dumping
    /\ UNCHANGED <<ring, recording, counted, buffered>>

\* dump(), on the fault poller's thread: the ring is copied under the lock, ...
DumpCopy(n) ==
    /\ dumping = None /\ ring > 0
    /\ dumping' = [name |-> n, frames |-> ring, file |-> "closed"]
    /\ UNCHANGED <<ring, recording, counted, buffered, hold, rows, told, spoilt>>

\* ... and from here on without it: the file of that second is opened, be it
\* another dump's or the one that is being recorded, ...
DumpOpen ==
    /\ dumping # None /\ dumping.file = "closed"
    /\ LET n == dumping.name IN
         \/ /\ full => rows[n] # None
            /\ Emptied(n, Recorded(n))
            /\ hold' = IF Recorded(n) THEN "shared" ELSE hold
            /\ dumping' = [dumping EXCEPT !.file = IF Recorded(n) THEN "shared" ELSE "whole"]
         \/ /\ full /\ rows[n] = None
            /\ dumping' = None /\ UNCHANGED <<hold, rows, told, spoilt>>
    /\ UNCHANGED <<ring, recording, counted, buffered>>

\* ... and written, unless the disk is full: then a part of it is there, and
\* nothing is told.
DumpWrite ==
    /\ dumping # None
    /\ LET n == dumping.name IN
         \/ dumping.file = "gone" /\ UNCHANGED <<rows, told>>
         \/ /\ dumping.file = "shared"
            /\ rows' = [rows EXCEPT ![n] = Torn]
            /\ \/ ~full /\ told' = [told EXCEPT ![n] = dumping.frames]
               \/ full /\ told' = told
         \/ /\ dumping.file = "whole" /\ ~full
            /\ rows' = [rows EXCEPT ![n] = dumping.frames]
            /\ told' = [told EXCEPT ![n] = dumping.frames]
         \/ /\ dumping.file = "whole" /\ full
            /\ \E some \in 0..(dumping.frames - 1) : rows' = [rows EXCEPT ![n] = some]
            /\ told' = told
    /\ dumping' = None
    /\ UNCHANGED <<ring, recording, counted, buffered, hold, spoilt>>

RecRestart ==
    /\ Closed /\ ring' = 0 /\ dumping' = None
    /\ UNCHANGED <<rows, told, spoilt>>

RecRequest == StopRec \/ \E n \in RecName : StartRec(n) \/ DeleteRec(n)
RecThread == Feed \/ DumpOpen \/ DumpWrite \/ \E n \in FaultName : DumpCopy(n)

\* The frames that a finished recording or a dump has told of are in its file,
\* until it is deleted, recorded over or dumped over. Two things belie them, and
\* neither is told: a disk that is full at the close, and a file that a recording
\* and a dump have open together, on whose content nothing can be said
\* (recorder.py feed, start, stop, dump).
ToldIsRecorded == \A n \in RecName : told[n] # None /\ n \notin spoilt => rows[n] = told[n]

=============================================================================
