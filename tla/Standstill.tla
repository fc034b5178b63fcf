----------------------------- MODULE Standstill -----------------------------
(***************************************************************************)
(* How the stop route confirms that the arm stands still (src/fws/app.py   *)
(* _confirm_standstill): it looks at the last joints of the telemetry      *)
(* stream once a tick. The snapshot (src/fws/telemetry.py) keeps the last  *)
(* frame there was, when no more come and when the connection is gone. A   *)
(* tick is 50 ms; a position is in steps of the tolerance.                 *)
(***************************************************************************)
EXTENDS Integers, SequencesExt, FiniteSetsExt

Window == 7          \* bound: how long it looks; 1 s in the code
Consecutive == 3
Ticks == 0..Window

NoFrame == -1

\* What snapshot() has at each tick: the arm as the last frame saw it. Frames come at the ticks of
\* frames, if any.
LastFrames(arm, frames) ==
    [t \in Ticks |-> LET seen == {f \in frames : f <= t} IN IF seen = {} THEN NoFrame ELSE arm[Max(seen)]]

\* A step of less than the tolerance.
Near(a, b) == a = b

\* _confirm_standstill(): "true" at the third look in a row that saw nothing move.
ConfirmStandstill(snapshot) ==
    LET Look(r, t) ==
            IF r.verdict # "looking" THEN r
            ELSE IF snapshot[t] = NoFrame THEN [r EXCEPT !.verdict = "unknown"]
            ELSE LET still == IF Near(snapshot[t], snapshot[t - 1]) THEN r.still + 1 ELSE 0
                 IN  [r EXCEPT !.still = still, !.at = t,
                               !.verdict = IF still >= Consecutive THEN "still" ELSE "looking"]
        end == FoldLeft(Look, [verdict |-> "looking", still |-> 0, at |-> 0], [t \in 1..Window |-> t])
    IN  IF snapshot[0] = NoFrame THEN [verdict |-> "unknown", at |-> 0]
        ELSE [verdict |-> IF end.verdict = "looking" THEN "moving" ELSE end.verdict, at |-> end.at]

-----------------------------------------------------------------------------

\* The arm moves until it is stopped, and stays.
Arms == {[t \in Ticks |-> IF t < stop THEN t ELSE stop] : stop \in Ticks \cup {Window + 1}}

\* Frames come at ten a second: two ticks, or three, between one and the next.
Streams10Hz == {F \in SUBSET Ticks : 0 \in F /\ \A t \in 0..Window - 2 : F \cap t..t + 2 # {}}

\* As long as the stream flows, an arm that is confirmed to stand still does not move any more at the
\* last frame; and one that has stood for long enough is confirmed.
ASSUME ConfirmedArmStands ==
    \A arm \in Arms, frames \in Streams10Hz :
        LET c == ConfirmStandstill(LastFrames(arm, frames)) IN
        /\ c.verdict = "still" => \E f \in frames : f <= c.at /\ arm[f] = arm[Window] /\ f >= c.at - 3
        /\ arm[Window - 5] = arm[Window] => c.verdict = "still"

\* A stream that has stopped confirms every arm, moving or not: what docs/control-and-safety.md calls
\* "no telemetry to judge by" is only the stream that has not had a first frame.
ASSUME DeadStreamConfirms ==
    \A arm \in Arms :
        /\ ConfirmStandstill(LastFrames(arm, {0})).verdict = "still"
        /\ ConfirmStandstill(LastFrames(arm, {})).verdict = "unknown"

=============================================================================
