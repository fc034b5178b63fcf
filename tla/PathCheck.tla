----------------------------- MODULE PathCheck -----------------------------
(***************************************************************************)
(* The path check of a Lua program before it runs (src/fws/pathcheck.py,   *)
(* called by programs_api.py run and validate): the motion calls in its    *)
(* text, the verdict on each, and the report. A program is the sequence of *)
(* its calls, in the order of the text.                                    *)
(***************************************************************************)
EXTENDS Naturals, SequencesExt

\* COORDINATE_FORMS, UNRESOLVABLE, and names in neither, of which some move the arm all the same.
CoordinateForms == {"MoveL"}
Unresolvable == {"Lin"}
Elsewhere == {"NewSplinePoint", "SetDO"}

\* args: what stands where the pose is expected; in: where the call itself stands.
LuaCall == [name : CoordinateForms \cup Unresolvable \cup Elsewhere,
            args : {"reachable", "out of reach", "computed", "too few"},
            in : {"text", "comment", "behind a string's dashes", "a call"},
            closed : BOOLEAN]

\* _strip_comments(): from two dashes on a line is blank, also from those in a string.
Visible(c) == c.in \notin {"comment", "behind a string's dashes"}

\* parse(): rest is where it goes on: behind the name of a call it does not know, behind the
\* whole of one it knows, and nowhere behind one that is not closed.
ParseCall(p, c) ==
    LET inside == c.in = "a call" /\ p.rest = "behind the call" IN
    IF ~Visible(c) \/ p.rest = "end" \/ inside THEN p
    ELSE IF c.name \in Elsewhere THEN [p EXCEPT !.rest = "behind the name"]
    ELSE IF ~c.closed THEN [p EXCEPT !.unresolved = Append(@, c), !.rest = "end"]
    ELSE IF c.name \in Unresolvable \/ c.args \in {"too few", "computed"}
         THEN [p EXCEPT !.unresolved = Append(@, c), !.rest = "behind the call"]
    ELSE [p EXCEPT !.targets = Append(@, c), !.rest = "behind the call"]

ParseProgram(text) ==
    FoldLeft(ParseCall, [targets |-> <<>>, unresolved |-> <<>>, rest |-> "behind the name"], text)

\* validate(): the first maxChecks targets are asked of the controller.
PathReport(text, maxChecks) ==
    LET p == ParseProgram(text)
        checked == SubSeq(p.targets, 1, IF Len(p.targets) > maxChecks THEN maxChecks ELSE Len(p.targets))
        failed == SelectSeq(checked, LAMBDA c : c.args = "out of reach")
        truncated == Len(p.targets) - Len(checked)
        complete == p.unresolved = <<>> /\ truncated = 0
    IN  [found |-> Len(checked) + Len(p.unresolved), checked |-> Len(checked),
         unchecked |-> Len(p.unresolved) + truncated, failed |-> Len(failed),
         complete |-> complete, safe |-> failed = <<>> /\ complete]

-----------------------------------------------------------------------------

\* A call that the report must tell of, by the lists: not one in a comment, nor one in the
\* arguments of another motion call, nor one that the dashes of a string hide.
ToldOf(text, i) ==
    /\ text[i].name \notin Elsewhere /\ Visible(text[i])
    /\ text[i].in = "a call" => i > 1 /\ text[i - 1].name \in Elsewhere /\ Visible(text[i - 1])

\* A program that is called safe has no motion call but what was solved and reachable; one that
\* is cut off, too long or not understood is never called so. The lists are what makes it true: a
\* spline is in neither, and passes unseen.
ASSUME SafeIsSolved ==
    \A n \in 0..2 : \A text \in [1..n -> LuaCall] : \A maxChecks \in 0..2 :
        LET report == PathReport(text, maxChecks) IN
        /\ report.safe => \A i \in DOMAIN text : ToldOf(text, i) =>
              text[i].name \in CoordinateForms /\ text[i].args = "reachable" /\ text[i].closed
        /\ report.safe => report.unchecked = 0 /\ report.failed = 0
        /\ (\E i \in DOMAIN text : ToldOf(text, i)) => report.checked + report.unchecked > 0

=============================================================================
