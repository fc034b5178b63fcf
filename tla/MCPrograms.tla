---------------------------- MODULE MCPrograms ----------------------------
(* Programs for TLC: one request of each kind for each name, and uploads   *)
(* of each content; two requests side by side or one after the other. The *)
(* path check and the readers of the transfer port have their assumptions  *)
(* evaluated with it.                                                      *)
EXTENDS Programs, PathCheck, Framing, Lint, Verdicts, Listing, TLC

CONSTANTS pick, place, points, good, bad

Plain(op, n) == [op |-> op, name |-> n, body |-> None, match |-> None, flags |-> {}]
Carrying(op, n, c) == [Plain(op, n) EXCEPT !.body = c]

MCAsked ==
    {Plain(op, pick) : op \in {"getFile", "delete", "load"}}
    \cup {Plain("getProgram", points), Plain("switch", points)}
    \cup {[Plain("run", None) EXCEPT !.flags = f] : f \in {{}, {"skip"}}}
    \cup {[Plain("select", pick) EXCEPT !.flags = {"start"}]}
    \cup {[Carrying("putProgram", pick, c) EXCEPT !.flags = f]
            : c \in Content, f \in {{}, {"overwrite"}}}
    \cup {[Carrying("putFile", pick, c) EXCEPT !.match = good, !.flags = {"verify"}] : c \in Content}
    \cup {Carrying("restore", points, good)}
    \cup {Plain("load", place), Plain("getProgram", place), [Carrying("putProgram", place, bad) EXCEPT !.flags = {"overwrite"}]}

SomeHandlers == Permutations(Handler)
=============================================================================
