-------------------------------- MODULE Lint --------------------------------
(***************************************************************************)
(* The linter for controller Lua (src/fws/lua_lint.py): which lines it     *)
(* flags, and how it counts the arguments of a call, against a lexer of    *)
(* Lua. A line is a sequence of tokens: the two quotes, the mark of a      *)
(* comment, the guard of PrintMsg, the words its rules know, and others.   *)
(***************************************************************************)
EXTENDS Integers, SequencesExt

\* The words it flags, and how seriously; PrintMsg has a rule of its own.
BannedPatterns ==
    [w \in {"GetSysVarvalue", "%", "#", "os.", "require(", "goto", "string.", "error("} |->
        IF w \in {"string.", "error("} THEN "warning" ELSE "error"]

Count(line, w, n) == Cardinality({i \in 1..n : line[i] = w})

\* re.sub() over one kind of quote: what is between the first and the second of them, the third and
\* the fourth, and so on.
Inside(line, quote, i) ==
    line[i] # quote /\ Count(line, quote, i) % 2 = 1 /\ Count(line, quote, Len(line)) > Count(line, quote, i)
Blank(line, quote) == [i \in DOMAIN line |-> IF Inside(line, quote, i) THEN "x" ELSE line[i]]

\* _strip_strings_and_comments(): double quotes first, then single ones, then the comment.
Stripped(line) ==
    LET blanked == Blank(Blank(line, "dq"), "sq")
        n == IF "--" \in ToSet(blanked) THEN SelectInSeq(blanked, LAMBDA w : w = "--") - 1 ELSE Len(line)
    IN  SubSeq(blanked, 1, n)

\* _strip_comments_keeping_lines(): the comment goes, the strings stay.
WithoutComment(line) == SubSeq(line, 1, Len(Stripped(line)))

\* _call_arity(), from the bracket that opens the call: commas at its level, if anything is seen.
CallArity(text) ==
    LET Take(s, ch) ==
            IF s.done THEN s
            ELSE CASE ch \in {"(", "{"} -> [s EXCEPT !.depth = @ + 1]
                   [] ch \in {")", "}"} -> [s EXCEPT !.depth = @ - 1, !.done = s.depth = 1]
                   [] ch = "," -> IF s.depth = 1 THEN [s EXCEPT !.args = @ + 1] ELSE [s EXCEPT !.seen = TRUE]
                   [] OTHER -> [s EXCEPT !.seen = TRUE]
        end == FoldLeft(Take, [depth |-> 0, args |-> 1, seen |-> FALSE, done |-> FALSE], text)
    IN  IF ~end.done THEN -1 ELSE IF end.seen THEN end.args ELSE 0

\* lint_text(), its line rules and its table of functions. A call is to a name of the table, to one
\* the program declares, or to neither; only names with a capital are looked at.
LintLines(lines) ==
    UNION {{<<n, w, BannedPatterns[w]>> : w \in ToSet(Stripped(lines[n])) \cap DOMAIN BannedPatterns}
              : n \in DOMAIN lines}
    \cup {<<n, "PrintMsg", "error">> : n \in {m \in DOMAIN lines :
              /\ ToSet(Stripped(lines[m])) \cap {"PrintMsg", "guard"} # {}
              /\ "guard" \notin ToSet(lines[m])}}

Declares(lines) == {n \in {"Mine"} : \E i \in DOMAIN lines : "function Mine" \in ToSet(WithoutComment(lines[i]))}
UnknownCalls(lines) ==
    UNION {{<<n, w, "warning">> : w \in (ToSet(WithoutComment(lines[n])) \cap {"Strange", "Mine"}) \ Declares(lines)}
              : n \in DOMAIN lines}

Fatal(findings) == {f \in findings : f[3] = "error"}

-----------------------------------------------------------------------------
(* A lexer: in code, in a string of either quote, or in a comment.         *)

Lexed(line) ==
    LET Next(s, w) ==
            CASE s = "code" /\ w \in {"dq", "sq"} -> w
              [] s = "code" /\ w = "--" -> "comment"
              [] s \in {"dq", "sq"} /\ w = s -> "code"
              [] OTHER -> s
        state[i \in 0..Len(line)] == IF i = 0 THEN "code" ELSE Next(state[i - 1], line[i])
    IN  state

InCode(line) == {line[i] : i \in {j \in DOMAIN line : Lexed(line)[j - 1] = "code"}}

Words == {"dq", "sq", "--", "guard", "PrintMsg", "%", "string."}
Lines == UNION {[1..n -> Words] : n \in 0..5}

\* Every string is closed, and holds no quote of the other kind.
PlainStrings(line) ==
    /\ Lexed(line)[Len(line)] \in {"code", "comment"}
    /\ \A i \in DOMAIN line : Lexed(line)[i - 1] \in {"dq", "sq"} => line[i] \notin {"dq", "sq"} \ {Lexed(line)[i - 1]}

\* What the linter flags is in the code, and what is in the code it flags, for lines with plain
\* strings. Where one kind of quote is inside the other, two strings with code between them can be
\* one string to it, and the code is not looked at. A guard counts wherever it stands in the line.
ASSUME CodeIsLinted ==
    \A line \in Lines : PlainStrings(line) =>
        {f[2] : f \in LintLines(<<line>>)}
            = (InCode(line) \cap {"%", "string."})
              \cup IF "PrintMsg" \in InCode(line) /\ "guard" \notin ToSet(line) THEN {"PrintMsg"} ELSE {}

ASSUME MixedQuotesHideCode ==
    LET line == <<"sq", "dq", "sq", "%", "sq", "dq", "sq">> IN "%" \in InCode(line) /\ LintLines(<<line>>) = {}

\* A call of an unknown function is told of wherever it stands in the code, unless the program
\* declares the name, on whatever line; one in a comment is not, one in a string is.
ASSUME UnknownCallsAreTold ==
    \A line \in UNION {[1..n -> {"Strange", "Mine", "--", "dq", "sq"}] : n \in 0..4},
       other \in {<<>>, <<"function Mine">>, <<"--", "function Mine">>} :
        PlainStrings(line) =>
            LET told == {f[2] : f \in UnknownCalls(<<line, other>>)}
                own == IF other = <<"function Mine">> THEN {"Mine"} ELSE {}
            IN  /\ (InCode(line) \cap {"Strange", "Mine"}) \ own \subseteq told
                /\ told \subseteq {line[i] : i \in {j \in DOMAIN line : Lexed(line)[j - 1] # "comment"}} \ own

Argument == {<<"x">>, <<"{", "}">>, <<"x", "(", "x", ",", "x", ")">>, <<"{", "x", ",", "{", "}", "}">>}
Call(args) == <<"(">> \o FlattenSeq([i \in DOMAIN args |-> (IF i = 1 THEN <<>> ELSE <<",">>) \o args[i]]) \o <<")", ",", "x">>

\* The arguments of a call are counted as written, whatever is nested in them, as long as
\* not all of them are empty tables.
ASSUME ArgumentsAreCounted ==
    \A args \in SeqOf(Argument, 4) :
        CallArity(Call(args)) = IF ToSet(args) \subseteq {<<"{", "}">>} THEN 0 ELSE Len(args)

=============================================================================
