------------------------------ MODULE Verdicts ------------------------------
(***************************************************************************)
(* Finding the compiler's verdict on an upload in the controller's log     *)
(* (src/fws/lua_verdict.py). The archive holds several log files whose     *)
(* order cannot be told, since the controller's clock runs backwards over  *)
(* a restart; so the verdict is sought by content: the last record of a    *)
(* file that names the program, or what all records that name it say.      *)
(* Archives models how the archive is fetched and shared.                  *)
(***************************************************************************)
EXTENDS Integers, SequencesExt

NoVerdict == [outcome |-> "none"]

\* What the compiler logs: success names no program; the rest, if it is well formed, names one, with
\* its directory or without, and says what is wrong.
Payload ==
    {[form |-> "success"], [form |-> "garbled"]}
    \cup [form : {"fields"}, dir : BOOLEAN, base : {"x", "my x"},
          info : SUBSET {"nil call", "bad arity", "no such data"}]

\* parse(): the first of the patterns that fits.
Parse(p) ==
    CASE p.form = "success" -> [outcome |-> "success", names |-> {}, raw |-> p]
      [] p.form = "garbled" -> [outcome |-> "rejected", names |-> {}, raw |-> p]
      [] OTHER ->
           [outcome |-> IF "nil call" \in p.info THEN "unknown_function"
                        ELSE IF "bad arity" \in p.info THEN "wrong_argument_count"
                        ELSE IF "no such data" \in p.info THEN "needs_a_taught_point"
                        ELSE "rejected",
            names |-> {p.base}, raw |-> p]     \* _basename(): without the directory

\* read_log_archive(): files too large are passed over, and from where the whole is too large on.
MaxMember == 2
MaxTotal == 4
ReadLogArchive(members) ==
    LET Take(r, m) ==
            IF r.over \/ m.size > MaxMember THEN r
            ELSE IF r.total + m.size > MaxTotal THEN [r EXCEPT !.over = TRUE]
            ELSE [r EXCEPT !.total = @ + m.size,
                           !.files = IF m.records = <<>> THEN @ ELSE Append(@, m.records)]
    IN  FoldLeft(Take, [files |-> <<>>, total |-> 0, over |-> FALSE], members).files

\* find_verdict(). Verdicts agree when they are the same to the letter.
FindVerdict(files, name) ==
    LET Named(S) == {v \in S : name \in v.names}
        Last1(i) == Parse(Last(files[i]))
        ours == {i \in DOMAIN files : name \in Last1(i).names}
        tails == {Last1(i) : i \in ours}
        matching == Named(UNION {{Parse(p) : p \in ToSet(files[i])} : i \in DOMAIN files})
        Only(S) == CHOOSE v \in S : TRUE
    IN  IF Cardinality(tails) = 1 THEN Only(tails)
        ELSE IF Cardinality(matching) = 1 THEN Only(matching)
        ELSE NoVerdict

-----------------------------------------------------------------------------

Says(base, dir, info) == [form |-> "fields", dir |-> dir, base |-> base, info |-> {info}]
Samples == {Says("x", FALSE, "nil call"), Says("x", TRUE, "nil call"), Says("x", FALSE, "bad arity"),
            Says("my x", FALSE, "nil call"), [form |-> "success"], [form |-> "garbled"]}

\* The compiler's answers in their order, in an older and a newer file, as an archive has them.
Archives2(history, n) ==
    LET older == SubSeq(history, 1, n) newer == SubSeq(history, n + 1, Len(history))
        M(r) == [size |-> 1, records |-> r]
    IN  {<<M(older), M(newer)>>, <<M(newer), M(older)>>}

Histories == UNION {[1..n -> Samples] : n \in 1..4}

\* A verdict that is given is one on this program and no other; and as long as the answer to the
\* upload is the last thing in the log, it is that answer, whichever files the archive has and in
\* whatever order. An answer to another upload behind it is enough to make an older one of this
\* program, at the end of an older file, pass for it: rule 1 does not see that it is old.
ASSUME VerdictIsOnTheUpload ==
    \A history \in Histories, n \in 0..3 :
        n < Len(history) => \A archive \in Archives2(history, n) :
            LET v == FindVerdict(ReadLogArchive(archive), "x") IN
            /\ v # NoVerdict => v.names = {"x"} /\ v.raw \in ToSet(history)
            /\ Parse(Last(history)).names = {"x"} => v \in {NoVerdict, Parse(Last(history))}

\* It is given whenever there is no other candidate.
ASSUME OnlyVerdictIsGiven ==
    \A history \in Histories :
        LET on == {Parse(p) : p \in ToSet(history)} IN
        (\A v \in on : v.names \subseteq {"x"}) /\ Cardinality({v \in on : "x" \in v.names}) = 1
            => \A archive \in Archives2(history, 1) :
                  "x" \in FindVerdict(ReadLogArchive(archive), "x").names

\* A file too large, or too far back, is not read, and what is in it cannot be said.
ASSUME LargeFilesAreNotRead ==
    \A s1, s2, s3 \in 0..3 :
        LET M(size) == [size |-> size, records |-> <<[form |-> "garbled"]>>]
            read == ReadLogArchive(<<M(s1), M(s2), M(s3)>>)
        IN  Len(read) = 3 <=> s1 + s2 + s3 <= MaxTotal /\ \A s \in {s1, s2, s3} : s <= MaxMember

=============================================================================
