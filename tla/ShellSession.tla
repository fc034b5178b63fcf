---------------------------- MODULE ShellSession ----------------------------
(***************************************************************************)
(* Logging in to the controller's telnet server and running one command    *)
(* there (src/fws/services/shell.py ShellClient). What the server sends is *)
(* a sequence of tokens: its prompts, the texts that hold the command and  *)
(* the marker, ends of lines, and others. It comes in pieces of any size,  *)
(* so what has arrived when the client looks is any prefix of it. Framing  *)
(* has the telnet protocol itself.                                         *)
(***************************************************************************)
EXTENDS Integers, SequencesExt

\* A server (testing/fake_shell.py is one): what it sends before it asks for a login, if it does;
\* whether there is a password, and the client's is right; what it says before its first prompt; what
\* the command prints, a list of lines, the last one ended or not; and when it echoes a line it gets:
\* as its shell reads it, or as it arrives.
Servers ==
    [banner : {<<>>, <<"x", "nl">>, <<"#", "nl">>}, asks : BOOLEAN, secret : BOOLEAN, right : BOOLEAN,
     motd : {<<>>, <<"x", "nl">>, <<"#", "nl">>}, output : SeqOf({<<"x">>, <<"#">>, <<"x", "#">>}, 2),
     ended : BOOLEAN, echo : {"read", "arrived"}]

Greeting(s) == s.banner \o IF s.asks THEN <<"login:">> ELSE <<"#">>
AfterUser(s) == IF s.secret THEN <<"password:">> ELSE s.motd \o <<"#">>
AfterPassword(s) == IF s.right THEN s.motd \o <<"#">> ELSE <<"nl", "login:">>
Ran(s) ==
    LET printed == FlattenSeq([i \in DOMAIN s.output |->
                        s.output[i] \o IF i = Len(s.output) /\ ~s.ended THEN <<>> ELSE <<"nl">>])
    IN  IF s.echo = "read" THEN <<"cmd", "nl">> \o printed \o <<"#", "mark", "nl", "mark", "nl", "#">>
        ELSE <<"cmd", "nl", "mark", "nl">> \o printed \o <<"#", "mark", "nl", "#">>

\* _read_until(): where it may end. Of the needles in what has arrived, the first one in the order
\* they are given is taken, wherever it stands.
ReadUntil(stream, at, needles) ==
    LET In(p, n) == {i \in at + 1..p : stream[i] = n}
        Taken(p) == SelectInSeq(needles, LAMBDA n : In(p, n) # {})
        looks == {p \in at + 1..Len(stream) : Taken(p) # 0}
    IN  {Min(In(p, needles[Taken(p)])) : p \in looks}

\* login(): how it may end, and what has been read by then of what was sent.
Login(s) ==
    LET Ends(how, stream, at) == [how |-> how, stream |-> stream, at |-> at]
        greeting == Greeting(s)
        asked == greeting \o AfterUser(s)
        told == asked \o AfterPassword(s)
        Password(e) == {Ends(IF "login:" \in ToSet(SubSeq(told, e + 1, f)) THEN "rejected" ELSE "in", told, f)
                            : f \in ReadUntil(told, e, <<"#", "login:">>)}
        User(e) == UNION {IF asked[f] = "password:" THEN Password(f) ELSE {Ends("in", asked, f)}
                            : f \in ReadUntil(asked, e, <<"password:", "#">>)}
    IN  UNION {IF greeting[e] = "login:" THEN User(e) ELSE {Ends("in", greeting, e)}
                : e \in ReadUntil(greeting, 0, <<"login:", "#">>)}

LinesOf(tokens) ==
    LET Take(r, w) == IF w = "nl" THEN Append(r, <<>>) ELSE [r EXCEPT ![Len(r)] = Append(@, w)]
    IN  FoldLeft(Take, <<<<>>>>, tokens)

\* run(): what it may take for the command's output. What had arrived by then is thrown away.
Run(s, l) ==
    LET stream == l.stream \o Ran(s)
        Output(raw) ==
            LET lines == LinesOf(raw)
                after == IF "cmd" \in ToSet(lines[1]) THEN Tail(lines) ELSE lines
                marked == SelectInSeq(after, LAMBDA line : "mark" \in ToSet(line))
                before == SubSeq(after, 1, marked - 1)
            IN  SubSeq(before, 1, SelectLastInSeq(before, LAMBDA line : line # <<"#">>))
    IN  UNION {{Output(SubSeq(stream, a + 1, e)) : e \in ReadUntil(stream, a, <<"mark">>)}
                : a \in l.at..Len(l.stream)}

-----------------------------------------------------------------------------

\* A prompt sign stands for a prompt only.
Sober(s) == "#" \notin ToSet(s.banner) \cup ToSet(s.motd)

\* As long as nothing but a prompt looks like one before the first of them, the login is taken for
\* what it is, however what the server sends is cut up.
ASSUME LoginIsTold ==
    \A s \in Servers : Sober(s) =>
        \A l \in Login(s) : l.how = (IF s.asks /\ s.secret /\ ~s.right THEN "rejected" ELSE "in")
                            /\ l.at = Len(l.stream)

\* And then the output is the command's, prompt signs in it and all, if its last line is ended and
\* no bare prompt sign, and the shell echoes a line when it reads it.
ASSUME OutputIsTheCommands ==
    \A s \in Servers : Sober(s) /\ s.echo = "read" /\ s.ended /\ (s.output # <<>> => Last(s.output) # <<"#">>) =>
        \A l \in Login(s) : l.how = "in" => Run(s, l) = {s.output}

\* A terminal that echoes what arrives has echoed the marker before the command has printed
\* anything: the output is lost. So is a last line that is not ended.
ASSUME EchoHidesOutput ==
    \A s \in Servers : Sober(s) => \A l \in Login(s) : l.how = "in" =>
        /\ s.echo = "arrived" => Run(s, l) = {<<>>}
        /\ s.echo = "read" /\ ~s.ended /\ s.output = <<<<"x">>>> => Run(s, l) = {<<>>}

\* A banner with a prompt sign in it may be taken for a shell that wants no login.
ASSUME BannerMisleads ==
    \E s \in Servers : s.asks /\ \E l \in Login(s) : l.how = "in" /\ l.stream = Greeting(s)

=============================================================================
