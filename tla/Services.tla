------------------------------ MODULE Services ------------------------------
(***************************************************************************)
(* The clients of the controller's FTP server, qconn agent and Lua         *)
(* validator (src/fws/services/), for every way their far ends fail them:  *)
(* what a call comes to, and as which status it is answered                *)
(* (src/fws/services_api.py). ShellSession has the telnet client.          *)
(***************************************************************************)
EXTENDS Integers, SequencesExt

-----------------------------------------------------------------------------
(* FTP. A step of a session succeeds, or ends in an exception of ftplib, of*)
(* the socket, or in one that is neither.                                  *)

Steps == <<"connect", "login", "operation", "quit">>
Exceptions == {"perm", "temp", "OSError", "EOFError", "ValueError"}
AllErrors == Exceptions \ {"ValueError"}     \* ftplib.all_errors

\* connect(), and one list(), download(), upload() or delete(): what the step's exception becomes.
Raised(step, e) ==
    CASE e \notin AllErrors -> e
      [] step = "connect" -> "ServiceUnavailable"
      [] step = "login" /\ e = "perm" -> "ServiceAuthError"
      [] OTHER -> "ServiceError"

\* A session in a with block: a step that fails is the last. close() comes after an operation, and
\* says nothing of its own failures.
Session(fails) ==
    LET first == SelectInSeq(<<"connect", "login", "operation">>, LAMBDA s : fails[s] # "none") IN
    IF first = 0 THEN [result |-> "ok", ran |-> Steps]
    ELSE [result |-> Raised(Steps[first], fails[Steps[first]]),
          ran |-> SubSeq(Steps, 1, first) \o IF first = 3 THEN <<"quit">> ELSE <<>>]

\* _http_from_service_error(); an exception that is no ServiceError is a 500.
Http(result) ==
    CASE result = "ok" -> 200
      [] result = "ServiceUnavailable" -> 503
      [] result = "ServiceTimeout" -> 504
      [] result \in {"ServiceAuthError", "ServiceError"} -> 502
      [] OTHER -> 500

\* A line of a listing: the sum at its head, an empty line, an entry as ls -l writes it, one of the
\* two entries every directory has, or a line of another form.
Line == {"total", "blank", "dir", "file", "link", "dots", "odd"}

\* list(): an error if there were lines and nothing could be made of any of them.
List(lines) ==
    LET entries == SelectSeq(lines, LAMBDA l : l \in {"dir", "file", "link"})
        data == SelectSeq(lines, LAMBDA l : l \notin {"total", "blank"})
    IN  IF data # <<>> /\ entries = <<>> THEN <<"error">> ELSE entries

-----------------------------------------------------------------------------
(* qconn, and the port of the validator.                                   *)

\* _read_line(): what has come when a line has ended, or the connection has; the rest of a piece
\* that holds the end of the line comes with it. No end, and the connection stays open: a timeout.
ReadLine(pieces, closes) ==
    LET ends == SelectInSeq(pieces, LAMBDA p : "nl" \in ToSet(p))
        all == FlattenSeq(pieces)
    IN  IF ends # 0 THEN FlattenSeq(SubSeq(pieces, 1, ends))
        ELSE IF ~closes THEN <<"ServiceTimeout">>
        ELSE IF all = <<>> THEN <<"ServiceUnavailable">> ELSE all

\* liveness(): connect() reads the banner. Its two halves may come apart.
Liveness(pieces, closes) ==
    LET line == ReadLine(pieces, closes) IN
    IF line \in {<<"ServiceTimeout">>, <<"ServiceUnavailable">>} THEN line[1]
    ELSE IF \E i \in 1..Len(line) - 1 : line[i] = "QC" /\ line[i + 1] = "ONN" THEN "ok"
    ELSE "ServiceError"

\* probe_health(): the port takes one client, so that a refused connection is the good sign.
ProbeHealth(port) ==
    CASE port = "refuses" -> "healthy" [] port = "accepts" -> "impaired" [] OTHER -> "unknown"

-----------------------------------------------------------------------------

Failures == [{"connect", "login", "operation", "quit"} -> Exceptions \cup {"none"}]

\* 200 is answered only when the operation went through, whatever became of the goodbye; a rejected
\* login is told apart from every other failure; and every failure is of the services' family, but
\* for one that ftplib does not count as its own: a path with a line break in it ends in a 500.
ASSUME SessionsTellTheirFailure ==
    \A fails \in Failures :
        LET s == Session(fails) first == SelectInSeq(Steps, LAMBDA st : fails[st] # "none") IN
        /\ s.result = "ok" <=> first \in {0, 4}
        /\ s.result = "ServiceAuthError" <=> first = 2 /\ fails["login"] = "perm"
        /\ Http(s.result) = 500 <=> first \in 1..3 /\ fails[Steps[first]] = "ValueError"
        /\ "quit" \in ToSet(s.ran) <=> first \notin 1..2     \* a session that was begun is ended

\* A listing that could not be read is not an empty directory; but a directory that has only its two
\* own entries, listed with them, is said not to be one.
ASSUME ListingIsNotEmptied ==
    \A lines \in SeqOf(Line, 4) :
        LET files == {"dir", "file", "link"} IN
        /\ List(lines) = <<>> <=> ToSet(lines) \subseteq {"total", "blank"}
        /\ ToSet(lines) \cap files # {} => List(lines) = SelectSeq(lines, LAMBDA l : l \in files)
        /\ "dots" \in ToSet(lines) /\ ToSet(lines) \cap files = {} => List(lines) = <<"error">>

\* However the banner is cut up, the agent is taken for one if and only if its first line says so;
\* a line that comes in one piece with the first is read for it.
Pieces == {p \in SeqOf(SeqOf({"QC", "ONN", "nl", "x"}, 2) \ {<<>>}, 3) : p # <<>>}
FirstLine(stream) == SubSeq(stream, 1, SelectInSeq(stream, LAMBDA t : t = "nl"))
ASSUME AgentIsRecognised ==
    \A p \in Pieces, closes \in BOOLEAN :
        LET stream == FlattenSeq(p)
            Says(s) == \E i \in 1..Len(s) - 1 : s[i] = "QC" /\ s[i + 1] = "ONN"
        IN  /\ "nl" \in ToSet(stream) =>
                  /\ Says(FirstLine(stream)) => Liveness(p, closes) = "ok"
                  /\ Liveness(p, closes) = "ok" => Says(stream)
            /\ "nl" \notin ToSet(stream) /\ ~closes => Liveness(p, closes) = "ServiceTimeout"

=============================================================================
