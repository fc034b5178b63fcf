------------------------------ MODULE Programs ------------------------------
(***************************************************************************)
(* Programs and files on the controller: the routes that upload, download, *)
(* delete, load, validate, run and restore them (src/fws/programs_api.py,  *)
(* files_api.py, backup_api.py) as the sequences of calls they are, over   *)
(* one pair of transfer ports (files.py, files_wire.py, backup.py).        *)
(*                                                                         *)
(* A transfer is two steps: an RPC that tells the controller which file,   *)
(* and a connection that moves the bytes. The driver's lock covers the RPC *)
(* alone, so another request's RPC may come in between. Every RPC may be   *)
(* refused, lost before it reaches the controller, or lost after. Which    *)
(* client may call a route is Gateway's subject: here every handler has    *)
(* passed its gate (a free domain lets everyone through).                  *)
(*                                                                         *)
(* The controller is external, and modelled as testing/fake_controller.py  *)
(* has it: it keeps one name for the next upload and one content for the   *)
(* next download.                                                          *)
(***************************************************************************)
EXTENDS Naturals, Sequences, FiniteSets

CONSTANTS
    Handler,     \* request threads
    Lua, Table,  \* names of Lua programs and of point tables
    Content,     \* what a file may hold, by its md5
    Builds,      \* the contents the controller's compiler takes
    Safe,        \* the contents without a motion target that fails the path check
    Asked,       \* the requests that clients send
    MaxRequests, \* how many of them
    None

Name == Lua \cup Table

\* A request: a route, what it names, the body it carries, the version it
\* expects, and the flags it sets.
Request == [op : {"putProgram", "putFile", "getProgram", "getFile", "delete", "load",
                  "select", "run", "validate", "restore", "switch"},
            name : Name \cup {None},
            body : Content \cup {None},
            match : Content \cup {None},
            flags : SUBSET {"overwrite", "verify", "start", "skip"}]

\* What a request learns of the controller and may find changed when it acts.
Aspect == {"files", "loaded", "engine", "up", "down"}

\* What the routes' paths and bodies let through: run() finds its name itself, only a
\* program is loaded, only a point table (or none) switched to, an upload has a body,
\* and PUT /files alone knows of versions.
Sendable(r) ==
    /\ r.op \notin {"run", "switch"} => r.name \in Name
    /\ r.op \in {"load", "select"} => r.name \in Lua
    /\ r.op = "switch" => r.name \in Table \cup {None}
    /\ r.op \in {"putProgram", "putFile", "restore"} => r.body \in Content
    /\ r.match # None => r.op = "putFile"

ASSUME ProgramsAssumption ==
    /\ Builds \subseteq Content /\ Safe \subseteq Content
    /\ None \notin Name \cup Content \cup Request
    /\ Asked \subseteq Request /\ MaxRequests \in Nat
    /\ \A r \in Asked : Sendable(r)

VARIABLES
    file,     \* external: name -> its content, or None
    loaded,   \* external: the program GetLoadedProgram names, or None
    engine,   \* external: the Lua interpreter
    runs,     \* external: the content the interpreter started last
    upSlot,   \* external: the name the next upload is stored under
    downSlot, \* external: the content the next download delivers
    active,   \* external: the point table in use
    index,    \* the gateway's own index: name -> md5, or None
    req,      \* handler -> its request
    todo,     \* handler -> the steps it has yet to take
    got,      \* handler -> what it last downloaded
    left,     \* bound: the requests still to come
    unseen    \* history: handler -> what others may have changed since it looked

controller == <<file, loaded, engine, runs, upSlot, downSlot, active>>
vars == <<controller, index, req, todo, got, left, unseen>>

Step == {"absent", "seeEngine", "guardLoaded", "findLoaded", "openDown", "fetch", "match",
         "openUp", "send", "commit", "same", "record", "note", "erase", "forget",
         "load", "clear", "fit", "start", "switch"}

ProgramsTypeOK ==
    /\ file \in [Name -> Content \cup {None}]
    /\ loaded \in Lua \cup {None}
    /\ engine \in {"stopped", "running", "paused"}
    /\ runs \in Content \cup {None}
    /\ upSlot \in Name \cup {None} /\ downSlot \in Content \cup {None}
    /\ active \in Table \cup {None}
    /\ index \in [Name -> Content \cup {None}]
    /\ req \in [Handler -> Request \cup {None}]
    /\ todo \in [Handler -> Seq(Step)]
    /\ \A h \in Handler : req[h] = None <=> todo[h] = <<>>
    /\ got \in [Handler -> Content \cup {None}]
    /\ left \in 0..MaxRequests
    /\ unseen \in [Handler -> SUBSET Aspect]

\* The gateway starts beside a controller in any state, and knows of nothing.
Init ==
    /\ file \in [Name -> Content \cup {None}]
    /\ loaded \in Lua \cup {None}
    /\ engine \in {"stopped", "running"}
    /\ runs = None /\ upSlot = None /\ downSlot = None /\ active = None
    /\ index = [n \in Name |-> None]
    /\ req = [h \in Handler |-> None]
    /\ todo = [h \in Handler |-> <<>>]
    /\ got = [h \in Handler |-> None]
    /\ left = MaxRequests
    /\ unseen = [h \in Handler |-> {}]

-----------------------------------------------------------------------------
(* The routes.                                                             *)

Download == <<"openDown", "fetch">>
Upload == <<"openUp", "send">>
Commit(n) == IF n \in Lua THEN <<"commit">> ELSE <<>>
NewName(r) == IF "overwrite" \in r.flags THEN <<>> ELSE <<"absent">>

\* Mutant: a program is entered in the index before the compiler has seen it.
ScriptRecordsEarly(r) ==
    CASE r.op = "putProgram" -> NewName(r) \o Upload \o <<"record", "commit">>
      [] r.op = "delete" -> <<"guardLoaded", "erase", "forget">>
      [] OTHER -> <<"load">>

\* The steps of a route, in the code's order.
Script(r) ==
    CASE r.op = "putProgram" -> NewName(r) \o <<"seeEngine">> \o Upload \o <<"commit", "record">>
      [] r.op = "putFile" ->
            (IF r.match # None THEN Download \o <<"match">> ELSE NewName(r))
            \o Upload \o Commit(r.name)
            \o (IF "verify" \in r.flags THEN Download \o <<"same">> ELSE <<>>) \o <<"record">>
      [] r.op \in {"getProgram", "validate"} -> Download
      [] r.op = "getFile" -> Download \o <<"note">>
      [] r.op = "delete" -> <<"guardLoaded", "erase", "forget">>
      [] r.op = "load" -> <<"load">>
      [] r.op = "select" ->
            <<"load">> \o (IF "start" \in r.flags THEN <<"clear", "start">> ELSE <<>>)
      [] r.op = "run" ->
            <<"clear", "findLoaded">>
            \o (IF "skip" \in r.flags THEN <<>> ELSE Download \o <<"fit">>) \o <<"start">>
      [] r.op = "restore" -> Upload \o Download \o <<"same">>
      [] r.op = "switch" -> <<"switch">>

Begin(h, r) ==
    /\ req[h] = None /\ left > 0
    /\ req' = [req EXCEPT ![h] = r]
    /\ todo' = [todo EXCEPT ![h] = Script(r)]
    /\ left' = left - 1
    /\ unseen' = [unseen EXCEPT ![h] = Aspect]
    /\ UNCHANGED <<controller, index, got>>

Doing(h, step) == todo[h] # <<>> /\ Head(todo[h]) = step

\* Mutant: an answered request is not ended.
GoOn(h, rest) == todo' = [todo EXCEPT ![h] = rest] /\ UNCHANGED <<req, left>>

\* On to the rest of the steps; none left is the answer.
Go(h, rest) ==
    /\ todo' = [todo EXCEPT ![h] = rest]
    /\ req' = [req EXCEPT ![h] = IF rest = <<>> THEN None ELSE @]
    /\ left' = left
On(h) == Go(h, Tail(todo[h]))
End(h) == Go(h, <<>>)
\* An RPC that was carried out: its answer came, or was lost.
Answered(h) == On(h) \/ End(h)

\* What is new to everyone but h, who has just learnt `learnt`.
Sees(h, learnt) ==
    LET changed == {a \in Aspect : \/ a = "files" /\ file' # file
                                   \/ a = "loaded" /\ loaded' # loaded
                                   \/ a = "engine" /\ engine' # engine
                                   \/ a = "up" /\ upSlot' # upSlot
                                   \/ a = "down" /\ downSlot' # downSlot}
    IN  unseen' = [g \in Handler |->
            IF g = h THEN unseen[g] \ learnt
            ELSE IF req[g] = None THEN unseen[g] ELSE unseen[g] \cup changed]

-----------------------------------------------------------------------------
(* Steps in the gateway alone.                                             *)

Local(h, step) == Doing(h, step) /\ UNCHANGED <<controller, got>> /\ Sees(h, {})

\* 409 for a name that is in the index already.
Absent(h) ==
    /\ Local(h, "absent")
    /\ IF index[req[h].name] = None THEN On(h) ELSE End(h)
    /\ UNCHANGED index

\* Mutant: the version is not compared.
MatchAny(h) == Local(h, "match") /\ On(h) /\ UNCHANGED index

\* 412 unless what was read is the version the client edited.
Match(h) ==
    /\ Local(h, "match")
    /\ IF got[h] = req[h].match THEN On(h) ELSE End(h)
    /\ UNCHANGED index

\* The readback: 502 when it differs from what was sent.
Same(h) ==
    /\ Local(h, "same")
    /\ IF got[h] = req[h].body THEN On(h) ELSE End(h)
    /\ UNCHANGED index

\* Mutant: the verdict of the path check is ignored.
FitAny(h) == Local(h, "fit") /\ On(h) /\ UNCHANGED index

\* The path check over what was read: 409 when a motion target fails.
Fit(h) ==
    /\ Local(h, "fit")
    /\ IF got[h] \in Safe THEN On(h) ELSE End(h)
    /\ UNCHANGED index

Record(h) ==
    /\ Local(h, "record")
    /\ index' = [index EXCEPT ![req[h].name] = req[h].body]
    /\ On(h)

\* A download repairs the index: the name is known to exist.
Note(h) ==
    /\ Local(h, "note")
    /\ index' = [index EXCEPT ![req[h].name] = IF @ = None THEN got[h] ELSE @]
    /\ On(h)

Forget(h) ==
    /\ Local(h, "forget")
    /\ index' = [index EXCEPT ![req[h].name] = None]
    /\ On(h)

-----------------------------------------------------------------------------
(* Steps that ask the controller.                                          *)

Reads(h, step) == Doing(h, step) /\ UNCHANGED <<controller, index>>

\* Mutant: a paused program is taken for a stopped one.
SeeRunning(h) ==
    /\ Reads(h, "seeEngine") /\ UNCHANGED got
    /\ \/ engine = "running" /\ End(h) /\ Sees(h, {"engine"})
       \/ engine # "running" /\ On(h) /\ Sees(h, {"engine"})
       \/ On(h) /\ Sees(h, {})

\* No upload into a program that runs or pauses. A state that cannot be read
\* stops nobody.
SeeEngine(h) ==
    /\ Reads(h, "seeEngine") /\ UNCHANGED got
    /\ \/ engine # "stopped" /\ End(h) /\ Sees(h, {"engine"})
       \/ engine = "stopped" /\ On(h) /\ Sees(h, {"engine"})
       \/ On(h) /\ Sees(h, {})

\* Mutant: the loaded program's path is compared with the bare name.
GuardLoadedByPath(h) ==
    Reads(h, "guardLoaded") /\ UNCHANGED got /\ On(h) /\ (Sees(h, {"loaded"}) \/ Sees(h, {}))

\* The program that is loaded is not deleted. Best effort: an answer that
\* cannot be read stops nobody.
GuardLoaded(h) ==
    /\ Reads(h, "guardLoaded") /\ UNCHANGED got
    /\ \/ loaded = req[h].name /\ End(h) /\ Sees(h, {"loaded"})
       \/ loaded # req[h].name /\ On(h) /\ Sees(h, {"loaded"})
       \/ On(h) /\ Sees(h, {})

\* run() takes the name of the loaded program and works on that.
FindLoaded(h) ==
    /\ Reads(h, "findLoaded") /\ UNCHANGED got
    /\ IF loaded = None
       THEN End(h)
       ELSE /\ todo' = [todo EXCEPT ![h] = Tail(@)]
            /\ req' = [req EXCEPT ![h].name = loaded]
            /\ left' = left
    /\ Sees(h, {"loaded"})

\* A controller without a fault may run.
ClearOfFault(h) ==
    /\ Reads(h, "clear") /\ UNCHANGED got
    /\ Answered(h)
    /\ Sees(h, {})

\* A readback tells what the port delivers, and nothing of who wrote it.
ForReadback(h) == Len(todo[h]) >= 3 /\ todo[h][3] = "same"

\* FileDownload, PointTableDownload: -1 for a name that is not there.
OpenDown(h) ==
    /\ Doing(h, "openDown")
    /\ file[req[h].name] # None
    /\ downSlot' = file[req[h].name]
    /\ Answered(h)
    /\ UNCHANGED <<file, loaded, engine, runs, upSlot, active, index, got>>
    /\ Sees(h, IF ForReadback(h) THEN {"down"} ELSE {"files", "down"})

\* The connection to the download port delivers what the slot holds by now.
Fetch(h) ==
    /\ Reads(h, "fetch")
    /\ got' = [got EXCEPT ![h] = downSlot]
    /\ On(h)
    /\ Sees(h, {})

\* FileUpload, PointTableUpload.
OpenUp(h) ==
    /\ Doing(h, "openUp")
    /\ upSlot' = req[h].name
    /\ Answered(h)
    /\ UNCHANGED <<file, loaded, engine, runs, downSlot, active, index, got>>
    /\ Sees(h, {"up"})

\* The bytes arrive, under the name the slot holds by now. A Lua program that
\* arrives while one runs stops it.
Send(h) ==
    /\ Doing(h, "send")
    /\ file' = [file EXCEPT ![upSlot] = req[h].body]
    /\ engine' = IF upSlot \in Lua THEN "stopped" ELSE engine
    /\ Answered(h)
    /\ UNCHANGED <<loaded, runs, upSlot, downSlot, active, index, got>>
    /\ Sees(h, {"files"})

\* LuaUpLoadUpdate compiles what is stored under the name.
CommitFile(h) ==
    /\ Reads(h, "commit") /\ UNCHANGED got
    /\ IF file[req[h].name] \in Builds \cup {None} THEN Answered(h) ELSE End(h)
    /\ Sees(h, {})

\* FileDelete: 144 says that it is gone already.
Erase(h) ==
    /\ Doing(h, "erase")
    /\ file' = [file EXCEPT ![req[h].name] = None]
    /\ Answered(h)
    /\ UNCHANGED <<loaded, engine, runs, upSlot, downSlot, active, index, got>>
    /\ Sees(h, {"files"})

Load(h) ==
    /\ Doing(h, "load")
    /\ loaded' = req[h].name
    /\ Answered(h)
    /\ UNCHANGED <<file, engine, runs, upSlot, downSlot, active, index, got>>
    /\ Sees(h, {"loaded"})

\* ProgramRun starts whatever is loaded by now.
Start(h) ==
    /\ Doing(h, "start")
    /\ engine' = "running"
    /\ runs' = IF loaded = None THEN None ELSE file[loaded]
    /\ Answered(h)
    /\ UNCHANGED <<file, loaded, upSlot, downSlot, active, index, got>>
    /\ Sees(h, {"engine"})

Switch(h) ==
    /\ Doing(h, "switch")
    /\ active' = req[h].name
    /\ Answered(h)
    /\ UNCHANGED <<file, loaded, engine, runs, upSlot, downSlot, index, got>>
    /\ Sees(h, {})

\* A call that does not reach the controller, is refused by it, or breaks off
\* in its transfer ends the request with an error.
Fails(h) ==
    /\ todo[h] # <<>>
    /\ Head(todo[h]) \in {"openDown", "fetch", "openUp", "send", "commit", "erase", "load",
                          "clear", "findLoaded", "start", "switch"}
    /\ End(h)
    /\ UNCHANGED <<controller, index, got>>
    /\ Sees(h, {})

\* The interpreter ends, pauses or goes on, by itself or through other routes.
EngineMoves ==
    /\ engine' \in {"stopped", "running", "paused"} \ {engine}
    /\ (engine = "stopped" => engine' = "running")
    /\ UNCHANGED <<file, loaded, runs, upSlot, downSlot, active, index, req, todo, got, left>>
    /\ unseen' = [g \in Handler |-> IF req[g] = None THEN unseen[g] ELSE unseen[g] \cup {"engine"}]

GatewayStep(h) ==
    \/ Absent(h) \/ Match(h) \/ Same(h) \/ Fit(h) \/ Record(h) \/ Note(h) \/ Forget(h)
    \/ SeeEngine(h) \/ GuardLoaded(h) \/ FindLoaded(h) \/ ClearOfFault(h)
    \/ OpenDown(h) \/ Fetch(h) \/ OpenUp(h) \/ Send(h) \/ CommitFile(h)
    \/ Erase(h) \/ Load(h) \/ Start(h) \/ Switch(h)
    \/ Fails(h)

Next ==
    \/ \E h \in Handler : \E r \in Asked : Begin(h, r)
    \/ \E h \in Handler : GatewayStep(h)
    \/ EngineMoves

Spec == Init /\ [][Next]_vars

-----------------------------------------------------------------------------
(* Properties. Each of the races it allows for is a pair of calls between  *)
(* which the code holds nothing.                                           *)

\* run() starts what it validated: a program it did not pass is started only
\* if, since it looked, another request loaded or wrote a program, or took the
\* download port (programs_api.py run, _check_path).
RunsWhatItValidated ==
    [][\A h \in Handler :
        /\ Start(h) /\ req[h].op = "run" /\ "skip" \notin req[h].flags
        /\ unseen[h] \cap {"files", "loaded", "down"} = {}
        => runs' \in Safe]_vars

\* An edit conditional on a version replaces that version and no other, unless
\* another request wrote in between or took a port (files_api.py upload_file).
EditReplacesItsVersion ==
    [][\A h \in Handler :
        /\ Send(h) /\ req[h].match # None
        /\ unseen[h] \cap {"files", "up", "down"} = {}
        => file[upSlot] = req[h].match]_vars

\* PUT /programs uploads into no program that runs or pauses, unless that
\* began after the check or could not be read (programs_api.py
\* upload_program).
UploadSparesPrograms ==
    [][\A h \in Handler :
        Send(h) /\ req[h].op = "putProgram" => engine = "stopped" \/ "engine" \in unseen[h]]_vars

\* The loaded program is not deleted, unless it was loaded after the check or
\* the check could not be made (programs_api.py delete_program, files_api.py
\* delete_file).
LoadedProgramStays ==
    [][\A h \in Handler :
        Erase(h) => req[h].name # loaded \/ "loaded" \in unseen[h]]_vars

\* The index follows the controller: a name is entered for bytes that are there
\* and, if a program, that the compiler took; it is dropped once the file is
\* gone. Only what other requests wrote in between, or a port they took, may
\* make it wrong (ProgramIndex, FileIndex; the order of calls in the routes).
IndexFollowsTheController ==
    [][\A h \in Handler : LET n == req[h].name IN
        /\ Record(h) /\ unseen[h] \cap {"files", "up"} = {}
               => file[n] = req[h].body /\ (n \in Lua => req[h].body \in Builds)
        /\ Forget(h) /\ "files" \notin unseen[h] => file[n] = None
        /\ Note(h) /\ unseen[h] \cap {"files", "down"} = {}
               => file[n] # None /\ (index[n] = None => index'[n] = file[n])]_vars

\* What the comment over the check in PUT /programs says of uploads: none is
\* made while a program runs. PUT /files makes no such check.
EditsSparePrograms ==
    [][\A h \in Handler : Send(h) /\ req[h].op = "putFile" /\ upSlot \in Lua => engine = "stopped"]_vars

=============================================================================
