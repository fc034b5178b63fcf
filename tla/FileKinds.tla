----------------------------- MODULE FileKinds -----------------------------
(***************************************************************************)
(* What the controller's file wire can do, kind by kind, and the routes    *)
(* /files/{kind}/{name} over it, as rows (src/fws/files_wire.py,           *)
(* files_api.py, backup.py, programs_api.py).                              *)
(*                                                                         *)
(* A file type is an opcode: which file it means depends on the verb.      *)
(***************************************************************************)
EXTENDS Routes

Types(upload, download, delete) == [upload |-> upload, download |-> download, delete |-> delete]

\* A wrong table: a kind has one type, whatever the verb.
FileTypesByKind ==
    [lua |-> Types("upload_0", "download_0", "delete_0"),
     open_lua |-> Types("upload_11", "download_11", "delete_11"),
     point_table |-> Types("PointTableUpload", "PointTableDownload", "none"),
     controller_log |-> Types("upload_1", "download_1", "delete_1")]

\* KINDS: the verbs of a kind, each with the call that opens the port: FileUpload, FileDownload or
\* FileDelete with the type, or an RPC of the kind's own. A verb the wire has not has no call.
FileTypes ==
    [lua |-> Types("upload_0", "download_0", "delete_0"),
     open_lua |-> Types("upload_11", "download_11", "delete_11"),
     point_table |-> Types("PointTableUpload", "PointTableDownload", "none"),
     controller_log |-> Types("none", "download_1", "none")]

\* The rest of KINDS: the RPCs before and after the bytes, and the lock a write asks for.
Kinds ==
    [lua |-> [prepare |-> "none", commit |-> "LuaUpLoadUpdate", domain |-> "program"],
     open_lua |-> [prepare |-> "none", commit |-> "CtrlOpenLuaUpLoadCheck", domain |-> "program"],
     point_table |-> [prepare |-> "none", commit |-> "none", domain |-> "config"],
     controller_log |-> [prepare |-> "RbLogDownloadPrepare", commit |-> "none", domain |-> "none"]]

\* REFUSED_TYPES: kinds that are named only to be refused, with what they would put on the wire.
RefusedKinds ==
    [software_upgrade |-> {"upload_1"}, slave_firmware |-> {"upload_2"},
     joint_parameters |-> {"upload_5"}, os_kernel |-> {"upload_6"},
     axle_open_lua |-> {"upload_10"}, all_open_lua |-> {"delete_12"},
     trajectory_j |-> {"upload_20", "delete_20"}]

Ops(kind) == {verb \in {"upload", "download", "delete"} : FileTypes[kind][verb] # "none"}

\* resolve(): 403 for a kind that is refused, 404 for one nobody knows.
Resolve(kind) ==
    IF kind \in DOMAIN FileTypes THEN 200 ELSE IF kind \in DOMAIN RefusedKinds THEN 403 ELSE 404

FileName(kind) == Sound("name", IF kind = "controller_log" THEN 404 ELSE 422)

FileDownload(kind) ==
    <<FileName(kind)>>
    \o If("download" \notin Ops(kind), <<Refuse(405)>>)
    \o If(Kinds[kind].prepare # "none", <<Must(Kinds[kind].prepare, 404)>>)
    \o <<Must(FileTypes[kind].download, 404)>>

\* With if_match and without verify; the index and the compiler's verdict are Programs' subject.
FileUpload(kind) ==
    If("upload" \notin Ops(kind), <<Refuse(405)>>)
    \o If(Kinds[kind].domain # "none", <<Free(Kinds[kind].domain)>>)
    \o <<FileName(kind), Sound("body", 422), Sound("size", 413)>>
    \o If("download" \in Ops(kind), <<Tried(FileTypes[kind].download), Sound("match", 412)>>)
    \o <<Must(FileTypes[kind].upload, 502)>>
    \o If(Kinds[kind].commit # "none", <<Must(Kinds[kind].commit, 422)>>)
    \o <<Audit>>

\* A file that is not there (code 144) is as good as deleted.
FileDelete(kind) ==
    If("delete" \notin Ops(kind), <<Refuse(405)>>)
    \o If(Kinds[kind].domain # "none", <<Free(Kinds[kind].domain)>>)
    \o <<FileName(kind)>>
    \o If(kind = "lua", <<Tried("GetLoadedProgram"), Sound("loaded", 409)>>)
    \o <<Must(FileTypes[kind].delete, 502), Audit>>

\* From the index, or from the controller.
FileList == <<Sound("source", 422)>> \o Listed

FileRoutes == {"file_upload", "file_download", "file_delete", "file_list"}

FileRow(route, kind) ==
    IF Resolve(kind) # 200 THEN <<Refuse(Resolve(kind))>>
    ELSE CASE route = "file_upload" -> FileUpload(kind)
           [] route = "file_download" -> FileDownload(kind)
           [] route = "file_delete" -> FileDelete(kind)
           [] route = "file_list" -> FileList

-----------------------------------------------------------------------------
(* The limits on a file's size, stated three times in the code.            *)

\* check_size(): a lua file, a point table; the framed total is what the wire caps.
LuaFits(size) == size <= 512 * 1024 /\ size + 46 + 4 <= 500 * 1024 * 1024
TableFits(size) == size <= 2 * 1024 * 1024 - 44 - 4 /\ size + 44 + 4 <= 2 * 1024 * 1024

\* MAX_PROGRAM_BYTES of PUT /programs, MAX_FILE of PUT /points/tables.
ProgramFits(size) == size <= 512 * 1024
RestoreFits(size) == size + 16 + 32 <= 2 * 1024 * 1024

Around(n) == (n - 2)..(n + 2)

\* Either way to the controller takes the same files, at every size near a limit.
ASSUME LimitsAgree ==
    /\ \A size \in Around(512 * 1024) : LuaFits(size) <=> ProgramFits(size)
    /\ \A size \in Around(2 * 1024 * 1024 - 48) : TableFits(size) <=> RestoreFits(size)

=============================================================================
