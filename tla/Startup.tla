------------------------------ MODULE Startup ------------------------------
(***************************************************************************)
(* From settings to a serving gateway (src/fws/config.py, cli.py,          *)
(* access.py, auth.py and app.py): the settings are checked, the           *)
(* application is built around them, the lifespan checks them again, and   *)
(* from then on two middlewares stand before every route.                  *)
(*                                                                         *)
(* The key file is read three times on the way, twice to be checked and    *)
(* once to be loaded, and may be rewritten in between; it is not read      *)
(* again. Started by uvicorn on fws.app:app the gateway is built at import,*)
(* without the command line's check and without create_app().              *)
(***************************************************************************)
EXTENDS Integers

CONSTANT Deployments        \* the settings the process may be started with

Flag == {"movel", "passthrough", "unverified", "shutdown",
         "ftp", "shell", "qconn", "luaValidate"}

\* loopback: the bind_host that is configured. It is what the command line binds; uvicorn started on
\* fws.app:app binds what its own --host says (run.sh: 127.0.0.1, unless it is given another), which
\* no check of the gateway sees.
Settings == [entry : {"cli", "uvicorn"}, full : BOOLEAN, flags : SUBSET Flag,
             readOnly : BOOLEAN, loopback : BOOLEAN, keyFile : BOOLEAN]

\* What is at the path of api_keys_file.
KeyFile == {"missing", "unreadable", "noKeys", "keys"}

ASSUME DeploymentsAssumption == Deployments \subseteq Settings

VARIABLES
    cfg,        \* settings
    stage,      \* how far the start has come
    file,       \* external: the key file
    digests,    \* KeyStore holds at least one key
    latched     \* full_access()

startVars == <<cfg, stage, file, digests, latched>>

\* _full_access_forces_flags_on()
Forced(s) == IF s.full THEN [s EXCEPT !.flags = Flag] ELSE s

\* check_safe_to_start(), but for what full access makes of it.
Problems(s, f) ==
    {p \in {"openBind", "noFile", "unreadable", "noKeys", "unverified", "rootService"} :
        \/ p = "openBind" /\ ~s.loopback /\ ~s.keyFile
        \/ p = "noFile" /\ s.keyFile /\ f = "missing"
        \/ p = "unreadable" /\ s.keyFile /\ f = "unreadable"
        \/ p = "noKeys" /\ s.keyFile /\ f = "noKeys"
        \/ p = "unverified" /\ "unverified" \in s.flags /\ "passthrough" \notin s.flags
        \/ p = "rootService" /\ s.flags \cap {"shell", "qconn"} # {} /\ ~s.keyFile}

SafeToStart(s, f) == s.full \/ Problems(s, f) = {}

StartInit ==
    /\ cfg \in {Forced(d) : d \in Deployments}
    /\ stage = IF cfg.entry = "cli" THEN "commandLine" ELSE "building"
    /\ file \in IF cfg.keyFile THEN KeyFile ELSE {"missing"}
    /\ digests = FALSE
    /\ latched = FALSE

\* main(): exit 3 on a problem.
CommandLine ==
    /\ stage = "commandLine"
    /\ stage' = IF SafeToStart(cfg, file) THEN "building" ELSE "refused"
    /\ UNCHANGED <<cfg, file, digests, latched>>

\* create_app(), or the module's own settings under uvicorn: the switch is latched by the former
\* only. A file that cannot be read ends the process; one that is gone holds no keys.
Build ==
    /\ stage = "building"
    /\ IF cfg.keyFile /\ file = "unreadable"
       THEN stage' = "refused" /\ UNCHANGED digests
       ELSE stage' = "lifespan" /\ digests' = (cfg.keyFile /\ file = "keys")
    /\ latched' = (cfg.entry = "cli" /\ cfg.full)
    /\ UNCHANGED <<cfg, file>>

Lifespan ==
    /\ stage = "lifespan"
    /\ stage' = IF SafeToStart(cfg, file) THEN "serving" ELSE "refused"
    /\ UNCHANGED <<cfg, file, digests, latched>>

\* External: someone edits, removes or locks the key file.
KeyFileChanges ==
    /\ stage \in {"commandLine", "building", "lifespan"} /\ cfg.keyFile
    /\ file' \in KeyFile \ {file}
    /\ UNCHANGED <<cfg, stage, digests, latched>>

Starting == CommandLine \/ Build \/ Lifespan \/ KeyFileChanges

-----------------------------------------------------------------------------
(* The middlewares.                                                        *)

\* A wrong gate for it: KeyStore.enabled, that keys were loaded, which only reports.
EnforcedIfLoaded == cfg.keyFile /\ digests

\* KeyStore.configured: a file was named.
Enforced == cfg.keyFile

\* ALWAYS_OPEN, of the routes modelled.
OpenPaths == {"motion_stop", "health"}

\* _auth_middleware(): identify() knows a key once there are digests.
Authorised(route, key) == ~Enforced \/ route \in OpenPaths \/ (key /\ digests)

\* _read_only_middleware(): by verb.
Writable(verb) == ~cfg.readOnly \/ verb = "GET"

=============================================================================
