----------------------------- MODULE MCRequests -----------------------------
EXTENDS Requests, Arguments, Contract, ShellSession, Services, Standstill

Deployment(entry, full, flags, readOnly, loopback, keyFile) ==
    [entry |-> entry, full |-> full, flags |-> flags, readOnly |-> readOnly,
     loopback |-> loopback, keyFile |-> keyFile]

\* Guarded, wide open, observing and full-access gateways, by either way of starting them.
MCDeployments ==
    {Deployment("cli", FALSE, {}, FALSE, TRUE, FALSE),
     Deployment("cli", FALSE, {}, FALSE, FALSE, FALSE),
     Deployment("cli", FALSE, {"movel", "shutdown", "luaValidate"}, FALSE, TRUE, FALSE),
     Deployment("cli", FALSE, {"passthrough", "unverified", "ftp"}, FALSE, FALSE, TRUE),
     Deployment("uvicorn", FALSE, {"movel", "shell", "qconn"}, FALSE, FALSE, TRUE),
     Deployment("uvicorn", FALSE, {"unverified", "shell"}, FALSE, TRUE, FALSE),
     Deployment("cli", FALSE, {"movel", "passthrough"}, TRUE, TRUE, FALSE),
     Deployment("cli", TRUE, {}, FALSE, TRUE, FALSE),
     Deployment("uvicorn", TRUE, {}, FALSE, FALSE, FALSE)}
=============================================================================
