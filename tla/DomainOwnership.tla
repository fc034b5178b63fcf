--------------------------- MODULE DomainOwnership ---------------------------
(***************************************************************************)
(* What the control lock of the gateway promises its clients, with leases, *)
(* tokens, clocks and the reaper left out: every domain has at most one    *)
(* owner, and a domain never passes straight from one client to another.   *)
(* Whoever takes a domain found it free or already owned it.               *)
(***************************************************************************)
CONSTANTS
    Client,     \* who may own a domain (AcquireRequest.client_id)
    Domain,     \* what is owned: control.DOMAINS
    None        \* the owner of a free domain

VARIABLE owner

Init == owner = [d \in Domain |-> None]

(***************************************************************************)
(* Client c takes ds. What it owned under an older lease may be given up   *)
(* in the same step (lost), whether or not it takes anything new.          *)
(***************************************************************************)
Take(c, ds, lost) ==
    /\ \A d \in ds \cup lost : owner[d] \in {None, c}
    /\ owner' = [d \in Domain |-> IF d \in ds THEN c
                                  ELSE IF d \in lost THEN None ELSE owner[d]]

\* Some domains become free: a release, a break, or leases running out.
Free(ds) ==
    owner' = [d \in Domain |-> IF d \in ds THEN None ELSE owner[d]]

Next ==
    \/ \E c \in Client, ds, lost \in SUBSET Domain : Take(c, ds, lost)
    \/ \E ds \in SUBSET Domain : Free(ds)

Spec == Init /\ [][Next]_owner
=============================================================================
