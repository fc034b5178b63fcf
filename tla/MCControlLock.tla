--------------------------- MODULE MCControlLock ---------------------------
(* ControlLock for TLC.                                                     *)
EXTENDS ControlLock, TLC

\* Clients, domains and tokens are interchangeable in the safety properties.
Symmetry ==
    Permutations(Client) \cup Permutations(Domain) \cup Permutations(Token)
=============================================================================
