---------------------------- MODULE MCFaultPoller ----------------------------
(* A model of FaultPoller: subscriptions to everything and to faults.       *)
EXTENDS FaultPoller

AllKinds == PollerKind \cup {"audit"}
AllOrFaults == {AllKinds, FaultKind}
=============================================================================
