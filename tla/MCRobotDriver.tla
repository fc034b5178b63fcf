--------------------------- MODULE MCRobotDriver ---------------------------
(* RobotDriver for TLC. Two failures open the breaker, as three do in the   *)
(* shipped configuration: enough for the count to be broken in the middle.  *)
EXTENDS RobotDriver
=============================================================================
