--------------------------- MODULE MCBridgeSolve ---------------------------
(***************************************************************************)
(* One tab, two run ids: the job recorded when the tab opens, and the one  *)
(* the click may post beside it.  One event of the user's disturbs them.   *)
(***************************************************************************)
EXTENDS BridgeSolve
CONSTANTS j1, j2
MCJobs == {j1, j2}
=============================================================================
