----------------------------- MODULE MCCallout ------------------------------
(***************************************************************************)
(* A periodic function and one that is started and cancelled, a pool of    *)
(* callouts that can run out, ticks of two counts, stretches without a     *)
(* poll that span more than one tick, and a counter that wraps.            *)
(***************************************************************************)
EXTENDS Callout

MCFns      == {"slow", "sleep"}
MCPeriodic == {"slow"}
MCTickArgs == {0, 2}
MCWork     == {3}
MCRaces    == {0, 2}
=============================================================================
