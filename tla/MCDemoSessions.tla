--------------------------- MODULE MCDemoSessions ---------------------------
(***************************************************************************)
(* Instances of DemoSessions for TLC.  A session lives for one tick, and   *)
(* the daily cap and the backstop look back over three.                    *)
(***************************************************************************)
EXTENDS DemoSessions

CONSTANTS g1, g2, g3, r1
============================================================================
