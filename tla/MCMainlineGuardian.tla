--------------------------- MODULE MCMainlineGuardian ---------------------------
(***************************************************************************)
(* MainlineGuardian for TLC: two repositories, the gates of the first of   *)
(* them may be flaky.                                                      *)
(***************************************************************************)
EXTENDS MainlineGuardian

CONSTANTS r1, r2

MCRepos == <<r1, r2>>
MCFailures == {"named", "unnamed"}
MCCheckOf(f) == IF f = "named" THEN "test" ELSE "build"
MCHealths(r) == IF r = r1 THEN {"green", "flaky", "named"} ELSE {"green", "named"}
=============================================================================
