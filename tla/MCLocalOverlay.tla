--------------------------- MODULE MCLocalOverlay ---------------------------
(* Two invocations at a time, three builds.  The second is of the first one's *)
(* PostgreSQL version; the third is of another and writes metadata that the    *)
(* loader does not accept.                                                     *)
EXTENDS LocalOverlay

MCVersion == [b \in 0..MaxBuilds |-> IF b = 2 THEN "18.2" ELSE "18.1"]
MCRejected == {2}
=============================================================================
