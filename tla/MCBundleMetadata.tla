--------------------------- MODULE MCBundleMetadata ---------------------------
(* pg_typesafe, pgvector with a wheel of its own, SQL-only pgmq and tigerfs,   *)
(* on a platform that supports everything and one without pg_typesafe.         *)
EXTENDS BundleMetadata

CONSTANTS typesafe, vec, pgmq, tigerfs
MCSupported == {Ext, Ext \ {typesafe}}
MCRequests == {{typesafe, vec, pgmq, tigerfs} \cap Comp, {pgmq, tigerfs} \cap Comp,
               {typesafe, vec} \cap Comp}
=============================================================================
