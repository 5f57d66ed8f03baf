---------------------------- MODULE MCBundleBuild ----------------------------
(* Two extensions, one with an archive and one with a commit, and two         *)
(* configurations.  B has no use for the first extension and moves both pins, *)
(* that of the archive under its old name.                                    *)
EXTENDS BundleBuild

CONSTANTS A, B, pg, vec, cron
MCSelects == [c \in Configs |-> (IF c = B THEN {cron} ELSE {vec, cron}) \cap Ext]
MCDir == [c \in Configs |->
            [x \in Comp |->
                CASE x = pg -> "postgres"
                  [] x = vec -> "vec"
                  [] x = cron -> "cron"]]
MCPin == [c \in Configs |->
            [x \in Comp |->
                CASE x = pg -> "postgres 18"
                  [] x = vec -> IF c = B THEN "vec 2" ELSE "vec 1"
                  [] x = cron -> IF c = B THEN "cron 2" ELSE "cron 1"]]
=============================================================================
