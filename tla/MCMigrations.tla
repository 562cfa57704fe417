---------------------------- MODULE MCMigrations ----------------------------
(* Two processes; a first release, its successor, and successors whose     *)
(* second file was edited, cut short or given a COMMIT.                    *)
EXTENDS Migrations

CONSTANTS p1, p2, first, second, edited, cut, commits

Contents == [c \in {first, second, edited, cut, commits} |->
                IF c = cut THEN "truncated" ELSE IF c = commits THEN "control" ELSE "sound"]

\* Every release has the files of the one before it, but for the broken ones.
Upgrades == {[v \in 1 .. 2 |-> IF v = 1 THEN first ELSE c] :
                c \in {NULL, second, edited, cut, commits}}

\* A release of another branch lacks version 2 and has version 3.
Branches == {[v \in 1 .. 3 |-> IF v = 2 THEN two ELSE first] : two \in {NULL, second}}
=============================================================================
