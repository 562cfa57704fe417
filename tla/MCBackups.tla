----------------------------- MODULE MCBackups -----------------------------
(***************************************************************************)
(* Two servers; a day of three ticks, of which a row is pending for one    *)
(* and a slow copy takes two, so that two copies may meet; one day kept.   *)
(***************************************************************************)
EXTENDS Backups
=============================================================================
