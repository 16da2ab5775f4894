------------------------------ MODULE MCLocalFS ------------------------------
(***************************************************************************)
(* The sets of commands and globs that the run gives to LocalFS.           *)
(***************************************************************************)
EXTENDS LocalFS, TLC

readd == [cmd |-> "add", force |-> TRUE, update |-> "all"]
rm_force == [cmd |-> "rm", force |-> TRUE, update |-> "all"]
resolve(pootle_wins) ==
  [cmd |-> "resolve", merge |-> FALSE, pootle_wins |-> pootle_wins]

Overwrites == {readd, rm_force, resolve(TRUE), SyncAll}
\* Every command is for all paths.  A glob would only make it faulty.
NoGlob == {Paths}
==============================================================================
