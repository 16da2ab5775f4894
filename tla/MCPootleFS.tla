------------------------------ MODULE MCPootleFS ------------------------------
(***************************************************************************)
(* The sets of commands that the runs give to PootleFS.                    *)
(***************************************************************************)
EXTENDS PootleFS, TLC

add == [cmd |-> "add", force |-> FALSE, update |-> "all"]
readd == [cmd |-> "add", force |-> TRUE, update |-> "all"]
rm_force == [cmd |-> "rm", force |-> TRUE, update |-> "all"]
unstage == [cmd |-> "unstage"]
resolve(merge, pootle_wins) ==
  [cmd |-> "resolve", merge |-> merge, pootle_wins |-> pootle_wins]

\* Every command with every combination of its options
AllCommands == Command
\* Without merges
Overwrites == {readd, rm_force, unstage, SyncAll}
              \cup {resolve(FALSE, w) : w \in BOOLEAN}
\* Merges
Merges == {add, SyncAll} \cup {resolve(TRUE, w) : w \in BOOLEAN}
\* For two processes
Shared == {add, resolve(TRUE, FALSE), unstage, SyncAll}
\* For an edit in the middle of a sync
AddAndSync == {add, SyncAll}

Symmetry == Permutations(Procs)
=============================================================================
