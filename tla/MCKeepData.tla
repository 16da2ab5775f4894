------------------------------ MODULE MCKeepData ------------------------------
(***************************************************************************)
(* The threads of the instance of KeepData.                                *)
(***************************************************************************)
EXTENDS KeepData, TLC

CONSTANTS thread, other

\* One thread counts Stores and translation projects, with contexts in one another;
\* the other counts Stores.
MCOuter == [t \in Threads |-> IF t = thread THEN {"store", "tp"} ELSE {"store"}]
MCMaxNested == [t \in Threads |-> IF t = thread THEN 2 ELSE 1]
\* A run stops where threads have crossed.
NotCrossed == Apart
===============================================================================
