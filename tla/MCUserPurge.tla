----------------------------- MODULE MCUserPurge -----------------------------
(***************************************************************************)
(* Instances of UserPurge for TLC: a translated unit of the file, and one  *)
(* that is only there if somebody adds it.                                 *)
(***************************************************************************)
EXTENDS UserPurge, TLC

CONSTANTS evil, other, system

MCImported == [u \in Units |->
                 IF u = "u" THEN [target |-> "a", state |-> TRANSLATED] ELSE NULL]
MCUntranslated == [u \in Units |-> [target |-> "", state |-> UNTRANSLATED]]
=============================================================================
