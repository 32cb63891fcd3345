------------------------------- MODULE MCTalk -------------------------------
(***************************************************************************)
(* Talk for TLC: anna calls bert, who is on another machine, bert calls    *)
(* anna, and carl, who is on anna's machine, calls bert.                   *)
(***************************************************************************)
EXTENDS Talk

MeOf == [c \in Clients |-> CASE c = "a1" -> "anna" [] c = "b1" -> "bert" [] c = "c1" -> "carl"]
PeerOf == [c \in Clients |-> IF c = "b1" THEN "anna" ELSE "bert"]
Machines == [u \in Users |-> IF u = "bert" THEN "far" ELSE "near"]
=============================================================================
