---------------------------- MODULE MCTempSchema ----------------------------
(***************************************************************************)
(* Two processes, one that drops the temporary schema and one that keeps   *)
(* it and asks for a character set; they share one table name.             *)
(***************************************************************************)
EXTENDS TempSchema

CONSTANTS p1, p2, a, b, r

MCWanted == [p \in Procs |-> Objects \cap (IF p = p1 THEN {a, r} ELSE {a})]
MCCharSet == [p \in Procs |-> IF p = p1 THEN "none" ELSE "utf8mb4"]
=============================================================================
