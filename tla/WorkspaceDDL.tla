---------------------------- MODULE WorkspaceDDL ----------------------------
(***************************************************************************)
(* The statements of one LogicalSchema and the database server that runs   *)
(* them in a workspace.                                                    *)
(*                                                                         *)
(* A statement is a model value.  The effect of a set of statements on the *)
(* workspace schema is the set itself: an object exists when its CREATE    *)
(* took effect, an ALTER is in force when it took effect.                  *)
(***************************************************************************)
EXTENDS Integers, Sequences, FiniteSets, Functions

CONSTANTS
    Creates,    \* the values of LogicalSchema.Creates, a Go map: no order
    Alters,     \* LogicalSchema.Alters, a slice
    Needs,      \* the objects a statement refers to: the base table of a
                \* CREATE TABLE ... LIKE, the table of an ALTER TABLE
    Invalid,    \* statements that the server rejects whatever the schema is
    Faults      \* what the environment may do to a statement:
                \*   "lock"  a deadlock or metadata lock wait timeout
                \*   "conn"  the connection is lost before the reply arrives

Statements == Creates \cup Range(Alters)

ASSUME StatementsAssumption ==
    /\ IsFiniteSet(Creates)
    /\ Alters \in Seq(Range(Alters))
    /\ Creates \cap Range(Alters) = {}
    /\ IsInjective(Alters)
    /\ Needs \in [Statements -> SUBSET Creates]
    /\ Invalid \subseteq Statements
    /\ Faults \subseteq {"lock", "conn"}

\* The error classes that the code tells apart.  "lock" stands for
\* ER_LOCK_DEADLOCK and ER_LOCK_WAIT_TIMEOUT, "other" for every other error.
Errors == {"nil", "lock", "nosuchtable", "other"}

(***************************************************************************)
(* The server (external): every pair of an error and a schema that running *)
(* statement s may end with when the statements in `applied` are in force. *)
(* foreign_key_checks=0, so a missing parent table is not an error.        *)
(***************************************************************************)
Replies(s, applied) ==
    LET accepts == s \notin Invalid /\ Needs[s] \subseteq applied
        effect  == IF accepts THEN applied \cup {s} ELSE applied
        error   == IF accepts THEN "nil"
                   ELSE IF s \in Invalid THEN "other" ELSE "nosuchtable"
    IN  {<<error, effect>>}
        \cup {<<"lock", applied>> : f \in Faults \cap {"lock"}}
        \cup {<<"other", a>> : a \in IF "conn" \in Faults
                                     THEN {applied, effect} ELSE {}}

\* Mutant of Retriable: ER_NO_SUCH_TABLE is not in the list.
RetriableOnlyLock(err) == err \in {"lock"}

\* The errors that earn a statement a second, sequential attempt.
Retriable(err) == err \in {"lock", "nosuchtable"}
=============================================================================
