------------------------ MODULE MCExecLogicalSchema ------------------------
(***************************************************************************)
(* A schema with a plain table, a CREATE TABLE ... LIKE it, an invalid     *)
(* statement, and ALTERs of the plain and of the invalid table.            *)
(***************************************************************************)
EXTENDS ExecLogicalSchema

CONSTANTS base, like, bad, alterBase, alterBad

MCCreates == {base, like, bad}
MCAlters == <<alterBase, alterBad>>
MCNeeds == [s \in Statements |->
    CASE s = like -> {base}
      [] s = alterBase -> {base}
      [] s = alterBad -> {bad}
      [] OTHER -> {}]
MCInvalid == {bad}
=============================================================================
