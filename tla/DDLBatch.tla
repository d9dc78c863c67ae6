------------------------------ MODULE DDLBatch ------------------------------
(***************************************************************************)
(* What ExecLogicalSchema promises about the statements it is given, with  *)
(* no word about goroutines and channels: every CREATE is tried once, in   *)
(* any order; only then are the CREATEs that met a retriable error tried   *)
(* once more, and after those the ALTERs in the order of the files; the    *)
(* statements whose last attempt failed are reported.                      *)
(***************************************************************************)
EXTENDS WorkspaceDDL

VARIABLES
    applied,    \* statements in force in the workspace
    attempts,   \* per statement, the errors of the attempts made so far
    phase,      \* "first", "second" or "reported"
    report      \* statements reported as failed

batchVars == <<applied, attempts, phase, report>>

BatchInit ==
    /\ applied = {}
    /\ attempts = [s \in Statements |-> <<>>]
    /\ phase = "first"
    /\ report = {}

Attempt(s) ==
    \E r \in Replies(s, applied) :
        /\ attempts' = [attempts EXCEPT ![s] = Append(@, r[1])]
        /\ applied' = r[2]

FirstAttempt(s) ==
    /\ phase = "first"
    /\ attempts[s] = <<>>
    /\ Attempt(s)
    /\ UNCHANGED <<phase, report>>

EndFirst ==
    /\ phase = "first"
    /\ \A s \in Creates : attempts[s] # <<>>
    /\ phase' = "second"
    /\ UNCHANGED <<applied, attempts, report>>

\* CREATEs with a second attempt to come.
ToRetry == {s \in Creates : Len(attempts[s]) = 1 /\ Retriable(attempts[s][1])}

SecondAttempt(s) ==
    /\ phase = "second"
    /\ s \in ToRetry
    /\ Attempt(s)
    /\ UNCHANGED <<phase, report>>

RunAlter(i) ==
    /\ phase = "second"
    /\ ToRetry = {}
    /\ attempts[Alters[i]] = <<>>
    /\ \A j \in 1..(i - 1) : attempts[Alters[j]] # <<>>
    /\ Attempt(Alters[i])
    /\ UNCHANGED <<phase, report>>

Report ==
    /\ phase = "second"
    /\ ToRetry = {}
    /\ \A s \in Range(Alters) : attempts[s] # <<>>
    /\ report' = {s \in Statements : attempts[s][Len(attempts[s])] # "nil"}
    /\ phase' = "reported"
    /\ UNCHANGED <<applied, attempts>>

BatchNext ==
    \/ \E s \in Creates : FirstAttempt(s) \/ SecondAttempt(s)
    \/ EndFirst
    \/ \E i \in DOMAIN Alters : RunAlter(i)
    \/ Report

BatchSpec == BatchInit /\ [][BatchNext]_batchVars
=============================================================================
