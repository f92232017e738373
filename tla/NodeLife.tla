------------------------------ MODULE NodeLife ------------------------------
(***************************************************************************)
(* What a worker thread of the engine does with the changer of one node     *)
(* (_run_node, _finalise_node and _maybe_rollback in state_ctl.py), seen    *)
(* from the changer: assess_state, then transition if it is READY, then     *)
(* assess_state again, and after a failure the transition of the inverse    *)
(* that rollback() returns.  The inverse is never asked to assess.          *)
(*                                                                         *)
(* A module of a changer extends this one and conjoins its own steps on the *)
(* host with these operators; StateCtl is the engine around them.           *)
(***************************************************************************)
CONSTANT Node  \* the nodes whose changers share the host

VARIABLES
  phase,    \* where the worker is with the changer of each node
  outcome,  \* the outcome of the report, "NONE" until it is made
  result,   \* how the transition ended
  undo      \* the status of rollback_result

lifeVars == <<phase, outcome, result, undo>>

Status == {"SUCCESS", "FAILURE", "SKIPPED"}

LifeInit ==
  /\ phase = [n \in Node |-> "assess"]
  /\ outcome = [n \in Node |-> "NONE"]
  /\ result = [n \in Node |-> "NONE"]
  /\ undo = [n \in Node |-> "NONE"]

\* start() is called again: every node is assessed anew.
LifeAgain ==
  /\ phase' = [n \in Node |-> "assess"]
  /\ outcome' = [n \in Node |-> "NONE"]
  /\ result' = [n \in Node |-> "NONE"]
  /\ undo' = [n \in Node |-> "NONE"]

Goto(n, p) == phase' = [phase EXCEPT ![n] = p]

Report(n, o) ==
  /\ Goto(n, "done")
  /\ outcome' = [outcome EXCEPT ![n] = o]

\* A failed node goes on to its rollback.
Failed(n) == Goto(n, "rollback") /\ UNCHANGED outcome

Assess(n, state) ==
  /\ phase[n] = "assess"
  /\ \/ state = "READY" /\ Goto(n, "transition") /\ UNCHANGED outcome
     \/ state = "ALREADY_APPLIED" /\ Report(n, "SKIPPED_ALREADY_APPLIED")
     \/ state = "INVALID" /\ Report(n, "FAILED_INVALID")
  /\ UNCHANGED <<result, undo>>

\* transition() returns.
Returns(n, status) ==
  /\ result' = [result EXCEPT ![n] = status]
  /\ \/ status = "SUCCESS" /\ Goto(n, "verify") /\ UNCHANGED outcome
     \/ status = "SKIPPED" /\ Report(n, "SKIPPED_BY_TRANSITION")
     \/ status = "FAILURE" /\ Failed(n)
  /\ UNCHANGED undo

\* The second assess_state; anything but ALREADY_APPLIED is a mismatch.
Verify(n, state) ==
  /\ phase[n] = "verify"
  /\ \/ state = "ALREADY_APPLIED" /\ Report(n, "SUCCESS") /\ UNCHANGED result
     \/ /\ state # "ALREADY_APPLIED"
        /\ result' = [result EXCEPT ![n] = "MISMATCH"]
        /\ Failed(n)
  /\ UNCHANGED undo

\* The transition of the inverse returns.
Undone(n, status) ==
  /\ undo' = [undo EXCEPT ![n] = status]
  /\ Report(n, "FAILED_TRANSITION")
  /\ UNCHANGED result

\* A changer that is no RollbackableStateChanger has nothing to undo.
NoInverse(n) ==
  /\ phase[n] = "rollback"
  /\ Report(n, "FAILED_TRANSITION")
  /\ UNCHANGED <<result, undo>>

\* The phases are left to the changer, which may add some of its own.
LifeTypeOK ==
  /\ outcome \in [Node -> {"NONE", "SUCCESS", "SKIPPED_ALREADY_APPLIED",
                           "SKIPPED_BY_TRANSITION", "FAILED_INVALID",
                           "FAILED_TRANSITION"}]
  /\ result \in [Node -> Status \cup {"NONE", "MISMATCH"}]
  /\ undo \in [Node -> Status \cup {"NONE"}]
=============================================================================
