--------------------------- MODULE ApprovalLedger ---------------------------
(***************************************************************************)
(* What the approval gate promises, whoever implements it: a tool that is *)
(* registered with requires_approval runs at most once per grant written   *)
(* to the agent audit log, and the grant is written before the run.        *)
(* Runs of the other tools need no grant.                                  *)
(***************************************************************************)
EXTENDS Naturals

CONSTANTS
    Tools,      \* every tool of the registry
    Protected   \* the tools registered with requires_approval

VARIABLES
    grants,     \* approval_granted entries of the audit log, per tool
    runs        \* executions of the tool, per tool

ledgerVars == <<grants, runs>>

Init ==
    /\ grants = [t \in Tools |-> 0]
    /\ runs = [t \in Tools |-> 0]

\* The audit log gains the approval of one execution of t.
Grant(t) ==
    /\ grants' = [grants EXCEPT ![t] = @ + 1]
    /\ UNCHANGED runs

\* t is executed; a protected tool uses up a grant that nothing used yet.
Run(t) ==
    /\ t \in Protected => runs[t] < grants[t]
    /\ runs' = [runs EXCEPT ![t] = @ + 1]
    /\ UNCHANGED grants

Next == \E t \in Tools : Grant(t) \/ Run(t)

Spec == Init /\ [][Next]_ledgerVars
=============================================================================
