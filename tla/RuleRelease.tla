----------------------------- MODULE RuleRelease -----------------------------
(***************************************************************************)
(* What the export of detection rules promises, however it keeps its       *)
(* books: the export endpoints hand a rule out, or count it as deployed,   *)
(* only with a text that passed validation and that a human has approved   *)
(* for that very rule. An approval is of a text, so that an edit needs a   *)
(* new one.                                                                *)
(***************************************************************************)
CONSTANTS
    Rules,      \* the rule types of an analysis
    Valid       \* the texts that validate_rule accepts

VARIABLES
    cleared,    \* <<rule, text>> pairs that were approved
    released    \* the pairs of the last release

Init == cleared = {} /\ released = {}

\* A human approves the text that the rule has now.
Clear(r, t) ==
    /\ cleared' = cleared \cup {<<r, t>>}
    /\ UNCHANGED released

\* One or several rules are handed out, or marked as deployed.
Release(pairs) ==
    /\ pairs \subseteq cleared
    /\ released' = pairs
    /\ UNCHANGED cleared

Next ==
    \/ \E r \in Rules, t \in Valid : Clear(r, t)
    \/ \E pairs \in SUBSET cleared : Release(pairs)

Spec == Init /\ [][Next]_<<cleared, released>>
=============================================================================
