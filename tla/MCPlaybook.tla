---------------------------- MODULE MCPlaybook ----------------------------
(* Six steps for TLC: a branch, a conditional gate, a tool that needs the  *)
(* gate's result and goes back on failure, a gated batch, a batch, and an  *)
(* action that needs the tool's result.                                    *)
EXTENDS PlaybookEngine

CONSTANTS starter, c1, c2

MCKind      == <<"decision", "tool", "tool", "each", "each", "action">>
MCGated     == {2, 4}
MCNeeds     == <<{}, {}, {2}, {}, {2}, {3}>>
MCOnSuccess == <<2, 7, 7, 7, 7, 7>>
MCOnFailure == <<4, 7, 1, 0, 7, 7>>
=============================================================================
