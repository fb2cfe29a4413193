------------------------------ MODULE RuleExport ------------------------------
(***************************************************************************)
(* Detection rules of a finished analysis: edits, export approval, export  *)
(* and manual deployment. The texts and the last editor of each rule are   *)
(* in the database; the approvals are in a dictionary of the process, each *)
(* with the hash of the text it is for, and a hash that does not fit is    *)
(* noticed at the next look and starts over. The handlers do not await, so *)
(* that each of them is one step of the event loop.                        *)
(*                                                                         *)
(* A hash is the text itself. Who approved and when is left out, and so    *)
(* are reports and results, in which the text is shown without approval.   *)
(***************************************************************************)
EXTENDS Naturals

CONSTANTS
    Rules,        \* rule types of the analysis
    Texts,        \* what a rule may say
    Valid,        \* the texts that validate_rule accepts
    Hunters,      \* users with the Threat Hunter role
    Admins,       \* users with the admin role
    Responders,   \* Incident Responders: they approve, deploy and export; as
                  \* to approvals, Team Leads are among them
    NoEditor,     \* the rule is as the analysis generated it
    MaxEdits      \* bound on edits

ASSUME RuleAssumption ==
    /\ Valid \subseteq Texts
    /\ NoEditor \notin Hunters \cup Admins \cup Responders
    /\ Hunters \cap (Admins \cup Responders) = {}
    /\ MaxEdits \in Nat

VARIABLES
    text,         \* result.detection_rules of the analysis
    editor,       \* detection_rule_ownership.last_edited_by
    entry,        \* _rule_export_states
    edits,        \* edits so far, for the bound
    cleared,      \* history: what was approved
    released,     \* history: the last release, <<rule, text, user>>
    wrote         \* history: <<rule, text, user>> a hunter may call her own

ruleVars == <<text, editor, entry, edits, cleared, released, wrote>>

Users == Hunters \cup Admins \cup Responders
NoEntry == [status |-> "none"]
Entries == [status : {"pending_export", "approved", "deployed"}, hash : Texts]

RuleTypeOK ==
    /\ text \in [Rules -> Texts]
    /\ editor \in [Rules -> Users \cup {NoEditor}]
    /\ entry \in [Rules -> {NoEntry} \cup Entries]
    /\ edits \in 0..MaxEdits
    /\ cleared \subseteq Rules \X Texts
    /\ released \subseteq Rules \X Texts \X Users
    /\ wrote \subseteq Rules \X Texts \X Hunters

\* What the analysis generated has no owner and is anybody's.
RuleInit ==
    /\ text \in [Rules -> Texts]
    /\ editor = [r \in Rules |-> NoEditor]
    /\ entry = [r \in Rules |-> NoEntry]
    /\ edits = 0 /\ cleared = {} /\ released = {}
    /\ wrote = {<<r, text[r], h>> : r \in Rules, h \in Hunters}
-----------------------------------------------------------------------------
(* The table of approvals *)

Fresh(r) == [status |-> "pending_export", hash |-> text[r]]

\* Mutant: the hash is stored and not compared.
EntryOnceMade(r) == IF entry[r] = NoEntry THEN Fresh(r) ELSE entry[r]

\* _get_rule_export_state: an entry for another text is replaced.
Current(r) ==
    IF entry[r] # NoEntry /\ entry[r].hash = text[r] THEN entry[r] ELSE Fresh(r)

Approved(r) == Current(r).status \in {"approved", "deployed"}

\* Mutant: hunters may export whatever rule they once edited.
OnceEdited(u, r) ==
    u \in Hunters => editor[r] = NoEditor \/ \E t \in Texts : <<r, t, u>> \in wrote

\* _threat_hunter_can_export_rule.
MayExport(u, r) == u \in Hunters => editor[r] \in {u, NoEditor}

\* The status endpoint, and a download or bundle refused for want of approval:
\* the entry of the rule that was looked at is brought up to date.
Look(r) ==
    /\ entry' = [entry EXCEPT ![r] = Current(r)]
    /\ UNCHANGED <<text, editor, edits, cleared, released, wrote>>

-----------------------------------------------------------------------------
(* The handlers *)

\* update_rule_content: the text and its owner in one transaction; the table of
\* approvals is not touched.
EditRule(r, u, t) ==
    /\ edits < MaxEdits /\ u \in Hunters \cup Admins /\ t \in Valid
    /\ edits' = edits + 1
    /\ text' = [text EXCEPT ![r] = t]
    /\ editor' = [editor EXCEPT ![r] = u]
    /\ wrote' = wrote \cup ({<<r, t, u>>} \cap (Rules \X Texts \X Hunters))
    /\ UNCHANGED <<entry, cleared, released>>

\* Mutant: the entry is updated without being looked up before.
ApproveBlind(r, u) ==
    /\ u \in Responders \cup Admins /\ text[r] \in Valid
    /\ entry' = [entry EXCEPT ![r].status = "approved"]
    /\ cleared' = cleared \cup {<<r, text[r]>>}
    /\ UNCHANGED <<text, editor, edits, released, wrote>>

\* approve_rule_export: of the text as it is now; a deployment is forgotten.
ApproveRule(r, u) ==
    /\ u \in Responders \cup Admins /\ text[r] \in Valid
    /\ entry' = [entry EXCEPT ![r] = [status |-> "approved", hash |-> text[r]]]
    /\ cleared' = cleared \cup {<<r, text[r]>>}
    /\ UNCHANGED <<text, editor, edits, released, wrote>>

\* mark_rule_deployed.
MarkDeployed(r, u) ==
    /\ u \in Responders \cup Admins /\ Approved(r)
    /\ entry' = [entry EXCEPT ![r].status = "deployed"]
    /\ released' = {<<r, text[r], u>>}
    /\ UNCHANGED <<text, editor, edits, cleared, wrote>>

\* download_detection_rule and export_detection_rules_zip: of the selection a
\* hunter gets what she may export, if all of that is approved and it is not
\* nothing. A download selects one rule.
Export(selected, u) ==
    LET mine == {r \in selected : MayExport(u, r)} IN
        /\ mine # {} /\ \A r \in mine : Approved(r)
        /\ released' = {<<r, text[r], u>> : r \in mine}
        /\ UNCHANGED <<text, editor, entry, edits, cleared, wrote>>

\* A restart of the process loses the table, not the texts.
ForgetApprovals ==
    /\ entry' = [r \in Rules |-> NoEntry]
    /\ UNCHANGED <<text, editor, edits, cleared, released, wrote>>

RuleNext ==
    \/ \E r \in Rules : Look(r)
    \/ \E r \in Rules, u \in Users :
          \/ \E t \in Texts : EditRule(r, u, t)
          \/ ApproveRule(r, u) \/ MarkDeployed(r, u)
    \/ \E selected \in SUBSET Rules, u \in Users : Export(selected, u)
    \/ ForgetApprovals

RuleSpec == RuleInit /\ [][RuleNext]_ruleVars

-----------------------------------------------------------------------------
(* Properties *)

Release == INSTANCE RuleRelease WITH
               released <- {<<x[1], x[2]>> : x \in released}

\* Nothing is exported (downloaded or bundled) or marked as deployed but a valid
\* text that a human approved for that rule, whatever edits, looks and restarts
\* lie between the approval and the export.
ImplementsRelease == Release!Spec

\* A Threat Hunter takes out no text but her own or the analysis's: not the one
\* a colleague wrote over hers, even when it is approved.
HunterExportsOwn ==
    \A x \in released : x[3] \in Hunters => x \in wrote
=============================================================================
