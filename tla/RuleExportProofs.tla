--------------------------- MODULE RuleExportProofs ---------------------------
(***************************************************************************)
(* Proofs about the export of detection rules, for all sets of rules,      *)
(* texts and users and any number of edits: the type invariant, that a     *)
(* Threat Hunter exports her own texts, and that RuleExport implements     *)
(* RuleRelease. The strengthening says what the table of approvals and the *)
(* ownership column stand for: an entry that says approved names a text    *)
(* that was cleared for its rule, and the editor of a rule wrote its text. *)
(***************************************************************************)
EXTENDS RuleExport, TLAPS

\* Every approval in the table is backed by one that a human gave.
TableHonest ==
    \A r \in Rules : entry[r] # NoEntry /\ entry[r].status \in {"approved", "deployed"}
                        => <<r, entry[r].hash>> \in cleared

\* Only valid texts are approved.
ClearedValid == cleared \subseteq Rules \X Valid

\* A hunter may call the text of a rule her own when she is its last editor, or
\* when it has none.
OwnersWrote ==
    \A r \in Rules, h \in Hunters : editor[r] \in {h, NoEditor} => <<r, text[r], h>> \in wrote

RuleInv == RuleTypeOK /\ TableHonest /\ ClearedValid /\ OwnersWrote /\ HunterExportsOwn

-----------------------------------------------------------------------------
\* _get_rule_export_state calls a rule approved only when the table has an entry
\* for the very text of the rule.
LEMMA ApprovedEntry ==
    ASSUME RuleTypeOK, NEW r \in Rules, Approved(r)
    PROVE  /\ entry[r] \in Entries /\ entry[r].hash = text[r]
           /\ entry[r].status \in {"approved", "deployed"}
  BY DEF RuleTypeOK, Approved, Current, Fresh

\* So that a text which is handed out as approved was cleared.
LEMMA ApprovedIsCleared ==
    ASSUME RuleTypeOK, TableHonest, NEW r \in Rules, Approved(r)
    PROVE  <<r, text[r]>> \in cleared
  BY ApprovedEntry DEF TableHonest, NoEntry, Entries

\* What _get_rule_export_state returns is an entry for the text of the rule.
LEMMA CurrentIsEntry ==
    ASSUME RuleTypeOK, NEW r \in Rules
    PROVE  /\ Current(r) \in Entries /\ Current(r).hash = text[r]
           /\ Current(r) = entry[r] \/ Current(r) = Fresh(r)
  BY DEF RuleTypeOK, Current, Fresh, Entries

\* The strengthened invariant holds at the start.
LEMMA RuleInitInv == RuleInit => RuleInv
  BY RuleAssumption
  DEF RuleInit, RuleInv, RuleTypeOK, TableHonest, ClearedValid, OwnersWrote,
      HunterExportsOwn, Users

\* Every handler preserves it.
LEMMA RuleStepInv == RuleInv /\ [RuleNext]_ruleVars => RuleInv'
<1> SUFFICES ASSUME RuleInv, [RuleNext]_ruleVars PROVE RuleInv'
  OBVIOUS
<1> USE RuleAssumption DEF RuleInv
<1>1. ASSUME NEW r \in Rules, Look(r) PROVE RuleInv'
  <2>1. RuleTypeOK'
    BY <1>1, CurrentIsEntry DEF Look, RuleTypeOK
  <2>2. TableHonest'
    BY <1>1, CurrentIsEntry DEF Look, RuleTypeOK, TableHonest, Fresh
  <2>. QED
    BY <1>1, <2>1, <2>2 DEF Look, ClearedValid, OwnersWrote, HunterExportsOwn
<1>2. ASSUME NEW r \in Rules, NEW u \in Users, NEW t \in Texts, EditRule(r, u, t)
      PROVE  RuleInv'
  <2>1. RuleTypeOK'
    BY <1>2 DEF EditRule, RuleTypeOK
  <2>2. OwnersWrote'
    <3> SUFFICES ASSUME NEW q \in Rules, NEW h \in Hunters, editor'[q] \in {h, NoEditor}
                 PROVE  <<q, text'[q], h>> \in wrote'
      BY DEF OwnersWrote
    <3>1. CASE q = r
      BY <1>2, <3>1 DEF EditRule, RuleTypeOK, Users
    <3>2. CASE q # r
      BY <1>2, <3>2 DEF EditRule, RuleTypeOK, OwnersWrote
    <3>. QED
      BY <3>1, <3>2
  <2>3. TableHonest' /\ ClearedValid' /\ HunterExportsOwn'
    BY <1>2 DEF EditRule, TableHonest, ClearedValid, HunterExportsOwn
  <2>. QED
    BY <2>1, <2>2, <2>3
<1>3. ASSUME NEW r \in Rules, NEW u \in Users, ApproveRule(r, u) PROVE RuleInv'
  <2>1. RuleTypeOK'
    BY <1>3 DEF ApproveRule, RuleTypeOK, Entries
  <2>2. TableHonest'
    BY <1>3 DEF ApproveRule, RuleTypeOK, TableHonest
  <2>3. ClearedValid'
    BY <1>3 DEF ApproveRule, ClearedValid
  <2>. QED
    BY <1>3, <2>1, <2>2, <2>3 DEF ApproveRule, OwnersWrote, HunterExportsOwn
<1>4. ASSUME NEW r \in Rules, NEW u \in Users, MarkDeployed(r, u) PROVE RuleInv'
  <2>1. entry[r] \in Entries /\ <<r, entry[r].hash>> \in cleared
    BY <1>4, ApprovedEntry, ApprovedIsCleared DEF MarkDeployed
  <2>2. entry' = [entry EXCEPT ![r] = [status |-> "deployed", hash |-> entry[r].hash]]
    <3>1. [entry[r] EXCEPT !.status = "deployed"]
              = [status |-> "deployed", hash |-> entry[r].hash]
      BY <2>1 DEF Entries
    <3>. QED
      BY <1>4, <3>1 DEF MarkDeployed
  <2>3. RuleTypeOK'
    BY <1>4, <2>1, <2>2 DEF MarkDeployed, RuleTypeOK, Entries
  <2>4. TableHonest'
    BY <1>4, <2>1, <2>2 DEF MarkDeployed, RuleTypeOK, TableHonest
  <2>5. HunterExportsOwn'
    BY <1>4 DEF MarkDeployed, HunterExportsOwn
  <2>. QED
    BY <1>4, <2>3, <2>4, <2>5 DEF MarkDeployed, ClearedValid, OwnersWrote
<1>5. ASSUME NEW selected \in SUBSET Rules, NEW u \in Users, Export(selected, u)
      PROVE  RuleInv'
  <2>1. RuleTypeOK'
    BY <1>5 DEF Export, RuleTypeOK
  <2>2. HunterExportsOwn'
    BY <1>5 DEF Export, HunterExportsOwn, MayExport, OwnersWrote
  <2>. QED
    BY <1>5, <2>1, <2>2 DEF Export, TableHonest, ClearedValid, OwnersWrote
<1>6. CASE ForgetApprovals
  BY <1>6 DEF ForgetApprovals, RuleTypeOK, TableHonest, ClearedValid, OwnersWrote,
              HunterExportsOwn
<1>7. CASE UNCHANGED ruleVars
  BY <1>7 DEF ruleVars, RuleTypeOK, TableHonest, ClearedValid, OwnersWrote,
              HunterExportsOwn, NoEntry
<1>. QED
  BY <1>1, <1>2, <1>3, <1>4, <1>5, <1>6, <1>7 DEF RuleNext

\* The strengthened invariant.
THEOREM RuleInvariant == RuleSpec => []RuleInv
  BY RuleInitInv, RuleStepInv, PTL DEF RuleSpec

\* The types of the handlers' data, the entries of the table above all.
THEOREM RuleTypeSafety == RuleSpec => []RuleTypeOK
<1>1. RuleInv => RuleTypeOK
  BY DEF RuleInv
<1>. QED
  BY <1>1, RuleInvariant, PTL

\* No Threat Hunter exports a text that a colleague wrote.
THEOREM HuntersExportTheirOwn == RuleSpec => []HunterExportsOwn
<1>1. RuleInv => HunterExportsOwn
  BY DEF RuleInv
<1>. QED
  BY <1>1, RuleInvariant, PTL

-----------------------------------------------------------------------------
(* The refinement *)

\* A release of RuleExport, without its users.
Pairs == {<<x[1], x[2]>> : x \in released}

\* An approval is a Clear, a deployment or an export a Release, and everything
\* else a stutter: an edit in particular takes nothing back from the past and
\* adds nothing to what may be released.
LEMMA ReleaseStep ==
    ASSUME RuleInv, RuleInv', [RuleNext]_ruleVars
    PROVE  [Release!Next]_<<cleared, Pairs>>
<1> USE RuleAssumption DEF RuleInv
<1>1. ASSUME NEW r \in Rules, NEW u \in Users, ApproveRule(r, u) PROVE Release!Next
  <2>1. Release!Clear(r, text[r])
    BY <1>1 DEF ApproveRule, Release!Clear
  <2>2. text[r] \in Valid
    BY <1>1 DEF ApproveRule
  <2>. QED
    BY <2>1, <2>2 DEF Release!Next
<1>2. ASSUME NEW r \in Rules, NEW u \in Users, MarkDeployed(r, u) PROVE Release!Next
  <2> DEFINE handed == {<<r, text[r]>>}
  <2>1. handed \in SUBSET cleared
    BY <1>2, ApprovedIsCleared DEF MarkDeployed
  <2>2. Pairs' = handed
    BY <1>2 DEF MarkDeployed, Pairs
  <2>3. Release!Release(handed)
    BY <1>2, <2>1, <2>2 DEF MarkDeployed, Release!Release, Pairs
  <2> HIDE DEF handed
  <2>. QED
    BY <2>1, <2>3, Zenon DEF Release!Next, Release!Release
<1>3. ASSUME NEW selected \in SUBSET Rules, NEW u \in Users, Export(selected, u)
      PROVE  Release!Next
  <2> DEFINE mine   == {r \in selected : MayExport(u, r)}
             handed == {<<r, text[r]>> : r \in mine}
  <2>1. released' = {<<r, text[r], u>> : r \in mine} /\ UNCHANGED cleared
    BY <1>3 DEF Export
  <2>2. \A r \in mine : <<r, text[r]>> \in cleared
    BY <1>3, ApprovedIsCleared DEF Export
  <2>3. handed \in SUBSET cleared
    BY <2>2
  <2>4. Pairs' = handed
    <3> HIDE DEF mine
    <3>1. ASSUME NEW p \in Pairs' PROVE p \in handed
      <4>1. PICK x \in released' : p = <<x[1], x[2]>>
        BY <3>1 DEF Pairs
      <4>2. PICK r \in mine : x = <<r, text[r], u>>
        BY <2>1, <4>1
      <4>. QED
        BY <4>1, <4>2
    <3>2. ASSUME NEW r \in mine PROVE <<r, text[r]>> \in Pairs'
      <4> DEFINE x == <<r, text[r], u>>
      <4>1. x \in released' /\ <<x[1], x[2]>> = <<r, text[r]>>
        BY <2>1
      <4>. QED
        BY <4>1 DEF Pairs
    <3>. QED
      BY <3>1, <3>2
  <2>5. Release!Release(handed)
    BY <2>1, <2>3, <2>4 DEF Release!Release, Pairs
  <2> HIDE DEF handed
  <2>. QED
    BY <2>3, <2>5, Zenon DEF Release!Next, Release!Release
<1>4. ASSUME \/ \E r \in Rules : Look(r)
             \/ \E r \in Rules, u \in Users, t \in Texts : EditRule(r, u, t)
             \/ ForgetApprovals
             \/ UNCHANGED ruleVars
      PROVE  UNCHANGED <<cleared, Pairs>>
  BY <1>4 DEF Look, EditRule, ForgetApprovals, ruleVars, Pairs
<1>. QED
  BY <1>1, <1>2, <1>3, <1>4 DEF RuleNext

\* Nothing is exported or deployed but a valid text that a human has approved
\* for that rule.
THEOREM ExportImplementsRelease == RuleSpec => ImplementsRelease
<1>1. RuleInit => Release!Init
  BY DEF RuleInit, Release!Init
<1>2. RuleInv /\ RuleInv' /\ [RuleNext]_ruleVars => [Release!Next]_<<cleared, Pairs>>
  BY ReleaseStep
<1>. QED
  BY <1>1, <1>2, RuleInvariant, PTL DEF RuleSpec, ImplementsRelease, Release!Spec, Pairs
=============================================================================
