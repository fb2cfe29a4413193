---------------------------- MODULE PlaybookProofs ----------------------------
(***************************************************************************)
(* Proofs about a playbook session, for every playbook, any number of      *)
(* approve and reject calls (infinitely many included), any step limit,    *)
(* any number of failing writes, and restarts: types, the step limit, and  *)
(* the three safety invariants.                                            *)
(***************************************************************************)
EXTENDS PlaybookEngine, FiniteSetTheorems, TLAPS

\* No run, and no checkpoint, is past the step limit.
StepsAreCounted ==
    /\ \A r \in Runs : run[r].num <= StepLimit
    /\ checkpoint # NoCheckpoint => checkpoint.num <= StepLimit

\* Between the two writes of the gate the first one is there.
MarkedFirst == \A r \in Runs : run[r].pc = "marked" => checkpoint # NoCheckpoint

\* A tool belongs to a step.
ToolHasStep == \A r \in Runs : run[r].pc \in {"tool", "approved", "audited"} => run[r].step # End

\* The calls that have run the gated tool of s and have not audited it: finitely
\* many, as they came one by one.
Unaudited(s) == {c \in Calls : run[c].pc \in {"approved", "cut"} /\ run[c].step = s}
FewUnaudited == \A s \in Gated : IsFiniteSet(Unaudited(s))

PlaybookInv ==
    /\ TypeOK /\ StepsAreCounted
    /\ ToolHasStep /\ MarkedFirst /\ WaitingIsResumable
    /\ FewUnaudited /\ GatedRunsAudited
    /\ ActiveIsAlive

-----------------------------------------------------------------------------
(* Helpers *)

RunStates == [pc : Pcs, step : 0..NumSteps, num : Nat, ctx : Contexts, blame : 0..NumSteps]

\* Every branch of a step leads to a step or to the end.
LEMMA ResolveType ==
    ASSUME NEW s \in Steps
    PROVE  Resolve(s, OnSuccess[s]) \in 0..NumSteps /\ Resolve(s, OnFailure[s]) \in 0..NumSteps
<1>1. ASSUME NEW t \in 0..Default PROVE Resolve(s, t) \in 0..NumSteps
  BY PlaybookAssumption DEF Resolve, Default, Steps, End
<1>. QED
  BY <1>1, PlaybookAssumption

LEMMA ContextType ==
    ASSUME NEW ctx \in Contexts, NEW s \in Steps
    PROVE  /\ With(ctx, s) \in Contexts /\ Without(ctx, s) \in Contexts
           /\ \A usable \in BOOLEAN : After(ctx, s, usable) \in Contexts
           /\ [Without(ctx, s) EXCEPT !.rejected = @ \cup {s}] \in Contexts
<1>1. With(ctx, s) \in Contexts /\ Without(ctx, s) \in Contexts
  BY DEF With, Without, Contexts
<1>2. ASSUME NEW x \in Contexts PROVE [x EXCEPT !.rejected = @ \cup {s}] \in Contexts
  BY DEF Contexts
<1>. QED
  BY <1>1, <1>2 DEF After

\* What every step of one run leaves alone, or keeps in its type.
Moves(r) ==
    /\ run' \in [Runs -> RunStates] /\ turn' \in Runs
    /\ \A q \in Runs : q # r => run'[q] = run[q]

LEMMA OnwardMoves ==
    ASSUME TypeOK, NEW r \in Runs, NEW s \in 0..NumSteps, NEW n \in Nat, NEW ctx \in Contexts,
           Onward(r, s, n, ctx), Keep(r) \/ Release(r)
    PROVE  Moves(r) /\ run'[r].pc = "loop" /\ run'[r].num = n
<1>1. turn' \in Runs
  BY DEF TypeOK, Keep, Release, NoCall, Runs
<1>2. [run[r] EXCEPT !.pc = "loop", !.step = s, !.num = n, !.ctx = ctx] \in RunStates
  BY DEF TypeOK, RunStates, Pcs, Live
<1>. QED
  BY <1>1, <1>2 DEF TypeOK, RunStates, Onward, Moves

LEMMA EndsMoves ==
    ASSUME TypeOK, NEW r \in Runs, NEW pc \in {"over", "lost", "cut"}, Ends(r, pc)
    PROVE  /\ Moves(r) /\ run'[r].pc = pc /\ run'[r].num = 0
           /\ run'[r].step = run[r].step
<1>1. Empty \in Contexts
  BY DEF Empty, Contexts
<1>. QED
  BY <1>1 DEF TypeOK, RunStates, Ends, Release, NoCall, Moves, Pcs, Runs

\* A step of the loop, the two after an approved tool aside: the run goes on, or it ends and the status
\* says how; no gated tool runs.
Advances(r) ==
    /\ Moves(r)
    /\ run[r].pc \in {"loop", "marked", "tool"}
    /\ \/ run'[r].pc \in {"loop", "marked", "tool"} /\ status' = status
       \/ /\ run'[r].pc = "over" /\ run[r].pc # "marked"
          /\ status' \in {"completed", "failed"}
       \/ run'[r].pc = "over" /\ run[r].pc = "marked" /\ status' = "waiting_approval"
    /\ run'[r].num <= StepLimit /\ (run'[r].pc = "tool" => run'[r].step # End)
    /\ pauses' \in [Steps -> Nat] /\ ran' \in [Steps -> Nat]
    /\ \A s \in Gated : ran'[s] = ran[s]
    /\ granted' = granted /\ faults' = faults
    /\ \/ checkpoint' = checkpoint /\ run'[r].pc # "marked"
       \/ /\ checkpoint' \in Checkpoints /\ checkpoint'.step \in Gated
          /\ Needs[checkpoint'.step] \subseteq checkpoint'.ctx.have
          /\ checkpoint'.num <= StepLimit

LEMMA SliceAdvances ==
    ASSUME TypeOK, StepsAreCounted, ToolHasStep, NEW r \in Runs, Slice(r),
           run[r].pc \notin {"approved", "audited"}
    PROVE  Advances(r)
<1> USE PlaybookAssumption, RunAssumption
<1>0. /\ run[r] \in RunStates /\ run[r].num <= StepLimit /\ Gated \subseteq Steps
      /\ Conditional \subseteq Steps
  BY DEF TypeOK, RunStates, StepsAreCounted
<1>1. ASSUME NEW s \in Steps, At(r, s)
      PROVE  Number(r) \in Nat /\ Number(r) <= StepLimit
  BY <1>0, <1>1 DEF At, Number, RunStates
<1>2. ASSUME NEW s \in 0..NumSteps, NEW n \in Nat, NEW ctx \in Contexts,
             Onward(r, s, n, ctx), Keep(r) \/ Release(r), n <= StepLimit, run[r].pc \in {"loop", "tool"},
             UNCHANGED <<status, checkpoint, counts, faults>>
      PROVE  Advances(r)
  BY <1>2, OnwardMoves DEF Advances, TypeOK, counts
<1>3. ASSUME Ends(r, "over"), UNCHANGED <<checkpoint, counts, faults>>,
             \/ run[r].pc \in {"loop", "tool"} /\ status' \in {"completed", "failed"}
             \/ run[r].pc = "marked" /\ status' = "waiting_approval"
      PROVE  Advances(r)
  BY <1>3, EndsMoves DEF Advances, TypeOK, counts
<1>4. CASE AbortAtLimit(r) \/ BatchBreaks(r) \/ Complete(r) \/ Park(r)
  BY <1>3, <1>4 DEF AbortAtLimit, BatchBreaks, Complete, Park
<1>5. CASE Decide(r)
  BY <1>0, <1>1, <1>2, <1>5, ResolveType, ContextType DEF Decide, GoOn, At, RunStates
<1>6. CASE SkipConditional(r)
  BY <1>0, <1>1, <1>2, <1>6, ResolveType, ContextType DEF SkipConditional, GoOn, At, RunStates
<1>7. CASE ActionStep(r)
  BY <1>0, <1>1, <1>2, <1>7, ResolveType, ContextType DEF ActionStep, At, RunStates
<1>8. CASE SkipDependent(r) \/ EmptyBatch(r)
  BY <1>0, <1>1, <1>2, <1>8, ResolveType, ContextType
     DEF SkipDependent, EmptyBatch, GoOn, At, RunStates
<1>9. CASE Return(r)
  <2>1. PICK ok \in BOOLEAN, usable \in BOOLEAN :
           /\ run[r].pc = "tool"
           /\ GoOn(r, Resolve(run[r].step, IF ok THEN OnSuccess[run[r].step] ELSE OnFailure[run[r].step]),
                   run[r].num, After(run[r].ctx, run[r].step, usable))
           /\ UNCHANGED <<status, checkpoint, counts, faults>>
    BY <1>9 DEF Return
  <2>2. run[r].step \in Steps
    BY <1>0, <2>1 DEF ToolHasStep, RunStates, Steps, End
  <2>3. /\ Resolve(run[r].step, IF ok THEN OnSuccess[run[r].step] ELSE OnFailure[run[r].step])
              \in 0..NumSteps
        /\ After(run[r].ctx, run[r].step, usable) \in Contexts
    BY <1>0, <2>2, ResolveType, ContextType DEF RunStates
  <2>. QED
    BY <1>0, <1>2, <2>1, <2>3 DEF GoOn, RunStates
<1>10. CASE Mark(r)
  <2>1. PICK s \in Gated :
           /\ At(r, s) /\ Askable(r, s)
           /\ checkpoint' = [step |-> s, num |-> Number(r), ctx |-> run[r].ctx]
           /\ pauses' = [pauses EXCEPT ![s] = @ + 1]
           /\ run' = [run EXCEPT ![r].pc = "marked"] /\ Keep(r)
           /\ UNCHANGED <<status, ran, granted, faults>>
    BY <1>10 DEF Mark
  <2>2. checkpoint' \in Checkpoints /\ checkpoint'.num <= StepLimit
    BY <1>0, <1>1, <2>1 DEF Checkpoints, RunStates
  <2>3. Needs[s] \subseteq run[r].ctx.have
    BY <2>1 DEF Askable, Missing
  <2>4. Moves(r) /\ run'[r].pc = "marked" /\ run'[r].num = run[r].num
    BY <2>1 DEF TypeOK, RunStates, Keep, Moves, Pcs, Live, Runs
  <2>5. pauses' \in [Steps -> Nat]
    BY <2>1 DEF TypeOK
  <2>. QED
    BY <1>0, <2>1, <2>2, <2>3, <2>4, <2>5 DEF Advances, At, TypeOK
<1>11. CASE FailStep(r)
  <2>1. PICK s \in Steps :
           /\ run[r].pc = "loop" /\ status' = "failed"
           /\ run' = [run EXCEPT ![r] = [@ EXCEPT !.pc = "over", !.num = 0, !.blame = s]]
           /\ Release(r) /\ UNCHANGED <<checkpoint, counts, faults>>
    BY <1>11 DEF FailStep, At
  <2>2. Moves(r) /\ run'[r].pc = "over" /\ run'[r].num = 0
    <3>1. s \in 0..NumSteps
      BY <2>1 DEF Steps
    <3>2. [run[r] EXCEPT !.pc = "over", !.num = 0, !.blame = s] \in RunStates
      BY <1>0, <3>1 DEF RunStates, Pcs
    <3>. QED
      BY <2>1, <3>2 DEF TypeOK, RunStates, Release, NoCall, Moves, Runs
  <2>. QED
    BY <2>1, <2>2 DEF Advances, TypeOK, counts
<1>12. CASE Dispatch(r)
  <2>1. PICK s \in Steps \ Gated :
           /\ At(r, s)
           /\ ran' = [ran EXCEPT ![s] = @ + 1]
           /\ run' = [run EXCEPT ![r].pc = "tool", ![r].num = Number(r)] /\ Release(r)
           /\ UNCHANGED <<status, checkpoint, pauses, granted, faults>>
    BY <1>12 DEF Dispatch
  <2>2. Number(r) \in Nat /\ Number(r) <= StepLimit
    BY <1>1, <2>1
  <2>3. /\ Moves(r) /\ run'[r].pc = "tool" /\ run'[r].num = Number(r)
        /\ run'[r].step = run[r].step
    BY <1>0, <2>1, <2>2 DEF TypeOK, RunStates, Release, NoCall, Moves, Pcs, Live, Runs
  <2>4. ran' \in [Steps -> Nat] /\ \A x \in Gated : ran'[x] = ran[x]
    BY <1>0, <2>1 DEF TypeOK
  <2>. QED
    BY <2>1, <2>2, <2>3, <2>4 DEF Advances, At, TypeOK
<1>13. CASE r \in Calls /\ (AuditGrant(r) \/ Resume(r))
  BY <1>13 DEF AuditGrant, Resume
<1>. QED
  BY <1>4, <1>5, <1>6, <1>7, <1>8, <1>9, <1>10, <1>11, <1>12, <1>13 DEF Slice

\* The audit row of an approved tool.
Audits(c) ==
    /\ Moves(c) /\ c \in Runs /\ run[c].pc = "approved" /\ run'[c].pc = "audited"
    /\ run'[c].num = run[c].num /\ run'[c].step = run[c].step
    /\ granted' = [granted EXCEPT ![run[c].step] = @ + 1]
    /\ UNCHANGED <<status, checkpoint, pauses, ran, faults>>

LEMMA GrantAudits == ASSUME TypeOK, NEW c \in Calls, AuditGrant(c) PROVE Audits(c)
<1>1. c \in Runs /\ turn' \in Runs
  BY DEF TypeOK, AuditGrant, Keep, Runs
<1>2. [run[c] EXCEPT !.pc = "audited"] \in RunStates
  BY <1>1 DEF TypeOK, RunStates, Pcs, Live
<1>. QED
  BY <1>1, <1>2 DEF TypeOK, RunStates, AuditGrant, Moves, Audits

\* The way back from it to the loop.
GoesBack(c) ==
    /\ Moves(c) /\ c \in Runs /\ run[c].pc = "audited" /\ run'[c].pc = "loop"
    /\ run'[c].num <= StepLimit /\ status' = "active"
    /\ UNCHANGED <<checkpoint, counts, faults>>

LEMMA ResumeGoesBack ==
    ASSUME TypeOK, StepsAreCounted, ToolHasStep, NEW c \in Calls, Resume(c)
    PROVE  GoesBack(c)
<1>1. PICK ok \in BOOLEAN, usable \in BOOLEAN :
         /\ run[c].pc = "audited" /\ status' = "active"
         /\ GoOn(c, Resolve(run[c].step, IF ok THEN OnSuccess[run[c].step] ELSE OnFailure[run[c].step]),
                 run[c].num, After(run[c].ctx, run[c].step, usable))
         /\ UNCHANGED <<checkpoint, counts, faults>>
  BY DEF Resume
<1>2. run[c] \in RunStates /\ run[c].num <= StepLimit /\ c \in Runs
  BY DEF TypeOK, RunStates, StepsAreCounted, Runs
<1>3. run[c].step \in Steps
  BY <1>1, <1>2 DEF ToolHasStep, RunStates, Steps, End
<1>4. /\ Resolve(run[c].step, IF ok THEN OnSuccess[run[c].step] ELSE OnFailure[run[c].step])
            \in 0..NumSteps
      /\ After(run[c].ctx, run[c].step, usable) \in Contexts
  BY <1>2, <1>3, ResolveType, ContextType DEF RunStates
<1>. QED
  BY <1>1, <1>2, <1>4, OnwardMoves DEF GoOn, RunStates, GoesBack

\* A write that raises ends one run, which is lost or has failed.
Breaks(r) ==
    /\ Moves(r) /\ run[r].pc \in Live
    /\ \/ run'[r].pc = "over" /\ status' = "failed" /\ run[r].pc # "approved"
       \/ run'[r].pc = Broken(r) /\ status' = status
    /\ run'[r].num = 0 /\ run'[r].step = run[r].step
    /\ faults' \in 0..MaxFaults /\ UNCHANGED <<checkpoint, counts>>

LEMMA FailureBreaks ==
    ASSUME TypeOK, NEW r \in Runs, Fault(r) \/ Lose(r)
    PROVE  Breaks(r)
<1>1. CASE Fault(r)
  BY <1>1, EndsMoves, RunAssumption DEF Fault, TypeOK, Breaks
<1>2. CASE Lose(r)
  BY <1>2, EndsMoves, RunAssumption DEF Lose, Broken, TypeOK, Breaks
<1>. QED
  BY <1>1, <1>2

\* An approve or a reject call takes what the gate has left.
Enters(c) ==
    /\ c \in Runs /\ Moves(c) /\ run[c].pc = "idle"
    /\ checkpoint \in Checkpoints /\ checkpoint # NoCheckpoint
    /\ run'[c].num <= StepLimit /\ UNCHANGED <<checkpoint, pauses, granted, faults>>
    /\ \/ /\ run'[c].pc = "approved" /\ run'[c].step = checkpoint.step
          /\ ran' = [ran EXCEPT ![checkpoint.step] = @ + 1] /\ status' = status
       \/ run'[c].pc = "loop" /\ ran' = ran /\ status' = "active"

LEMMA CallEnters ==
    ASSUME TypeOK, StepsAreCounted, NEW c \in Calls, Approve(c) \/ Reject(c)
    PROVE  Enters(c)
<1>0. /\ run[c].pc = "idle" /\ c \in Runs
      /\ checkpoint \in Checkpoints /\ checkpoint # NoCheckpoint
      /\ checkpoint.num <= StepLimit /\ run[c] \in RunStates
  BY DEF TypeOK, Approve, Reject, Resumable, StepsAreCounted, Runs, RunStates
<1>1. CASE Approve(c)
  <2>1. [run[c] EXCEPT !.pc = "approved", !.step = checkpoint.step, !.num = checkpoint.num,
                       !.ctx = checkpoint.ctx] \in RunStates
    <3>1. checkpoint.step \in 0..NumSteps /\ checkpoint.num \in Nat /\ checkpoint.ctx \in Contexts
      BY <1>0 DEF Checkpoints, Steps
    <3>. QED
      BY <1>0, <3>1 DEF RunStates, Pcs, Live
  <2>. QED
    BY <1>0, <1>1, <2>1 DEF Approve, TypeOK, RunStates, Moves, Enters
<1>2. CASE Reject(c)
  <2>1. /\ Resolve(checkpoint.step, OnFailure[checkpoint.step]) \in 0..NumSteps
        /\ [Without(checkpoint.ctx, checkpoint.step) EXCEPT !.rejected = @ \cup {checkpoint.step}]
              \in Contexts
        /\ checkpoint.num \in Nat
    BY <1>0, ResolveType, ContextType DEF Checkpoints
  <2>2. GoOn(c, Resolve(checkpoint.step, OnFailure[checkpoint.step]), checkpoint.num,
             [Without(checkpoint.ctx, checkpoint.step) EXCEPT !.rejected = @ \cup {checkpoint.step}])
    BY <1>2 DEF Reject
  <2>3. Moves(c) /\ run'[c].pc = "loop" /\ run'[c].num = checkpoint.num
    BY <1>0, <2>1, <2>2, OnwardMoves DEF GoOn
  <2>. QED
    BY <1>0, <1>2, <2>3 DEF Reject, counts, Enters
<1>. QED
  BY <1>1, <1>2

\* A restart cuts short what ran.
Stops ==
    /\ run' \in [Runs -> RunStates] /\ turn' \in Runs
    /\ \A r \in Runs :
          IF run[r].pc \in Live
          THEN run'[r].pc = Broken(r) /\ run'[r].num = 0 /\ run'[r].step = run[r].step
          ELSE run'[r] = run[r]
    /\ UNCHANGED <<status, checkpoint, counts, faults>>

LEMMA KillStops == ASSUME TypeOK, Kill PROVE Stops
<1>1. Empty \in Contexts
  BY DEF Empty, Contexts
<1>2. ASSUME NEW r \in Runs
      PROVE  [run[r] EXCEPT !.pc = Broken(r), !.num = 0, !.ctx = Empty] \in RunStates
  BY <1>1 DEF TypeOK, RunStates, Broken, Pcs
<1>. QED
  BY <1>2 DEF Kill, TypeOK, RunStates, NoCall, Runs, Stops

\* The kinds of steps there are.
LEMMA StepKinds ==
    ASSUME TypeOK, StepsAreCounted, ToolHasStep, [Next]_vars
    PROVE  \/ \E r \in Runs : Advances(r) \/ Breaks(r)
           \/ \E c \in Calls : Audits(c) \/ GoesBack(c) \/ Enters(c)
           \/ Stops \/ UNCHANGED vars
<1>1. ASSUME NEW r \in Runs, Slice(r), run[r].pc \in {"approved", "audited"}
      PROVE  r \in Calls /\ (AuditGrant(r) \/ Resume(r))
  BY <1>1 DEF Slice, AbortAtLimit, Decide, SkipConditional, Mark, Park, ActionStep, FailStep,
              SkipDependent, EmptyBatch, Dispatch, Return, BatchBreaks, Complete, At
<1>2. ASSUME NEW r \in Runs, Slice(r)
      PROVE  Advances(r) \/ (r \in Calls /\ (Audits(r) \/ GoesBack(r)))
  BY <1>1, <1>2, SliceAdvances, GrantAudits, ResumeGoesBack
<1>. QED
  BY <1>2, FailureBreaks, CallEnters, KillStops DEF Next, Stopped

-----------------------------------------------------------------------------
(* The invariant *)

LEMMA PlaybookInitInv == Init => PlaybookInv
<1> SUFFICES ASSUME Init PROVE PlaybookInv
  OBVIOUS
<1> USE PlaybookAssumption, RunAssumption
<1>1. TypeOK
  <2>1. Empty \in Contexts
    BY DEF Empty, Contexts
  <2>. QED
    BY <2>1 DEF Init, TypeOK, NoCall, Runs, Pcs, Live, Steps
<1>2. StepsAreCounted /\ ToolHasStep /\ MarkedFirst /\ WaitingIsResumable
  BY DEF Init, StepsAreCounted, ToolHasStep, MarkedFirst, WaitingIsResumable
<1>3. \A s \in Gated : Unaudited(s) = {}
  BY DEF Init, Unaudited, Runs
<1>4. FewUnaudited /\ GatedRunsAudited
  <2>1. \A s \in Gated : IsFiniteSet(Unaudited(s)) /\ Cardinality(Unaudited(s)) = 0
    BY <1>3, FS_EmptySet
  <2>2. \A s \in Gated : ran[s] = granted[s] + Cardinality(Unaudited(s))
    BY <2>1 DEF Init, Steps
  <2>. QED
    BY <2>1, <2>2 DEF FewUnaudited, GatedRunsAudited, Unaudited
<1>5. ActiveIsAlive
  BY DEF Init, ActiveIsAlive, Runs, Live
<1>. QED
  BY <1>1, <1>2, <1>4, <1>5 DEF PlaybookInv

LEMMA PlaybookStepType == TypeOK /\ StepsAreCounted /\ ToolHasStep /\ [Next]_vars => TypeOK'
<1> SUFFICES ASSUME TypeOK, StepsAreCounted, ToolHasStep, [Next]_vars PROVE TypeOK'
  OBVIOUS
<1>1. ASSUME NEW r \in Runs, Advances(r) PROVE TypeOK'
  BY <1>1 DEF Advances, Moves, TypeOK, RunStates
<1>2. ASSUME NEW r \in Runs, Breaks(r) PROVE TypeOK'
  BY <1>2 DEF Breaks, Moves, TypeOK, RunStates, counts
<1>3. ASSUME NEW c \in Calls, Audits(c) PROVE TypeOK'
  <2>1. granted' \in [Steps -> Nat]
    <3>1. run[c].step \in Steps
      BY <1>3 DEF Audits, ToolHasStep, TypeOK, Steps, End
    <3>2. granted \in [Steps -> Nat] /\ granted' = [granted EXCEPT ![run[c].step] = @ + 1]
      BY <1>3 DEF Audits, TypeOK
    <3>. QED
      BY <3>1, <3>2
  <2>2. UNCHANGED <<status, checkpoint, pauses, ran, faults>>
    BY <1>3 DEF Audits
  <2>3. run' \in [Runs -> RunStates] /\ turn' \in Runs
    BY <1>3 DEF Audits, Moves
  <2>. QED
    BY <2>1, <2>2, <2>3 DEF TypeOK, RunStates
<1>4. ASSUME NEW c \in Calls, Enters(c) PROVE TypeOK'
  BY <1>4 DEF Enters, Moves, TypeOK, RunStates, Checkpoints
<1>5. ASSUME NEW c \in Calls, GoesBack(c) PROVE TypeOK'
  BY <1>5 DEF GoesBack, Moves, TypeOK, RunStates, counts
<1>6. CASE Stops
  BY <1>6 DEF Stops, TypeOK, RunStates, counts
<1>7. CASE UNCHANGED vars
  BY <1>7 DEF vars, TypeOK
<1>. QED
  BY <1>1, <1>2, <1>3, <1>4, <1>5, <1>6, <1>7, StepKinds

LEMMA CheckpointStep ==
    PlaybookInv /\ [Next]_vars
        => StepsAreCounted' /\ ToolHasStep' /\ MarkedFirst' /\ WaitingIsResumable'
<1> DEFINE Facts == StepsAreCounted /\ ToolHasStep /\ MarkedFirst /\ WaitingIsResumable
<1> SUFFICES ASSUME PlaybookInv, [Next]_vars PROVE Facts'
  OBVIOUS
<1>0. TypeOK /\ Facts
  BY DEF PlaybookInv
<1> USE <1>0, PlaybookAssumption, RunAssumption
    DEF StepsAreCounted, ToolHasStep, MarkedFirst, WaitingIsResumable
<1>1. ASSUME NEW r \in Runs, Advances(r) PROVE Facts'
  <2>1. \A x \in Checkpoints : x # NoCheckpoint
    BY DEF Checkpoints, NoCheckpoint, Steps, End
  <2>. QED
    BY <1>1, <2>1 DEF Advances, Moves
<1>2. ASSUME NEW r \in Runs, Breaks(r) PROVE Facts'
  BY <1>2 DEF Breaks, Moves, Broken
<1>3. ASSUME NEW c \in Calls, Audits(c) \/ GoesBack(c) PROVE Facts'
  BY <1>3 DEF Audits, GoesBack, Moves
<1>4. ASSUME NEW c \in Calls, Enters(c) PROVE Facts'
  <2>1. /\ checkpoint' = checkpoint /\ checkpoint # NoCheckpoint /\ checkpoint.step # End
        /\ \A q \in Runs : q # c => run'[q] = run[q]
        /\ run'[c].num <= StepLimit
        /\ run'[c].pc = "loop" \/ (run'[c].pc = "approved" /\ run'[c].step = checkpoint.step)
    BY <1>4 DEF Enters, Moves, Checkpoints, Steps, End
  <2>. QED
    BY <2>1
<1>5. CASE Stops
  BY <1>5 DEF Stops, Broken
<1>6. CASE UNCHANGED vars
  BY <1>6 DEF vars
<1>. QED
  BY <1>0, <1>1, <1>2, <1>3, <1>4, <1>5, <1>6, StepKinds

\* A call that runs a gated tool joins the unaudited ones, and leaves them with
\* its row; whoever is cut short stays with them.
LEMMA AuditStep == PlaybookInv /\ [Next]_vars => FewUnaudited' /\ GatedRunsAudited'
<1> SUFFICES ASSUME PlaybookInv, [Next]_vars, NEW s \in Gated
             PROVE  /\ IsFiniteSet(Unaudited(s)')
                    /\ ran'[s] = granted'[s] + Cardinality(Unaudited(s)')
  BY DEF FewUnaudited, GatedRunsAudited, Unaudited
<1>0. /\ TypeOK /\ StepsAreCounted /\ ToolHasStep /\ s \in Steps /\ IsFiniteSet(Unaudited(s))
      /\ ran[s] = granted[s] + Cardinality(Unaudited(s))
      /\ ran[s] \in Nat /\ granted[s] \in Nat /\ Cardinality(Unaudited(s)) \in Nat
      /\ Calls \subseteq Runs
  BY PlaybookAssumption, FS_CardinalityType
     DEF PlaybookInv, FewUnaudited, GatedRunsAudited, Unaudited, TypeOK, Runs
<1>1. ASSUME NEW r \in Runs, Advances(r)
      PROVE  Unaudited(s)' = Unaudited(s) /\ ran'[s] = ran[s] /\ granted'[s] = granted[s]
  BY <1>0, <1>1 DEF Advances, Moves, Unaudited
<1>2. ASSUME NEW r \in Runs, Breaks(r)
      PROVE  Unaudited(s)' = Unaudited(s) /\ ran'[s] = ran[s] /\ granted'[s] = granted[s]
  BY <1>0, <1>2 DEF Breaks, Moves, Broken, Live, Unaudited, counts
<1>3. ASSUME NEW c \in Calls, Audits(c), run[c].step = s
      PROVE  /\ IsFiniteSet(Unaudited(s)')
             /\ ran'[s] = granted'[s] + Cardinality(Unaudited(s)')
  <2>1. c \in Unaudited(s) /\ Unaudited(s)' = Unaudited(s) \ {c}
    BY <1>0, <1>3 DEF Audits, Moves, Unaudited
  <2>2. /\ IsFiniteSet(Unaudited(s)')
        /\ Cardinality(Unaudited(s)') = Cardinality(Unaudited(s)) - 1
    BY <1>0, <2>1, FS_RemoveElement
  <2>3. ran' = ran /\ granted'[s] = granted[s] + 1
    BY <1>0, <1>3 DEF Audits, TypeOK
  <2>. QED
    BY <1>0, <2>2, <2>3
<1>4. ASSUME NEW c \in Calls, Audits(c), run[c].step # s
      PROVE  Unaudited(s)' = Unaudited(s) /\ ran'[s] = ran[s] /\ granted'[s] = granted[s]
  BY <1>0, <1>4 DEF Audits, Moves, Unaudited, TypeOK
<1>5. ASSUME NEW c \in Calls, Enters(c), run'[c].pc = "approved", checkpoint.step = s
      PROVE  /\ IsFiniteSet(Unaudited(s)')
             /\ ran'[s] = granted'[s] + Cardinality(Unaudited(s)')
  <2>1. c \notin Unaudited(s) /\ Unaudited(s)' = Unaudited(s) \cup {c}
    BY <1>0, <1>5 DEF Enters, Moves, Unaudited
  <2>2. /\ IsFiniteSet(Unaudited(s)')
        /\ Cardinality(Unaudited(s)') = Cardinality(Unaudited(s)) + 1
    BY <1>0, <2>1, FS_AddElement
  <2>3. granted' = granted /\ ran'[s] = ran[s] + 1
    BY <1>0, <1>5 DEF Enters, TypeOK
  <2>. QED
    BY <1>0, <2>2, <2>3
<1>6. ASSUME NEW c \in Calls, Enters(c), run'[c].pc # "approved" \/ checkpoint.step # s
      PROVE  Unaudited(s)' = Unaudited(s) /\ ran'[s] = ran[s] /\ granted'[s] = granted[s]
  BY <1>0, <1>6 DEF Enters, Moves, Unaudited, TypeOK
<1>7. ASSUME Stops
      PROVE  Unaudited(s)' = Unaudited(s) /\ ran'[s] = ran[s] /\ granted'[s] = granted[s]
  BY <1>0, <1>7 DEF Stops, Broken, Live, Unaudited, counts
<1>8. ASSUME UNCHANGED vars
      PROVE  Unaudited(s)' = Unaudited(s) /\ ran'[s] = ran[s] /\ granted'[s] = granted[s]
  BY <1>8 DEF vars, Unaudited
<1>9. ASSUME NEW c \in Calls, GoesBack(c)
      PROVE  Unaudited(s)' = Unaudited(s) /\ ran'[s] = ran[s] /\ granted'[s] = granted[s]
  BY <1>0, <1>9 DEF GoesBack, Moves, Unaudited, counts
<1>. QED
  BY <1>0, <1>1, <1>2, <1>3, <1>4, <1>5, <1>6, <1>7, <1>8, <1>9, StepKinds

\* Whoever leaves the status active goes on, or is cut short.
LEMMA AliveStep == PlaybookInv /\ [Next]_vars => ActiveIsAlive'
<1> SUFFICES ASSUME PlaybookInv, [Next]_vars PROVE ActiveIsAlive'
  OBVIOUS
<1>0. TypeOK /\ StepsAreCounted /\ ToolHasStep /\ ActiveIsAlive
  BY DEF PlaybookInv
<1> USE DEF ActiveIsAlive, Live
<1>1. ASSUME NEW r \in Runs, Advances(r) PROVE ActiveIsAlive'
  BY <1>1 DEF Advances
<1>2. ASSUME NEW r \in Runs, Breaks(r) PROVE ActiveIsAlive'
  BY <1>2 DEF Breaks, Broken
<1>3. ASSUME NEW c \in Calls, Audits(c) \/ GoesBack(c) \/ Enters(c) PROVE ActiveIsAlive'
  BY <1>3 DEF Audits, GoesBack, Enters
<1>4. CASE Stops
  BY <1>0, <1>4 DEF Stops, Broken
<1>5. CASE UNCHANGED vars
  BY <1>0, <1>5 DEF vars
<1>. QED
  BY <1>0, <1>1, <1>2, <1>3, <1>4, <1>5, StepKinds

-----------------------------------------------------------------------------
(* Theorems *)

\* The strengthened invariant of a playbook session.
THEOREM PlaybookInvariant == Spec => []PlaybookInv
<1>1. PlaybookInv /\ [Next]_vars => PlaybookInv'
  BY PlaybookStepType, CheckpointStep, AuditStep, AliveStep DEF PlaybookInv
<1>. QED
  BY PlaybookInitInv, <1>1, PTL DEF Spec

\* Row, runs and counts keep their types.
THEOREM PlaybookTypeSafety == Spec => []TypeOK
<1>1. PlaybookInv => TypeOK
  BY DEF PlaybookInv
<1>. QED
  BY <1>1, PlaybookInvariant, PTL

\* No run takes more steps than the limit, not even one that goes on from a
\* checkpoint, however cyclic the playbook.
THEOREM StepLimitHolds == Spec => []StepsAreCounted
<1>1. PlaybookInv => StepsAreCounted
  BY DEF PlaybookInv
<1>. QED
  BY <1>1, PlaybookInvariant, PTL

\* A session that waits can be resumed.
THEOREM WaitingCanResume == Spec => []WaitingIsResumable
<1>1. PlaybookInv => WaitingIsResumable
  BY DEF PlaybookInv
<1>. QED
  BY <1>1, PlaybookInvariant, PTL

\* Each run of a gated tool is audited, unless its call was cut short.
THEOREM GatedRunsAreAudited == Spec => []GatedRunsAudited
<1>1. PlaybookInv => GatedRunsAudited
  BY DEF PlaybookInv
<1>. QED
  BY <1>1, PlaybookInvariant, PTL

\* No session says active after its last run has ended.
THEOREM ActiveSessionsLive == Spec => []ActiveIsAlive
<1>1. PlaybookInv => ActiveIsAlive
  BY DEF PlaybookInv
<1>. QED
  BY <1>1, PlaybookInvariant, PTL
=============================================================================
