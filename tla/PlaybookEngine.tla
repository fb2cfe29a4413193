--------------------------- MODULE PlaybookEngine ---------------------------
(***************************************************************************)
(* One playbook session (Flow C): the first run of its steps, on a thread  *)
(* of its own, and the approve and reject calls that resume it, each one a *)
(* coroutine on the main event loop. They share only the session's row in  *)
(* AgentStore: its status and the checkpoint in its metadata.              *)
(*                                                                         *)
(* A step's data is reduced to which earlier steps have left a usable      *)
(* result in the context, and to whether the tool answered with an error.  *)
(***************************************************************************)
EXTENDS Naturals, FiniteSets

CONSTANTS
    NumSteps,     \* steps of the playbook, by position
    Kind,         \* of each step: "decision", "action", "tool" or "each"
    Gated,        \* steps with requires_approval
    Conditional,  \* steps that run only if their condition holds
    Needs,        \* the steps whose results a step's params mention
    UsesItem,     \* for_each steps whose params mention {{item}}
    OnSuccess,    \* on_success of each step: a position, Default or End
    OnFailure,    \* on_failure of each step
    StepLimit,    \* 200 in the code
    Starter,      \* the first run
    Calls,        \* approve and reject calls
    MaxFaults,    \* bound on store writes that raise
    MayCrash      \* whether the process may be restarted

Steps   == 1..NumSteps
End     == 0                \* "end", "__end__", or a name no step has
Default == NumSteps + 1     \* no name given: the next position
Runs    == {Starter} \cup Calls

ASSUME PlaybookAssumption ==
    /\ NumSteps \in Nat \ {0}
    /\ Kind \in [Steps -> {"decision", "action", "tool", "each"}]
    /\ Gated \subseteq {s \in Steps : Kind[s] \in {"tool", "each"}}
    /\ Conditional \subseteq {s \in Steps : Kind[s] # "decision"}
    /\ UsesItem \subseteq {s \in Steps : Kind[s] = "each"}
    /\ Needs \in [Steps -> SUBSET Steps]
    /\ OnSuccess \in [Steps -> 0..Default]
    /\ OnFailure \in [Steps -> 0..Default]
ASSUME RunAssumption ==
    /\ StepLimit \in Nat
    /\ Starter \notin Calls
    /\ MaxFaults \in Nat
    /\ MayCrash \in BOOLEAN

VARIABLES
    status,      \* agent_sessions.status
    checkpoint,  \* pending_step_name, step_number and context in the metadata
    run,         \* of each run: where it is, its step, step number and context
    turn,        \* the call that holds the main event loop, or NoCall
    pauses,      \* approval requests made, per step
    ran,         \* executions of the step's tool, per step
    granted,     \* approval_granted audit rows, per step
    faults       \* store writes that raised

vars == <<status, checkpoint, run, turn, pauses, ran, granted, faults>>

\* have: steps whose result can be interpolated; rejected: _skipped_steps.
Contexts     == [have : SUBSET Steps, rejected : SUBSET Steps]
Checkpoints  == [step : Steps, num : Nat, ctx : Contexts]
NoCheckpoint == [step |-> End]
NoCall       == Starter
Empty        == [have |-> {}, rejected |-> {}]
Live         == {"loop", "marked", "tool", "approved", "audited"}
Pcs          == Live \cup {"idle", "over", "lost", "cut"}  \* cut: lost in the tool

TypeOK ==
    /\ status \in {"active", "waiting_approval", "completed", "failed"}
    /\ checkpoint \in Checkpoints \cup {NoCheckpoint}
    /\ run \in [Runs -> [pc : Pcs, step : 0..NumSteps, num : Nat,
                         ctx : Contexts, blame : 0..NumSteps]]
    /\ turn \in Runs
    /\ pauses \in [Steps -> Nat]
    /\ ran \in [Steps -> Nat]
    /\ granted \in [Steps -> Nat]
    /\ faults \in 0..MaxFaults

\* start or execute, up to the first step; the calls are still to come.
Init ==
    /\ status = "active" /\ checkpoint = NoCheckpoint /\ turn = NoCall
    /\ run = [r \in Runs |-> [pc |-> IF r = Starter THEN "loop" ELSE "idle",
                              step |-> 1, num |-> 0, ctx |-> Empty, blame |-> 0]]
    /\ pauses = [s \in Steps |-> 0]
    /\ ran = [s \in Steps |-> 0]
    /\ granted = [s \in Steps |-> 0]
    /\ faults = 0

-----------------------------------------------------------------------------
(* Helpers *)

\* Mutant of Resolve: the position after the last step.
ResolvePastEnd(s, target) == IF target # Default THEN target ELSE s + 1

\* _resolve_next
Resolve(s, target) ==
    IF target # Default THEN target ELSE IF s < NumSteps THEN s + 1 ELSE End

\* A call runs from one await to the next without another call getting in
\* between; the first run has a thread of its own.
Holds(r)   == r = Starter \/ turn \in {NoCall, r}
Keep(r)    == turn' = IF r = Starter THEN turn ELSE r
Release(r) == turn' = IF r = Starter THEN turn ELSE NoCall

Missing(r, s)   == Needs[s] \ run[r].ctx.have
With(ctx, s)    == [ctx EXCEPT !.have = @ \cup {s}]
Without(ctx, s) == [ctx EXCEPT !.have = @ \ {s}]
After(ctx, s, usable) == IF usable THEN With(ctx, s) ELSE Without(ctx, s)

\* The run goes on at step s; with GoOn, in the same slice of the event loop.
Onward(r, s, num, ctx) ==
    run' = [run EXCEPT ![r] = [@ EXCEPT !.pc = "loop", !.step = s, !.num = num, !.ctx = ctx]]
GoOn(r, s, num, ctx) == Onward(r, s, num, ctx) /\ Keep(r)

\* The coroutine returns; of its locals only the step is still of interest.
Ends(r, pc) ==
    /\ run' = [run EXCEPT ![r] = [@ EXCEPT !.pc = pc, !.num = 0, !.ctx = Empty]]
    /\ Release(r)

\* The run is about to take step s, and is within the limit.
At(r, s) ==
    /\ run[r].pc = "loop" /\ Holds(r)
    /\ s = run[r].step /\ s # End
    /\ run[r].num < StepLimit
\* Mutant of Number: steps that are not counted.
NumberStays(r) == run[r].num

\* step_number += 1
Number(r) == run[r].num + 1
Broken(r) == IF run[r].pc = "approved" THEN "cut" ELSE "lost"

counts == <<pauses, ran, granted>>
-----------------------------------------------------------------------------
(* _run_step_loop *)

\* Mutant of AbortAtLimit: the status is not written.
AbortSilently(r) ==
    /\ run[r].pc = "loop" /\ Holds(r)
    /\ run[r].step # End /\ run[r].num >= StepLimit
    /\ Ends(r, "over")
    /\ UNCHANGED <<status, checkpoint, counts, faults>>

AbortAtLimit(r) ==
    /\ run[r].pc = "loop" /\ Holds(r)
    /\ run[r].step # End /\ run[r].num >= StepLimit
    /\ status' = "failed" /\ Ends(r, "over")
    /\ UNCHANGED <<checkpoint, counts, faults>>

\* A condition and nothing to run: a branch.
Decide(r) == \E s \in Steps : \E target \in {OnSuccess[s], OnFailure[s]} :
    /\ At(r, s) /\ Kind[s] = "decision"
    /\ GoOn(r, Resolve(s, target), Number(r), With(run[r].ctx, s))
    /\ UNCHANGED <<status, checkpoint, counts, faults>>

\* The condition is false: the step's result has none of its fields.
SkipConditional(r) == \E s \in Conditional :
    /\ At(r, s)
    /\ GoOn(r, Resolve(s, OnSuccess[s]), Number(r), Without(run[r].ctx, s))
    /\ UNCHANGED <<status, checkpoint, counts, faults>>

\* The gate interpolates the params before it asks: {{item}} is not known yet.
Askable(r, s) == Missing(r, s) = {} /\ s \notin UsesItem

\* Mutant of Mark: the status is saved before the checkpoint.
MarkStatusFirst(r) == \E s \in Gated :
    /\ At(r, s) /\ Askable(r, s)
    /\ status' = "waiting_approval"
    /\ pauses' = [pauses EXCEPT ![s] = @ + 1]
    /\ run' = [run EXCEPT ![r].pc = "marked"] /\ Keep(r)
    /\ UNCHANGED <<checkpoint, ran, granted, faults>>

\* The gate: the checkpoint is saved, and only then the status.
Mark(r) == \E s \in Gated :
    /\ At(r, s) /\ Askable(r, s)
    /\ checkpoint' = [step |-> s, num |-> Number(r), ctx |-> run[r].ctx]
    /\ pauses' = [pauses EXCEPT ![s] = @ + 1]
    /\ run' = [run EXCEPT ![r].pc = "marked"] /\ Keep(r)
    /\ UNCHANGED <<status, ran, granted, faults>>

Park(r) ==
    /\ run[r].pc = "marked" /\ Holds(r)
    /\ status' = "waiting_approval" /\ Ends(r, "over")
    /\ UNCHANGED <<checkpoint, counts, faults>>

\* final_answer, input and trigger_playbook; the last one awaits the playbook
\* it runs and may bring back an error.
ActionStep(r) == \E s \in Steps : \E usable \in BOOLEAN :
    /\ At(r, s) /\ Kind[s] = "action" /\ Missing(r, s) = {}
    /\ Onward(r, Resolve(s, OnSuccess[s]), Number(r), After(run[r].ctx, s, usable))
    /\ Keep(r) \/ Release(r)
    /\ UNCHANGED <<status, checkpoint, counts, faults>>

\* A template that nothing resolves. Only a single tool call asks whether the
\* first one it meets names a rejected step; every other step fails the session.
Malformed(r, s) ==
    IF s \in Gated THEN ~Askable(r, s)
    ELSE IF Kind[s] = "tool" THEN Missing(r, s) \ run[r].ctx.rejected # {}
    ELSE Kind[s] \in {"action", "each"} /\ Missing(r, s) # {}

FailStep(r) == \E s \in Steps :
    /\ At(r, s) /\ Malformed(r, s)
    /\ status' = "failed"
    /\ run' = [run EXCEPT ![r] = [@ EXCEPT !.pc = "over", !.num = 0, !.blame = s]]
    /\ Release(r)
    /\ UNCHANGED <<checkpoint, counts, faults>>

SkipDependent(r) == \E s \in Steps \ Gated :
    /\ At(r, s) /\ Kind[s] = "tool"
    /\ Missing(r, s) \cap run[r].ctx.rejected # {}
    /\ GoOn(r, Resolve(s, OnFailure[s]), Number(r), Without(run[r].ctx, s))
    /\ UNCHANGED <<status, checkpoint, counts, faults>>

\* A for_each over nothing never awaits and never looks at its params.
EmptyBatch(r) == \E s \in Steps \ Gated :
    /\ At(r, s) /\ Kind[s] = "each"
    /\ GoOn(r, Resolve(s, OnSuccess[s]), Number(r), With(run[r].ctx, s))
    /\ UNCHANGED <<status, checkpoint, counts, faults>>

Dispatch(r) == \E s \in Steps \ Gated :
    /\ At(r, s) /\ Kind[s] \in {"tool", "each"} /\ Missing(r, s) = {}
    /\ ran' = [ran EXCEPT ![s] = @ + 1]
    /\ run' = [run EXCEPT ![r].pc = "tool", ![r].num = Number(r)] /\ Release(r)
    /\ UNCHANGED <<status, checkpoint, pauses, granted, faults>>

\* The tool answered, failed or timed out. A for_each leaves its _results key
\* either way; a single answer without an error may lack a field mentioned later.
Return(r) == \E ok, usable \in BOOLEAN : LET s == run[r].step IN
    /\ run[r].pc = "tool" /\ Holds(r)
    /\ usable => ok \/ Kind[s] = "each"
    /\ GoOn(r, Resolve(s, IF ok THEN OnSuccess[s] ELSE OnFailure[s]),
            run[r].num, After(run[r].ctx, s, usable))
    /\ UNCHANGED <<status, checkpoint, counts, faults>>

\* A field of one item is missing, which only its own call notices.
BatchBreaks(r) ==
    /\ run[r].pc = "tool" /\ Holds(r) /\ run[r].step \in UsesItem
    /\ status' = "failed" /\ Ends(r, "over")
    /\ UNCHANGED <<checkpoint, counts, faults>>

Complete(r) ==
    /\ run[r].pc = "loop" /\ Holds(r) /\ run[r].step = End
    /\ status' = "completed" /\ Ends(r, "over")
    /\ UNCHANGED <<checkpoint, counts, faults>>

-----------------------------------------------------------------------------
(* execute_from_step: only the metadata is looked at, never the status, and *)
(* the checkpoint stays there.                                              *)

Resumable(c) == run[c].pc = "idle" /\ turn = NoCall /\ checkpoint # NoCheckpoint

\* An approve call, up to the await of the gated tool.
Approve(c) ==
    /\ Resumable(c)
    /\ ran' = [ran EXCEPT ![checkpoint.step] = @ + 1]
    /\ run' = [run EXCEPT ![c] = [@ EXCEPT !.pc = "approved",
                   !.step = checkpoint.step, !.num = checkpoint.num,
                   !.ctx = checkpoint.ctx]]
    /\ UNCHANGED <<status, checkpoint, turn, pauses, granted, faults>>

\* Mutant of AuditGrant: only a run that succeeded is audited.
AuditSuccess(c) == \E ok \in BOOLEAN :
    /\ run[c].pc = "approved" /\ Holds(c)
    /\ granted' = IF ok THEN [granted EXCEPT ![run[c].step] = @ + 1] ELSE granted
    /\ run' = [run EXCEPT ![c].pc = "audited"] /\ Keep(c)
    /\ UNCHANGED <<status, checkpoint, pauses, ran, faults>>

\* The tool came back, and the grant is written.
AuditGrant(c) ==
    /\ run[c].pc = "approved" /\ Holds(c)
    /\ granted' = [granted EXCEPT ![run[c].step] = @ + 1]
    /\ run' = [run EXCEPT ![c].pc = "audited"] /\ Keep(c)
    /\ UNCHANGED <<status, checkpoint, pauses, ran, faults>>

\* The status is active again, and the loop goes on from what the tool brought.
Resume(c) == \E ok, usable \in BOOLEAN : LET s == run[c].step IN
    /\ run[c].pc = "audited" /\ Holds(c)
    /\ usable => ok \/ Kind[s] = "each"
    /\ status' = "active"
    /\ GoOn(c, Resolve(s, IF ok THEN OnSuccess[s] ELSE OnFailure[s]),
            run[c].num, After(run[c].ctx, s, usable))
    /\ UNCHANGED <<checkpoint, counts, faults>>

\* A reject call, up to the first step after the rejected one.
Reject(c) ==
    /\ Resumable(c)
    /\ status' = "active"
    /\ LET s == checkpoint.step
           ctx == Without(checkpoint.ctx, s)
       IN  GoOn(c, Resolve(s, OnFailure[s]), checkpoint.num,
                [ctx EXCEPT !.rejected = @ \cup {s}])
    /\ UNCHANGED <<checkpoint, counts, faults>>

-----------------------------------------------------------------------------
(* Failures *)

\* Within the loop an exception is recorded as a failed session.
Fault(r) ==
    /\ run[r].pc \in Live \ {"approved", "audited"} /\ Holds(r)
    /\ faults < MaxFaults /\ faults' = faults + 1
    /\ status' = "failed" /\ Ends(r, "over")
    /\ UNCHANGED <<checkpoint, counts>>

\* Nothing catches a write that raises while the record is written, or between
\* the approved tool and the loop: the status stays what it was.
Lose(r) ==
    /\ run[r].pc \in Live /\ Holds(r)
    /\ faults' = faults + (IF run[r].pc \in {"approved", "audited"} THEN 1 ELSE 2)
    /\ faults' <= MaxFaults
    /\ Ends(r, Broken(r))
    /\ UNCHANGED <<status, checkpoint, counts>>

\* The process is restarted. Nothing resumes what was running.
Kill ==
    /\ MayCrash
    /\ \E r \in Runs : run[r].pc \in Live
    /\ run' = [r \in Runs |-> IF run[r].pc \in Live
                              THEN [run[r] EXCEPT !.pc = Broken(r), !.num = 0, !.ctx = Empty]
                              ELSE run[r]]
    /\ turn' = NoCall
    /\ UNCHANGED <<status, checkpoint, counts, faults>>

Stopped ==
    /\ \A r \in Runs : run[r].pc \notin Live
    /\ UNCHANGED vars

-----------------------------------------------------------------------------
Slice(r) ==
    \/ AbortAtLimit(r) \/ Decide(r) \/ SkipConditional(r)
    \/ Mark(r) \/ Park(r)
    \/ ActionStep(r) \/ FailStep(r) \/ SkipDependent(r)
    \/ EmptyBatch(r) \/ Dispatch(r) \/ Return(r) \/ BatchBreaks(r)
    \/ Complete(r)
    \/ r \in Calls /\ (AuditGrant(r) \/ Resume(r))

Next ==
    \/ \E r \in Runs : Slice(r) \/ Fault(r) \/ Lose(r)
    \/ \E c \in Calls : Approve(c) \/ Reject(c)
    \/ Kill
    \/ Stopped

Spec == Init /\ [][Next]_vars

\* A thread or a scheduled coroutine goes on, and a tool answers or is timed
\* out by wait_for; nobody has to call, and nothing has to fail.
FairSpec == Spec /\ \A r \in Runs : WF_vars(Slice(r))

-----------------------------------------------------------------------------
(* Properties *)

\* A session that waits can be resumed, whenever the process dies: its
\* checkpoint is in the metadata, names a gated step, and holds what the
\* params of that step mention.
WaitingIsResumable ==
    /\ status = "waiting_approval" => checkpoint # NoCheckpoint
    /\ checkpoint # NoCheckpoint =>
           checkpoint.step \in Gated /\ Needs[checkpoint.step] \subseteq checkpoint.ctx.have

\* The tool of a gated step is run by an approve call only, and every such run
\* is followed by its approval_granted row unless the call was cut short.
GatedRunsAudited == \A s \in Gated :
    ran[s] = granted[s] + Cardinality({c \in Calls :
                 run[c].pc \in {"approved", "cut"} /\ run[c].step = s})

\* A session says active only while some run of it goes on, or was cut short.
ActiveIsAlive ==
    status = "active" => \E r \in Runs : run[r].pc \in Live \cup {"lost", "cut"}

\* Every run ends, a cyclic playbook's too: the first one and every call.
EveryRunEnds == \A r \in Runs : (run[r].pc \in Live) ~> (run[r].pc \notin Live)

\* "has no pending approval checkpoint to resume": a checkpoint is resumed at
\* most once, so a gated tool runs at most as often as the analyst was asked.
OneResumePerCheckpoint == \A s \in Gated : ran[s] <= pauses[s]

\* "Marking the step lets the loop skip dependent work instead of treating a
\* missing result as a malformed playbook": no session fails over templates
\* that only rejected steps leave unresolved.
RejectionIsNotMalformed == \A r \in Runs : LET s == run[r].blame IN
    s # 0 => \/ Needs[s] \subseteq run[r].ctx.have
             \/ ~(Needs[s] \ run[r].ctx.have \subseteq run[r].ctx.rejected)

\* A batch that needs approval is asked about and resumed item by item, so a
\* session fails over a template only if some step left no result for it.
BatchIsAskedAbout == \A r \in Runs : LET s == run[r].blame IN
    s # 0 => ~(Needs[s] \subseteq run[r].ctx.have)
=============================================================================
