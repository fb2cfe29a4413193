------------------------------ MODULE AgentLoop ------------------------------
(***************************************************************************)
(* One Flow B investigation: the session thread that runs                  *)
(* AgentLoop._run_loop, and the HTTP handlers (approve, reject, cancel)    *)
(* that run on the main event loop and share the AgentState object, the    *)
(* approval event and the session's rows of AgentStore with it.            *)
(* Sessions share nothing else, so one session is modelled.                *)
(*                                                                         *)
(* A step of the thread ends wherever the other thread could observe or    *)
(* change what it uses next: every write of state.phase, every request and *)
(* wait for approval, every tool execution and every store write.          *)
(***************************************************************************)
EXTENDS Naturals, FiniteSets

CONSTANTS
    Tools,          \* names in the tool registry
    Protected,      \* tools registered with requires_approval=True
    RoleTools,      \* tools the session's role may execute
    EnrichSources,  \* tools whose result triggers auto-enrichment
    EnrichTools,    \* MCP tools that auto-enrichment may queue
    Fallback,       \* investigate_ioc, the retry for a duplicate call
    Params,         \* argument values the LLM may choose
    MaxSteps,       \* state.max_steps
    MaxFaults,      \* bound on store writes that raise
    MayCrash        \* whether the process may be killed

\* The tools the loop runs on its own initiative are all classified as not
\* needing approval (mcp_tool_classification.py, tool_registry.py).
ASSUME ToolAssumption ==
    /\ Protected \subseteq Tools
    /\ RoleTools \subseteq Tools
    /\ EnrichSources \subseteq Tools
    /\ EnrichTools \subseteq Tools \ Protected
    /\ Fallback \in Tools \ Protected
    /\ Params # {}
ASSUME BoundAssumption ==
    /\ MaxSteps \in Nat
    /\ MaxFaults \in Nat
    /\ MayCrash \in BOOLEAN

VARIABLES
    pc,         \* where the session thread is
    phase,      \* state.phase
    move,       \* a checked transition() whose assignment is still to come
    steps,      \* state.step_count
    named,      \* tool_name: the tool the decision named
    call,       \* the call that _act gets: [tool, params]
    prevCalls,  \* _prev_tool_calls
    evidence,   \* some tool_result finding has no error
    queue,      \* enrichment tools still to be called
    pending,    \* state.pending_approval
    answer,     \* what _wait_for_approval returned
    evt,        \* the session's asyncio.Event: clear, set, or popped
    reqs,       \* approvals requested so far
    saved,      \* final_answer_saved
    final,      \* final_status, unused before Summarise assigns it
    status,     \* agent_sessions.status
    answers,    \* final_answer rows of the session
    grants,     \* approval_granted audit rows, per tool
    runs,       \* executions, per tool
    logged,     \* tool_call audit rows, per tool
    faults,     \* store writes that raised
    cancelPc,   \* where cancel_session is
    clicks      \* approve and reject calls the analysts have sent

locals   == <<named, call, prevCalls, queue, answer, saved, final>>
thread   == <<pc, move, locals>>
progress == <<steps, evidence>>
approval == <<pending, evt, reqs>>
shared   == <<phase, progress, approval>>
ledger   == <<grants, runs, logged>>
database == <<status, answers, ledger, faults>>
analyst  == <<cancelPc, clicks>>
vars     == <<thread, shared, database, analyst>>

-----------------------------------------------------------------------------
(* State *)

Phases == {"idle", "thinking", "acting", "observing", "reflecting",
           "waiting_human", "completed", "failed"}
Terminal == {"completed", "failed"}          \* AgentState.is_terminal

\* _TRANSITIONS, the moves that AgentState.transition accepts.
Allowed(from) ==
    CASE from = "idle"          -> {"thinking", "failed"}
      [] from = "thinking"      -> {"acting", "completed", "failed", "waiting_human"}
      [] from = "acting"        -> {"observing", "failed", "waiting_human"}
      [] from = "observing"     -> {"reflecting", "thinking", "completed", "failed"}
      [] from = "reflecting"    -> {"thinking", "completed", "failed"}
      [] from = "waiting_human" -> {"acting", "thinking", "failed", "completed"}
      [] from \in Terminal      -> {}

Verdicts == {"approved", "rejected"}
Calls    == [tool : Tools, params : Params]
NoCall   == [tool |-> Fallback, params |-> CHOOSE p \in Params : TRUE]
NoMove   == [to |-> "idle", then |-> "done"]
NoAnswer == [verdict |-> "none", seen |-> 0]

\* A pending approval keeps the last click that reached it and, as history,
\* the request that the clicking analyst was looking at.
Requests  == [verdict : Verdicts \cup {"none"}, seen : Nat]
NoRequest == [verdict |-> "no request", seen |-> 0]

Pcs == {"start", "guard", "set_thinking", "think", "moving", "request", "park",
        "clear", "wait", "asleep", "answered", "audit", "dup", "act", "record",
        "observe", "enrich", "enrich_act", "enrich_record", "finish",
        "complete", "summary", "save", "close", "publish", "except",
        "cleanup", "done", "killed"}
Ended == {"done", "killed"}

TypeOK ==
    /\ pc \in Pcs
    /\ phase \in Phases
    /\ move \in [to : Phases, then : Pcs]
    /\ steps \in Nat
    /\ named \in Tools
    /\ call \in Calls
    /\ prevCalls \subseteq Calls
    /\ evidence \in BOOLEAN
    /\ queue \subseteq EnrichTools
    /\ pending \in Requests \cup {NoRequest}
    /\ answer \in Requests
    /\ evt \in {"clear", "set", "popped"}
    /\ reqs \in Nat
    /\ saved \in BOOLEAN
    /\ final \in {"completed", "failed"}
    /\ status \in {"active", "completed", "failed"}
    /\ answers \in Nat
    /\ grants \in [Tools -> Nat]
    /\ runs \in [Tools -> Nat]
    /\ logged \in [Tools -> Nat]
    /\ faults \in Nat
    /\ cancelPc \in {"idle", "set", "store"}
    /\ clicks \subseteq [req : Nat, verdict : Verdicts]

\* AgentLoop.investigate, up to the start of the thread.
Init ==
    /\ pc = "start" /\ phase = "idle" /\ move = NoMove /\ steps = 0
    /\ named = Fallback /\ call = NoCall /\ prevCalls = {} /\ evidence = FALSE
    /\ queue = {} /\ pending = NoRequest /\ answer = NoAnswer
    /\ evt = "clear" /\ reqs = 0 /\ saved = FALSE /\ final = "failed"
    /\ status = "active" /\ answers = 0 /\ faults = 0
    /\ grants = [t \in Tools |-> 0]
    /\ runs = [t \in Tools |-> 0]
    /\ logged = [t \in Tools |-> 0]
    /\ cancelPc = "idle" /\ clicks = {}

-----------------------------------------------------------------------------
(* Steps of the session thread *)

Goto(label) == pc' = label /\ UNCHANGED move

\* state.transition(to): the check and the assignment are two bytecode
\* sequences, and a cancel may land between them. An illegal move raises.
CheckTransition(to, then) ==
    IF to \in Allowed(phase)
    THEN pc' = "moving" /\ move' = [to |-> to, then |-> then]
    ELSE Goto("except")

Move ==
    /\ pc = "moving"
    /\ phase' = move.to
    /\ Goto(move.then)
    /\ UNCHANGED <<locals, progress, approval, database, analyst>>

\* A store write raises (a locked or full database).
Fault == faults < MaxFaults /\ faults' = faults + 1

\* A store write that no handler nearer than _run_loop's catches. An action
\* that reaches "except" without it raises over a value that the LLM or a tool
\* chose.
Raise == Fault /\ Goto("except")

Begin ==
    /\ pc = "start"
    /\ CheckTransition("thinking", "guard")
    /\ UNCHANGED <<locals, shared, database, analyst>>

\* Mutant: one iteration too many.
GuardOffByOne ==
    /\ pc = "guard"
    /\ IF phase \notin Terminal /\ steps <= MaxSteps
       THEN Goto("set_thinking") ELSE Goto("finish")
    /\ UNCHANGED <<locals, shared, database, analyst>>

\* while not state.is_terminal() and state.step_count < state.max_steps
Guard ==
    /\ pc = "guard"
    /\ IF phase \notin Terminal /\ steps < MaxSteps
       THEN Goto("set_thinking") ELSE Goto("finish")
    /\ UNCHANGED <<locals, shared, database, analyst>>

\* The phase is assigned directly here, whatever it has become meanwhile.
SetThinking ==
    /\ pc = "set_thinking"
    /\ phase' = "thinking"
    /\ Goto("think")
    /\ UNCHANGED <<locals, progress, approval, database, analyst>>

\* Neither the LLM call nor its retry gave a decision, or _think or the code
\* that takes the decision apart raised.
NoDecision ==
    /\ pc = "think"
    /\ CheckTransition("failed", "finish") \/ Goto("except")
    /\ UNCHANGED <<locals, shared, database, analyst>>

\* The decision is final_answer. Saving the row may fail and is then retried
\* by SaveAnswer; saving the thinking step before it may not.
DecideAnswer ==
    /\ pc = "think"
    /\ \/ /\ Goto("finish")
          /\ \/ /\ answers' = answers + 1 /\ saved' = TRUE /\ UNCHANGED faults
             \/ Fault /\ UNCHANGED <<answers, saved>>
       \/ Raise /\ UNCHANGED <<answers, saved>>
    /\ UNCHANGED <<named, call, prevCalls, queue, answer, final, shared,
                   status, ledger, analyst>>

\* Mutant: a refused decision is retried for free.
SpendStepFree ==
    /\ pc = "think"
    /\ Goto("guard")
    /\ UNCHANGED <<locals, shared, database, analyst>>

\* The decision runs a playbook (which gates its own steps), or is refused:
\* a playbook the role may not run, no engine, an unknown action or tool.
SpendStep ==
    /\ pc = "think"
    /\ \/ steps' = steps + 1 /\ Goto("guard") /\ UNCHANGED faults
       \/ Raise /\ UNCHANGED steps
    /\ UNCHANGED <<locals, phase, evidence, approval, status, answers, ledger,
                   analyst>>

\* The decision is a call of a registered tool: gate it, or go on to ACT.
DecideTool(c) ==
    /\ pc = "think"
    /\ \/ /\ named' = c.tool /\ call' = c /\ UNCHANGED faults
          /\ IF c.tool \in Protected THEN Goto("request")
             ELSE CheckTransition("acting", "dup")
       \/ Raise /\ UNCHANGED <<named, call>>
    /\ UNCHANGED <<prevCalls, queue, answer, saved, final, shared, status,
                   answers, ledger, analyst>>

-----------------------------------------------------------------------------
(* The approval gate *)

\* AgentState.request_approval
RequestApproval ==
    /\ pc = "request"
    /\ pending' = [verdict |-> "none", seen |-> 0]
    /\ reqs' = reqs + 1
    /\ Goto("park")
    /\ UNCHANGED <<locals, phase, progress, evt, database, analyst>>

Park ==
    /\ pc = "park"
    /\ phase' = "waiting_human"
    /\ Goto("clear")
    /\ UNCHANGED <<locals, progress, approval, database, analyst>>

\* _wait_for_approval forgets whatever set the event before this moment.
ClearEvent ==
    /\ pc = "clear"
    /\ evt' = "clear"
    /\ Goto("wait")
    /\ UNCHANGED <<locals, phase, progress, pending, reqs, database, analyst>>

\* clear_approval, and what its caller gets.
TakeAnswer ==
    /\ answer' = IF pending = NoRequest THEN NoAnswer ELSE pending
    /\ pending' = NoRequest
    /\ Goto("answered")

\* evt.wait() returns at once if the event is set, and blocks if it is not.
Wait ==
    /\ pc = "wait"
    /\ \/ evt = "set" /\ TakeAnswer
       \/ evt = "clear" /\ Goto("asleep") /\ UNCHANGED <<pending, answer>>
    /\ UNCHANGED <<named, call, prevCalls, queue, saved, final, phase,
                   progress, evt, reqs, database, analyst>>

\* The session's event loop sleeps in its selector. evt.set() is called on
\* another thread and does not wake the selector: only the 30-minute timer
\* does. If the event was set meanwhile the answer is taken then.
TimerFires ==
    /\ pc = "asleep"
    /\ \/ evt = "set" /\ TakeAnswer /\ UNCHANGED phase
       \/ /\ evt = "clear"
          /\ phase' = "failed"
          /\ answer' = NoAnswer
          /\ Goto("answered")
          /\ UNCHANGED pending
    /\ UNCHANGED <<named, call, prevCalls, queue, saved, final, progress, evt,
                   reqs, database, analyst>>

\* if state.is_terminal(): break
AfterWait ==
    /\ pc = "answered"
    /\ Goto(IF phase \in Terminal THEN "finish" ELSE "audit")
    /\ UNCHANGED <<locals, shared, database, analyst>>

\* Mutant: a failing audit write is only logged.
AuditApprovalBestEffort ==
    /\ pc = "audit"
    /\ answer.verdict = "approved"
    /\ CheckTransition("acting", "dup")
    /\ \/ grants' = [grants EXCEPT ![named] = @ + 1] /\ UNCHANGED faults
       \/ Fault /\ UNCHANGED grants
    /\ UNCHANGED <<locals, shared, status, answers, runs, logged, analyst>>

\* The approval decision is written to the audit log before it takes effect.
AuditApproval ==
    /\ pc = "audit"
    /\ answer.verdict = "approved"
    /\ \/ /\ grants' = [grants EXCEPT ![named] = @ + 1] /\ UNCHANGED faults
          /\ CheckTransition("acting", "dup")
       \/ Raise /\ UNCHANGED grants
    /\ UNCHANGED <<locals, shared, status, answers, runs, logged, analyst>>

AuditRejection ==
    /\ pc = "audit"
    /\ answer.verdict # "approved"
    /\ \/ /\ steps' = steps + 1 /\ UNCHANGED faults
          /\ CheckTransition("thinking", "guard")
       \/ Raise /\ UNCHANGED steps
    /\ UNCHANGED <<locals, phase, evidence, approval, status, answers, ledger,
                   analyst>>

-----------------------------------------------------------------------------
(* Acting and observing *)

\* The duplicate call guard. The analyst's approval is not asked again, and
\* tool_name keeps the old name, when the fallback replaces the decision. To
\* look for an indicator in params that are a string raises; _act takes them.
DupGuard ==
    /\ pc = "dup"
    /\ \/ /\ call \notin prevCalls
          /\ prevCalls' = prevCalls \cup {call}
          /\ Goto("act")
          /\ UNCHANGED call
       \/ /\ call \in prevCalls /\ ~evidence /\ steps + 1 < MaxSteps
          /\ \/ call' = [call EXCEPT !.tool = Fallback] /\ Goto("act")
             \/ Goto("except") /\ UNCHANGED call
          /\ UNCHANGED prevCalls
       \/ /\ call \in prevCalls /\ (evidence \/ steps + 1 >= MaxSteps)
          /\ Goto("finish")
          /\ UNCHANGED <<call, prevCalls>>
    /\ UNCHANGED <<named, queue, answer, saved, final, shared, database,
                   analyst>>

\* _act executes call.tool unless the session's role forbids it.
Execute ==
    runs' = IF call.tool \in RoleTools
            THEN [runs EXCEPT ![call.tool] = @ + 1] ELSE runs

Act ==
    /\ pc = "act"
    /\ Execute
    /\ Goto("record")
    /\ UNCHANGED <<locals, shared, status, answers, grants, logged, faults,
                   analyst>>

\* The second half of _act: the step row and the audit row.
LogCall == logged' = [logged EXCEPT ![call.tool] = @ + 1] /\ UNCHANGED faults

\* Mutant: the phase moves before the call is logged.
RecordLate ==
    /\ pc = "record"
    /\ IF "observing" \in Allowed(phase) THEN LogCall ELSE UNCHANGED <<logged,
                                                                       faults>>
    /\ CheckTransition("observing", "observe")
    /\ UNCHANGED <<locals, shared, status, answers, grants, runs, analyst>>

\* After _act comes transition(OBSERVING), which raises if the session was
\* cancelled while the tool ran.
Record ==
    /\ pc = "record"
    /\ \/ LogCall /\ CheckTransition("observing", "observe")
       \/ Raise /\ UNCHANGED logged
    /\ UNCHANGED <<locals, shared, status, answers, grants, runs, analyst>>

\* A result without an error, which a forbidden call cannot have.
Succeeds(ok) == ok => call.tool \in RoleTools

\* Enrichment starts in the first three steps, and leaves one step unused.
Enriches == named \in EnrichSources /\ steps + 1 <= 3 /\ steps + 2 < MaxSteps

\* Mutant: enrichment queues the tool that it enriches.
ObserveRequeue(ok, tools) ==
    /\ pc = "observe"
    /\ Succeeds(ok)
    /\ evidence' = (evidence \/ ok)
    /\ steps' = steps + 1
    /\ \/ Enriches /\ queue' = tools \cup {named} /\ Goto("enrich")
       \/ ~Enriches /\ CheckTransition("thinking", "guard") /\ UNCHANGED queue
    /\ UNCHANGED <<named, call, prevCalls, answer, saved, final, phase,
                   approval, database, analyst>>

\* The finding, its step and the findings snapshot; then enrichment is queued
\* or the loop turns to the next iteration. Choosing the enrichment tools raises
\* for params that are a string, or an ioc that is none.
Observe(ok, tools) ==
    /\ pc = "observe"
    /\ Succeeds(ok)
    /\ evidence' = (evidence \/ ok)
    /\ steps' = steps + 1
    /\ \/ /\ Enriches /\ queue' = tools /\ Goto("enrich") /\ UNCHANGED faults
       \/ /\ Enriches /\ Goto("except") /\ UNCHANGED <<queue, faults>>
       \/ /\ ~Enriches /\ CheckTransition("thinking", "guard")
          /\ UNCHANGED <<queue, faults>>
       \/ Raise /\ UNCHANGED queue
    /\ UNCHANGED <<named, call, prevCalls, answer, saved, final, phase,
                   approval, status, answers, ledger, analyst>>

\* Neither the approval gate nor is_terminal is consulted between two
\* enrichment calls, and the phase is assigned directly.
Enrich(c) ==
    /\ pc = "enrich"
    /\ c.tool \in queue /\ steps + 1 < MaxSteps
    /\ queue' = queue \ {c.tool}
    /\ call' = c
    /\ phase' = "acting"
    /\ Goto("enrich_act")
    /\ UNCHANGED <<named, prevCalls, answer, saved, final, progress, approval,
                   database, analyst>>

EnrichDone ==
    /\ pc = "enrich"
    /\ queue = {} \/ steps + 1 >= MaxSteps
    /\ queue' = {}
    /\ CheckTransition("thinking", "guard")
    /\ UNCHANGED <<named, call, prevCalls, answer, saved, final, shared,
                   database, analyst>>

EnrichAct ==
    /\ pc = "enrich_act"
    /\ Execute
    /\ Goto("enrich_record")
    /\ UNCHANGED <<locals, shared, status, answers, grants, logged, faults,
                   analyst>>

\* A raise in here is caught inside the enrichment loop and costs a step: the
\* only one if _act raised, a second one if the findings snapshot did.
EnrichRecord(ok) ==
    /\ pc = "enrich_record"
    /\ Succeeds(ok)
    /\ \/ /\ LogCall
          /\ phase' = "observing" /\ evidence' = (evidence \/ ok)
          /\ steps' = steps + 1
       \/ /\ Fault
          /\ steps' = steps + 1
          /\ UNCHANGED <<logged, phase, evidence>>
       \/ /\ Fault
          /\ logged' = [logged EXCEPT ![call.tool] = @ + 1]
          /\ phase' = "observing" /\ evidence' = (evidence \/ ok)
          /\ steps' = steps + 2
    /\ Goto("enrich")
    /\ UNCHANGED <<locals, approval, status, answers, grants, runs, analyst>>

-----------------------------------------------------------------------------
(* Completion *)

\* if not state.is_terminal(): state.phase = COMPLETED
Finish ==
    /\ pc = "finish"
    /\ Goto(IF phase \in Terminal THEN "summary" ELSE "complete")
    /\ UNCHANGED <<locals, shared, database, analyst>>

Complete ==
    /\ pc = "complete"
    /\ phase' = "completed"
    /\ Goto("summary")
    /\ UNCHANGED <<locals, progress, approval, database, analyst>>

\* _generate_summary awaits the LLM; final_status is read after it. It walks
\* through all that the tools have returned, before it catches anything.
Summarise ==
    /\ pc = "summary"
    /\ \/ final' = (IF phase = "completed" THEN "completed" ELSE "failed") /\ Goto("save")
       \/ Goto("except") /\ UNCHANGED final
    /\ UNCHANGED <<named, call, prevCalls, queue, answer, saved, shared,
                   database, analyst>>

\* Mutant: the completion path does not look at final_answer_saved.
SaveAnswerAgain ==
    /\ pc = "save"
    /\ Goto("close")
    /\ answers' = IF final = "completed" THEN answers + 1 ELSE answers
    /\ UNCHANGED <<locals, shared, status, ledger, faults, analyst>>

\* The completion path saves the answer that no final_answer row holds yet.
SaveAnswer ==
    /\ pc = "save"
    /\ Goto("close")
    /\ \/ /\ final = "completed" /\ ~saved
          /\ \/ answers' = answers + 1 /\ saved' = TRUE /\ UNCHANGED faults
             \/ Fault /\ UNCHANGED <<answers, saved>>
       \/ /\ ~(final = "completed" /\ ~saved)
          /\ UNCHANGED <<answers, saved, faults>>
    /\ UNCHANGED <<named, call, prevCalls, queue, answer, final, shared,
                   status, ledger, analyst>>

\* update_session_status replaces whatever status a cancel left there.
Close ==
    /\ pc = "close"
    /\ \/ status' = final /\ Goto("publish") /\ UNCHANGED faults
       \/ Raise /\ UNCHANGED status
    /\ UNCHANGED <<locals, shared, answers, ledger, analyst>>

\* The findings row and the "completed" frame.
Publish ==
    /\ pc = "publish"
    /\ \/ Goto("cleanup") /\ UNCHANGED faults
       \/ Raise
    /\ UNCHANGED <<locals, shared, status, answers, ledger, analyst>>

\* Mutant: the except branch sets the phase and forgets the row.
ExceptSilent ==
    /\ pc = "except"
    /\ phase' = "failed"
    /\ Goto("cleanup")
    /\ UNCHANGED <<locals, progress, approval, database, analyst>>

\* except Exception: the status write can raise as well, and nothing catches it.
Except ==
    /\ pc = "except"
    /\ phase' = "failed"
    /\ \/ status' = "failed" /\ UNCHANGED faults
       \/ Fault /\ UNCHANGED status
    /\ Goto("cleanup")
    /\ UNCHANGED <<locals, progress, approval, answers, ledger, analyst>>

\* finally: self._approval_events.pop(session_id)
Cleanup ==
    /\ pc = "cleanup"
    /\ evt' = "popped"
    /\ Goto("done")
    /\ UNCHANGED <<locals, phase, progress, pending, reqs, database, analyst>>

-----------------------------------------------------------------------------
(* The HTTP handlers, one at a time on the main event loop *)

\* An analyst who sees a pending approval sends approve or reject. The call
\* carries no identity of the action; it may arrive late, or twice.
Click(v) ==
    /\ pc # "killed" /\ pending # NoRequest
    /\ clicks' = clicks \cup {[req |-> reqs, verdict |-> v]}
    /\ UNCHANGED <<thread, shared, database, cancelPc>>

\* approve_action and reject_action. They change nothing, though they report
\* success, when a finished session still shows its pending approval.
Deliver(c) ==
    /\ pc # "killed" /\ cancelPc = "idle"
    /\ pending # NoRequest /\ evt # "popped"
    /\ pending' = [verdict |-> c.verdict, seen |-> c.req]
    /\ evt' = "set"
    /\ UNCHANGED <<thread, phase, progress, reqs, database, analyst>>

\* cancel_session: the test, the assignment, and the store write with the
\* event, each of which the session thread may overtake.
CancelTest ==
    /\ pc # "killed" /\ cancelPc = "idle"
    /\ phase \notin Terminal
    /\ cancelPc' = "set"
    /\ UNCHANGED <<thread, shared, database, clicks>>

CancelSet ==
    /\ cancelPc = "set"
    /\ phase' = "failed"
    /\ cancelPc' = "store"
    /\ UNCHANGED <<thread, progress, approval, database, clicks>>

\* If the store write raises, the event is never set.
CancelStore ==
    /\ cancelPc = "store"
    /\ cancelPc' = "idle"
    /\ \/ /\ status' = "failed"
          /\ evt' = IF evt = "popped" THEN evt ELSE "set"
          /\ UNCHANGED faults
       \/ Fault /\ UNCHANGED <<status, evt>>
    /\ UNCHANGED <<thread, phase, progress, pending, reqs, answers, ledger,
                   clicks>>

-----------------------------------------------------------------------------
\* The process is killed. No code reads an unfinished session back at start-up:
\* its rows are all that is left of it.
Kill ==
    /\ MayCrash /\ pc \notin Ended
    /\ Goto("killed")
    /\ cancelPc' = "idle"
    /\ UNCHANGED <<locals, shared, database, clicks>>

\* Nothing is left to do: the session has ended.
Stopped == pc \in Ended /\ cancelPc = "idle" /\ UNCHANGED vars

Gate ==
    \/ RequestApproval \/ Park \/ ClearEvent \/ Wait \/ TimerFires
    \/ AfterWait \/ AuditApproval \/ AuditRejection

SessionThread ==
    \/ Move \/ Begin \/ Guard \/ SetThinking
    \/ NoDecision \/ DecideAnswer \/ SpendStep \/ \E c \in Calls : DecideTool(c)
    \/ Gate
    \/ DupGuard \/ Act \/ Record
    \/ \E ok \in BOOLEAN, tools \in SUBSET EnrichTools : Observe(ok, tools)
    \/ \E c \in Calls : Enrich(c)
    \/ EnrichDone \/ EnrichAct \/ \E ok \in BOOLEAN : EnrichRecord(ok)
    \/ Finish \/ Complete \/ Summarise \/ SaveAnswer \/ Close \/ Publish
    \/ Except \/ Cleanup

Cancel == CancelSet \/ CancelStore

Handlers ==
    \/ \E v \in Verdicts : Click(v)
    \/ \E c \in clicks : Deliver(c)
    \/ CancelTest \/ Cancel

Next == SessionThread \/ Handlers \/ Kill \/ Stopped

Spec == Init /\ [][Next]_vars

\* The session thread always gets to run: LLM and MCP calls time out, and so
\* does the wait for an approval. A handler that began runs to its end.
\* Nothing obliges an analyst to answer or to cancel.
FairSpec == Spec /\ WF_vars(SessionThread) /\ WF_vars(Cancel)

-----------------------------------------------------------------------------
(* Properties *)

\* The loop implements the approval ledger: whatever the order of decisions,
\* duplicates, enrichment, clicks, cancels, store failures and crashes, every
\* execution of a protected tool uses up a grant that was in the audit log
\* before it (agent_loop.py, approval gate and _act).
Ledger == INSTANCE ApprovalLedger
ApprovalBeforeRun == Ledger!Spec

\* step_count never passes max_steps, although enrichment spends steps in the
\* middle of an iteration and a failed findings snapshot spends two.
StepBudget == steps <= MaxSteps

\* The session keeps at most one final_answer row, and one that completes
\* without a store failure keeps exactly one (final_answer_saved).
OneFinalAnswer ==
    /\ answers <= 1
    /\ pc = "done" /\ status = "completed" /\ faults = 0 => answers = 1

\* Executions that are on their way from the tool to the audit log, or that the
\* killed process took with it.
Unlogged == IF pc \in {"record", "enrich_record", "killed"} THEN 1 ELSE 0

\* Every execution reaches the audit log; one that does not is accounted for by
\* a store write that raised or by the kill. A cancel while the tool runs loses
\* nothing (_act writes before transition(OBSERVING) raises).
AuditComplete == \A t \in Tools : runs[t] <= logged[t] + faults + Unlogged

\* The thread leaves its row "active" only if the very last write, the one of
\* the except branch, raises: no exception in the loop, whatever raised it, no
\* cancel, no illegal transition and no earlier failing write does that, and
\* the end of the loop is no exit without a status (agent_loop.py, the two
\* status writes of _run_loop).
LeavesActive  == pc # "cleanup" /\ pc' = "cleanup" /\ status' = "active"
StatusSettles == [][LeavesActive => pc = "except" /\ faults' = faults + 1]_vars

\* Every session ends, without help from an analyst: the wait for an approval
\* times out and every way round the loop spends a step.
Terminates == <>(pc \in Ended)

\* AgentState.is_terminal: "Return True when the session cannot make further
\* progress". A cancel that lands in the seconds an enrichment call takes is
\* overwritten by the direct assignments of the phase around that call.
TerminalIsFinal ==
    [][phase' # phase /\ pc \in {"enrich", "enrich_record"}
       => phase \notin Terminal]_vars

\* _wait_for_approval: "Block until the analyst approves/rejects or the session
\* is cancelled". The timer does not have to run out on a decided request.
DecisionEndsWait ==
    [][TimerFires => evt = "clear" /\ pending.verdict = "none"]_vars

\* get_session_audit_trail: an approval entry is "the evidence that a named
\* human approved a specific action", so the click it records was made on the
\* request it is recorded for.
GrantNamesSeenAction ==
    pc = "audit" /\ answer.verdict = "approved" => answer.seen = reqs
=============================================================================
