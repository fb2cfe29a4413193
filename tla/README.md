# cabta-llm in TLA+

This directory holds a TLA+ model of the parts of cabta-llm whose correctness
depends on the order in which things happen: the agent loop, the playbook
engine, the human approval gate both of them share, the store they write to,
the way to an account by request and invitation, and the services around them:
background analyses, live frames, the export of detection rules, notifications,
the connection to MCP servers, the login limiter. TLC checks the modules on
small instances and TLAPS proves theorems about them for every value of their
constants.

    tlc -workers 2 -config MCAgentLoop.cfg MCAgentLoop
    tlc -workers 2 -config MCPlaybook.cfg  MCPlaybook
    tlc -workers 2 -config MCInvitations.cfg MCInvitations
    tlc -workers 2 -config MCServices.cfg  MCServices
    tlapm AgentLoopProofs.tla
    tlapm PlaybookProofs.tla
    tlapm InvitationProofs.tla
    tlapm McpProofs.tla
    tlapm LiveFeedProofs.tla
    tlapm NotificationProofs.tla
    tlapm RuleExportProofs.tla
    tlapm LoginProofs.tla

## 1. The system

cabta-llm is a blue-team assistant: a FastAPI server, an LLM that decides which
tool to call next, local analyzers, MCP tool servers, and SQLite databases.
Paths below are relative to `src/src/`.

| Component | Code | State it keeps | Operations | Talks to |
|---|---|---|---|---|
| Agent loop (Flow B) | `agent/agent_loop.py`, `agent/agent_state.py` | one `AgentState` per session, one `asyncio.Event` per session | investigate, the think/act/observe loop, approve, reject, cancel | store, registry, MCP client, notifications, LLM |
| Playbook engine (Flow C) | `agent/playbook_engine.py` | nothing in memory but the cache of playbooks; status and checkpoint in the session row | start, step loop, for_each, execute_from_step | store, registry, agent loop (frames) |
| Agent store | `agent/agent_store.py` | sessions, steps, audit log, one lock | one transaction per call | SQLite |
| Approval and cancel endpoints | `web/routes/agent.py`, `web/routes/playbooks.py` | none | approve (both verdicts), cancel, delete | both flows |
| Tool selection, registry | `agent/agent_tool_selection.py`, `agent/tool_registry.py`, `agent/mcp_tool_classification.py` | registered tools, which of them need approval | rank, classify, execute | analyzers, MCP client |
| Session stream | `web/websocket.py` | a queue per subscriber | snapshot, subscribe, poll | agent loop, store |
| Analysis jobs | `web/analysis_manager.py`, `web/routes/analysis.py` | job rows, one lock, a queue per subscriber | create, progress, complete, fail, follow | daemon threads, pages |
| MCP client | `agent/mcp_client.py` | connections, owner task and queue per stdio server | connect, disconnect, call | tool servers |
| Notifications | `integrations/notifications.py`, `notification_policy.py`, `notification_digest.py` | dedup claims, digest queue | notify, send digest | Gmail |
| Accounts | `web/auth.py`, `web/routes/access_requests.py`, `web/routes/admin.py`, `web/routes/auth.py` | users, invite tokens, access requests, failed logins | request, approve, reject, invite, accept, log in | mail |
| Rule export | `web/routes/reports.py`, `detection/` | approval state and content hash per rule | edit, approve, export | analysis jobs |
| Circuit breaker | `utils/rate_limiter.py` | state per service | allow, record | nothing in `src/src` uses it |

The rest (about 75 000 of 83 000 lines) is sequential data processing or I/O:
analyzers, decoders, scoring, threat intelligence clients, sandboxes, report
generators, MCP servers, pages, migrations. `PROJECT.json` lists every part
with its status and the reason.

### How the threads meet

- HTTP handlers are coroutines on the **main event loop**. Between two awaits
  nothing else on that loop runs.
- A Flow B session runs on a **thread of its own with an event loop of its
  own** (`AgentLoop.investigate`). It shares the `AgentState` object and the
  `asyncio.Event` with the handlers, without a lock.
- A Flow C session's first run has a thread too (`PlaybookEngine.start`), but
  a resume (`execute_from_step`) runs inside the approve call, on the main
  event loop. What they share is the session's row.
- Endpoints declared `def` (accounts) run on a thread pool, in parallel.
- An analysis runs on a daemon thread of its own; it writes its row under the
  manager's lock and posts its frames to the main event loop.
- An MCP session lives in an owner task on the main event loop; callers put
  requests into its queue.
- A store call takes the lock, opens a connection, commits, closes: it is
  atomic, and it can raise.
- A restart loses every thread; nothing reads an unfinished session back.

### What is hard, and what makes each part correct

| Part | Hard | Correct means |
|---|---|---|
| Agent loop | cancel and approve from another thread at any instruction, phases assigned around the transition table, enrichment inside an iteration, writes that raise | a protected tool runs only under an approval already in the audit log; the step budget holds; every run tool is in the audit log; one answer row; an exception leaves the row active only through a failing last write; the session ends; a terminal phase stays; a decision ends the wait and is about the action it was made on |
| Playbook engine | resumes that overlap each other or the first run, a pause made of two writes, cycles, templates over missing results | a waiting session can be resumed; gated tools run only through an approve call and are audited; every run ends; one resume per request; rejection skips what depends on it |
| Session stream | snapshot against subscription, frames posted to another thread, cancel against the end, restart | a connected client gets the end, each request reaches who follows the playbook, nothing is deleted under a running thread |
| Analysis jobs | subscribe, read, write and announce in any order, broken connections, failing writes, restart | a finished job stays finished, what a page shows is in the database, who follows a job hears of its end, every job ends |
| MCP client | calls into a queue whose owner closes or breaks, a server that is silent, parallel connects | one live session per server, no call left behind, the lock comes back |
| Notifications | claim before send, failures between mail and mark, parallel threads | mails of one key stand for claims a window apart; a digest line is mailed some day, and marked only then |
| Login limiter | check and record apart, clock read before the lock | a bounded overshoot, no refusal without cause |
| Accounts | parallel decisions, mail failures | one decision per request and one invitation per address; an approval stands for an invitation that was sent; the answer of a call is true |
| Rule export | edit after approval | only approved content is exported |

The full list of hazards, each at its line and with the properties that would
catch it, is in `PROJECT.json`.

## 2. Modules

| Module | Content |
|---|---|
| `ApprovalLedger` | abstract specification of the approval gate: grants and runs per tool, and a protected tool runs only while it has an unused grant |
| `AgentLoop` | one Flow B session: thread, handlers, store rows |
| `MCAgentLoop` | instance for TLC: `block_ip` (protected), `investigate_ioc` (fallback, triggers enrichment), `blocklist_check` (enrichment) |
| `AgentLoopProofs` | theorems about `AgentLoop` |
| `PlaybookEngine` | one Flow C session: the first run, approve and reject calls, the row |
| `PlaybookProofs` | theorems about `PlaybookEngine`, for every playbook |
| `Invitations` | access requests, approve, reject and invite calls in parallel, tokens, accounts |
| `MCInvitations` | one address, two requests, three calls, two admins and a team lead |
| `InvitationProofs` | theorems about `Invitations` |
| `RuleRelease` | abstract specification of rule export: what may leave the system |
| `RuleExport` | detection rules: edits, approval, deployment, download and bundle |
| `RuleExportProofs` | theorems about `RuleExport`, and that it implements `RuleRelease` |
| `AnalysisJobs` | job rows, job threads, frames, `analysis_ws` and the reconnecting page |
| `SessionStream` | sessions as the chat page sees them: `agent_ws`, frames, cancel, delete |
| `LiveFeedProofs` | theorems about `AnalysisJobs` and `SessionStream`, the two modules with frames on their way to a socket |
| `Notifications` | dedup claims, mails, the digest queue and its loop |
| `NotificationProofs` | theorems about `Notifications` |
| `McpClient` | the manager, its lock, owner tasks and tool calls |
| `McpProofs` | theorems about `McpClient` |
| `LoginLimiter` | the limiter and the login endpoint |
| `LoginProofs` | theorems about `LoginLimiter` |
| `MCServices` | instances of these six services, one of which runs in each behaviour |
| `MCPlaybook` | a six-step playbook with a branch, a conditional gate, a dependent tool that goes back on failure, a gated batch, a batch and an action |

### AgentLoop

`pc` is the place of the session thread in `_run_loop`, `_act` and
`_wait_for_approval`; `phase`, `steps`, `pending` are the fields of
`AgentState`; `evt` is the session's event (`popped` once `_run_loop` removed
it); `status`, `answers`, `grants` and `logged` count the rows of the store;
`runs` counts tool executions. `cancelPc` is the place of `cancel_session`, and
`clicks` are the approve and reject calls on their way, each with the request
its sender was looking at (history, which no guard reads).

An exception need not cost a write. `_act` accepts params that are a string, and
the code around it then fails on them: the enrichment lookup (line 926), the
duplicate fallback (856), the summary. `Observe`, `DupGuard`, `Summarise` and
`NoDecision` (for `_think`) may go to `Except` freely; `Raise` is the failed
write that leads there.

A step of the thread ends wherever the other thread could see or change what it
uses next: at each write of `state.phase`, each store write, each tool call,
and inside `transition()` between its check and its assignment (`moving`).

| Code | Actions |
|---|---|
| loop head, direct `phase = THINKING`, `_think` | `Guard`, `SetThinking`, `NoDecision`, `DecideAnswer`, `SpendStep`, `DecideTool` |
| approval gate, `_wait_for_approval` | `RequestApproval`, `Park`, `ClearEvent`, `Wait`, `TimerFires`, `AfterWait`, `AuditApproval`, `AuditRejection` |
| duplicate call guard | `DupGuard` |
| `_act` | `Act`, `Record`, and `EnrichAct`, `EnrichRecord` for enrichment |
| observe, auto-enrichment | `Observe`, `Enrich`, `EnrichDone` |
| completion, except, finally | `Finish`, `Complete`, `Summarise`, `SaveAnswer`, `Close`, `Publish`, `Except`, `Cleanup` |
| `AgentState.transition` | `CheckTransition` in the calling action, then `Move` |
| `approve_action`, `reject_action` | `Click` (the analyst), `Deliver` (the handler) |
| `cancel_session` | `CancelTest`, `CancelSet`, `CancelStore` |
| process killed | `Kill` |

Abstracted: the LLM's decision is a choice among the outcomes the code
distinguishes; a tool's result is whether it counts as evidence; wording,
frames, summaries and correlation are left out. A playbook called by the loop
is one step, since it gates its own steps. The store writes of one action that
raise into the same handler are one possible fault.

### PlaybookEngine

`run[r]` is the state of a run: the thread of `start`, or one approve or reject
call. Its context is reduced to two sets of steps: those whose result can be
interpolated (`have`) and those rejected (`rejected`, the `_skipped_steps` of
the code). `checkpoint` is `pending_step_name`, `step_number` and `context` in
the metadata. `turn` gives the main event loop to one call from one await to
the next (of the special actions `trigger_playbook` awaits); the first run is not
bound by it. `pauses`, `ran`, `granted` count
approval requests, executions and audit rows per step; `blame` is the step over
which a run failed the session.

| Code | Actions |
|---|---|
| `_run_step_loop` head and step limit | `AbortAtLimit`, `Decide`, `SkipConditional` |
| gate: metadata, then status | `Mark`, `Park` |
| special actions | `ActionStep` |
| templates nothing resolves | `FailStep`, `SkipDependent` |
| tool call, `_execute_for_each` | `Dispatch`, `Return`, `BatchBreaks`, `EmptyBatch` |
| end of the playbook | `Complete` |
| `execute_from_step` | `Approve`, `AuditGrant`, `Resume`, `Reject` |
| writes that raise, restart | `Fault`, `Lose`, `Kill` |

The order of steps, their kinds, targets, gates and template dependencies are
constants, so the module is about every playbook; `Resolve` is `_resolve_next`.
A batch's items are not told apart: it is one execution, which may break on an
item. A condition's outcome is a choice.

### Invitations

`request` is the `access_requests` table, `account` the `users` rows of the
addresses in question, `token` the state of the invite token of each call, and
`mailed` the calls whose invitation arrived. A call is one HTTP request to an
approve or invite endpoint: `pc` is its place between two transactions and
`job` what it works on, which is also what its token row holds. These endpoints
run on the thread pool, so calls interleave between transactions; within one
connection the database serialises them (`BEGIN IMMEDIATE`, or one statement).

| Code | Actions |
|---|---|
| `create_access_request` | `Submit` |
| `approve_access_request` | `StartApprove`, the actions of the invitation, `Decide` |
| `reject_access_request` | `Reject` |
| `invite_user`, `invite_team_member` | `StartInvite` |
| `_send_invitation`, `create_invite_token` | `CreateToken`, `Refuse`, `SendMail`, `MailFails` |
| `consume_invite_token` | `Accept` |
| 48 hours, a locked database, a restart | `Expire`, `StoreFails`, `Kill` |

User names, passwords and the submission limit are left out: they can only
refuse a call that then changes nothing. A failed mail may have arrived.

### AnalysisJobs

`row` is the status column, `thread` the place of the job's daemon thread and
`frame` the message it has still to announce: a write to the row and `_notify`
are two steps. `posted` are the callbacks given to `call_soon_threadsafe`.
`place` is where a page and its `analysis_ws` handler are, `inbox` its
`asyncio.Queue`, `tries` the counter of `websocket.js`. Subscribing and reading
the row happen without an await in between, which is the state `reading`: the
event loop does nothing else then, but job threads do.

| Code | Actions |
|---|---|
| `create_job`, `Thread.start` | `CreateJob`, `StartThread` |
| `update_progress`, `update_steps`, `complete_job`, `fail_job` | `WriteProgress`, `WriteCompleted`, `WriteFailed`, then `NotifyFollowers` and `Deliver` |
| `_run_*_analysis_bg` | the order of these, `AnalysisRaises`, `StoreFails`, `LinkCase` |
| `analysis_ws` | `ConnectPage`, `ReadRow`, `SendFrame` |
| `websocket.js` | `Drop`, `ConnectFails`, `ClosePage`, through `Retry` |
| restart | `Crash`, `Boot` |

### SessionStream

`status` is the session's row, `task` the place of its thread or resumed run as
far as frames go, `known` and `over` are `_active_sessions` and its terminal
states, `queued` the callbacks of `_notify`, `page` the connections. `agent_ws`
awaits while it sends the snapshot (`Open`, `SendSnapshot`) and subscribes after
it: frames in that gap are kept as history in `missed`, so that the properties
can say what else may not be lost. Between the two, `Repeat` shows the waiting
request to an Incident Responder (`ResponderPages`), and to nobody else. Requests
of a session are numbered (`asks`), and `asked` holds the numbers a page has been
shown, so that an earlier request does not pass for a later one. `Start`, `Pause`, `Resume`, `EndSession`,
`HitStepLimit` write a status, `Announce` and `PutAll` bring its frame to the
queues, `Forward` to the page. `Cancel`, `Delete` and `Reboot` are the endpoints
and the restart.

### RuleExport

`text` and `editor` are in the database, `entry` is `_rule_export_states`.
Handlers are coroutines without an await, so each is one step. `Current` is
`_get_rule_export_state`, which replaces an entry whose hash is not the hash of
the text. An approval is of the text at the moment of the call, not of the text
the approver had on the screen; the model says so in `ApproveRule`.

### Notifications

A call is `notify` for one recipient: `Notify` is the claim in `should_dedup`,
then `SendMail` or `Enqueue`, or `NotifyFails`. `pass` is a run of
`send_pending_digests`: the lines it read, the users still to be mailed, and
whether the turn's mail is out but not marked. `line` is the digest queue,
`copies` counts the digests a line was delivered in (history). The clock is
needed for the window alone; a claim carries the time at which its thread read
it, which may be some time before the transaction.

### McpClient

The manager's operations under its lock are `Connect` and `Disconnect`, then
`SessionClosed`, `Started`, `StartFails`, `Discovered`; `stage` says which of
their awaits the holder is in. The owner task takes requests (`TakeRequest`,
`Reply`), stops (`TakeStop`), breaks (`SessionBreaks`), is cancelled by `close`
(`CloseTimesOut`), and drains its queue at its end (`EndOwner`). `CallTool` and
`CallTimesOut` are the callers.

### LoginLimiter

A request reads the clock, then takes the lock, in each of the limiter's
operations, so that these are two steps; an entry of the deque carries both the
time that was read and, as history, the time at which it was appended.
`Refused` is the answer 429, for which `retry_after` prunes once more.

## 3. Runs

| Run | Checks | Result |
|---|---|---|
| `agent_loop` | `TypeOK`, `StepBudget`, `OneFinalAnswer`, `AuditComplete`, `StatusSettles`, and the refinement `ApprovalBeforeRun` | hold |
| `agent_loop_live` | `Terminates` under `FairSpec` | holds |
| `playbook` | `TypeOK`, `WaitingIsResumable`, `GatedRunsAudited`, `ActiveIsAlive`, `EveryRunEnds` under `FairSpec` | hold |
| `invitations` | `TypeOK`, `OneInvitePerAddress`, `ApprovedWasInvited`, `ActiveByInvite`, `AnswersAreTrue`, `DecidedStays` | hold |
| `services`: jobs | `JobTypeOK`, `ToldIsTrue`, `FinishedStays`, `EndIsHeard`, `EveryJobEnds` | hold |
| `services`: stream | `StreamTypeOK`, `DeletedIsIdle`, `EndIsForwarded`, `RequestIsShown` | hold |
| `services`: rules | `RuleTypeOK`, `HunterExportsOwn`, and the refinement `ImplementsRelease` | hold |
| `services`: mail | `NotifyTypeOK`, `OneClaimPerWindow`, `DigestBooks`, `DigestArrives` | hold |
| `services`: mcp | `McpTypeOK`, `OneLiveOwner`, `NoCallLeftBehind`, `LockKeptByServer` | hold |
| `services`: login | `OvershootBounded`, `RefusedForCause` | hold |
| `pending_request_blocked` | `PendingCanBeApproved` | violated |
| `agent_cancel_overwritten` | `TerminalIsFinal` | violated |
| `agent_decision_unheard` | `DecisionEndsWait` | violated |
| `agent_stale_approval` | `GrantNamesSeenAction` | violated |
| `playbook_double_approve` | `OneResumePerCheckpoint` | violated |
| `playbook_rejected_dependency` | `RejectionIsNotMalformed` | violated |
| `playbook_gated_batch` | `BatchIsAskedAbout` | violated |

Each passing property also has a mutant of the code (a dropped guard, a
swapped order, a missing write) that breaks it under the same configuration;
the mutants stand next to the definitions they change.

### What the violated ones show

1. **A cancel can be undone.** The loop assigns `phase` around each enrichment
   call and asks `is_terminal()` only at its head. A cancel during the call is
   overwritten and the investigation goes on (`agent_loop.py:942,961`).
2. **A decision does not wake the session.** `evt.set()` runs on the main
   thread, the wait on the session's loop, whose selector it does not wake: the
   decision is read when the 30-minute timer fires (`agent_loop.py:404,1268`).
3. **An approval does not say what it approves.** A late approve call lands on
   the next request and is audited as its approval (`agent_loop.py:397`).
4. **A checkpoint can be resumed again and again**, by a second approve while
   the first runs or after the session is over (`playbook_engine.py:1192`).
5. **A rejected step fails what depends on it** unless that is a single,
   ungated tool call that mentions it directly (`playbook_engine.py:1743`).
6. **A batch behind a gate that mentions `{{item}}` fails at the gate**, as
   `quarantine_artifacts` of the incident response playbook does
   (`playbook_engine.py:1535`).

7. **A failed invitation mail blocks the request.** The account row is
   committed before the mail is sent; when the mail fails the request stays
   pending, and each later approve call is refused because the address is
   "already invited" (`auth.py:398`).

### What the services show besides

The properties of `services` hold, and some are stated with the exception the
code makes. These are worth knowing:

- `EndIsForwarded`: a client of `agent_ws` that subscribes after the end was
  announced waits for ever, as does one whose playbook aborts at its step limit,
  where no frame is sent. The page of an analysis has neither problem: its
  handler subscribes first and reads then.
- `EveryJobEnds`: a restart leaves jobs queued or running for ever.
- `LockKeptByServer`: the handshake and the request for tools wait under the
  manager's lock without a timeout; a silent server keeps every other server
  from being connected or disconnected. It is stated for one server's entry.
- `NoCallLeftBehind`: a session that broke stays registered as connected, so
  each later call waits 60 seconds for nothing. A call that has timed out in the
  queue is still executed when its turn comes.
- `RequestIsShown`: everybody who follows a playbook is shown each of its
  requests, but who opens the page of one that already waits is asked only as an
  Incident Responder (`websocket.py:298,307`); an admin or a Threat Hunter sees
  the status alone.
- `OneClaimPerWindow` is about claims, as the code is: a slow mail may arrive
  together with the next one of its key. It is bought by claiming first, so that
  a failed mail loses the event for the window; and the key holds neither session
  nor tool, so that two sessions' approval requests share one. No property is
  about either loss.
- `StatusSettles`: of all writes of a session only that of the `except` branch
  has nobody behind it. When it fails the row stays active for ever and no frame
  is sent, whatever led there, a failed write or a string for params.
- `ImplementsRelease` is about downloads, bundles and the deployment mark.
  Reports and results carry the text of a rule without an approval.
- `DigestBooks`: a failure between mail and mark sends a line again.
- `RefusedForCause`: a slow thread leaves the deque out of order, and pruning
  from the left then keeps an expired entry behind a younger one.
- `DeletedIsIdle` is about investigations. A playbook session is never in the
  table the endpoint looks at and can be deleted while it runs; cancel answers
  "cancelled" for it and changes nothing.
- The heartbeat timeout of `websocket.js` never fires, since each ping restarts
  its timer before it is over and the server sends no pong; a page relies on the
  browser to notice a dead connection.

### Bounds, and why they are enough

- `MaxSteps` is 3 in `agent_loop`: enough for a protected call, an
  enrichment call and a duplicate of the first in one session; one enrichment
  needs `steps + 1 < MaxSteps`, and three steps leave room for its two-step
  failure. Liveness and the counterexamples use 2 or 3.
- `MaxFaults` is 2: a write that fails leads to `except`, whose own write may
  fail too; `EnrichRecord` and the two answer writes each have two places to
  fail. Exceptions without a failed write are not bounded.
- One argument value: two calls of one tool are then duplicates, which is the
  case the code has a branch for.
- `clicks` is a set over requests and verdicts, so a call may be delivered any
  number of times; a session cannot make more requests than it has steps.
- `StepLimit` is 6 instead of 200 for a playbook of 6 steps with a back edge:
  the limit is reached, also after a resume.
- Two approve or reject calls: enough to overlap with the first run and with
  each other. Every run can fault twice in total; the process can die any time.
- `UsesItem` is `{5}` (an ungated batch) in `playbook` and `{4}` (a gated one)
  in `playbook_gated_batch`.
- Three calls in `invitations`: two that race and one that comes after, for two
  requests of one address, which is what the rows are contended for; one failure
  and any number of restarts. Every lookup is by one address or one request, and
  the theorems hold for any number of them. Requests, calls and admins are
  interchangeable and no liveness is checked, so symmetry is sound there.
  Deadlock is not checked in that run: calls are used once, and a state in
  which every call is over has no successor.
- `services` is the sum of six instances, not their product: `part` is chosen in
  the initial state, and the variables of the other services stay at their
  initial values, where no action under a fairness condition is enabled, so that
  fairness of those asks nothing of the behaviour. Deadlock is not checked: each
  of them is bounded and may be done.
- Jobs: one job, since nothing but the subscriber lists and the order of
  `posted` is shared between jobs, and each property is about one; two pages, one
  progress write, a failing write, a broken connection and a restart, which
  suffices for a page to connect before, between and after the writes, and to
  give up (`MaxTries` is 2 instead of 3).
- Stream: one session at a time, of either flow, two pages, one of them an
  Incident Responder's, two gates, so that a second request meets pages that were
  shown the first, and a restart, with any number of cancels and deletes.
- Rules: two rules, one generated valid and one not, three texts, a hunter and
  an admin, two edits: a hunter's text is approved, written over and approved
  again. The theorems cover everything else.
- Mail: two events for three keys of two users, so that two events meet on one
  key or in one pass, and one mishap; the window is 2 of 3 ticks.
- MCP: two owners, two managers and two calls: a call at the closing session and
  one at its successor.
- Login: two threads, a limit of 2, a window of 2 in 3 seconds: the shortest in
  which the deque gets out of order; the theorems cover the rest.
- The other runs use no symmetry; their tools and steps play different parts.

### Fairness

`AgentLoop`: weak fairness of the session thread as a whole, and of a cancel
that has begun. The thread is never blocked for ever: LLM and MCP calls carry
timeouts and so does the wait for an approval, and the scheduler runs threads
that can run. Analysts owe nothing: no fairness on `Click`, `Deliver`,
`CancelTest`. `PlaybookEngine`: weak fairness of each run's `Slice`, since a
tool call is under `wait_for`; none on calls, faults or restarts. In both
modules the choice among a step's outcomes is not fair: termination has to
come from the step budget.

`AnalysisJobs`: weak fairness of each job thread and of the event loop's work
for each page. An analysis ends, since its lookups carry timeouts; a page that
lost its connection tries again, since a timer does it. None on users, crashes
or `Boot`. `SessionStream`: a thread that has stored a status goes on to its
frame, and the loop delivers; no session need end. `Notifications`: the digest
loop wakes up and its pass goes on. `McpClient`: tasks that can run do, and the
10 seconds of `close` pass; the server owes nothing. `LoginLimiter` and
`RuleExport` have safety alone.

## 4. Proofs

`AgentLoopProofs` proves, from `ToolAssumption` and `BoundAssumption` alone:

- `TypeCorrect`: `Spec => []TypeOK`.
- `BudgetHolds`: `Spec => []StepBudget`. `StepBudget` is not inductive: that a
  step may be spent depends on where the thread is. `BudgetInv` adds that an
  iteration has a step in hand from the loop head to its end, that an
  enrichment call has two (its failure may cost both), and that a transition
  whose assignment is still to come leads to one of four places and keeps the
  same promise.
- `LedgerHolds`: `Spec => ApprovalBeforeRun`, the refinement of
  `ApprovalLedger`. `LedgerInv` says that a protected tool's runs never exceed
  its grants, and that they are strictly fewer while the thread is on its way
  from the gate to `_act` with a protected call. The duplicate guard's fallback
  and the enrichment tools are unprotected by `ToolAssumption`, which is what
  lets them pass the gate by. Each step of the loop then is a step of the
  ledger or leaves it unchanged.
- `AnswerHolds`: `Spec => []OneFinalAnswer`. `AnswerInv` says that
  `final_answer_saved` tells the truth about the table, that it is set only
  after the loop, and that without a failing write nobody stores "completed"
  before it is set.
- `AuditHolds`: `Spec => []AuditComplete`. The property allows one execution
  under way for every tool; `AuditInv` allows it for the tool in the thread's
  hands alone, without which the next execution of another tool would break it.
- `SettleHolds`: `Spec => StatusSettles`, which says of a step: who reaches the
  clean-up with the row still active has just failed to write it in the `except`
  branch. The loop has two other ways out. `SettleInv` says that the row has its
  last status when the frame of the end is due, the thread's own or that of a
  cancel; a cancel can only write "failed", and nobody writes "active" again.

`InvitationProofs` proves, from `InviteAssumption` alone, all the properties of
the `invitations` run. `TypeInv` is `TypeOK` with `JobInv` (a call that has
begun has a job, its token exists from the step that creates it, its mail is
out before it decides) and `RequestInv` (the job of an approve call agrees with
its row); `TypeOK` alone is not inductive, since a decision writes what the job
says. `TokenInv` adds that an address with a token has an account, which gives
`OneInvite`. `Decisions` says that no step changes a decided row. On top of
these, `Approvals` and `Activations` carry their witness, a delivered
invitation, through each step, and `Answers` rests on `OneInvite`: two calls
that succeeded on one request hold tokens for one address, so they are one.

`RuleExportProofs` proves, from `RuleAssumption` alone, `RuleTypeSafety`,
`HuntersExportTheirOwn` and `ExportImplementsRelease`. Neither property is
inductive: an export looks only at the table and at the editor. `RuleInv` adds
that the table is honest (an entry that says approved or deployed is for a text
that was approved, whatever the rule says now), that what was approved is valid,
and that the recorded editor of a rule wrote its present text. For the
refinement each action is a `Clear`, a `Release` or a stutter of `RuleRelease`
under `released <- {<<x[1], x[2]>> : x \in released}`, and the honest table is
what makes an export a `Release`.

`LoginProofs` proves, from `LoginAssumption` alone, `LimitHolds` and
`RefusalsHaveCause`, for any limit, window and finite set of threads. The bound
is inductive with the types: a thread passes the check only below the limit, and
all threads together hold at most one failure each. For the cause, `LoginInv`
adds that no thread's clock is ahead and that the deque is in the order of
appending; an entry behind one in the window was then appended in the window
itself, although the time it carries may be older. `PruneSuffix` and
`PruneKeeps` are the lemmas about `_prune`.

`PlaybookProofs` proves, from `PlaybookAssumption` and `RunAssumption`, the
three safety properties of the `playbook` run and `StepLimitHolds`, for every
playbook and any number of approve and reject calls (an infinite set of them
included). A lemma per kind of step says what it does to the run that takes it
(`Advances`, `GoesBack`, `Breaks`, `Enters`, `Stops`), and the conjuncts of
`PlaybookInv` are preserved by each kind:

- `WaitingCanResume` needs `MarkedFirst`: between the two writes of the gate the
  checkpoint is there already.
- `GatedRunsAreAudited` counts calls, so its invariant says that the calls
  that ran a gated tool and have not audited it are finitely many. It needs no
  finiteness of `Calls`: each approve call adds one.
- `ActiveSessionsLive` is inductive with the types.
- `StepLimitHolds` (`StepsAreCounted`) is the bound behind `EveryRunEnds`: no
  run, and no checkpoint a run may start from, is past the limit.
- All of them need `ToolHasStep`: a run whose tool is under way is at a step
  and not at the end, since `Resolve` is asked about that step afterwards.

`McpProofs` proves, from `McpAssumption` alone, `McpTypeSafety`, `OneSession`
and `CallsAreKept`, for any number of managers, calls and owners. `McpInv`
records what the holder of the lock is at: owners are created in order, the
session being opened is the newest, nobody else is alive then, what is in the
table was started, and the request for the tools exists once, with that owner,
only while it is waited for (else an answer to it could wake the wrong wait).
`McpAssumption` says that a call and a request are not the null value, which a
record of the code never is; the proofs rest on it.

`LiveFeedProofs` proves, from `JobsAssumption`, `JobTypeSafety`,
`PagesTellTheTruth` and `JobsStayFinished`. What a page was told is true if what
it will be told is, so `JobInv` follows an end all the way: a thread that has
written one writes no more and announces that one (`RowSettled`), a callback
that carries one agrees with the row (`PostedTrue`), and so does every frame in
the queue of a page, for the job that page follows (`InboxTrue`). From
`StreamAssumption` it proves `StreamTypeSafety` and `NoDeleteUnderThread`: an
investigation with a thread is in the table, which a delete looks at, and none
ever waits under a status that an approve call could resume (`Worked`).

`NotificationProofs` proves, from `NotifyAssumption` alone, `NotifyTypeSafety`,
`ClaimsAreSpaced` and `BooksBalance`. `Spaced` is about every call that has the
right to a mail, sent or not: it says that the row of a key lasts as long as its
latest claim, whoever read the clock first. The types follow from the books
here, since `copies` is bounded by the failures; `Books` grants one copy to a
line only once it is marked, or while its mail is out and not marked, and
`PassInv` says that the lines a pass has still to send are pending.

Each inductive invariant was checked with TLC on the instance of its run before
it was proved.

Every safety property and action property of the passing runs is proved. Only
model-checked are `Terminates`, `EveryRunEnds`, `EndIsHeard`, `EveryJobEnds`,
`EndIsForwarded`, `RequestIsShown`, `DigestArrives` and `LockKeptByServer`, since
liveness under fairness is out of the prover's reach, and the counterexamples,
which are behaviours and not theorems.

## 5. Not modelled, and the plan

Left out of the modelled parts: the SSE and HTTP transports and the raw
JSON-RPC client of `mcp_client.py` (the last matches answers by position, so
that a late one goes to the next request; it is used only without the SDK), the
SMTP and LINE channels, the polling branch of `agent_ws`, visibility rules of
frames, session rows and API keys (single statements), and two resumed runs as
the stream sees them.

To be proved: lemmas towards the liveness properties that need no fairness,
such as what bounds the steps a session thread can still take.

To be modelled: the sandbox orchestrator's polling, the cache of indicators, and
an investigation that runs a playbook, as a composition of `AgentLoop` and
`PlaybookEngine`.

Not planned: analyzers, scoring, intelligence clients, report generation, page
rendering (data without a protocol), the circuit breaker (used by nothing), the
ranking of tools and the parsing of LLM answers (text heuristics; the models
take every outcome as possible).
