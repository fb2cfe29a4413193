----------------------------- MODULE SessionStream -----------------------------
(***************************************************************************)
(* The chat page of an agent or playbook session: the rows of              *)
(* agent_sessions, the thread or task that works on a session, the frames  *)
(* it announces, agent_ws, and the cancel and delete endpoints. agent_ws   *)
(* reads the session, waits for the snapshot to be sent and only then      *)
(* subscribes; the page does not reconnect.                                *)
(*                                                                         *)
(* Pages of Incident Responders show playbooks only, and the snapshot      *)
(* repeats to them, and to no admin or Threat Hunter, the request that the *)
(* playbook waits on. Left out: frames that do not end or ask (an          *)
(* investigation waits for approval under the status active), heartbeats,  *)
(* clients that may not see the session, failing writes (AgentLoop has     *)
(* them: when that of its except branch fails no frame is sent), and the   *)
(* polling for an application without agent loop, in which no session can  *)
(* be started. What a loop does inside is in AgentLoop, resuming twice in  *)
(* PlaybookEngine.                                                         *)
(***************************************************************************)
EXTENDS Naturals, Sequences, FiniteSets

CONSTANTS
    Investigations,    \* sessions of the agent loop
    Playbooks,         \* sessions of the playbook engine
    Viewers,           \* connections of chat pages, each to one session
    ResponderPages,    \* those of them that Incident Responders opened
    MaxStarts,         \* bound on sessions started
    MaxPauses,         \* bound on the approval gates of a session
    MaxReboots         \* bound on restarts of the web process

ASSUME StreamAssumption ==
    /\ Investigations \cap Playbooks = {} /\ ResponderPages \subseteq Viewers
    /\ MaxStarts \in Nat /\ MaxPauses \in Nat /\ MaxReboots \in Nat

Sessions == Investigations \cup Playbooks

VARIABLES
    status,     \* status column of each session, or that it has no row
    task,       \* where the thread or task of each session is: at a frame that
                \* it has still to announce, or elsewhere
    known,      \* AgentLoop._active_sessions, which only a restart empties
    over,       \* those of them whose phase is terminal
    queued,     \* callbacks that wait on the event loop, <<session, frame>>
    page,       \* the connections and their handlers
    silent,     \* history: sessions that ended without a frame
    asks,       \* the requests that each session has made so far
    reboots

workVars   == <<status, task, known, over, silent, asks, reboots>>
streamVars == <<workVars, page, queued>>

Ends     == {"completed", "failed"}
EndNews  == Ends \cup {"cancelled"}
Kinds    == EndNews \cup {"approval_required"}
Stored   == Ends \cup {"active", "waiting_approval"}
NoRow    == {"absent", "deleted"}

\* A frame, and of a request which one of its session it is.
News   == [type : Kinds, req : 0..MaxPauses]
End(f) == f.type \in EndNews

\* Of a connection that sends its snapshot, what it has read and (history) the
\* frames announced since; of one that streams, its asyncio.Queue. The requests
\* that the page has been shown are in asked.
Away      == [stage |-> "away"]
Closed    == [stage |-> "closed"]
Sending   == [stage : {"sending"}, session : Sessions, snapshot : Stored,
              asked : SUBSET (0..MaxPauses), missed : SUBSET News]
Streaming == [stage : {"streaming"}, session : Sessions, frames : Seq(News),
              asked : SUBSET (0..MaxPauses), missed : SUBSET News]

StreamTypeOK ==
    /\ status \in [Sessions -> Stored \cup NoRow]
    /\ task \in [Sessions -> Kinds \cup {"none", "run", "paused", "gone"}]
    /\ known \subseteq Investigations /\ over \subseteq known
    /\ queued \in Seq(Sessions \X News)
    /\ page \in [Viewers -> {Away, Closed} \cup Sending \cup Streaming]
    /\ silent \subseteq Playbooks
    /\ asks \in [Sessions -> 0..MaxPauses] /\ reboots \in 0..MaxReboots

StreamInit ==
    /\ status = [s \in Sessions |-> "absent"]
    /\ task = [s \in Sessions |-> "none"]
    /\ known = {} /\ over = {} /\ silent = {} /\ queued = <<>>
    /\ page = [v \in Viewers |-> Away]
    /\ asks = [s \in Sessions |-> 0] /\ reboots = 0

Follows(v, s, stage) == page[v].stage = stage /\ page[v].session = s
Listening(s) == {v \in Viewers : Follows(v, s, "streaming")}
InGap(s)     == {v \in Viewers : Follows(v, s, "sending") /\ page[v].snapshot \notin Ends}

\* update_session_status: an UPDATE, which finds no row after a delete.
Store(s, st) ==
    status' = [status EXCEPT ![s] = IF @ \in NoRow THEN @ ELSE st]

\* The pages once f of s has been put into the queues that exist.
Put(s, f) ==
    [v \in Viewers |->
        IF v \in Listening(s) THEN [page[v] EXCEPT !.frames = Append(@, f)]
        ELSE IF v \in InGap(s) THEN [page[v] EXCEPT !.missed = @ \cup {f}]
        ELSE page[v]]

\* _notify: without subscribers the frame is gone, else the event loop puts it
\* into their queues later.
Post(s, f) ==
    \/ Listening(s) = {} /\ page' = Put(s, f) /\ UNCHANGED queued
    \/ Listening(s) # {} /\ queued' = Append(queued, <<s, f>>) /\ UNCHANGED page

-----------------------------------------------------------------------------
(* Sessions *)

\* investigate, and the start of a playbook session.
Start(s) ==
    /\ status[s] = "absent"
    /\ Cardinality({x \in Sessions : status[x] # "absent"}) < MaxStarts
    /\ status' = [status EXCEPT ![s] = "active"]
    /\ task' = [task EXCEPT ![s] = "run"]
    /\ known' = known \cup ({s} \cap Investigations)
    /\ UNCHANGED <<over, silent, asks, reboots, page, queued>>

\* Mutant: the engine returns at the end of a playbook without a frame, as it
\* does at the step limit.
EndQuietly(s) ==
    /\ task[s] = "run"
    /\ \E st \in Ends :
          /\ Store(s, st)
          /\ task' = [task EXCEPT ![s] = IF s \in Playbooks THEN "gone" ELSE st]
    /\ over' = over \cup ({s} \cap known)
    /\ UNCHANGED <<known, silent, asks, reboots, page, queued>>

\* The loop or the engine writes the last status; its frame comes after that.
\* A loop that was cancelled writes it too. Of a failed investigation the frame
\* may be "completed" (with the status inside) as well as "failed".
EndSession(s) ==
    /\ task[s] = "run"
    /\ \E st \in Ends, f \in Ends :
          /\ s \in Playbooks \/ st = "completed" => f = st
          /\ Store(s, st)
          /\ task' = [task EXCEPT ![s] = f]
    /\ over' = over \cup ({s} \cap known)
    /\ UNCHANGED <<known, silent, asks, reboots, page, queued>>

\* A playbook that has taken 200 steps fails without a frame.
HitStepLimit(s) ==
    /\ s \in Playbooks /\ task[s] = "run"
    /\ Store(s, "failed")
    /\ task' = [task EXCEPT ![s] = "gone"]
    /\ silent' = silent \cup {s}
    /\ UNCHANGED <<known, over, asks, reboots, page, queued>>

\* A gated step: the status, then the request.
Pause(s) ==
    /\ s \in Playbooks /\ task[s] = "run" /\ asks[s] < MaxPauses
    /\ asks' = [asks EXCEPT ![s] = @ + 1]
    /\ Store(s, "waiting_approval")
    /\ task' = [task EXCEPT ![s] = "approval_required"]
    /\ UNCHANGED <<known, over, silent, reboots, page, queued>>

\* The frame of what was just stored.
Announce(s) ==
    /\ task[s] \in Kinds
    /\ Post(s, [type |-> task[s], req |-> IF task[s] = "approval_required" THEN asks[s] ELSE 0])
    /\ task' = [task EXCEPT ![s] = IF @ = "approval_required" THEN "paused" ELSE "gone"]
    /\ UNCHANGED <<status, known, over, silent, asks, reboots>>

\* The approve endpoint goes on from the checkpoint, also after a restart. The
\* gated tool itself runs before the status is active again.
Resume(s) ==
    /\ status[s] = "waiting_approval" /\ task[s] \in {"paused", "gone"}
    /\ status' = [status EXCEPT ![s] = "active"]
    /\ task' = [task EXCEPT ![s] = "run"]
    /\ UNCHANGED <<known, over, silent, asks, reboots, page, queued>>

Cancelled == [type |-> "cancelled", req |-> 0]

\* Mutant: cancelling also removes the session from the table.
CancelAndForget(s) ==
    /\ status[s] \notin NoRow /\ s \in known \ over
    /\ known' = known \ {s}
    /\ Store(s, "failed")
    /\ Post(s, Cancelled)
    /\ UNCHANGED <<task, over, silent, asks, reboots>>

\* Mutant: the row is looked at, not the table.
CancelAnything(s) ==
    /\ status[s] \notin NoRow /\ s \notin over
    /\ over' = over \cup {s}
    /\ Store(s, "failed")
    /\ Post(s, Cancelled)
    /\ UNCHANGED <<task, known, silent, asks, reboots>>

\* cancel_session. For a playbook, or a session of an earlier process, the
\* endpoint answers "cancelled" as well, and nothing changes.
Cancel(s) ==
    /\ status[s] \notin NoRow /\ s \in known \ over
    /\ over' = over \cup {s}
    /\ Store(s, "failed")
    /\ Post(s, Cancelled)
    /\ UNCHANGED <<task, known, silent, asks, reboots>>

\* delete_session: 409 for every session of the table, whether it still runs or
\* not; playbook sessions are never in it.
Delete(s) ==
    /\ status[s] \notin NoRow /\ s \notin known
    /\ status' = [status EXCEPT ![s] = "deleted"]
    /\ UNCHANGED <<task, known, over, silent, asks, reboots, page, queued>>

\* The process is restarted: the rows stay as they are.
Reboot ==
    /\ reboots < MaxReboots /\ reboots' = reboots + 1
    /\ task' = [s \in Sessions |-> IF task[s] = "none" THEN "none" ELSE "gone"]
    /\ known' = {} /\ over' = {} /\ queued' = <<>>
    /\ page' = [v \in Viewers |-> IF page[v] = Away THEN Away ELSE Closed]
    /\ UNCHANGED <<status, silent, asks>>

-----------------------------------------------------------------------------
(* Connections *)

\* agent_ws reads the session and its steps and starts to send the snapshot.
Open(v, s) ==
    /\ page[v] = Away /\ status[s] \notin NoRow
    /\ v \in ResponderPages => s \in Playbooks
    /\ page' = [page EXCEPT ![v] = [stage |-> "sending", session |-> s, asked |-> {},
                                   snapshot |-> status[s], missed |-> {}]]
    /\ UNCHANGED <<workVars, queued>>

\* Mutant: the snapshot repeats no request.
RepeatsNone(v) == FALSE

\* flow == "playbook", and the session that was read waits for approval.
Repeats(v) ==
    /\ v \in ResponderPages
    /\ page[v].snapshot = "waiting_approval" /\ page[v].asked = {}

\* After the session has been sent, an Incident Responder gets the request that
\* the store holds by then (_pending_playbook_approval).
Repeat(v) ==
    /\ page[v].stage = "sending" /\ Repeats(v)
    /\ page' = [page EXCEPT ![v].asked = {asks[page[v].session]}]
    /\ UNCHANGED <<workVars, queued>>

\* All of the snapshot has been sent. That of an ended session closes the
\* socket, else the handler subscribes, without looking at the session again.
SendSnapshot(v) ==
    /\ page[v].stage = "sending" /\ ~Repeats(v)
    /\ page' = [page EXCEPT ![v] =
           IF @.snapshot \in Ends THEN Closed
           ELSE [stage |-> "streaming", session |-> @.session, frames |-> <<>>,
                 asked |-> @.asked, missed |-> @.missed]]
    /\ UNCHANGED <<workVars, queued>>

\* The callback of _notify.
PutAll ==
    /\ queued # <<>>
    /\ page' = Put(Head(queued)[1], Head(queued)[2])
    /\ queued' = Tail(queued)
    /\ UNCHANGED workVars

\* The handler sends the next frame; completed, failed and cancelled end it.
Forward(v) ==
    /\ page[v].stage = "streaming" /\ page[v].frames # <<>>
    /\ page' = [page EXCEPT ![v] =
           IF End(Head(page[v].frames)) THEN Closed
           ELSE [page[v] EXCEPT !.frames = Tail(page[v].frames),
                                !.asked = page[v].asked \cup {Head(page[v].frames).req}]]
    /\ UNCHANGED <<workVars, queued>>

\* The connection breaks or the page is closed.
Hangup(v) ==
    /\ page[v].stage \in {"sending", "streaming"}
    /\ page' = [page EXCEPT ![v] = Closed]
    /\ UNCHANGED <<workVars, queued>>

StreamNext ==
    \/ \E s \in Sessions :
          \/ Start(s) \/ EndSession(s) \/ HitStepLimit(s) \/ Pause(s)
          \/ Announce(s) \/ Resume(s) \/ Cancel(s) \/ Delete(s)
          \/ \E v \in Viewers : Open(v, s)
    \/ \E v \in Viewers : Repeat(v) \/ SendSnapshot(v) \/ Forward(v) \/ Hangup(v)
    \/ PutAll \/ Reboot

\* A thread that has stored a status goes on to its frame, and the event loop
\* runs what is ready. Nothing is assumed of how long a session takes, of the
\* users, or of the connections.
StreamFairness ==
    /\ \A s \in Sessions : WF_streamVars(Announce(s))
    /\ WF_streamVars(PutAll)
    /\ \A v \in Viewers : WF_streamVars(Repeat(v) \/ SendSnapshot(v) \/ Forward(v))

StreamSpec == StreamInit /\ [][StreamNext]_streamVars /\ StreamFairness

-----------------------------------------------------------------------------
(* Properties *)

\* No investigation is deleted while a thread of it runs and may still write
\* steps and a status for it: the table, not the status, guards the row.
DeletedIsIdle ==
    [][\A s \in Investigations :
        status[s] # "deleted" /\ status'[s] = "deleted" => task[s] = "gone"]_streamVars

\* A connection that follows a session hears of its end and is closed, unless
\* the end was announced between its snapshot and its subscription, or never
\* (at the step limit of a playbook). Nothing else loses it: not the order of
\* frames, not other connections, not a cancel that meets the end.
EndIsForwarded ==
    \A v \in Viewers :
        (page[v].stage = "streaming" /\ status[page[v].session] \in Ends)
            ~> \/ page[v].stage # "streaming" \/ page[v].session \in silent
               \/ (\E f \in page[v].missed : End(f))

\* Everybody who follows a playbook when it asks for an approval is shown that
\* very request, not only an earlier one, and so is an Incident Responder who
\* opens the page while it waits: as long as it waits, and unless the request
\* was announced in the gap. Admins and Threat Hunters who open a playbook that
\* already waits are not asked (agent_ws, flow).
RequestIsShown ==
    \A v \in Viewers :
        (/\ page[v].stage = "streaming" /\ status[page[v].session] = "waiting_approval"
         /\ v \in ResponderPages \/ task[page[v].session] = "approval_required")
            ~> \/ page[v].stage # "streaming"
               \/ status[page[v].session] # "waiting_approval"
               \/ asks[page[v].session] \in page[v].asked
               \/ \E f \in page[v].missed : ~End(f) /\ f.req = asks[page[v].session]
=============================================================================
