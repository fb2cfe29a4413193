----------------------------- MODULE AnalysisJobs -----------------------------
(***************************************************************************)
(* Analyses in the background: the rows of analysis_jobs, the daemon       *)
(* thread that works on each of them, the live frames, and the browsers    *)
(* that follow a job on its socket. A job thread writes its row and then   *)
(* has the event loop put the frame into the queues of the subscribers;    *)
(* analysis_ws subscribes before it reads the row. Nothing is persisted    *)
(* but the rows, and no start-up code looks for unfinished ones.           *)
(*                                                                         *)
(* Left out: clients that may not read the job (closed at once with 1008), *)
(* the numbers of a progress frame, and heartbeats, which change nothing.  *)
(***************************************************************************)
EXTENDS Naturals, Sequences

CONSTANTS
    Jobs,          \* analyses that may be started
    Clients,       \* browser tabs; each follows one job
    NoWatch,       \* stands for the job of a tab that follows none
    MaxProgress,   \* bound on the progress writes of a job
    MaxTries,      \* MAX_RECONNECT_ATTEMPTS of websocket.js
    MaxDrops,      \* bound on broken connections
    MaxStoreFails, \* bound on failing writes to the analysis database
    MaxRestarts    \* bound on restarts of the web process

ASSUME JobsAssumption ==
    /\ NoWatch \notin Jobs
    /\ MaxProgress \in Nat /\ MaxTries \in Nat
    /\ MaxDrops \in Nat /\ MaxStoreFails \in Nat /\ MaxRestarts \in Nat

VARIABLES
    up,         \* the web process runs
    row,        \* status column of each job
    thread,     \* where the thread of each job is
    frame,      \* the frame it has still to announce
    written,    \* progress writes so far
    posted,     \* callbacks that wait on the event loop, <<job, frame>>
    watch,      \* the job each client follows
    place,      \* where each client and its handler are
    inbox,      \* its asyncio.Queue
    told,       \* the end of the job as its page shows it
    tries,      \* reconnect attempts since it was last connected
    drops,      \* connections broken so far
    storeFails, restarts

rowVars    == <<up, row, restarts>>
threadVars == <<thread, frame, written, storeFails>>
clientVars == <<watch, place, inbox, told, tries, drops>>
jobVars    == <<rowVars, threadVars, clientVars, posted>>

Finished == {"completed", "failed"}
Frames   == {"progress"} \cup Finished
Statuses == {"absent", "queued", "running"} \cup Finished

\* "reading" is the stretch of analysis_ws without an await.
Connected == {"reading", "streaming"}
Subscribers(j) == {c \in Clients : watch[c] = j /\ place[c] \in Connected}

\* The handlers of the event loop run one at a time between their awaits.
LoopIsFree == up /\ \A c \in Clients : place[c] # "reading"

JobTypeOK ==
    /\ up \in BOOLEAN
    /\ row \in [Jobs -> Statuses]
    /\ thread \in [Jobs -> {"none", "work", "notify", "failing", "linking",
                       "gone", "died"}]
    /\ frame \in [Jobs -> Frames]
    /\ written \in [Jobs -> 0..MaxProgress]
    /\ posted \in Seq(Jobs \X Frames)
    /\ watch \in [Clients -> Jobs \cup {NoWatch}]
    /\ place \in [Clients -> Connected \cup {"away", "retrying", "left", "done"}]
    /\ inbox \in [Clients -> Seq(Frames)]
    /\ told \in [Clients -> {"nothing"} \cup Finished]
    /\ tries \in [Clients -> 0..MaxTries]
    /\ drops \in 0..MaxDrops
    /\ storeFails \in 0..MaxStoreFails
    /\ restarts \in 0..MaxRestarts

JobInit ==
    /\ up = TRUE /\ posted = <<>>
    /\ row = [j \in Jobs |-> "absent"]
    /\ thread = [j \in Jobs |-> "none"]
    /\ frame = [j \in Jobs |-> "progress"]
    /\ written = [j \in Jobs |-> 0]
    /\ watch = [c \in Clients |-> NoWatch]
    /\ place = [c \in Clients |-> "away"]
    /\ inbox = [c \in Clients |-> <<>>]
    /\ told = [c \in Clients |-> "nothing"]
    /\ tries = [c \in Clients |-> 0]
    /\ drops = 0 /\ storeFails = 0 /\ restarts = 0

-----------------------------------------------------------------------------
(* The endpoint and the job thread *)

\* POST /analysis/{ioc,file,email}: create_job commits the row, then the
\* daemon thread is started.
CreateJob(j) ==
    /\ up /\ row[j] = "absent"
    /\ row' = [row EXCEPT ![j] = "queued"]
    /\ UNCHANGED <<up, restarts, threadVars, clientVars, posted>>

StartThread(j) ==
    /\ up /\ row[j] = "queued" /\ thread[j] = "none"
    /\ thread' = [thread EXCEPT ![j] = "work"]
    /\ UNCHANGED <<rowVars, frame, written, storeFails, clientVars, posted>>

\* A row is committed under the manager's lock; what follows is the frame.
Commit(j, status, f) ==
    /\ row' = [row EXCEPT ![j] = status]
    /\ frame' = [frame EXCEPT ![j] = f]
    /\ thread' = [thread EXCEPT ![j] = "notify"]
    /\ UNCHANGED <<up, restarts, written, storeFails, clientVars, posted>>

\* update_progress and update_steps set the status to running, whatever it was.
WriteProgress(j) ==
    /\ thread[j] = "work" /\ written[j] < MaxProgress
    /\ written' = [written EXCEPT ![j] = @ + 1]
    /\ row' = [row EXCEPT ![j] = "running"]
    /\ frame' = [frame EXCEPT ![j] = "progress"]
    /\ thread' = [thread EXCEPT ![j] = "notify"]
    /\ UNCHANGED <<up, restarts, storeFails, clientVars, posted>>

WriteCompleted(j) ==
    /\ thread[j] = "work"
    /\ Commit(j, "completed", "completed")

\* Mutant: the job function has no except branch.
RaiseUnseen(j) ==
    /\ thread[j] = "work"
    /\ thread' = [thread EXCEPT ![j] = "gone"]
    /\ UNCHANGED <<rowVars, frame, written, storeFails, clientVars, posted>>

\* The analysis raises, which a job thread answers with fail_job.
AnalysisRaises(j) ==
    /\ thread[j] = "work"
    /\ thread' = [thread EXCEPT ![j] = "failing"]
    /\ UNCHANGED <<rowVars, frame, written, storeFails, clientVars, posted>>

\* Mutant: the frame of a completed job.
TellCompleted(j) ==
    /\ thread[j] = "failing"
    /\ Commit(j, "failed", "completed")

WriteFailed(j) ==
    /\ thread[j] = "failing"
    /\ Commit(j, "failed", "failed")

\* A write fails. The callbacks of the analyzers swallow that, the job
\* function's own writes do not; fail_job is in the except branch, so that its
\* failure ends the thread with the row as it is.
StoreFails(j) ==
    /\ thread[j] \in {"work", "failing"} /\ storeFails < MaxStoreFails
    /\ storeFails' = storeFails + 1
    /\ thread' = [thread EXCEPT ![j] = IF @ = "work" THEN "failing" ELSE "died"]
    /\ UNCHANGED <<rowVars, frame, written, clientVars, posted>>

\* Where the thread goes when its frame has been announced.
AfterFrame(f) ==
    CASE f = "progress" -> "work" [] f = "completed" -> "linking" [] OTHER -> "gone"

\* _notify: nothing without subscribers, else a callback for the event loop,
\* which takes them in the order in which they were posted.
NotifyFollowers(j) ==
    /\ thread[j] = "notify"
    /\ posted' = IF Subscribers(j) = {} THEN posted ELSE Append(posted, <<j, frame[j]>>)
    /\ thread' = [thread EXCEPT ![j] = AfterFrame(frame[j])]
    /\ UNCHANGED <<rowVars, frame, written, storeFails, clientVars>>

\* Mutant: a failing link to the case counts as a failed analysis.
LinkOrFail(j) ==
    /\ thread[j] = "linking"
    /\ \E next \in {"failing", "gone"} : thread' = [thread EXCEPT ![j] = next]
    /\ UNCHANGED <<rowVars, frame, written, storeFails, clientVars, posted>>

\* The IOC job links itself to its case; a failure of that is only logged.
LinkCase(j) ==
    /\ thread[j] = "linking"
    /\ thread' = [thread EXCEPT ![j] = "gone"]
    /\ UNCHANGED <<rowVars, frame, written, storeFails, clientVars, posted>>

\* Mutant: the loop over the queues ends after the first one.
DeliverToOne ==
    /\ LoopIsFree /\ posted # <<>>
    /\ LET subs == Subscribers(Head(posted)[1]) IN
           \/ subs = {} /\ UNCHANGED inbox
           \/ \E c \in subs : inbox' = [inbox EXCEPT ![c] = Append(@, Head(posted)[2])]
    /\ posted' = Tail(posted)
    /\ UNCHANGED <<rowVars, threadVars, watch, place, told, tries, drops>>

\* _put_all, on the event loop: it looks at the list of subscribers now, not
\* at what it was when the callback was posted.
Deliver ==
    /\ LoopIsFree /\ posted # <<>>
    /\ LET j == Head(posted)[1] f == Head(posted)[2] IN
           inbox' = [c \in Clients |-> IF c \in Subscribers(j)
                                       THEN Append(inbox[c], f) ELSE inbox[c]]
    /\ posted' = Tail(posted)
    /\ UNCHANGED <<rowVars, threadVars, watch, place, told, tries, drops>>

-----------------------------------------------------------------------------
(* The clients and their handlers *)

\* analysis_ws accepts the connection and subscribes.
ConnectPage(c) ==
    /\ LoopIsFree
    /\ \/ /\ place[c] = "away"
          /\ \E j \in Jobs : row[j] # "absent" /\ watch' = [watch EXCEPT ![c] = j]
       \/ place[c] = "retrying" /\ UNCHANGED watch
    /\ place' = [place EXCEPT ![c] = "reading"]
    /\ inbox' = [inbox EXCEPT ![c] = <<>>]
    /\ tries' = [tries EXCEPT ![c] = 0]
    /\ UNCHANGED <<rowVars, threadVars, posted, told, drops>>

\* The page shows the end of the job, disconnects and stays away.
ShowEnd(c, end) ==
    /\ told' = [told EXCEPT ![c] = end]
    /\ place' = [place EXCEPT ![c] = "done"]

\* The handler reads the row: of a finished job it sends the end and closes.
ReadRow(c) ==
    /\ up /\ place[c] = "reading"
    /\ LET status == row[watch[c]] IN
           \/ status \in Finished /\ ShowEnd(c, status)
           \/ /\ status \notin Finished
              /\ place' = [place EXCEPT ![c] = "streaming"]
              /\ UNCHANGED told
    /\ UNCHANGED <<rowVars, threadVars, posted, watch, inbox, tries, drops>>

\* The next frame is sent; completed and failed are the last one.
SendFrame(c) ==
    /\ LoopIsFree /\ place[c] = "streaming" /\ inbox[c] # <<>>
    /\ inbox' = [inbox EXCEPT ![c] = Tail(@)]
    /\ LET f == Head(inbox[c]) IN
           \/ f \in Finished /\ ShowEnd(c, f)
           \/ f \notin Finished /\ UNCHANGED <<told, place>>
    /\ UNCHANGED <<rowVars, threadVars, posted, watch, tries, drops>>

\* Mutant: the attempts are counted but not compared.
RetryForEver(clients) ==
    /\ tries' = [c \in Clients |-> tries[c] + IF c \in clients THEN 1 ELSE 0]
    /\ place' = [c \in Clients |-> IF c \in clients THEN "retrying" ELSE place[c]]

\* onclose and _scheduleReconnect of the pages of these clients.
Retry(clients) ==
    /\ tries' = [c \in Clients |-> IF c \in clients /\ tries[c] < MaxTries
                                  THEN tries[c] + 1 ELSE tries[c]]
    /\ place' = [c \in Clients |-> IF c \notin clients THEN place[c]
                 ELSE IF tries[c] < MaxTries THEN "retrying" ELSE "left"]

\* A connection breaks; the handler's next send fails and it unsubscribes.
Drop(c) ==
    /\ place[c] \in Connected /\ drops < MaxDrops
    /\ drops' = drops + 1
    /\ Retry({c})
    /\ UNCHANGED <<rowVars, threadVars, posted, watch, inbox, told>>

ConnectFails(c) ==
    /\ ~up /\ place[c] = "retrying"
    /\ Retry({c})
    /\ UNCHANGED <<rowVars, threadVars, posted, watch, inbox, told, drops>>

\* The page is closed: its socket closes on purpose and is not reopened.
ClosePage(c) ==
    /\ place[c] \in Connected \cup {"retrying"}
    /\ place' = [place EXCEPT ![c] = "left"]
    /\ UNCHANGED <<rowVars, threadVars, posted, watch, inbox, told, tries, drops>>

-----------------------------------------------------------------------------
(* Restart of the process *)

\* Daemon threads end with the process, wherever they are.
Crash ==
    /\ up /\ restarts < MaxRestarts
    /\ up' = FALSE /\ restarts' = restarts + 1
    /\ thread' = [j \in Jobs |-> IF row[j] = "absent" THEN "none" ELSE "gone"]
    /\ posted' = <<>>
    /\ Retry({c \in Clients : place[c] \in Connected})
    /\ UNCHANGED <<row, frame, written, storeFails, watch, inbox, told, drops>>

\* AnalysisManager() creates the tables that are missing and nothing else.
Boot ==
    /\ ~up /\ up' = TRUE
    /\ UNCHANGED <<row, restarts, threadVars, clientVars, posted>>

ThreadStep(j) ==
    \/ StartThread(j) \/ WriteProgress(j) \/ WriteCompleted(j)
    \/ AnalysisRaises(j) \/ WriteFailed(j) \/ StoreFails(j)
    \/ NotifyFollowers(j) \/ LinkCase(j)

JobNext ==
    \/ \E j \in Jobs : CreateJob(j) \/ ThreadStep(j)
    \/ \E c \in Clients : \/ ConnectPage(c) \/ ReadRow(c) \/ SendFrame(c)
                          \/ Drop(c) \/ ConnectFails(c) \/ ClosePage(c)
    \/ Deliver \/ Crash \/ Boot

\* Threads and the event loop are scheduled and an analysis comes to an end;
\* a page that has lost its connection tries again. No job need be created, no
\* tab opened and no crashed process started again.
JobFairness ==
    /\ \A j \in Jobs : WF_jobVars(ThreadStep(j))
    /\ WF_jobVars(Deliver)
    /\ \A c \in Clients :
          /\ WF_jobVars(place[c] = "retrying" /\ ConnectPage(c))
          /\ WF_jobVars(ReadRow(c) \/ SendFrame(c) \/ ConnectFails(c))

JobSpec == JobInit /\ [][JobNext]_jobVars /\ JobFairness

-----------------------------------------------------------------------------
(* Properties *)

\* A finished job stays as it is: neither a late progress write, which would
\* set it to running, nor a failure after the result is saved reaches its row.
FinishedStays == [][\A j \in Jobs : row[j] \in Finished => row'[j] = row[j]]_jobVars

\* What a page shows as the end of its job is in the database: no frame
\* overtakes its row, is left over from before a restart, or is of another job.
ToldIsTrue == \A c \in Clients : told[c] # "nothing" => told[c] = row[watch[c]]

\* Whoever follows a job hears of its end, whatever the order of subscribing,
\* reading the row, writing it and announcing it, and although connections
\* break; only a page that left, or gave up on a process that was
\* down, does not.
EndIsHeard ==
    \A c \in Clients :
        (watch[c] # NoWatch /\ row[watch[c]] \in Finished)
            ~> place[c] \in {"done", "left"}

\* Every job ends as completed or failed, also when a write to the database
\* fails. Only a restart, or a failure of fail_job's own write, leaves a row
\* that says queued or running for ever.
EveryJobEnds ==
    \A j \in Jobs : row[j] = "queued" ~>
        row[j] \in Finished \/ thread[j] = "died" \/ restarts > 0
=============================================================================
