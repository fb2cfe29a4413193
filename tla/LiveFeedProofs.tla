----------------------------- MODULE LiveFeedProofs -----------------------------
(***************************************************************************)
(* Proofs about the two sockets that pages follow, for any number of jobs, *)
(* sessions, pages, failures and restarts. Of background analyses: types,  *)
(* that a finished job stays finished, and that a page shows no end but    *)
(* the one in the database. Of agent sessions: types, and that no          *)
(* investigation is deleted under its thread.                              *)
(***************************************************************************)
EXTENDS AnalysisJobs, SessionStream, SequenceTheorems, TLAPS

\* What Append and Tail leave in a queue.
LEMMA AppendElements ==
    ASSUME NEW S, NEW q \in Seq(S), NEW x \in S
    PROVE  /\ Append(q, x) \in Seq(S)
           /\ \A i \in 1..Len(Append(q, x)) :
                 (i \in 1..Len(q) /\ Append(q, x)[i] = q[i]) \/ Append(q, x)[i] = x
<1>1. /\ Append(q, x) \in Seq(S) /\ Len(Append(q, x)) = Len(q) + 1 /\ Len(q) \in Nat
      /\ \A i \in 1..Len(q) : Append(q, x)[i] = q[i]
      /\ Append(q, x)[Len(q) + 1] = x
  BY AppendProperties
<1>2. \A i \in 1..Len(q) + 1 : i \in 1..Len(q) \/ i = Len(q) + 1
  BY <1>1
<1>. QED
  BY <1>1, <1>2

LEMMA TailElements ==
    ASSUME NEW S, NEW q \in Seq(S), q # <<>>
    PROVE  /\ 1 \in 1..Len(q) /\ Head(q) = q[1] /\ Head(q) \in S /\ Tail(q) \in Seq(S)
           /\ \A i \in 1..Len(Tail(q)) : i + 1 \in 1..Len(q) /\ Tail(q)[i] = q[i + 1]
<1>1. /\ Len(q) \in Nat \ {0} /\ Head(q) = q[1] /\ Head(q) \in S /\ Tail(q) \in Seq(S)
      /\ Len(Tail(q)) = Len(q) - 1
      /\ \A i \in 1..Len(Tail(q)) : Tail(q)[i] = q[i + 1]
  BY HeadTailProperties, EmptySeq
<1>. QED
  BY <1>1

-----------------------------------------------------------------------------
(* Background analyses *)

\* A thread that has ended its job writes no more, and the frame that it has
\* still to announce agrees with the row.
RowSettled ==
    \A j \in Jobs :
        /\ row[j] \in Finished => thread[j] \in {"notify", "linking", "gone"}
        /\ thread[j] = "notify" /\ row[j] \in Finished => frame[j] = row[j]
        /\ thread[j] = "notify" /\ frame[j] \in Finished => row[j] = frame[j]

\* An end on its way to the event loop is the one in the row.
PostedTrue ==
    \A i \in 1..Len(posted) :
        posted[i][2] \in Finished => row[posted[i][1]] = posted[i][2]

\* An end in the queue of a page is that of the job it follows, whether it still
\* follows it or has lost its connection.
InboxTrue ==
    \A c \in Clients :
        /\ place[c] = "away" => inbox[c] = <<>> /\ told[c] = "nothing"
        /\ place[c] # "away" => watch[c] \in Jobs
        /\ \A i \in 1..Len(inbox[c]) :
              inbox[c][i] \in Finished => row[watch[c]] = inbox[c][i]

JobInv == JobTypeOK /\ RowSettled /\ PostedTrue /\ InboxTrue /\ ToldIsTrue

LEMMA JobInitInv == JobInit => JobInv
<1> SUFFICES ASSUME JobInit PROVE JobInv
  OBVIOUS
<1>1. JobTypeOK
  BY JobsAssumption DEF JobInit, JobTypeOK, Statuses, Frames
<1>. QED
  BY <1>1 DEF JobInit, JobInv, RowSettled, PostedTrue, InboxTrue, ToldIsTrue, Finished

\* What retrying does to the pages.
LEMMA RetryType ==
    ASSUME JobTypeOK, NEW clients, Retry(clients)
    PROVE  /\ tries' \in [Clients -> 0..MaxTries]
           /\ place' \in [Clients -> Connected \cup {"away", "retrying", "left", "done"}]
           /\ \A c \in Clients : IF c \in clients THEN place'[c] \in {"retrying", "left"}
                                                  ELSE place'[c] = place[c]
BY JobsAssumption DEF Retry, JobTypeOK

LEMMA JobStepType == JobTypeOK /\ [JobNext]_jobVars => JobTypeOK'
<1> SUFFICES ASSUME JobTypeOK, [JobNext]_jobVars PROVE JobTypeOK'
  OBVIOUS
<1> USE JobsAssumption DEF JobTypeOK, Statuses, Frames, Finished, rowVars, threadVars, clientVars
<1>1. ASSUME NEW j \in Jobs, CreateJob(j) PROVE JobTypeOK'
  BY <1>1 DEF CreateJob
<1>2. ASSUME NEW j \in Jobs, StartThread(j) PROVE JobTypeOK'
  BY <1>2 DEF StartThread
<1>3. ASSUME NEW j \in Jobs, WriteProgress(j) PROVE JobTypeOK'
  BY <1>3 DEF WriteProgress
<1>4. ASSUME NEW j \in Jobs, WriteCompleted(j) PROVE JobTypeOK'
  BY <1>4 DEF WriteCompleted, Commit
<1>5. ASSUME NEW j \in Jobs, AnalysisRaises(j) PROVE JobTypeOK'
  BY <1>5 DEF AnalysisRaises
<1>6. ASSUME NEW j \in Jobs, WriteFailed(j) PROVE JobTypeOK'
  BY <1>6 DEF WriteFailed, Commit
<1>7. ASSUME NEW j \in Jobs, StoreFails(j) PROVE JobTypeOK'
  BY <1>7 DEF StoreFails
<1>8. ASSUME NEW j \in Jobs, NotifyFollowers(j) PROVE JobTypeOK'
  <2>1. Append(posted, <<j, frame[j]>>) \in Seq(Jobs \X Frames)
    BY AppendElements
  <2>2. AfterFrame(frame[j]) \in {"work", "linking", "gone"}
    BY DEF AfterFrame
  <2>. QED
    BY <1>8, <2>1, <2>2 DEF NotifyFollowers
<1>9. ASSUME NEW j \in Jobs, LinkCase(j) PROVE JobTypeOK'
  BY <1>9 DEF LinkCase
<1>10. ASSUME NEW c \in Clients, ConnectPage(c) PROVE JobTypeOK'
  BY <1>10 DEF ConnectPage, Connected
<1>11. ASSUME NEW c \in Clients, ReadRow(c) PROVE JobTypeOK'
  BY <1>11 DEF ReadRow, ShowEnd, Connected
<1>12. ASSUME NEW c \in Clients, SendFrame(c) PROVE JobTypeOK'
  <2>1. Tail(inbox[c]) \in Seq(Frames)
    BY <1>12, TailElements DEF SendFrame
  <2>. QED
    BY <1>12, <2>1 DEF SendFrame, ShowEnd
<1>13. ASSUME NEW c \in Clients, Drop(c) PROVE JobTypeOK'
  BY <1>13, RetryType DEF Drop
<1>14. ASSUME NEW c \in Clients, ConnectFails(c) PROVE JobTypeOK'
  BY <1>14, RetryType DEF ConnectFails
<1>15. ASSUME NEW c \in Clients, ClosePage(c) PROVE JobTypeOK'
  BY <1>15 DEF ClosePage
<1>16. CASE Deliver
  <2>1. Tail(posted) \in Seq(Jobs \X Frames) /\ Head(posted)[2] \in Frames
    BY <1>16, TailElements DEF Deliver
  <2>2. \A c \in Clients : Append(inbox[c], Head(posted)[2]) \in Seq(Frames)
    BY <2>1, AppendElements
  <2>. QED
    BY <1>16, <2>1, <2>2 DEF Deliver
<1>17. CASE Crash
  <2>1. posted' \in Seq(Jobs \X Frames)
    BY <1>17 DEF Crash
  <2>2. /\ tries' \in [Clients -> 0..MaxTries]
        /\ place' \in [Clients -> Connected \cup {"away", "retrying", "left", "done"}]
    BY <1>17, RetryType DEF Crash
  <2>3. thread' \in [Jobs -> {"none", "gone"}] /\ up' \in BOOLEAN
    BY <1>17 DEF Crash
  <2>4. restarts' \in 0..MaxRestarts
    BY <1>17 DEF Crash
  <2>. QED
    BY <1>17, <2>1, <2>2, <2>3, <2>4 DEF Crash
<1>18. CASE Boot
  BY <1>18 DEF Boot
<1>19. CASE UNCHANGED jobVars
  BY <1>19 DEF jobVars
<1>. QED
  BY <1>1, <1>2, <1>3, <1>4, <1>5, <1>6, <1>7, <1>8, <1>9, <1>10, <1>11, <1>12, <1>13,
     <1>14, <1>15, <1>16, <1>17, <1>18, <1>19 DEF JobNext, ThreadStep

\* Only a thread at work, or failing, writes a row, and its job has not ended.
LEMMA RowStays ==
    JobTypeOK /\ RowSettled /\ [JobNext]_jobVars
        => \A j \in Jobs : row[j] \in Finished => row'[j] = row[j]
<1> SUFFICES ASSUME JobTypeOK, RowSettled, [JobNext]_jobVars, NEW k \in Jobs, row[k] \in Finished
             PROVE  row'[k] = row[k]
  OBVIOUS
<1>0. thread[k] \in {"notify", "linking", "gone"}
  BY DEF RowSettled
<1> USE DEF JobTypeOK, Finished, rowVars
<1>1. ASSUME NEW j \in Jobs, CreateJob(j) PROVE row'[k] = row[k]
  BY <1>1 DEF CreateJob
<1>2. ASSUME NEW j \in Jobs, ThreadStep(j) PROVE row'[k] = row[k]
  BY <1>0, <1>2 DEF ThreadStep, StartThread, WriteProgress, WriteCompleted, AnalysisRaises,
                    WriteFailed, StoreFails, NotifyFollowers, LinkCase, Commit
<1>3. ASSUME NEW c \in Clients,
             \/ ConnectPage(c) \/ ReadRow(c) \/ SendFrame(c)
             \/ Drop(c) \/ ConnectFails(c) \/ ClosePage(c)
      PROVE  row'[k] = row[k]
  BY <1>3 DEF ConnectPage, ReadRow, SendFrame, Drop, ConnectFails, ClosePage
<1>4. CASE Deliver \/ Crash \/ Boot \/ UNCHANGED jobVars
  BY <1>4 DEF Deliver, Crash, Boot, jobVars
<1>. QED
  BY <1>1, <1>2, <1>3, <1>4 DEF JobNext

LEMMA RowSettledStep == JobTypeOK /\ RowSettled /\ [JobNext]_jobVars => RowSettled'
<1> SUFFICES ASSUME JobTypeOK, RowSettled, [JobNext]_jobVars PROVE RowSettled'
  OBVIOUS
<1> USE DEF JobTypeOK, RowSettled, Finished, rowVars, threadVars
<1>1. ASSUME NEW j \in Jobs, CreateJob(j) PROVE RowSettled'
  BY <1>1 DEF CreateJob
<1>2. ASSUME NEW j \in Jobs, StartThread(j) PROVE RowSettled'
  BY <1>2 DEF StartThread
<1>3. ASSUME NEW j \in Jobs, WriteProgress(j) PROVE RowSettled'
  BY <1>3 DEF WriteProgress
<1>4. ASSUME NEW j \in Jobs, NEW st \in Finished, thread[j] \in {"work", "failing"},
             Commit(j, st, st)
      PROVE  RowSettled'
  BY <1>4 DEF Commit
<1>5. ASSUME NEW j \in Jobs, AnalysisRaises(j) \/ StoreFails(j) PROVE RowSettled'
  BY <1>5 DEF AnalysisRaises, StoreFails
<1>6. ASSUME NEW j \in Jobs, NotifyFollowers(j) PROVE RowSettled'
  BY <1>6 DEF NotifyFollowers, AfterFrame
<1>7. ASSUME NEW j \in Jobs, LinkCase(j) PROVE RowSettled'
  BY <1>7 DEF LinkCase
<1>8. ASSUME NEW c \in Clients,
             \/ ConnectPage(c) \/ ReadRow(c) \/ SendFrame(c)
             \/ Drop(c) \/ ConnectFails(c) \/ ClosePage(c)
      PROVE  RowSettled'
  BY <1>8 DEF ConnectPage, ReadRow, SendFrame, Drop, ConnectFails, ClosePage
<1>9. CASE Crash
  BY <1>9 DEF Crash
<1>10. CASE Deliver \/ Boot \/ UNCHANGED jobVars
  BY <1>10 DEF Deliver, Boot, jobVars
<1>. QED
  BY <1>1, <1>2, <1>3, <1>4, <1>5, <1>6, <1>7, <1>8, <1>9, <1>10
     DEF JobNext, ThreadStep, WriteCompleted, WriteFailed

\* What is on its way to a page stays true while no row of a finished job
\* changes.
LEMMA FeedKeeps ==
    ASSUME JobInv, \A j \in Jobs : row[j] \in Finished => row'[j] = row[j],
           UNCHANGED posted, UNCHANGED clientVars
    PROVE  PostedTrue' /\ InboxTrue' /\ ToldIsTrue'
<1> USE DEF JobInv, clientVars
<1>1. PostedTrue'
  BY DEF PostedTrue, JobTypeOK
<1>2. InboxTrue'
  BY DEF InboxTrue
<1>3. ToldIsTrue'
  BY DEF ToldIsTrue, InboxTrue, JobTypeOK
<1>. QED
  BY <1>1, <1>2, <1>3

LEMMA JobStepInv == JobInv /\ [JobNext]_jobVars => JobInv'
<1> SUFFICES ASSUME JobInv, [JobNext]_jobVars PROVE JobInv'
  OBVIOUS
<1>0. /\ JobTypeOK' /\ RowSettled'
      /\ \A j \in Jobs : row[j] \in Finished => row'[j] = row[j]
  BY JobStepType, RowSettledStep, RowStays DEF JobInv
<1> SUFFICES PostedTrue' /\ InboxTrue' /\ ToldIsTrue'
  BY <1>0 DEF JobInv
<1>1. ASSUME NEW j \in Jobs, \/ CreateJob(j) \/ StartThread(j) \/ WriteProgress(j)
                             \/ WriteCompleted(j) \/ AnalysisRaises(j) \/ WriteFailed(j)
                             \/ StoreFails(j) \/ LinkCase(j)
      PROVE  PostedTrue' /\ InboxTrue' /\ ToldIsTrue'
  <2>1. UNCHANGED posted /\ UNCHANGED clientVars
    BY <1>1 DEF CreateJob, StartThread, WriteProgress, WriteCompleted, AnalysisRaises,
                WriteFailed, StoreFails, LinkCase, Commit
  <2>. QED
    BY <1>0, <2>1, FeedKeeps
<1>2. ASSUME NEW j \in Jobs, NotifyFollowers(j)
      PROVE  PostedTrue' /\ InboxTrue' /\ ToldIsTrue'
  <2>1. PostedTrue'
    <3>1. CASE posted' = posted
      BY <1>2, <3>1 DEF NotifyFollowers, rowVars, JobInv, PostedTrue
    <3>2. CASE posted' = Append(posted, <<j, frame[j]>>)
      <4>1. posted \in Seq(Jobs \X Frames) /\ <<j, frame[j]>> \in Jobs \X Frames
        BY DEF JobInv, JobTypeOK
      <4>2. \A i \in 1..Len(posted') :
                (i \in 1..Len(posted) /\ posted'[i] = posted[i]) \/ posted'[i] = <<j, frame[j]>>
        BY <3>2, <4>1, AppendElements
      <4>3. frame[j] \in Finished => row[j] = frame[j]
        BY <1>2 DEF NotifyFollowers, JobInv, RowSettled
      <4>4. row' = row
        BY <1>2 DEF NotifyFollowers, rowVars
      <4>. QED
        BY <4>2, <4>3, <4>4 DEF JobInv, PostedTrue
    <3>. QED
      BY <1>2, <3>1, <3>2 DEF NotifyFollowers
  <2>2. InboxTrue' /\ ToldIsTrue'
    BY <1>2 DEF NotifyFollowers, rowVars, clientVars, JobInv, InboxTrue, ToldIsTrue
  <2>. QED
    BY <2>1, <2>2
<1>3. ASSUME NEW c \in Clients, ConnectPage(c)
      PROVE  PostedTrue' /\ InboxTrue' /\ ToldIsTrue'
  <2>1. /\ UNCHANGED <<row, posted, told>> /\ place' = [place EXCEPT ![c] = "reading"]
        /\ inbox' = [inbox EXCEPT ![c] = <<>>]
        /\ place[c] \in {"away", "retrying"}
        /\ \A d \in Clients : d # c => watch'[d] = watch[d]
        /\ watch'[c] \in Jobs
        /\ place[c] # "away" => watch' = watch
    BY <1>3 DEF ConnectPage, rowVars, JobInv, JobTypeOK, InboxTrue
  <2>2. PostedTrue'
    BY <2>1 DEF JobInv, PostedTrue
  <2>3. InboxTrue'
    BY <2>1 DEF JobInv, JobTypeOK, InboxTrue
  <2>4. ToldIsTrue'
    BY <2>1 DEF JobInv, InboxTrue, ToldIsTrue
  <2>. QED
    BY <2>2, <2>3, <2>4
<1>4. ASSUME NEW c \in Clients, ReadRow(c)
      PROVE  PostedTrue' /\ InboxTrue' /\ ToldIsTrue'
  <2>1. /\ UNCHANGED <<row, posted, watch, inbox>>
        /\ place[c] = "reading" /\ place'[c] # "away"
        /\ \A d \in Clients : d # c => place'[d] = place[d] /\ told'[d] = told[d]
        /\ told'[c] = told[c] \/ told'[c] = row[watch[c]]
    BY <1>4 DEF ReadRow, ShowEnd, rowVars, JobInv, JobTypeOK
  <2>. QED
    BY <2>1 DEF JobInv, PostedTrue, InboxTrue, ToldIsTrue
<1>5. ASSUME NEW c \in Clients, SendFrame(c)
      PROVE  PostedTrue' /\ InboxTrue' /\ ToldIsTrue'
  <2>1. /\ UNCHANGED <<row, posted, watch>> /\ inbox' = [inbox EXCEPT ![c] = Tail(@)]
        /\ place[c] = "streaming" /\ place'[c] # "away" /\ inbox[c] # <<>>
        /\ \A d \in Clients : d # c => place'[d] = place[d] /\ told'[d] = told[d]
        /\ told'[c] = told[c] \/ (told'[c] = Head(inbox[c]) /\ Head(inbox[c]) \in Finished)
    BY <1>5 DEF SendFrame, ShowEnd, rowVars, JobInv, JobTypeOK
  <2>2. /\ 1 \in 1..Len(inbox[c]) /\ Head(inbox[c]) = inbox[c][1]
        /\ \A i \in 1..Len(Tail(inbox[c])) :
              i + 1 \in 1..Len(inbox[c]) /\ Tail(inbox[c])[i] = inbox[c][i + 1]
    BY <2>1, TailElements DEF JobInv, JobTypeOK
  <2>3. \A d \in Clients : inbox'[d] = IF d = c THEN Tail(inbox[c]) ELSE inbox[d]
    BY <2>1 DEF JobInv, JobTypeOK
  <2>4. InboxTrue'
    BY <2>1, <2>2, <2>3 DEF JobInv, InboxTrue
  <2>5. PostedTrue' /\ ToldIsTrue'
    BY <2>1, <2>2 DEF JobInv, PostedTrue, InboxTrue, ToldIsTrue
  <2>. QED
    BY <2>4, <2>5
<1>6. ASSUME NEW clients \in SUBSET Clients, Retry(clients), UNCHANGED <<row, watch, inbox, told>>,
             \A c \in clients : place[c] # "away", posted' = posted \/ posted' = <<>>
      PROVE  PostedTrue' /\ InboxTrue' /\ ToldIsTrue'
  <2>1. \A c \in Clients : place'[c] = "away" <=> place[c] = "away"
    BY <1>6, RetryType DEF JobInv
  <2>. QED
    BY <1>6, <2>1 DEF JobInv, PostedTrue, InboxTrue, ToldIsTrue
<1>7. ASSUME NEW c \in Clients, Drop(c)
      PROVE  PostedTrue' /\ InboxTrue' /\ ToldIsTrue'
  BY <1>6, <1>7 DEF Drop, rowVars, Connected
<1>8. ASSUME NEW c \in Clients, ConnectFails(c)
      PROVE  PostedTrue' /\ InboxTrue' /\ ToldIsTrue'
  BY <1>6, <1>8 DEF ConnectFails, rowVars
<1>9. ASSUME NEW c \in Clients, ClosePage(c)
      PROVE  PostedTrue' /\ InboxTrue' /\ ToldIsTrue'
  BY <1>9 DEF ClosePage, rowVars, Connected, JobInv, JobTypeOK, PostedTrue, InboxTrue, ToldIsTrue
<1>10. CASE Deliver
  <2> DEFINE k == Head(posted)[1]
             f == Head(posted)[2]
  <2>1. /\ 1 \in 1..Len(posted) /\ Head(posted) = posted[1] /\ Head(posted) \in Jobs \X Frames
        /\ \A i \in 1..Len(Tail(posted)) :
              i + 1 \in 1..Len(posted) /\ Tail(posted)[i] = posted[i + 1]
    BY <1>10, TailElements DEF Deliver, JobInv, JobTypeOK
  <2>2. k \in Jobs /\ f \in Frames /\ (f \in Finished => row[k] = f)
    BY <2>1 DEF JobInv, PostedTrue
  <2>3. /\ UNCHANGED <<row, watch, place, told>> /\ posted' = Tail(posted)
        /\ inbox' = [c \in Clients |-> IF c \in Subscribers(k) THEN Append(inbox[c], f)
                                                               ELSE inbox[c]]
    BY <1>10 DEF Deliver, rowVars
  <2> HIDE DEF k, f
  <2>4. PostedTrue' /\ ToldIsTrue'
    BY <2>1, <2>3 DEF JobInv, PostedTrue, ToldIsTrue
  <2>5. ASSUME NEW c \in Clients, NEW i \in 1..Len(inbox'[c]), inbox'[c][i] \in Finished
        PROVE  row[watch[c]] = inbox'[c][i]
    <3>1. CASE c \in Subscribers(k)
      <4>1. inbox'[c] = Append(inbox[c], f) /\ inbox[c] \in Seq(Frames)
        BY <2>3, <3>1 DEF JobInv, JobTypeOK
      <4>2. (i \in 1..Len(inbox[c]) /\ inbox'[c][i] = inbox[c][i]) \/ inbox'[c][i] = f
        BY <2>2, <4>1, AppendElements
      <4>3. watch[c] = k
        BY <3>1 DEF Subscribers
      <4>. QED
        BY <2>2, <2>5, <4>2, <4>3 DEF JobInv, InboxTrue
    <3>2. CASE c \notin Subscribers(k)
      BY <2>3, <2>5, <3>2 DEF JobInv, InboxTrue
    <3>. QED
      BY <3>1, <3>2
  <2>6. \A c \in Clients : place[c] = "away" => inbox'[c] = inbox[c]
    BY <2>3 DEF Subscribers, Connected
  <2>7. InboxTrue'
    BY <2>3, <2>5, <2>6 DEF JobInv, InboxTrue
  <2>. QED
    BY <2>4, <2>7
<1>11. CASE Crash
  <2>1. {c \in Clients : place[c] \in Connected} \in SUBSET Clients
    OBVIOUS
  <2>. QED
    BY <1>6, <1>11, <2>1 DEF Crash, Connected
<1>12. CASE Boot
  BY <1>0, <1>12, FeedKeeps DEF Boot
<1>13. CASE UNCHANGED jobVars
  BY <1>0, <1>13, FeedKeeps DEF jobVars
<1>. QED
  BY <1>1, <1>2, <1>3, <1>4, <1>5, <1>7, <1>8, <1>9, <1>10, <1>11, <1>12, <1>13
     DEF JobNext, ThreadStep

\* The strengthened invariant of background analyses.
THEOREM JobInvariant == JobSpec => []JobInv
<1>. QED
  BY JobInitInv, JobStepInv, PTL DEF JobSpec

\* Rows, threads, frames and pages keep their types.
THEOREM JobTypeSafety == JobSpec => []JobTypeOK
<1>1. JobInv => JobTypeOK
  BY DEF JobInv
<1>. QED
  BY <1>1, JobInvariant, PTL

\* What a page shows as the end of its job is in the database.
THEOREM PagesTellTheTruth == JobSpec => []ToldIsTrue
<1>1. JobInv => ToldIsTrue
  BY DEF JobInv
<1>. QED
  BY <1>1, JobInvariant, PTL

\* No step changes the status of a finished job.
THEOREM JobsStayFinished == JobSpec => FinishedStays
<1>1. JobInv /\ [JobNext]_jobVars
          => [\A j \in Jobs : row[j] \in Finished => row'[j] = row[j]]_jobVars
  BY RowStays DEF JobInv
<1>. QED
  BY <1>1, JobInvariant, PTL DEF JobSpec, FinishedStays
-----------------------------------------------------------------------------
(* Agent sessions *)

\* An investigation that has a thread is in the table and never waits under a
\* status of its own; a session has a row only once it was started.
Worked ==
    /\ \A s \in Investigations :
          /\ task[s] \notin {"none", "gone"} => s \in known
          /\ status[s] # "waiting_approval"
    /\ \A s \in Sessions : status[s] # "absent" => task[s] # "none"

StreamInv == StreamTypeOK /\ Worked

PageTypes == {Away, Closed} \cup Sending \cup Streaming

\* The stage of a connection tells which kind it is.
LEMMA PageKinds ==
    ASSUME NEW p \in PageTypes
    PROVE  /\ p.stage = "sending" => p \in Sending
           /\ p.stage = "streaming" => p \in Streaming
BY DEF PageTypes, Away, Closed, Sending, Streaming

\* A frame put into the queues, or missed, leaves every connection what it is.
LEMMA PutType ==
    ASSUME StreamTypeOK, NEW s \in Sessions, NEW f \in News
    PROVE  Put(s, f) \in [Viewers -> PageTypes]
<1>1. ASSUME NEW v \in Viewers, v \in Listening(s)
      PROVE  [page[v] EXCEPT !.frames = Append(@, f)] \in Streaming
  <2>1. page[v] \in Streaming
    BY <1>1, PageKinds DEF StreamTypeOK, PageTypes, Listening, Follows
  <2>2. Append(page[v].frames, f) \in Seq(News)
    BY <2>1, AppendElements DEF Streaming
  <2>. QED
    BY <2>1, <2>2 DEF Streaming
<1>2. ASSUME NEW v \in Viewers, v \in InGap(s)
      PROVE  [page[v] EXCEPT !.missed = @ \cup {f}] \in Sending
  <2>1. page[v] \in Sending
    BY <1>2, PageKinds DEF StreamTypeOK, PageTypes, InGap, Follows
  <2>2. page[v].missed \cup {f} \in SUBSET News
    BY <2>1 DEF Sending
  <2>. QED
    BY <2>1, <2>2 DEF Sending
<1>. QED
  BY <1>1, <1>2 DEF Put, StreamTypeOK, PageTypes

LEMMA PostType ==
    ASSUME StreamTypeOK, NEW s \in Sessions, NEW f \in News, Post(s, f)
    PROVE  page' \in [Viewers -> PageTypes] /\ queued' \in Seq(Sessions \X News)
<1>1. Append(queued, <<s, f>>) \in Seq(Sessions \X News)
  BY AppendElements DEF StreamTypeOK
<1>. QED
  BY <1>1, PutType DEF Post, StreamTypeOK, PageTypes

LEMMA StoreType ==
    ASSUME StreamTypeOK, NEW s \in Sessions, NEW st \in Stored, Store(s, st)
    PROVE  /\ status' \in [Sessions -> Stored \cup NoRow]
           /\ \A x \in Sessions : status'[x] = IF x = s /\ status[s] \notin NoRow THEN st
                                               ELSE status[x]
BY DEF Store, StreamTypeOK

LEMMA StreamStepType == StreamTypeOK /\ [StreamNext]_streamVars => StreamTypeOK'
<1> SUFFICES ASSUME StreamTypeOK, [StreamNext]_streamVars PROVE StreamTypeOK'
  OBVIOUS
<1>0. page \in [Viewers -> PageTypes]
  BY DEF StreamTypeOK, PageTypes
<1> USE StreamAssumption DEF StreamTypeOK, Sessions
<1>1. ASSUME NEW s \in Sessions, Start(s) PROVE StreamTypeOK'
  BY <1>1 DEF Start, Stored
<1>2. ASSUME NEW s \in Sessions, EndSession(s) PROVE StreamTypeOK'
  BY <1>2, StoreType DEF EndSession, Stored, Ends, Kinds, EndNews
<1>3. ASSUME NEW s \in Sessions, HitStepLimit(s) PROVE StreamTypeOK'
  BY <1>3, StoreType DEF HitStepLimit, Stored, Ends
<1>4. ASSUME NEW s \in Sessions, Pause(s) PROVE StreamTypeOK'
  <2>1. asks[s] + 1 \in 0..MaxPauses
    BY <1>4 DEF Pause
  <2>. QED
    BY <1>4, <2>1, StoreType DEF Pause, Stored, Kinds
<1>5. ASSUME NEW s \in Sessions, Announce(s) PROVE StreamTypeOK'
  <2>1. [type |-> task[s], req |-> IF task[s] = "approval_required" THEN asks[s] ELSE 0] \in News
    BY <1>5 DEF Announce, News
  <2>. QED
    BY <1>5, <2>1, PostType DEF Announce, PageTypes
<1>6. ASSUME NEW s \in Sessions, Resume(s) PROVE StreamTypeOK'
  BY <1>6 DEF Resume, Stored
<1>7. ASSUME NEW s \in Sessions, Cancel(s) PROVE StreamTypeOK'
  <2>1. Cancelled \in News
    BY DEF Cancelled, News, Kinds, EndNews
  <2>. QED
    BY <1>7, <2>1, StoreType, PostType DEF Cancel, Stored, Ends, PageTypes
<1>8. ASSUME NEW s \in Sessions, Delete(s) PROVE StreamTypeOK'
  BY <1>8 DEF Delete, NoRow
<1>9. ASSUME NEW v \in Viewers, NEW s \in Sessions, Open(v, s) PROVE StreamTypeOK'
  <2>1. [stage |-> "sending", session |-> s, asked |-> {}, snapshot |-> status[s],
         missed |-> {}] \in Sending
    BY <1>9 DEF Open, Sending
  <2>. QED
    BY <1>9, <2>1 DEF Open, workVars
<1>10. ASSUME NEW v \in Viewers, SendSnapshot(v) PROVE StreamTypeOK'
  <2>1. page[v] \in Sending
    BY <1>0, <1>10, PageKinds DEF SendSnapshot
  <2>2. [stage |-> "streaming", session |-> page[v].session, frames |-> <<>>,
         asked |-> page[v].asked, missed |-> page[v].missed] \in Streaming
    BY <2>1 DEF Sending, Streaming
  <2>. QED
    BY <1>10, <2>2 DEF SendSnapshot, workVars
<1>11. ASSUME NEW v \in Viewers, Forward(v) PROVE StreamTypeOK'
  <2>1. page[v] \in Streaming
    BY <1>0, <1>11, PageKinds DEF Forward
  <2>2. Tail(page[v].frames) \in Seq(News)
    BY <1>11, <2>1, TailElements DEF Forward, Streaming
  <2>3. page[v].asked \cup {Head(page[v].frames).req} \in SUBSET (0..MaxPauses)
    <3>1. Head(page[v].frames) \in News
      BY <1>11, <2>1, HeadTailProperties DEF Forward, Streaming
    <3>2. Head(page[v].frames).req \in 0..MaxPauses
      BY <3>1 DEF News
    <3>3. page[v].asked \in SUBSET (0..MaxPauses)
      BY <2>1 DEF Streaming
    <3>. QED
      BY <3>2, <3>3
  <2>4. [page[v] EXCEPT !.frames = Tail(page[v].frames),
                        !.asked = page[v].asked \cup {Head(page[v].frames).req}] \in Streaming
    BY <2>1, <2>2, <2>3 DEF Streaming
  <2>5. page' \in [Viewers -> PageTypes]
    BY <1>0, <1>11, <2>4 DEF Forward, PageTypes
  <2>. QED
    BY <1>11, <2>5 DEF Forward, workVars, PageTypes
<1>12. ASSUME NEW v \in Viewers, Hangup(v) PROVE StreamTypeOK'
  BY <1>12 DEF Hangup, workVars
<1>13. CASE PutAll
  <2>1. Head(queued)[1] \in Sessions /\ Head(queued)[2] \in News /\ Tail(queued) \in Seq(Sessions \X News)
    BY <1>13, TailElements DEF PutAll
  <2>. QED
    BY <1>13, <2>1, PutType DEF PutAll, workVars, PageTypes
<1>14. CASE Reboot
  <2>1. task' \in [Sessions -> {"none", "gone"}] /\ reboots' \in 0..MaxReboots
    BY <1>14 DEF Reboot
  <2>2. page' \in [Viewers -> {Away, Closed}]
    BY <1>14 DEF Reboot
  <2>3. page' \in [Viewers -> PageTypes]
    BY <2>2 DEF PageTypes
  <2>4. queued' \in Seq(Sessions \X News)
    BY <1>14 DEF Reboot
  <2>. QED
    BY <1>14, <2>1, <2>3, <2>4 DEF Reboot, PageTypes
<1>15. CASE UNCHANGED streamVars
  <2>1. UNCHANGED <<status, task, known, over, silent, asks, reboots, page, queued>>
    BY <1>15 DEF streamVars, workVars
  <2>. QED
    BY <2>1
<1>16. ASSUME NEW v \in Viewers, Repeat(v) PROVE StreamTypeOK'
  <2>1. page[v] \in Sending
    BY <1>0, <1>16, PageKinds DEF Repeat
  <2>2. [page[v] EXCEPT !.asked = {asks[page[v].session]}] \in Sending
    BY <2>1 DEF Sending
  <2>. QED
    BY <1>16, <2>2 DEF Repeat, workVars
<1>. QED
  BY <1>1, <1>2, <1>3, <1>4, <1>5, <1>6, <1>7, <1>8, <1>9, <1>10, <1>11, <1>12, <1>13,
     <1>14, <1>15, <1>16 DEF StreamNext

\* Whoever gives a session a thread, or a status, keeps both apart.
LEMMA WorkedStep == StreamInv /\ [StreamNext]_streamVars => Worked'
<1> SUFFICES ASSUME StreamTypeOK, Worked, [StreamNext]_streamVars PROVE Worked'
  BY DEF StreamInv
<1> USE StreamAssumption DEF StreamTypeOK, Worked, Sessions
<1>1. ASSUME NEW s \in Sessions, Start(s) PROVE Worked'
  BY <1>1 DEF Start
<1>2. ASSUME NEW s \in Sessions, NEW st \in Ends, Store(s, st), UNCHANGED known,
             task[s] = "run", \A x \in Sessions : x # s => task'[x] = task[x],
             task'[s] # "none"
      PROVE  Worked'
  <2>1. \A x \in Sessions : status'[x] = IF x = s /\ status[s] \notin NoRow THEN st
                                         ELSE status[x]
    BY <1>2, StoreType DEF Stored
  <2>. QED
    BY <1>2, <2>1 DEF NoRow, Ends
<1>3. ASSUME NEW s \in Sessions, EndSession(s) \/ HitStepLimit(s) PROVE Worked'
  BY <1>2, <1>3 DEF EndSession, HitStepLimit, Ends
<1>4. ASSUME NEW s \in Sessions, Pause(s) PROVE Worked'
  BY <1>4, StoreType DEF Pause, Stored, NoRow
<1>5. ASSUME NEW s \in Sessions, Announce(s) PROVE Worked'
  BY <1>5 DEF Announce, Kinds, EndNews, Ends
<1>6. ASSUME NEW s \in Sessions, Resume(s) PROVE Worked'
  BY <1>6 DEF Resume
<1>7. ASSUME NEW s \in Sessions, Cancel(s) PROVE Worked'
  BY <1>7, StoreType DEF Cancel, Stored, Ends, NoRow
<1>8. ASSUME NEW s \in Sessions, Delete(s) PROVE Worked'
  BY <1>8 DEF Delete, NoRow
<1>9. ASSUME UNCHANGED workVars PROVE Worked'
  BY <1>9 DEF workVars
<1>10. CASE Reboot
  BY <1>10 DEF Reboot
<1>. QED
  BY <1>1, <1>3, <1>4, <1>5, <1>6, <1>7, <1>8, <1>9, <1>10
     DEF StreamNext, streamVars, Open, Repeat, SendSnapshot, Forward, Hangup, PutAll

\* The strengthened invariant of agent sessions.
THEOREM StreamInvariant == StreamSpec => []StreamInv
<1>1. StreamInit => StreamInv
  <2> SUFFICES ASSUME StreamInit PROVE StreamInv
    OBVIOUS
  <2>1. StreamTypeOK
    BY StreamAssumption DEF StreamInit, StreamTypeOK, Sessions, NoRow
  <2>. QED
    BY <2>1 DEF StreamInit, StreamInv, Worked, Sessions
<1>2. StreamInv /\ [StreamNext]_streamVars => StreamInv'
  BY StreamStepType, WorkedStep DEF StreamInv
<1>. QED
  BY <1>1, <1>2, PTL DEF StreamSpec

\* Rows, threads, callbacks and connections keep their types.
THEOREM StreamTypeSafety == StreamSpec => []StreamTypeOK
<1>1. StreamInv => StreamTypeOK
  BY DEF StreamInv
<1>. QED
  BY <1>1, StreamInvariant, PTL

\* No investigation is deleted while a thread works on it.
THEOREM NoDeleteUnderThread == StreamSpec => DeletedIsIdle
<1>1. StreamInv /\ [StreamNext]_streamVars
          => [\A s \in Investigations :
                 status[s] # "deleted" /\ status'[s] = "deleted" => task[s] = "gone"]_streamVars
  <2> SUFFICES ASSUME StreamTypeOK, Worked, StreamNext, NEW k \in Investigations,
                      status[k] # "deleted", status'[k] = "deleted"
               PROVE  task[k] = "gone"
    BY DEF StreamInv
  <2> USE DEF StreamTypeOK, Sessions
  <2>1. ASSUME NEW s \in Sessions, Delete(s) PROVE task[k] = "gone"
    BY <2>1 DEF Delete, NoRow, Worked
  <2>2. ASSUME NEW s \in Sessions, NEW st \in Stored, Store(s, st) PROVE FALSE
    BY <2>2, StoreType DEF Stored, Ends
  <2>3. ASSUME NEW s \in Sessions, Start(s) \/ Resume(s) PROVE FALSE
    BY <2>3 DEF Start, Resume
  <2>4. ASSUME status' = status PROVE FALSE
    BY <2>4
  <2>. QED
    BY <2>1, <2>2, <2>3, <2>4
       DEF StreamNext, EndSession, HitStepLimit, Pause, Announce, Cancel, Open, Repeat,
           SendSnapshot, Forward, Hangup, PutAll, Reboot, workVars, Stored, Ends
<1>. QED
  BY <1>1, StreamInvariant, PTL DEF StreamSpec, DeletedIsIdle
=============================================================================
