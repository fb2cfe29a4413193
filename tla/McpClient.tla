------------------------------ MODULE McpClient ------------------------------
(***************************************************************************)
(* The stdio connection of MCPClientManager to one MCP server. connect and *)
(* disconnect run under the manager's lock; an owner task holds the SDK    *)
(* session and serves a queue one request at a time; tool calls enter that *)
(* queue without the lock and give up after 60 seconds.                    *)
(*                                                                         *)
(* An owner, once created, is a number. reconnect and the _all methods are *)
(* sequences of these operations. The server is free to answer late, never *)
(* or to break the session. Left out: the SSE and HTTP transports and the  *)
(* raw JSON-RPC clients, which have no owner, and the contents of tools.   *)
(***************************************************************************)
EXTENDS Naturals, Sequences, FiniteSets, SequencesExt

CONSTANTS
    Managers,    \* requests and start-up code that connect or disconnect
    Nobody,      \* the value of a free lock
    ToolCalls,   \* calls of call_tool
    Stop, List,  \* the other items of a queue: None, and list_tools
    MaxOwners    \* bound on connects

Owners == 1..MaxOwners
None   == 0            \* no client in the table, no item

ASSUME McpAssumption ==
    /\ Nobody \notin Managers /\ Stop # List /\ {Stop, List} \cap ToolCalls = {}
    /\ None \notin ToolCalls \cup {Stop, List}
    /\ MaxOwners \in Nat \ {0}

VARIABLES
    lock,      \* MCPClientManager._lock
    client,    \* the client of the server's entry; connected is client # None
    stage,     \* what the holder of the lock awaits
    op,        \* "connect" or "disconnect": what the holder is doing
    owner,     \* life of each owner task
    queue,     \* _request_q
    serving,   \* the item the owner awaits an answer to
    call,      \* each tool call
    calledAt   \* the owner it was put to

mcpVars == <<lock, client, stage, op, owner, queue, serving, call, calledAt>>

Items == ToolCalls \cup {Stop, List}

\* An owner that ended after Stop, and one that ended with an exception.
Over == {"ended", "failed"}

McpTypeOK ==
    /\ lock \in Managers \cup {Nobody}
    /\ client \in Owners \cup {None}
    /\ stage \in {"none", "closing", "starting", "discover", "discovered"}
    /\ op \in {"none", "connect", "disconnect"}
    /\ owner \in [Owners -> {"none", "starting", "idle", "busy", "leaving", "broken"} \cup Over]
    /\ queue \in [Owners -> Seq(Items)]
    /\ serving \in [Owners -> Items \cup {None}]
    /\ call \in [ToolCalls -> {"unmade", "queued", "late", "running", "answered", "error", "timeout"}]
    /\ calledAt \in [ToolCalls -> Owners \cup {None}]
    /\ (lock = Nobody) = (stage = "none")
    /\ stage \in {"starting", "discover", "discovered"} => client = None

McpInit ==
    /\ lock = Nobody /\ client = None /\ stage = "none" /\ op = "none"
    /\ owner = [o \in Owners |-> "none"]
    /\ queue = [o \in Owners |-> <<>>]
    /\ serving = [o \in Owners |-> None]
    /\ call = [c \in ToolCalls |-> "unmade"]
    /\ calledAt = [c \in ToolCalls |-> None]

Unmade == {o \in Owners : owner[o] = "none"}

\* The owner connect has created last.
Newest == CHOOSE o \in Owners : owner[o] # "none" /\ \A p \in Owners : p > o => p \in Unmade

\* A new owner task, whose start() is awaited.
LaunchOwner ==
    /\ Unmade # {}
    /\ owner' = [owner EXCEPT ![CHOOSE o \in Unmade : \A p \in Unmade : o <= p] = "starting"]
    /\ stage' = "starting"

ReleaseLock ==
    /\ lock' = Nobody /\ stage' = "none" /\ op' = "none"
-----------------------------------------------------------------------------
(* The manager, under its lock *)

\* Mutant: connect replaces the entry and does not close its session.
ConnectOver(m) ==
    /\ lock = Nobody /\ lock' = m /\ op' = "connect"
    /\ client' = None /\ LaunchOwner
    /\ UNCHANGED <<queue, serving, call, calledAt>>

\* connect: an old session is closed first.
Connect(m) ==
    /\ lock = Nobody /\ lock' = m /\ op' = "connect" /\ Unmade # {}
    /\ \/ client = None /\ LaunchOwner /\ UNCHANGED queue
       \/ /\ client # None
          /\ queue' = [queue EXCEPT ![client] = Append(@, Stop)]
          /\ stage' = "closing"
          /\ UNCHANGED owner
    /\ UNCHANGED <<client, serving, call, calledAt>>

\* disconnect: close() puts None and waits for the task. Without a client it
\* changes nothing but the stored status.
Disconnect(m) ==
    /\ lock = Nobody /\ lock' = m /\ op' = "disconnect" /\ client # None
    /\ queue' = [queue EXCEPT ![client] = Append(@, Stop)]
    /\ stage' = "closing"
    /\ UNCHANGED <<client, owner, serving, call, calledAt>>

\* Mutant: the entry keeps its old client while the new session starts.
SessionClosedKeepsEntry ==
    /\ stage = "closing" /\ owner[client] \in Over
    /\ \/ op = "connect" /\ LaunchOwner /\ UNCHANGED <<lock, op, client>>
       \/ op = "disconnect" /\ ReleaseLock /\ client' = None /\ UNCHANGED owner
    /\ UNCHANGED <<queue, serving, call, calledAt>>

\* The task is over: the client is forgotten, and connect goes on.
SessionClosed ==
    /\ stage = "closing" /\ owner[client] \in Over
    /\ client' = None
    /\ \/ op = "connect" /\ LaunchOwner /\ UNCHANGED <<lock, op>>
       \/ op = "disconnect" /\ ReleaseLock /\ UNCHANGED owner
    /\ UNCHANGED <<queue, serving, call, calledAt>>

\* start() returns: the tools are asked for, without a timeout.
Started ==
    /\ stage = "starting" /\ owner[Newest] \notin {"starting", "failed"}
    /\ queue' = [queue EXCEPT ![Newest] = Append(@, List)]
    /\ stage' = "discover"
    /\ UNCHANGED <<lock, client, op, owner, serving, call, calledAt>>

\* start() raises the error of the task: the entry is not connected.
StartFails ==
    /\ stage = "starting" /\ owner[Newest] = "failed"
    /\ ReleaseLock
    /\ UNCHANGED <<client, owner, queue, serving, call, calledAt>>

\* The tools, or an error that counts as no tools: the entry is stored.
Discovered ==
    /\ stage = "discovered"
    /\ client' = Newest
    /\ ReleaseLock
    /\ UNCHANGED <<owner, queue, serving, call, calledAt>>

-----------------------------------------------------------------------------
(* The owner task *)

\* The task leaves its contexts; what it was serving is never answered.
Leave(o, how) ==
    /\ owner' = [owner EXCEPT ![o] = how]
    /\ serving' = [serving EXCEPT ![o] = None]

\* The handshake succeeds or fails; a session in use breaks.
Ready(o) ==
    /\ owner[o] = "starting"
    /\ owner' = [owner EXCEPT ![o] = "idle"]
    /\ UNCHANGED <<lock, client, stage, op, queue, serving, call, calledAt>>

NotReady(o) ==
    /\ owner[o] = "starting"
    /\ owner' = [owner EXCEPT ![o] = "failed"]
    /\ UNCHANGED <<lock, client, stage, op, queue, serving, call, calledAt>>

SessionBreaks(o) ==
    /\ owner[o] \in {"idle", "busy"}
    /\ Leave(o, "broken")
    /\ UNCHANGED <<lock, client, stage, op, queue, call, calledAt>>

\* The next request is sent, also one whose caller has given up.
TakeRequest(o) ==
    /\ owner[o] = "idle" /\ queue[o] # <<>> /\ Head(queue[o]) # Stop
    /\ queue' = [queue EXCEPT ![o] = Tail(@)]
    /\ serving' = [serving EXCEPT ![o] = Head(queue[o])]
    /\ owner' = [owner EXCEPT ![o] = "busy"]
    /\ call' = [c \in ToolCalls |-> IF c = Head(queue[o]) /\ call[c] = "queued"
                                    THEN "running" ELSE call[c]]
    /\ UNCHANGED <<lock, client, stage, op, calledAt>>

TakeStop(o) ==
    /\ owner[o] = "idle" /\ queue[o] # <<>> /\ Head(queue[o]) = Stop
    /\ queue' = [queue EXCEPT ![o] = Tail(@)]
    /\ Leave(o, "leaving")
    /\ UNCHANGED <<lock, client, stage, op, call, calledAt>>

\* The server answers, or the request raises.
Reply(o) ==
    /\ owner[o] = "busy"
    /\ owner' = [owner EXCEPT ![o] = "idle"]
    /\ serving' = [serving EXCEPT ![o] = None]
    /\ stage' = IF serving[o] = List THEN "discovered" ELSE stage
    /\ \E how \in {"answered", "error"} :
          call' = [c \in ToolCalls |-> IF c = serving[o] /\ call[c] = "running"
                                       THEN how ELSE call[c]]
    /\ UNCHANGED <<lock, client, op, queue, calledAt>>

\* Mutant: the task ends without looking at its queue.
EndUndrained(o) ==
    /\ owner[o] \in {"leaving", "broken"}
    /\ owner' = [owner EXCEPT ![o] = IF @ = "broken" THEN "failed" ELSE "ended"]
    /\ UNCHANGED <<lock, client, stage, op, queue, serving, call, calledAt>>

\* The task ends: what is in its queue fails at once.
EndOwner(o) ==
    /\ owner[o] \in {"leaving", "broken"}
    /\ owner' = [owner EXCEPT ![o] = IF @ = "broken" THEN "failed" ELSE "ended"]
    /\ queue' = [queue EXCEPT ![o] = <<>>]
    /\ call' = [c \in ToolCalls |-> IF c \in ToSet(queue[o]) /\ call[c] = "queued"
                                    THEN "error" ELSE call[c]]
    /\ stage' = IF List \in ToSet(queue[o]) THEN "discovered" ELSE stage
    /\ UNCHANGED <<lock, client, op, serving, calledAt>>

\* Mutant: only a task that is leaving already is cancelled.
CloseWaits ==
    /\ stage = "closing" /\ owner[client] = "idle"
    /\ Leave(client, "leaving")
    /\ UNCHANGED <<lock, client, stage, op, queue, call, calledAt>>

\* After 10 seconds close() cancels the task.
CloseTimesOut ==
    /\ stage = "closing" /\ owner[client] \in {"idle", "busy"}
    /\ Leave(client, "leaving")
    /\ UNCHANGED <<lock, client, stage, op, queue, call, calledAt>>

-----------------------------------------------------------------------------
(* Tool calls *)

\* call_tool: without a client an error at once.
CallTool(c) ==
    /\ call[c] = "unmade"
    /\ \/ client = None /\ call' = [call EXCEPT ![c] = "error"] /\ UNCHANGED <<queue, calledAt>>
       \/ /\ client # None
          /\ queue' = [queue EXCEPT ![client] = Append(@, c)]
          /\ call' = [call EXCEPT ![c] = IF owner[client] \in Over THEN "late" ELSE "queued"]
          /\ calledAt' = [calledAt EXCEPT ![c] = client]
    /\ UNCHANGED <<lock, client, stage, op, owner, serving>>

\* The 60 seconds are over; the item stays where it is.
CallTimesOut(c) ==
    /\ call[c] \in {"queued", "late", "running"}
    /\ call' = [call EXCEPT ![c] = "timeout"]
    /\ UNCHANGED <<lock, client, stage, op, owner, queue, serving, calledAt>>

McpNext ==
    \/ \E m \in Managers : Connect(m) \/ Disconnect(m)
    \/ SessionClosed \/ Started \/ StartFails \/ Discovered \/ CloseTimesOut
    \/ \E o \in Owners : Ready(o) \/ NotReady(o) \/ SessionBreaks(o)
                         \/ TakeRequest(o) \/ TakeStop(o) \/ Reply(o) \/ EndOwner(o)
    \/ \E c \in ToolCalls : CallTool(c) \/ CallTimesOut(c)

\* The event loop runs the tasks that can run, and timers fire. Nothing is
\* assumed of the server: not that it answers, nor that it breaks.
ManagerSteps == SessionClosed \/ Started \/ StartFails \/ Discovered \/ CloseTimesOut
OwnerSteps(o) == TakeRequest(o) \/ TakeStop(o) \/ EndOwner(o)

McpFairness ==
    /\ WF_mcpVars(ManagerSteps)
    /\ \A o \in Owners : WF_mcpVars(OwnerSteps(o))

McpSpec == McpInit /\ [][McpNext]_mcpVars /\ McpFairness

-----------------------------------------------------------------------------
(* Properties *)

\* No session is forgotten while it lives: at most one owner is alive, and with
\* the lock free it is the one in the table, whoever connects and disconnects
\* in parallel.
OneLiveOwner ==
    \A o \in Owners : owner[o] \notin {"none"} \cup Over =>
        /\ \A p \in Owners : owner[p] \notin {"none"} \cup Over => p = o
        /\ lock = Nobody => client = o

\* A call that was queued while its owner lived is not left behind: it is in the
\* queue of an owner that has not ended, calls put while the session closes
\* included. Only what was being served, or was put after the end, has nothing
\* but its own timeout.
NoCallLeftBehind ==
    \A c \in ToolCalls : call[c] = "queued" =>
        owner[calledAt[c]] \notin Over /\ c \in ToSet(queue[calledAt[c]])

\* The server has not answered the handshake or the request for its tools: the
\* two waits under the lock that have no timeout.
Unanswered ==
    \/ stage = "starting" /\ owner[Newest] = "starting"
    \/ stage = "discover" /\ List \notin ToSet(queue[Newest])

\* Who keeps the manager's lock for ever waits for ever in one of these two
\* waits. Closing a session gives the lock back, whatever call it is serving and
\* whether or not the server ever answers it.
LockKeptByServer == <>[](lock # Nobody) => <>[]Unanswered
=============================================================================
