------------------------------- MODULE McpProofs -------------------------------
(***************************************************************************)
(* Proofs about the stdio connection of an MCP server, for any number of   *)
(* managers, tool calls and connects: the type invariant, that one session *)
(* at most is alive, and that no queued call is left behind.               *)
(*                                                                         *)
(* Each of these needs to know what the holder of the lock is at: whom it  *)
(* closes, that the owner it starts is the newest and has no rival, and    *)
(* that the request for the tools exists once and only while it is waited  *)
(* for, so that no answer is taken for another one.                        *)
(***************************************************************************)
EXTENDS McpClient, NaturalsInduction, WellFoundedInduction, SequenceTheorems, TLAPS

\* The owner created last.
IsNewest(o) ==
    owner[o] # "none" /\ \A p \in Owners : p > o => owner[p] = "none"

Live(o) == owner[o] \notin {"none"} \cup Over

Opening == {"starting", "discover", "discovered"}

\* Owners are created in their order.
InOrder == \A o, p \in Owners : o < p /\ owner[o] = "none" => owner[p] = "none"

\* At most one owner is alive. It is the one in the table, unless the holder of
\* the lock is opening a session: then it is that session's.
OneAlive ==
    \A o \in Owners : Live(o) =>
        /\ \A p \in Owners : Live(p) => p = o
        /\ stage \in {"none", "closing"} => client = o
        /\ stage \in Opening => IsNewest(o)

\* What the holder of the lock works on exists, and what is in the table has
\* been started. Nobody puts a request to an owner before.
Backed ==
    /\ stage \in Opening => \E o \in Owners : IsNewest(o)
    /\ stage = "closing" => client # None
    /\ stage \in {"discover", "discovered"} =>
          \A o \in Owners : IsNewest(o) => owner[o] # "starting"
    /\ client # None => owner[client] \notin {"none", "starting"}
    /\ \A o \in Owners : owner[o] \in {"none", "starting"} => queue[o] = <<>>

\* x occurs at most once in q.
Once(q, x) == \A i, j \in 1..Len(q) : q[i] = x /\ q[j] = x => i = j

\* The request for the tools exists once, with the newest owner, and only while
\* it is waited for.
OneList ==
    \A o \in Owners :
        /\ owner[o] # "busy" => serving[o] = None
        /\ serving[o] = List \/ List \in ToSet(queue[o]) => stage = "discover" /\ IsNewest(o)
        /\ serving[o] = List => List \notin ToSet(queue[o])
        /\ Once(queue[o], List)

\* NoCallLeftBehind, with the range of calledAt.
Kept ==
    \A c \in ToolCalls : call[c] = "queued" =>
        /\ calledAt[c] \in Owners
        /\ owner[calledAt[c]] \notin Over /\ c \in ToSet(queue[calledAt[c]])

McpInv == McpTypeOK /\ InOrder /\ OneAlive /\ Backed /\ OneList /\ Kept

-----------------------------------------------------------------------------
(* Queues *)

\* What Append does to the items of a queue.
LEMMA AppendItems ==
    ASSUME NEW S, NEW q \in Seq(S), NEW x \in S
    PROVE  /\ Append(q, x) \in Seq(S)
           /\ ToSet(Append(q, x)) = ToSet(q) \cup {x}
           /\ \A y \in S : Once(q, y) /\ (y = x => y \notin ToSet(q)) => Once(Append(q, x), y)
<1>1. /\ Append(q, x) \in Seq(S) /\ Len(Append(q, x)) = Len(q) + 1 /\ Len(q) \in Nat
      /\ \A i \in 1..Len(q) : Append(q, x)[i] = q[i]
      /\ Append(q, x)[Len(q) + 1] = x
  BY AppendProperties
<1>2. DOMAIN q = 1..Len(q) /\ DOMAIN Append(q, x) = 1..Len(q) + 1
  BY <1>1, LenProperties
<1>3. ToSet(Append(q, x)) = ToSet(q) \cup {x}
  <2>1. \A i \in 1..Len(q) + 1 : i \in 1..Len(q) \/ i = Len(q) + 1
    BY <1>1
  <2>2. 1..Len(q) \subseteq 1..Len(q) + 1 /\ Len(q) + 1 \in 1..Len(q) + 1
    BY <1>1
  <2>. QED
    BY <1>1, <1>2, <2>1, <2>2 DEF ToSet
<1>4. \A y \in S : Once(q, y) /\ (y = x => y \notin ToSet(q)) => Once(Append(q, x), y)
  BY <1>1, <1>2 DEF Once, ToSet
<1>. QED
  BY <1>1, <1>3, <1>4

\* What taking the head does.
LEMMA TailItems ==
    ASSUME NEW S, NEW q \in Seq(S), q # <<>>
    PROVE  /\ Head(q) \in S /\ Tail(q) \in Seq(S)
           /\ ToSet(q) = {Head(q)} \cup ToSet(Tail(q))
           /\ \A y : Once(q, y) => Once(Tail(q), y)
           /\ \A y : Once(q, y) /\ Head(q) = y => y \notin ToSet(Tail(q))
<1>1. /\ Len(q) \in Nat \ {0} /\ Head(q) = q[1] /\ Head(q) \in S /\ Tail(q) \in Seq(S)
      /\ Len(Tail(q)) = Len(q) - 1
      /\ \A i \in 1..Len(Tail(q)) : Tail(q)[i] = q[i + 1]
  BY HeadTailProperties, EmptySeq
<1>2. DOMAIN q = 1..Len(q) /\ DOMAIN Tail(q) = 1..Len(q) - 1
  BY <1>1, LenProperties
<1>3. ToSet(q) = {Head(q)} \cup ToSet(Tail(q))
  <2>1. ASSUME NEW i \in 1..Len(q) PROVE q[i] \in {Head(q)} \cup ToSet(Tail(q))
    <3>1. CASE i = 1
      BY <1>1, <3>1
    <3>2. CASE i # 1
      <4>1. i - 1 \in 1..Len(q) - 1 /\ (i - 1) + 1 = i
        BY <1>1, <3>2
      <4>2. q[i] = Tail(q)[i - 1]
        BY <1>1, <4>1
      <4>. QED
        BY <1>2, <4>1, <4>2 DEF ToSet
    <3>. QED
      BY <3>1, <3>2
  <2>2. ASSUME NEW i \in 1..Len(q) - 1 PROVE Tail(q)[i] \in ToSet(q)
    <3>1. i + 1 \in 1..Len(q) /\ Tail(q)[i] = q[i + 1]
      BY <1>1
    <3>. QED
      BY <1>2, <3>1 DEF ToSet
  <2>3. Head(q) \in ToSet(q)
    BY <1>1, <1>2 DEF ToSet
  <2>. QED
    BY <1>2, <2>1, <2>2, <2>3 DEF ToSet
<1>4. ASSUME NEW y, Once(q, y) PROVE Once(Tail(q), y)
  <2> SUFFICES ASSUME NEW i \in 1..Len(Tail(q)), NEW j \in 1..Len(Tail(q)),
                      Tail(q)[i] = y, Tail(q)[j] = y
               PROVE  i = j
    BY DEF Once
  <2>1. i + 1 \in 1..Len(q) /\ j + 1 \in 1..Len(q) /\ q[i + 1] = y /\ q[j + 1] = y
    BY <1>1
  <2>2. i + 1 = j + 1
    BY <1>4, <2>1 DEF Once
  <2>. QED
    BY <2>2
<1>5. ASSUME NEW y, Once(q, y), Head(q) = y PROVE y \notin ToSet(Tail(q))
  <2> SUFFICES ASSUME NEW i \in 1..Len(q) - 1, Tail(q)[i] = y PROVE FALSE
    BY <1>2 DEF ToSet
  <2>1. i + 1 \in 1..Len(q) /\ 1 \in 1..Len(q) /\ q[i + 1] = y /\ q[1] = y
    BY <1>1, <1>5
  <2>2. i + 1 = 1
    BY <1>5, <2>1 DEF Once
  <2>. QED
    BY <2>2
<1>. QED
  BY <1>1, <1>3, <1>4, <1>5

LEMMA NoItems == ToSet(<<>>) = {} /\ \A y : Once(<<>>, y)
BY DEF ToSet, Once

-----------------------------------------------------------------------------
(* Owners *)

\* Newest is the newest owner, and there is only one.
LEMMA NewestUnique ==
    ASSUME NEW o \in Owners, IsNewest(o)
    PROVE  Newest = o /\ \A p \in Owners : IsNewest(p) => p = o
<1>1. Owners \subseteq Nat
  BY DEF Owners
<1>2. \A p \in Owners : IsNewest(p) => p = o
  <2> SUFFICES ASSUME NEW p \in Owners, IsNewest(p) PROVE p = o
    OBVIOUS
  <2>1. ~(p > o) /\ ~(o > p)
    BY DEF IsNewest
  <2>. QED
    BY <1>1, <2>1
<1>3. Newest = CHOOSE p \in Owners : IsNewest(p)
  <2>1. \A p \in Owners : (owner[p] # "none" /\ \A q \in Owners : q > p => q \in Unmade) <=> IsNewest(p)
    BY DEF IsNewest, Unmade
  <2>. QED
    BY <2>1 DEF Newest
<1>. QED
  BY <1>2, <1>3

\* connect creates the next owner in their order.
LEMMA LaunchNext ==
    ASSUME McpTypeOK, LaunchOwner
    PROVE  \E n \in Owners :
              /\ owner[n] = "none" /\ \A p \in Owners : p < n => owner[p] # "none"
              /\ owner' = [owner EXCEPT ![n] = "starting"]
              /\ stage' = "starting"
<1>1. Unmade \subseteq Nat /\ Unmade # {}
  BY DEF Unmade, Owners, LaunchOwner
<1>2. PICK m \in Unmade : \A p \in Unmade : <<p, m>> \notin OpToRel(<, Nat)
  BY <1>1, NatLessThanWellFounded, WFMin
<1>3. \A p \in Unmade : m <= p
  <2> SUFFICES ASSUME NEW p \in Unmade PROVE m <= p
    OBVIOUS
  <2>1. p \in Nat /\ m \in Nat
    BY <1>1
  <2>2. ~(p < m)
    BY <1>2, <2>1, Zenon DEF OpToRel
  <2>. QED
    BY <2>1, <2>2
<1> DEFINE n == CHOOSE o \in Unmade : \A p \in Unmade : o <= p
<1>4. n \in Unmade /\ \A p \in Unmade : n <= p
  BY <1>3
<1>5. owner' = [owner EXCEPT ![n] = "starting"] /\ stage' = "starting"
  BY DEF LaunchOwner
<1> HIDE DEF n
<1>6. n \in Owners /\ owner[n] = "none" /\ \A p \in Owners : p < n => owner[p] # "none"
  BY <1>4 DEF Unmade, Owners
<1>. QED
  BY <1>5, <1>6

\* With no session alive a new one may be opened.
LEMMA LaunchKeeps ==
    ASSUME McpTypeOK, InOrder, Backed, OneList, \A o \in Owners : ~Live(o),
           stage # "discover", LaunchOwner, client' = None, UNCHANGED <<queue, serving>>
    PROVE  /\ owner' \in [Owners -> {"none", "starting", "idle", "busy", "leaving", "broken"} \cup Over]
           /\ stage' = "starting" /\ InOrder' /\ OneAlive' /\ Backed' /\ OneList'
           /\ \A o \in Owners : owner'[o] \in Over => owner[o] \in Over
<1>1. PICK n \in Owners :
          /\ owner[n] = "none" /\ \A p \in Owners : p < n => owner[p] # "none"
          /\ owner' = [owner EXCEPT ![n] = "starting"]
          /\ stage' = "starting"
  BY LaunchNext
<1>2. owner' \in [Owners -> {"none", "starting", "idle", "busy", "leaving", "broken"} \cup Over]
  BY <1>1 DEF McpTypeOK
<1>3. /\ \A p \in Owners : owner'[p] = IF p = n THEN "starting" ELSE owner[p]
      /\ \A p \in Owners : p > n => owner[p] = "none"
      /\ Owners \subseteq Nat
  BY <1>1 DEF McpTypeOK, InOrder, Owners
<1>4. InOrder'
  BY <1>1, <1>3 DEF InOrder
<1>5. IsNewest(n)'
  BY <1>1, <1>3 DEF IsNewest
<1>6. OneAlive'
  BY <1>1, <1>3, <1>5 DEF OneAlive, Live, Opening
<1>7. Backed'
  BY <1>1, <1>3, <1>5 DEF Backed, Opening
<1>8. OneList'
  BY <1>1, <1>3 DEF OneList
<1>. QED
  BY <1>1, <1>2, <1>3, <1>4, <1>6, <1>7, <1>8 DEF Over

\* A change in the life of one owner concerns nobody else.
LEMMA LifeChanges ==
    ASSUME McpTypeOK, InOrder, OneAlive, NEW o \in Owners, NEW life,
           owner[o] # "none", life # "none", Live(o) \/ life \in Over,
           owner' = [owner EXCEPT ![o] = life], UNCHANGED client,
           stage' = stage \/ {stage, stage'} \subseteq Opening
    PROVE  /\ InOrder' /\ OneAlive'
           /\ \A p \in Owners : IsNewest(p)' <=> IsNewest(p)
<1>1. \A p \in Owners : owner'[p] = IF p = o THEN life ELSE owner[p]
  BY DEF McpTypeOK
<1>2. InOrder' /\ \A p \in Owners : IsNewest(p)' <=> IsNewest(p)
  BY <1>1 DEF InOrder, IsNewest
<1>3. \A p \in Owners : Live(p)' => Live(p)
  BY <1>1 DEF Live
<1>4. OneAlive'
  <2> SUFFICES ASSUME NEW p \in Owners, Live(p)'
               PROVE  /\ \A q \in Owners : Live(q)' => q = p
                      /\ stage' \in {"none", "closing"} => client' = p
                      /\ stage' \in Opening => IsNewest(p)'
    BY DEF OneAlive
  <2>1. Live(p)
    BY <1>3
  <2>2. /\ \A q \in Owners : Live(q)' => q = p
        /\ stage \in {"none", "closing"} => client = p
        /\ stage \in Opening => IsNewest(p)'
    BY <1>2, <1>3, <2>1 DEF OneAlive
  <2>. QED
    BY <2>2 DEF Opening
<1>. QED
  BY <1>2, <1>4

\* An item other than the request for the tools, put to the owner in the table.
LEMMA PutKeeps ==
    ASSUME McpTypeOK, Backed, OneList, client # None, NEW x \in Items \ {List},
           queue' = [queue EXCEPT ![client] = Append(@, x)],
           UNCHANGED <<client, owner, serving>>,
           stage' = stage \/ (stage = "none" /\ stage' = "closing")
    PROVE  /\ queue' \in [Owners -> Seq(Items)] /\ Backed' /\ OneList'
           /\ \A o \in Owners : ToSet(queue[o]) \subseteq ToSet(queue'[o])
           /\ x \in ToSet(queue'[client])
<1>1. client \in Owners /\ List \in Items /\ queue[client] \in Seq(Items)
  BY DEF McpTypeOK, Items
<1>2. /\ Append(queue[client], x) \in Seq(Items)
      /\ ToSet(Append(queue[client], x)) = ToSet(queue[client]) \cup {x}
      /\ Once(queue[client], List) => Once(Append(queue[client], x), List)
  BY <1>1, AppendItems
<1>3. \A o \in Owners : queue'[o] = IF o = client THEN Append(queue[client], x) ELSE queue[o]
  BY DEF McpTypeOK
<1>4. queue' \in [Owners -> Seq(Items)]
  BY <1>1, <1>2 DEF McpTypeOK
<1>5. Backed'
  BY <1>1, <1>3 DEF Backed, Opening, IsNewest
<1>6. OneList'
  <2> SUFFICES ASSUME NEW o \in Owners
               PROVE  /\ owner'[o] # "busy" => serving'[o] = None
                      /\ serving'[o] = List \/ List \in ToSet(queue'[o])
                             => stage' = "discover" /\ IsNewest(o)'
                      /\ serving'[o] = List => List \notin ToSet(queue'[o])
                      /\ Once(queue'[o], List)
    BY DEF OneList
  <2>1. /\ List \in ToSet(queue'[o]) => List \in ToSet(queue[o])
        /\ Once(queue'[o], List)
    BY <1>1, <1>2, <1>3 DEF OneList
  <2>. QED
    BY <2>1 DEF OneList, IsNewest
<1>. QED
  BY <1>1, <1>2, <1>3, <1>4, <1>5, <1>6

-----------------------------------------------------------------------------
LEMMA McpInitInv == McpInit => McpInv
<1> SUFFICES ASSUME McpInit PROVE McpInv
  OBVIOUS
<1>1. McpTypeOK
  BY McpAssumption DEF McpInit, McpTypeOK, Over, Items
<1>2. InOrder /\ OneAlive /\ Backed /\ Kept
  BY DEF McpInit, InOrder, OneAlive, Live, Backed, Opening, Kept
<1>3. OneList
  BY McpAssumption, NoItems DEF McpInit, OneList
<1>. QED
  BY <1>1, <1>2, <1>3 DEF McpInv

\* Nobody is alive while the lock is free and the table has no client.
LEMMA NoneAlive ==
    ASSUME McpTypeOK, OneAlive, stage \in {"none", "closing"},
           client = None \/ owner[client] \in Over
    PROVE  \A o \in Owners : ~Live(o)
BY DEF OneAlive, Live, Owners, None

\* An owner in use leaves; its queue stays until it ends.
LEMMA LeaveKeeps ==
    ASSUME McpInv, NEW o \in Owners, NEW how \in {"leaving", "broken"}, List # None,
           owner[o] \in {"idle", "busy"}, owner' = [owner EXCEPT ![o] = how],
           serving' = [serving EXCEPT ![o] = None],
           UNCHANGED <<lock, client, stage, op, queue, call, calledAt>>
    PROVE  McpInv'
<1> USE DEF McpInv
<1>1. InOrder' /\ OneAlive' /\ \A p \in Owners : IsNewest(p)' <=> IsNewest(p)
  BY LifeChanges DEF Live, Over
<1>2. /\ \A p \in Owners : owner'[p] = IF p = o THEN how ELSE owner[p]
      /\ \A p \in Owners : serving'[p] = IF p = o THEN None ELSE serving[p]
  BY DEF McpTypeOK
<1>3. McpTypeOK'
  BY DEF McpTypeOK
<1>4. Backed' /\ OneList'
  BY <1>1, <1>2 DEF Backed, Opening, OneList
<1>5. Kept'
  BY <1>2 DEF Kept, Over
<1>. QED
  BY <1>1, <1>3, <1>4, <1>5

LEMMA McpStepInv == McpInv /\ [McpNext]_mcpVars => McpInv'
<1> SUFFICES ASSUME McpInv, [McpNext]_mcpVars PROVE McpInv'
  OBVIOUS
<1> USE DEF McpInv
<1>0. List \in Items /\ Stop \in Items \ {List} /\ List # None /\ ToolCalls \subseteq Items \ {List}
  BY McpAssumption DEF Items
<1>1. ASSUME NEW m \in Managers, Connect(m) PROVE McpInv'
  <2>0. stage = "none" /\ lock' = m /\ op' = "connect" /\ m # Nobody
    BY <1>1, McpAssumption DEF Connect, McpTypeOK
  <2>1. CASE client = None /\ LaunchOwner /\ UNCHANGED queue
    <3>1. \A o \in Owners : ~Live(o)
      BY <2>0, <2>1, NoneAlive
    <3>2. client' = None /\ UNCHANGED <<queue, serving, call, calledAt>>
      BY <1>1, <2>1 DEF Connect
    <3>3. /\ owner' \in [Owners -> {"none", "starting", "idle", "busy", "leaving", "broken"} \cup Over]
          /\ stage' = "starting" /\ InOrder' /\ OneAlive' /\ Backed' /\ OneList'
          /\ \A o \in Owners : owner'[o] \in Over => owner[o] \in Over
      BY <2>0, <2>1, <3>1, <3>2, LaunchKeeps
    <3>4. McpTypeOK'
      BY <2>0, <3>2, <3>3 DEF McpTypeOK
    <3>5. Kept'
      BY <3>2, <3>3 DEF Kept
    <3>. QED
      BY <3>3, <3>4, <3>5
  <2>2. CASE /\ client # None /\ stage' = "closing" /\ UNCHANGED owner
             /\ queue' = [queue EXCEPT ![client] = Append(@, Stop)]
    <3>1. UNCHANGED <<client, owner, serving, call, calledAt>>
      BY <1>1, <2>2 DEF Connect
    <3>2. /\ queue' \in [Owners -> Seq(Items)] /\ Backed' /\ OneList'
          /\ \A o \in Owners : ToSet(queue[o]) \subseteq ToSet(queue'[o])
      BY <1>0, <2>0, <2>2, <3>1, PutKeeps
    <3>3. McpTypeOK'
      BY <2>0, <2>2, <3>1, <3>2 DEF McpTypeOK
    <3>4. InOrder' /\ OneAlive' /\ Kept'
      BY <2>0, <2>2, <3>1, <3>2 DEF InOrder, OneAlive, Live, Opening, Kept
    <3>. QED
      BY <3>2, <3>3, <3>4
  <2>. QED
    BY <1>1, <2>1, <2>2 DEF Connect
<1>2. ASSUME NEW m \in Managers, Disconnect(m) PROVE McpInv'
  <2>0. /\ stage = "none" /\ lock' = m /\ op' = "disconnect" /\ m # Nobody
        /\ client # None /\ stage' = "closing"
        /\ UNCHANGED <<client, owner, serving, call, calledAt>>
    BY <1>2, McpAssumption DEF Disconnect, McpTypeOK
  <2>1. /\ queue' \in [Owners -> Seq(Items)] /\ Backed' /\ OneList'
        /\ \A o \in Owners : ToSet(queue[o]) \subseteq ToSet(queue'[o])
    BY <1>0, <1>2, <2>0, PutKeeps DEF Disconnect
  <2>2. McpTypeOK'
    BY <2>0, <2>1 DEF McpTypeOK
  <2>3. InOrder' /\ OneAlive' /\ Kept'
    BY <2>0, <2>1 DEF InOrder, OneAlive, Live, Opening, Kept
  <2>. QED
    BY <2>1, <2>2, <2>3
<1>3. CASE SessionClosed
  <2>0. /\ stage = "closing" /\ client' = None /\ lock # Nobody
        /\ UNCHANGED <<queue, serving, call, calledAt>>
    BY <1>3 DEF SessionClosed, McpTypeOK
  <2>1. \A o \in Owners : ~Live(o)
    BY <1>3, NoneAlive DEF SessionClosed
  <2>2. CASE LaunchOwner /\ UNCHANGED <<lock, op>>
    <3>1. /\ owner' \in [Owners -> {"none", "starting", "idle", "busy", "leaving", "broken"} \cup Over]
          /\ stage' = "starting" /\ InOrder' /\ OneAlive' /\ Backed' /\ OneList'
          /\ \A o \in Owners : owner'[o] \in Over => owner[o] \in Over
      BY <2>0, <2>1, <2>2, LaunchKeeps
    <3>2. McpTypeOK'
      BY <2>0, <2>2, <3>1 DEF McpTypeOK
    <3>3. Kept'
      BY <2>0, <3>1 DEF Kept
    <3>. QED
      BY <3>1, <3>2, <3>3
  <2>3. CASE ReleaseLock /\ UNCHANGED owner
    <3>1. McpTypeOK'
      BY <2>0, <2>3 DEF ReleaseLock, McpTypeOK
    <3>2. InOrder' /\ OneAlive' /\ Backed' /\ OneList' /\ Kept'
      BY <2>0, <2>1, <2>3 DEF ReleaseLock, InOrder, OneAlive, Live, Backed, Opening, OneList, Kept
    <3>. QED
      BY <3>1, <3>2
  <2>. QED
    BY <1>3, <2>2, <2>3 DEF SessionClosed
<1>4. CASE Started
  <2>0. /\ stage = "starting" /\ stage' = "discover"
        /\ UNCHANGED <<lock, client, op, owner, serving, call, calledAt>>
    BY <1>4 DEF Started
  <2>1. PICK n \in Owners : IsNewest(n)
    BY <2>0 DEF Backed, Opening
  <2>2. Newest = n /\ \A p \in Owners : IsNewest(p) => p = n
    BY <2>1, NewestUnique
  <2>3. /\ owner[n] \notin {"none", "starting"}
        /\ queue' = [queue EXCEPT ![n] = Append(@, List)]
    BY <1>4, <2>1, <2>2 DEF Started, IsNewest
  <2>4. \A o \in Owners : serving[o] # List /\ List \notin ToSet(queue[o])
    BY <2>0 DEF OneList
  <2>5. /\ Append(queue[n], List) \in Seq(Items)
        /\ ToSet(Append(queue[n], List)) = ToSet(queue[n]) \cup {List}
        /\ Once(Append(queue[n], List), List)
    BY <1>0, <2>4, AppendItems DEF McpTypeOK, OneList
  <2>6. \A o \in Owners : queue'[o] = IF o = n THEN Append(queue[n], List) ELSE queue[o]
    BY <2>3 DEF McpTypeOK
  <2>7. McpTypeOK'
    BY <2>0, <2>3, <2>5 DEF McpTypeOK
  <2>8. InOrder' /\ OneAlive' /\ Kept'
    BY <2>0, <2>5, <2>6 DEF InOrder, OneAlive, Live, Opening, IsNewest, Kept
  <2>9. Backed'
    BY <2>0, <2>1, <2>2, <2>3, <2>6 DEF Backed, Opening, IsNewest
  <2>10. OneList'
    <3> SUFFICES ASSUME NEW o \in Owners
                 PROVE  /\ owner'[o] # "busy" => serving'[o] = None
                        /\ serving'[o] = List \/ List \in ToSet(queue'[o])
                               => stage' = "discover" /\ IsNewest(o)'
                        /\ serving'[o] = List => List \notin ToSet(queue'[o])
                        /\ Once(queue'[o], List)
      BY DEF OneList
    <3>. QED
      BY <2>0, <2>1, <2>4, <2>5, <2>6 DEF OneList, IsNewest
  <2>. QED
    BY <2>7, <2>8, <2>9, <2>10
<1>5. CASE StartFails
  <2>0. /\ stage = "starting" /\ stage' = "none" /\ lock' = Nobody /\ op' = "none" /\ client = None
        /\ UNCHANGED <<client, owner, queue, serving, call, calledAt>>
    BY <1>5 DEF StartFails, ReleaseLock, McpTypeOK
  <2>1. \A o \in Owners : ~Live(o)
    BY <1>5, <2>0, NewestUnique DEF StartFails, OneAlive, Live, Opening, Over
  <2>2. McpTypeOK'
    BY <2>0 DEF McpTypeOK
  <2>3. InOrder' /\ OneAlive' /\ Backed' /\ OneList' /\ Kept'
    BY <2>0, <2>1 DEF InOrder, OneAlive, Live, Backed, Opening, OneList, Kept
  <2>. QED
    BY <2>2, <2>3
<1>6. CASE Discovered
  <2>0. /\ stage = "discovered" /\ stage' = "none" /\ lock' = Nobody /\ op' = "none"
        /\ UNCHANGED <<owner, queue, serving, call, calledAt>>
    BY <1>6 DEF Discovered, ReleaseLock
  <2>1. PICK n \in Owners : IsNewest(n)
    BY <2>0 DEF Backed, Opening
  <2>2. client' = n /\ \A p \in Owners : IsNewest(p) => p = n
    BY <1>6, <2>1, NewestUnique DEF Discovered
  <2>3. McpTypeOK'
    BY <2>0, <2>2 DEF McpTypeOK
  <2>4. OneAlive' /\ Backed'
    BY <2>0, <2>1, <2>2 DEF OneAlive, Live, Backed, Opening, IsNewest
  <2>5. InOrder' /\ OneList' /\ Kept'
    BY <2>0 DEF InOrder, OneList, Kept
  <2>. QED
    BY <2>3, <2>4, <2>5
<1>7. ASSUME NEW o \in Owners, Ready(o) PROVE McpInv'
  <2>0. /\ owner[o] = "starting" /\ owner' = [owner EXCEPT ![o] = "idle"]
        /\ UNCHANGED <<lock, client, stage, op, queue, serving, call, calledAt>>
    BY <1>7 DEF Ready
  <2>1. InOrder' /\ OneAlive' /\ \A p \in Owners : IsNewest(p)' <=> IsNewest(p)
    BY <2>0, LifeChanges DEF Live, Over
  <2>2. \A p \in Owners : owner'[p] = IF p = o THEN "idle" ELSE owner[p]
    BY <2>0 DEF McpTypeOK
  <2>3. McpTypeOK'
    BY <2>0 DEF McpTypeOK
  <2>4. Backed' /\ OneList' /\ Kept'
    BY <2>0, <2>1, <2>2 DEF Backed, Opening, OneList, Kept, Over, McpTypeOK
  <2>. QED
    BY <2>1, <2>3, <2>4
<1>8. ASSUME NEW o \in Owners, NotReady(o) PROVE McpInv'
  <2>0. /\ owner[o] = "starting" /\ owner' = [owner EXCEPT ![o] = "failed"]
        /\ UNCHANGED <<lock, client, stage, op, queue, serving, call, calledAt>>
    BY <1>8 DEF NotReady
  <2>1. InOrder' /\ OneAlive' /\ \A p \in Owners : IsNewest(p)' <=> IsNewest(p)
    BY <2>0, LifeChanges DEF Live, Over
  <2>2. \A p \in Owners : owner'[p] = IF p = o THEN "failed" ELSE owner[p]
    BY <2>0 DEF McpTypeOK
  <2>3. McpTypeOK'
    BY <2>0 DEF McpTypeOK, Over
  <2>4. Backed' /\ OneList'
    BY <2>0, <2>1, <2>2 DEF Backed, Opening, OneList, McpTypeOK
  <2>5. Kept'
    <3>1. ToSet(queue[o]) = {}
      BY <2>0, NoItems DEF Backed
    <3>. QED
      BY <2>0, <2>2, <3>1 DEF Kept
  <2>. QED
    BY <2>1, <2>3, <2>4, <2>5
<1>9. ASSUME NEW o \in Owners, SessionBreaks(o) PROVE McpInv'
  <2>0. /\ owner[o] \in {"idle", "busy"} /\ owner' = [owner EXCEPT ![o] = "broken"]
        /\ serving' = [serving EXCEPT ![o] = None]
        /\ UNCHANGED <<lock, client, stage, op, queue, call, calledAt>>
    BY <1>9 DEF SessionBreaks, Leave
  <2>. QED
    BY <1>0, <2>0, LeaveKeeps
<1>10. ASSUME NEW o \in Owners, TakeRequest(o) PROVE McpInv'
  <2>0. /\ owner[o] = "idle" /\ queue[o] # <<>>
        /\ queue' = [queue EXCEPT ![o] = Tail(@)]
        /\ serving' = [serving EXCEPT ![o] = Head(queue[o])]
        /\ owner' = [owner EXCEPT ![o] = "busy"]
        /\ call' = [c \in ToolCalls |-> IF c = Head(queue[o]) /\ call[c] = "queued"
                                        THEN "running" ELSE call[c]]
        /\ UNCHANGED <<lock, client, stage, op, calledAt>>
    BY <1>10 DEF TakeRequest
  <2>1. InOrder' /\ OneAlive' /\ \A p \in Owners : IsNewest(p)' <=> IsNewest(p)
    BY <2>0, LifeChanges DEF Live, Over
  <2>2. /\ Head(queue[o]) \in Items /\ Tail(queue[o]) \in Seq(Items)
        /\ ToSet(queue[o]) = {Head(queue[o])} \cup ToSet(Tail(queue[o]))
        /\ Once(queue[o], List) => Once(Tail(queue[o]), List)
        /\ Once(queue[o], List) /\ Head(queue[o]) = List => List \notin ToSet(Tail(queue[o]))
    BY <2>0, TailItems DEF McpTypeOK
  <2>3. /\ \A p \in Owners : owner'[p] = IF p = o THEN "busy" ELSE owner[p]
        /\ \A p \in Owners : queue'[p] = IF p = o THEN Tail(queue[o]) ELSE queue[p]
        /\ \A p \in Owners : serving'[p] = IF p = o THEN Head(queue[o]) ELSE serving[p]
    BY <2>0 DEF McpTypeOK
  <2>4. McpTypeOK'
    BY <2>0, <2>2 DEF McpTypeOK
  <2>5. Backed'
    BY <2>0, <2>1, <2>3 DEF Backed, Opening
  <2>6. OneList'
    BY <2>0, <2>1, <2>2, <2>3 DEF OneList
  <2>7. Kept'
    BY <2>0, <2>2, <2>3 DEF Kept, Over, McpTypeOK
  <2>. QED
    BY <2>1, <2>4, <2>5, <2>6, <2>7
<1>11. ASSUME NEW o \in Owners, TakeStop(o) PROVE McpInv'
  <2>0. /\ owner[o] = "idle" /\ queue[o] # <<>> /\ Head(queue[o]) = Stop
        /\ queue' = [queue EXCEPT ![o] = Tail(@)]
        /\ owner' = [owner EXCEPT ![o] = "leaving"]
        /\ serving' = [serving EXCEPT ![o] = None]
        /\ UNCHANGED <<lock, client, stage, op, call, calledAt>>
    BY <1>11 DEF TakeStop, Leave
  <2>1. InOrder' /\ OneAlive' /\ \A p \in Owners : IsNewest(p)' <=> IsNewest(p)
    BY <2>0, LifeChanges DEF Live, Over
  <2>2. /\ Tail(queue[o]) \in Seq(Items)
        /\ ToSet(queue[o]) = {Stop} \cup ToSet(Tail(queue[o]))
        /\ Once(queue[o], List) => Once(Tail(queue[o]), List)
    BY <2>0, TailItems DEF McpTypeOK
  <2>3. /\ \A p \in Owners : owner'[p] = IF p = o THEN "leaving" ELSE owner[p]
        /\ \A p \in Owners : queue'[p] = IF p = o THEN Tail(queue[o]) ELSE queue[p]
        /\ \A p \in Owners : serving'[p] = IF p = o THEN None ELSE serving[p]
    BY <2>0 DEF McpTypeOK
  <2>4. McpTypeOK'
    BY <2>0, <2>2 DEF McpTypeOK
  <2>5. Backed'
    BY <2>0, <2>1, <2>3 DEF Backed, Opening
  <2>6. OneList'
    BY <1>0, <2>0, <2>1, <2>2, <2>3 DEF OneList
  <2>7. Kept'
    <3>1. Stop \notin ToolCalls
      BY McpAssumption
    <3>. QED
      BY <2>0, <2>2, <2>3, <3>1 DEF Kept, Over
  <2>. QED
    BY <2>1, <2>4, <2>5, <2>6, <2>7
<1>12. ASSUME NEW o \in Owners, Reply(o) PROVE McpInv'
  <2>0. /\ owner[o] = "busy" /\ owner' = [owner EXCEPT ![o] = "idle"]
        /\ serving' = [serving EXCEPT ![o] = None]
        /\ stage' = IF serving[o] = List THEN "discovered" ELSE stage
        /\ UNCHANGED <<lock, client, op, queue, calledAt>>
    BY <1>12 DEF Reply
  <2>1. PICK how \in {"answered", "error"} :
            call' = [c \in ToolCalls |-> IF c = serving[o] /\ call[c] = "running"
                                         THEN how ELSE call[c]]
    BY <1>12 DEF Reply
  <2>2. serving[o] = List => stage = "discover" /\ IsNewest(o) /\ List \notin ToSet(queue[o])
    BY DEF OneList
  <2>3. InOrder' /\ OneAlive' /\ \A p \in Owners : IsNewest(p)' <=> IsNewest(p)
    BY <2>0, <2>2, LifeChanges DEF Live, Over, Opening
  <2>4. /\ \A p \in Owners : owner'[p] = IF p = o THEN "idle" ELSE owner[p]
        /\ \A p \in Owners : serving'[p] = IF p = o THEN None ELSE serving[p]
    BY <2>0 DEF McpTypeOK
  <2>5. McpTypeOK'
    BY <2>0, <2>1, <2>2 DEF McpTypeOK
  <2>6. Backed'
    BY <2>0, <2>2, <2>3, <2>4 DEF Backed, Opening
  <2>7. OneList'
    <3>1. CASE serving[o] = List
      <4>1. \A p \in Owners : IsNewest(p) => p = o
        BY <2>2, <3>1, NewestUnique
      <4>2. \A p \in Owners : serving'[p] # List /\ List \notin ToSet(queue'[p])
        BY <1>0, <2>0, <2>2, <2>4, <3>1, <4>1 DEF OneList
      <4>. QED
        BY <2>0, <2>4, <4>2 DEF OneList
    <3>2. CASE serving[o] # List
      BY <1>0, <2>0, <2>3, <2>4, <3>2 DEF OneList
    <3>. QED
      BY <3>1, <3>2
  <2>8. Kept'
    BY <2>0, <2>1, <2>4 DEF Kept, Over
  <2>. QED
    BY <2>3, <2>5, <2>6, <2>7, <2>8
<1>13. ASSUME NEW o \in Owners, EndOwner(o) PROVE McpInv'
  <2> DEFINE life == IF owner[o] = "broken" THEN "failed" ELSE "ended"
  <2>0. /\ owner[o] \in {"leaving", "broken"} /\ owner' = [owner EXCEPT ![o] = life]
        /\ queue' = [queue EXCEPT ![o] = <<>>]
        /\ call' = [c \in ToolCalls |-> IF c \in ToSet(queue[o]) /\ call[c] = "queued"
                                        THEN "error" ELSE call[c]]
        /\ stage' = IF List \in ToSet(queue[o]) THEN "discovered" ELSE stage
        /\ UNCHANGED <<lock, client, op, serving, calledAt>>
    BY <1>13 DEF EndOwner
  <2>1. life \in Over /\ life # "none" /\ life # "busy" /\ life # "starting"
    BY DEF Over
  <2> HIDE DEF life
  <2>2. /\ List \in ToSet(queue[o]) => stage = "discover" /\ IsNewest(o)
        /\ serving[o] = None
    BY <2>0 DEF OneList
  <2>3. InOrder' /\ OneAlive' /\ \A p \in Owners : IsNewest(p)' <=> IsNewest(p)
    BY <2>0, <2>1, <2>2, LifeChanges DEF Opening
  <2>4. /\ \A p \in Owners : owner'[p] = IF p = o THEN life ELSE owner[p]
        /\ \A p \in Owners : queue'[p] = IF p = o THEN <<>> ELSE queue[p]
    BY <2>0 DEF McpTypeOK
  <2>5. McpTypeOK'
    BY <2>0, <2>1, <2>2 DEF McpTypeOK
  <2>6. Backed'
    BY <2>0, <2>1, <2>2, <2>3, <2>4 DEF Backed, Opening
  <2>7. OneList'
    <3>1. CASE List \in ToSet(queue[o])
      <4>1. \A p \in Owners : IsNewest(p) => p = o
        BY <2>2, <3>1, NewestUnique
      <4>2. \A p \in Owners : serving'[p] # List /\ List \notin ToSet(queue'[p])
        BY <1>0, <2>0, <2>2, <2>4, <4>1, NoItems DEF OneList
      <4>. QED
        BY <2>0, <2>2, <2>4, <4>2, NoItems DEF OneList
    <3>2. CASE List \notin ToSet(queue[o])
      BY <1>0, <2>0, <2>1, <2>2, <2>3, <2>4, <3>2, NoItems DEF OneList
    <3>. QED
      BY <3>1, <3>2
  <2>8. Kept'
    BY <2>0, <2>1, <2>4 DEF Kept
  <2>. QED
    BY <2>3, <2>5, <2>6, <2>7, <2>8
<1>14. CASE CloseTimesOut
  <2>0. /\ owner[client] \in {"idle", "busy"} /\ owner' = [owner EXCEPT ![client] = "leaving"]
        /\ serving' = [serving EXCEPT ![client] = None] /\ client \in Owners
        /\ UNCHANGED <<lock, client, stage, op, queue, call, calledAt>>
    BY <1>14 DEF CloseTimesOut, Leave, Backed, McpTypeOK
  <2>. QED
    BY <1>0, <2>0, LeaveKeeps
<1>15. ASSUME NEW c \in ToolCalls, CallTool(c) PROVE McpInv'
  <2>0. call[c] = "unmade" /\ UNCHANGED <<lock, client, stage, op, owner, serving>>
    BY <1>15 DEF CallTool
  <2>1. CASE client = None /\ call' = [call EXCEPT ![c] = "error"] /\ UNCHANGED <<queue, calledAt>>
    <3>1. McpTypeOK'
      BY <2>0, <2>1 DEF McpTypeOK
    <3>. QED
      BY <2>0, <2>1, <3>1 DEF InOrder, OneAlive, Live, Opening, IsNewest, Backed, OneList, Kept, McpTypeOK
  <2>2. CASE /\ client # None
             /\ queue' = [queue EXCEPT ![client] = Append(@, c)]
             /\ call' = [call EXCEPT ![c] = IF owner[client] \in Over THEN "late" ELSE "queued"]
             /\ calledAt' = [calledAt EXCEPT ![c] = client]
    <3>1. /\ queue' \in [Owners -> Seq(Items)] /\ Backed' /\ OneList'
          /\ \A o \in Owners : ToSet(queue[o]) \subseteq ToSet(queue'[o])
          /\ c \in ToSet(queue'[client])
      BY <1>0, <2>0, <2>2, PutKeeps
    <3>2. client \in Owners
      BY <2>2 DEF McpTypeOK
    <3>3. McpTypeOK'
      BY <2>0, <2>2, <3>1, <3>2 DEF McpTypeOK
    <3>4. InOrder' /\ OneAlive'
      BY <2>0 DEF InOrder, OneAlive, Live, Opening, IsNewest
    <3>5. Kept'
      BY <2>0, <2>2, <3>1, <3>2 DEF Kept, McpTypeOK
    <3>. QED
      BY <3>1, <3>3, <3>4, <3>5
  <2>. QED
    BY <1>15, <2>1, <2>2 DEF CallTool
<1>16. ASSUME NEW c \in ToolCalls, CallTimesOut(c) PROVE McpInv'
  <2>0. /\ call' = [call EXCEPT ![c] = "timeout"]
        /\ UNCHANGED <<lock, client, stage, op, owner, queue, serving, calledAt>>
    BY <1>16 DEF CallTimesOut
  <2>1. McpTypeOK'
    BY <2>0 DEF McpTypeOK
  <2>. QED
    BY <2>0, <2>1 DEF InOrder, OneAlive, Live, Opening, IsNewest, Backed, OneList, Kept, McpTypeOK
<1>17. CASE UNCHANGED mcpVars
  BY <1>17 DEF mcpVars, McpTypeOK, InOrder, OneAlive, Live, Opening, IsNewest, Backed, OneList, Kept
<1>. QED
  BY <1>1, <1>2, <1>3, <1>4, <1>5, <1>6, <1>7, <1>8, <1>9, <1>10, <1>11, <1>12, <1>13,
     <1>14, <1>15, <1>16, <1>17 DEF McpNext

-----------------------------------------------------------------------------
\* The strengthened invariant of the connection.
THEOREM McpInvariant == McpSpec => []McpInv
<1>. QED
  BY McpInitInv, McpStepInv, PTL DEF McpSpec

\* The connection keeps its types.
THEOREM McpTypeSafety == McpSpec => []McpTypeOK
<1>1. McpInv => McpTypeOK
  BY DEF McpInv
<1>. QED
  BY <1>1, McpInvariant, PTL

\* No session is forgotten while it lives, for any number of requests that
\* connect and disconnect in parallel.
THEOREM OneSession == McpSpec => []OneLiveOwner
<1>1. McpInv => OneLiveOwner
  BY DEF McpInv, McpTypeOK, OneAlive, Live, OneLiveOwner
<1>. QED
  BY <1>1, McpInvariant, PTL

\* No call that was queued with a living owner is left behind.
THEOREM CallsAreKept == McpSpec => []NoCallLeftBehind
<1>1. McpInv => NoCallLeftBehind
  BY DEF McpInv, Kept, NoCallLeftBehind
<1>. QED
  BY <1>1, McpInvariant, PTL
=============================================================================
