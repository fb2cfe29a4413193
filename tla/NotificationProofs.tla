--------------------------- MODULE NotificationProofs ---------------------------
(***************************************************************************)
(* Proofs about the notifications, for any number of events, keys, users,  *)
(* failures and restarts, and any window: the events of one key that are   *)
(* mailed have claimed it a window apart; and the books of the digest.     *)
(***************************************************************************)
EXTENDS Notifications, TLAPS

\* A call knows its key once it has begun, has no line before it has queued one
\* and no mail before it has sent one.
Stepped ==
    \A c \in NotifyCalls :
        /\ step[c] = "idle" => line[c] = "none" /\ c \notin mailed
        /\ step[c] = "enqueue" => line[c] = "none" /\ key[c] \in DigestKeys
        /\ step[c] # "idle" => key[c] \in DedupKeys

\* Who has the right to a mail, delivered or not, holds a claim of its own: the
\* row lasts as long as the latest of them, and they lie a window apart.
Claimed(c) == c \in mailed \/ step[c] = "send"

Spaced ==
    /\ \A c \in NotifyCalls : Claimed(c) => at[c] + Window <= expires[key[c]]
    /\ \A c, d \in NotifyCalls :
          Claimed(c) /\ Claimed(d) /\ c # d /\ key[c] = key[d] =>
              at[c] >= at[d] + Window \/ at[d] >= at[c] + Window

\* A pass has a user to serve, whose lines are still pending; between mail and
\* mark, the lines of its user have been delivered.
Busy          == pass.stage \in {"send", "mark"}
JustMailed(c) == pass.stage = "mark" /\ c \in LinesOf(Turn, pass.lines)

PassInv ==
    Busy => /\ pass.todo # {}
            /\ \A c \in pass.lines :
                  /\ line[c] # "none"
                  /\ Recipient[key[c]] \in pass.todo => line[c] = "pending"
            /\ \A c \in pass.lines : JustMailed(c) => copies[c] > 0

\* A copy of a line is its only delivery, or it took a mishap.
Books ==
    \A c \in NotifyCalls :
        /\ line[c] = "none" => copies[c] = 0
        /\ line[c] = "sent" => copies[c] > 0
        /\ copies[c] <= mishaps + IF line[c] = "sent" \/ JustMailed(c) THEN 1 ELSE 0

NotifyInv == NotifyTypeOK /\ Stepped /\ Spaced /\ PassInv /\ Books

LEMMA NotifyInitInv == NotifyInit => NotifyInv
<1> SUFFICES ASSUME NotifyInit PROVE NotifyInv
  OBVIOUS
<1>1. NotifyTypeOK
  BY NotifyAssumption DEF NotifyInit, NotifyTypeOK
<1>2. Stepped /\ Spaced
  BY DEF NotifyInit, Stepped, Spaced, Claimed
<1>3. PassInv /\ Books
  BY DEF NotifyInit, PassInv, Books, Busy, JustMailed, Resting
<1>. QED
  BY <1>1, <1>2, <1>3 DEF NotifyInv

-----------------------------------------------------------------------------
(* Claims and mails *)

LEMMA SteppedStep == NotifyTypeOK /\ Stepped /\ PassInv /\ [NotifyNext]_notifyVars => Stepped'
<1> SUFFICES ASSUME NotifyTypeOK, Stepped, PassInv, [NotifyNext]_notifyVars PROVE Stepped'
  OBVIOUS
<1> USE NotifyAssumption DEF NotifyTypeOK, Stepped
<1>1. ASSUME NEW c \in NotifyCalls, NEW k \in DedupKeys, Notify(c, k) PROVE Stepped'
  BY <1>1 DEF Notify, DedupKeys
<1>2. ASSUME NEW c \in NotifyCalls, SendMail(c) \/ Enqueue(c) \/ NotifyFails(c) PROVE Stepped'
  BY <1>2 DEF SendMail, Enqueue, NotifyFails
<1>3. CASE MarkDigest
  BY <1>3 DEF MarkDigest, LinesOf, PassInv, Busy
<1>4. CASE NotifyRestart
  BY <1>4 DEF NotifyRestart
<1>5. CASE Tick \/ StartPass \/ SendDigest \/ MarkFails \/ UNCHANGED notifyVars
  BY <1>5 DEF Tick, StartPass, SendDigest, MarkFails, notifyVars
<1>. QED
  BY <1>1, <1>2, <1>3, <1>4, <1>5 DEF NotifyNext

LEMMA SpacedStep == NotifyTypeOK /\ Stepped /\ Spaced /\ [NotifyNext]_notifyVars => Spaced'
<1> SUFFICES ASSUME NotifyTypeOK, Stepped, Spaced, [NotifyNext]_notifyVars PROVE Spaced'
  OBVIOUS
<1> USE NotifyAssumption DEF NotifyTypeOK, Claimed
<1>1. ASSUME NEW c \in NotifyCalls, NEW k \in DedupKeys, Notify(c, k) PROVE Spaced'
  <2>1. ~Claimed(c) /\ \A d \in NotifyCalls : d # c => key'[d] = key[d]
    BY <1>1 DEF Notify, Stepped
  <2>2. CASE step'[c] = "over"
    <3>1. \A d \in NotifyCalls : Claimed(d)' => d # c /\ Claimed(d)
      BY <1>1, <2>1, <2>2 DEF Notify
    <3>2. UNCHANGED <<expires, at>>
      BY <1>1, <2>2 DEF Notify
    <3>. QED
      BY <2>1, <3>1, <3>2 DEF Spaced
  <2>3. CASE step'[c] # "over"
    <3>1. PICK now \in 0..clock :
             /\ expires[k] <= now /\ expires' = [expires EXCEPT ![k] = now + Window]
             /\ at' = [at EXCEPT ![c] = now] /\ key'[c] = k
      BY <1>1, <2>3 DEF Notify
    <3>2. \A d \in NotifyCalls : d # c /\ Claimed(d)' => Claimed(d) /\ at'[d] = at[d]
      BY <1>1, <3>1 DEF Notify
    <3>3. \A d \in NotifyCalls : Claimed(d) => key[d] \in DedupKeys
      BY DEF Stepped
    <3>4. ASSUME NEW d \in NotifyCalls, Claimed(d)' PROVE at'[d] + Window <= expires'[key'[d]]
      BY <2>1, <3>1, <3>2, <3>3, <3>4 DEF Spaced
    <3>5. ASSUME NEW d \in NotifyCalls, d # c, Claimed(d)', key'[d] = k
          PROVE  at'[c] >= at'[d] + Window
      BY <2>1, <3>1, <3>2, <3>3, <3>5 DEF Spaced
    <3>. QED
      BY <2>1, <3>1, <3>2, <3>4, <3>5 DEF Spaced
  <2>. QED
    BY <2>2, <2>3
<1>2. ASSUME UNCHANGED <<expires, key, at>>, \A c \in NotifyCalls : Claimed(c)' => Claimed(c)
      PROVE  Spaced'
  BY <1>2 DEF Spaced
<1>3. ASSUME NEW c \in NotifyCalls, SendMail(c) \/ Enqueue(c) \/ NotifyFails(c) PROVE Spaced'
  BY <1>2, <1>3 DEF SendMail, Enqueue, NotifyFails
<1>4. CASE NotifyRestart
  BY <1>2, <1>4 DEF NotifyRestart
<1>5. CASE \/ Tick \/ StartPass \/ SendDigest \/ MarkDigest \/ MarkFails
           \/ UNCHANGED notifyVars
  BY <1>2, <1>5 DEF Tick, StartPass, SendDigest, MarkDigest, MarkFails, notifyVars
<1>. QED
  BY <1>1, <1>3, <1>4, <1>5 DEF NotifyNext

-----------------------------------------------------------------------------
(* The digest *)

LEMMA BusyType ==
    ASSUME NotifyTypeOK, PassInv, Busy
    PROVE  pass \in Passes /\ Turn \in pass.todo
<1>1. pass \in Passes
  BY DEF NotifyTypeOK, Busy, Resting
<1>2. Turn \in pass.todo
  BY DEF PassInv, Turn
<1>. QED
  BY <1>1, <1>2

\* The pass without the user it has served.
LEMMA OnwardPass ==
    ASSUME NotifyTypeOK, PassInv, Busy, pass' = Onward
    PROVE  \/ pass' = Resting
           \/ /\ pass' \in Passes /\ pass'.stage = "send" /\ pass'.lines = pass.lines
              /\ pass'.todo = pass.todo \ {Turn} /\ pass'.todo # {}
BY BusyType DEF Onward, Passes

LEMMA PassStep == NotifyTypeOK /\ Stepped /\ PassInv /\ Books /\ [NotifyNext]_notifyVars => PassInv'
<1> SUFFICES ASSUME NotifyTypeOK, Stepped, PassInv, Books, [NotifyNext]_notifyVars PROVE PassInv'
  OBVIOUS
<1> USE NotifyAssumption DEF NotifyTypeOK
<1>1. ASSUME UNCHANGED <<copies, pass>>,
             Busy => \A c \in pass.lines : key'[c] = key[c] /\ line'[c] = line[c]
      PROVE  PassInv'
  <2>1. Busy' = Busy /\ Turn' = Turn
    BY <1>1 DEF Busy, Turn
  <2>2. ASSUME Busy, NEW c \in pass.lines, JustMailed(c)' PROVE JustMailed(c)
    BY <1>1, <2>1, <2>2 DEF JustMailed, LinesOf
  <2>. QED
    BY <1>1, <2>1, <2>2 DEF PassInv
<1>2. Busy => \A c \in pass.lines : c \in NotifyCalls /\ step[c] \in {"send", "over"}
  BY BusyType DEF PassInv, Stepped, Passes
<1>3. ASSUME NEW c \in NotifyCalls, NEW k \in DedupKeys, Notify(c, k) PROVE PassInv'
  BY <1>1, <1>2, <1>3 DEF Notify
<1>4. ASSUME NEW c \in NotifyCalls, SendMail(c) \/ Enqueue(c) \/ NotifyFails(c) PROVE PassInv'
  BY <1>1, <1>2, <1>4 DEF SendMail, Enqueue, NotifyFails
<1>5. CASE StartPass
  <2> DEFINE pending == {c \in NotifyCalls : line[c] = "pending"}
  <2>1. /\ pass'.stage = "send" /\ pass'.lines = pending /\ line' = line /\ key' = key
        /\ pass'.todo = {Recipient[key[c]] : c \in pending} /\ pending # {}
    BY <1>5 DEF StartPass
  <2>2. pass'.todo # {}
    <3>1. PICK c \in pending : TRUE
      BY <2>1
    <3> HIDE DEF pending
    <3>2. Recipient[key[c]] \in {Recipient[key[d]] : d \in pending}
      BY <3>1
    <3>. QED
      BY <2>1, <3>2
  <2>. QED
    BY <2>1, <2>2 DEF PassInv, JustMailed
<1>6. ASSUME pass' = Onward, Busy, key' = key,
             \A c \in pass.lines : line'[c] # "none",
             \A c \in pass.lines : Recipient[key[c]] # Turn => line'[c] = line[c]
      PROVE  PassInv'
  <2>1. CASE pass' = Resting
    BY <2>1 DEF PassInv, Busy, Resting
  <2>2. CASE /\ pass'.stage = "send" /\ pass'.lines = pass.lines
             /\ pass'.todo = pass.todo \ {Turn} /\ pass'.todo # {}
    <3>1. \A c \in pass.lines : Recipient[key[c]] \in pass.todo \ {Turn} => line'[c] = "pending"
      BY <1>6 DEF PassInv
    <3>. QED
      BY <1>6, <2>2, <3>1 DEF PassInv, JustMailed
  <2>. QED
    BY <1>6, <2>1, <2>2, OnwardPass
<1>7. CASE SendDigest
  <2>1. CASE pass' = Onward
    BY <1>6, <1>7, <2>1 DEF SendDigest, Busy, PassInv
  <2>2. CASE /\ pass' = [pass EXCEPT !.stage = "mark"]
             /\ copies' = [c \in NotifyCalls |-> copies[c]
                              + IF c \in LinesOf(Turn, pass.lines) THEN 1 ELSE 0]
    <3>1. /\ pass'.stage = "mark" /\ pass'.lines = pass.lines /\ pass'.todo = pass.todo
          /\ line' = line /\ key' = key /\ Busy /\ pass \in Passes
      BY <1>7, <2>2, BusyType DEF SendDigest, Busy, Passes
    <3>2. Turn' = Turn
      BY <3>1 DEF Turn
    <3>3. \A c \in pass.lines : JustMailed(c)' => copies'[c] > 0
      BY <2>2, <3>1, <3>2 DEF JustMailed, LinesOf, Passes
    <3>. QED
      BY <3>1, <3>3 DEF PassInv
  <2>. QED
    BY <1>7, <2>1, <2>2 DEF SendDigest
<1>8. CASE MarkDigest
  <2>1. pass.lines \subseteq NotifyCalls
    BY <1>8, BusyType DEF MarkDigest, Busy, Passes
  <2>. QED
    BY <1>6, <1>8, <2>1 DEF MarkDigest, Busy, PassInv, LinesOf
<1>9. CASE MarkFails \/ NotifyRestart
  BY <1>9 DEF MarkFails, NotifyRestart, PassInv, Busy, Resting
<1>10. CASE Tick \/ UNCHANGED notifyVars
  BY <1>1, <1>10 DEF Tick, notifyVars
<1>. QED
  BY <1>3, <1>4, <1>5, <1>7, <1>8, <1>9, <1>10 DEF NotifyNext

LEMMA BooksStep == NotifyTypeOK /\ Stepped /\ PassInv /\ Books /\ [NotifyNext]_notifyVars => Books'
<1> SUFFICES ASSUME NotifyTypeOK, Stepped, PassInv, Books, [NotifyNext]_notifyVars PROVE Books'
  OBVIOUS
<1> USE NotifyAssumption DEF NotifyTypeOK
<1>0. /\ \A c \in NotifyCalls : JustMailed(c) => copies[c] > 0 /\ line[c] = "pending"
      /\ \A c \in NotifyCalls : c \in LinesOf(Turn, pass.lines) /\ Busy => line[c] = "pending"
  BY BusyType DEF JustMailed, Busy, PassInv, LinesOf
<1>1. ASSUME UNCHANGED copies, mishaps' >= mishaps, mishaps' \in Nat,
             \A c \in NotifyCalls : JustMailed(c) => JustMailed(c)' \/ mishaps' > mishaps,
             \A c \in NotifyCalls : line'[c] = line[c] \/ (line[c] = "none" /\ line'[c] = "pending")
      PROVE  Books'
  BY <1>1 DEF Books
<1>2. ASSUME UNCHANGED <<copies, pass, mishaps, line>>,
             \A c \in NotifyCalls : line[c] # "none" => key'[c] = key[c]
      PROVE  Books'
  <2>1. Turn' = Turn
    BY <1>2 DEF Turn
  <2>2. \A c \in NotifyCalls : JustMailed(c) => JustMailed(c)'
    BY <1>0, <1>2, <2>1 DEF JustMailed, LinesOf
  <2>. QED
    BY <1>1, <1>2, <2>2
<1>3. ASSUME UNCHANGED <<copies, pass, key>>, mishaps' >= mishaps, mishaps' \in Nat,
             \A c \in NotifyCalls : line'[c] = line[c] \/ (line[c] = "none" /\ line'[c] = "pending")
      PROVE  Books'
  <2>1. Turn' = Turn
    BY <1>3 DEF Turn
  <2>2. \A c \in NotifyCalls : JustMailed(c) => JustMailed(c)'
    BY <1>3, <2>1 DEF JustMailed, LinesOf
  <2>. QED
    BY <1>1, <1>3, <2>2
<1>4. ASSUME NEW c \in NotifyCalls, NEW k \in DedupKeys, Notify(c, k) PROVE Books'
  BY <1>2, <1>4 DEF Notify, Stepped
<1>5. ASSUME NEW c \in NotifyCalls, SendMail(c) \/ Enqueue(c) \/ NotifyFails(c) PROVE Books'
  BY <1>3, <1>5 DEF SendMail, Enqueue, NotifyFails, Mishap, Stepped
<1>6. CASE StartPass
  BY <1>1, <1>6 DEF StartPass, JustMailed, Resting
<1>7. CASE SendDigest
  <2>0. ~(pass.stage = "mark") /\ Busy /\ line' = line
    BY <1>7 DEF SendDigest, Busy
  <2>1. CASE UNCHANGED copies
    BY <1>1, <1>7, <2>0, <2>1 DEF SendDigest, Mishap, JustMailed
  <2>2. CASE /\ copies' = [c \in NotifyCalls |-> copies[c]
                              + IF c \in LinesOf(Turn, pass.lines) THEN 1 ELSE 0]
             /\ mishaps' = mishaps + 1
    BY <1>0, <2>0, <2>2 DEF Books, JustMailed
  <2>3. CASE /\ copies' = [c \in NotifyCalls |-> copies[c]
                              + IF c \in LinesOf(Turn, pass.lines) THEN 1 ELSE 0]
             /\ pass' = [pass EXCEPT !.stage = "mark"] /\ mishaps' = mishaps
    <3>1. /\ pass'.stage = "mark" /\ pass'.lines = pass.lines /\ pass'.todo = pass.todo
          /\ key' = key
      BY <1>7, <2>0, <2>3, BusyType DEF SendDigest, Passes
    <3>2. \A c \in NotifyCalls : c \in LinesOf(Turn, pass.lines) => JustMailed(c)'
      BY <3>1 DEF JustMailed, LinesOf, Turn
    <3>. QED
      BY <1>0, <2>0, <2>3, <3>2 DEF Books, JustMailed
  <2>. QED
    BY <1>7, <2>1, <2>2, <2>3 DEF SendDigest, Mishap
<1>8. CASE MarkDigest
  <2>1. \A c \in NotifyCalls : JustMailed(c) => line'[c] = "sent"
    BY <1>8 DEF MarkDigest, JustMailed
  <2>2. \A c \in NotifyCalls : ~JustMailed(c) => line'[c] = line[c]
    BY <1>8 DEF MarkDigest, JustMailed
  <2>3. copies' = copies /\ mishaps' = mishaps
    BY <1>8 DEF MarkDigest
  <2>. QED
    BY <1>0, <2>1, <2>2, <2>3 DEF Books
<1>9. CASE MarkFails \/ NotifyRestart
  BY <1>1, <1>9 DEF MarkFails, NotifyRestart, Mishap
<1>10. CASE Tick \/ UNCHANGED notifyVars
  BY <1>2, <1>10 DEF Tick, notifyVars
<1>. QED
  BY <1>4, <1>5, <1>6, <1>7, <1>8, <1>9, <1>10 DEF NotifyNext

LEMMA NotifyStepType == NotifyInv /\ [NotifyNext]_notifyVars => NotifyTypeOK'
<1> SUFFICES ASSUME NotifyInv, [NotifyNext]_notifyVars PROVE NotifyTypeOK'
  OBVIOUS
<1>0. NotifyTypeOK /\ PassInv /\ Stepped
  BY DEF NotifyInv
<1>1. mishaps' \in 0..MaxMishaps
  <2>1. mishaps' = mishaps \/ Mishap
    BY DEF NotifyNext, notifyVars, Tick, Notify, SendMail, Enqueue, NotifyFails, StartPass,
           SendDigest, MarkDigest, MarkFails, NotifyRestart
  <2>. QED
    BY <1>0, <2>1, NotifyAssumption DEF NotifyTypeOK, Mishap
<1>2. ASSUME NEW c \in NotifyCalls, NEW n \in Nat, copies'[c] = n, Books' PROVE n \in 0..(MaxMishaps + 1)
  BY <1>1, <1>2, NotifyAssumption DEF Books
<1>3. Books'
  BY BooksStep DEF NotifyInv
<1> USE <1>0, NotifyAssumption DEF NotifyTypeOK
<1>4. CASE Tick
  BY <1>4 DEF Tick
<1>5. ASSUME NEW c \in NotifyCalls, NEW k \in DedupKeys, Notify(c, k) PROVE NotifyTypeOK'
  BY <1>5 DEF Notify, Stepped
<1>6. ASSUME NEW c \in NotifyCalls, SendMail(c) \/ Enqueue(c) \/ NotifyFails(c) PROVE NotifyTypeOK'
  BY <1>1, <1>6 DEF SendMail, Enqueue, NotifyFails, Stepped
<1>7. CASE StartPass
  <2> DEFINE pending == {c \in NotifyCalls : line[c] = "pending"}
  <2>1. {Recipient[key[c]] : c \in pending} \subseteq MailUsers
    BY DEF MailUsers, DedupKeys
  <2>2. pass' \in Passes
    BY <1>7, <2>1 DEF StartPass, Passes
  <2>. QED
    BY <1>7, <2>2 DEF StartPass
<1>8. CASE SendDigest
  <2>1. pass' \in {Resting} \cup Passes
    BY <1>8, BusyType, OnwardPass DEF SendDigest, Busy, Passes
  <2>2. copies' \in [NotifyCalls -> Nat]
    BY <1>8 DEF SendDigest
  <2>3. copies' \in [NotifyCalls -> 0..(MaxMishaps + 1)]
    BY <1>2, <1>3, <2>2
  <2>. QED
    BY <1>1, <1>8, <2>1, <2>3 DEF SendDigest
<1>9. CASE MarkDigest
  <2>1. pass' \in {Resting} \cup Passes
    BY <1>9, BusyType, OnwardPass DEF MarkDigest, Busy
  <2>2. \A c \in LinesOf(Turn, pass.lines) : line[c] # "none"
    BY <1>9 DEF MarkDigest, PassInv, Busy, LinesOf
  <2>. QED
    BY <1>9, <2>1, <2>2 DEF MarkDigest
<1>10. CASE MarkFails \/ NotifyRestart
  BY <1>1, <1>10 DEF MarkFails, NotifyRestart
<1>11. CASE UNCHANGED notifyVars
  BY <1>11 DEF notifyVars
<1>. QED
  BY <1>4, <1>5, <1>6, <1>7, <1>8, <1>9, <1>10, <1>11 DEF NotifyNext

-----------------------------------------------------------------------------
(* Theorems *)

\* The strengthened invariant of the notifications.
THEOREM NotifyInvariant == NotifySpec => []NotifyInv
<1>1. NotifyInv /\ [NotifyNext]_notifyVars => NotifyInv'
  BY NotifyStepType, SteppedStep, SpacedStep, PassStep, BooksStep DEF NotifyInv
<1>. QED
  BY NotifyInitInv, <1>1, PTL DEF NotifySpec

\* Claims, calls, lines and passes keep their types, and only keys of the digest
\* have lines.
THEOREM NotifyTypeSafety == NotifySpec => []NotifyTypeOK
<1>1. NotifyInv => NotifyTypeOK
  BY DEF NotifyInv
<1>. QED
  BY <1>1, NotifyInvariant, PTL

\* Events of one key that are mailed have claimed it a window apart, whenever
\* their mails arrive.
THEOREM ClaimsAreSpaced == NotifySpec => []OneClaimPerWindow
<1>1. NotifyInv => OneClaimPerWindow
  BY DEF NotifyInv, NotifyTypeOK, Spaced, Claimed, OneClaimPerWindow
<1>. QED
  BY <1>1, NotifyInvariant, PTL

\* Lines marked as sent were delivered, and each further copy took a failure.
THEOREM BooksBalance == NotifySpec => []DigestBooks
<1>1. NotifyInv => DigestBooks
  BY DEF NotifyInv, NotifyTypeOK, Books, DigestBooks
<1>. QED
  BY <1>1, NotifyInvariant, PTL
=============================================================================
