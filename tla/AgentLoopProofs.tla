--------------------------- MODULE AgentLoopProofs ---------------------------
(***************************************************************************)
(* Theorems about AgentLoop for every set of tools, every step budget,     *)
(* any number of store failures, and with or without a crash.              *)
(***************************************************************************)
EXTENDS AgentLoop, TLAPS

LEMMA NoCallType == NoCall \in Calls
<1>1. PICK q \in Params : TRUE
  BY ToolAssumption
<1>2. (CHOOSE p \in Params : TRUE) \in Params
  BY <1>1
<1> QED
  BY <1>2, ToolAssumption DEF NoCall, Calls

LEMMA NoAnswerType == NoAnswer \in Requests
BY DEF NoAnswer, Requests

LEMMA InitType == Init => TypeOK
<1> SUFFICES ASSUME Init PROVE TypeOK
  OBVIOUS
<1>1. /\ pc \in Pcs /\ phase \in Phases /\ move \in [to : Phases, then : Pcs]
      /\ answer \in Requests
  BY DEF Init, Pcs, Phases, NoMove, NoAnswer, Requests
<1>2. call \in Calls /\ named \in Tools
  BY NoCallType, ToolAssumption DEF Init
<1>3. /\ grants \in [Tools -> Nat] /\ runs \in [Tools -> Nat]
      /\ logged \in [Tools -> Nat]
  BY DEF Init
<1> QED
  BY <1>1, <1>2, <1>3 DEF Init, TypeOK

LEMMA StepType == TypeOK /\ [Next]_vars => TypeOK'
<1> SUFFICES ASSUME TypeOK, [Next]_vars PROVE TypeOK'
  OBVIOUS
<1> USE DEF TypeOK, Pcs, Phases, thread, locals, shared, progress, approval,
        ledger, database, analyst, vars
<1>1. CASE Move
  BY <1>1 DEF Move, Goto
<1>2. CASE Begin
  BY <1>2 DEF Begin, CheckTransition, Goto
<1>3. CASE Guard
  BY <1>3 DEF Guard, Goto
<1>4. CASE SetThinking
  BY <1>4 DEF SetThinking, Goto
<1>5. CASE NoDecision
  BY <1>5 DEF NoDecision, CheckTransition, Goto
<1>6. CASE DecideAnswer
  <2>1. saved' \in BOOLEAN
    BY <1>6, Zenon DEF DecideAnswer
  <2>2. answers' \in Nat /\ faults' \in Nat /\ pc' \in Pcs /\ UNCHANGED move
    BY <1>6 DEF DecideAnswer, Raise, Fault, Goto
  <2> QED
    BY <1>6, <2>1, <2>2 DEF DecideAnswer
<1>7. CASE SpendStep
  BY <1>7 DEF SpendStep, Raise, Fault, Goto
<1>8. ASSUME NEW c \in Calls, DecideTool(c) PROVE TypeOK'
  BY <1>8 DEF DecideTool, CheckTransition, Raise, Fault, Goto, Calls
<1>9. CASE RequestApproval
  BY <1>9 DEF RequestApproval, Goto, Requests
<1>10. CASE Park
  BY <1>10 DEF Park, Goto
<1>11. CASE ClearEvent
  BY <1>11 DEF ClearEvent, Goto
<1>12. CASE Wait
  BY NoAnswerType, <1>12 DEF Wait, TakeAnswer, Goto
<1>13. CASE TimerFires
  BY NoAnswerType, <1>13 DEF TimerFires, TakeAnswer, Goto
<1>14. CASE AfterWait
  BY <1>14 DEF AfterWait, Goto
<1>15. CASE AuditApproval
  BY <1>15 DEF AuditApproval, CheckTransition, Raise, Fault, Goto
<1>16. CASE AuditRejection
  BY <1>16 DEF AuditRejection, CheckTransition, Raise, Fault, Goto
<1>17. CASE DupGuard
  BY ToolAssumption, <1>17 DEF DupGuard, Goto, Calls
<1>18. CASE Act
  BY <1>18 DEF Act, Execute, Goto, Calls
<1>19. CASE Record
  BY <1>19 DEF Record, LogCall, CheckTransition, Raise, Fault, Goto, Calls
<1>20. ASSUME NEW ok \in BOOLEAN, NEW tools \in SUBSET EnrichTools, Observe(ok, tools) PROVE TypeOK'
  BY <1>20 DEF Observe, CheckTransition, Raise, Fault, Goto
<1>21. ASSUME NEW c \in Calls, Enrich(c) PROVE TypeOK'
  BY <1>21 DEF Enrich, Goto
<1>22. CASE EnrichDone
  BY <1>22 DEF EnrichDone, CheckTransition, Goto
<1>23. CASE EnrichAct
  BY <1>23 DEF EnrichAct, Execute, Goto, Calls
<1>24. ASSUME NEW ok \in BOOLEAN, EnrichRecord(ok) PROVE TypeOK'
  BY <1>24 DEF EnrichRecord, LogCall, Fault, Goto, Calls
<1>25. CASE Finish
  BY <1>25 DEF Finish, Goto
<1>26. CASE Complete
  BY <1>26 DEF Complete, Goto
<1>27. CASE Summarise
  BY <1>27 DEF Summarise, Goto
<1>28. CASE SaveAnswer
  <2>1. saved' \in BOOLEAN
    BY <1>28, Zenon DEF SaveAnswer
  <2>2. answers' \in Nat /\ faults' \in Nat /\ pc' \in Pcs /\ UNCHANGED move
    BY <1>28 DEF SaveAnswer, Fault, Goto
  <2> QED
    BY <1>28, <2>1, <2>2 DEF SaveAnswer
<1>29. CASE Close
  BY <1>29 DEF Close, Raise, Fault, Goto
<1>30. CASE Publish
  BY <1>30 DEF Publish, Raise, Fault, Goto
<1>31. CASE Except
  BY <1>31 DEF Except, Fault, Goto
<1>32. CASE Cleanup
  BY <1>32 DEF Cleanup, Goto
<1>33. ASSUME NEW v \in Verdicts, Click(v) PROVE TypeOK'
  BY <1>33 DEF Click
<1>34. ASSUME NEW c \in clicks, Deliver(c) PROVE TypeOK'
  BY <1>34 DEF Deliver, Requests
<1>35. CASE CancelTest
  BY <1>35 DEF CancelTest
<1>36. CASE CancelSet
  BY <1>36 DEF CancelSet
<1>37. CASE CancelStore
  BY <1>37 DEF CancelStore, Fault
<1>38. CASE Kill
  BY <1>38 DEF Kill, Goto
<1>39. CASE Stopped
  BY <1>39 DEF Stopped
<1>40. CASE UNCHANGED vars
  BY <1>40
<1> QED
  BY <1>1, <1>2, <1>3, <1>4, <1>5, <1>6, <1>7, <1>8, <1>9, <1>10, <1>11, <1>12, <1>13,
     <1>14, <1>15, <1>16, <1>17, <1>18, <1>19, <1>20, <1>21, <1>22, <1>23, <1>24, <1>25,
     <1>26, <1>27, <1>28, <1>29, <1>30, <1>31, <1>32, <1>33, <1>34, <1>35, <1>36, <1>37,
     <1>38, <1>39, <1>40
     DEF Next, SessionThread, Gate, Handlers, Cancel

\* The loop's state stays within its types.
THEOREM TypeCorrect == Spec => []TypeOK
<1> QED
  BY InitType, StepType, PTL DEF Spec

-----------------------------------------------------------------------------
(* The step budget *)

InIteration == {"set_thinking", "think", "request", "park", "clear", "wait",
                "asleep", "answered", "audit", "dup", "act", "record", "observe"}

\* An iteration starts with a step in hand, and an enrichment call with two,
\* because its failure may cost both. A pending transition leads to one of four
\* places and takes the same care.
BudgetInv ==
    /\ steps <= MaxSteps
    /\ pc \in InIteration => steps < MaxSteps
    /\ pc = "moving" => /\ move.then \in {"guard", "finish", "dup", "observe"}
                        /\ move.then \in {"dup", "observe"} => steps < MaxSteps
    /\ pc \in {"enrich_act", "enrich_record"} => steps + 1 < MaxSteps

LEMMA InitBudget == Init => BudgetInv
BY BoundAssumption DEF Init, BudgetInv, InIteration

LEMMA StepBudgetInv == TypeOK /\ BudgetInv /\ [Next]_vars => BudgetInv'
<1> SUFFICES ASSUME TypeOK, BudgetInv, [Next]_vars PROVE BudgetInv'
  OBVIOUS
<1>0. steps \in Nat /\ MaxSteps \in Nat /\ move \in [to : Phases, then : Pcs]
  BY BoundAssumption DEF TypeOK
<1> USE <1>0 DEF BudgetInv, InIteration, thread, locals, shared, progress, approval,
        ledger, database, analyst, vars
<1>1. CASE Move
  BY <1>1 DEF Move, Goto
<1>2. CASE Begin
  BY <1>2 DEF Begin, CheckTransition, Goto
<1>3. CASE Guard
  BY <1>3 DEF Guard, Goto
<1>4. CASE SetThinking
  BY <1>4 DEF SetThinking, Goto
<1>5. CASE NoDecision
  BY <1>5 DEF NoDecision, CheckTransition, Goto
<1>6. CASE DecideAnswer
  BY <1>6 DEF DecideAnswer, Raise, Fault, Goto
<1>7. CASE SpendStep
  BY <1>7 DEF SpendStep, Raise, Fault, Goto
<1>8. ASSUME NEW c \in Calls, DecideTool(c) PROVE BudgetInv'
  BY <1>8 DEF DecideTool, CheckTransition, Raise, Fault, Goto, Calls
<1>9. CASE RequestApproval
  BY <1>9 DEF RequestApproval, Goto, Requests
<1>10. CASE Park
  BY <1>10 DEF Park, Goto
<1>11. CASE ClearEvent
  BY <1>11 DEF ClearEvent, Goto
<1>12. CASE Wait
  BY <1>12 DEF Wait, TakeAnswer, Goto
<1>13. CASE TimerFires
  BY <1>13 DEF TimerFires, TakeAnswer, Goto
<1>14. CASE AfterWait
  BY <1>14 DEF AfterWait, Goto
<1>15. CASE AuditApproval
  BY <1>15 DEF AuditApproval, CheckTransition, Raise, Fault, Goto
<1>16. CASE AuditRejection
  BY <1>16 DEF AuditRejection, CheckTransition, Raise, Fault, Goto
<1>17. CASE DupGuard
  BY <1>17 DEF DupGuard, Goto, Calls
<1>18. CASE Act
  BY <1>18 DEF Act, Execute, Goto, Calls
<1>19. CASE Record
  BY <1>19 DEF Record, LogCall, CheckTransition, Raise, Fault, Goto, Calls
<1>20. ASSUME NEW ok \in BOOLEAN, NEW tools \in SUBSET EnrichTools, Observe(ok, tools) PROVE BudgetInv'
  BY <1>20 DEF Observe, CheckTransition, Raise, Fault, Goto
<1>21. ASSUME NEW c \in Calls, Enrich(c) PROVE BudgetInv'
  BY <1>21 DEF Enrich, Goto
<1>22. CASE EnrichDone
  BY <1>22 DEF EnrichDone, CheckTransition, Goto
<1>23. CASE EnrichAct
  BY <1>23 DEF EnrichAct, Execute, Goto, Calls
<1>24. ASSUME NEW ok \in BOOLEAN, EnrichRecord(ok) PROVE BudgetInv'
  BY <1>24 DEF EnrichRecord, LogCall, Fault, Goto, Calls
<1>25. CASE Finish
  BY <1>25 DEF Finish, Goto
<1>26. CASE Complete
  BY <1>26 DEF Complete, Goto
<1>27. CASE Summarise
  BY <1>27 DEF Summarise, Goto
<1>28. CASE SaveAnswer
  BY <1>28 DEF SaveAnswer, Fault, Goto
<1>29. CASE Close
  BY <1>29 DEF Close, Raise, Fault, Goto
<1>30. CASE Publish
  BY <1>30 DEF Publish, Raise, Fault, Goto
<1>31. CASE Except
  BY <1>31 DEF Except, Fault, Goto
<1>32. CASE Cleanup
  BY <1>32 DEF Cleanup, Goto
<1>33. ASSUME NEW v \in Verdicts, Click(v) PROVE BudgetInv'
  BY <1>33 DEF Click
<1>34. ASSUME NEW c \in clicks, Deliver(c) PROVE BudgetInv'
  BY <1>34 DEF Deliver, Requests
<1>35. CASE CancelTest
  BY <1>35 DEF CancelTest
<1>36. CASE CancelSet
  BY <1>36 DEF CancelSet
<1>37. CASE CancelStore
  BY <1>37 DEF CancelStore, Fault
<1>38. CASE Kill
  BY <1>38 DEF Kill, Goto
<1>39. CASE Stopped
  BY <1>39 DEF Stopped
<1>40. CASE UNCHANGED vars
  BY <1>40
<1> QED
  BY <1>1, <1>2, <1>3, <1>4, <1>5, <1>6, <1>7, <1>8, <1>9, <1>10, <1>11, <1>12, <1>13,
     <1>14, <1>15, <1>16, <1>17, <1>18, <1>19, <1>20, <1>21, <1>22, <1>23, <1>24, <1>25,
     <1>26, <1>27, <1>28, <1>29, <1>30, <1>31, <1>32, <1>33, <1>34, <1>35, <1>36, <1>37,
     <1>38, <1>39, <1>40
     DEF Next, SessionThread, Gate, Handlers, Cancel

\* step_count never passes max_steps.
THEOREM BudgetHolds == Spec => []StepBudget
<1>1. BudgetInv => StepBudget
  BY DEF BudgetInv, StepBudget
<1> QED
  BY <1>1, TypeCorrect, InitBudget, StepBudgetInv, PTL DEF Spec

-----------------------------------------------------------------------------
(* The approval gate *)

Gated == {"request", "park", "clear", "wait", "asleep", "answered", "audit"}

\* The loop holds a call that it may execute next.
InHand == pc \in {"dup", "act"} \/ (pc = "moving" /\ move.then = "dup")

\* While a protected call is in hand one grant is left for it. The gate asks for
\* the tool that is called, and enrichment never holds a protected tool.
LedgerInv ==
    /\ \A t \in Protected : runs[t] <= grants[t]
    /\ pc \in Gated => named = call.tool
    /\ InHand /\ call.tool \in Protected => runs[call.tool] < grants[call.tool]
    /\ pc = "enrich_act" => call.tool \notin Protected

LEMMA InitLedger == Init => LedgerInv
BY ToolAssumption DEF Init, LedgerInv, Gated, InHand

LEMMA StepLedger == TypeOK /\ BudgetInv /\ LedgerInv /\ [Next]_vars => LedgerInv'
<1> SUFFICES ASSUME TypeOK, BudgetInv, LedgerInv, [Next]_vars PROVE LedgerInv'
  OBVIOUS
<1>0. /\ grants \in [Tools -> Nat] /\ runs \in [Tools -> Nat]
      /\ named \in Tools /\ call \in Calls /\ queue \subseteq EnrichTools
      /\ move \in [to : Phases, then : Pcs]
      /\ pc = "moving" => move.then \in {"guard", "finish", "dup", "observe"}
  BY DEF TypeOK, BudgetInv
<1> USE <1>0, ToolAssumption
    DEF LedgerInv, Gated, InHand, thread, locals, shared, progress, approval,
        ledger, database, analyst, vars
<1>1. CASE Move
  BY <1>1 DEF Move, Goto
<1>2. CASE Begin
  BY <1>2 DEF Begin, CheckTransition, Goto
<1>3. CASE Guard
  BY <1>3 DEF Guard, Goto
<1>4. CASE SetThinking
  BY <1>4 DEF SetThinking, Goto
<1>5. CASE NoDecision
  BY <1>5 DEF NoDecision, CheckTransition, Goto
<1>6. CASE DecideAnswer
  BY <1>6 DEF DecideAnswer, Raise, Fault, Goto
<1>7. CASE SpendStep
  BY <1>7 DEF SpendStep, Raise, Fault, Goto
<1>8. ASSUME NEW c \in Calls, DecideTool(c) PROVE LedgerInv'
  BY <1>8 DEF DecideTool, CheckTransition, Raise, Fault, Goto, Calls
<1>9. CASE RequestApproval
  BY <1>9 DEF RequestApproval, Goto, Requests
<1>10. CASE Park
  BY <1>10 DEF Park, Goto
<1>11. CASE ClearEvent
  BY <1>11 DEF ClearEvent, Goto
<1>12. CASE Wait
  BY <1>12 DEF Wait, TakeAnswer, Goto
<1>13. CASE TimerFires
  BY <1>13 DEF TimerFires, TakeAnswer, Goto
<1>14. CASE AfterWait
  BY <1>14 DEF AfterWait, Goto
<1>15. CASE AuditApproval
  BY <1>15 DEF AuditApproval, CheckTransition, Raise, Fault, Goto
<1>16. CASE AuditRejection
  BY <1>16 DEF AuditRejection, CheckTransition, Raise, Fault, Goto
<1>17. CASE DupGuard
  BY <1>17 DEF DupGuard, Goto, Calls
<1>18. CASE Act
  <2>0. pc = "act" /\ call.tool \in Tools
    BY <1>18 DEF Act, Calls
  <2>1. call.tool \in Protected => runs[call.tool] + 1 <= grants[call.tool]
    BY <2>0
  <2>2. \A t \in Tools : runs'[t] = IF t = call.tool /\ t \in RoleTools
                               THEN runs[t] + 1 ELSE runs[t]
    BY <1>18, <2>0 DEF Act, Execute
  <2>3. \A t \in Protected : runs'[t] <= grants'[t]
    BY <1>18, <2>0, <2>1, <2>2 DEF Act
  <2> QED
    BY <1>18, <2>3 DEF Act, Goto
<1>19. CASE Record
  BY <1>19 DEF Record, LogCall, CheckTransition, Raise, Fault, Goto, Calls
<1>20. ASSUME NEW ok \in BOOLEAN, NEW tools \in SUBSET EnrichTools, Observe(ok, tools) PROVE LedgerInv'
  BY <1>20 DEF Observe, CheckTransition, Raise, Fault, Goto
<1>21. ASSUME NEW c \in Calls, Enrich(c) PROVE LedgerInv'
  BY <1>21 DEF Enrich, Goto
<1>22. CASE EnrichDone
  BY <1>22 DEF EnrichDone, CheckTransition, Goto
<1>23. CASE EnrichAct
  BY <1>23 DEF EnrichAct, Execute, Goto, Calls
<1>24. ASSUME NEW ok \in BOOLEAN, EnrichRecord(ok) PROVE LedgerInv'
  BY <1>24 DEF EnrichRecord, LogCall, Fault, Goto, Calls
<1>25. CASE Finish
  BY <1>25 DEF Finish, Goto
<1>26. CASE Complete
  BY <1>26 DEF Complete, Goto
<1>27. CASE Summarise
  BY <1>27 DEF Summarise, Goto
<1>28. CASE SaveAnswer
  BY <1>28 DEF SaveAnswer, Fault, Goto
<1>29. CASE Close
  BY <1>29 DEF Close, Raise, Fault, Goto
<1>30. CASE Publish
  BY <1>30 DEF Publish, Raise, Fault, Goto
<1>31. CASE Except
  BY <1>31 DEF Except, Fault, Goto
<1>32. CASE Cleanup
  BY <1>32 DEF Cleanup, Goto
<1>33. ASSUME NEW v \in Verdicts, Click(v) PROVE LedgerInv'
  BY <1>33 DEF Click
<1>34. ASSUME NEW c \in clicks, Deliver(c) PROVE LedgerInv'
  BY <1>34 DEF Deliver, Requests
<1>35. CASE CancelTest
  BY <1>35 DEF CancelTest
<1>36. CASE CancelSet
  BY <1>36 DEF CancelSet
<1>37. CASE CancelStore
  BY <1>37 DEF CancelStore, Fault
<1>38. CASE Kill
  BY <1>38 DEF Kill, Goto
<1>39. CASE Stopped
  BY <1>39 DEF Stopped
<1>40. CASE UNCHANGED vars
  BY <1>40
<1> QED
  BY <1>1, <1>2, <1>3, <1>4, <1>5, <1>6, <1>7, <1>8, <1>9, <1>10, <1>11, <1>12, <1>13,
     <1>14, <1>15, <1>16, <1>17, <1>18, <1>19, <1>20, <1>21, <1>22, <1>23, <1>24, <1>25,
     <1>26, <1>27, <1>28, <1>29, <1>30, <1>31, <1>32, <1>33, <1>34, <1>35, <1>36, <1>37,
     <1>38, <1>39, <1>40
     DEF Next, SessionThread, Gate, Handlers, Cancel

LEMMA StepImplements ==
    TypeOK /\ LedgerInv /\ [Next]_vars => [Ledger!Next]_<<grants, runs>>
<1> SUFFICES ASSUME TypeOK, LedgerInv, [Next]_vars
             PROVE [Ledger!Next]_<<grants, runs>>
  OBVIOUS
<1>0. call.tool \in Tools /\ named \in Tools
  BY DEF TypeOK, Calls
<1> USE <1>0 DEF thread, locals, shared, progress, approval,
        ledger, database, analyst, vars
<1>1. CASE Move
  BY <1>1 DEF Move
<1>2. CASE Begin
  BY <1>2 DEF Begin
<1>3. CASE Guard
  BY <1>3 DEF Guard
<1>4. CASE SetThinking
  BY <1>4 DEF SetThinking
<1>5. CASE NoDecision
  BY <1>5 DEF NoDecision
<1>6. CASE DecideAnswer
  BY <1>6 DEF DecideAnswer
<1>7. CASE SpendStep
  BY <1>7 DEF SpendStep
<1>8. ASSUME NEW c \in Calls, DecideTool(c)
      PROVE [Ledger!Next]_<<grants, runs>>
  BY <1>8 DEF DecideTool
<1>9. CASE RequestApproval
  BY <1>9 DEF RequestApproval
<1>10. CASE Park
  BY <1>10 DEF Park
<1>11. CASE ClearEvent
  BY <1>11 DEF ClearEvent
<1>12. CASE Wait
  BY <1>12 DEF Wait
<1>13. CASE TimerFires
  BY <1>13 DEF TimerFires
<1>14. CASE AfterWait
  BY <1>14 DEF AfterWait
<1>15. CASE AuditApproval
  <2>1. CASE UNCHANGED grants
    BY <1>15, <2>1 DEF AuditApproval
  <2>2. CASE grants' = [grants EXCEPT ![named] = @ + 1]
    BY <1>15, <2>2 DEF AuditApproval, Ledger!Next, Ledger!Grant
  <2> QED
    BY <1>15, <2>1, <2>2 DEF AuditApproval
<1>16. CASE AuditRejection
  BY <1>16 DEF AuditRejection
<1>17. CASE DupGuard
  BY <1>17 DEF DupGuard
<1>18. CASE Act
  <2>1. CASE call.tool \in RoleTools
    <3>0. pc = "act"
      BY <1>18 DEF Act
    <3>1. call.tool \in Protected => runs[call.tool] < grants[call.tool]
      BY <3>0 DEF LedgerInv, InHand
    <3>2. /\ runs' = [runs EXCEPT ![call.tool] = @ + 1]
          /\ UNCHANGED grants
      BY <1>18, <2>1 DEF Act, Execute
    <3> QED
      BY <3>1, <3>2 DEF Ledger!Next, Ledger!Run
  <2>2. CASE call.tool \notin RoleTools
    BY <1>18, <2>2 DEF Act, Execute
  <2> QED
    BY <2>1, <2>2
<1>19. CASE Record
  BY <1>19 DEF Record, LogCall
<1>20. ASSUME NEW ok \in BOOLEAN, NEW tools \in SUBSET EnrichTools, Observe(ok, tools)
      PROVE [Ledger!Next]_<<grants, runs>>
  BY <1>20 DEF Observe
<1>21. ASSUME NEW c \in Calls, Enrich(c)
      PROVE [Ledger!Next]_<<grants, runs>>
  BY <1>21 DEF Enrich
<1>22. CASE EnrichDone
  BY <1>22 DEF EnrichDone
<1>23. CASE EnrichAct
  <2>1. CASE call.tool \in RoleTools
    <3>0. pc = "enrich_act"
      BY <1>23 DEF EnrichAct
    <3>1. call.tool \in Protected => runs[call.tool] < grants[call.tool]
      BY <3>0 DEF LedgerInv
    <3>2. /\ runs' = [runs EXCEPT ![call.tool] = @ + 1]
          /\ UNCHANGED grants
      BY <1>23, <2>1 DEF EnrichAct, Execute
    <3> QED
      BY <3>1, <3>2 DEF Ledger!Next, Ledger!Run
  <2>2. CASE call.tool \notin RoleTools
    BY <1>23, <2>2 DEF EnrichAct, Execute
  <2> QED
    BY <2>1, <2>2
<1>24. ASSUME NEW ok \in BOOLEAN, EnrichRecord(ok)
      PROVE [Ledger!Next]_<<grants, runs>>
  BY <1>24 DEF EnrichRecord, LogCall
<1>25. CASE Finish
  BY <1>25 DEF Finish
<1>26. CASE Complete
  BY <1>26 DEF Complete
<1>27. CASE Summarise
  BY <1>27 DEF Summarise
<1>28. CASE SaveAnswer
  BY <1>28 DEF SaveAnswer
<1>29. CASE Close
  BY <1>29 DEF Close
<1>30. CASE Publish
  BY <1>30 DEF Publish
<1>31. CASE Except
  BY <1>31 DEF Except
<1>32. CASE Cleanup
  BY <1>32 DEF Cleanup
<1>33. ASSUME NEW v \in Verdicts, Click(v)
      PROVE [Ledger!Next]_<<grants, runs>>
  BY <1>33 DEF Click
<1>34. ASSUME NEW c \in clicks, Deliver(c)
      PROVE [Ledger!Next]_<<grants, runs>>
  BY <1>34 DEF Deliver
<1>35. CASE CancelTest
  BY <1>35 DEF CancelTest
<1>36. CASE CancelSet
  BY <1>36 DEF CancelSet
<1>37. CASE CancelStore
  BY <1>37 DEF CancelStore
<1>38. CASE Kill
  BY <1>38 DEF Kill
<1>39. CASE Stopped
  BY <1>39 DEF Stopped
<1>40. CASE UNCHANGED vars
  BY <1>40
<1> QED
  BY <1>1, <1>2, <1>3, <1>4, <1>5, <1>6, <1>7, <1>8, <1>9, <1>10, <1>11, <1>12, <1>13,
     <1>14, <1>15, <1>16, <1>17, <1>18, <1>19, <1>20, <1>21, <1>22, <1>23, <1>24, <1>25,
     <1>26, <1>27, <1>28, <1>29, <1>30, <1>31, <1>32, <1>33, <1>34, <1>35, <1>36, <1>37,
     <1>38, <1>39, <1>40
     DEF Next, SessionThread, Gate, Handlers, Cancel

\* The loop implements the approval ledger.
THEOREM LedgerHolds == Spec => ApprovalBeforeRun
<1>1. Init => Ledger!Init
  BY DEF Init, Ledger!Init
<1> QED
  BY <1>1, TypeCorrect, InitBudget, StepBudgetInv, InitLedger, StepLedger,
     StepImplements, PTL
     DEF Spec, ApprovalBeforeRun, Ledger!Spec, Ledger!ledgerVars

-----------------------------------------------------------------------------
(* The final answer *)

\* Where the thread can be once a final answer is saved.
Afterwards == {"finish", "complete", "summary", "save", "close", "publish",
               "except", "cleanup", "done", "killed"}

\* final_answer_saved tells the truth about the table, and the loop does not go
\* round once it is set. Without a failing write, who writes "completed" has it.
AnswerInv ==
    /\ answers = IF saved THEN 1 ELSE 0
    /\ saved => pc \in Afterwards
    /\ pc = "close" /\ final = "completed" /\ faults = 0 => saved
    /\ status = "completed" => pc \in {"publish", "except", "cleanup", "done", "killed"}
    /\ status = "completed" /\ faults = 0 => saved

LEMMA InitAnswer == Init => AnswerInv
BY DEF Init, AnswerInv

LEMMA StepAnswer == TypeOK /\ BudgetInv /\ AnswerInv /\ [Next]_vars => AnswerInv'
<1> SUFFICES ASSUME TypeOK, BudgetInv, AnswerInv, [Next]_vars PROVE AnswerInv'
  OBVIOUS
<1>0. /\ saved \in BOOLEAN /\ faults \in Nat /\ answers \in Nat
      /\ move \in [to : Phases, then : Pcs]
      /\ pc = "moving" => move.then \in {"guard", "finish", "dup", "observe"}
  BY DEF TypeOK, BudgetInv
<1> USE <1>0 DEF AnswerInv, Afterwards, thread, locals, shared, progress,
        approval, ledger, database, analyst, vars
<1>1. CASE Move
  BY <1>1 DEF Move, Goto
<1>2. CASE Begin
  BY <1>2 DEF Begin, CheckTransition, Goto
<1>3. CASE Guard
  BY <1>3 DEF Guard, Goto
<1>4. CASE SetThinking
  BY <1>4 DEF SetThinking, Goto
<1>5. CASE NoDecision
  BY <1>5 DEF NoDecision, CheckTransition, Goto
<1>6. CASE DecideAnswer
  BY <1>6 DEF DecideAnswer, Raise, Fault, Goto
<1>7. CASE SpendStep
  BY <1>7 DEF SpendStep, Raise, Fault, Goto
<1>8. ASSUME NEW c \in Calls, DecideTool(c) PROVE AnswerInv'
  BY <1>8 DEF DecideTool, CheckTransition, Raise, Fault, Goto
<1>9. CASE RequestApproval
  BY <1>9 DEF RequestApproval, Goto
<1>10. CASE Park
  BY <1>10 DEF Park, Goto
<1>11. CASE ClearEvent
  BY <1>11 DEF ClearEvent, Goto
<1>12. CASE Wait
  BY <1>12 DEF Wait, TakeAnswer, Goto
<1>13. CASE TimerFires
  BY <1>13 DEF TimerFires, TakeAnswer, Goto
<1>14. CASE AfterWait
  BY <1>14 DEF AfterWait, Goto
<1>15. CASE AuditApproval
  BY <1>15 DEF AuditApproval, CheckTransition, Raise, Fault, Goto
<1>16. CASE AuditRejection
  BY <1>16 DEF AuditRejection, CheckTransition, Raise, Fault, Goto
<1>17. CASE DupGuard
  BY <1>17 DEF DupGuard, Goto
<1>18. CASE Act
  BY <1>18 DEF Act, Execute, Goto
<1>19. CASE Record
  BY <1>19 DEF Record, LogCall, CheckTransition, Raise, Fault, Goto
<1>20. ASSUME NEW ok \in BOOLEAN, NEW tools \in SUBSET EnrichTools, Observe(ok, tools) PROVE AnswerInv'
  BY <1>20 DEF Observe, CheckTransition, Raise, Fault, Goto
<1>21. ASSUME NEW c \in Calls, Enrich(c) PROVE AnswerInv'
  BY <1>21 DEF Enrich, Goto
<1>22. CASE EnrichDone
  BY <1>22 DEF EnrichDone, CheckTransition, Goto
<1>23. CASE EnrichAct
  BY <1>23 DEF EnrichAct, Execute, Goto
<1>24. ASSUME NEW ok \in BOOLEAN, EnrichRecord(ok) PROVE AnswerInv'
  BY <1>24 DEF EnrichRecord, LogCall, Fault, Goto
<1>25. CASE Finish
  BY <1>25 DEF Finish, Goto
<1>26. CASE Complete
  BY <1>26 DEF Complete, Goto
<1>27. CASE Summarise
  BY <1>27 DEF Summarise, Goto
<1>28. CASE SaveAnswer
  BY <1>28 DEF SaveAnswer, Fault, Goto
<1>29. CASE Close
  BY <1>29 DEF Close, Raise, Fault, Goto
<1>30. CASE Publish
  BY <1>30 DEF Publish, Raise, Fault, Goto
<1>31. CASE Except
  BY <1>31 DEF Except, Fault, Goto
<1>32. CASE Cleanup
  BY <1>32 DEF Cleanup, Goto
<1>33. ASSUME NEW v \in Verdicts, Click(v) PROVE AnswerInv'
  BY <1>33 DEF Click
<1>34. ASSUME NEW c \in clicks, Deliver(c) PROVE AnswerInv'
  BY <1>34 DEF Deliver
<1>35. CASE CancelTest
  BY <1>35 DEF CancelTest
<1>36. CASE CancelSet
  BY <1>36 DEF CancelSet
<1>37. CASE CancelStore
  BY <1>37 DEF CancelStore, Fault
<1>38. CASE Kill
  BY <1>38 DEF Kill, Goto
<1>39. CASE Stopped
  BY <1>39 DEF Stopped
<1>40. CASE UNCHANGED vars
  BY <1>40
<1> QED
  BY <1>1, <1>2, <1>3, <1>4, <1>5, <1>6, <1>7, <1>8, <1>9, <1>10, <1>11, <1>12, <1>13,
     <1>14, <1>15, <1>16, <1>17, <1>18, <1>19, <1>20, <1>21, <1>22, <1>23, <1>24, <1>25,
     <1>26, <1>27, <1>28, <1>29, <1>30, <1>31, <1>32, <1>33, <1>34, <1>35, <1>36, <1>37,
     <1>38, <1>39, <1>40
     DEF Next, SessionThread, Gate, Handlers, Cancel

\* At most one final_answer row, and exactly one after a clean completion.
THEOREM AnswerHolds == Spec => []OneFinalAnswer
<1>1. TypeOK /\ AnswerInv => OneFinalAnswer
  BY DEF TypeOK, AnswerInv, OneFinalAnswer
<1> QED
  BY <1>1, TypeCorrect, InitBudget, StepBudgetInv, InitAnswer, StepAnswer, PTL DEF Spec

-----------------------------------------------------------------------------
(* The audit log *)

\* The one execution that may not be in the log yet, or never: of the call in
\* the thread's hands, or, once the process is killed, of some tool.
Unfiled(t) ==
    IF pc = "killed" \/ (pc \in {"record", "enrich_record"} /\ t = call.tool)
    THEN 1 ELSE 0

AuditInv == \A t \in Tools : runs[t] <= logged[t] + faults + Unfiled(t)

LEMMA InitAudit == Init => AuditInv
BY DEF Init, AuditInv, Unfiled

LEMMA StepAudit == TypeOK /\ BudgetInv /\ AuditInv /\ [Next]_vars => AuditInv'
<1> SUFFICES ASSUME TypeOK, BudgetInv, AuditInv, [Next]_vars PROVE AuditInv'
  OBVIOUS
<1>0. /\ runs \in [Tools -> Nat] /\ logged \in [Tools -> Nat] /\ faults \in Nat
      /\ call.tool \in Tools
      /\ pc = "moving" => move.then \in {"guard", "finish", "dup", "observe"}
  BY DEF TypeOK, BudgetInv, Calls
<1> USE <1>0 DEF AuditInv, Unfiled, thread, locals, shared, progress,
        approval, ledger, database, analyst, vars
<1>1. CASE Move
  BY <1>1 DEF Move, Goto
<1>2. CASE Begin
  BY <1>2 DEF Begin, CheckTransition, Goto
<1>3. CASE Guard
  BY <1>3 DEF Guard, Goto
<1>4. CASE SetThinking
  BY <1>4 DEF SetThinking, Goto
<1>5. CASE NoDecision
  BY <1>5 DEF NoDecision, CheckTransition, Goto
<1>6. CASE DecideAnswer
  BY <1>6 DEF DecideAnswer, Raise, Fault, Goto
<1>7. CASE SpendStep
  BY <1>7 DEF SpendStep, Raise, Fault, Goto
<1>8. ASSUME NEW c \in Calls, DecideTool(c) PROVE AuditInv'
  BY <1>8 DEF DecideTool, CheckTransition, Raise, Fault, Goto
<1>9. CASE RequestApproval
  BY <1>9 DEF RequestApproval, Goto
<1>10. CASE Park
  BY <1>10 DEF Park, Goto
<1>11. CASE ClearEvent
  BY <1>11 DEF ClearEvent, Goto
<1>12. CASE Wait
  BY <1>12 DEF Wait, TakeAnswer, Goto
<1>13. CASE TimerFires
  BY <1>13 DEF TimerFires, TakeAnswer, Goto
<1>14. CASE AfterWait
  BY <1>14 DEF AfterWait, Goto
<1>15. CASE AuditApproval
  BY <1>15 DEF AuditApproval, CheckTransition, Raise, Fault, Goto
<1>16. CASE AuditRejection
  BY <1>16 DEF AuditRejection, CheckTransition, Raise, Fault, Goto
<1>17. CASE DupGuard
  BY <1>17 DEF DupGuard, Goto
<1>18. CASE Act
  BY <1>18 DEF Act, Execute, Goto
<1>19. CASE Record
  BY <1>19 DEF Record, LogCall, CheckTransition, Raise, Fault, Goto
<1>20. ASSUME NEW ok \in BOOLEAN, NEW tools \in SUBSET EnrichTools, Observe(ok, tools) PROVE AuditInv'
  BY <1>20 DEF Observe, CheckTransition, Raise, Fault, Goto
<1>21. ASSUME NEW c \in Calls, Enrich(c) PROVE AuditInv'
  BY <1>21 DEF Enrich, Goto
<1>22. CASE EnrichDone
  BY <1>22 DEF EnrichDone, CheckTransition, Goto
<1>23. CASE EnrichAct
  BY <1>23 DEF EnrichAct, Execute, Goto
<1>24. ASSUME NEW ok \in BOOLEAN, EnrichRecord(ok) PROVE AuditInv'
  BY <1>24 DEF EnrichRecord, LogCall, Fault, Goto
<1>25. CASE Finish
  BY <1>25 DEF Finish, Goto
<1>26. CASE Complete
  BY <1>26 DEF Complete, Goto
<1>27. CASE Summarise
  BY <1>27 DEF Summarise, Goto
<1>28. CASE SaveAnswer
  BY <1>28 DEF SaveAnswer, Fault, Goto
<1>29. CASE Close
  BY <1>29 DEF Close, Raise, Fault, Goto
<1>30. CASE Publish
  BY <1>30 DEF Publish, Raise, Fault, Goto
<1>31. CASE Except
  BY <1>31 DEF Except, Fault, Goto
<1>32. CASE Cleanup
  BY <1>32 DEF Cleanup, Goto
<1>33. ASSUME NEW v \in Verdicts, Click(v) PROVE AuditInv'
  BY <1>33 DEF Click
<1>34. ASSUME NEW c \in clicks, Deliver(c) PROVE AuditInv'
  BY <1>34 DEF Deliver
<1>35. CASE CancelTest
  BY <1>35 DEF CancelTest
<1>36. CASE CancelSet
  BY <1>36 DEF CancelSet
<1>37. CASE CancelStore
  BY <1>37 DEF CancelStore, Fault
<1>38. CASE Kill
  BY <1>38 DEF Kill, Goto
<1>39. CASE Stopped
  BY <1>39 DEF Stopped
<1>40. CASE UNCHANGED vars
  BY <1>40
<1> QED
  BY <1>1, <1>2, <1>3, <1>4, <1>5, <1>6, <1>7, <1>8, <1>9, <1>10, <1>11, <1>12, <1>13,
     <1>14, <1>15, <1>16, <1>17, <1>18, <1>19, <1>20, <1>21, <1>22, <1>23, <1>24, <1>25,
     <1>26, <1>27, <1>28, <1>29, <1>30, <1>31, <1>32, <1>33, <1>34, <1>35, <1>36, <1>37,
     <1>38, <1>39, <1>40
     DEF Next, SessionThread, Gate, Handlers, Cancel

\* Every execution reaches the audit log but for the accounted losses.
THEOREM AuditHolds == Spec => []AuditComplete
<1>1. TypeOK /\ AuditInv => AuditComplete
  BY DEF TypeOK, AuditInv, Unfiled, AuditComplete, Unlogged
<1> QED
  BY <1>1, TypeCorrect, InitBudget, StepBudgetInv, InitAudit, StepAudit, PTL DEF Spec

-----------------------------------------------------------------------------
(* The status of the row *)

\* Who has written the last status of a loop that came to its end: the thread
\* itself, or a cancel after it. Only the except branch has not.
SettleInv == pc = "publish" => status # "active"

LEMMA InitSettle == Init => SettleInv
BY DEF Init, SettleInv

\* Nobody else moves the thread on to its clean-up, or back to "active".
LEMMA StepSettle ==
    TypeOK /\ BudgetInv /\ SettleInv /\ [Next]_vars =>
        /\ SettleInv'
        /\ LeavesActive => pc = "except" /\ faults' = faults + 1
<1> DEFINE Settles == /\ SettleInv'
                      /\ LeavesActive => pc = "except" /\ faults' = faults + 1
<1> SUFFICES ASSUME TypeOK, BudgetInv, SettleInv, [Next]_vars PROVE Settles
  OBVIOUS
<1>0. /\ status \in {"active", "completed", "failed"}
      /\ final \in {"completed", "failed"}
      /\ pc = "moving" => move.then \in {"guard", "finish", "dup", "observe"}
  BY DEF TypeOK, BudgetInv
<1> USE <1>0 DEF SettleInv, LeavesActive, Goto, thread, locals, shared, progress, approval,
        ledger, database, analyst, vars
<1>1. CASE Move \/ Begin \/ Guard \/ SetThinking
  BY <1>1 DEF Move, Begin, Guard, SetThinking, CheckTransition
<1>2. CASE NoDecision \/ DecideAnswer \/ SpendStep
  BY <1>2 DEF NoDecision, DecideAnswer, SpendStep, CheckTransition, Raise, Fault
<1>3. ASSUME NEW c \in Calls, DecideTool(c) PROVE Settles
  BY <1>3 DEF DecideTool, CheckTransition, Raise, Fault
<1>4. CASE RequestApproval \/ Park \/ ClearEvent \/ Wait
  BY <1>4 DEF RequestApproval, Park, ClearEvent, Wait, TakeAnswer
<1>5. CASE TimerFires \/ AfterWait \/ AuditApproval \/ AuditRejection
  BY <1>5 DEF TimerFires, AfterWait, AuditApproval, AuditRejection, TakeAnswer,
              CheckTransition, Raise, Fault
<1>6. CASE DupGuard \/ Act \/ Record
  BY <1>6 DEF DupGuard, Act, Record, LogCall, CheckTransition, Raise, Fault
<1>7. ASSUME NEW ok \in BOOLEAN, NEW tools \in SUBSET EnrichTools, Observe(ok, tools)
      PROVE Settles
  BY <1>7 DEF Observe, CheckTransition, Raise, Fault
<1>8. ASSUME NEW c \in Calls, Enrich(c) PROVE Settles
  BY <1>8 DEF Enrich
<1>9. CASE EnrichDone \/ EnrichAct
  BY <1>9 DEF EnrichDone, EnrichAct, CheckTransition
<1>10. ASSUME NEW ok \in BOOLEAN, EnrichRecord(ok) PROVE Settles
  BY <1>10 DEF EnrichRecord, LogCall, Fault
<1>11. CASE Finish \/ Complete \/ Summarise \/ SaveAnswer
  BY <1>11 DEF Finish, Complete, Summarise, SaveAnswer, Fault
<1>12. CASE Close
  BY <1>12 DEF Close, Raise, Fault
<1>13. CASE Publish
  BY <1>13 DEF Publish, Raise, Fault
<1>14. CASE Except
  BY <1>14 DEF Except, Fault
<1>15. CASE Cleanup
  BY <1>15 DEF Cleanup
<1>16. ASSUME NEW v \in Verdicts, Click(v) PROVE Settles
  BY <1>16 DEF Click
<1>17. ASSUME NEW c \in clicks, Deliver(c) PROVE Settles
  BY <1>17 DEF Deliver
<1>18. CASE CancelTest \/ CancelSet \/ CancelStore
  BY <1>18 DEF CancelTest, CancelSet, CancelStore, Fault
<1>19. CASE Kill \/ Stopped \/ UNCHANGED vars
  BY <1>19 DEF Kill, Stopped
<1> QED
  BY <1>1, <1>2, <1>3, <1>4, <1>5, <1>6, <1>7, <1>8, <1>9, <1>10, <1>11, <1>12, <1>13,
     <1>14, <1>15, <1>16, <1>17, <1>18, <1>19
     DEF Next, SessionThread, Gate, Handlers, Cancel

\* However the loop ends, by itself, cancelled or by an exception of any kind, the
\* row is left active only by a failing write of the except branch itself.
THEOREM SettleHolds == Spec => StatusSettles
<1> QED
  BY TypeCorrect, InitBudget, StepBudgetInv, InitSettle, StepSettle, PTL
     DEF Spec, StatusSettles
=============================================================================
