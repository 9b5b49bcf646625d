-------------------------- MODULE SessionRunsProofs --------------------------
(***************************************************************************)
(* What SessionRuns guarantees for every number of runs, workers and       *)
(* requests, and for every bound on crashes, faults and overrun leases.    *)
(***************************************************************************)
EXTENDS SessionRuns, TLAPS

(* A worker that is off has no run and starts at the first step; one that  *)
(* is not works on a run that exists, and so does a request that has found *)
(* the run it will cancel.                                                 *)
Located ==
    /\ \A w \in Workers :
          /\ pc[w] = "off" => job[w] = NoRun
          /\ pc[w] # "off" => job[w] \in Runs /\ status[job[w]] # "none"
          /\ pc[w] \in {"off", "claim", "activate"} => step[w] = 0
    /\ \A q \in Requests :
          rpc[q] = "cancel" => found[q] \in Runs /\ status[found[q]] # "none"

(* A worker that has reached a step has seen every earlier one memoised.   *)
PassedSteps ==
    \A w \in Workers :
        /\ pc[w] \in {"check", "lookup", "work", "record", "recheck"} =>
              step[w] = ErrorStep \/ 0 .. (step[w] - 1) \subseteq memo[job[w]]
        /\ pc[w] = "recheck" => step[w] \in memo[job[w]]
        /\ pc[w] = "complete" =>
              FinalStep \in memo[job[w]] \/ ErrorStep \in memo[job[w]]

(* Until a lease is overrun, a worker that executes a run holds its lease, *)
(* which has not run out, or the run has been cancelled under it.          *)
LeaseHeld ==
    overruns = 0 =>
        /\ \A w \in Workers : Executing(w) =>
              owner[job[w]] = w \/ status[job[w]] = "cancelled"
        /\ \A r \in Runs, w \in Workers :
              owner[r] = w /\ pc[w] # "off" => expiry[r] = "future"

LeaseInv == TypeOK /\ Located /\ LeaseWellFormed
JournalInv == LeaseInv /\ PassedSteps /\ StepsInOrder /\ CompletedIsAnswered
ExclusionInv == LeaseInv /\ LeaseHeld /\ NoConcurrentExecution

-----------------------------------------------------------------------------
(* The steps of a prompt, as numbers. *)

LEMMA StepFacts ==
    /\ FinalStep \in Nat /\ FinalStep > 0 /\ ErrorStep = FinalStep + 1
    /\ Steps \subseteq Nat
    /\ 0 \in Steps /\ FinalStep \in Steps /\ ErrorStep \in Steps
    /\ ToolSteps \subseteq Steps
    /\ \A s \in Steps : s < FinalStep => s + 1 \in Steps
    /\ \A s \in Steps : s >= FinalStep => s = FinalStep \/ s = ErrorStep
    /\ NoRun \notin Runs
  BY ConstantsAssumption, SMTT(30) DEF FinalStep, ErrorStep, Steps, Runs, NoRun

-----------------------------------------------------------------------------
(* Types *)

(* The two ways a step is left keep the local state of the worker typed. *)
LEMMA LeavingAStep ==
    ASSUME TypeOK, NEW w \in Workers, NEW handler \in WorkerStages,
           Advance(w) \/ Raise(w, handler)
    PROVE  pc' \in [Workers -> WorkerStages] /\ step' \in [Workers -> Steps]
<1> USE StepFacts
<1>0. pc \in [Workers -> WorkerStages] /\ step \in [Workers -> Steps]
  BY DEF TypeOK
<1>1. CASE Advance(w)
  <2>1. CASE step[w] >= FinalStep
    BY <1>0, <1>1, <2>1 DEF Advance, Goto, WorkerStages
  <2>2. CASE ~ (step[w] >= FinalStep)
    <3>1. step[w] \in Steps /\ step[w] \in Nat
      BY <1>0
    <3>2. step[w] < FinalStep
      BY <2>2, <3>1
    <3>3. step[w] + 1 \in Steps
      BY <3>1, <3>2
    <3> QED  BY <1>0, <1>1, <2>2, <3>3 DEF Advance, Goto, WorkerStages
  <2> QED  BY <2>1, <2>2
<1>2. CASE Raise(w, handler)
  BY <1>0, <1>2 DEF Raise, Goto, WorkerStages
<1> QED  BY <1>1, <1>2

LEMMA LeaveType ==
    ASSUME TypeOK, NEW w \in Workers, Leave(w)
    PROVE  /\ pc' \in [Workers -> WorkerStages]
           /\ job' \in [Workers -> Runs \cup {NoRun}]
           /\ step' \in [Workers -> Steps]
  BY StepFacts DEF TypeOK, Leave, WorkerStages

LEMMA WorkerStepType ==
    ASSUME TypeOK, NEW w \in Workers, WorkerStep(w)
    PROVE  TypeOK'
<1>1. ASSUME NEW r \in Runs, Dispatch(w, r) PROVE TypeOK'
  BY <1>1 DEF TypeOK, Dispatch, Goto, WorkerStages, rowVars, requestVars, envVars
<1>2. CASE Claim(w)
  BY <1>2 DEF TypeOK, Claim, CancelRow, Claimable, Goto, WorkerStages, RunStatuses, rowVars, requestVars, envVars
<1>3. CASE ClaimLost(w)
  BY <1>3, LeaveType, ConstantsAssumption DEF TypeOK, ClaimLost, SessionStatuses, rowVars, requestVars, envVars
<1>4. CASE Activate(w)
  BY <1>4 DEF TypeOK, Activate, Goto, WorkerStages, SessionStatuses, rowVars, requestVars, envVars
<1>5. CASE Check(w)
  BY <1>5 DEF TypeOK, Check, Goto, WorkerStages, SessionStatuses, rowVars, requestVars, envVars
<1>6. CASE Replay(w)
  BY <1>6, LeavingAStep, ConstantsAssumption, SMTT(30) DEF TypeOK, Replay, Goto, WorkerStages, rowVars, requestVars, envVars
<1>7. CASE Execute(w)
  BY <1>7 DEF TypeOK, Execute, Goto, WorkerStages, SessionStatuses, rowVars, requestVars, envVars
<1>8. CASE WorkDone(w)
  BY <1>8 DEF TypeOK, WorkDone, Goto, WorkerStages, SessionStatuses, rowVars, requestVars, envVars
<1>9. CASE WorkYields(w)
  BY <1>9 DEF TypeOK, WorkYields, Goto, WorkerStages, SessionStatuses, rowVars, requestVars, envVars
<1>10. CASE RecordStep(w)
  BY <1>10 DEF TypeOK, RecordStep, Goto, WorkerStages, SessionStatuses, rowVars, requestVars, envVars
<1>11. CASE Recheck(w)
  BY <1>11, LeavingAStep, ConstantsAssumption, SMTT(30) DEF TypeOK, Recheck, Goto, WorkerStages, rowVars, requestVars, envVars
<1>12. CASE NoticeCancel(w)
  BY <1>12, LeavingAStep, ConstantsAssumption, SMTT(30) DEF TypeOK, NoticeCancel, Goto, WorkerStages, rowVars, requestVars, envVars
<1>13. CASE Complete(w)
  BY <1>13 DEF TypeOK, Complete, HandBack, OwnsItsRow, Goto, WorkerStages, RunStatuses, rowVars, requestVars, envVars
<1>14. CASE Deactivate(w)
  BY <1>14, LeaveType, ConstantsAssumption DEF TypeOK, Deactivate, SessionStatuses, rowVars, requestVars, envVars
<1>15. CASE CancelRun(w)
  BY <1>15 DEF TypeOK, CancelRun, CancelRow, Claimable, Goto, WorkerStages, RunStatuses, rowVars, requestVars, envVars
<1>16. CASE StandDown(w)
  BY <1>16 DEF TypeOK, StandDown, Goto, WorkerStages, SessionStatuses, rowVars, requestVars, envVars
<1>17. CASE MarkPromptCancelled(w)
  BY <1>17, LeaveType, ConstantsAssumption DEF TypeOK, MarkPromptCancelled, SessionStatuses, rowVars, requestVars, envVars
<1>18. CASE MarkWaiting(w)
  BY <1>18 DEF TypeOK, MarkWaiting, Goto, WorkerStages, SessionStatuses, rowVars, requestVars, envVars
<1>19. CASE Release(w)
  BY <1>19, LeaveType DEF TypeOK, Release, HandBack, OwnsItsRow, RunStatuses, rowVars, requestVars, envVars
<1>20. CASE Fail(w)
  BY <1>20 DEF TypeOK, Fail, HandBack, OwnsItsRow, Goto, WorkerStages, RunStatuses, rowVars, requestVars, envVars
<1>21. CASE MarkPromptError(w)
  BY <1>21, LeaveType, ConstantsAssumption DEF TypeOK, MarkPromptError, SessionStatuses, rowVars, requestVars, envVars
<1>22. CASE Throw(w)
  BY <1>22, LeavingAStep, ConstantsAssumption, SMTT(30) DEF TypeOK, Throw, Goto, WorkerStages, rowVars, requestVars, envVars
<1>23. CASE Crash(w)
  BY <1>23, LeaveType, ConstantsAssumption DEF TypeOK, Crash, SessionStatuses, rowVars, requestVars, envVars
<1> QED
  BY <1>1, <1>2, <1>3, <1>4, <1>5, <1>6, <1>7, <1>8, <1>9, <1>10, <1>11, <1>12, <1>13, <1>14, <1>15, <1>16, <1>17, <1>18, <1>19, <1>20, <1>21, <1>22, <1>23 DEF WorkerStep

LEMMA RespondType ==
    ASSUME TypeOK, NEW q \in Requests, Respond(q)
    PROVE  /\ op' \in [Requests -> Operations \cup {"none"}]
           /\ rpc' \in [Requests -> RequestStages]
           /\ found' \in [Requests -> Runs \cup {NoRun}]
  BY DEF TypeOK, Respond, RequestStages

LEMMA ReceiveType ==
    ASSUME TypeOK, NEW q \in Requests, NEW operation, NEW stage \in RequestStages,
           Receive(q, operation, stage)
    PROVE  TypeOK'
  BY DEF TypeOK, Receive, GotoStage, rowVars, workerVars, envVars

LEMMA RequestStepType ==
    ASSUME TypeOK, NEW q \in Requests, RequestStep(q)
    PROVE  TypeOK'
<1>1. CASE ReceiveChat(q)
  BY <1>1, ReceiveType DEF ReceiveChat, RequestStages
<1>2. CASE ReceiveEnd(q)
  BY <1>2, ReceiveType DEF ReceiveEnd, RequestStages
<1>3. CASE ReceivePoll(q)
  BY <1>3, ReceiveType DEF ReceivePoll, RequestStages
<1>4. CASE MarkProcessing(q)
  BY <1>4 DEF TypeOK, MarkProcessing, GotoStage, RequestStages, SessionStatuses,
              rowVars, workerVars, envVars
<1>5. CASE CreateRun(q)
  BY <1>5, RespondType DEF TypeOK, CreateRun, RunStatuses, workerVars, envVars
<1>6. CASE FindActive(q)
  BY <1>6 DEF TypeOK, FindActive, GotoStage, RequestStages, rowVars, workerVars, envVars
<1>7. CASE FindNoActive(q)
  BY <1>7 DEF TypeOK, FindNoActive, GotoStage, RequestStages, rowVars, workerVars, envVars
<1>8. CASE AbortNothing(q)
  BY <1>8, RespondType DEF TypeOK, AbortNothing, rowVars, workerVars, envVars
<1>9. CASE RequestCancel(q)
  BY <1>9 DEF TypeOK, RequestCancel, GotoStage, RequestStages, RunStatuses,
              workerVars, envVars
<1>10. CASE CancelFound(q)
  BY <1>10 DEF TypeOK, CancelFound, CancelRow, GotoStage, RequestStages, RunStatuses,
               workerVars, envVars
<1>11. CASE SaveSession(q)
  <2>1. session' \in SessionStatuses
    BY <1>11 DEF SaveSession, SessionStatuses
  <2>2. rpc' \in [Requests -> RequestStages] /\ op' \in [Requests -> Operations \cup {"none"}]
        /\ found' \in [Requests -> Runs \cup {NoRun}]
    BY <1>11, RespondType DEF TypeOK, SaveSession, GotoStage, RequestStages
  <2> QED
    BY <1>11, <2>1, <2>2 DEF TypeOK, SaveSession, rowVars, workerVars, envVars
<1>12. CASE DeactivateSession(q)
  BY <1>12, RespondType DEF TypeOK, DeactivateSession, rowVars, workerVars, envVars
<1>13. CASE RequestLost(q)
  BY <1>13, RespondType, ConstantsAssumption DEF TypeOK, RequestLost, rowVars, workerVars
<1> QED
  BY <1>1, <1>2, <1>3, <1>4, <1>5, <1>6, <1>7, <1>8, <1>9, <1>10, <1>11, <1>12, <1>13
     DEF RequestStep

LEMMA TimeType ==
    ASSUME TypeOK, (\E r \in Runs : Expire(r)) \/ Wake
    PROVE  TypeOK'
<1>1. CASE \E r \in Runs : Expire(r)
  BY <1>1, ConstantsAssumption DEF TypeOK, Expire, workerVars, requestVars
<1>2. CASE Wake
  BY <1>2 DEF TypeOK, Wake, workerVars, requestVars, envVars
<1> QED  BY <1>1, <1>2

LEMMA InitType == Init => TypeOK
<1> SUFFICES ASSUME Init PROVE TypeOK
  OBVIOUS
<1>1. 0 \in 0 .. MaxCrashes /\ 0 \in 0 .. MaxFaults /\ 0 \in 0 .. MaxOverruns
  BY ConstantsAssumption
<1> QED
  BY <1>1, StepFacts DEF Init, TypeOK, SessionStatuses, WorkerStages, RequestStages

LEMMA TypeStep == TypeOK /\ [Next]_vars => TypeOK'
<1> SUFFICES ASSUME TypeOK, [Next]_vars PROVE TypeOK'
  OBVIOUS
<1>1. CASE Next
  BY <1>1, WorkerStepType, RequestStepType, TimeType DEF Next
<1>2. CASE UNCHANGED vars
  BY <1>2 DEF TypeOK, vars
<1> QED  BY <1>1, <1>2

(* The tables and the local states of workers and requests keep their      *)
(* types; no counter of a step runs past prompt-error.                     *)
THEOREM TypeCorrect == Spec => []TypeOK
  BY InitType, TypeStep, PTL DEF Spec

-----------------------------------------------------------------------------
(* Who changes what *)

Tick == (\E r \in Runs : Expire(r)) \/ Wake

(* A worker touches no local state but its own. *)
LEMMA WorkersApart ==
    ASSUME TypeOK, NEW w \in Workers, WorkerStep(w)
    PROVE  /\ UNCHANGED requestVars
           /\ \A v \in Workers \ {w} :
                 pc'[v] = pc[v] /\ job'[v] = job[v] /\ step'[v] = step[v]
<1> USE DEF TypeOK, Goto, Leave, workerVars
<1>1. ASSUME NEW r \in Runs, Dispatch(w, r)
      PROVE  UNCHANGED requestVars /\ \A v \in Workers \ {w} :
                 pc'[v] = pc[v] /\ job'[v] = job[v] /\ step'[v] = step[v]
  BY <1>1 DEF Dispatch
<1>2. CASE Claim(w) \/ ClaimLost(w) \/ Activate(w) \/ Check(w) \/ Execute(w)
  BY <1>2 DEF Claim, ClaimLost, Activate, Check, Execute
<1>3. CASE Replay(w) \/ Recheck(w) \/ NoticeCancel(w)
  BY <1>3 DEF Replay, Recheck, NoticeCancel, Advance, Raise
<1>4. CASE Throw(w)
  BY <1>4 DEF Throw, Raise
<1>5. CASE WorkDone(w) \/ WorkYields(w) \/ RecordStep(w)
  BY <1>5 DEF WorkDone, WorkYields, RecordStep
<1>6. CASE Complete(w) \/ Deactivate(w) \/ CancelRun(w) \/ StandDown(w)
           \/ MarkPromptCancelled(w)
  BY <1>6 DEF Complete, Deactivate, CancelRun, StandDown, MarkPromptCancelled
<1>7. CASE MarkWaiting(w) \/ Release(w) \/ Fail(w) \/ MarkPromptError(w) \/ Crash(w)
  BY <1>7 DEF MarkWaiting, Release, Fail, MarkPromptError, Crash
<1> QED
  BY <1>1, <1>2, <1>3, <1>4, <1>5, <1>6, <1>7 DEF WorkerStep

(* A request touches no worker's local state, and records no step. *)
LEMMA RequestsApart ==
    ASSUME NEW q \in Requests, RequestStep(q)
    PROVE  UNCHANGED workerVars /\ UNCHANGED memo /\ UNCHANGED overruns
  BY DEF RequestStep, ReceiveChat, ReceiveEnd, ReceivePoll, Receive, MarkProcessing,
         CreateRun, FindActive, FindNoActive, AbortNothing, RequestCancel, CancelFound,
         SaveSession, DeactivateSession, RequestLost, envVars

(* What a worker may do to the rows: claim its run, hand it back if the    *)
(* lease still names it, or cancel it.                                     *)
HandsBack(w) ==
    /\ Executing(w) \/ pc[w] = "fail"
    /\ \/ Release(w) /\ HandBack(w, "runnable", "future")
       \/ Complete(w) /\ HandBack(w, "completed", "null")
       \/ Fail(w) /\ HandBack(w, "error", "null")

LEMMA WorkerRowEffect ==
    ASSUME NEW w \in Workers, WorkerStep(w)
    PROVE  \/ UNCHANGED rowVars
           \/ Claim(w)
           \/ HandsBack(w)
           \/ CancelRun(w)
  BY DEF WorkerStep, Dispatch, ClaimLost, Activate, Check, Execute, Replay, Recheck,
         NoticeCancel, Throw, WorkDone, WorkYields, RecordStep, Complete, Deactivate,
         StandDown, MarkPromptCancelled, MarkWaiting, Release, Fail, MarkPromptError,
         Crash, HandsBack, Executing

LEMMA RequestRowEffect ==
    ASSUME NEW q \in Requests, RequestStep(q)
    PROVE  UNCHANGED rowVars \/ CreateRun(q) \/ RequestCancel(q) \/ CancelFound(q)
  BY DEF RequestStep, ReceiveChat, ReceiveEnd, ReceivePoll, Receive, MarkProcessing,
         FindActive, FindNoActive, AbortNothing, SaveSession, DeactivateSession, RequestLost

-----------------------------------------------------------------------------
(* Leases *)

(* A row that exists keeps existing. *)
LEMMA RowsStay ==
    ASSUME TypeOK, Located, Next, NEW r \in Runs, status[r] # "none"
    PROVE  status'[r] # "none"
<1>1. ASSUME NEW w \in Workers, WorkerStep(w) PROVE status'[r] # "none"
  <2>1. CASE UNCHANGED rowVars
    BY <2>1 DEF rowVars
  <2>2. CASE Claim(w)
    BY <2>2 DEF TypeOK, Claim
  <2>3. CASE HandsBack(w)
    BY <2>3 DEF TypeOK, HandsBack, HandBack, rowVars
  <2>4. CASE CancelRun(w)
    BY <2>4 DEF TypeOK, CancelRun, CancelRow
  <2> QED  BY <1>1, <2>1, <2>2, <2>3, <2>4, WorkerRowEffect
<1>2. ASSUME NEW q \in Requests, RequestStep(q) PROVE status'[r] # "none"
  <2>1. CASE UNCHANGED rowVars
    BY <2>1 DEF rowVars
  <2>2. CASE CreateRun(q)
    BY <2>2 DEF TypeOK, CreateRun
  <2>3. CASE RequestCancel(q)
    BY <2>3 DEF TypeOK, RequestCancel
  <2>4. CASE CancelFound(q)
    BY <2>4 DEF TypeOK, CancelFound, CancelRow
  <2> QED  BY <1>2, <2>1, <2>2, <2>3, <2>4, RequestRowEffect
<1>3. CASE Tick
  BY <1>3 DEF Tick, Expire, Wake
<1> QED  BY <1>1, <1>2, <1>3 DEF Next, Tick

(* Where a worker goes, it has a run; where it starts, it is at step 0. *)
LEMMA WorkerStaysLocated ==
    ASSUME TypeOK, Located, NEW w \in Workers, WorkerStep(w)
    PROVE  /\ pc'[w] = "off" => job'[w] = NoRun
           /\ pc'[w] # "off" => job'[w] \in Runs /\ status[job'[w]] # "none"
           /\ pc'[w] \in {"off", "claim", "activate"} => step'[w] = 0
<1> USE DEF TypeOK, Located, Goto, Leave
<1>1. ASSUME NEW r \in Runs, Dispatch(w, r)
      PROVE  /\ pc'[w] = "off" => job'[w] = NoRun
             /\ pc'[w] # "off" => job'[w] \in Runs /\ status[job'[w]] # "none"
             /\ pc'[w] \in {"off", "claim", "activate"} => step'[w] = 0
  BY <1>1 DEF Dispatch, Due
<1>2. CASE Claim(w) \/ Activate(w) \/ Check(w) \/ Execute(w) \/ WorkDone(w)
           \/ WorkYields(w) \/ RecordStep(w) \/ Complete(w) \/ CancelRun(w)
           \/ StandDown(w) \/ MarkWaiting(w) \/ Fail(w)
  BY <1>2 DEF Claim, Activate, Check, Execute, WorkDone, WorkYields, RecordStep,
              Complete, CancelRun, StandDown, MarkWaiting, Fail
<1>3. CASE Replay(w) \/ Recheck(w)
  BY <1>3 DEF Replay, Recheck, Advance
<1>4. CASE NoticeCancel(w) \/ Throw(w)
  BY <1>4 DEF NoticeCancel, Throw, Raise
<1>5. CASE ClaimLost(w) \/ Deactivate(w) \/ MarkPromptCancelled(w) \/ Release(w)
           \/ MarkPromptError(w) \/ Crash(w)
  BY <1>5 DEF ClaimLost, Deactivate, MarkPromptCancelled, Release, MarkPromptError, Crash
<1> QED
  BY <1>1, <1>2, <1>3, <1>4, <1>5 DEF WorkerStep

(* Only FindActive brings a request to its cancel, with an active run. *)
LEMMA RequestStaysLocated ==
    ASSUME TypeOK, Located, NEW q \in Requests, RequestStep(q), NEW p \in Requests,
           rpc'[p] = "cancel"
    PROVE  found'[p] \in Runs /\ status[found'[p]] # "none"
<1> USE DEF TypeOK, Located, GotoStage, Respond
<1>1. CASE ReceiveChat(q) \/ ReceiveEnd(q) \/ ReceivePoll(q)
  BY <1>1 DEF ReceiveChat, ReceiveEnd, ReceivePoll, Receive
<1>2. CASE MarkProcessing(q) \/ CreateRun(q) \/ RequestCancel(q) \/ CancelFound(q)
  BY <1>2 DEF MarkProcessing, CreateRun, RequestCancel, CancelFound
<1>3. CASE FindActive(q)
  BY <1>3 DEF FindActive, OldestActive, Active
<1>4. CASE FindNoActive(q) \/ AbortNothing(q) \/ SaveSession(q)
  BY <1>4 DEF FindNoActive, AbortNothing, SaveSession
<1>5. CASE DeactivateSession(q) \/ RequestLost(q)
  BY <1>5 DEF DeactivateSession, RequestLost
<1> QED
  BY <1>1, <1>2, <1>3, <1>4, <1>5 DEF RequestStep

LEMMA LocatedStep ==
    ASSUME TypeOK, Located, Next
    PROVE  Located'
<1>1. \A r \in Runs : status[r] # "none" => status'[r] # "none"
  BY RowsStay
<1>2. ASSUME NEW w \in Workers, WorkerStep(w) PROVE Located'
  <2>1. ASSUME NEW v \in Workers
        PROVE  /\ pc'[v] = "off" => job'[v] = NoRun
               /\ pc'[v] # "off" => job'[v] \in Runs /\ status'[job'[v]] # "none"
               /\ pc'[v] \in {"off", "claim", "activate"} => step'[v] = 0
    <3>1. CASE v = w
      BY <1>1, <1>2, <3>1, WorkerStaysLocated
    <3>2. CASE v # w
      BY <1>1, <1>2, <3>2, WorkersApart DEF Located
    <3> QED  BY <3>1, <3>2
  <2>2. ASSUME NEW q \in Requests, rpc'[q] = "cancel"
        PROVE  found'[q] \in Runs /\ status'[found'[q]] # "none"
    BY <1>1, <1>2, <2>2, WorkersApart DEF Located, requestVars
  <2> QED  BY <2>1, <2>2 DEF Located
<1>3. ASSUME NEW q \in Requests, RequestStep(q) PROVE Located'
  BY <1>1, <1>3, RequestStaysLocated, RequestsApart DEF Located, workerVars
<1>4. CASE Tick
  BY <1>1, <1>4 DEF Tick, Expire, Wake, Located, workerVars, requestVars
<1> QED  BY <1>2, <1>3, <1>4 DEF Next, Tick

LEMMA LeaseStep ==
    ASSUME LeaseInv, Next
    PROVE  LeaseWellFormed'
<1> USE DEF LeaseInv, TypeOK, LeaseWellFormed
<1>1. ASSUME NEW w \in Workers, WorkerStep(w) PROVE LeaseWellFormed'
  <2>1. CASE UNCHANGED rowVars
    BY <2>1 DEF rowVars
  <2>2. CASE Claim(w)
    BY <2>2, ConstantsAssumption DEF Claim, Claimable
  <2>3. CASE HandsBack(w)
    BY <2>3 DEF HandsBack, HandBack, rowVars
  <2>4. CASE CancelRun(w)
    BY <2>4 DEF CancelRun, CancelRow
  <2> QED  BY <1>1, <2>1, <2>2, <2>3, <2>4, WorkerRowEffect
<1>2. ASSUME NEW q \in Requests, RequestStep(q) PROVE LeaseWellFormed'
  <2>1. CASE UNCHANGED rowVars
    BY <2>1 DEF rowVars
  <2>2. CASE CreateRun(q)
    BY <2>2 DEF CreateRun
  <2>3. CASE RequestCancel(q)
    BY <2>3 DEF RequestCancel
  <2>4. CASE CancelFound(q)
    BY <2>4 DEF CancelFound, CancelRow
  <2> QED  BY <1>2, <2>1, <2>2, <2>3, <2>4, RequestRowEffect
<1>3. CASE Tick
  BY <1>3 DEF Tick, Expire, Wake
<1> QED  BY <1>1, <1>2, <1>3 DEF Next, Tick

LEMMA LeaseInvInit == Init => LeaseInv
<1> SUFFICES ASSUME Init PROVE LeaseInv
  OBVIOUS
<1>1. TypeOK
  BY InitType
<1>2. Located /\ LeaseWellFormed
  BY DEF Init, Located, LeaseWellFormed
<1> QED  BY <1>1, <1>2 DEF LeaseInv

LEMMA LeaseInvStep == LeaseInv /\ [Next]_vars => LeaseInv'
<1> SUFFICES ASSUME LeaseInv, [Next]_vars PROVE LeaseInv'
  OBVIOUS
<1>1. CASE Next
  BY <1>1, TypeStep, LocatedStep, LeaseStep DEF LeaseInv
<1>2. CASE UNCHANGED vars
  <2>1. Located' /\ LeaseWellFormed'
    BY <1>2 DEF LeaseInv, Located, LeaseWellFormed, vars
  <2> QED  BY <1>2, <2>1, TypeStep DEF LeaseInv
<1> QED  BY <1>1, <1>2

(* A running row has an owner and a lease that can run out, and a row that *)
(* is not leased names nobody: no crash between two statements of a worker *)
(* can leave a row that no one may claim.                                  *)
THEOREM LeasesWellFormed == Spec => []LeaseWellFormed
<1>1. LeaseInv => LeaseWellFormed
  BY DEF LeaseInv
<1> QED  BY <1>1, LeaseInvInit, LeaseInvStep, PTL DEF Spec

(* A settled run never becomes active again: complete, fail and release    *)
(* act only on a row that still names the worker, and no settled row does. *)
THEOREM SettledStaysSettled == Spec => SettledForGood
<1>1. LeaseInv /\ [Next]_vars =>
        [\A r \in Runs :
           /\ status[r] \in Settled => status'[r] \in Settled
           /\ status[r] = "cancelled" => status'[r] = "cancelled"]_vars
  <2> SUFFICES ASSUME LeaseInv, Next, NEW r \in Runs, status[r] \in Settled
               PROVE  /\ status'[r] \in Settled
                      /\ status[r] = "cancelled" => status'[r] = "cancelled"
    BY DEF Settled
  <2> USE DEF LeaseInv, TypeOK, LeaseWellFormed, Settled
  <2>1. ASSUME NEW w \in Workers, WorkerStep(w)
        PROVE  /\ status'[r] \in Settled
               /\ status[r] = "cancelled" => status'[r] = "cancelled"
    <3>1. CASE UNCHANGED rowVars
      BY <3>1 DEF rowVars
    <3>2. CASE Claim(w)
      BY <3>2 DEF Claim, Claimable
    <3>3. CASE HandsBack(w)
      BY <3>3, ConstantsAssumption DEF HandsBack, HandBack, OwnsItsRow, rowVars
    <3>4. CASE CancelRun(w)
      BY <3>4 DEF CancelRun, CancelRow
    <3> QED  BY <2>1, <3>1, <3>2, <3>3, <3>4, WorkerRowEffect
  <2>2. ASSUME NEW q \in Requests, RequestStep(q)
        PROVE  /\ status'[r] \in Settled
               /\ status[r] = "cancelled" => status'[r] = "cancelled"
    <3>1. CASE UNCHANGED rowVars
      BY <3>1 DEF rowVars
    <3>2. CASE CreateRun(q)
      BY <3>2 DEF CreateRun
    <3>3. CASE RequestCancel(q)
      BY <3>3 DEF RequestCancel
    <3>4. CASE CancelFound(q)
      BY <3>4 DEF CancelFound, CancelRow
    <3> QED  BY <2>2, <3>1, <3>2, <3>3, <3>4, RequestRowEffect
  <2>3. CASE Tick
    BY <2>3 DEF Tick, Expire, Wake
  <2> QED  BY <2>1, <2>2, <2>3 DEF Next, Tick
<1> QED  BY <1>1, LeaseInvInit, LeaseInvStep, PTL DEF Spec, SettledForGood

-----------------------------------------------------------------------------
(* The journal of steps *)

(* completeStep is the only statement of a worker that writes a step row. *)
LEMMA OnlyRecordStepRecords ==
    ASSUME NEW w \in Workers, WorkerStep(w), ~ RecordStep(w)
    PROVE  memo' = memo
<1>1. CASE \/ \E r \in Runs : Dispatch(w, r)
           \/ Claim(w) \/ ClaimLost(w) \/ Activate(w)
           \/ Check(w) \/ Replay(w) \/ Execute(w)
  BY <1>1 DEF Dispatch, Claim, ClaimLost, Activate, Check, Replay, Execute
<1>2. CASE WorkDone(w) \/ WorkYields(w) \/ Recheck(w) \/ NoticeCancel(w) \/ Throw(w)
  BY <1>2 DEF WorkDone, WorkYields, Recheck, NoticeCancel, Throw
<1>3. CASE \/ Complete(w) \/ Deactivate(w) \/ CancelRun(w) \/ StandDown(w)
           \/ MarkPromptCancelled(w) \/ MarkWaiting(w) \/ Release(w)
           \/ Fail(w) \/ MarkPromptError(w) \/ Crash(w)
  BY <1>3 DEF Complete, Deactivate, CancelRun, StandDown, MarkPromptCancelled,
              MarkWaiting, Release, Fail, MarkPromptError, Crash
<1> QED  BY <1>1, <1>2, <1>3 DEF WorkerStep

(* Only completeStep touches the journal, and it only adds to it. *)
LEMMA JournalGrows ==
    ASSUME TypeOK, Located, Next
    PROVE  \A r \in Runs : memo[r] \subseteq memo'[r]
<1>1. ASSUME NEW w \in Workers, WorkerStep(w) PROVE \A r \in Runs : memo[r] \subseteq memo'[r]
  <2>1. CASE RecordStep(w)
    BY <2>1 DEF TypeOK, RecordStep
  <2>2. CASE ~ RecordStep(w)
    BY <1>1, <2>2, OnlyRecordStepRecords
  <2> QED  BY <2>1, <2>2
<1>2. ASSUME NEW q \in Requests, RequestStep(q) PROVE memo' = memo
  BY <1>2, RequestsApart
<1>3. CASE Tick
  BY <1>3 DEF Tick, Expire, Wake
<1> QED  BY <1>1, <1>2, <1>3 DEF Next, Tick

(* A worker leaves a step whose result is kept for the next one, or for    *)
(* the end when it was the last.                                           *)
LEMMA AdvancePasses ==
    ASSUME TypeOK, PassedSteps, NEW w \in Workers, Advance(w),
           pc[w] \in {"lookup", "recheck"}, step[w] \in memo[job[w]]
    PROVE  /\ pc'[w] \in {"check", "complete"}
           /\ pc'[w] = "check" =>
                 step'[w] = ErrorStep \/ 0 .. (step'[w] - 1) \subseteq memo[job[w]]
           /\ pc'[w] = "complete" =>
                 FinalStep \in memo[job[w]] \/ ErrorStep \in memo[job[w]]
<1>1. step[w] \in Steps /\ step[w] \in Nat
  BY StepFacts DEF TypeOK
<1>2. step[w] = ErrorStep \/ 0 .. (step[w] - 1) \subseteq memo[job[w]]
  BY DEF PassedSteps
<1>3. CASE step[w] >= FinalStep
  BY <1>1, <1>3, StepFacts DEF TypeOK, Advance, Goto
<1>4. CASE ~ (step[w] >= FinalStep)
  <2>1. step[w] # ErrorStep
    BY <1>1, <1>4, StepFacts
  <2>2. pc'[w] = "check" /\ step'[w] = step[w] + 1
    BY <1>4 DEF TypeOK, Advance, Goto
  <2>3. 0 .. (step'[w] - 1) \subseteq 0 .. (step[w] - 1) \cup {step[w]}
    BY <1>1, <2>2
  <2> QED  BY <1>2, <2>1, <2>2, <2>3
<1> QED  BY <1>3, <1>4

LEMMA WorkerPasses ==
    ASSUME TypeOK, Located, PassedSteps, NEW w \in Workers, WorkerStep(w)
    PROVE  /\ pc'[w] \in {"check", "lookup", "work", "record", "recheck"} =>
                 step'[w] = ErrorStep \/ 0 .. (step'[w] - 1) \subseteq memo'[job'[w]]
           /\ pc'[w] = "recheck" => step'[w] \in memo'[job'[w]]
           /\ pc'[w] = "complete" =>
                 FinalStep \in memo'[job'[w]] \/ ErrorStep \in memo'[job'[w]]
<1> USE DEF TypeOK, Goto, Leave
<1>1. CASE \E r \in Runs : Dispatch(w, r)
  BY <1>1 DEF Dispatch
<1>2. CASE Claim(w) \/ ClaimLost(w) \/ Deactivate(w) \/ CancelRun(w) \/ StandDown(w)
           \/ MarkPromptCancelled(w) \/ MarkWaiting(w) \/ Release(w) \/ Fail(w)
           \/ MarkPromptError(w) \/ Crash(w) \/ Complete(w) \/ WorkYields(w)
  BY <1>2 DEF Claim, ClaimLost, Deactivate, CancelRun, StandDown, MarkPromptCancelled,
              MarkWaiting, Release, Fail, MarkPromptError, Crash, Complete, WorkYields
<1>3. CASE Activate(w)
  <2>1. 0 .. (0 - 1) = {}
    OBVIOUS
  <2> QED  BY <1>3, <2>1 DEF Activate, Located
<1>4. CASE Check(w) \/ Execute(w) \/ WorkDone(w)
  BY <1>4 DEF Check, Execute, WorkDone, PassedSteps
<1>5. CASE RecordStep(w)
  <2>1. memo' = [memo EXCEPT ![job[w]] = @ \cup {step[w]}] /\ job[w] \in Runs
    BY <1>5 DEF RecordStep, Located
  <2>2. memo'[job[w]] = memo[job[w]] \cup {step[w]}
    BY <2>1
  <2> QED  BY <1>5, <2>2 DEF RecordStep, PassedSteps
<1>6. CASE Replay(w)
  BY <1>6, AdvancePasses DEF Replay
<1>7. CASE Recheck(w)
  <2>1. step[w] \in memo[job[w]]
    BY <1>7 DEF Recheck, PassedSteps
  <2> QED  BY <1>7, <2>1, AdvancePasses DEF Recheck
<1>8. CASE NoticeCancel(w) \/ Throw(w)
  BY <1>8 DEF NoticeCancel, Throw, Raise
<1> QED
  BY <1>1, <1>2, <1>3, <1>4, <1>5, <1>6, <1>7, <1>8 DEF WorkerStep

LEMMA PassedStepsStep ==
    ASSUME TypeOK, Located, PassedSteps, Next
    PROVE  PassedSteps'
<1>1. \A r \in Runs : memo[r] \subseteq memo'[r]
  BY JournalGrows
<1>2. ASSUME NEW v \in Workers, pc'[v] = pc[v], job'[v] = job[v], step'[v] = step[v]
      PROVE  /\ pc'[v] \in {"check", "lookup", "work", "record", "recheck"} =>
                   step'[v] = ErrorStep \/ 0 .. (step'[v] - 1) \subseteq memo'[job'[v]]
             /\ pc'[v] = "recheck" => step'[v] \in memo'[job'[v]]
             /\ pc'[v] = "complete" =>
                   FinalStep \in memo'[job'[v]] \/ ErrorStep \in memo'[job'[v]]
  <2>1. pc[v] # "off" => memo[job[v]] \subseteq memo'[job[v]]
    BY <1>1 DEF Located
  <2> QED  BY <1>2, <2>1 DEF PassedSteps
<1>3. ASSUME NEW w \in Workers, WorkerStep(w) PROVE PassedSteps'
  BY <1>2, <1>3, WorkerPasses, WorkersApart DEF PassedSteps
<1>4. ASSUME NEW q \in Requests, RequestStep(q) PROVE PassedSteps'
  BY <1>2, <1>4, RequestsApart DEF PassedSteps, workerVars
<1>5. CASE Tick
  BY <1>2, <1>5 DEF Tick, Expire, Wake, PassedSteps, workerVars
<1> QED  BY <1>3, <1>4, <1>5 DEF Next, Tick

LEMMA StepsInOrderStep ==
    ASSUME TypeOK, Located, PassedSteps, StepsInOrder, Next
    PROVE  StepsInOrder'
<1>1. CASE \E w \in Workers : RecordStep(w)
  <2>1. PICK w \in Workers : RecordStep(w)
    BY <1>1
  <2>2. memo' = [memo EXCEPT ![job[w]] = @ \cup {step[w]}] /\ job[w] \in Runs
    BY <2>1 DEF RecordStep, Located
  <2>3. step[w] = ErrorStep \/ 0 .. (step[w] - 1) \subseteq memo[job[w]]
    BY <2>1 DEF RecordStep, PassedSteps
  <2> QED  BY <2>2, <2>3 DEF TypeOK, StepsInOrder
<1>2. CASE ~ \E w \in Workers : RecordStep(w)
  <2>1. memo' = memo
    BY <1>2, OnlyRecordStepRecords, RequestsApart DEF Next, Expire, Wake
  <2> QED  BY <2>1 DEF StepsInOrder
<1> QED  BY <1>1, <1>2

(* The only way to "completed" is complete, at the end of the prompt. *)
LEMMA OnlyCompleteCompletes ==
    ASSUME LeaseInv, Next, NEW r \in Runs, status'[r] = "completed"
    PROVE  \/ status[r] = "completed"
           \/ /\ status[r] \in {"running", "cancel_requested"}
              /\ \E w \in Workers : Complete(w) /\ job[w] = r
<1> USE DEF LeaseInv, TypeOK
<1>1. ASSUME NEW w \in Workers, WorkerStep(w), status[r] # "completed"
      PROVE  status[r] \in {"running", "cancel_requested"} /\ Complete(w) /\ job[w] = r
  <2>1. CASE UNCHANGED rowVars
    BY <1>1, <2>1 DEF rowVars
  <2>2. CASE Claim(w)
    BY <1>1, <2>2 DEF Claim
  <2>3. CASE HandsBack(w)
    BY <1>1, <2>3, ConstantsAssumption
       DEF HandsBack, HandBack, OwnsItsRow, rowVars, LeaseWellFormed
  <2>4. CASE CancelRun(w)
    BY <1>1, <2>4 DEF CancelRun, CancelRow
  <2> QED  BY <1>1, <2>1, <2>2, <2>3, <2>4, WorkerRowEffect
<1>2. ASSUME NEW q \in Requests, RequestStep(q) PROVE status[r] = "completed"
  <2>1. CASE UNCHANGED rowVars
    BY <2>1 DEF rowVars
  <2>2. CASE CreateRun(q)
    BY <2>2 DEF CreateRun
  <2>3. CASE RequestCancel(q)
    BY <2>3 DEF RequestCancel
  <2>4. CASE CancelFound(q)
    BY <2>4 DEF CancelFound, CancelRow
  <2> QED  BY <1>2, <2>1, <2>2, <2>3, <2>4, RequestRowEffect
<1>3. CASE Tick
  BY <1>3 DEF Tick, Expire, Wake
<1> QED  BY <1>1, <1>2, <1>3 DEF Next, Tick

LEMMA CompletedIsAnsweredStep ==
    ASSUME JournalInv, Next
    PROVE  CompletedIsAnswered'
<1> SUFFICES ASSUME NEW r \in Runs, status'[r] = "completed"
             PROVE  FinalStep \in memo'[r] \/ ErrorStep \in memo'[r]
  BY DEF CompletedIsAnswered
<1>1. memo[r] \subseteq memo'[r]
  BY JournalGrows DEF JournalInv, LeaseInv
<1>2. CASE status[r] = "completed"
  BY <1>1, <1>2 DEF JournalInv, CompletedIsAnswered
<1>3. ASSUME NEW w \in Workers, Complete(w), job[w] = r
      PROVE  FinalStep \in memo'[r] \/ ErrorStep \in memo'[r]
  BY <1>1, <1>3 DEF Complete, JournalInv, PassedSteps
<1> QED  BY <1>2, <1>3, OnlyCompleteCompletes DEF JournalInv

LEMMA JournalInvInit == Init => JournalInv
<1> SUFFICES ASSUME Init PROVE JournalInv
  OBVIOUS
<1>1. PassedSteps /\ StepsInOrder /\ CompletedIsAnswered
  BY DEF Init, PassedSteps, StepsInOrder, CompletedIsAnswered
<1> QED  BY <1>1, LeaseInvInit DEF JournalInv

LEMMA JournalInvStep == JournalInv /\ [Next]_vars => JournalInv'
<1> SUFFICES ASSUME JournalInv, [Next]_vars PROVE JournalInv'
  OBVIOUS
<1>1. LeaseInv'
  BY LeaseInvStep DEF JournalInv
<1>2. CASE Next
  BY <1>1, <1>2, PassedStepsStep, StepsInOrderStep, CompletedIsAnsweredStep
     DEF JournalInv, LeaseInv
<1>3. CASE UNCHANGED vars
  <2>1. PassedSteps' /\ StepsInOrder' /\ CompletedIsAnswered'
    BY <1>3 DEF JournalInv, PassedSteps, StepsInOrder, CompletedIsAnswered, vars
  <2> QED  BY <1>1, <2>1 DEF JournalInv
<1> QED  BY <1>2, <1>3

(* completeStep is called in program order: a worker that resumes a prompt *)
(* finds a prefix of its steps, whoever recorded them and whoever crashed. *)
THEOREM JournalInOrder == Spec => []StepsInOrder
<1>1. JournalInv => StepsInOrder
  BY DEF JournalInv
<1> QED  BY <1>1, JournalInvInit, JournalInvStep, PTL DEF Spec

(* No run is marked completed unless finalize-prompt or prompt-error has   *)
(* been recorded for it, by this worker or by the one it replaced.         *)
THEOREM CompletedRunsAreAnswered == Spec => []CompletedIsAnswered
<1>1. JournalInv => CompletedIsAnswered
  BY DEF JournalInv
<1> QED  BY <1>1, JournalInvInit, JournalInvStep, PTL DEF Spec

-----------------------------------------------------------------------------
(* Exclusion *)

(* Only Claim starts an execution. *)
LEMMA ExecutionStarts ==
    ASSUME TypeOK, NEW w \in Workers, WorkerStep(w), Executing(w)', ~ Claim(w)
    PROVE  Executing(w) /\ job'[w] = job[w]
<1> USE DEF TypeOK, Executing, Goto, Leave
<1>1. CASE \E r \in Runs : Dispatch(w, r)
  BY <1>1 DEF Dispatch
<1>2. CASE ClaimLost(w) \/ Activate(w) \/ Check(w) \/ Execute(w) \/ WorkDone(w)
           \/ WorkYields(w) \/ RecordStep(w) \/ MarkWaiting(w) \/ Crash(w)
  BY <1>2 DEF ClaimLost, Activate, Check, Execute, WorkDone, WorkYields, RecordStep,
              MarkWaiting, Crash
<1>3. CASE Replay(w) \/ Recheck(w)
  BY <1>3 DEF Replay, Recheck
<1>4. CASE NoticeCancel(w) \/ Throw(w)
  BY <1>4 DEF NoticeCancel, Throw, Raise
<1>5. CASE Complete(w) \/ Deactivate(w) \/ CancelRun(w) \/ StandDown(w)
           \/ MarkPromptCancelled(w) \/ Release(w) \/ Fail(w) \/ MarkPromptError(w)
  BY <1>5 DEF Complete, Deactivate, CancelRun, StandDown, MarkPromptCancelled, Release,
              Fail, MarkPromptError
<1> QED
  BY <1>1, <1>2, <1>3, <1>4, <1>5 DEF WorkerStep

(* A worker executes after a step of the system only if it did before, or  *)
(* has just claimed its run.                                               *)
LEMMA ExecutingBefore ==
    ASSUME TypeOK, Next, NEW w \in Workers, Executing(w)', ~ Claim(w)
    PROVE  Executing(w) /\ job'[w] = job[w]
<1>1. ASSUME NEW v \in Workers, WorkerStep(v) PROVE Executing(w) /\ job'[w] = job[w]
  BY <1>1, ExecutionStarts, WorkersApart DEF Executing
<1>2. ASSUME NEW q \in Requests, RequestStep(q) PROVE Executing(w) /\ job'[w] = job[w]
  BY <1>2, RequestsApart DEF Executing, workerVars
<1>3. CASE Tick
  BY <1>3 DEF Tick, Expire, Wake, Executing, workerVars
<1> QED  BY <1>1, <1>2, <1>3 DEF Next, Tick

LEMMA OverrunsGrow ==
    ASSUME TypeOK, Next, overruns' = 0
    PROVE  overruns = 0
<1>1. overruns \in Nat
  BY ConstantsAssumption DEF TypeOK
<1>2. ASSUME NEW w \in Workers, WorkerStep(w) PROVE overruns' = overruns
  BY <1>2 DEF envVars,
           WorkerStep, Dispatch, Claim, ClaimLost, Activate, Check, Execute, Replay,
           Recheck, NoticeCancel, Throw, WorkDone, WorkYields, RecordStep, Complete,
           Deactivate, CancelRun, StandDown, MarkPromptCancelled, MarkWaiting, Release,
           Fail, MarkPromptError, Crash
<1>3. ASSUME NEW q \in Requests, RequestStep(q) PROVE overruns' = overruns
  BY <1>3, RequestsApart
<1>4. ASSUME NEW r \in Runs, Expire(r) PROVE overruns = 0
  BY <1>1, <1>4 DEF Expire
<1>5. CASE Wake
  BY <1>5 DEF Wake, envVars
<1> QED  BY <1>2, <1>3, <1>4, <1>5 DEF Next

(* The first part of LeaseHeld: how a worker that executes still owns its  *)
(* row, whatever is done to it.                                            *)
LEMMA ExecutorsHoldTheirLease ==
    ASSUME LeaseInv, LeaseHeld, Next, overruns = 0,
           NEW w \in Workers, Executing(w)
    PROVE  owner'[job[w]] = w \/ status'[job[w]] = "cancelled" \/ ~ Executing(w)'
<1> USE DEF LeaseInv, TypeOK
<1>1. job[w] \in Runs /\ status[job[w]] # "none" /\ pc[w] # "off"
  BY DEF Located, Executing
<1>2. owner[job[w]] = w \/ status[job[w]] = "cancelled"
  BY DEF LeaseHeld
<1>3. owner[job[w]] = w => /\ expiry[job[w]] = "future"
                           /\ status[job[w]] \in {"running", "cancel_requested"}
  BY <1>1, ConstantsAssumption DEF LeaseHeld, LeaseWellFormed
<1>4. ASSUME NEW v \in Workers, WorkerStep(v)
      PROVE  owner'[job[w]] = w \/ status'[job[w]] = "cancelled" \/ ~ Executing(w)'
  <2>1. CASE UNCHANGED rowVars
    BY <1>2, <2>1 DEF rowVars
  <2>2. CASE Claim(v)
    BY <1>1, <1>2, <1>3, <2>2 DEF Claim, Claimable
  <2>3. CASE HandsBack(v)
    <3>1. CASE v = w
      BY <2>3, <3>1 DEF HandsBack, Release, Complete, Fail, Executing, Goto, Leave
    <3>2. CASE v # w
      <4>1. CASE OwnsItsRow(v)
        BY <1>1, <1>2, <1>3, <2>3, <3>2, <4>1, ConstantsAssumption
           DEF HandsBack, HandBack, OwnsItsRow, LeaseWellFormed
      <4>2. CASE ~ OwnsItsRow(v)
        BY <1>2, <2>3, <4>2 DEF HandsBack, HandBack, rowVars
      <4> QED  BY <4>1, <4>2
    <3> QED  BY <3>1, <3>2
  <2>4. CASE CancelRun(v)
    BY <1>1, <1>2, <2>4 DEF CancelRun, CancelRow
  <2> QED  BY <1>4, <2>1, <2>2, <2>3, <2>4, WorkerRowEffect
<1>5. ASSUME NEW q \in Requests, RequestStep(q)
      PROVE  owner'[job[w]] = w \/ status'[job[w]] = "cancelled"
  <2>1. CASE UNCHANGED rowVars
    BY <1>2, <2>1 DEF rowVars
  <2>2. CASE CreateRun(q)
    BY <1>1, <1>2, <2>2 DEF CreateRun
  <2>3. CASE RequestCancel(q)
    BY <1>1, <1>2, <2>3 DEF RequestCancel
  <2>4. CASE CancelFound(q)
    BY <1>1, <1>2, <2>4 DEF CancelFound, CancelRow
  <2> QED  BY <1>5, <2>1, <2>2, <2>3, <2>4, RequestRowEffect
<1>6. CASE Tick
  BY <1>1, <1>2, <1>6 DEF Tick, Expire, Wake
<1> QED  BY <1>4, <1>5, <1>6 DEF Next, Tick

(* The second part: the lease of a live worker has not run out. *)
LEMMA LiveLeasesStay ==
    ASSUME LeaseInv, LeaseHeld, Next, overruns = 0, overruns' = 0,
           NEW w \in Workers, NEW r \in Runs, owner'[r] = w, pc'[w] # "off"
    PROVE  expiry'[r] = "future"
<1> USE DEF LeaseInv, TypeOK
<1>0. owner[r] = w /\ pc[w] # "off" => /\ expiry[r] = "future"
                                       /\ status[r] \in {"running", "cancel_requested"}
  BY ConstantsAssumption DEF LeaseHeld, LeaseWellFormed
<1>1. ASSUME NEW v \in Workers, WorkerStep(v) PROVE expiry'[r] = "future"
  <2>1. CASE UNCHANGED rowVars
    <3>1. CASE pc[w] # "off"
      BY <1>0, <2>1, <3>1 DEF rowVars
    <3>2. CASE pc[w] = "off"
      <4>1. v = w
        BY <1>1, <3>2, WorkersApart
      <4>2. \E s \in Runs : Dispatch(w, s)
        BY <1>1, <3>2, <4>1
           DEF WorkerStep, Claim, ClaimLost, Activate, Check, Execute, Replay, Recheck,
               NoticeCancel, Throw, WorkDone, WorkYields, RecordStep, Complete,
               Deactivate, CancelRun, StandDown, MarkPromptCancelled, MarkWaiting,
               Release, Fail, MarkPromptError, Crash
      <4> QED  BY <2>1, <4>2 DEF Dispatch, rowVars
    <3> QED  BY <3>1, <3>2
  <2>2. CASE Claim(v)
    BY <1>0, <1>1, <2>2, WorkersApart DEF Claim, Located
  <2>3. CASE HandsBack(v)
    <3>1. pc[v] # "off" /\ job[v] \in Runs
      BY <2>3 DEF HandsBack, Executing, Located
    <3>2. pc[w] # "off"
      BY <1>1, <3>1, WorkersApart
    <3> QED
      BY <1>0, <2>3, <3>1, <3>2, ConstantsAssumption
         DEF HandsBack, HandBack, OwnsItsRow, rowVars
  <2>4. CASE CancelRun(v)
    <3>1. pc[v] # "off" /\ job[v] \in Runs
      BY <2>4 DEF CancelRun, Located
    <3>2. pc[w] # "off"
      BY <1>1, <3>1, WorkersApart
    <3> QED  BY <1>0, <2>4, <3>1, <3>2, ConstantsAssumption DEF CancelRun, CancelRow
  <2> QED  BY <1>1, <2>1, <2>2, <2>3, <2>4, WorkerRowEffect
<1>2. ASSUME NEW q \in Requests, RequestStep(q) PROVE expiry'[r] = "future"
  <2>0. pc[w] # "off"
    BY <1>2, RequestsApart DEF workerVars
  <2>1. CASE UNCHANGED rowVars
    BY <1>0, <2>0, <2>1 DEF rowVars
  <2>2. CASE CreateRun(q)
    BY <1>0, <2>0, <2>2, ConstantsAssumption DEF CreateRun
  <2>3. CASE RequestCancel(q)
    BY <1>0, <2>0, <2>3 DEF RequestCancel
  <2>4. CASE CancelFound(q)
    BY <1>0, <2>0, <2>4, ConstantsAssumption DEF CancelFound, CancelRow, Located
  <2> QED  BY <1>2, <2>1, <2>2, <2>3, <2>4, RequestRowEffect
<1>3. ASSUME NEW s \in Runs, Expire(s) PROVE expiry'[r] = "future"
  BY <1>0, <1>3 DEF Expire, workerVars
<1>4. CASE Wake
  BY <1>0, <1>4 DEF Wake, workerVars
<1> QED  BY <1>1, <1>2, <1>3, <1>4 DEF Next

LEMMA LeaseHeldStep ==
    ASSUME LeaseInv, LeaseHeld, Next
    PROVE  LeaseHeld'
<1> SUFFICES ASSUME overruns' = 0
             PROVE  /\ \A w \in Workers : Executing(w)' =>
                          owner'[job'[w]] = w \/ status'[job'[w]] = "cancelled"
                    /\ \A r \in Runs, w \in Workers :
                          owner'[r] = w /\ pc'[w] # "off" => expiry'[r] = "future"
  BY DEF LeaseHeld
<1>1. overruns = 0
  BY OverrunsGrow DEF LeaseInv
<1>2. ASSUME NEW w \in Workers, Executing(w)'
      PROVE  owner'[job'[w]] = w \/ status'[job'[w]] = "cancelled"
  <2>1. CASE Claim(w)
    BY <2>1 DEF Claim, LeaseInv, TypeOK, Located
  <2>2. CASE ~ Claim(w)
    BY <1>1, <1>2, <2>2, ExecutingBefore, ExecutorsHoldTheirLease DEF LeaseInv
  <2> QED  BY <2>1, <2>2
<1>3. ASSUME NEW r \in Runs, NEW w \in Workers, owner'[r] = w, pc'[w] # "off"
      PROVE  expiry'[r] = "future"
  BY <1>1, <1>3, LiveLeasesStay
<1> QED  BY <1>2, <1>3

(* Two workers on a run that was cancelled under them were there before:   *)
(* a cancelled run cannot be claimed.  So LeaseHeld alone is not enough,   *)
(* and the exclusion is part of the invariant.                             *)
LEMMA ExclusionStep ==
    ASSUME ExclusionInv, Next
    PROVE  NoConcurrentExecution'
<1> SUFFICES ASSUME overruns' = 0, NEW v \in Workers, NEW w \in Workers,
                    Executing(v)', Executing(w)', job'[v] = job'[w]
             PROVE  v = w
  BY DEF NoConcurrentExecution, Executing
<1>1. LeaseInv /\ TypeOK /\ LeaseHeld /\ overruns = 0
  BY OverrunsGrow DEF ExclusionInv, LeaseInv
<1>2. ASSUME NEW u \in Workers, NEW x \in Workers, Executing(x)', job'[u] = job'[x],
             Claim(u)
      PROVE  u = x
  <2>1. job[u] \in Runs /\ job'[u] = job[u]
    BY <1>1, <1>2 DEF Claim, LeaseInv, Located
  <2>2. owner'[job'[u]] = u /\ status'[job'[u]] = "running"
    BY <1>1, <1>2, <2>1 DEF Claim, TypeOK
  <2>3. owner'[job'[x]] = x \/ status'[job'[x]] = "cancelled"
    BY <1>1, <1>2, LeaseHeldStep DEF LeaseHeld
  <2> QED  BY <1>2, <2>2, <2>3
<1>3. CASE ~ Claim(v) /\ ~ Claim(w)
  <2>1. Executing(v) /\ Executing(w) /\ job[v] = job[w]
    BY <1>1, <1>3, ExecutingBefore
  <2> QED  BY <1>1, <2>1 DEF ExclusionInv, NoConcurrentExecution
<1> QED  BY <1>2, <1>3

LEMMA ExclusionInvInit == Init => ExclusionInv
<1> SUFFICES ASSUME Init PROVE ExclusionInv
  OBVIOUS
<1>1. LeaseHeld /\ NoConcurrentExecution
  BY ConstantsAssumption DEF Init, LeaseHeld, NoConcurrentExecution, Executing
<1> QED  BY <1>1, LeaseInvInit DEF ExclusionInv

LEMMA ExclusionInvStep == ExclusionInv /\ [Next]_vars => ExclusionInv'
<1> SUFFICES ASSUME ExclusionInv, [Next]_vars PROVE ExclusionInv'
  OBVIOUS
<1>1. LeaseInv'
  BY LeaseInvStep DEF ExclusionInv
<1>2. CASE Next
  BY <1>1, <1>2, LeaseHeldStep, ExclusionStep DEF ExclusionInv
<1>3. CASE UNCHANGED vars
  <2>1. LeaseHeld' /\ NoConcurrentExecution'
    BY <1>3 DEF ExclusionInv, LeaseHeld, NoConcurrentExecution, Executing, vars
  <2> QED  BY <1>1, <2>1 DEF ExclusionInv
<1> QED  BY <1>2, <1>3

(* The lease excludes: while no live worker has outlived its 120 s, no two *)
(* workers execute the steps of one prompt, however many are dispatched,   *)
(* crash, fail or are released, and whatever the HTTP handlers do.         *)
THEOREM LeaseExcludes == Spec => []NoConcurrentExecution
<1>1. ExclusionInv => NoConcurrentExecution
  BY DEF ExclusionInv
<1> QED  BY <1>1, ExclusionInvInit, ExclusionInvStep, PTL DEF Spec

-----------------------------------------------------------------------------
(* The refinement *)

Outcome == [r \in Runs |-> OutcomeOf(r)]

LEMMA JobInit == Init => Job!Init
  BY DEF Init, Job!Init, OutcomeOf, Active

LEMMA CancelRefines ==
    ASSUME TypeOK, NEW r \in Runs, status[r] # "none", CancelRow(r), memo' = memo
    PROVE  Job!Cancel(r)
  BY DEF TypeOK, CancelRow, Job!Cancel, OutcomeOf, Active

(* Worker steps that do not touch the journal *)
LEMMA WorkerRefines ==
    ASSUME JournalInv, NEW w \in Workers, WorkerStep(w), memo' = memo
    PROVE  Outcome' = Outcome \/ Job!Next
<1> USE DEF JournalInv, LeaseInv, TypeOK
<1>1. CASE UNCHANGED rowVars
  BY <1>1 DEF rowVars, Outcome, OutcomeOf
<1>2. CASE Claim(w)
  BY <1>2 DEF Claim, Claimable, Outcome, OutcomeOf, Active
<1>3. CASE HandsBack(w)
  <2>1. job[w] \in Runs
    BY <1>3 DEF HandsBack, Executing, Located
  <2>2. CASE ~ OwnsItsRow(w)
    BY <1>3, <2>2 DEF HandsBack, HandBack, rowVars, Outcome, OutcomeOf
  <2>3. CASE OwnsItsRow(w)
    <3>1. status[job[w]] \in {"running", "cancel_requested"}
      BY <2>1, <2>3, ConstantsAssumption DEF OwnsItsRow, LeaseWellFormed
    <3>2. CASE Release(w) /\ HandBack(w, "runnable", "future")
      BY <2>1, <2>3, <3>1, <3>2 DEF HandBack, Outcome, OutcomeOf, Active
    <3>3. CASE Complete(w) /\ HandBack(w, "completed", "null")
      <4>1. Job!Complete(job[w])
        BY <2>1, <2>3, <3>1, <3>3
           DEF HandBack, Complete, PassedSteps, OutcomeOf, Active, Job!Complete, Job!Answered
      <4> QED  BY <2>1, <4>1 DEF Job!Next
    <3>4. CASE Fail(w) /\ HandBack(w, "error", "null")
      <4>1. Job!Fail(job[w])
        BY <2>1, <2>3, <3>1, <3>4 DEF HandBack, Fail, OutcomeOf, Active, Job!Fail
      <4> QED  BY <2>1, <4>1 DEF Job!Next
    <3> QED  BY <1>3, <3>2, <3>3, <3>4 DEF HandsBack
  <2> QED  BY <2>2, <2>3
<1>4. CASE CancelRun(w)
  <2>1. job[w] \in Runs /\ status[job[w]] # "none" /\ CancelRow(job[w])
    BY <1>4 DEF CancelRun, Located
  <2> QED  BY <2>1, CancelRefines DEF Job!Next
<1> QED  BY <1>1, <1>2, <1>3, <1>4, WorkerRowEffect

LEMMA RequestRefines ==
    ASSUME JournalInv, NEW q \in Requests, RequestStep(q)
    PROVE  Outcome' = Outcome \/ Job!Next
<1> USE DEF JournalInv, LeaseInv, TypeOK
<1>0. memo' = memo
  BY RequestsApart
<1>1. CASE UNCHANGED rowVars
  BY <1>1 DEF rowVars, Outcome, OutcomeOf
<1>2. CASE CreateRun(q)
  <2>1. PICK r \in Runs : status[r] = "none" /\ status' = [status EXCEPT ![r] = "runnable"]
    BY <1>2 DEF CreateRun
  <2>2. Job!Accept(r)
    BY <1>0, <2>1 DEF Job!Accept, OutcomeOf, Active
  <2> QED  BY <2>2 DEF Job!Next
<1>3. CASE RequestCancel(q)
  BY <1>3 DEF RequestCancel, Outcome, OutcomeOf, Active
<1>4. CASE CancelFound(q)
  <2>1. found[q] \in Runs /\ status[found[q]] # "none" /\ CancelRow(found[q])
    BY <1>4 DEF CancelFound, Located
  <2> QED  BY <1>0, <2>1, CancelRefines DEF Job!Next
<1> QED  BY <1>1, <1>2, <1>3, <1>4, RequestRowEffect

LEMMA JobStep == JournalInv /\ [Next]_vars => [Job!Next]_Job!jobVars
<1> SUFFICES ASSUME JournalInv, [Next]_vars
             PROVE  Job!Next \/ (Outcome' = Outcome /\ memo' = memo)
  BY DEF Job!jobVars, Outcome
<1>1. ASSUME NEW w \in Workers, RecordStep(w)
      PROVE  Job!Next
  <2>1. job[w] \in Runs /\ status[job[w]] # "none"
    BY <1>1 DEF RecordStep, JournalInv, LeaseInv, Located
  <2>2. step[w] \in 0 .. FinalStep \cup {ErrorStep}
    BY StepFacts, ConstantsAssumption
       DEF JournalInv, LeaseInv, TypeOK, Steps, FinalStep, ErrorStep
  <2>3. Job!Record(job[w], step[w])
    BY <1>1, <2>1 DEF RecordStep, JournalInv, LeaseInv, TypeOK, PassedSteps, rowVars,
                      OutcomeOf, Active, Job!Record, Job!InOrder
  <2> QED  BY <2>1, <2>2, <2>3 DEF Job!Next
<1>2. ASSUME NEW w \in Workers, WorkerStep(w), ~ RecordStep(w)
      PROVE  Job!Next \/ (Outcome' = Outcome /\ memo' = memo)
  <2>1. memo' = memo
    BY <1>2, OnlyRecordStepRecords
  <2> QED  BY <1>2, <2>1, WorkerRefines
<1>3. ASSUME NEW q \in Requests, RequestStep(q)
      PROVE  Job!Next \/ (Outcome' = Outcome /\ memo' = memo)
  BY <1>3, RequestRefines, RequestsApart
<1>4. CASE Tick
  BY <1>4 DEF Tick, Expire, Wake, Outcome, OutcomeOf
<1>5. CASE UNCHANGED vars
  BY <1>5 DEF vars, Outcome, OutcomeOf
<1> QED  BY <1>1, <1>2, <1>3, <1>4, <1>5 DEF Next, Tick

(* The whole machinery of leases, replays and retries keeps the promises   *)
(* of PromptJob: steps recorded in order, never taken back, completion     *)
(* only after the answer, no way back from a settled outcome.              *)
THEOREM RunsImplementPromptJob == Spec => ImplementsPromptJob
  BY JobInit, JobStep, JournalInvInit, JournalInvStep, PTL
     DEF Spec, ImplementsPromptJob, Job!Spec

-----------------------------------------------------------------------------
(* The session is given back *)

(* A row that has not been created has no steps. *)
FreshRows == \A r \in Runs : status[r] = "none" => memo[r] = {}

(* The last stages of a request and of a worker that changes the session.  *)
LastStages == {"create", "save"}
LateStages == {"stand_down", "mark_idle", "mark_error"}

Held ==
    \/ \E r \in Runs : Outstanding(r)
    \/ \E q \in Requests : rpc[q] \in LastStages
    \/ \E w \in Workers : pc[w] \in LateStages

HeldInv == JournalInv /\ FreshRows /\ ProcessingIsHeld

LEMMA FreshRowsStep ==
    ASSUME TypeOK, Located, FreshRows, Next
    PROVE  FreshRows'
<1> SUFFICES ASSUME NEW r \in Runs, status'[r] = "none" PROVE memo'[r] = {}
  BY DEF FreshRows
<1>1. status[r] = "none" /\ memo[r] = {}
  BY RowsStay DEF FreshRows
<1>2. ASSUME NEW w \in Workers, WorkerStep(w) PROVE memo'[r] = {}
  <2>1. CASE RecordStep(w)
    <3>1. job[w] \in Runs /\ status[job[w]] # "none"
      BY <2>1 DEF Located, RecordStep
    <3> QED  BY <1>1, <2>1, <3>1 DEF TypeOK, RecordStep
  <2>2. CASE ~ RecordStep(w)
    BY <1>1, <1>2, <2>2, OnlyRecordStepRecords
  <2> QED  BY <2>1, <2>2
<1>3. ASSUME NEW q \in Requests, RequestStep(q) PROVE memo'[r] = {}
  BY <1>1, <1>3, RequestsApart
<1>4. CASE Tick
  BY <1>1, <1>4 DEF Tick, Expire, Wake
<1> QED  BY <1>2, <1>3, <1>4 DEF Next, Tick

(* A worker saves the session at the end of its prompt, and nowhere else.  *)
LEMMA WorkerSaves ==
    ASSUME TypeOK, NEW w \in Workers, WorkerStep(w), session' = "processing", ~ cutShort'
    PROVE  /\ session = "processing" /\ ~ cutShort
           /\ pc[w] \in LateStages => StandDown(w)
           /\ WorkDone(w) => step[w] \notin {FinalStep, ErrorStep}
<1>0. /\ pc \in [Workers -> WorkerStages] /\ step[w] \in Steps
      /\ faults \in Nat /\ crashes \in Nat /\ cutShort \in BOOLEAN
  BY ConstantsAssumption DEF TypeOK
<1>1. CASE WorkDone(w)
  <2>1. step[w] \notin {FinalStep, ErrorStep}
    BY <1>0, <1>1, StepFacts DEF WorkDone
  <2>2. session' = session /\ cutShort' = cutShort /\ pc[w] = "work"
    BY <1>1, <2>1 DEF WorkDone, envVars
  <2> QED  BY <2>1, <2>2 DEF LateStages
<1>2. CASE Crash(w)
  <2>1. session' = session /\ ~ cutShort /\ pc[w] \notin LateStages
    BY <1>0, <1>2 DEF Crash, LateStages
  <2>2. ~ WorkDone(w)
    BY <1>0, <1>2 DEF Crash, WorkDone, envVars
  <2> QED  BY <2>1, <2>2
<1>3. CASE \/ \E r \in Runs : Dispatch(w, r)
           \/ Claim(w) \/ ClaimLost(w) \/ Activate(w)
           \/ Check(w) \/ Replay(w) \/ Execute(w)
  BY <1>3 DEF Dispatch, Claim, ClaimLost, Activate, Check, Replay, Execute, envVars,
              WorkDone, LateStages
<1>4. CASE WorkYields(w) \/ RecordStep(w) \/ Recheck(w) \/ NoticeCancel(w)
  <2>1. session' = session /\ cutShort' = cutShort
    BY <1>4 DEF WorkYields, RecordStep, Recheck, NoticeCancel, envVars
  <2>2. pc[w] \notin LateStages
    BY <1>4 DEF WorkYields, RecordStep, Recheck, NoticeCancel, LateStages
  <2>3. ~ WorkDone(w)
    BY <1>0, <1>4 DEF WorkYields, RecordStep, Recheck, NoticeCancel, WorkDone, Goto
  <2> QED  BY <2>1, <2>2, <2>3
<1>5. CASE Throw(w)
  <2>1. session' = session /\ cutShort' = cutShort /\ pc[w] \notin LateStages
    BY <1>5 DEF Throw, LateStages
  <2>2. ~ WorkDone(w)
    BY <1>0, <1>5 DEF Throw, WorkDone, envVars
  <2> QED  BY <2>1, <2>2
<1>6. CASE \/ Complete(w) \/ Deactivate(w) \/ CancelRun(w) \/ StandDown(w)
           \/ MarkWaiting(w) \/ Release(w) \/ Fail(w)
  <2>1. session' = session /\ cutShort' = cutShort
    BY <1>6 DEF Complete, Deactivate, CancelRun, StandDown, MarkWaiting, Release, Fail,
                envVars
  <2>2. pc[w] \in LateStages => StandDown(w)
    BY <1>6 DEF Complete, Deactivate, CancelRun, MarkWaiting, Release, Fail, LateStages
  <2>3. ~ WorkDone(w)
    BY <1>6 DEF Complete, Deactivate, CancelRun, StandDown, MarkWaiting, Release, Fail,
                WorkDone
  <2> QED  BY <2>1, <2>2, <2>3
<1>7. CASE MarkPromptCancelled(w) \/ MarkPromptError(w)
  BY <1>7 DEF MarkPromptCancelled, MarkPromptError
<1> QED  BY <1>1, <1>2, <1>3, <1>4, <1>5, <1>6, <1>7 DEF WorkerStep

(* The only way to completeStep is the return of a step's callback. *)
LEMMA EntersRecord ==
    ASSUME TypeOK, NEW w \in Workers, WorkerStep(w), pc'[w] = "record"
    PROVE  WorkDone(w)
<1> USE DEF TypeOK, Goto, Leave
<1>1. CASE \/ \E r \in Runs : Dispatch(w, r)
           \/ Claim(w) \/ ClaimLost(w) \/ Activate(w) \/ Check(w) \/ Execute(w)
  BY <1>1 DEF Dispatch, Claim, ClaimLost, Activate, Check, Execute
<1>2. CASE Replay(w) \/ Recheck(w) \/ NoticeCancel(w)
  BY <1>2 DEF Replay, Recheck, NoticeCancel, Advance, Raise
<1>3. CASE Throw(w)
  BY <1>3 DEF Throw, Raise
<1>4. CASE WorkYields(w) \/ RecordStep(w) \/ Complete(w) \/ Deactivate(w) \/ CancelRun(w)
  BY <1>4 DEF WorkYields, RecordStep, Complete, Deactivate, CancelRun
<1>5. CASE StandDown(w) \/ MarkPromptCancelled(w) \/ MarkWaiting(w) \/ Release(w)
  BY <1>5 DEF StandDown, MarkPromptCancelled, MarkWaiting, Release
<1>6. CASE Fail(w) \/ MarkPromptError(w) \/ Crash(w)
  BY <1>6 DEF Fail, MarkPromptError, Crash
<1> QED  BY <1>1, <1>2, <1>3, <1>4, <1>5, <1>6 DEF WorkerStep

(* What a worker does to a prompt under way leaves it under way, or leaves *)
(* the worker about to save the session.                                   *)
LEMMA WorkerKeepsOutstanding ==
    ASSUME JournalInv, NEW w \in Workers, WorkerStep(w),
           session' = "processing", ~ cutShort',
           NEW r \in Runs, Outstanding(r)
    PROVE  Outstanding(r)' \/ pc'[w] \in LateStages
<1> SUFFICES ASSUME pc'[w] \notin LateStages PROVE Outstanding(r)'
  OBVIOUS
<1>0. TypeOK /\ Located /\ PassedSteps
  BY DEF JournalInv, LeaseInv
<1>1. status'[r] \in {"runnable", "running"}
  <2>1. CASE UNCHANGED rowVars
    BY <2>1 DEF Outstanding, rowVars
  <2>2. CASE Claim(w)
    BY <1>0, <2>2 DEF TypeOK, Claim, Outstanding
  <2>3. CASE Release(w) /\ HandBack(w, "runnable", "future")
    BY <1>0, <2>3 DEF TypeOK, HandBack, Outstanding, rowVars
  <2>4. CASE Complete(w) /\ HandBack(w, "completed", "null")
    <3>1. job[w] # r
      BY <1>0, <2>4 DEF Complete, PassedSteps, Outstanding
    <3> QED  BY <1>0, <2>4, <3>1 DEF TypeOK, HandBack, Outstanding, rowVars
  <2>5. CASE Fail(w)
    BY <1>0, <2>5 DEF TypeOK, Fail, Goto, LateStages
  <2>6. CASE CancelRun(w)
    BY <1>0, <2>6 DEF TypeOK, CancelRun, Goto, LateStages
  <2> QED  BY <2>1, <2>2, <2>3, <2>4, <2>5, <2>6, WorkerRowEffect DEF HandsBack
<1>2. FinalStep \notin memo'[r] /\ ErrorStep \notin memo'[r]
  <2>1. CASE ~ RecordStep(w)
    BY <2>1, OnlyRecordStepRecords DEF Outstanding
  <2>2. CASE RecordStep(w) /\ job[w] # r
    BY <1>0, <2>2 DEF TypeOK, RecordStep, Outstanding
  <2>3. CASE RecordStep(w) /\ job[w] = r
    <3>1. step[w] \notin {FinalStep, ErrorStep}
      BY <1>0, <2>3, StepFacts DEF RecordStep, Outstanding
    <3> QED  BY <1>0, <2>3, <3>1 DEF TypeOK, RecordStep, Outstanding
  <2> QED  BY <2>1, <2>2, <2>3
<1>3. ASSUME NEW v \in Workers, job'[v] = r, step'[v] >= FinalStep, pc'[v] = "record"
      PROVE  FALSE
  <2>1. CASE v # w
    BY <1>3, <2>1, <1>0, WorkersApart DEF Outstanding
  <2>2. CASE v = w
    <3>1. WorkDone(w)
      BY <1>0, <1>3, <2>2, EntersRecord
    <3>2. step[w] \notin {FinalStep, ErrorStep} /\ step'[w] = step[w]
      BY <1>0, <3>1, WorkerSaves DEF WorkDone
    <3>3. step[w] \in Steps
      BY <1>0 DEF TypeOK
    <3> QED  BY <1>3, <2>2, <3>2, <3>3, StepFacts
  <2> QED  BY <2>1, <2>2
<1> QED  BY <1>1, <1>2, <1>3 DEF Outstanding

LEMMA HeldByWorker ==
    ASSUME JournalInv, NEW w \in Workers, WorkerStep(w),
           session' = "processing", ~ cutShort', Held
    PROVE  Held'
<1>0. TypeOK
  BY DEF JournalInv, LeaseInv
<1>1. ASSUME NEW r \in Runs, Outstanding(r) PROVE Held'
  BY <1>1, WorkerKeepsOutstanding DEF Held
<1>2. ASSUME NEW q \in Requests, rpc[q] \in LastStages PROVE Held'
  BY <1>0, <1>2, WorkersApart DEF Held, requestVars
<1>3. ASSUME NEW v \in Workers, pc[v] \in LateStages PROVE Held'
  <2>1. CASE v # w
    BY <1>0, <1>3, <2>1, WorkersApart DEF Held
  <2>2. CASE v = w
    <3>1. StandDown(w)
      BY <1>0, <1>3, <2>2, WorkerSaves
    <3>2. pc'[w] = "mark_idle"
      BY <1>0, <3>1 DEF TypeOK, StandDown, Goto
    <3> QED  BY <3>2 DEF Held, LateStages
  <2> QED  BY <2>1, <2>2
<1> QED  BY <1>1, <1>2, <1>3 DEF Held

LEMMA HeldByRequest ==
    ASSUME JournalInv, FreshRows, NEW q \in Requests, RequestStep(q),
           session' = "processing", ~ cutShort',
           session = "processing" => cutShort \/ Held
    PROVE  Held'
<1>0. TypeOK /\ Located
  BY DEF JournalInv, LeaseInv
<1>a. UNCHANGED workerVars /\ UNCHANGED memo
  BY RequestsApart
<1>1. CASE MarkProcessing(q)
  <2>1. rpc'[q] = "create"
    BY <1>0, <1>1 DEF TypeOK, MarkProcessing, GotoStage
  <2> QED  BY <2>1 DEF Held, LastStages
<1>2. CASE CreateRun(q)
  <2>1. PICK r \in Runs : status[r] = "none" /\ status'[r] = "runnable"
    BY <1>0, <1>2 DEF TypeOK, CreateRun
  <2>2. memo'[r] = {}
    BY <1>a, <2>1 DEF FreshRows
  <2>3. \A w \in Workers : pc'[w] = "record" => job'[w] # r
    BY <1>0, <1>a, <2>1 DEF Located, workerVars
  <2>4. Outstanding(r)'
    BY <2>1, <2>2, <2>3 DEF Outstanding
  <2> QED  BY <2>4 DEF Held
<1>3. CASE SaveSession(q)
  BY <1>3 DEF SaveSession
<1>4. CASE /\ ~ MarkProcessing(q) /\ ~ CreateRun(q) /\ ~ SaveSession(q)
  <2>0. RequestLost(q) => session' = session /\ (cutShort => cutShort')
    BY DEF RequestLost
  <2>1. session = "processing" /\ ~ cutShort
    BY <1>4, <2>0 DEF RequestStep, ReceiveChat, ReceiveEnd, ReceivePoll, Receive,
                FindActive, FindNoActive, AbortNothing, RequestCancel, CancelFound,
                DeactivateSession, envVars
  <2>2. Held
    BY <2>1
  <2>3. ASSUME NEW p \in Requests, rpc[p] \in LastStages PROVE Held'
    <3>1. CASE p = q
      BY <1>4, <2>3, <3>1
         DEF RequestStep, ReceiveChat, ReceiveEnd, ReceivePoll, Receive, FindActive,
             FindNoActive, AbortNothing, RequestCancel, CancelFound,
             DeactivateSession, RequestLost, LastStages
    <3>2. CASE p # q
      <4>1. rpc'[p] = rpc[p]
        BY <1>0, <1>4, <3>2
           DEF TypeOK, RequestStep, ReceiveChat, ReceiveEnd, ReceivePoll, Receive,
               FindActive, FindNoActive, AbortNothing, RequestCancel, CancelFound,
               DeactivateSession, RequestLost, GotoStage, Respond
      <4> QED  BY <2>3, <4>1 DEF Held
    <3> QED  BY <3>1, <3>2
  <2>4. ASSUME NEW w \in Workers, pc[w] \in LateStages PROVE Held'
    BY <1>a, <2>4 DEF Held, workerVars
  <2>5. CASE RequestCancel(q) \/ CancelFound(q)
    <3>1. rpc'[q] = "save"
      BY <1>0, <2>5 DEF TypeOK, RequestCancel, CancelFound, GotoStage
    <3> QED  BY <3>1 DEF Held, LastStages
  <2>6. ASSUME NEW r \in Runs, Outstanding(r), ~ (RequestCancel(q) \/ CancelFound(q))
        PROVE  Held'
    <3>1. UNCHANGED rowVars
      BY <1>4, <2>6, RequestRowEffect
    <3>2. Outstanding(r)'
      BY <1>a, <2>6, <3>1 DEF Outstanding, rowVars, workerVars
    <3> QED  BY <3>2 DEF Held
  <2> QED  BY <2>2, <2>3, <2>4, <2>5, <2>6 DEF Held
<1> QED  BY <1>1, <1>2, <1>3, <1>4

LEMMA HeldIs == ProcessingIsHeld <=> (session = "processing" => cutShort \/ Held)
  BY DEF ProcessingIsHeld, Held, LastStages, LateStages

LEMMA ProcessingIsHeldStep ==
    ASSUME JournalInv, FreshRows, ProcessingIsHeld, Next
    PROVE  ProcessingIsHeld'
<1> SUFFICES ASSUME session' = "processing", ~ cutShort' PROVE Held'
  BY HeldIs DEF ProcessingIsHeld, Held, LastStages, LateStages
<1>0. TypeOK
  BY DEF JournalInv, LeaseInv
<1>1. session = "processing" => cutShort \/ Held
  BY HeldIs
<1>2. ASSUME NEW w \in Workers, WorkerStep(w) PROVE Held'
  BY <1>0, <1>1, <1>2, WorkerSaves, HeldByWorker
<1>3. ASSUME NEW q \in Requests, RequestStep(q) PROVE Held'
  BY <1>1, <1>3, HeldByRequest
<1>4. CASE Tick
  <2>1. UNCHANGED <<status, memo, session, workerVars, requestVars, cutShort>>
    BY <1>4 DEF Tick, Expire, Wake, envVars
  <2>2. Held
    BY <1>1, <2>1
  <2> QED  BY <2>1, <2>2 DEF Held, Outstanding, workerVars, requestVars
<1> QED  BY <1>2, <1>3, <1>4 DEF Next, Tick

LEMMA HeldInvInit == Init => HeldInv
<1> SUFFICES ASSUME Init PROVE HeldInv
  OBVIOUS
<1>1. FreshRows /\ ProcessingIsHeld
  BY DEF Init, FreshRows, ProcessingIsHeld
<1> QED  BY <1>1, JournalInvInit DEF HeldInv

LEMMA HeldInvStep == HeldInv /\ [Next]_vars => HeldInv'
<1> SUFFICES ASSUME HeldInv, [Next]_vars PROVE HeldInv'
  OBVIOUS
<1>1. JournalInv' /\ JournalInv /\ TypeOK /\ Located
  BY JournalInvStep DEF HeldInv, JournalInv, LeaseInv
<1>2. CASE Next
  BY <1>1, <1>2, FreshRowsStep, ProcessingIsHeldStep DEF HeldInv
<1>3. CASE UNCHANGED vars
  <2>1. FreshRows' /\ ProcessingIsHeld'
    BY <1>3 DEF HeldInv, FreshRows, ProcessingIsHeld, Outstanding, vars
  <2> QED  BY <1>1, <2>1 DEF HeldInv
<1> QED  BY <1>2, <1>3

(* Whoever overlaps, a session marked "processing" has a prompt under way  *)
(* or somebody about to save another status, unless the one about to do so *)
(* has been lost.  All handlers, overrun leases, losses and exceptions are *)
(* in it, and any number of prompts side by side.                          *)
THEOREM SessionsAreGivenBack == Spec => []ProcessingIsHeld
<1>1. HeldInv => ProcessingIsHeld
  BY DEF HeldInv
<1> QED  BY <1>1, HeldInvInit, HeldInvStep, PTL DEF Spec

=============================================================================
