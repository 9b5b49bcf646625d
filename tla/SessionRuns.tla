----------------------------- MODULE SessionRuns -----------------------------
(***************************************************************************)
(* The durable execution of the prompts of ONE session.                    *)
(*                                                                         *)
(* Each prompt is a row of session_runs.  A worker is one invocation of    *)
(* runSessionRun: it claims the row under a 120 s lease that is never      *)
(* renewed, executes the prompt as a sequence of named steps whose results *)
(* are memoised in session_run_steps, and then completes, fails, cancels   *)
(* or releases the row.  Requests are the HTTP handlers that start a       *)
(* prompt or end it from outside: chat, close, abort, kill, and the poll   *)
(* that gives up on a session it finds stuck.  All of them share nothing   *)
(* but the database: one action is one statement of one of them.           *)
(*                                                                         *)
(* Abstractions.  A prompt has AgentSteps agent steps; what a step does to *)
(* the conversation is not kept here, only whether it ends, throws or      *)
(* yields to a tool that is still running.  Time is two actions, Expire    *)
(* (a stored lease_expires_at is now in the past) and Wake.  Run ids grow  *)
(* with created_at.                                                        *)
(***************************************************************************)
EXTENDS Naturals, FiniteSets

CONSTANTS
    MaxRuns,      \* prompts the session is given (bound)
    Workers,      \* invocations of runSessionRun that can be alive at once
    Requests,     \* HTTP requests that can be in progress at once
    Operations,   \* the handlers requests may call
    AgentSteps,   \* agent steps between enqueueing a prompt and its end
    ToolSteps,    \* those of them that run tools, and so may yield
    MaxCrashes,   \* workers and requests lost in mid-flight (bound)
    MaxFaults,    \* statements and model calls that throw (bound)
    MaxOverruns,  \* leases that end while their worker is alive (bound)
    NoWorker      \* the owner of a row whose lease_owner is null

ASSUME ConstantsAssumption ==
    /\ NoWorker \notin Workers
    /\ MaxRuns \in Nat /\ AgentSteps \in Nat
    /\ MaxCrashes \in Nat /\ MaxFaults \in Nat /\ MaxOverruns \in Nat
    /\ ToolSteps \subseteq 1 .. AgentSteps
    /\ Operations \subseteq {"chat", "close", "abort", "kill", "poll"}

Runs == 1 .. MaxRuns
NoRun == 0

(* enqueue-prompt, agent-0 .. agent-n, finalize-prompt; and prompt-error *)
FinalStep == AgentSteps + 1
ErrorStep == AgentSteps + 2
Steps == 0 .. ErrorStep

RunStatuses ==
    {"runnable", "running", "completed", "error", "cancel_requested", "cancelled"}
Active == {"runnable", "running", "cancel_requested"}
Settled == {"completed", "error", "cancelled"}
Cancelling == {"cancel_requested", "cancelled"}
SessionStatuses == {"absent", "idle", "processing", "error", "closed"}

VARIABLES
    \* session_runs: status, lease_owner and lease_expires_at of each run
    status, owner, expiry,
    \* session_run_steps: the names of the completed steps of each run
    memo,
    \* sessions.status and session_runtime.active
    session, active,
    \* each worker: where it is, the run it claimed, the step it is at
    pc, job, step,
    \* each request: its handler, where it is in it, the run it found
    op, rpc, found,
    \* how often the environment has misbehaved, and whether it took away
    \* a worker or a request that was about to free the session
    crashes, faults, overruns, cutShort

rowVars == <<status, owner, expiry>>
workerVars == <<pc, job, step>>
requestVars == <<op, rpc, found>>
envVars == <<crashes, faults, overruns, cutShort>>
vars == <<status, owner, expiry, memo, session, active, pc, job, step,
          op, rpc, found, crashes, faults, overruns, cutShort>>

WorkerStages ==
    {"off", "claim", "activate", "check", "lookup", "work", "record", "recheck",
     "complete", "deactivate", "cancel", "stand_down", "mark_idle",
     "wait", "release", "fail", "mark_error"}

RequestStages == {"off", "mark", "create", "find", "cancel", "save", "deactivate"}

Init ==
    /\ status = [r \in Runs |-> "none"]
    /\ owner = [r \in Runs |-> NoWorker]
    /\ expiry = [r \in Runs |-> "null"]
    /\ memo = [r \in Runs |-> {}]
    /\ session = "absent"
    /\ active = FALSE
    /\ pc = [w \in Workers |-> "off"]
    /\ job = [w \in Workers |-> NoRun]
    /\ step = [w \in Workers |-> 0]
    /\ op = [q \in Requests |-> "none"]
    /\ rpc = [q \in Requests |-> "off"]
    /\ found = [q \in Requests |-> NoRun]
    /\ crashes = 0 /\ faults = 0 /\ overruns = 0 /\ cutShort = FALSE

-----------------------------------------------------------------------------
(* Faulty variants.  No action uses them: each breaks a property when it   *)
(* stands in for the definition whose name begins its own.                 *)

ClaimableWhileLeased(r) == status[r] \in {"runnable", "running"}

DueUnlessRunning(r) == status[r] = "runnable" /\ expiry[r] \in {"null", "past"}

OwnsItsRowUnchecked(w) == job[w] \in Runs

RaiseSwallowed(w, handler) ==
    /\ pc' = [pc EXCEPT ![w] = IF step[w] = ErrorStep THEN handler ELSE "complete"]
    /\ UNCHANGED step

AdvanceByTwo(w) ==
    LET more == step[w] < AgentSteps
    IN  /\ pc' = [pc EXCEPT ![w] = IF more THEN "check" ELSE "complete"]
        /\ step' = [step EXCEPT ![w] = IF more THEN @ + 2 ELSE @]

MarkPromptErrorUnsaved(w) ==
    /\ pc[w] = "mark_error"
    /\ pc' = [pc EXCEPT ![w] = "off"]
    /\ job' = [job EXCEPT ![w] = NoRun]
    /\ step' = [step EXCEPT ![w] = 0]
    /\ UNCHANGED <<rowVars, memo, session, active, requestVars, envVars>>

-----------------------------------------------------------------------------
(* The worker: recoverSessionRuns, runSessionRun and processPrompt.        *)

Goto(w, stage) == pc' = [pc EXCEPT ![w] = stage]

Leave(w) ==
    /\ pc' = [pc EXCEPT ![w] = "off"]
    /\ job' = [job EXCEPT ![w] = NoRun]
    /\ step' = [step EXCEPT ![w] = 0]

(* listDue: an overdue runnable row, or a lease that has run out. *)
Due(r) ==
    \/ status[r] = "runnable" /\ expiry[r] \in {"null", "past"}
    \/ status[r] = "running" /\ expiry[r] = "past"

(* The WHERE clause of claim; the delay of a released row is not in it. *)
Claimable(r) ==
    \/ status[r] = "runnable"
    \/ status[r] = "running" /\ expiry[r] = "past"

(* The WHERE clause of complete, fail and releaseRunnable. *)
OwnsItsRow(w) == owner[job[w]] = w

(* The chat handler's waitUntil, the cron trigger or a finished tool run   *)
(* starts a worker for a due row.  Its id is a fresh UUID: no row may      *)
(* still name it.                                                          *)
Dispatch(w, r) ==
    /\ pc[w] = "off"
    /\ \A other \in Runs : owner[other] # w
    /\ Due(r)
    /\ Goto(w, "claim")
    /\ job' = [job EXCEPT ![w] = r]
    /\ UNCHANGED <<rowVars, memo, session, active, step, requestVars, envVars>>

Claim(w) ==
    /\ pc[w] = "claim"
    /\ Claimable(job[w])
    /\ status' = [status EXCEPT ![job[w]] = "running"]
    /\ owner' = [owner EXCEPT ![job[w]] = w]
    /\ expiry' = [expiry EXCEPT ![job[w]] = "future"]
    /\ Goto(w, "activate")
    /\ UNCHANGED <<memo, session, active, job, step, requestVars, envVars>>

ClaimLost(w) ==
    /\ pc[w] = "claim"
    /\ ~ Claimable(job[w])
    /\ Leave(w)
    /\ UNCHANGED <<rowVars, memo, session, active, requestVars, envVars>>

Activate(w) ==
    /\ pc[w] = "activate"
    /\ active' = TRUE
    /\ Goto(w, "check")
    /\ UNCHANGED <<rowVars, memo, session, job, step, requestVars, envVars>>

(* An exception leaves a step: processPrompt's catch runs the prompt-error *)
(* step, and an exception of that one reaches runSessionRun's catch.       *)
Raise(w, handler) ==
    IF step[w] = ErrorStep
    THEN Goto(w, handler) /\ UNCHANGED step
    ELSE Goto(w, "check") /\ step' = [step EXCEPT ![w] = ErrorStep]

Advance(w) ==
    IF step[w] >= FinalStep
    THEN Goto(w, "complete") /\ UNCHANGED step
    ELSE Goto(w, "check") /\ step' = [step EXCEPT ![w] = @ + 1]

(* assertCanContinue at the start of a step *)
Check(w) ==
    /\ pc[w] = "check"
    /\ status[job[w]] \notin Cancelling
    /\ Goto(w, "lookup")
    /\ UNCHANGED <<rowVars, memo, session, active, job, step, requestVars, envVars>>

Replay(w) ==
    /\ pc[w] = "lookup"
    /\ step[w] \in memo[job[w]]
    /\ Advance(w)
    /\ UNCHANGED <<rowVars, memo, session, active, job, requestVars, envVars>>

(* getCompletedStep finds nothing under the step's name.  An agent step may *)
(* be recorded under another: an attempt that resumed at a pending tool    *)
(* numbers its steps from zero, so such a step runs a second time.         *)
Execute(w) ==
    /\ pc[w] = "lookup"
    /\ step[w] \notin memo[job[w]] \/ step[w] \in 1 .. AgentSteps
    /\ Goto(w, "work")
    /\ UNCHANGED <<rowVars, memo, session, active, job, step, requestVars, envVars>>

(* The callback returns.  finalize-prompt saves the status of the agent    *)
(* session, prompt-error saves "error"; both overwrite whatever is there.  *)
WorkDone(w) ==
    /\ pc[w] = "work"
    /\ \/ step[w] < FinalStep /\ UNCHANGED session
       \/ step[w] = FinalStep /\ session' \in {"idle", "error"}
       \/ step[w] = ErrorStep /\ session' = "error"
    /\ Goto(w, "record")
    /\ UNCHANGED <<rowVars, memo, active, job, step, requestVars, envVars>>

(* PendingToolYield: the step's tool is still running, nothing is memoised. *)
WorkYields(w) ==
    /\ pc[w] = "work"
    /\ step[w] \in ToolSteps
    /\ Goto(w, "wait")
    /\ UNCHANGED <<rowVars, memo, session, active, job, step, requestVars, envVars>>

(* completeStep: INSERT ... ON CONFLICT DO NOTHING *)
RecordStep(w) ==
    /\ pc[w] = "record"
    /\ memo' = [memo EXCEPT ![job[w]] = @ \cup {step[w]}]
    /\ Goto(w, "recheck")
    /\ UNCHANGED <<rowVars, session, active, job, step, requestVars, envVars>>

(* assertCanContinue at the end of an executed step *)
Recheck(w) ==
    /\ pc[w] = "recheck"
    /\ status[job[w]] \notin Cancelling
    /\ Advance(w)
    /\ UNCHANGED <<rowVars, memo, session, active, job, requestVars, envVars>>

(* Either assertCanContinue throws SessionRunCancelled. *)
NoticeCancel(w) ==
    /\ pc[w] \in {"check", "recheck"}
    /\ status[job[w]] \in Cancelling
    /\ Raise(w, "cancel")
    /\ UNCHANGED <<rowVars, memo, session, active, job, requestVars, envVars>>

(* complete, fail or releaseRunnable: the row leaves the worker's hands if *)
(* it was in them, whatever its status.                                    *)
HandBack(w, newStatus, newExpiry) ==
    IF OwnsItsRow(w)
    THEN /\ status' = [status EXCEPT ![job[w]] = newStatus]
         /\ owner' = [owner EXCEPT ![job[w]] = NoWorker]
         /\ expiry' = [expiry EXCEPT ![job[w]] = newExpiry]
    ELSE UNCHANGED rowVars

Complete(w) ==
    /\ pc[w] = "complete"
    /\ HandBack(w, "completed", "null")
    /\ Goto(w, "deactivate")
    /\ UNCHANGED <<memo, session, active, job, step, requestVars, envVars>>

Deactivate(w) ==
    /\ pc[w] = "deactivate"
    /\ active' = FALSE
    /\ Leave(w)
    /\ UNCHANGED <<rowVars, memo, session, requestVars, envVars>>

(* cancel has no guard at all: it overwrites any status. *)
CancelRow(r) ==
    /\ status' = [status EXCEPT ![r] = "cancelled"]
    /\ owner' = [owner EXCEPT ![r] = NoWorker]
    /\ expiry' = [expiry EXCEPT ![r] = "null"]

CancelRun(w) ==
    /\ pc[w] = "cancel"
    /\ CancelRow(job[w])
    /\ Goto(w, "stand_down")
    /\ UNCHANGED <<memo, session, active, job, step, requestVars, envVars>>

StandDown(w) ==
    /\ pc[w] = "stand_down"
    /\ active' = FALSE
    /\ Goto(w, "mark_idle")
    /\ UNCHANGED <<rowVars, memo, session, job, step, requestVars, envVars>>

(* markPromptCancelled saves "idle" without looking at the stored status. *)
MarkPromptCancelled(w) ==
    /\ pc[w] = "mark_idle"
    /\ session' = "idle"
    /\ Leave(w)
    /\ UNCHANGED <<rowVars, memo, active, requestVars, envVars>>

MarkWaiting(w) ==
    /\ pc[w] = "wait"
    /\ active' = TRUE
    /\ Goto(w, "release")
    /\ UNCHANGED <<rowVars, memo, session, job, step, requestVars, envVars>>

(* The fallback delay of a pending tool is never zero. *)
Release(w) ==
    /\ pc[w] = "release"
    /\ HandBack(w, "runnable", "future")
    /\ Leave(w)
    /\ UNCHANGED <<memo, session, active, requestVars, envVars>>

Fail(w) ==
    /\ pc[w] = "fail"
    /\ HandBack(w, "error", "null")
    /\ Goto(w, "mark_error")
    /\ UNCHANGED <<memo, session, active, job, step, requestVars, envVars>>

MarkPromptError(w) ==
    /\ pc[w] = "mark_error"
    /\ session' = "error"
    /\ Leave(w)
    /\ UNCHANGED <<rowVars, memo, active, requestVars, envVars>>

(* A statement, a model call or a tool throws inside runSessionRun's try. *)
Throw(w) ==
    /\ faults < MaxFaults
    /\ faults' = faults + 1
    /\ \/ /\ pc[w] \in {"check", "lookup", "work", "record", "recheck"}
          /\ Raise(w, "fail")
       \/ /\ pc[w] \in {"activate", "complete", "deactivate"}
          /\ Goto(w, "fail")
          /\ UNCHANGED step
    /\ UNCHANGED <<rowVars, memo, session, active, job, requestVars, crashes, overruns,
                   cutShort>>

(* The isolate is evicted, or a catch block throws: nothing is undone. *)
Crash(w) ==
    /\ crashes < MaxCrashes
    /\ pc[w] # "off"
    /\ crashes' = crashes + 1
    /\ cutShort' = (cutShort \/ pc[w] \in {"stand_down", "mark_idle", "mark_error"})
    /\ Leave(w)
    /\ UNCHANGED <<rowVars, memo, session, active, requestVars, faults, overruns>>

WorkerStep(w) ==
    \/ \E r \in Runs : Dispatch(w, r)
    \/ Claim(w) \/ ClaimLost(w) \/ Activate(w)
    \/ Check(w) \/ Replay(w) \/ Execute(w)
    \/ WorkDone(w) \/ WorkYields(w) \/ RecordStep(w) \/ Recheck(w)
    \/ NoticeCancel(w)
    \/ Complete(w) \/ Deactivate(w)
    \/ CancelRun(w) \/ StandDown(w) \/ MarkPromptCancelled(w)
    \/ MarkWaiting(w) \/ Release(w)
    \/ Fail(w) \/ MarkPromptError(w)
    \/ Throw(w) \/ Crash(w)

-----------------------------------------------------------------------------
(* The HTTP handlers.  Each reads the session first and acts on what it    *)
(* read several statements later.                                          *)

GotoStage(q, stage) == rpc' = [rpc EXCEPT ![q] = stage]

Respond(q) ==
    /\ op' = [op EXCEPT ![q] = "none"]
    /\ rpc' = [rpc EXCEPT ![q] = "off"]
    /\ found' = [found EXCEPT ![q] = NoRun]

Receive(q, operation, stage) ==
    /\ rpc[q] = "off"
    /\ operation \in Operations
    /\ op' = [op EXCEPT ![q] = operation]
    /\ GotoStage(q, stage)
    /\ UNCHANGED <<rowVars, memo, session, active, workerVars, found, envVars>>

(* A closed session answers 410, one that is processing 429. *)
AcceptsPrompt == session \in {"absent", "idle", "error"}

ReceiveChat(q) ==
    /\ AcceptsPrompt
    /\ Cardinality({p \in Requests : op[p] = "chat"})
         < Cardinality({r \in Runs : status[r] = "none"})
    /\ Receive(q, "chat", "mark")

(* close and abort answer 400 when the session is closed, kill does not. *)
ReceiveEnd(q) ==
    \/ session \notin {"absent", "closed"} /\ Receive(q, "close", "find")
    \/ session \notin {"absent", "closed"} /\ Receive(q, "abort", "find")
    \/ session # "absent" /\ Receive(q, "kill", "find")

(* buildSessionResponse finds a session that has been processing too long. *)
ReceivePoll(q) ==
    /\ session = "processing"
    /\ Receive(q, "poll", "save")

(* markProcessing, or the save that creates the session *)
MarkProcessing(q) ==
    /\ op[q] = "chat" /\ rpc[q] = "mark"
    /\ session' = "processing"
    /\ GotoStage(q, "create")
    /\ UNCHANGED <<rowVars, memo, active, workerVars, op, found, envVars>>

CreateRun(q) ==
    /\ op[q] = "chat" /\ rpc[q] = "create"
    /\ \E r \in Runs :
           /\ status[r] = "none"
           /\ \A earlier \in 1 .. (r - 1) : status[earlier] # "none"
           /\ status' = [status EXCEPT ![r] = "runnable"]
           /\ owner' = [owner EXCEPT ![r] = NoWorker]
           /\ expiry' = [expiry EXCEPT ![r] = "null"]
    /\ Respond(q)
    /\ UNCHANGED <<memo, session, active, workerVars, envVars>>

(* findActiveForSession: the oldest run that is not settled *)
OldestActive(r) ==
    /\ status[r] \in Active
    /\ \A earlier \in 1 .. (r - 1) : status[earlier] \notin Active

FindActive(q) ==
    /\ rpc[q] = "find"
    /\ \E r \in Runs :
           /\ OldestActive(r)
           /\ found' = [found EXCEPT ![q] = r]
    /\ GotoStage(q, "cancel")
    /\ UNCHANGED <<rowVars, memo, session, active, workerVars, op, envVars>>

FindNoActive(q) ==
    /\ rpc[q] = "find"
    /\ \A r \in Runs : status[r] \notin Active
    /\ GotoStage(q, "save")
    /\ UNCHANGED <<rowVars, memo, session, active, workerVars, op, found, envVars>>

(* abort, when it has neither a run to cancel nor a tool to stop *)
AbortNothing(q) ==
    /\ op[q] = "abort" /\ rpc[q] = "find"
    /\ \A r \in Runs : status[r] \notin Active
    /\ Respond(q)
    /\ UNCHANGED <<rowVars, memo, session, active, workerVars, envVars>>

(* close only asks the run to stop between steps; its lease stays. *)
RequestCancel(q) ==
    /\ op[q] = "close" /\ rpc[q] = "cancel"
    /\ IF status[found[q]] \in {"runnable", "running"}
       THEN status' = [status EXCEPT ![found[q]] = "cancel_requested"]
       ELSE UNCHANGED status
    /\ GotoStage(q, "save")
    /\ UNCHANGED <<owner, expiry, memo, session, active, workerVars, op, found, envVars>>

CancelFound(q) ==
    /\ op[q] \in {"abort", "kill"} /\ rpc[q] = "cancel"
    /\ CancelRow(found[q])
    /\ GotoStage(q, "save")
    /\ UNCHANGED <<memo, session, active, workerVars, op, found, envVars>>

(* markClosed, or the save of the session as it was read at the start *)
SaveSession(q) ==
    /\ op[q] \in {"close", "kill", "abort", "poll"} /\ rpc[q] = "save"
    /\ session' = CASE op[q] \in {"close", "kill"} -> "closed"
                     [] op[q] = "abort" -> "idle"
                     [] op[q] = "poll" -> "error"
    /\ IF op[q] = "poll"
       THEN Respond(q)
       ELSE GotoStage(q, "deactivate") /\ UNCHANGED <<op, found>>
    /\ UNCHANGED <<rowVars, memo, active, workerVars, envVars>>

DeactivateSession(q) ==
    /\ rpc[q] = "deactivate"
    /\ active' = FALSE
    /\ Respond(q)
    /\ UNCHANGED <<rowVars, memo, session, workerVars, envVars>>

RequestLost(q) ==
    /\ crashes < MaxCrashes
    /\ rpc[q] # "off"
    /\ crashes' = crashes + 1
    /\ cutShort' = (cutShort \/ rpc[q] \in {"create", "save"})
    /\ Respond(q)
    /\ UNCHANGED <<rowVars, memo, session, active, workerVars, faults, overruns>>

RequestStep(q) ==
    \/ ReceiveChat(q) \/ ReceiveEnd(q) \/ ReceivePoll(q)
    \/ MarkProcessing(q) \/ CreateRun(q)
    \/ FindActive(q) \/ FindNoActive(q) \/ AbortNothing(q)
    \/ RequestCancel(q) \/ CancelFound(q)
    \/ SaveSession(q) \/ DeactivateSession(q)
    \/ RequestLost(q)

-----------------------------------------------------------------------------
(* Time                                                                    *)

(* A stored lease_expires_at is now in the past.  When the worker that     *)
(* holds the lease is still at work, it has overrun it.                    *)
Expire(r) ==
    /\ expiry[r] = "future"
    /\ expiry' = [expiry EXCEPT ![r] = "past"]
    /\ IF \E w \in Workers : owner[r] = w /\ pc[w] # "off"
       THEN overruns < MaxOverruns /\ overruns' = overruns + 1
       ELSE UNCHANGED overruns
    /\ UNCHANGED <<status, owner, memo, session, active, workerVars, requestVars,
                   crashes, faults, cutShort>>

(* A detached tool has ended: markTerminal clears the delay of every       *)
(* runnable run of the session.                                            *)
Wake ==
    /\ \E r \in Runs : status[r] = "runnable" /\ expiry[r] # "null"
    /\ expiry' = [r \in Runs |-> IF status[r] = "runnable" THEN "null" ELSE expiry[r]]
    /\ UNCHANGED <<status, owner, memo, session, active, workerVars, requestVars, envVars>>

Next ==
    \/ \E w \in Workers : WorkerStep(w)
    \/ \E q \in Requests : RequestStep(q)
    \/ \E r \in Runs : Expire(r)
    \/ Wake

Spec == Init /\ [][Next]_vars

(* What the platform keeps doing: a live worker goes on, the cron trigger  *)
(* and the clock go on, and a tool that keeps yielding ends at last.       *)
Progress(w) ==
    \/ Claim(w) \/ ClaimLost(w) \/ Activate(w)
    \/ Check(w) \/ Replay(w) \/ Execute(w)
    \/ WorkDone(w) \/ WorkYields(w) \/ RecordStep(w) \/ Recheck(w)
    \/ NoticeCancel(w)
    \/ Complete(w) \/ Deactivate(w)
    \/ CancelRun(w) \/ StandDown(w) \/ MarkPromptCancelled(w)
    \/ MarkWaiting(w) \/ Release(w)
    \/ Fail(w) \/ MarkPromptError(w)

RequestProgress(q) ==
    \/ MarkProcessing(q) \/ CreateRun(q)
    \/ FindActive(q) \/ FindNoActive(q) \/ AbortNothing(q)
    \/ RequestCancel(q) \/ CancelFound(q)
    \/ SaveSession(q) \/ DeactivateSession(q)

Fairness ==
    /\ \A q \in Requests : WF_vars(RequestProgress(q))
    /\ \A w \in Workers : WF_vars(Progress(w))
    /\ \A r \in Runs : WF_vars(Expire(r))
    /\ \A r \in Runs : SF_vars(\E w \in Workers : Dispatch(w, r))
    /\ \A r \in Runs : SF_vars(\E w \in Workers : job[w] = r /\ WorkDone(w))

FairSpec == Spec /\ Fairness

-----------------------------------------------------------------------------
(* Properties                                                              *)

(* Types of the tables and of the local states. *)
TypeOK ==
    /\ status \in [Runs -> RunStatuses \cup {"none"}]
    /\ owner \in [Runs -> Workers \cup {NoWorker}]
    /\ expiry \in [Runs -> {"null", "future", "past"}]
    /\ memo \in [Runs -> SUBSET Steps]
    /\ session \in SessionStatuses
    /\ active \in BOOLEAN
    /\ pc \in [Workers -> WorkerStages]
    /\ job \in [Workers -> Runs \cup {NoRun}]
    /\ step \in [Workers -> Steps]
    /\ op \in [Requests -> Operations \cup {"none"}]
    /\ rpc \in [Requests -> RequestStages]
    /\ found \in [Requests -> Runs \cup {NoRun}]
    /\ crashes \in 0 .. MaxCrashes
    /\ faults \in 0 .. MaxFaults
    /\ overruns \in 0 .. MaxOverruns
    /\ cutShort \in BOOLEAN

(* Whatever crashes, a running row can be claimed again: it has an owner   *)
(* and a lease that will run out.  And no row that is not leased names a   *)
(* worker, so no worker can later complete, fail or release it.            *)
LeaseWellFormed ==
    \A r \in Runs :
        /\ status[r] = "running" => owner[r] # NoWorker /\ expiry[r] # "null"
        /\ owner[r] # NoWorker => status[r] \in {"running", "cancel_requested"}

Executing(w) ==
    pc[w] \in {"activate", "check", "lookup", "work", "record", "recheck",
              "complete", "wait", "release"}

(* The lease: as long as no live worker has overrun it, one worker at most *)
(* is executing a run, through crashes, faults, releases and aborts.       *)
NoConcurrentExecution ==
    overruns = 0 =>
        \A v, w \in Workers :
            Executing(v) /\ Executing(w) /\ job[v] = job[w] => v = w

(* Steps are memoised in program order, however many workers replay them.  *)
StepsInOrder ==
    \A r \in Runs : \A s \in memo[r] :
        s = ErrorStep \/ 0 .. (s - 1) \subseteq memo[r]

(* A completed run has recorded its end, or has reported an error.         *)
CompletedIsAnswered ==
    \A r \in Runs :
        status[r] = "completed" => FinalStep \in memo[r] \/ ErrorStep \in memo[r]

(* No worker, however stale, revives a settled run, and none takes back a  *)
(* cancellation once the row says cancelled.                               *)
SettledForGood ==
    [][\A r \in Runs :
         /\ status[r] \in Settled => status'[r] \in Settled
         /\ status[r] = "cancelled" => status'[r] = "cancelled"]_vars

(* Every accepted prompt settles, whichever worker crashes on it: the cron *)
(* trigger finds it and its lease runs out.                                *)
EveryRunSettles ==
    \A r \in Runs : status[r] = "runnable" ~> status[r] \in Settled

(* The prompt of r is under way: the session has yet to be told its end.   *)
Outstanding(r) ==
    /\ status[r] \in {"runnable", "running"}
    /\ FinalStep \notin memo[r] /\ ErrorStep \notin memo[r]
    /\ \A w \in Workers : ~ (job[w] = r /\ step[w] >= FinalStep /\ pc[w] = "record")

(* "processing" is never left over.  The chat handler reads the status of  *)
(* the session and marks it statements later, so two prompts may run side  *)
(* by side, and a late worker, a close, an abort, a kill or a poll may set *)
(* the status under either of them.  However they overlap and whichever of *)
(* them throws or is lost, a session that is processing has a prompt under *)
(* way, or a request or worker that is about to change it.  The exception  *)
(* is the loss of a request between its last two statements, or of a       *)
(* worker between settling its run and saving the session.                 *)
ProcessingIsHeld ==
    session = "processing" =>
        \/ cutShort
        \/ \E r \in Runs : Outstanding(r)
        \/ \E q \in Requests : rpc[q] \in {"create", "save"}
        \/ \E w \in Workers : pc[w] \in {"stand_down", "mark_idle", "mark_error"}

(* So it accepts prompts again at last, however two prompts overlapped and *)
(* whichever worker threw or was lost, with the same exception.            *)
SessionFreed ==
    session = "processing" ~> session # "processing" \/ cutShort

(* The refinement: a run is a PromptJob. *)
OutcomeOf(r) == IF status[r] \in Active THEN "open" ELSE status[r]

Job == INSTANCE PromptJob WITH
    outcome <- [r \in Runs |-> OutcomeOf(r)],
    recorded <- memo

ImplementsPromptJob == Job!Spec

=============================================================================
