---------------------------- MODULE PromptReplay ----------------------------
(***************************************************************************)
(* processPrompt: how the prompts of a session are carried through by      *)
(* workers that stop, at a crash or to wait for a tool, and start again    *)
(* from the top.                                                           *)
(*                                                                         *)
(* A worker keeps its conversation in memory (cur).  Each step saves the   *)
(* conversation it produces (stored) and only then records it in the       *)
(* journal under a name made of the step's position and its id.  The next  *)
(* worker walks through the journal until a name is missing, and goes on   *)
(* from there; but if the stored conversation is waiting for a tool, it    *)
(* skips to that tool and counts positions and turns from zero.            *)
(*                                                                         *)
(* One worker at a time: the lease of SessionRuns sees to that.            *)
(* Cancellation, and a second fault while one is reported, are modelled    *)
(* there.  Events and messages shown to the user are not kept.             *)
(***************************************************************************)
EXTENDS AgentTurns

CONSTANTS
    MaxPrompts,  \* prompts of the session, one after the other (bound)
    MaxTurns,    \* the prompt's limit, 20 when the request gives none
    MaxCalls,    \* tool calls the model makes in one answer (bound)
    Detached,    \* calls of tools that may go on in the background
    MaxCrashes,  \* workers lost in mid-flight (bound)
    MaxFaults,   \* statements and model calls that throw (bound)
    MaxWaits     \* steps that end waiting for a tool (bound)

ASSUME ReplayAssumption ==
    /\ MaxTurns \in Nat \ {0}
    /\ Detached \subseteq CallIds

VARIABLES
    stored,      \* session_runtime.workflow_session_json
    row,         \* sessions.status
    prompts,     \* how many prompts have been given
    open,        \* the latest of them has not been completed
    journal,     \* session_run_steps of the latest prompt
    toolRun,     \* tool_runs.status of each call
    pc,          \* where the worker is
    cur, work,   \* its conversation, before and after the step
    index,       \* agentStep, the position of the step
    turnsDone,   \* completedTurns
    results,     \* the tool calls of the step, as they end
    issued,      \* tool calls the model has made; their ids are never reused
    crashes, faults, waits

tables == <<stored, row, journal, toolRun>>
worker == <<cur, work, index, turnsDone, results>>
outside == <<prompts, open, issued, crashes, faults, waits>>
vars == <<tables, pc, worker, outside>>

Stages ==
    {"off", "enqueue", "first_answer", "record_prompt", "resume", "step", "tools",
     "record", "limit", "stop", "record_stop", "record_final", "complete", "yield",
     "report", "report_row", "record_report"}

NoResults == [c \in {} |-> "none"]

(* The names of steps *)
Key(name, at, step) == [name |-> name, index |-> at, step |-> step]

-----------------------------------------------------------------------------
(* Faulty variants: each breaks a property in place of the definition      *)
(* whose name begins its own.                                              *)

StepKeyCountingTheJournal == Key("agent", Cardinality(DOMAIN journal), NextStep(cur))

SaveWorkWithNewMessages(s) ==
    /\ work' = s
    /\ stored' = IF Len(s.history) = Len(stored.history) THEN stored ELSE s

RowStatusUnlessFailed(s) == IF s.status = "error" THEN row ELSE "idle"

-----------------------------------------------------------------------------

EnqueueKey == Key("enqueue-prompt", 0, NoStep)
LimitKey == Key("max-turns", 0, NoStep)
FinalKey == Key("finalize-prompt", 0, NoStep)
ErrorKey == Key("prompt-error", 0, NoStep)
StepKey == Key("agent", index, NextStep(cur))

Recorded(key) == key \in DOMAIN journal

(* completeStep keeps the first result of a name. *)
Record(key, s) ==
    journal' = [k \in DOMAIN journal \cup {key} |-> IF k \in DOMAIN journal THEN journal[k] ELSE s]

Init ==
    /\ stored = EmptySession
    /\ row = "idle"
    /\ prompts = 0 /\ open = FALSE
    /\ journal = <<>>
    /\ toolRun = [c \in CallIds |-> "none"]
    /\ pc = "off"
    /\ cur = EmptySession /\ work = EmptySession
    /\ index = 0 /\ turnsDone = 0 /\ results = NoResults
    /\ issued = 0
    /\ crashes = 0 /\ faults = 0 /\ waits = 0

Leave ==
    /\ pc' = "off"
    /\ cur' = EmptySession /\ work' = EmptySession
    /\ index' = 0 /\ turnsDone' = 0 /\ results' = NoResults

-----------------------------------------------------------------------------

(* The chat handler accepts a prompt and creates its run. *)
GivePrompt ==
    /\ ~ open /\ pc = "off" /\ prompts < MaxPrompts
    /\ prompts' = prompts + 1
    /\ open' = TRUE
    /\ row' = "processing"
    /\ journal' = <<>>
    /\ UNCHANGED <<stored, toolRun, pc, worker, issued, crashes, faults, waits>>

(* A worker claims the run. *)
Start ==
    /\ open /\ pc = "off"
    /\ pc' = "enqueue"
    /\ UNCHANGED <<tables, worker, outside>>

SaveWork(s) == work' = s /\ stored' = s

ReplayEnqueue ==
    /\ pc = "enqueue"
    /\ Recorded(EnqueueKey)
    /\ cur' = journal[EnqueueKey]
    /\ pc' = "resume"
    /\ UNCHANGED <<tables, work, index, turnsDone, results, outside>>

(* The first step appends the prompt to the stored conversation, saves it, *)
(* asks the model at once and saves again: two saves, one journal entry.   *)
SavePrompt ==
    /\ pc = "enqueue"
    /\ ~ Recorded(EnqueueKey)
    /\ SaveWork(EnqueuePrompt(stored))
    /\ pc' = "first_answer"
    /\ UNCHANGED <<row, journal, toolRun, cur, index, turnsDone, results, outside>>

(* The model makes up to MaxCalls new tool calls, or none, and may fail. *)
ModelAnswers(s) ==
    \E n \in 0 .. MaxCalls, failed \in BOOLEAN :
        /\ issued + 1 .. issued + n \subseteq CallIds
        /\ failed => faults < MaxFaults
        /\ issued' = issued + n
        /\ faults' = IF failed THEN faults + 1 ELSE faults
        /\ SaveWork(Answer(s, issued + 1 .. issued + n, failed))

FirstAnswer ==
    /\ pc = "first_answer"
    /\ ModelAnswers(work)
    /\ pc' = "record_prompt"
    /\ UNCHANGED <<row, journal, toolRun, cur, index, turnsDone, results,
                   prompts, open, crashes, waits>>

RecordPrompt ==
    /\ pc = "record_prompt"
    /\ Record(EnqueueKey, work)
    /\ cur' = work
    /\ pc' = "resume"
    /\ UNCHANGED <<stored, row, toolRun, work, index, turnsDone, results, outside>>

(* pendingToolFallbackDelay *)
Waiting(s, calls) ==
    \E c \in calls : s.calls[c] = "running" /\ toolRun[c] = "running"

(* A stored conversation that waits for a tool replaces the replayed one. *)
Resume ==
    /\ pc = "resume"
    /\ cur' = IF Waiting(stored, CallIds) THEN stored ELSE cur
    /\ pc' = "step"
    /\ UNCHANGED <<tables, work, index, turnsDone, results, outside>>

NewStep(type) == pc = "step" /\ NextStep(cur).type = type /\ ~ Recorded(StepKey)

Ask ==
    /\ NewStep("assistant")
    /\ ModelAnswers(cur)
    /\ pc' = "record"
    /\ UNCHANGED <<row, journal, toolRun, cur, index, turnsDone, results,
                   prompts, open, crashes, waits>>

EndTurn ==
    /\ NewStep("complete")
    /\ SaveWork(CompleteTurn(cur))
    /\ pc' = "record"
    /\ UNCHANGED <<row, journal, toolRun, cur, index, turnsDone, results, outside>>

StartTools ==
    /\ NewStep("tool")
    /\ results' = [c \in NextStep(cur).calls |-> "none"]
    /\ pc' = "tools"
    /\ UNCHANGED <<tables, cur, work, index, turnsDone, outside>>

(* The calls of a step run side by side.  One that has ended before gives  *)
(* its stored result; any other is marked running and runs, or is polled.  *)
BeginTool(c) ==
    /\ pc = "tools" /\ c \in DOMAIN results
    /\ results[c] = "none"
    /\ IF toolRun[c] = "finished"
       THEN results' = [results EXCEPT ![c] = "finished"] /\ UNCHANGED toolRun
       ELSE /\ results' = [results EXCEPT ![c] = "executing"]
            /\ toolRun' = [toolRun EXCEPT ![c] = "running"]
    /\ UNCHANGED <<stored, row, journal, pc, cur, work, index, turnsDone, outside>>

EndTool(c) ==
    /\ pc = "tools" /\ c \in DOMAIN results
    /\ results[c] = "executing"
    /\ \/ /\ results' = [results EXCEPT ![c] = "finished"]
          /\ toolRun' = [toolRun EXCEPT ![c] = "finished"]
       \/ /\ c \in Detached /\ waits < MaxWaits
          /\ results' = [results EXCEPT ![c] = "running"]
          /\ UNCHANGED toolRun
    /\ UNCHANGED <<stored, row, journal, pc, cur, work, index, turnsDone, outside>>

SaveTools ==
    /\ pc = "tools"
    /\ \A c \in DOMAIN results : results[c] \in {"finished", "running"}
    /\ SaveWork(FinishCalls(cur, results))
    /\ IF Waiting(work', DOMAIN results)
       THEN pc' = "yield" /\ waits' = waits + 1
       ELSE pc' = "record" /\ UNCHANGED waits
    /\ results' = NoResults
    /\ UNCHANGED <<row, journal, toolRun, cur, index, turnsDone,
                   prompts, open, issued, crashes, faults>>

(* PendingToolYield: nothing is recorded, the run is released. *)
Yield ==
    /\ pc = "yield"
    /\ Leave
    /\ UNCHANGED <<tables, outside>>

Proceed(s) ==
    /\ cur' = s
    /\ index' = index + 1
    /\ turnsDone' = IF NextStep(cur).type = "complete" THEN turnsDone + 1 ELSE turnsDone
    /\ pc' = "limit"

RecordStep ==
    /\ pc = "record"
    /\ Record(StepKey, work)
    /\ Proceed(work)
    /\ UNCHANGED <<stored, row, toolRun, work, results, outside>>

ReplayStep ==
    /\ pc = "step"
    /\ NextStep(cur) # NoStep
    /\ Recorded(StepKey)
    /\ Proceed(journal[StepKey])
    /\ UNCHANGED <<tables, work, results, outside>>

LimitReached == turnsDone >= MaxTurns

CheckLimit ==
    /\ pc = "limit"
    /\ pc' = IF NextStep(cur) # NoStep /\ LimitReached THEN "stop" ELSE "step"
    /\ UNCHANGED <<tables, worker, outside>>

StopAtLimit ==
    /\ pc = "stop"
    /\ ~ Recorded(LimitKey)
    /\ SaveWork([cur EXCEPT !.status = "error"])
    /\ pc' = "record_stop"
    /\ UNCHANGED <<row, journal, toolRun, cur, index, turnsDone, results, outside>>

RecordStop ==
    /\ pc = "record_stop"
    /\ Record(LimitKey, work)
    /\ cur' = work
    /\ pc' = "step"
    /\ UNCHANGED <<stored, row, toolRun, work, index, turnsDone, results, outside>>

ReplayStop ==
    /\ pc = "stop"
    /\ Recorded(LimitKey)
    /\ cur' = journal[LimitKey]
    /\ pc' = "step"
    /\ UNCHANGED <<tables, work, index, turnsDone, results, outside>>

AtEnd == pc = "step" /\ NextStep(cur) = NoStep

RowStatus(s) == IF s.status = "error" THEN "error" ELSE "idle"

Finalize ==
    /\ AtEnd /\ ~ Recorded(FinalKey)
    /\ row' = RowStatus(cur)
    /\ pc' = "record_final"
    /\ UNCHANGED <<stored, journal, toolRun, worker, outside>>

RecordFinal ==
    /\ pc = "record_final"
    /\ Record(FinalKey, cur)
    /\ pc' = "complete"
    /\ UNCHANGED <<stored, row, toolRun, worker, outside>>

ReplayFinal ==
    /\ AtEnd /\ Recorded(FinalKey)
    /\ pc' = "complete"
    /\ UNCHANGED <<tables, worker, outside>>

Complete ==
    /\ pc = "complete"
    /\ open' = FALSE
    /\ Leave
    /\ UNCHANGED <<tables, prompts, issued, crashes, faults, waits>>

(* Something throws inside a step: processPrompt reports it and ends. *)
Fault ==
    /\ pc \notin {"off", "yield", "complete", "report", "report_row", "record_report"}
    /\ faults < MaxFaults
    /\ faults' = faults + 1
    /\ pc' = "report"
    /\ UNCHANGED <<tables, worker, prompts, open, issued, crashes, waits>>

(* markPromptError saves the stored conversation, whatever the worker has  *)
(* in memory, with an error, and then the row: two statements.             *)
SaveError ==
    /\ pc = "report"
    /\ IF Recorded(ErrorKey)
       THEN pc' = "complete" /\ UNCHANGED stored
       ELSE pc' = "report_row" /\ stored' = [stored EXCEPT !.status = "error"]
    /\ UNCHANGED <<row, journal, toolRun, worker, outside>>

SaveErrorRow ==
    /\ pc = "report_row"
    /\ row' = "error"
    /\ pc' = "record_report"
    /\ UNCHANGED <<stored, journal, toolRun, worker, outside>>

Report == SaveError \/ SaveErrorRow

RecordReport ==
    /\ pc = "record_report"
    /\ Record(ErrorKey, cur)
    /\ pc' = "complete"
    /\ UNCHANGED <<stored, row, toolRun, worker, outside>>

Crash ==
    /\ pc # "off"
    /\ crashes < MaxCrashes
    /\ crashes' = crashes + 1
    /\ Leave
    /\ UNCHANGED <<tables, prompts, open, issued, faults, waits>>

Progress ==
    \/ Start
    \/ ReplayEnqueue \/ SavePrompt \/ FirstAnswer \/ RecordPrompt \/ Resume
    \/ Ask \/ EndTurn
    \/ StartTools \/ SaveTools \/ Yield
    \/ \E c \in CallIds : BeginTool(c) \/ EndTool(c)
    \/ RecordStep \/ ReplayStep
    \/ CheckLimit \/ StopAtLimit \/ RecordStop \/ ReplayStop
    \/ Finalize \/ RecordFinal \/ ReplayFinal \/ Complete
    \/ Report \/ RecordReport

Next == GivePrompt \/ Progress \/ Fault \/ Crash

Spec == Init /\ [][Next]_vars

(* A worker that lives goes on, and a released run is claimed again. *)
FairSpec == Spec /\ WF_vars(Progress)

-----------------------------------------------------------------------------
(* Properties *)

Sessions == [status : {"idle", "running", "error"},
             turns : Seq([status : TurnStatuses, calls : SUBSET CallIds]),
             history : Seq([role : {"user", "assistant", "toolResult"},
                            calls : SUBSET CallIds]),
             calls : [CallIds -> CallStatuses]]

(* What a model provider accepts: every tool result it is sent belongs to  *)
(* the answer before it, and every call of an answer has one result.       *)
WellAnswered(history) ==
    \A i \in Sanitize(history) :
        /\ history[i].role = "toolResult" =>
              \E k \in Sanitize(history) : Answers(history, k, i)
        /\ history[i].role = "assistant" =>
              \A c \in history[i].calls :
                  \E j \in Sanitize(history) :
                      {k \in Sanitize(history) :
                          Answers(history, i, k) /\ history[k].calls = {c}} = {j}

PromptsIn(s) == Cardinality({i \in DOMAIN s.history : s.history[i].role = "user"})

AsksWith(s) ==
    \/ pc = "first_answer" /\ s = work
    \/ NewStep("assistant") /\ s = cur

(* Whatever has been replayed, repeated or waited for, the model is asked  *)
(* with a history in which every tool call has exactly one result, in its  *)
(* place; unless a worker was lost inside enqueue-prompt, or a step threw. *)
CallsAnswered ==
    faults = 0 =>
        \A s \in {cur, work} :
            AsksWith(s) /\ PromptsIn(s) = prompts => WellAnswered(s.history)

(* The same turns, messages and tool calls.  The status is set again by    *)
(* whatever prompt comes next, and a report may have left "error" in it.   *)
SameContext(s, t) == [s EXCEPT !.status = t.status] = t

(* "persistent context": the conversation a prompt leaves for the next one *)
(* is the one its last worker has come to.                                 *)
ContextPersists == pc = "record_final" => SameContext(stored, cur)

(* Crashes alone and waits alone do no harm; a crash after a wait may.     *)
Undisturbed == crashes = 0 \/ waits = 0

(* However many workers a prompt takes, none repeats a step whose result   *)
(* has been kept: no step is recorded under two names.                     *)
RecordedOnce ==
    Undisturbed =>
        \A k1, k2 \in DOMAIN journal :
            k1.step = k2.step /\ k1.name = k2.name => k1 = k2

(* ... and the conversation in the database and the one in the journal     *)
(* are the same when the prompt ends, even if a step threw and the worker  *)
(* that was reporting it was lost.                                         *)
ContextPersistsUndisturbed == Undisturbed => ContextPersists

(* Every prompt is answered or reported, and the session is free again.    *)
EveryPromptEnds == open ~> ~ open /\ row \in {"idle", "error"}

=============================================================================
