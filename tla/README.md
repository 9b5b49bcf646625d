# Clawflare in TLA+

Clawflare runs an AI agent as a service on Cloudflare Workers. A user sends a
prompt to a session; the server answers at once and carries the prompt out in
the background, through model calls and tools, in invocations of a worker that
the platform may end at any moment. Everything that has to survive is in one
SQL database (D1). This directory is a formal model of that program: TLA+
modules translated from its source, TLC configurations that check them on small
instances, and theorems with proofs for TLAPS.

Paths below are relative to `src/packages/server/src/` unless they start
with `src/`.

Contents: 1 the system, 2 what is hard in it, 3 the modules, 4 the runs,
5 fairness, 6 the proofs, 7 what the code does against its text or its
purpose, 8 what is not modelled, 9 the plan, 10 how to run.

## 1. The system

| Component | State it keeps | Operations | Talks to | Module |
|---|---|---|---|---|
| **Session runs** `data/session-runs.ts`, `runtime/workflow.ts` (`runSessionRun`, `recoverSessionRuns`) | `session_runs` (status, lease owner and expiry), `session_run_steps` (journal) | create, claim, complete, fail, releaseRunnable, requestCancel, cancel, completeStep, listDue | chat and session routes (they create and cancel runs), tool runs (they wake runs), the cron trigger in `index.ts` | `SessionRuns`, `PromptJob` |
| **Prompt replay** `runtime/workflow.ts` (`processPrompt`) | none of its own; reads and writes the journal, the stored conversation, the session row | enqueue, agent steps, turn limit, finalize, error report | the agent, session runs, session runtime | `PromptReplay` |
| **Agent** `runtime/agent.ts` | the conversation: messages, turns, tool calls | enqueuePrompt, determineNextStep, runAssistantStep, runToolBatchStep, completeTurn | model providers, tool execution | `AgentTurns` |
| **Tool execution** `runtime/tool-execution.ts`, `data/tool-runs.ts` | `tool_runs` (status, result, state of a background tool) | runOrResume, markRunning, markTerminal | tools; wakes the runs of the session | `PromptReplay`, `BashCommands` |
| **Sessions and chat** `modules/chat/chat.routes.ts`, `modules/sessions/sessions.routes.ts`, `data/sessions.ts` | `sessions.status`, cursor, model | chat, poll, stream, close, abort, kill, delete | session runs, containers, event log | `SessionRuns`, `EventLog`, `Containers`, `ModelSettings` |
| **Session runtime** `data/snapshots.ts` | `session_runtime`: active flag, waiting mark, stored conversation, hot context | setActive, markWorkflowWaiting, saveWorkflowSession, saveHotContext | workflow, session routes | `SessionRuns`, `PromptReplay`, `ModelSettings` |
| **Event log and messages** `data/sessions.ts`, `data/messages.ts`, `runtime/message-projection.ts`, `runtime/live-event-persister.ts` | `session_events` with sequence numbers, `session_messages` | append, list by cursor, project, flush | workflow, tools, polls; clients follow it | `EventLog` |
| **Accounts and devices** `modules/auth/`, `http/request-context.ts`, `data/auth.ts` | users, passwords, workspaces, mailed tokens, web sessions, access tokens, `device_authorizations` | register, login, logout, forgot, reset, verify; start, approve, deny, poll | clients, GitHub | `Accounts`, `DeviceLogin` |
| **Containers** `data/containers.ts`, `modules/containers/` | containers, their links to sessions, instances | create, attach, unlink, use, destroy | session kill and delete, container tools | `Containers` |
| **Container tools and runtime** `modules/tools/container/`, `src/packages/server/container-runtime/server.mjs` | table of commands, output buffers, files | start, status, cancel; write, append, edit, ls, find, grep | tool runs | `BashCommands`, `Files` |
| **Models and providers** `modules/models/`, `data/models.ts`, `modules/secrets/` | providers with references to secrets, models, the default; the secrets | create, update, delete, choose | sessions and runs resolve a model | `SettingsTables`, `ModelSettings` |
| **Egress** `modules/egress-handlers/`, `egress/gateway.ts` | handlers with references to secrets | configure, switch, delete, route | requests that leave a container | `EgressHandlers` |
| **Web client** `src/packages/web/src/App.tsx`, **terminal** `src/packages/cli/src/tui-app.ts` | what is shown, which session, what runs | prompt, stop, open, new, kill, delete | the routes above | `WebView`, `TerminalView` |
| **Websocket**, **stored code**, **input queue**, **timing** | rows, or nothing | - | - | none, see 8 |

### What makes each part correct

- *Session runs*: while its lease lasts, one worker executes a run; a crash
  anywhere leaves a row that can be claimed again; the journal is written in
  program order; a run that has settled stays settled; every run settles.
- *Prompt replay*: a worker that starts from the top repeats no recorded step;
  the conversation that is kept is the one the prompt came to; the session is
  free again when the prompt ends.
- *Agent*: the model is asked with a history it can accept, each tool call
  answered once and in its place, however the calls ended.
- *Sessions and chat*: a session that is marked as processing is given back,
  however its prompts overlapped.
- *Event log*: a reader with a cursor misses nothing, the messages are what
  replaying the events gives, each answer has its own message, and a client
  that stops reading has read everything.
- *Accounts*: a reset ends what the old password opened; a mailed token works
  once; what was ended stays ended. *Devices*: one token for one code, handed
  out once, of a user who can work with it; nobody polls for ever.
- *Containers*: a kill destroys what is the session's own, all of it and no
  more; what is destroyed stays down. *Commands*: started once, their output
  told in order, ended by a stop, settled in the end. *Files*: edits are atomic
  and stay; walks are complete.
- *Models*: what is in use exists and has its key; a session keeps its model.
  *Egress*: tokens are kept and sent as the rows say.
- *Clients*: what is shown is the session that is selected; Esc stops the
  prompt that loads; a composer that is blocked becomes free.

## 2. What is hard

Nothing in the program is protected by a lock. Handlers and workers are
asynchronous functions that read rows, wait, and write rows; two of them meet
only in the `WHERE` clauses of their statements, and clients overlap their own
requests. So the hazards are

- **a worker that is lost between two statements.** Another one claims the run
  when the lease has run out (120 s, never renewed) and starts `processPrompt`
  from the top, on data the first has half written;
- **a worker that is not lost but slow.** Its lease runs out and a second
  worker executes the same run;
- **a prompt that waits.** When a tool goes on in the background the worker
  yields and the run is released; whoever takes it up does not start from the
  journal but from the stored conversation;
- **handlers that act on what they read several statements ago**: chat on a
  status, abort on a session row, kill on a count of links, an approval on a
  pending code, a deletion on a count of sessions;
- **rows written whole**: messages, references to secrets, egress handlers and
  tool runs are read, changed and written back;
- **two stores without a transaction**: messages and events, rows and secrets,
  rows and instances, the row of a command and its process;
- **exceptions**, which are all turned into an error report of the prompt, even
  the one that means "you have been cancelled";
- **answers that come late** to a client that has gone on to something else.

`PROJECT.json` lists them one by one, at the line where each bites, with the
properties that cover it or the reason none does.

## 3. The modules

| Module | What it is |
|---|---|
| `PromptJob` | abstract: what a durable prompt promises, without workers, leases or retries |
| `SessionRuns` | the rows of `session_runs`, any number of workers, and the HTTP handlers that start and end prompts |
| `SessionRunsProofs` | theorems about `SessionRuns`, and that it implements `PromptJob` |
| `AgentTurns` | the conversation and the pure functions of the agent on it |
| `PromptReplay` | `processPrompt`: one prompt after another, carried out by workers that stop and start again |
| `PromptReplayProofs` | theorems about `PromptReplay` and its conversation |
| `EventLog` | the events and messages of a session, the lanes that report to them, a client that follows |
| `EventLogProofs` | theorems about `EventLog` |
| `BashCommands` | one call of `container_bash`, from the worker to the process |
| `Files` | the file operations of the container runtime, side by side |
| `ContainerToolsProofs` | theorems about `BashCommands` and `Files` |
| `Containers` | the register of containers under requests, tool calls and kills |
| `ContainersProofs` | theorems about `Containers` |
| `Accounts` | passwords, mailed tokens, web sessions and who is asking |
| `DeviceLogin` | one device code, its browsers and its clients |
| `AuthProofs` | theorems about `Accounts` and `DeviceLogin` |
| `SettingsTables`, `ModelSettings`, `EgressHandlers`, `Settings` | the settings of a workspace and their secrets; the last composes the others |
| `SettingsProofs` | theorems about `Settings` |
| `ServerSessions`, `WebView`, `TerminalView`, `Clients` | two clients at work on the sessions of the server; the last composes the others |
| `ClientsProofs` | theorems about `Clients` |
| `MC...` | sets of model values and symmetry for TLC |

The same code is looked at on several scales. `SessionRuns` has many workers
and requests and keeps of a step only its name and whether it ends, throws or
yields. `PromptReplay` has one worker at a time (which is what `LeaseExcludes`
below proves of a run whose lease is not overrun) and keeps what the steps do
to the conversation. `EventLog` keeps what they report, `BashCommands` what one
tool of theirs does. In all modules a request is a process: it stops after each
statement, other requests run there, and it may be lost there.

Many properties end in *Undisturbed* or *Unless...*: the code keeps them only
while certain statements do not interleave. The condition is a history variable
that is set by exactly that interleaving and named in the comment of the
property; section 7 says what happens otherwise. No condition excludes a
component, an actor or a fault as such.

### 3.1 SessionRuns

One session. Each action is one database statement of one worker or request;
between any two of them anything else may happen.

| Variable | Code |
|---|---|
| `status`, `owner`, `expiry` | `session_runs.status`, `lease_owner`, `lease_expires_at` (null, in the future, in the past) |
| `memo` | names of the rows of `session_run_steps`, per run |
| `session`, `active` | `sessions.status`, `session_runtime.active` |
| `pc`, `job`, `step` | a call of `runSessionRun`: the statement it is at, its run, its step |
| `op`, `rpc`, `found` | a request: its handler, the statement it is at, the run it found |
| `crashes`, `faults`, `overruns` | how often the environment has misbehaved |

| Actions | Code |
|---|---|
| `Dispatch` | `listDue` and `recoverSessionRuns`, `waitUntil` of the chat route |
| `Claim`, `ClaimLost` | `claim` and its `WHERE` clause |
| `Activate` | `setActive(true)` |
| `Check`, `Replay`, `Execute`, `RecordStep`, `Recheck`, `NoticeCancel` | `SessionRunCheckpointContext.step` and its two calls of `assertCanContinue` |
| `WorkDone`, `WorkYields` | the callback of a step returns, or throws `PendingToolYield` |
| `Complete`, `Deactivate` | the end of the `try` block |
| `CancelRun`, `StandDown`, `MarkPromptCancelled` | its catch of `SessionRunCancelled` |
| `MarkWaiting`, `Release` | its catch of `PendingToolYield` |
| `Fail`, `MarkPromptError` | its catch of anything else |
| `Throw` | any statement, model call or tool throws; `Raise` sends it to the catch that gets it |
| `Crash`, `RequestLost` | the isolate is evicted (external) |
| `ReceiveChat`, `MarkProcessing`, `CreateRun` | the chat route |
| `ReceiveEnd`, `FindActive`, `FindNoActive`, `AbortNothing`, `RequestCancel`, `CancelFound`, `SaveSession`, `DeactivateSession` | close, abort and kill |
| `ReceivePoll` | `buildSessionResponse`, which gives up on a session that has been processing for 30 minutes |
| `Expire`, `Wake` | time passes a lease; `markTerminal` wakes the runnable runs |

Two choices deserve a word. `assertCanContinue` runs inside `processPrompt`'s
`try`, so a cancellation is first caught there and leads to the
`prompt-error` step, whose own check throws again; only then does it reach
`runSessionRun`. The model keeps this detour (`Raise`). And `Execute` may run
an agent step that is already in `memo`, because a worker that resumes at a
pending tool uses other names for its steps.

`chat` reads the status of the session and marks it statements later, so two
requests that have both read idle both start a run; nothing in the model keeps
them apart, and no property claims that the code does. What the code does keep is
that the mark is not left behind: `ProcessingIsHeld` and `SessionFreed`.
`cutShort` records the loss of a request between its last two statements or of a
worker that has settled its run and not yet saved the session, after which
nobody is left to take the mark away but the recovery of stuck sessions.

### 3.2 PromptReplay and AgentTurns

`AgentTurns` holds the functions of `agent.ts` on a conversation. A message is
its role and the tool calls in it; a tool call is a number; complete, error and
aborted are one status, since no guard tells them apart. `FinishCalls` keeps
the merge of a batch as the code does it: a call that is still running copies
the status of every call in the batch from its own view of the conversation, so
one that has just ended can be put back to running. `Sanitize` is the filter
that drops orphaned and repeated tool results before the model sees them, as
the positions of the messages it keeps: a result stays if nothing but results
is between it and the answer that asked for it, and it is the first. The code
is a loop with a set of open calls; `SanitizeAssumption` in `MCPromptReplay` has
TLC compare the two on every history of up to five messages with two calls.

| Variable | Code |
|---|---|
| `stored` | `session_runtime.workflow_session_json` |
| `row` | `sessions.status` |
| `journal` | `session_run_steps` of the latest prompt: name to conversation |
| `toolRun` | `tool_runs.status` of each call |
| `cur`, `work` | `agentSession`, and the conversation a step has produced |
| `index`, `turnsDone` | `agentStep`, `completedTurns` |
| `results` | the calls of a tool step, as they end |
| `pc`, `open`, `prompts`, `issued` | where the worker is; the prompt is not completed; prompts given; tool calls made |

| Actions | Code in `processPrompt` |
|---|---|
| `GivePrompt`, `Start` | the chat route creates the run, a worker claims it |
| `SavePrompt`, `FirstAnswer`, `RecordPrompt`, `ReplayEnqueue` | `enqueue-prompt`: two saves, a model call, one journal entry; or the entry |
| `Resume` | the stored conversation replaces the replayed one if it waits for a tool |
| `Ask`, `EndTurn` | an assistant step, a complete step |
| `StartTools`, `BeginTool`, `EndTool`, `SaveTools`, `Yield` | a tool step: the calls run side by side, end in any order or go on in the background; yield if one does |
| `RecordStep`, `ReplayStep` | the journal entry of a step, or its replay |
| `CheckLimit`, `StopAtLimit`, `RecordStop`, `ReplayStop` | `maxTurns` |
| `Finalize`, `RecordFinal`, `ReplayFinal`, `Complete` | `finalize-prompt` and the end |
| `Fault`, `SaveError`, `SaveErrorRow`, `RecordReport` | an exception and `prompt-error`: `markPromptError` saves the stored conversation with status `error`, then the row, then the step is recorded |
| `Crash` | the worker is lost (external) |

A prompt's step names are records (position, kind of step, turn or calls),
which is what the code's strings encode. Tool calls are numbered by a counter
that never goes back, as the ids a model gives its calls are new each time it
is asked.

### 3.3 EventLog

One session. Whoever reports something reads a message, writes it back changed,
reserves sequence numbers and inserts the events: four statements, in a *lane*
of its own (`worker`, one per tool, `poll` for `recoverStaleCodeToolCalls` and
`stop` for `handleAbortSession`). What changes a message is in `WithText` and
`WithCall`; a text is none, a part or whole.

| Variable | Code |
|---|---|
| `table`, `log` | `session_messages`; `session_events`, each with the copy of the message it carries |
| `counter`, `column` | `session_counters.next_event_sequence`, `sessions.next_event_cursor` |
| `at`, `call`, `lane` | what the worker does next, the calls of its batch, the appends under way |
| `stop`, `cancelled` | a request to stop, with the row it has read; the run is cancelled |
| `client` | a client's cursor, the oldest event it shows, the events it has |

| Actions | Code |
|---|---|
| `WorkerFinds`, `ToolFinds`, `PollFinds`, `WriteMessage` | `projectMessageEvent`, `updateToolCall`: find, then create or update |
| `ReserveSequences`, `InsertEvents` | `EventRepository.append` |
| `SkipUpdate`, `BreakOff`, `ReportStatus` | the live persister drops an update; the model throws; `appendSessionStatusEvent` of an error or a cancellation |
| `NoteAnswer`, `NoteTools`, `NoteEnd`, `ReadCursor`, `Settle` | `completeStep`; `saveSessionMetadata` |
| `NoticeCancel`, `NeverClaimed` | a step sees that its run was cancelled (`markPromptCancelled`); nobody takes the run up |
| `StopSession`, `FindCalls`, `StopFinds`, `StopWrites`, `FindRun`, `CancelRun`, `SaveStopped` | `handleAbortSession`: it reads the row and the stored conversation, reports the calls it ends in one batch, cancels the run and saves the row as it was read, idle |
| `NoticeStuck`, `SaveStuck` | `buildSessionResponse` gives up on a session that has been processing for half an hour: it saves the row it has read with an error, while the worker may go on |
| `NoticeSilence` | a poll finds code that has been silent |
| `Cut` | the worker is lost; the next starts at the first step not recorded (external); a step that has thrown is not recorded |
| `Submit`, `Open`, `GetTail`, `Ask`, `GetPage`, `LoadOlder`, `Drop` | the chat route, `buildSessionResponse`, the event stream, and the clients' cursors |

### 3.4 BashCommands and Files

`BashCommands` is one tool call: the row of its tool run (`row`), the call in
the stored conversation (`call`), the journal (`recorded`), the worker that
visits it (`visit`), the commands of the runtime server (`commands`) and a stop
of the session (`stop`). A visit goes `BeginVisit`, `MarkRunning`,
`ContainerBashStart` or `ContainerBashStatus` (`ContainerBash` on an image
without detached commands), `PersistToolRunOutcome`, `EmitUpdate`,
`SaveWorkflowSession`, `CompleteStepOrYield`. A process puts out pieces
(`Output`), ends (`Close`), is timed out (`Timeout`, `Escalate`) or cancelled;
`Restart` loses the server's table. `CallContainerRuntimeAgain`, `ToolThrows`,
`WorkerLost` and `StartLate` are what goes wrong with requests: each may be
dropped, or arrive after the caller has given up. `proc.killed`, which Node sets
when a signal has been *sent*, is `signalled`. Its definitions are not named like
those of `Files` (`BashSpec`, `slips` for mishaps), so that one module can be
about both.

`Files` has names, inodes and contents (`dir`, `disk`); a content is a sequence
of marks, one per call, so that a property can ask where a change went. An
operation is a series of file-system calls: `Mkdir`, `OpenToWrite`, `Fill` for
write and append; `ReadToEdit`, `OpenTemp`, `WriteTemp`, `Rename` for edit;
`OpenDirectory`, `Visit`, `Leave`, `AnswerWalk` for ls, find and grep.
`CallInVain` is a request whose connection will break before its answer is read,
`SendAgain` its repetition: at any later time, while the server works on the
first or when that is done and others have changed the file since.
`CommandRemoves` is a command that removes a directory under all of them.

### 3.5 Containers

`row`, `link` and `up` are the table of containers, the links and the instances
that run; `req` has what is under way in each slot. `CreateContainer` to
`CallInstance` are creation and attachment, `ToolCall` and
`RequireActiveSessionContainer` the use of a container by an agent, which may
call more than once (`ReadAnswer`) and whose call, broken off by the end of the
instance, is sent again and starts it (`CallAgain`). `CancelCommand` is a stop
of a session, which calls the container of a running command without looking at
its row. A name is given or chosen by counting rows, so `InsertContainer` may be
refused or not. `DestroyInstance` and `MarkDestroyed` are the two halves of a
destruction, `KillSession` to `DeleteSession` the loop of `killSession` over the
containers it has listed. `DestroyFails` and `RequestLost` are the faults.

### 3.6 Accounts and DeviceLogin

`Accounts`: a password is the number of the change that set it; a session or an
access token remembers under which password it was opened. Each handler of
`auth.handlers.ts` is an arrival (`Register`, `Login`, `ForgotPassword`,
`ResetPassword`, `VerifyEmail`, `CookieRequest`, `BearerRequest`) and its
statements, named for the row they touch. `Cut` loses a request, or a statement
of it throws; consuming a reset token is the exception, since
`consumePasswordResetToken` catches what is thrown and the reset goes on
(`ConsumeFails`). `Lapse` lets a token or a session outlive its time.

`DeviceLogin`: one row of `device_authorizations`. `Return` to `StoreApproval`
are the callback of GitHub with `approveDeviceAuthorization` inside it,
`HandleDeviceVerify` and `Deny` the device page, `Poll`, `Retrieve`, `Receive`
a client's loop. A row that was read overdue is marked expired by a statement of
its own, which does not look at the row again (`ExpireByVisit`, `ExpireByPoll`). A
client looks at its own deadline after its sleep, before the next poll
(`TimeOut`). Its definitions are not named like those of `Accounts`
(`LoginSpec`, `accounts`, `members`), so that one module can be about both.

### 3.7 Settings

`SettingsTables` has the tables, the secrets and the slots in which requests
run; `ModelSettings` the requests on providers, models, the default, sessions
and runs; `EgressHandlers` those on handlers and the outgoing requests that use
them. A secret is the pair of its owner and its key. A request is a record:
what it is about, what it has read (`keys`, `models`, `model`), and where it is.
The deletion of a provider is its seven statements (`CountSessions`,
`ListModels`, `ReadDefault`, `DropModels`, `ClearDefault`, `DropProvider` after
`DeleteProvider`). `disturbed` collects which of the exempted interleavings has
happened.

### 3.8 Clients

`ServerSessions` is what the clients see of the server: a status per session,
which prompts, other clients, aborts and kills change. `WebView` is the
component `App` of `App.tsx`: `view` its state and references, `task` its
requests. React's effects are operators on the state (`Cleared`, `Rendered`)
that every change of it goes through (`Becomes`), so an action is an event with
all the effects it sets off, and an abort of a controller marks the task it
belongs to (`aborted`). `OpenContainer` selects the session of a container and
leaves the messages behind its files; `DeleteSessions` deletes one session or,
as `/delete all`, every one. What is asked of a session that was deleted is
`Refused`, but a prompt makes it anew. `TerminalView` is the class of
`tui-app.ts`, with `term` for its fields and `job` for its requests. `Clients`
lets one of the two run beside the server.

## 4. The runs

Every run that must pass checks its properties under the bounds in its `.cfg`,
and each property has a mutant: a plausible bug, written as a definition in the
module under "Faulty variants", with which TLC finds the property violated.

| Run | Instance | Question |
|---|---|---|
| `run_recovery` | one prompt, two workers, one request at a time of any kind, one crash, one fault, one overrun lease | Do the leases exclude, does the journal stay in order, is nothing settled revived, is a run a `PromptJob`? |
| `run_progress` | two prompts, side by side or in turn, two workers, a crash and a fault, fairness | Does each accepted prompt settle? Is a session that is processing given back, however the prompts overlapped? |
| `prompt_replay` | two prompts, three tool calls, two turns, one crash, one fault, two waits, fairness | Is the model asked with well-formed histories? Is no recorded step repeated and the conversation kept? Does each prompt end? |
| `event_log` | two prompts, two tools, one of which runs code, one mishap of any kind (a lost worker, a broken answer, silence, a lost stream, a stop, a session given up as stuck), pages of three events | Does a client that follows, opens or pages get every event? Do messages and events agree? Does each answer have its own message? |
| `event_replay` | one prompt, two tools, no mishap | Is replaying the events the table of messages, as a comment says? **No**, see 7. |
| `bash_commands` | one call, three pieces of output, a buffer of two, one mishap, one stop, both kinds of image, fairness | Is the command started once, its output told in order, does a stop reach it, does the call settle? |
| `files` | three calls, two at a time, two stamps, one mishap, three results per walk | Are edits atomic, do changes stick, are walks complete? |
| `containers` | two sessions, two containers in any register, three requests, two at a time, one mishap | Does a kill take what is the session's and nothing else? Does what is destroyed stay down? |
| `accounts` | one person, six requests, two at a time, one lost or failing unnoticed, one lapse | Does a reset end the old sign-ins, is a token spent once, does nothing ended come back? |
| `device_login` | two clients, two browsers, two people, one lost, fairness | Is one token given once, does it work, does an approved client get in, does nobody poll for ever? |
| `settings` | one provider, two models, one session, one handler, three requests, two at a time, one mishap | Can models in use be found and used, does a session keep its model, are tokens stored and sent as the rows say? |
| `clients` | the web client for two clicks or the terminal for three commands, three requests under way, two sessions, one mishap, fairness | Are the messages those of the session, does Esc reach the prompt, does a blocked composer become free? |

The properties, one line each (the modules state them with their conditions):

- `NoConcurrentExecution`: until a lease is overrun, at most one worker executes
  a run. `StepsInOrder`: steps are recorded in program order.
  `SettledForGood`: no step revives a settled run; it allows completed to
  become cancelled, which `cancel` does without looking.
  `ImplementsPromptJob`: refinement of `PromptJob`, whose runs are not completed
  with nothing recorded. `ProcessingIsHeld`: a session that is processing has a
  prompt under way or somebody about to save another status. `SessionFreed`: it
  stops being so. `EveryRunSettles`: each runnable run settles.
- `CallsAnswered`: each model call gets a history where every tool call has one
  result, right after the answer that made it. `RecordedOnce`: no step is
  recorded under two names. `ContextPersistsUndisturbed`: at the end, the stored
  conversation is the prompt's, its status apart, which an interrupted report of
  an error may have left behind and the next prompt sets again.
  `EveryPromptEnds`: each prompt is answered or reported and the session is
  free.
- `NothingSkippedUnlessOverlapping`: a client has every event from the oldest
  it shows to its cursor. `ReplayRebuildsUnlessDisturbed`: the last event of
  each message is what the table has. `AnswersFollowTheirPrompts`: an answer
  stands below the prompt it answers and is not shared. `FinishedHasAll`: a
  client that has stopped reading has the whole log, unless appends overlapped or
  events came to a session that had stopped (`late`); and those come only of a
  stop, of a session given up as stuck, of a lost worker or of overlaps.
- `CommandStartedOnce`, `OutputShownInOrder`, `StopReachesCommand`,
  `CallSettles`; `EditsAreAtomic`, `ChangesStick`, `WalksAreComplete`;
  `KillSparesSharedUndisturbed`, `KillLeavesNothingBehind`,
  `DestroyedStaysDown`: as their names and the questions above say.
  In `ChangesStick` the repetition of an earlier request counts as a later one: the
  code lets it replace what was written since. `DestroyedStaysDown` excepts the
  containers that were in use when their row was marked, and those a stop called.
- `RevokedOnReset`: nothing opened under an older password is live once a reset
  has been answered. `TokenSpentOnce`: a reset token changes the password once,
  unless it is `doubtful`: two requests had verified it, or the database failed to
  mark it. `EndedForGood`.
  `TokenGivenOnceUnlessContested`, `SignedInWorks`: a token belongs to whom the
  browser signed in as, who has a workspace. `ApprovedGetsIn`: an approved client
  gets in, unless its own deadline passes first or a late expiry undoes the
  approval. `LoginEnds`.
- `ModelsInUseAreLiveUndisturbed`, `LiveModelsHaveTheirKeyUndisturbed`,
  `OneModelPerSessionUndisturbed`, `TokensFollowHandlersUndisturbed`.
- `ShownIsSelectedUnlessMoved` (web), `MessagesAreOfTheSessionUnlessStrayed`,
  `LoadsForItsPromptUnlessOverlapped` (terminal), `ClientsFreed` (both).

### Bounds and why they are enough

- *Workers, 2.* A third only matters when two have lost their leases at once;
  the code treats any former holder alike (`lease_owner` is not its id). A
  worker's id is a fresh UUID, which the model gets by not dispatching a worker
  a row still names. So a crash uses up a worker until its row is claimed by
  another, and crashes stay below the number of workers in `run_progress`.
- *Requests*: one of any kind in `run_recovery`, which is open for as many steps
  of the workers as TLC likes and so meets every state of a run; two chats in
  `run_progress`, which may both have read idle. Aborts, closes, kills and polls
  beside two prompts are covered by the theorem about `ProcessingIsHeld`.
- *One agent step, which may yield* (`AgentSteps`, `ToolSteps`): together with
  enqueue and finalize a prompt has three steps and the error step. More agent
  steps only repeat the middle one; the proofs cover any number.
- *One crash, fault, overrun, mishap.* Each can come at any statement. That a
  second changes nothing for the safety properties is what the proofs add, for the
  modules they are about (in `EventLog` a pair shows what one does not, see 6);
  for liveness it is not shown.
- *Three tool calls, two in an answer* (`PromptReplay`): a batch where one call
  ends and one goes on, and a call in a later turn. *Two waits*: a batch that
  waits twice, or two turns that wait. *Two turns*: the limit is reached with a
  step left. *Two prompts*: a conversation that is handed on.
- *Pages of three events* for a hundred (`EventLog`): an answer with two tools
  makes about ten events, so that pages are full, partly full and exactly full.
  The constraint `Bound` leaves out states where appends overlap *after* a
  mishap; either alone is explored fully. A stop and a session given up as stuck
  are explored during the first prompt, with a client that shows the log from its
  beginning; the proofs have no such bound.
- *Three pieces of output, a buffer of two*: the buffer drops one piece, before
  or after it has been told.
- *One directory with one file beside another file* (`Files`), contents in two
  write calls: a file half written, and a directory that goes while it is
  walked. Three results per walk: the limit is reached by the temporary files
  of two edits.
- *Any register at the start* (`Containers`): three requests then meet every
  combination of links without having to make them first.
- *Two slots* (`Containers`, `Files`, `Settings`, `Accounts`): the conditions of
  all statements look at one row, and the hazards found are of two requests.
  *Three requests in all*: one that prepares and two that overlap. Settings
  start with or without a provider, its model and the default; handlers are
  configured only where there is no provider, as the two share nothing but the
  broker.
- *Any page at the start* (`Clients`), up to the names of the sessions: two
  clicks of the web client are then one that starts something and one beside
  it; the terminal starts in one way and has three commands. One client at a
  time; what others do to a session is `OtherClientPrompts`.
- Deadlock is not checked: all these instances end when their bounded inputs
  are used up.

## 5. Fairness

`run_progress` assumes (`SessionRuns!Fairness`)

- weak fairness of each worker's next step: a live isolate goes on. `Crash` and
  `Throw` are not part of it;
- weak fairness of `Expire`: time passes;
- weak fairness of the next statement of a request that has begun;
- strong fairness of `Dispatch` per run: the cron trigger fires each minute and
  takes the oldest five due runs. A due run is not due while someone else
  has it, hence strong;
- strong fairness of the end of a run's work, over all workers: a tool that
  makes its prompt yield again and again ends at last.

`prompt_replay` assumes weak fairness of `Progress`, the worker and its next
claim; waits, crashes and faults are bounded there by the constants, so a tool
that waits does end.

`bash_commands`: weak fairness of the worker's steps (the prompt is taken up
again while a tool is pending, which `EveryRunSettles` shows of runs), of the
timers of the runtime server, and of the end of a process that was sent
SIGTERM. No process need end unasked.

`device_login`: weak fairness of each client's loop, and strong fairness of its
`TimeOut`: a client that keeps asking finds its deadline passed in the end.
Nobody has to come back from GitHub.

`clients`: weak fairness of `Progress`: some request is answered, the list is
fetched again (it is, every few seconds), or a prompt ends. The user need do
nothing.

`EveryRunSettles` is checked with the chat handler only. With close it is false
(a run that is asked to stop while nobody works on it is never looked at
again); the hazard list says so.

## 6. What is proved

### Session runs

`SessionRunsProofs` proves, for any number of runs, workers, requests and agent
steps and any bound on crashes, faults and overruns:

| Theorem | Statement |
|---|---|
| `TypeCorrect` | `Spec => []TypeOK` |
| `LeasesWellFormed` | `Spec => []LeaseWellFormed` |
| `SettledStaysSettled` | `Spec => SettledForGood` |
| `JournalInOrder` | `Spec => []StepsInOrder` |
| `CompletedRunsAreAnswered` | `Spec => []CompletedIsAnswered` |
| `LeaseExcludes` | `Spec => []NoConcurrentExecution` |
| `RunsImplementPromptJob` | `Spec => Job!Spec` |
| `SessionsAreGivenBack` | `Spec => []ProcessingIsHeld` |

The only assumption is `ConstantsAssumption`: the bounds are natural numbers,
tool steps are agent steps, the operations are those of the model and
`NoWorker` is not a worker.

None of the invariants is inductive alone. Three strengthenings carry them:

- `LeaseInv` = `TypeOK`, `Located`, `LeaseWellFormed`. `Located` says a worker
  that is at work has a run that exists and a request about to cancel has found
  one; without it a cancellation could give a row that was never created a
  status. `SettledStaysSettled` follows from it step by step: complete, fail
  and release act only on a row that still names the worker, and by
  `LeaseWellFormed` no settled row names anyone.
- `JournalInv` adds `PassedSteps`: a worker that has reached a step has seen
  each earlier one in the journal, and one about to complete has seen the last
  or the error report. The journal only grows (`JournalGrows`), so this
  survives everything other workers do, even those that share the run after an
  overrun.
- `ExclusionInv` adds `LeaseHeld`: until an overrun, a worker that executes a
  run is named by the row, or the row has been cancelled under it; and a row
  that names a live worker has a lease in the future. A second claim needs a
  runnable row or one whose lease is past, and so finds no one at work. For a
  worker of a cancelled row the argument is that nobody claims a cancelled row.

Each proof has one step per action; lemmas such as `WorkersApart`,
`WorkerRowEffect` and `OnlyRecordStepRecords` say once what an action leaves
alone. The refinement has a step for each statement that changes a status or
the journal, and a stutter for the rest.

- `HeldInv` adds `FreshRows` (a row that does not exist has no steps) and the
  property itself, `ProcessingIsHeld`. A worker that ends a prompt, or records its
  last step, has either saved the session before or is about to
  (`WorkerKeepsOutstanding`, `HeldByWorker`); a request that marks the session is
  about to create its run (`HeldByRequest`). Nothing is assumed of the requests:
  they may all overlap, and leases may be overrun. The run that checks the
  property has two chats and no other handlers; the theorem has them all.

`TypeCorrect`, `LeasesWellFormed` and `CompletedRunsAreAnswered` (a completed run
has recorded its end or an error) are theorems only: no run checks them.
The theorems cover all the safety properties the runs check of `SessionRuns`.

### Accounts

`AuthProofs` proves of `Accounts`, for any number of people and of requests under way,
and any bound on requests, cuts and lapses:

| Theorem | Statement |
|---|---|
| `AccountsTypeCorrect` | `Spec => []TypeOK` |
| `EndedStaysEnded` | `Spec => EndedForGood` |
| `ResetTokensSpentOnce` | `Spec => []TokenSpentOnce` |
| `ResetRevokes` | `Spec => []RevokedOnReset` |

The only assumption is `SomeUser`: there is someone to have an account.

- `AccountInv` = `TypeOK`, `Located`. `Located` says that a request with a
  mailed token has found a row of its kind, so that what it writes is that row.
- `SpendInv` adds `SpentOrHeld`. `TokenSpentOnce` counts what has been spent; the
  strengthening counts what is about to be: a token not in doubt that a request
  has consumed and not yet spent is held by no other request, and is not fresh,
  so that none can come to hold it. The step that needs it is `ConsumingOnce`:
  whoever is between verifying and consuming at that moment makes the token
  doubtful, and whoever had consumed it already would have excluded this
  request. A failure that the handler does not notice makes it doubtful too
  (`ConsumeFailsEffect`).
- `RevokeInv` adds `ResetProgress`: a reset that has ended the sessions has left
  none with an older password, and no reset counts that is newer than the
  password. A session that is opened meanwhile has the latest password or is
  late. The order of the statements, the password first, is what this rests
  on, and the mutant of the run turns it round.

`Followed` says once what each statement makes of its request, `SessionsKept`
and `AccessKept` what it leaves of the rows, `TokensStay` of the tokens;
`EndedStaysEnded` is `SessionsKept` and `AccessKept` for every step.

### Device login

`AuthProofs` proves of `DeviceLogin`, for any clients, visits and people, and any
time: `DeviceLoginTypeCorrect` (`LoginSpec => []LoginTypeOK`),
`SignedInClientsWork` (`LoginSpec => []SignedInWorks`) and `TokensGivenOnce`
(`LoginSpec => []TokenGivenOnceUnlessContested`).

- `LoginInv` follows a token from the visit that made it: a visit has one
  account from the answer of GitHub on, and makes its token for that account
  (`VisitsKnowTheirUser`, `VisitsKnowTheirToken`); every token in the row or
  with a client was made by a visit (`TokensComeFromVisits`), so a client that
  is signed in has the account of a visit; and an account without a workspace
  has a visit that is about to make it, or one was lost (`UsersGetHomes`).
- `OnceInv` adds `RetrievedOnce`: once a token has been given the row says so,
  and no other poll is about to answer, unless the polls were contested. The code
  sets `retrieved_at` in the statement that answers, which is why reading
  before it and answering after it is all that can go wrong.

### Containers

`ContainersProofs`, for any finite tables of sessions and containers
(`FiniteTables`) and any number of requests: `ContainersTypeCorrect`,
`KillsSpareShared` (`KillSparesSharedUndisturbed`), `KillsLeaveNothing`
(`KillLeavesNothingBehind`) and `DestroyedStayDown` (`DestroyedStaysDown`).

- `RegisterInv` is `TypeOK`, what a request has in hand at each statement
  (`Shape`), that a new container is known to its request only (`Reserved`),
  that all other containers in hand have a row (`Known`), and three clauses
  about a kill in the middle of its loop: what is left of its list is linked
  (`ListIsLinked`), what it is about to destroy is linked to nobody else but
  those that came late (`Spares`), and what it has gone through is destroyed or
  somebody else's (`Leaves`). All three hold until the kill has met a change of
  the links, which is the history variable in the properties.
- `DownInv` adds `Calls`: whoever is about to start an instance, or may yet call
  or repeat a call, has found its container active, or it was marked as destroyed
  in front of him. A stop, which does not look, is the third case of `revived`.

### Bash commands

`ContainerToolsProofs`, for any output, any buffer and any number of slips
(`BufferAssumption`, `ChoiceAssumption`): `BashTypeCorrect`
(`BashSpec => []BashTypeOK`),
`CommandsStartOnce` (`CommandStartedOnce`), `OutputInOrder`
(`OutputShownInOrder`) and `StopsReach` (`StopReachesCommand`).

- `CommandInv`: until the call has a result, the only command that was not let
  go of is the one the row of the tool run or the visit names (`OneCommand`);
  this needs what a visit has in hand at each statement (`VisitOk`).
- `OutputSoFar`: the cursor of the row is where the output that is shown ends,
  or will end when the part on its way is shown. It is the clause that a visit
  which is lost between saving the cursor and showing the part has to respect.
- `StopOk`: the command a stop was asked about stays the row's until it is over
  or let go of, so what the stop reads later is that command or none.

### Files

`ContainerToolsProofs`, for any finite number of operations under way at once, any
stamps, calls, results of a walk and mishaps (`FilesAssumption`):
`FilesTypeCorrect` (`Spec => []TypeOK`), `EditsAtomic` (`EditsAreAtomic`),
`ChangesStickAlways` (`ChangesStick`) and `WalksComplete`
(`WalksAreComplete`). That operations are finitely many is needed to find an
inode that is not in use (`UnusedInode`): the two files take two inodes, and
whatever else is open, or at the name of a temporary file, is what a slot has in
hand.

- `PlacesInv` is `TypeOK`, what an operation has in hand at each of its places
  (`Shapes`), and the names (`NamesInv`): an inode has one name, the file in the
  directory goes with it, and a temporary file is that of an edit under way, so
  that none is left behind (`FilesPlaced`).
- `FilesInv` adds the changes. `TempsApart`: until two edits clash, the
  temporary file of an edit is at no file's name and open to nobody else;
  atomicity is a case of it. `ChangesInv`: two changes of one file that are
  under way together both know (`Met`), a mark that a request or its repetition
  is about to remove is no longer due, and a change that met nobody finds the
  file where it opened it. `TextsInv`: the new text of an edit has every mark
  that is due, and its temporary file holds as much of that text as has been
  written, so that the rename loses nothing.
- `TreeInv` is about the walks: what stayed is in the tree, what a walk has found
  or has before it was there, and whatever stayed is found, before it, or in the
  directory that is before it (`Reached`). At the answer nothing is before it.

### Prompt replay

`PromptReplayProofs`, for any calls, any number of prompts, turns, crashes,
faults and waits (`CallIdsAssumption`, `ReplayAssumption`):
`ReplayTypeCorrect`, `EachStepRecordedOnce` (`Spec => []RecordedOnce`),
`ContextIsKept` (`Spec => []ContextPersistsUndisturbed`) and `CallsAreAnswered`
(`Spec => []CallsAnswered`).

A conversation only goes forward (`Advance`), and a step that was carried out is
behind it (`Past`): an answer adds to the latest turn, a closed turn is never
the latest again, a call that has finished stays finished. So a name made of
the conversation does not come up twice. What a journal adds is `ReplayInv`, in
three parts:

- `TypesInv` and `PlaceInv`, which hold whatever happens: what a worker has
  saved and has still to record is the step its conversation asks for, nothing is
  recorded before the prompt, and the turn limit has been looked at.
- `Straight`, while no worker is lost. Each recorded step is behind the
  conversation of the worker, or behind the stored one it is going to take; it is
  taken from the database instead of the journal only when it waits for a tool.
- `ChainInv`, while nothing has been waited for. The steps in the journal are one
  chain (`Links`): the step at position *n* is what the conversation at
  position *n - 1* asks for. A new worker walks along this chain (`Stands`), and
  the stored conversation is the end of it or one step further (`Ends`), which
  is the step that was saved and not recorded.

The first two properties need either the second or the third part. With a loss
and a wait neither holds, and section 7 says what happens then. The report of an
error writes `error` into the stored conversation and nothing else; what is said
of the stored conversation is said up to its status (`SameContext`).

`CallsAnswered` holds with losses and waits together, and so needs another
invariant, `OwedInv`. A conversation *owes* the results of the calls that are
not finished and of which it tells none (`Owed`). It is `Tidy` when each call it
ever made is answered in its place or is owed, with nothing but results behind
it; when only a running prompt owes anything, for its latest turn; and when it
tells results only of tools that have ended. `Tidy` and nothing owed
(`Settled`) makes a history that the model accepts (`SettledIsWell`), and a
conversation whose next step is to ask owes nothing. What is left to show is
that no worker leaves the prompt while the stored conversation owes a result,
since the next prompt goes on from it:

- `CountInv` says that without faults the conversations in the database, the
  journal and the worker hold equally many prompts, and at least those that were
  given: one more if a worker was lost inside `enqueue-prompt`, the exception
  of the property.
- `WorkerInv` and `JournalInv` say that everything recorded or in hand is `Tidy`
  and that positions and turns go together (`Paced`): a turn takes three steps.
  A worker that jumped to a waiting tool counts from zero, and its tool step
  falls on position 0 as that of the first turn does, so the same law holds for
  it and for whatever it records.
- `WalkInv` is about the workers to come. They walk through a journal that older
  workers have filled from two starting points, the recorded prompt and a
  conversation that waited for a tool, and a name left by one walk may turn up on
  the other. There is a set of positions, closed under these
  walks, in which no conversation ends the prompt and no position reaches the
  turn limit as long as something is owed; only the step at hand may. Such a set
  is the witness of the invariant (`Walk`), and each step adds at most one
  position to it.
- `BetweenInv` hands the conversation from one prompt to the next.

### Event log

`EventLogProofs`, for any tools, any number of prompts and mishaps and any page
(`PageHoldsSomething`, `LanesApart`): `EventLogTypeCorrect`,
`EveryPromptIsAnswered` (`AnswersFollowTheirPrompts`), `ReplayRebuilds`
(`ReplayRebuildsUnlessDisturbed`), `NothingIsSkipped`
(`NothingSkippedUnlessOverlapping`) and `FinishedClientsHaveAll`
(`FinishedHasAll`).

- `LogInv` is the common part: what each lane has read and is about to write
  (`WorkerOk`, `ToolOk`, `PollOk`, `StopOk`, `DeltaOk`), that one message
  streams at most and that it is the worker's (`MessagesOk`, `Found`), and that
  two appends at once are an overlap (`OneAppend`).
- `AnswersOk` says of every moment which prompts have their answer: all but the
  latest, and the latest from the write of its end (`Ended`) on.
- `NumbersOk`: all numbers in the log are below the counter, cursors are
  numbers of the log or 0, and, without overlaps, numbers on their way are
  above all that are in the log. That is why a cursor can skip nothing.
- `ReplayOk`: each message is what its last event says, or is on its way; a stop
  has several events on their way, of which the last about a message counts
  (`Fresh`).
- `SilenceOk` says that a call is silent only while its prompt runs, unless
  something ended the session under its run (`Smooth`: no stop, no stuck session,
  no lost worker); `ClientOk` is the two properties of clients and that a
  request finishes a client only when its prompt is over. `SilenceOk` is needed
  because an append after a prompt's end would be missed by who has finished:
  `late` notes such an append, and there is none while the run is smooth.

What `late` stands for takes one mishap or two. A stop sets the session idle
while its worker is in a step, and the recovery of a stuck session an error: the
events of that step come to a session that has stopped, and a client that has
finished does not get them. With `MaxMishaps = 2` TLC shows a longer way: a worker
that is lost between writing an answer and noting it is asked again and leaves a
call in the table that nobody carries out; when a poll gives up on that call after
the prompt, the event it appends comes after a client has finished, and a second
prompt starts with the cursor beyond it.

Pages are proved about with the lemmas `LowestPage` and `HighestPage`, which
say for any finite set what a page of its lowest or highest numbers leaves out.

### Settings

`SettingsProofs`, for any providers, models, sessions and handlers and any
number of requests and mishaps: `SettingsTypeCorrect`, `TokensFollowHandlers`
(`TokensFollowHandlersUndisturbed`), `LiveModelsHaveTheirKey`
(`LiveModelsHaveTheirKeyUndisturbed`), `OneModelPerSession`
(`OneModelPerSessionUndisturbed`) and `ModelsInUseAreLive`
(`ModelsInUseAreLiveUndisturbed`). The assumption is `SettingsAssumption`; that
no provider has the name of a handler stands for the references the code makes
of them, which begin differently (`createProviderSecretRef` in
`models.service.ts:38`, `createEgressHandlerSecretRef` in
`egress-handlers.service.ts:36`).

The module first shows for each of the 46 actions what becomes of its request
and which tables it leaves alone (lemmas `...Moves`), and that the types and what
each request has in hand are kept (`ShapeInv`, `DropsMade`). Four invariants follow:

- `EgressInv`: while a handler is being written, the secret stored is what the
  request at work on it will record, or what the row still says, and none is
  stored when the row is about to be removed (`WriteOk`). The property is the
  case of a handler nobody is writing.
- `KeysInv`: a request that stores keys has stored all that it knows of and no
  longer has to do, and it knows all that the row of its provider refers to; so
  the references it records are stored. Two such requests at one provider are
  the condition of the property.
- `RunsInv`: a session is worked on by one request at a time (`WorkApart`). The
  hot context is empty until that request saves it, all past runs have had its
  model, and a run that has read it has it too.
- `LiveInv`: a deletion that met nobody knows at each of its statements that no
  active session has one of the models (`NoneActive`), that the models it has
  listed are those of the provider (`DropProviderOk`), and that the default is
  live or among them between the statements that delete the models and clear
  the default. A request that is about to write a model or a default has
  checked it (`CheckedOk`), and no deletion has begun since. `RunsInv` is used:
  a session that is not there yet has no model to lose.

### Clients

`ClientsProofs`, for any sessions, any number of requests under way at once and
any number of clicks, keys and mishaps (`ClientsAssumption`):
`ClientsTypeCorrect`, `WebShowsSelected`
(`Spec => []ShownIsSelectedUnlessMoved`), `EscReachesThePrompt`
(`Spec => []LoadsForItsPromptUnlessOverlapped`) and `TerminalShowsItsSession`
(`Spec => []MessagesAreOfTheSessionUnlessStrayed`).

- `TermInv` is about the terminal. `OnePrompt`: until prompts overlap, the
  controller is that of the only prompt under way, which is not stopped, and when
  nothing loads each prompt that is under way has been. The end of a stopped
  prompt clears the loading flag, so this is lost with the first prompt that is
  sent beside one. `StreamsOfSession`: each stream is of the session the terminal
  is in.
- `WebInv` is about the web client. What can put messages on the screen is a
  request that is `Showing`, and an abort shows the session a reference names; so
  `AllOfSelected` has the requests, the reference to the run and those to the
  abort beside the messages. `RunHasPrompt`: the reference to the run is held by
  a prompt that is under way.
- React's effects run after every change, one or two of them, and start requests
  of their own. `BecomesKeeps` takes them out of the other lemmas: they leave the
  messages and the selection alone, clear references but set none, and what they
  start follows the selected session (`SameView`, `SameTasks`). Each action then
  only has to keep the invariant up to its effects.

- Opening a container and deleting all sessions change the selection and leave the
  messages, and deleting the selected session sends an abort of it: all three set
  `moved` (`ContainerKeeps`, `DeleteAllKeeps`, `DeleteAnsweredKeeps`). To open a
  session or begin a new one with nothing else under way takes it back.

The first attempt failed at `StartDraftSession`, and TLC found a counterexample
beyond the bounds of the run, with six clicks and two mishaps: the condition of
`ShownIsSelectedUnlessMoved` had to take in an abort that is still noted because
its answer was lost. Section 7 says what the client does then.

### Only model-checked

- liveness, which needs `ENABLED`: `EveryRunSettles`, `SessionFreed`,
  `EveryPromptEnds`, `CallSettles`, `ApprovedGetsIn`, `LoginEnds`,
  `ClientsFreed`;
- that `Sanitize` keeps what the loop of the code keeps, which is a fold over a
  list of any length and would need induction over data: `SanitizeAssumption`
  compares them on short histories.

## 7. What the code does against its text or its purpose

### Against its text

`event_replay`. `src/packages/server/src/data/schema.ts:205-206` says of the
events: "Replaying those deltas from an empty message list must reconstruct this
table exactly." Two tools of one answer run side by side (`agent.ts:747`), and
each reads the message of the answer, changes its own call in it and writes the
whole of it back (`updateToolCall`). The later write takes the earlier one's
result out of the table, and events with either copy are in the log, in either
order.

### Against its purpose

These were met while modelling. Each is the reason for the condition of a
property, or for what a module lets happen; `PROJECT.json` gives the lines.

*Runs and sessions*

- A request to stop is forgotten when the worker yields: `releaseRunnable` puts
  the run back to runnable. It is never looked at when nobody holds the run.
- A closed session is opened again by the worker of its last prompt, which saves
  idle when it notices that it was cancelled (`workflow.ts:562`). A deleted
  session is created again by its worker's upsert, or by a prompt
  (`chat.routes.ts:88-110`). Creating a session under an id that exists updates
  that one (`sessions.routes.ts:113-150`).
- Two requests that read the status at once are both accepted. A prompt sent
  after an abort runs beside the aborted worker, which then marks the session
  idle under it.
- A stop, or a poll that finds a session stuck, ends the session while its worker
  goes on (`sessions.routes.ts:437-443`, `473-488`): the events that follow are
  missed by a client that has finished, and both save the row as they read it, with
  an old cursor, so that the next opening may get events again.
- A crash that meets a wait loses context. One of two tools ends and the other
  makes the prompt wait; the prompt is taken up from the stored conversation,
  finished, and its worker is lost before the run is completed. The next worker
  starts from the journal, finds no step of the two tools, and saves an earlier
  conversation over the later one.
- `enqueue-prompt` saves before its step is recorded: repeated, it adds the
  prompt to the conversation twice. The count of turns is a local variable: a
  prompt that has waited starts counting again.
- A reader of the event log can miss an event when two appends overlap: numbers
  are reserved first and the later ones may be inserted first.

*Containers*

- The runtime server never sends SIGKILL. It asks `proc.killed` whether the
  process is gone (`server.mjs:95-99`, `267-271`), which is true once SIGTERM
  has been sent; a process that ignores SIGTERM runs on.
- Two kills that meet at a shared container may both count the other's link:
  both only unlink, and the container runs on with nobody.
- A request that the destruction of its container breaks is sent again
  (`client.ts:328-336`) and starts the instance under its destroyed row; so does a
  stop that cancels a command there.
- A write that is sent again after it was done, and after a later call has
  written, puts the file back to what it wrote.

*Accounts and devices*

- A login that has checked the old password before a reset opens its session
  after it. Two resets with one token both apply, and so does a second one when
  the database failed to mark the token at the first (`email-tokens.ts:185-190`
  catches the exception, `auth.handlers.ts:1280` does not look at the answer).
  Two requests for a token at once leave two (`email-tokens.ts:127`).
- A first sign-in that is cut between the user and the membership leaves an
  account that cannot be used (`auth.handlers.ts:1088-1114`), and two sign-ins
  within a millisecond ask for the same name of a workspace.
- Two polls of one approved code both get its token. A request that has read the
  row overdue marks it expired without looking at it again
  (`device-authorizations.ts:103`, `182`, `251`), which undoes an approval stored
  in between.

*Settings*

- A handler switched off is still routed to, without its token
  (`gateway.ts:57-61`). `PATCH {secrets}` switches a handler on.
- A rotated key or a new default does not reach a run in a hot context
  (`workflow.ts:247`).
- The deletion of a provider leaves its secrets, and cut short may leave a
  default that names nothing (`data/models.ts:237-249`). Two updates at once
  overwrite each other's references (`models.service.ts:183-195`).

*Clients*

- The web client can show messages of a session that has been left. One way to
  it takes several prompts: the answer to an abort is lost, so
  `abortingSessionIdRef` stays; a prompt that is stopped later, in a draft, marks
  that session as the one the server processes (`App.tsx:1837-1841`), and the
  next stop aborts it (1867) and shows its messages, in the view of a draft.
- Opening a container or a path in one (`App.tsx:1233`, `1269`) selects its session
  and `/delete all` (1711-1723) selects none; both keep the messages, and back in the
  chat they are shown.
- The composer stays blocked on a session that was deleted while it was
  processing, until something else is opened.
- The terminal, after Esc and a new prompt: the end of the stopped one clears
  the loading flag and the controller of the new one (`tui-app.ts:1486`). `/new`,
  `/fork`, `/kill` and `/delete` do not look whether a prompt loads
  (1845-1880), `openSession` looks before its awaits (1635), and the session of
  `loadInitialData` may arrive after the first prompt (882).
- After `/delete` the terminal has the session id "", and a prompt makes a
  session with that id, which no later request can name (`tui-app.ts:1465`,
  `chat.routes.ts:84`).

## 8. What is not modelled

Parts that are left out:

- the *websocket session*: only an end-to-end test opens it;
- *stored code* and dynamic workers: what they run is the platform's;
- the *input queue*: nothing calls it; steering and follow-up prompts neither;
- the *timing log*, the catalogue of models, validation, rendering, wording;
- the decision whether an outgoing URL is allowed, and cryptography: a secret
  is found or not, a password fits or not;
- titles and forks of sessions; the end-to-end harness.

Inside parts that are modelled:

- what an abort does to the stored conversation (the columns it saves beside the
  status are in `EventLog`);
- an exception while the error report is made, in `PromptReplay`;
- two workers on one tool run, where `markRunning` may overwrite a row that has
  ended: `PromptReplay` and `BashCommands` have one worker at a time. So what an
  overrun lease does to conversations and tools is not looked at;
- the scales are separate: no run composes `SessionRuns` with `EventLog`, or a
  kill with the runs of its session;
- overlapping runs of one session, in the settings and in the event log: there a
  prompt is not sent while a run is at work or a stop is about to cancel one;
- the read operation of the runtime server, which changes nothing;
- a client whose session another client deletes; `/kill all` of the web client,
  signing out.

`TypeOK` is stated for `SessionRuns`, `Accounts`, `DeviceLogin`, `Containers`,
`BashCommands`, `Files`, `EventLog` and `Settings`, where the proofs need it
(`LoginTypeOK` in `DeviceLogin`), and for `PromptReplay` in its proofs; the other
modules give the shape of their variables in comments.

## 9. The plan

1. *Abort* in `PromptReplay`, with the conversation it repairs and saves.
2. *Two workers on a tool run*, after an overrun lease.
3. *The websocket* as one more request of `SessionRuns`.

## 10. Running

```
tlc -workers 2 -config RunRecovery.cfg  MCSessionRuns.tla
tlc -workers 2 -config RunProgress.cfg  MCSessionRuns.tla
tlc -workers 2 -config PromptReplay.cfg MCPromptReplay.tla   # a minute
tlc -workers 2 -config EventLog.cfg     MCEventLog.tla       # a minute
tlc -workers 2 -config EventReplay.cfg  MCEventLog.tla       # ends with a counterexample
tlc -workers 2 -config BashCommands.cfg BashCommands.tla
tlc -workers 2 -config Files.cfg        MCFiles.tla
tlc -workers 2 -config Containers.cfg   MCContainers.tla     # two minutes
tlc -workers 2 -config Accounts.cfg     MCAccounts.tla
tlc -workers 2 -config DeviceLogin.cfg  MCDeviceLogin.tla
tlc -workers 2 -config Settings.cfg     MCSettings.tla       # a minute
tlc -workers 2 -config Clients.cfg      MCClients.tla
tlapm SessionRunsProofs.tla                                  # a minute
tlapm PromptReplayProofs.tla                                 # six minutes
tlapm AuthProofs.tla                                         # four minutes
tlapm ContainersProofs.tla
tlapm ContainerToolsProofs.tla                               # seven minutes
tlapm EventLogProofs.tla                                     # five minutes
tlapm SettingsProofs.tla                                     # nine minutes
tlapm ClientsProofs.tla                                      # three minutes
```
