---------------------------- MODULE BashCommands ----------------------------
(***************************************************************************)
(* One call of the tool container_bash, from the worker that starts it to  *)
(* the process in the container.                                           *)
(*                                                                         *)
(* The runtime server in the container starts a process for the call and   *)
(* answers with an id.  The worker writes the id and a cursor in the row   *)
(* of the tool run and lets go of the session; later workers ask for the   *)
(* status and for the output past the cursor, until the command has ended. *)
(* A stop looks up the id and cancels the command.                         *)
(*                                                                         *)
(* Output is counted in pieces; one stream stands for stdout and stderr.   *)
(***************************************************************************)
EXTENDS Naturals, Sequences, FiniteSets

CONSTANTS
    MaxOutput,    \* pieces of output of one command (bound)
    BufferSize,   \* pieces the server keeps (bound; MAX_COMMAND_BUFFER_CHARS)
    MaxSlips,   \* workers and answers lost, restarts (bound)
    HeedChoices,  \* whether a process may end on SIGTERM: {TRUE} or BOOLEAN
    Detachable    \* whether the server knows detached commands: older images
                  \* do not, and run a command within its request

ASSUME BufferAssumption == BufferSize \in Nat \ {0} /\ MaxOutput \in Nat
ASSUME ChoiceAssumption == {HeedChoices, Detachable} \subseteq SUBSET BOOLEAN \ {{}}

VARIABLES
    commands,     \* the commands the runtime server has started, by id
    detached,     \* the server knows detached commands
    row,          \* tool_runs: status, and the command and cursor in its
                  \* internal state
    call,         \* the status of the call in the stored conversation
    recorded,     \* the step of the call is in the journal of the run
    runOpen,      \* the run of the prompt has not been cancelled
    visit,        \* what the worker that has the session does with the call
    loose,        \* requests to start on their way, with nobody waiting
    shown,        \* the output in the event log; a part that was lost with
                  \* its worker is kept here as not told (history)
    stop,         \* the request to stop the session
    slips,      \* things that went wrong
    lost          \* commands that were let go of (history)

others == <<row, call, recorded, runOpen, visit, loose, shown, stop, slips, lost>>
bashVars == <<commands, detached, others>>

NoCmd  == 0
Ended  == {"complete", "error", "aborted"}
Ids    == DOMAIN commands
NewId  == Len(commands) + 1

Away   == [at |-> "away", cmd |-> NoCmd, cursor |-> 0, retried |-> FALSE,
           result |-> "none", part |-> <<>>]

-----------------------------------------------------------------------------
(* Faulty variants, each of which breaks a property when it stands in the  *)
(* place of the definition named.                                          *)

(* Persisted: the id of a command that runs is not kept.                   *)
PersistedWithoutTheCommand(v) ==
    [status |-> v.result, cmd |-> NoCmd, cursor |-> v.cursor]

(* Part: output is sent from the start of the buffer on.                   *)
PartFromTheStart(c, cursor) ==
    [cmd    |-> c,
     from   |-> commands[c].start,
     to     |-> commands[c].end,
     gap    |-> cursor < commands[c].start,
     told   |-> TRUE]

(* Cancellable: only a call that is still pending is looked up.            *)
CancellableIfPending == IF row.status = "running" /\ stop.saw = "pending"
                          THEN row.cmd ELSE NoCmd

(* TimedOut: the process is not told.                                      *)
TimedOutSilently(c) == [c EXCEPT !.killed = TRUE, !.timer = "off"]

-----------------------------------------------------------------------------
(* The commands of the runtime server.  A command that was cancelled ends  *)
(* as one that failed.  signalled is proc.killed, which Node sets when a   *)
(* signal has been sent.                                                   *)

NewCommand(heeds) ==
    [state |-> "running", killed |-> FALSE, signalled |-> FALSE,
     alive |-> TRUE, known |-> detached, heeds |-> heeds, timer |-> "set",
     start |-> 0, end |-> 0]

StartBashCommand ==
    \E heeds \in HeedChoices : commands' = Append(commands, NewCommand(heeds))

Output(c) ==
    /\ commands[c].alive
    /\ commands[c].end < MaxOutput
    /\ commands' = [commands EXCEPT
           ![c].end   = @ + 1,
           ![c].start = IF commands[c].end - @ >= BufferSize THEN @ + 1 ELSE @]

Close(c) ==
    /\ commands[c].alive
    /\ \E code \in {"zero", "other"} :
         commands' = [commands EXCEPT
             ![c].alive = FALSE,
             ![c].timer = "off",
             ![c].state = IF code = "zero" /\ ~commands[c].killed
                            THEN "complete" ELSE "error"]

TimedOut(c) ==
    [c EXCEPT !.killed = TRUE, !.signalled = TRUE, !.timer = "killing"]

Timeout(c) ==
    /\ commands[c].timer = "set"
    /\ commands' = [commands EXCEPT ![c] = TimedOut(@)]

(* Five seconds later: SIGKILL unless proc.killed.                         *)
Escalate(c) ==
    /\ commands[c].timer = "killing"
    /\ commands' = [commands EXCEPT
           ![c].timer = "off",
           ![c].alive = @ /\ commands[c].signalled,
           ![c].state = IF commands[c].signalled THEN @ ELSE "error"]

CancelCommand(c) ==
    commands' = IF commands[c].state # "running" THEN commands
                ELSE [commands EXCEPT ![c].killed    = TRUE,
                                      ![c].state     = "cancelled",
                                      ![c].signalled = TRUE]

(* The container is stopped and started: its processes and its list of     *)
(* commands are gone.                                                      *)
Restart ==
    /\ slips < MaxSlips
    /\ \E c \in Ids : commands[c].known \/ commands[c].alive
    /\ commands' = [c \in Ids |-> [commands[c] EXCEPT
                        !.alive = FALSE, !.known = FALSE, !.timer = "off"]]
    /\ slips' = slips + 1
    /\ UNCHANGED <<row, call, recorded, runOpen, visit, loose, shown, stop, lost>>

(* The server's answer to a question about a command: what there is past   *)
(* the cursor and, when output has been dropped, that there is a gap.      *)
Part(c, cursor) ==
    LET requested == IF cursor < commands[c].end THEN cursor ELSE commands[c].end
    IN  [cmd    |-> c,
         from   |-> IF requested < commands[c].start THEN commands[c].start
                                                     ELSE requested,
         to     |-> commands[c].end,
         gap    |-> cursor < commands[c].start,
         told   |-> TRUE]

Reported(c) ==
    CASE ~commands[c].known -> "error"
      [] commands[c].known /\ commands[c].state \in {"running", "complete"}
           -> commands[c].state
      [] OTHER -> "error"

(* A request to start that was given up arrives after all.                 *)
StartLate ==
    /\ loose > 0
    /\ StartBashCommand
    /\ loose' = loose - 1
    /\ lost' = lost \cup {NewId}
    /\ UNCHANGED <<row, call, recorded, runOpen, visit, shown, stop, slips>>

-----------------------------------------------------------------------------
(* A worker's visit.                                                       *)

AfterLooking(r) ==
    IF r.status \in Ended
      THEN [Away EXCEPT !.at = "show", !.result = r.status]
      ELSE [Away EXCEPT !.at = "mark", !.cmd = r.cmd, !.cursor = r.cursor]

(* The step is due.  The lease of the run keeps a second worker away.      *)
BeginVisit ==
    /\ visit.at = "away"
    /\ runOpen /\ ~recorded
    /\ visit' = AfterLooking(row)
    /\ UNCHANGED <<commands, row, call, recorded, runOpen, loose, shown, stop, slips,
                   lost>>

MarkRunning ==
    /\ visit.at = "mark"
    /\ row' = [status |-> "running", cmd |-> visit.cmd, cursor |-> visit.cursor]
    /\ visit' = [visit EXCEPT
                  !.at = IF visit.cmd = NoCmd THEN "start" ELSE "ask"]
    /\ UNCHANGED <<commands, call, recorded, runOpen, loose, shown, stop, slips,
                   lost>>

ContainerBashStart ==
    /\ visit.at = "start"
    /\ StartBashCommand
    /\ visit' = [visit EXCEPT !.at  = IF detached THEN "started" ELSE "attached",
                              !.cmd = NewId]
    /\ UNCHANGED <<row, call, recorded, runOpen, loose, shown, stop, slips, lost>>

ContainerBashStatus ==
    /\ visit.at \in {"started", "ask"}
    /\ LET v == visit
           r == Reported(v.cmd)
       IN  visit' = [v EXCEPT
               !.at     = "persist",
               !.result = r,
               !.retried = FALSE,
               !.part   = IF r = "running" THEN <<Part(v.cmd, v.cursor)>> ELSE <<>>,
               !.cursor = commands[v.cmd].end]
    /\ UNCHANGED <<commands, row, call, recorded, runOpen, loose, shown, stop, slips,
                   lost>>

(* Without detached commands the request lasts as long as its command.     *)
ContainerBash ==
    /\ visit.at = "attached" /\ ~commands[visit.cmd].alive
    /\ visit' = [visit EXCEPT
           !.at      = "persist",
           !.result  = IF commands[visit.cmd].state = "complete" THEN "complete"
                                                                 ELSE "error",
           !.retried = FALSE]
    /\ UNCHANGED <<commands, row, call, recorded, runOpen, loose, shown, stop, slips,
                   lost>>

Persisted(v) ==
    IF v.result = "running"
      THEN [status |-> "running", cmd |-> v.cmd, cursor |-> v.cursor]
      ELSE [status |-> v.result, cmd |-> NoCmd, cursor |-> 0]

(* A visit carries one part at most; one that says nothing is not shown.   *)
SaysSomething(p) == p.from < p.to \/ p.gap
NewOutput(v) == IF v.part # <<>> /\ SaysSomething(Head(v.part)) THEN v.part ELSE <<>>

(* A command that runs on after its call has a result is let go of.        *)
LetGo(v) == {c \in {v.cmd, row.cmd} \ {NoCmd} : v.result \in Ended /\ commands[c].alive}

PersistToolRunOutcome ==
    /\ visit.at = "persist"
    /\ lost' = lost \cup LetGo(visit)
    /\ row' = Persisted(visit)
    /\ visit' = [visit EXCEPT !.at = "show", !.cmd = NoCmd, !.cursor = 0,
                              !.part = NewOutput(visit)]
    /\ UNCHANGED <<commands, call, recorded, runOpen, loose, shown, stop, slips>>

EmitUpdate ==
    /\ visit.at = "show"
    /\ shown' = shown \o visit.part
    /\ visit' = [visit EXCEPT !.at = "save", !.part = <<>>]
    /\ UNCHANGED <<commands, row, call, recorded, runOpen, loose, stop, slips, lost>>

SaveWorkflowSession ==
    /\ visit.at = "save"
    /\ call' = visit.result
    /\ visit' = [visit EXCEPT !.at = "note"]
    /\ UNCHANGED <<commands, row, recorded, runOpen, loose, shown, stop, slips, lost>>

(* A call that has ended is entered in the journal; for one that runs the  *)
(* worker yields.                                                          *)
CompleteStepOrYield ==
    /\ visit.at = "note"
    /\ recorded' = (recorded \/ (runOpen /\ visit.result \in Ended))
    /\ visit' = Away
    /\ UNCHANGED <<commands, row, call, runOpen, loose, shown, stop, slips, lost>>

-----------------------------------------------------------------------------
(* What goes wrong.  A request under way may be dropped or arrive late.    *)

FreshCommand(v) ==
    {c \in {v.cmd} \ {NoCmd, row.cmd} : v.at \in {"started", "attached", "persist"}}

GiveUpRequest(v) ==
    IF v.at = "start" THEN loose' \in {loose, loose + 1} ELSE UNCHANGED loose

(* The connection breaks: the request is made once more.                   *)
CallContainerRuntimeAgain ==
    /\ visit.at \in {"start", "started", "attached"} /\ ~visit.retried
    /\ slips < MaxSlips
    /\ slips' = slips + 1
    /\ GiveUpRequest(visit)
    /\ lost' = lost \cup FreshCommand(visit)
    /\ visit' = [visit EXCEPT !.at = "start", !.cmd = NoCmd, !.retried = TRUE]
    /\ UNCHANGED <<commands, row, call, recorded, runOpen, shown, stop>>

(* The tool throws: no container, two broken connections, or no answer     *)
(* within the time the worker allows.                                      *)
ToolThrows ==
    /\ visit.at \in {"start", "started", "attached", "ask"}
    /\ slips < MaxSlips
    /\ slips' = slips + 1
    /\ GiveUpRequest(visit)
    /\ lost' = lost \cup FreshCommand(visit)
    /\ visit' = [Away EXCEPT !.at = "persist", !.result = "error"]
    /\ UNCHANGED <<commands, row, call, recorded, runOpen, shown, stop>>

WorkerLost ==
    /\ visit.at # "away"
    /\ slips < MaxSlips
    /\ slips' = slips + 1
    /\ GiveUpRequest(visit)
    /\ lost' = lost \cup FreshCommand(visit)
    /\ shown' = IF visit.at # "show" THEN shown
                ELSE shown \o [i \in DOMAIN visit.part |->
                                 [visit.part[i] EXCEPT !.told = FALSE]]
    /\ visit' = Away
    /\ UNCHANGED <<commands, row, call, recorded, runOpen, stop>>

-----------------------------------------------------------------------------
(* A stop of the session: it reads the conversation and the row, cancels,  *)
(* writes the conversation back and cancels the run.  named: the command   *)
(* the row named when the stop was asked for (history).                    *)

NotAsked == [at |-> "not asked", saw |-> "none", cmd |-> NoCmd, named |-> NoCmd,
             failed |-> FALSE]

AbortReadsSession ==
    /\ stop.at = "not asked"
    /\ stop' = [NotAsked EXCEPT
           !.at    = IF call \in {"pending", "running"} THEN "row" ELSE "run",
           !.saw   = call,
           !.named = row.cmd]
    /\ UNCHANGED <<commands, row, call, recorded, runOpen, visit, loose, shown, slips,
                   lost>>

Cancellable == IF row.status = "running" /\ stop.saw = "running" THEN row.cmd ELSE NoCmd

AbortReadsRow ==
    /\ stop.at = "row"
    /\ stop' = [stop EXCEPT !.at  = IF Cancellable = NoCmd THEN "save" ELSE "cancel",
                            !.cmd = Cancellable]
    /\ UNCHANGED <<commands, row, call, recorded, runOpen, visit, loose, shown, slips,
                   lost>>

AbortCancels ==
    /\ stop.at = "cancel"
    /\ \/ /\ commands[stop.cmd].known
          /\ CancelCommand(stop.cmd)
          /\ stop' = [stop EXCEPT !.at = "save", !.cmd = NoCmd]
          /\ UNCHANGED slips
       \/ /\ ~commands[stop.cmd].known
          /\ stop' = [stop EXCEPT !.at = "save", !.cmd = NoCmd, !.failed = TRUE]
          /\ UNCHANGED <<commands, slips>>
       \/ /\ slips < MaxSlips
          /\ slips' = slips + 1
          /\ stop' = [stop EXCEPT !.at = "save", !.cmd = NoCmd, !.failed = TRUE]
          /\ UNCHANGED commands
    /\ UNCHANGED <<row, call, recorded, runOpen, visit, loose, shown, lost>>

AbortSavesSession ==
    /\ stop.at = "save"
    /\ call' = "aborted"
    /\ stop' = [stop EXCEPT !.at = "run"]
    /\ UNCHANGED <<commands, row, recorded, runOpen, visit, loose, shown, slips,
                   lost>>

AbortCancelsRun ==
    /\ stop.at = "run"
    /\ runOpen' = FALSE
    /\ stop' = [stop EXCEPT !.at = "done"]
    /\ UNCHANGED <<commands, row, call, recorded, visit, loose, shown, slips, lost>>

-----------------------------------------------------------------------------
BashInit ==
    /\ commands = <<>>
    /\ detached \in Detachable
    /\ row = [status |-> "absent", cmd |-> NoCmd, cursor |-> 0]
    /\ call = "pending"
    /\ recorded = FALSE
    /\ runOpen = TRUE
    /\ visit = Away
    /\ loose = 0
    /\ shown = <<>>
    /\ stop = NotAsked
    /\ slips = 0
    /\ lost = {}

WorkerStep ==
    \/ BeginVisit
    \/ MarkRunning
    \/ ContainerBashStart
    \/ ContainerBashStatus
    \/ ContainerBash
    \/ PersistToolRunOutcome
    \/ EmitUpdate
    \/ SaveWorkflowSession
    \/ CompleteStepOrYield

Mishap == CallContainerRuntimeAgain \/ ToolThrows \/ WorkerLost

StopStep ==
    \/ AbortReadsSession
    \/ AbortReadsRow
    \/ AbortCancels
    \/ AbortSavesSession
    \/ AbortCancelsRun

(* A command that was let go of is not followed: nothing asks for it again.*)
ProcessStep(c) ==
    /\ Output(c) \/ Close(c) \/ Timeout(c) \/ Escalate(c)
    /\ UNCHANGED others

BashNext ==
    /\ \/ WorkerStep \/ Mishap
       \/ StopStep
       \/ \E c \in Ids \ lost : ProcessStep(c)
       \/ Restart
       \/ StartLate
    /\ UNCHANGED detached

(* Workers are called again while a tool is pending, timers fire, and a    *)
(* process that heeds SIGTERM ends on it.  No process need end unasked.    *)
TimersRun(c) == c \in Ids \ lost /\ (Timeout(c) \/ Escalate(c))
                /\ UNCHANGED <<detached, others>>
Obeys(c) == c \in Ids \ lost /\ commands[c].signalled /\ commands[c].heeds
            /\ Close(c) /\ UNCHANGED <<detached, others>>

Fairness ==
    /\ WF_bashVars(WorkerStep /\ UNCHANGED detached)
    /\ \A c \in 1..(1 + MaxSlips) : WF_bashVars(TimersRun(c)) /\ WF_bashVars(Obeys(c))

BashSpec == BashInit /\ [][BashNext]_bashVars
FairBashSpec == BashSpec /\ Fairness

-----------------------------------------------------------------------------
CommandStates ==
    [state : {"running", "complete", "error", "cancelled"}, killed : BOOLEAN,
     signalled : BOOLEAN, alive : BOOLEAN, known : BOOLEAN, heeds : BOOLEAN,
     timer : {"set", "killing", "off"}, start : Nat, end : Nat]

Parts == [cmd : Nat, from : Nat, to : Nat, gap : BOOLEAN, told : BOOLEAN]

Visits ==
    [at : {"away", "mark", "start", "started", "attached", "ask", "persist", "show", "save",
           "note"},
     cmd : Nat, cursor : Nat, retried : BOOLEAN, result : {"none", "running"} \cup Ended,
     part : Seq(Parts)]

Stops ==
    [at : {"not asked", "row", "cancel", "save", "run", "done"},
     saw : {"none", "pending", "running"} \cup Ended, cmd : Nat, named : Nat, failed : BOOLEAN]

(* Types of the commands, of the tables and of what is under way. *)
BashTypeOK ==
    /\ commands \in Seq(CommandStates) /\ detached \in BOOLEAN
    /\ row \in [status : {"absent", "running"} \cup Ended, cmd : Nat, cursor : Nat]
    /\ call \in {"pending", "running"} \cup Ended
    /\ recorded \in BOOLEAN /\ runOpen \in BOOLEAN
    /\ visit \in Visits /\ stop \in Stops
    /\ loose \in Nat /\ shown \in Seq(Parts)
    /\ slips \in Nat /\ lost \subseteq Nat

(* A tool call runs its command once: another is started only when a       *)
(* request or its answer was lost, or the worker with it, before the id    *)
(* was in the row of the tool run.                                         *)
CommandStartedOnce == Cardinality(Ids \ lost) <= 1

(* What the log says of a command is its output in order, each piece once; *)
(* where something is missing, the reader is told, unless a worker was     *)
(* lost between the row and the log.                                       *)
OutputShownInOrder ==
    \A i \in DOMAIN shown :
        LET before == IF i = 1 THEN 0 ELSE shown[i - 1].to
        IN  /\ shown[i].from <= shown[i].to
            /\ \/ shown[i].from = before
               \/ shown[i].from > before /\ shown[i].gap

(* A stop that reports no error has ended the command of a call that had   *)
(* been seen to run, whatever the worker did meanwhile: its process is     *)
(* over or has been told to end, or the worker had let go of it.           *)
StopReachesCommand ==
    stop.at = "done" /\ ~stop.failed /\ stop.saw = "running" =>
        \A c \in {stop.named} \ (lost \cup {NoCmd}) :
            commands[c].alive => commands[c].signalled

(* Every call comes to a result, or its run is cancelled: a command that   *)
(* hangs is ended by its timeout.                                          *)
CallSettles == <>(recorded \/ ~runOpen)

=============================================================================
