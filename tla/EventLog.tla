------------------------------ MODULE EventLog ------------------------------
(***************************************************************************)
(* The event log of one session, the table of messages beside it, and a    *)
(* client that follows the log by its cursor.                              *)
(*                                                                         *)
(* Whoever has something to report projects it on the table of messages    *)
(* and appends the changed message to the log.  That takes four statements *)
(* -- read the message, write it back, reserve sequence numbers, insert    *)
(* the events -- and several lanes of execution do it: the worker of the   *)
(* prompt, one lane for each tool of a batch, the poll of a client when it *)
(* gives up on a tool that has been silent, and a request to stop.         *)
(*                                                                         *)
(* The first prompt's answer calls Tools, the others call none.  A text is *)
(* "none", a "part" or "whole".  There is one run at a time: a prompt sent *)
(* while the run of another is at work, or once a stop has found a run to  *)
(* cancel, is left out.                                                    *)
(***************************************************************************)
EXTENDS Naturals, Sequences, FiniteSets, FiniteSetsExt

CONSTANTS
    Tools,        \* the tool calls of the first answer
    CodeTools,    \* those of them that run code
    MaxPrompts,   \* prompts sent (bound)
    PageSize,     \* events in a page (bound; 100 in the code)
    MaxMishaps    \* things that interfere: workers lost, answers broken off
                  \* by the model, silent tools, lost streams, a stop, a
                  \* session given up as stuck (bound)

ASSUME CodeToolsAreTools == CodeTools \subseteq Tools
ASSUME PageHoldsSomething == PageSize \in Nat \ {0}

VARIABLES
    table,        \* session_messages, in the order of their sequence
    log,          \* session_events: the message each event carries
    counter,      \* session_counters.next_event_sequence
    column,       \* sessions.next_event_cursor
    status,       \* sessions.status
    prompts,      \* prompts sent so far
    at,           \* what the worker of the latest prompt does next
    call,         \* what each tool of the batch does next
    lane,         \* the appends under way
    stop,         \* the request to stop: what it does next, the column it
                  \* has read, the calls it has still to report
    cancelled,    \* the run has been cancelled
    client,       \* the client that follows the session
    mishaps,      \* what has gone wrong
    overlapped,   \* two appends have been under way at once (history)
    late          \* events came to a session that had stopped (history)

server == <<table, log, counter, column, status, prompts, at, call, lane, stop, cancelled>>
vars == <<server, client, mishaps, overlapped, late>>

Worker == "worker"
Poll   == "poll"
Stop   == "stop"
Lanes  == {Worker, Poll, Stop} \cup Tools

ASSUME LanesApart == {Worker, Poll, Stop} \cap Tools = {}

NoMessage == 0
NoCalls   == [t \in {} |-> "queued"]
Free      == [at |-> "free", does |-> "nothing", id |-> NoMessage, copy |-> {},
              deltas |-> <<>>, first |-> 0]

Messages  == 1..Len(table)
Sequences == DOMAIN log
Answers   == {m \in Messages : table[m].role = "assistant"}

-----------------------------------------------------------------------------
(* Faulty variants, each of which breaks a property when it stands in the *)
(* place of the definition named.                                          *)

(* Streaming: the last answer is taken over, ended or not.                 *)
StreamingOrNot == Answers

(* Complete: a full page does not count.                                   *)
CompleteWhateverThePage(row, page) == row.status # "processing"

(* Deltas: an event carries the message as it was read.                    *)
DeltasOfTheCopyRead(w, m) == <<[id |-> m, is |-> lane[w].copy]>>

-----------------------------------------------------------------------------
(* Projection of an agent event on a message                               *)

Streaming == {m \in Answers : table[m].status = "streaming"}

Calling(t) == {m \in Answers : t \in DOMAIN table[m].calls}

Latest(S) == IF S = {} THEN NoMessage ELSE Max(S)

(* The message an event is about, NoMessage if the table has none.         *)
Target(w, does) ==
    CASE does = "asks" -> NoMessage
      [] does \in {"starts", "updates", "ends"} -> Latest(Streaming)
      [] OTHER -> Latest(Calling(w))

CallsOf(p) == IF p = 1 THEN [t \in Tools |-> "queued"] ELSE NoCalls

(* What is known of a call outlives a new text of its message.             *)
MergeCalls(next, previous) ==
    [t \in DOMAIN next |-> IF t \in DOMAIN previous THEN previous[t] ELSE next[t]]

Blank == [role |-> "assistant", prompt |-> prompts, text |-> "none",
          status |-> "streaming", calls |-> NoCalls]

(* projectMessageEvent: the message with the text the model has given.     *)
WithText(does, old) ==
    CASE does = "asks"    -> [Blank EXCEPT !.role = "user", !.text = "whole",
                                           !.status = "complete"]
      [] does = "starts"  -> [old EXCEPT !.prompt = prompts, !.text = "none"]
      [] does = "updates" -> [old EXCEPT !.text = "part"]
      [] does = "ends"    -> [old EXCEPT !.text = "whole", !.status = "complete",
                                         !.calls = MergeCalls(CallsOf(prompts), @)]

(* updateToolCall: the message with the state of one call changed.         *)
WithCall(t, does, old) ==
    [old EXCEPT !.calls[t] = CASE does = "runs"     -> "running"
                               [] does = "returns"  -> "done"
                               [] does = "abandons" -> "stale"
                               [] does = "stops"    -> "aborted"]

-----------------------------------------------------------------------------

Init ==
    /\ table = <<>> /\ log = <<>>
    /\ counter = 1 /\ column = 0
    /\ status = "idle" /\ prompts = 0 /\ at = "rest"
    /\ call = [t \in Tools |-> "nothing"]
    /\ lane = [w \in Lanes |-> Free]
    /\ stop = [at |-> "none", column |-> 0, calls |-> {}] /\ cancelled = FALSE
    /\ client = [at |-> "off", row |-> {}, cursor |-> 0, oldest |-> 1, got |-> {}]
    /\ mishaps = <<>>
    /\ overlapped = FALSE /\ late = FALSE

Others(w) == {v \in Lanes \ {w} : lane[v].at \notin {"free", "stuck"}}

(* The first statement of an append: the message is read.                  *)
Begin(w, does, m) ==
    /\ lane' = [lane EXCEPT ![w] =
           [@ EXCEPT !.at = "found", !.does = does, !.id = m,
                     !.copy = IF m = NoMessage THEN {} ELSE {table[m]}]]
    /\ overlapped' = (overlapped \/ Others(w) # {})

Mishap(kind) ==
    /\ Len(mishaps) < MaxMishaps
    /\ mishaps' = Append(mishaps, kind)

Happened(kind) == \E i \in 1..Len(mishaps) : mishaps[i] = kind

Keep == UNCHANGED <<client, mishaps, stop, cancelled, late>>

-----------------------------------------------------------------------------
(* What there is to report                                                 *)

(* An answer's first event takes over a message still streaming; a later   *)
(* one is dropped if there is none.                                        *)
WorkerFinds(does) ==
    /\ at = does /\ lane[Worker].at = "free"
    /\ LET m == Target(Worker, does) IN
       IF does = "updates" /\ m = NoMessage
       THEN /\ at' = "ends"
            /\ UNCHANGED <<table, log, counter, column, status, prompts, call,
                           lane, overlapped>>
       ELSE /\ Begin(Worker, does, m)
            /\ UNCHANGED <<table, log, counter, column, status, prompts, at, call>>
    /\ Keep

(* A short answer has no update of its own: they are kept back, and        *)
(* dropped in favour of a later one.                                       *)
SkipUpdate ==
    /\ at = "updates" /\ lane[Worker].at = "free"
    /\ at' = "ends"
    /\ UNCHANGED <<table, log, counter, column, status, prompts, call, lane, overlapped>>
    /\ Keep

(* The model throws in the middle of its answer: the prompt ends in an     *)
(* error, and the message stays as it is.                                  *)
BreakOff ==
    /\ at \in {"updates", "ends"} /\ lane[Worker].at = "free"
    /\ Mishap("fault")
    /\ at' = "fails"
    /\ UNCHANGED <<table, log, counter, column, status, prompts, call, lane, stop, cancelled,
                   client, overlapped, late>>

(* appendSessionStatusEvent, of an error or of a cancelled run: there is   *)
(* no message to read.                                                     *)
ReportStatus ==
    /\ at \in {"fails", "cancels"} /\ lane[Worker].at = "free"
    /\ lane' = [lane EXCEPT ![Worker] = [Free EXCEPT !.at = "written", !.does = at,
                                             !.deltas = <<[id |-> NoMessage, is |-> {}]>>]]
    /\ overlapped' = (overlapped \/ Others(Worker) # {})
    /\ UNCHANGED <<table, log, counter, column, status, prompts, at, call>>
    /\ Keep

(* The tools of a batch run, and report, side by side.                     *)
ToolFinds(t) ==
    /\ at = "tools" /\ lane[t].at = "free"
    /\ call[t] \in {"runs", "returns"}
    /\ Begin(t, call[t], Target(t, call[t]))
    /\ UNCHANGED <<table, log, counter, column, status, prompts, at, call>>
    /\ Keep

(* buildSessionResponse, in the middle of somebody's poll: the session has *)
(* been processing for half an hour,                                       *)
NoticeStuck ==
    /\ lane[Poll].at = "free" /\ status = "processing"
    /\ Mishap("stuck")
    /\ lane' = [lane EXCEPT ![Poll] = [Free EXCEPT !.at = "stuck", !.first = column]]
    /\ UNCHANGED <<table, log, counter, column, status, prompts, at, call, stop, cancelled,
                   client, overlapped, late>>

(* and its row is saved as it was read, with an error.                     *)
SaveStuck ==
    /\ lane[Poll].at = "stuck"
    /\ status' = "error" /\ column' = lane[Poll].first
    /\ lane' = [lane EXCEPT ![Poll] = Free]
    /\ UNCHANGED <<table, log, counter, prompts, at, call, overlapped>>
    /\ Keep

Silent(m, t) == t \in CodeTools /\ t \in DOMAIN table[m].calls
                /\ table[m].calls[t] \in {"queued", "running"}

(* recoverStaleCodeToolCalls, in the middle of somebody's poll: it has     *)
(* read the messages, and a call of one has been silent for too long.      *)
NoticeSilence ==
    /\ lane[Poll].at = "free"
    /\ Mishap("silence")
    /\ \E m \in Answers, t \in CodeTools :
           /\ Silent(m, t)
           /\ lane' = [lane EXCEPT ![Poll] = [Free EXCEPT !.at = "noticed", !.does = t,
                                                          !.id = m]]
    /\ overlapped' = (overlapped \/ Others(Poll) # {})
    /\ UNCHANGED <<table, log, counter, column, status, prompts, at, call, stop, cancelled,
                   client, late>>

PollFinds ==
    /\ lane[Poll].at = "noticed"
    /\ lane' = [lane EXCEPT ![Poll].at = "found", ![Poll].copy = {table[lane[Poll].id]}]
    /\ UNCHANGED <<table, log, counter, column, status, prompts, at, call, overlapped>>
    /\ Keep

-----------------------------------------------------------------------------
(* The other statements of an append                                       *)

Result(w) ==
    LET l == lane[w] IN
    IF w = Worker
    THEN WithText(l.does, IF l.copy = {} THEN Blank ELSE CHOOSE m \in l.copy : TRUE)
    ELSE LET old == CHOOSE m \in l.copy : TRUE IN
         IF w = Poll THEN WithCall(l.does, "abandons", old)
         ELSE IF w = Stop THEN WithCall(l.does, "stops", old) ELSE WithCall(w, l.does, old)

(* A prompt is reported by two events, anything else by one.               *)
Deltas(w, m) ==
    LET delta == [id |-> m, is |-> {Result(w)}]
    IN  IF lane[w].does = "asks" THEN <<delta, delta>> ELSE <<delta>>

(* create or update: the whole message is written as it was projected.     *)
WriteMessage(w) ==
    /\ lane[w].at = "found"
    /\ LET m == IF lane[w].id = NoMessage THEN Len(table) + 1 ELSE lane[w].id IN
       /\ table' = IF m > Len(table) THEN Append(table, Result(w))
                   ELSE [table EXCEPT ![m] = Result(w)]
       /\ lane' = [lane EXCEPT ![w].at = "written", ![w].id = m,
                               ![w].deltas = Deltas(w, m)]
    /\ UNCHANGED <<log, counter, column, status, prompts, at, call, overlapped>>
    /\ Keep

Reserved(n) == counter' = counter + n

ReserveSequences(w) ==
    /\ lane[w].at = "written"
    /\ Reserved(Len(lane[w].deltas))
    /\ lane' = [lane EXCEPT ![w].at = "reserved", ![w].first = counter]
    /\ UNCHANGED <<table, log, column, status, prompts, at, call, overlapped>>
    /\ Keep

AfterReport(does) ==
    CASE does = "asks" -> "starts" [] does = "starts" -> "updates"
      [] does = "updates" -> "ends" [] does = "ends" -> "noted"
      [] does = "fails" -> "errs" [] does = "cancels" -> "idles"

(* One batch: the events, and the cursor of the session moved to the last. *)
InsertEvents(w) ==
    /\ lane[w].at = "reserved"
    /\ LET first == lane[w].first
           last  == first + Len(lane[w].deltas) - 1
       IN  /\ log' = [s \in Sequences \cup first..last |->
                         IF s \in first..last THEN lane[w].deltas[s - first + 1]
                         ELSE log[s]]
           /\ column' = last
    /\ lane' = [lane EXCEPT ![w] = Free]
    /\ at' = IF w = Worker THEN AfterReport(lane[w].does) ELSE at
    /\ call' = IF w \in Tools
               THEN [call EXCEPT ![w] = IF @ = "runs" THEN "returns" ELSE "over"]
               ELSE call
    /\ late' = (late \/ status # "processing")
    /\ UNCHANGED <<table, counter, status, prompts, overlapped, client, mishaps, stop, cancelled>>

-----------------------------------------------------------------------------
(* The worker between its reports                                          *)

(* assertCanContinue: the run goes on, unless it was cancelled.            *)
Onward(next) == IF cancelled THEN "cancels" ELSE next

(* completeStep: the answer will not be asked for again.                   *)
NoteAnswer ==
    /\ at = "noted"
    /\ at' = Onward(IF prompts = 1 THEN "tools" ELSE "settles")
    /\ call' = [t \in Tools |-> IF prompts = 1 /\ ~ cancelled THEN "runs" ELSE call[t]]
    /\ UNCHANGED <<table, log, counter, column, status, prompts, lane, overlapped>>
    /\ Keep

NoteTools ==
    /\ at = "tools" /\ \A t \in Tools : call[t] = "over"
    /\ at' = Onward("settles")
    /\ UNCHANGED <<table, log, counter, column, status, prompts, call, lane, overlapped>>
    /\ Keep

(* The step that ends the run has been noted too.                          *)
NoteEnd ==
    /\ at \in {"settled", "failed"}
    /\ at' = Onward("rest")
    /\ UNCHANGED <<table, log, counter, column, status, prompts, call, lane, overlapped>>
    /\ Keep

(* A step looks whether the run was cancelled before it begins, too.       *)
NoticeCancel ==
    /\ cancelled
    /\ at \in {"asks", "fails", "settles"} /\ lane[Worker].at = "free"
    /\ at' = "cancels"
    /\ UNCHANGED <<table, log, counter, column, status, prompts, call, lane, overlapped>>
    /\ Keep

(* A cancelled run that no worker has claimed, or that its worker has      *)
(* left, is never taken up.                                                *)
NeverClaimed ==
    /\ cancelled
    /\ \/ at \in {"asks", "settles"}
       \/ at = "tools" /\ \A t \in Tools : call[t] = "runs" /\ lane[t].at = "free"
    /\ lane[Worker].at = "free"
    /\ at' = "rest"
    /\ UNCHANGED <<table, log, counter, column, status, prompts, call, lane, overlapped>>
    /\ Keep

(* saveSessionMetadata reads the largest sequence of the log ...            *)
ReadCursor ==
    /\ at \in {"settles", "errs", "idles"} /\ lane[Worker].at = "free"
    /\ lane' = [lane EXCEPT ![Worker] =
           [Free EXCEPT !.at = "cursor", !.first = Latest(Sequences)]]
    /\ UNCHANGED <<table, log, counter, column, status, prompts, at, call, overlapped>>
    /\ Keep

(* ... and saves the session with it.                                      *)
Settle ==
    /\ lane[Worker].at = "cursor"
    /\ status' = IF at = "errs" THEN "error" ELSE "idle"
    /\ column' = lane[Worker].first
    /\ at' = CASE at = "settles" -> "settled" [] at = "errs" -> "failed" [] at = "idles" -> "rest"
    /\ lane' = [lane EXCEPT ![Worker] = Free]
    /\ UNCHANGED <<table, log, counter, prompts, call, overlapped>>
    /\ Keep

(* The step that has thrown is not noted: it is done again.                *)
FirstStepNotNoted ==
    CASE at \in {"asks", "starts", "updates", "ends", "noted", "fails", "errs", "failed"} -> "asks"
      [] at = "tools" -> "tools"
      [] at \in {"settles", "settled"} -> "settles"

(* The worker is lost with the appends of its tools; another one starts    *)
(* over at the first step that has not been noted, unless the run was      *)
(* cancelled.                                                              *)
Cut ==
    /\ at # "rest"
    /\ Mishap("cut")
    /\ lane' = [w \in Lanes |-> IF w \in {Poll, Stop} THEN lane[w] ELSE Free]
    /\ at' = IF cancelled THEN "rest" ELSE FirstStepNotNoted
    /\ call' = [t \in Tools |-> IF at = "tools" THEN "runs" ELSE call[t]]
    /\ UNCHANGED <<table, log, counter, column, status, prompts, stop, cancelled, client,
                   overlapped, late>>

-----------------------------------------------------------------------------
(* A request to stop (handleAbortSession)                                  *)

StopGoes(stage) == stop' = [stop EXCEPT !.at = stage]

(* It reads the row of the session, *)
StopSession ==
    /\ stop.at = "none" /\ prompts > 0
    /\ Mishap("stop")
    /\ stop' = [at |-> "reads", column |-> column, calls |-> {}]
    /\ UNCHANGED <<table, log, counter, column, status, prompts, at, call, lane, cancelled,
                   client, overlapped, late>>

(* and the stored conversation: it has the calls of the answer from the    *)
(* end of its step to the end of theirs.                                   *)
AnswerStored == prompts = 1 /\ at \notin {"settles", "settled", "rest"}
                /\ \A t \in Tools : Calling(t) # {}
CallsStored == at = "tools" /\ \E t \in Tools : call[t] # "over"

FindCalls ==
    /\ stop.at = "reads"
    /\ \E calls \in {{}, Tools} :
           /\ calls = {} \/ AnswerStored
           /\ calls = Tools \/ ~ CallsStored
           /\ stop' = [stop EXCEPT !.at = IF calls = {} THEN "looks" ELSE "calls",
                                   !.calls = calls]
    /\ UNCHANGED <<table, log, counter, column, status, prompts, at, call, lane, cancelled,
                   overlapped, late, client, mishaps>>

(* They are reported in one batch.  Each is written to the message before  *)
(* the next is read; lane.deltas gathers what will be appended.            *)
StopFinds(t) ==
    /\ stop.at = "calls" /\ t \in stop.calls /\ lane[Stop].at \in {"free", "written"}
    /\ Begin(Stop, t, Latest(Calling(t)))
    /\ UNCHANGED <<table, log, counter, column, status, prompts, at, call>>
    /\ Keep

StopWrites ==
    /\ lane[Stop].at = "found"
    /\ LET l == lane[Stop] IN
       /\ table' = [table EXCEPT ![l.id] = Result(Stop)]
       /\ lane' = [lane EXCEPT ![Stop].at = "written", ![Stop].deltas = @ \o Deltas(Stop, l.id)]
       /\ stop' = [stop EXCEPT !.calls = @ \ {l.does}]
    /\ UNCHANGED <<log, counter, column, status, prompts, at, call, cancelled, overlapped, late,
                   client, mishaps>>

(* findActiveForSession: the run, unless it has ended; then the row is     *)
(* saved only if there were calls to stop.                                 *)
FindRun ==
    /\ stop.at \in {"looks", "calls"} /\ stop.calls = {} /\ lane[Stop].at = "free"
    /\ StopGoes(IF at # "rest" THEN "cancels"
                ELSE IF stop.at = "calls" THEN "saves" ELSE "none")
    /\ UNCHANGED <<table, log, counter, column, status, prompts, at, call, lane, cancelled,
                   overlapped, late, client, mishaps>>

CancelRun ==
    /\ stop.at = "cancels"
    /\ cancelled' = TRUE
    /\ StopGoes("saves")
    /\ UNCHANGED <<table, log, counter, column, status, prompts, at, call, lane,
                   overlapped, late, client, mishaps>>

(* The row is saved as it was read, but for its status.                    *)
SaveStopped ==
    /\ stop.at = "saves"
    /\ status' = "idle" /\ column' = stop.column
    /\ stop' = [at |-> "over", column |-> 0, calls |-> {}]
    /\ UNCHANGED <<table, log, counter, prompts, at, call, lane, cancelled,
                   overlapped, late, client, mishaps>>

-----------------------------------------------------------------------------
(* The client                                                              *)

(* A prompt is accepted.  The client gets the cursor of the session as it  *)
(* was before, and follows from there.                                     *)
Submit ==
    /\ client.at \in {"off", "done"}
    /\ status # "processing" /\ at = "rest" /\ prompts < MaxPrompts
    /\ ~ cancelled /\ stop.at # "cancels"
    /\ status' = "processing"
    /\ prompts' = prompts + 1
    /\ at' = "asks"
    /\ client' = [client EXCEPT !.at = "on", !.cursor = column]
    /\ UNCHANGED <<table, log, counter, column, call, lane, stop, cancelled, mishaps, overlapped,
                   late>>

Lowest(n, S)  == {s \in S : Cardinality({r \in S : r < s}) < n}
Highest(n, S) == {s \in S : Cardinality({r \in S : r > s}) < n}

(* A faulty ListSince: the latest events of those, instead of the earliest.*)
ListSinceLatestFirst(cursor) == Highest(PageSize, {s \in Sequences : s > cursor})

ListSince(cursor) == Lowest(PageSize, {s \in Sequences : s > cursor})
ListRecent == Highest(PageSize, Sequences)
ListBefore(s) == Highest(PageSize, {r \in Sequences : r < s})

(* A request begins with the row of the session: to open it at the end of  *)
(* its log, or to see what has come since.  (A client asks all the time;   *)
(* asking a session at work for events it does not have changes nothing,   *)
(* but for what NoticeStuck and NoticeSilence do.)                         *)
Row == [status |-> status, column |-> column]

Open ==
    /\ client.at \in {"off", "done"} /\ prompts > 0
    /\ client' = [client EXCEPT !.at = "opening", !.row = {Row}]
    /\ UNCHANGED <<server, mishaps, overlapped, late>>

Ask ==
    /\ client.at = "on"
    /\ status # "processing" \/ ListSince(client.cursor) # {}
    /\ client' = [client EXCEPT !.at = "asked", !.row = {Row}]
    /\ UNCHANGED <<server, mishaps, overlapped, late>>

TailCursor(row) == row.column

(* openSession: the last page, and the cursor from the row read before.    *)
GetTail ==
    /\ client.at = "opening"
    /\ LET page == ListRecent
           row  == CHOOSE r \in client.row : TRUE
       IN  client' = [client EXCEPT
               !.at = IF row.status = "processing" THEN "on" ELSE "done",
               !.row = {}, !.cursor = TailCursor(row),
               !.oldest = IF page = {} THEN 1 ELSE Min(page),
               !.got = page]
    /\ UNCHANGED <<server, mishaps, overlapped, late>>

(* The stream, or the poll, is over at the end of the prompt, unless there *)
(* may be another page.                                                    *)
Complete(row, page) == row.status # "processing" /\ Cardinality(page) < PageSize

(* A page of the stream, or the answer of a poll.                          *)
GetPage ==
    /\ client.at = "asked"
    /\ LET page == ListSince(client.cursor)
           row  == CHOOSE r \in client.row : TRUE
       IN  client' = [client EXCEPT
               !.at = IF Complete(row, page) THEN "done" ELSE "on",
               !.row = {},
               !.cursor = IF page = {} THEN @ ELSE Max(page),
               !.got = @ \cup page]
    /\ UNCHANGED <<server, mishaps, overlapped, late>>

(* loadPreviousMessages: the page before the oldest event shown.           *)
LoadOlder ==
    /\ client.at \in {"on", "done"} /\ client.oldest > 1
    /\ LET page == ListBefore(client.oldest) IN
       /\ page # {}
       /\ client' = [client EXCEPT !.oldest = Min(page), !.got = @ \cup page]
    /\ UNCHANGED <<server, mishaps, overlapped, late>>

(* A stream or a poll fails.  The command line goes on from the last       *)
(* cursor, the web page from the first.                                    *)
Drop ==
    /\ client.at = "asked"
    /\ Mishap("drop")
    /\ client' = [client EXCEPT !.at = "on", !.row = {}]
    /\ UNCHANGED <<server, overlapped, late>>

-----------------------------------------------------------------------------

WorkerStep ==
    \/ \E does \in {"asks", "starts", "updates", "ends"} : WorkerFinds(does)
    \/ SkipUpdate \/ BreakOff \/ ReportStatus
    \/ NoteAnswer \/ NoteTools \/ NoteEnd \/ NoticeCancel \/ NeverClaimed
    \/ ReadCursor \/ Settle

AppendStep(w) ==
    \/ w # Stop /\ WriteMessage(w)
    \/ (w = Stop => stop.calls = {}) /\ ReserveSequences(w)
    \/ InsertEvents(w)

StopStep ==
    \/ StopSession \/ FindCalls \/ StopWrites \/ FindRun \/ CancelRun \/ SaveStopped
    \/ \E t \in Tools : StopFinds(t)

ClientStep == Ask \/ GetTail \/ GetPage

Next ==
    \/ WorkerStep
    \/ \E t \in Tools : ToolFinds(t)
    \/ \E w \in Lanes : AppendStep(w)
    \/ NoticeSilence \/ PollFinds \/ NoticeStuck \/ SaveStuck
    \/ Cut \/ StopStep
    \/ Submit \/ Open \/ LoadOlder \/ Drop \/ ClientStep

Spec == Init /\ [][Next]_vars

-----------------------------------------------------------------------------
(* Properties                                                              *)

CallTables == {NoCalls} \cup [Tools -> {"queued", "running", "done", "stale", "aborted"}]

MessageStates ==
    [role : {"user", "assistant"}, prompt : Nat, text : {"none", "part", "whole"},
     status : {"streaming", "complete"}, calls : CallTables]

Events == [id : Nat, is : SUBSET MessageStates]

LaneStates ==
    [at : {"free", "noticed", "found", "written", "reserved", "cursor", "stuck"},
     does : {"nothing", "asks", "starts", "updates", "ends", "fails", "cancels", "runs",
             "returns"} \cup Tools,
     id : Nat, copy : SUBSET MessageStates, deltas : Seq(Events), first : Nat]

Statuses == {"idle", "processing", "error"}

ClientStates ==
    [at : {"off", "opening", "on", "asked", "done"},
     row : SUBSET [status : Statuses, column : Nat],
     cursor : Nat, oldest : Nat, got : SUBSET Nat]

(* Types of the tables, of the appends under way and of the client. *)
TypeOK ==
    /\ table \in Seq(MessageStates)
    /\ Sequences \subseteq Nat \ {0} /\ \A s \in Sequences : log[s] \in Events
    /\ counter \in Nat \ {0} /\ column \in Nat
    /\ status \in Statuses /\ prompts \in Nat
    /\ at \in {"rest", "asks", "starts", "updates", "ends", "noted", "tools", "settles",
               "settled", "fails", "errs", "failed", "cancels", "idles"}
    /\ call \in [Tools -> {"nothing", "runs", "returns", "over"}]
    /\ lane \in [Lanes -> LaneStates] /\ client \in ClientStates
    /\ mishaps \in Seq({"fault", "silence", "cut", "drop", "stop", "stuck"})
    /\ overlapped \in BOOLEAN /\ late \in BOOLEAN /\ cancelled \in BOOLEAN
    /\ stop \in [at : {"none", "reads", "calls", "looks", "cancels", "saves", "over"},
                 column : Nat, calls : SUBSET Tools]

(* A client has got every event of the log from the oldest it shows to its *)
(* cursor -- unless two appends have been under way at once, of which the  *)
(* one with the higher numbers can be inserted, and read, first, or events *)
(* came when the session had stopped and nobody followed, before the       *)
(* cursor that the next prompt began with.  Pages, tails, older pages,     *)
(* lost streams and lost workers cause no gap: append, listSince,          *)
(* listRecent and listBefore of data/sessions.ts, and the cursors of       *)
(* buildSessionResponse and of the clients.                                *)
NothingSkippedUnlessOverlapping ==
    ~overlapped /\ ~late /\ client.at # "off" /\ client.at # "opening"
        => \A s \in Sequences :
               client.oldest <= s /\ s <= client.cursor => s \in client.got

(* What replaying the log gives for a message.                             *)
Replayed(m) ==
    LET about == {s \in Sequences : log[s].id = m}
    IN  IF about = {} THEN {} ELSE log[Max(about)].is

Quiet == \A w \in Lanes : lane[w].at = "free"

(* When nobody is in the middle of an append, each message is what the     *)
(* events of the log say it is -- unless appends have overlapped or a      *)
(* worker was lost between the two tables: message-projection.ts, which    *)
(* writes the messages first.                                              *)
ReplayRebuildsUnlessDisturbed ==
    Quiet /\ ~overlapped /\ ~Happened("cut")
        => \A m \in Messages : Replayed(m) = {table[m]}

(* data/schema.ts says so without a condition.                             *)
ReplayRebuildsTable ==
    Quiet /\ ~Happened("cut") => \A m \in Messages : Replayed(m) = {table[m]}

(* An answer stands below the prompt it answers, and no message has two    *)
(* prompts' answers -- unless the model broke an earlier answer off, which *)
(* leaves a message that the next answer takes over: findExistingMessage   *)
(* and findLatestStreamingAssistant.                                       *)
AnswersFollowTheirPrompts ==
    ~Happened("fault")
        => /\ \A p \in 1..(prompts - 1) :
                  \E m \in Answers : table[m].prompt = p /\ table[m].text = "whole"
           /\ \A m \in Answers :
                  \E u \in 1..(m - 1) :
                      table[u].role = "user" /\ table[u].prompt = table[m].prompt

(* A client that has finished with a session has all of its log, up to the *)
(* last event its prompt has given rise to -- unless appends have          *)
(* overlapped, or events came when the session had stopped already.  Those *)
(* are the doing of a stop, which sets the session idle while its worker   *)
(* is in a step; of a poll that gives a session up as stuck; or of a       *)
(* worker lost before it had noted its end: a run by itself has told all   *)
(* before it sets the status.                                              *)
FinishedHasAll ==
    /\ client.at = "done" /\ status # "processing" /\ ~overlapped /\ ~late
          => \A s \in Sequences : client.oldest <= s => s \in client.got
    /\ late => overlapped \/ \E kind \in {"stop", "stuck", "cut"} : Happened(kind)

=============================================================================
