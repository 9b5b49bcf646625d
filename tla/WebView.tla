------------------------------ MODULE WebView -------------------------------
(***************************************************************************)
(* The chat view of the web client.                                        *)
(*                                                                         *)
(* What it shows is written by requests that overlap: a prompt and the     *)
(* stream of its events, the following of a session that is processing,    *)
(* the opening of a session, older messages, an abort, a kill, deletions.  *)
(* The user goes on to another session meanwhile, through its containers   *)
(* too.  Effects run after every change: they clear the mark of a session  *)
(* that has stopped and start or stop the following.                       *)
(***************************************************************************)
EXTENDS ServerSessions

VARIABLES
    list,        \* server as the list of sessions last had it
    view,        \* the state and the references of the component
    task,        \* requests under way
    moved        \* the user has gone to another session while answers for
                 \* the last one were still to come, or with its abort still
                 \* noted because the answer to it was lost, or has left one
                 \* through a container or by deleting all (history)

webVars == <<list, view, task, moved>>

Idle == [kind |-> "none", at |-> "free", s |-> NoSession, from |-> NoSession,
         active |-> FALSE, aborted |-> FALSE, stopping |-> FALSE]

(* busyWith is serverProcessingSessionId, run, aborting and follows are    *)
(* the session ids in the references, runs and followed the requests their *)
(* controllers belong to, seen the dependencies the effects last ran with. *)
NewView == [selected |-> NoSession, shown |-> {}, running |-> FALSE,
            busyWith |-> NoSession, stopping |-> NoSession,
            run |-> NoSession, aborting |-> NoSession, runs |-> NoTask,
            follows |-> NoSession, followed |-> NoTask, cleanup |-> NoTask,
            cursor |-> FALSE, loading |-> FALSE, seen |-> <<FALSE, FALSE, NoSession>>]

At(i, place) == task[i].at = place
FreeTask(t) ==
    LET free == {i \in Tasks : t[i].at = "free"}
    IN  IF free = {} THEN NoTask ELSE CHOOSE i \in free : TRUE

-----------------------------------------------------------------------------
(* Faulty variants, each of which breaks a property when it stands in the  *)
(* place of the definition named.                                          *)

(* Cleared: the mark stays until the stream says that it is complete.      *)
ClearedByStreamOnly(v, l) == v

(* Opening: the session is selected at once, its messages follow.          *)
OpeningAtOnce(v, s) == [v EXCEPT !.selected = s, !.shown = {}]

-----------------------------------------------------------------------------
(* Effects.                                                                *)

Processing(v, l) ==
    \/ v.selected \in Sessions /\ l[v.selected] = "processing"
    \/ v.selected \in Sessions /\ v.busyWith = v.selected

Busy == view.running \/ Processing(view, list)

(* The list says that the selected session is not processing.              *)
Cleared(v, l) ==
    IF v.selected \in Sessions /\ l[v.selected] \notin {"none", "deleted", "processing"}
      THEN [v EXCEPT !.busyWith = IF @ = v.selected THEN NoSession ELSE @,
                     !.aborting = IF v.stopping = v.selected /\ @ = v.selected
                                    THEN NoSession ELSE @,
                     !.stopping = IF @ = v.selected THEN NoSession ELSE @]
      ELSE v

(* The task whose controller is aborted, and the references it held.       *)
Aborted(t, i) == IF i \in Tasks THEN [t EXCEPT ![i].aborted = TRUE] ELSE t

Unfollowed(v) ==
    IF v.cleanup \in Tasks /\ v.followed = v.cleanup
      THEN [v EXCEPT !.follows = NoSession, !.followed = NoTask, !.cleanup = NoTask]
      ELSE [v EXCEPT !.cleanup = NoTask]

Follow(v) == [Idle EXCEPT !.kind = "follow", !.s = v.selected,
                          !.stopping = v.stopping = v.selected, !.at = IF v.cursor THEN "stream" ELSE "initial"]

(* The state of the view after a change, with its effects, the mark of a   *)
(* session that has stopped cleared already.                               *)
Rendered(v, t0, l) ==
    LET deps == <<Processing(v, l), v.running, v.selected>>
        u    == [Unfollowed(v) EXCEPT !.seen = deps]
        t    == Aborted(t0, v.cleanup)
        i    == FreeTask(t)
    IN  IF deps = v.seen
          THEN [view |-> v, task |-> t0, room |-> TRUE]
          ELSE IF deps[1] /\ ~v.running /\ v.selected \in Sessions /\ u.follows # v.selected
            THEN [view |-> [u EXCEPT !.follows = v.selected, !.followed = i, !.cleanup = i],
                  task |-> [j \in Tasks |-> IF j = i THEN Follow(u) ELSE t[j]], room |-> i \in Tasks]
            ELSE [view |-> u, task |-> t, room |-> TRUE]

(* A change waits until there is room for a request that its effects start.*)
BecomesWithList(v0, t0, l) ==
    \E v \in {Cleared(v0, l)}, t \in {t0} :
      \E r \in {Rendered(v, t, l)} :
        /\ r.room
        /\ view' = r.view
        /\ task' = r.task

Becomes(v, t) == BecomesWithList(v, t, list)

Done(i) == [task EXCEPT ![i] = Idle]
Starts(i, what) == [task EXCEPT ![i] = what]

(* Whether anything but an opening is under way apart from a request.      *)
OthersUnderWay(t, i) == \E j \in Tasks \ {i} : t[j].at # "free" /\ t[j].kind # "open"

-----------------------------------------------------------------------------
(* abortRun, which new, kill and delete call too.                          *)

Target(v) == IF v.run \in Sessions THEN v.run
               ELSE IF v.selected \in Sessions THEN v.selected ELSE v.busyWith

AbortedView(v) ==
    [v EXCEPT !.aborting = IF Target(v) \in Sessions THEN Target(v) ELSE @,
              !.stopping = IF Target(v) \in Sessions THEN Target(v) ELSE @,
              !.runs = NoTask, !.followed = NoTask,
              !.follows = IF @ = Target(v) THEN NoSession ELSE @,
              !.running = FALSE, !.busyWith = NoSession]

AbortedTasks(v, t, i) ==
    LET u == Aborted(Aborted(t, v.runs), v.followed)
    IN  IF Target(v) \in Sessions
          THEN [u EXCEPT ![i] = [Idle EXCEPT !.kind = "abort", !.at = "abort", !.s = Target(v)]]
          ELSE u

-----------------------------------------------------------------------------
(* What the user does.                                                     *)

Click(i) ==
    /\ clicks < MaxClicks
    /\ At(i, "free") /\ i = FreeTask(task) /\ \E j \in Tasks \ {i} : At(j, "free")
    /\ clicks' = clicks + 1
    /\ UNCHANGED <<server, list, mishaps>>

Opening(v, s) == v
Entered(v, s) == [v EXCEPT !.selected = s]

OpenSession(i, s) ==
    /\ Click(i) /\ server[s] # "none"
    /\ Becomes(Opening(view, s), Starts(i, [Idle EXCEPT !.kind = "open", !.at = "get", !.s = s]))
    /\ UNCHANGED moved

StartDraftSession(i) ==
    /\ Click(i)
    /\ LET v == [AbortedView(view) EXCEPT !.selected = NoSession, !.shown = {},
                    !.follows = NoSession, !.cursor = FALSE, !.loading = FALSE]
           t == AbortedTasks(view, task, i)
       IN  Becomes(v, t) /\ moved' = (OthersUnderWay(t, NoTask) \/ v.aborting \in Sessions)

(* As long as there are sessions for first prompts to make.                *)
SessionsSuffice ==
    LET drafts == {j \in Tasks : At(j, "submit") /\ task[j].from = NoSession}
    IN  Cardinality(drafts) < Cardinality(Unmade)

SubmitPrompt(i) ==
    /\ Click(i) /\ ~Busy
    /\ view.selected = NoSession => SessionsSuffice
    /\ Becomes([view EXCEPT !.running = TRUE, !.runs = i, !.run = view.selected],
               Starts(i, [Idle EXCEPT !.kind = "submit", !.at = "submit", !.s = view.selected,
                                      !.from = view.selected,
                                      !.stopping = view.selected \in {view.stopping} \ {NoSession}]))
    /\ UNCHANGED moved

AbortRun(i) ==
    /\ Click(i) /\ Busy
    /\ Becomes(AbortedView(view), AbortedTasks(view, task, i))
    /\ UNCHANGED moved

LoadPreviousMessages(i) ==
    /\ Click(i) /\ view.selected \in Sessions /\ ~view.loading
    /\ Becomes([view EXCEPT !.loading = TRUE],
               Starts(i, [Idle EXCEPT !.kind = "older", !.at = "get", !.s = view.selected]))
    /\ UNCHANGED moved

KillSession(i, s) ==
    /\ Click(i) /\ server[s] # "none"
    /\ Becomes(view, Starts(i, [Idle EXCEPT !.kind = "kill", !.at = "kill", !.s = s]))
    /\ UNCHANGED moved

(* A container is opened, or a path in it: its session is selected, and    *)
(* the messages stay as they are behind the files.                         *)
OpenContainer(i, s) ==
    /\ Click(i) /\ list[s] \notin {"none", "deleted"}
    /\ Becomes(Entered(view, s), task)
    /\ moved' = (moved \/ s # view.selected)

(* One session, or all of them.                                            *)
DeleteSessions(i, s) ==
    /\ Click(i)
    /\ s \in Sessions => server[s] # "none"
    /\ Becomes(view, Starts(i, [Idle EXCEPT !.kind = "delete", !.at = "delete", !.s = s]))
    /\ UNCHANGED moved

-----------------------------------------------------------------------------
(* The answers to what was asked.                                          *)

(* What the server does for a request that is not refused.                 *)
Deleted(s) ==
    server' = [x \in Sessions |-> IF server[x] # "none" /\ s \in {x, NoSession}
                                     THEN "deleted" ELSE server[x]]

TakesEffect(i) ==
    \/ At(i, "kill") /\ Stopped(task[i].s, "closed")
    \/ At(i, "abort") /\ Stopped(task[i].s, "idle")
    \/ At(i, "delete") /\ Deleted(task[i].s)

OpenSessionAnswers(i) ==
    LET s == task[i].s
    IN  /\ At(i, "get") /\ task[i].kind = "open"
        /\ Becomes([view EXCEPT !.selected = s, !.shown = {s}, !.cursor = TRUE, !.loading = FALSE,
                        !.busyWith = IF server[s] = "processing" THEN s ELSE NoSession], Done(i))
        /\ moved' = OthersUnderWay(task, i)
        /\ UNCHANGED <<server, list, clicks, mishaps>>

OlderMessagesArrive(i) ==
    /\ At(i, "get") /\ task[i].kind = "older"
    /\ Becomes([view EXCEPT !.shown = @ \cup {task[i].s}, !.loading = FALSE], Done(i))
    /\ UNCHANGED <<server, list, moved, clicks, mishaps>>

(* The server takes the prompt or refuses it.  A first prompt makes a      *)
(* session, one for a session that was deleted makes it anew.  The request *)
(* itself is not aborted with its controller.                              *)
SubmitChatAnswers(i) ==
    LET from == task[i].from
    IN  /\ At(i, "submit")
        /\ \E s \in IF from = NoSession THEN Unmade ELSE {from} :
             IF TakesPrompt(s) \/ server[s] = "deleted"
               THEN /\ server' = [server EXCEPT ![s] = "processing"]
                    /\ Becomes([view EXCEPT !.selected = s, !.run = s, !.shown = @ \cup {s}],
                               [task EXCEPT ![i].at = "stream", ![i].s = s])
                    /\ moved' = (moved \/ view.selected # from)
               ELSE /\ Becomes([view EXCEPT !.running = FALSE, !.runs = NoTask, !.run = NoSession,
                                  !.busyWith = IF server[s] = "processing" THEN s ELSE @], Done(i))
                    /\ UNCHANGED <<server, moved>>
        /\ UNCHANGED <<list, clicks, mishaps>>

KillSessionAnswers(i) ==
    LET s == task[i].s
    IN  /\ At(i, "kill")
        /\ TakesEffect(i)
        /\ IF view.selected = s
             THEN Becomes(AbortedView(view), AbortedTasks(view, Done(i), i))
             ELSE Becomes(view, Done(i))
        /\ UNCHANGED <<list, moved, clicks, mishaps>>

(* What is shown of the selected session goes with it, and an abort of it  *)
(* is sent.                                                                *)
DeleteSessionAnswers(i) ==
    LET v == [AbortedView(view) EXCEPT !.selected = NoSession, !.shown = {},
                 !.cursor = FALSE, !.loading = FALSE]
        t == AbortedTasks(view, Done(i), i)
    IN  /\ At(i, "delete") /\ task[i].s \in Sessions
        /\ TakesEffect(i)
        /\ IF view.selected = task[i].s
             THEN Becomes(v, t) /\ moved' = TRUE
             ELSE Becomes(view, Done(i)) /\ UNCHANGED moved
        /\ UNCHANGED <<list, clicks, mishaps>>

(* No session is selected any more, but the messages stay, and so does     *)
(* what is under way.                                                      *)
DeleteAllAnswers(i) ==
    /\ At(i, "delete") /\ task[i].s = NoSession
    /\ TakesEffect(i)
    /\ Becomes([view EXCEPT !.selected = NoSession, !.cursor = FALSE, !.loading = FALSE], Done(i))
    /\ moved' = (moved \/ view.selected \in Sessions)
    /\ UNCHANGED <<list, clicks, mishaps>>

AbortSessionAnswers(i) ==
    /\ At(i, "abort") /\ server[task[i].s] # "closed"
    /\ TakesEffect(i)
    /\ task' = [task EXCEPT ![i].at = "final"]
    /\ UNCHANGED <<list, view, moved, clicks, mishaps>>

-----------------------------------------------------------------------------
(* Streams.  A stream is complete when the session is not processing, and  *)
(* a session that is idle counts only once the stream has seen it active;  *)
(* following starts from the last event known, so that what had happened   *)
(* before is no activity.                                                  *)

IsStreamComplete(i) ==
    /\ server[task[i].s] # "processing"
    /\ task[i].active \/ server[task[i].s] # "idle"

(* The first event that shows the session active, and the last.            *)
Yields(i) ==
    \/ IsStreamComplete(i)
    \/ ~task[i].active /\ (task[i].kind = "submit" \/ server[task[i].s] = "processing")

Shows(i) == IF task[i].kind = "submit" THEN view.shown \cup {task[i].s} ELSE {task[i].s}

InitialSessionArrives(i) ==
    LET s == task[i].s
    IN  /\ At(i, "initial")
        /\ IF task[i].aborted
             THEN Becomes(view, Done(i))
             ELSE IF server[s] = "processing"
               THEN Becomes([view EXCEPT !.shown = {s}, !.cursor = TRUE, !.busyWith = s],
                            [task EXCEPT ![i].at = "stream"])
               ELSE Becomes([view EXCEPT !.shown = {s}, !.cursor = TRUE, !.busyWith = NoSession,
                               !.follows  = IF @ = s THEN NoSession ELSE @,
                               !.followed = IF @ = i THEN NoTask ELSE @], Done(i))
        /\ UNCHANGED <<server, list, moved, clicks, mishaps>>

(* An update that comes after the abort of its stream is still shown by a  *)
(* prompt; following checks first.                                         *)
StreamUpdate(i) ==
    /\ At(i, "stream")
    /\ task[i].kind = "follow" => ~task[i].aborted
    /\ Yields(i)
    /\ Becomes([view EXCEPT !.shown = Shows(i), !.cursor = TRUE],
               [task EXCEPT ![i].active = TRUE,
                            ![i].at = IF IsStreamComplete(i) THEN "final" ELSE @])
    /\ UNCHANGED <<server, list, moved, clicks, mishaps>>

Ended(i, v) ==
    IF task[i].kind = "submit"
      THEN [v EXCEPT !.running = FALSE, !.runs = NoTask, !.run = NoSession]
      ELSE [v EXCEPT !.follows  = IF @ = task[i].s THEN NoSession ELSE @,
                     !.followed = IF @ = i THEN NoTask ELSE @]

(* A prompt that was aborted waits for the answer to the abort.            *)
Interrupted(i) ==
    IF task[i].kind = "submit" /\ task[i].aborted /\ view.aborting \in Sessions
      THEN [view EXCEPT !.stopping = view.aborting, !.busyWith = view.aborting]
      ELSE view

AbortedStreamEnds(i) ==
    /\ At(i, "stream") /\ task[i].aborted
    /\ Becomes(Ended(i, Interrupted(i)), Done(i))
    /\ UNCHANGED <<server, list, moved, clicks, mishaps>>

(* A request of another kind has no answer: only loading ends.             *)
WithoutAnswer(i) == [view EXCEPT !.loading = IF task[i].kind = "older" THEN FALSE ELSE @]

(* Any request of a prompt or of the following fails; a prompt sent may    *)
(* have been taken all the same.                                           *)
StreamFails(i) ==
    /\ task[i].at \in {"submit", "initial", "stream", "final"} /\ task[i].kind # "abort"
    /\ Mishap
    /\ \/ UNCHANGED server
       \/ /\ At(i, "submit") /\ task[i].s \in Sessions /\ server[task[i].s] = "idle"
          /\ server' = [server EXCEPT ![task[i].s] = "processing"]
    /\ Becomes(Ended(i, Interrupted(i)), Done(i))
    /\ UNCHANGED <<list, moved>>

(* The final state of the session is shown, whatever is selected by then;  *)
(* whether it was stopping is what it was when the request started.        *)
FinalSessionArrives(i) ==
    LET s == task[i].s
        v == [view EXCEPT !.shown = Shows(i), !.cursor = TRUE, !.busyWith = NoSession,
                !.aborting = IF @ = s /\ (task[i].kind = "abort" \/ task[i].stopping)
                               THEN NoSession ELSE @,
                !.stopping = IF task[i].kind = "abort" \/ task[i].stopping THEN NoSession ELSE @]
    IN  /\ At(i, "final")
        /\ Becomes(IF task[i].kind = "abort" THEN v ELSE Ended(i, v), Done(i))
        /\ UNCHANGED <<server, list, moved, clicks, mishaps>>

-----------------------------------------------------------------------------
(* There is nothing to be had of a session that was deleted, and one that  *)
(* is closed is not aborted.                                               *)
Gone(s) == s \in Sessions /\ server[s] = "deleted"

Refused(i) ==
    /\ \/ Gone(task[i].s) /\ task[i].at \notin {"free", "submit"}
       \/ At(i, "abort") /\ server[task[i].s] = "closed"
    /\ IF task[i].kind \in {"submit", "follow"}
         THEN Becomes(Ended(i, Interrupted(i)), Done(i))
         ELSE Becomes(WithoutAnswer(i), Done(i))
    /\ UNCHANGED <<server, list, moved, clicks, mishaps>>

Refetch ==
    /\ list' = server
    /\ BecomesWithList(view, task, server)
    /\ UNCHANGED <<server, moved, clicks, mishaps>>

AnswerLost(i) ==
    /\ \/ task[i].at \in {"get", "abort", "kill", "delete"}
       \/ task[i].kind = "abort" /\ At(i, "final")
    /\ Mishap
    /\ UNCHANGED server \/ TakesEffect(i)
    /\ Becomes(WithoutAnswer(i), Done(i))
    /\ UNCHANGED <<list, moved>>

-----------------------------------------------------------------------------
(* The page has just come up, on a session or on none.                     *)
WebInit ==
    /\ list = server
    /\ \E s \in {x \in Sessions : server[x] # "none"} \cup {NoSession} :
         LET r == Rendered(IF s = NoSession THEN NewView
                             ELSE [NewView EXCEPT !.selected = s, !.shown = {s}, !.cursor = TRUE],
                           [i \in Tasks |-> Idle], server)
         IN  view = r.view /\ task = r.task
    /\ moved = FALSE

Clicks(i) ==
    \/ \E s \in Sessions : OpenSession(i, s) \/ OpenContainer(i, s) \/ KillSession(i, s)
    \/ \E s \in Sessions \cup {NoSession} : DeleteSessions(i, s)
    \/ StartDraftSession(i)
    \/ SubmitPrompt(i)
    \/ AbortRun(i)
    \/ LoadPreviousMessages(i)

Answers(i) ==
    \/ SubmitChatAnswers(i)
    \/ DeleteAllAnswers(i)
    \/ AbortedStreamEnds(i)
    \/ Refused(i)
    \/ /\ ~Gone(task[i].s)
       /\ \/ OpenSessionAnswers(i)
          \/ OlderMessagesArrive(i)
          \/ KillSessionAnswers(i)
          \/ DeleteSessionAnswers(i)
          \/ AbortSessionAnswers(i)
          \/ InitialSessionArrives(i)
          \/ StreamUpdate(i)
          \/ FinalSessionArrives(i)

WebNext ==
    \/ \E i \in Tasks : Clicks(i) \/ Answers(i) \/ StreamFails(i) \/ AnswerLost(i)
    \/ Refetch

(* The list is fetched again, a request is answered.                       *)
WebProgress == Refetch \/ \E i \in Tasks : Answers(i)

-----------------------------------------------------------------------------
(* The messages shown are those of the selected session, in whatever order *)
(* the answers to openings come, unless the user has gone to another       *)
(* session while a prompt, an abort or older messages were under way, or   *)
(* the abort was still noted, or has left the session by way of a          *)
(* container or by deleting all, which change the selection and leave the  *)
(* messages; to open a session or to begin a new one with nothing under    *)
(* way sets that right.                                                    *)
ShownIsSelectedUnlessMoved ==
    moved \/ view.shown \subseteq {view.selected}

=============================================================================
