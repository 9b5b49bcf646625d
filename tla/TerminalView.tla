---------------------------- MODULE TerminalView ----------------------------
(***************************************************************************)
(* The terminal client.                                                    *)
(*                                                                         *)
(* A prompt is refused while another is loading, and opening a session is  *)
(* refused then; whether that holds is looked at before the requests these *)
(* make, and making, killing and deleting sessions does not look at all.   *)
(* A prompt that was stopped clears loading and the controller when it     *)
(* ends at last, whoever they belong to by then.                           *)
(***************************************************************************)
EXTENDS ServerSessions

VARIABLES
    term,        \* the fields of the application
    job,         \* requests under way
    strayed,     \* it went to another session while a prompt was under way (history)
    overlapped   \* a prompt was sent while one stopped had still to end, and
                 \* such prompts are still under way (history)

termVars == <<term, job, strayed, overlapped>>

NoJob == [kind |-> "none", at |-> "free", s |-> NoSession, rest |-> {},
          aborted |-> FALSE, seen |-> FALSE]

(* The session, the sessions whose messages are shown, whether it loads,   *)
(* the prompt whose controller it holds, and whether the selector of       *)
(* sessions is up, which takes all keys.                                   *)
NewTerm == [session |-> NoSession, shown |-> {}, loading |-> FALSE, controller |-> NoTask,
            choosing |-> FALSE]

JobAt(i, kind, at) == job[i].kind = kind /\ job[i].at = at
FreeJobs == {i \in Tasks : job[i].at = "free"}
Prompts == {i \in Tasks : job[i].kind = "prompt"}
LivePrompts == {i \in Prompts : ~job[i].aborted}

JobEnds(i) == job' = [job EXCEPT ![i] = NoJob]

-----------------------------------------------------------------------------
(* Faulty variants, each of which breaks a property when it stands in the  *)
(* place of the definition named.                                          *)

(* Free: prompts are refused by the server only.                           *)
FreeAlways == TRUE

(* Left: the messages stay until the next update.                          *)
LeftWithMessages(t) == [t EXCEPT !.session = NoSession]

-----------------------------------------------------------------------------
(* What ends a prompt here: its end, Esc, and the session's end.           *)

Freed(t) == [t EXCEPT !.loading = FALSE, !.controller = NoTask]

AbortedJobs(js, i) == IF i \in Tasks THEN [js EXCEPT ![i].aborted = TRUE] ELSE js

ResetKilled(s, js) ==
    IF s = term.session THEN AbortedJobs(js, term.controller) ELSE js

-----------------------------------------------------------------------------
(* What the user does.                                                     *)

Key(i) ==
    /\ clicks < MaxCommands
    /\ i \in FreeJobs /\ FreeJobs # {i} /\ i = CHOOSE j \in FreeJobs : TRUE
    /\ clicks' = clicks + 1
    /\ UNCHANGED <<server, mishaps>>

Enter(i) == ~term.choosing /\ Key(i)
Enters(i, what) == Enter(i) /\ job' = [job EXCEPT ![i] = what]

Free == ~term.loading

SendPrompt(i) ==
    /\ Free
    /\ Enters(i, [NoJob EXCEPT !.kind = "prompt", !.at = "submit", !.s = term.session])
    /\ term' = [term EXCEPT !.loading = TRUE, !.controller = i]
    /\ overlapped' = \E j \in Prompts : overlapped \/ job[j].aborted
    /\ UNCHANGED strayed

AbortCurrentOperation(i) ==
    /\ term.loading /\ term.controller \in Tasks
    /\ Enter(i)
    /\ job' = [AbortedJobs(job, term.controller) EXCEPT
                 ![i] = IF term.session = NoSession THEN NoJob
                          ELSE [NoJob EXCEPT !.kind = "stop", !.at = "stop", !.s = term.session]]
    /\ term' = Freed(term)
    /\ UNCHANGED <<strayed, overlapped>>

OpenInTerminal(i, s) ==
    /\ ~term.loading /\ s \in Listed
    /\ Enters(i, [NoJob EXCEPT !.kind = "open", !.at = "get", !.s = s])
    /\ UNCHANGED <<term, strayed, overlapped>>

BeginOpenSelection(i) ==
    /\ ~term.loading
    /\ Enters(i, [NoJob EXCEPT !.kind = "list", !.at = "get"])
    /\ UNCHANGED <<term, strayed, overlapped>>

(* The choice is refused if a prompt was sent since.                       *)
OpenSelected(i, s) ==
    /\ term.choosing /\ s \in Listed
    /\ Key(i)
    /\ term' = [term EXCEPT !.choosing = FALSE]
    /\ job' = IF term.loading THEN job
                 ELSE [job EXCEPT ![i] = [NoJob EXCEPT !.kind = "open", !.at = "get", !.s = s]]
    /\ UNCHANGED <<strayed, overlapped>>

CancelSelection(i) ==
    /\ term.choosing /\ Key(i)
    /\ term' = [term EXCEPT !.choosing = FALSE]
    /\ UNCHANGED <<job, strayed, overlapped>>

Clear(i) ==
    /\ Enter(i)
    /\ term' = [term EXCEPT !.shown = {}]
    /\ UNCHANGED <<job, strayed, overlapped>>

(* The command new, and fork.                                              *)
NewOrFork(i) ==
    /\ Enters(i, [NoJob EXCEPT !.kind = "new", !.at = "create"])
    /\ UNCHANGED <<term, strayed, overlapped>>

(* One session, or all that are listed and not closed.                     *)
KillFromTerminal(i) ==
    /\ \E targets \in {{s} : s \in Listed} \cup {{s \in Listed : server[s] # "closed"}} :
         /\ targets # {}
         /\ Enters(i, [NoJob EXCEPT !.kind = "kill", !.at = "kill", !.rest = targets])
    /\ UNCHANGED <<term, strayed, overlapped>>

DeleteFromTerminal(i) ==
    /\ \E targets \in {{s} : s \in Listed} \cup {Listed} :
         /\ targets # {}
         /\ Enters(i, [NoJob EXCEPT !.kind = "delete", !.at = "delete", !.rest = targets])
    /\ UNCHANGED <<term, strayed, overlapped>>

-----------------------------------------------------------------------------
(* The answers.                                                            *)

(* The session is the one of the answer, wherever the user has gone.  A    *)
(* prompt without a session makes one whose id is empty: no later request  *)
(* can name it.  A prompt for a session that was deleted makes it anew.    *)
SubmitAnswers(i) ==
    LET s == job[i].s
    IN  /\ JobAt(i, "prompt", "submit")
        /\ IF s = NoSession \/ TakesPrompt(s) \/ server[s] = "deleted"
             THEN /\ server' = [x \in Sessions |-> IF x = s THEN "processing" ELSE server[x]]
                  /\ term' = [term EXCEPT !.session = s]
                  /\ job' = [job EXCEPT ![i].at = "stream"]
                  /\ strayed' = (strayed \/ term.session # s)
             ELSE /\ term' = Freed(term)
                  /\ JobEnds(i)
                  /\ UNCHANGED <<server, strayed>>
        /\ UNCHANGED <<overlapped, clicks, mishaps>>

StreamComplete(s) == server[s] # "processing"

(* Updates come with the messages of the session or with events to add.    *)
Updated(s) == {{s}, term.shown \cup {s}}

(* The first update is of the session processing, the last of its end;     *)
(* there is no stream of the session without an id or of one deleted.  A   *)
(* poll under way when the prompt is stopped still brings its update.      *)
PollSession(i) ==
    LET s == job[i].s
    IN  /\ JobAt(i, "prompt", "stream")
        /\ IF s = NoSession \/ (s \in Sessions /\ server[s] = "deleted")
             THEN term' = Freed(term) /\ JobEnds(i)
             ELSE IF StreamComplete(s)
               THEN term' = Freed([term EXCEPT !.shown = {s}]) /\ JobEnds(i)
               ELSE /\ ~job[i].seen
                    /\ job' = [job EXCEPT ![i].seen = TRUE]
                    /\ \E shown \in Updated(s) : term' = [term EXCEPT !.shown = shown]
        /\ UNCHANGED <<server, strayed, overlapped, clicks, mishaps>>

AbortedPollEnds(i) ==
    /\ JobAt(i, "prompt", "stream") /\ job[i].aborted
    /\ term' = Freed(term)
    /\ JobEnds(i)
    /\ UNCHANGED <<server, strayed, overlapped, clicks, mishaps>>

SelectorOpens(i) ==
    /\ JobAt(i, "list", "get")
    /\ term' = [term EXCEPT !.choosing = Listed # {}]
    /\ JobEnds(i)
    /\ UNCHANGED <<server, strayed, overlapped, clicks, mishaps>>

(* To another session, with its messages.                                  *)
GoesTo(i, t, s, messages) ==
    /\ term' = [t EXCEPT !.session = s, !.shown = messages]
    /\ strayed' = (Prompts # {})
    /\ JobEnds(i)

OpenAnswers(i) ==
    LET s == job[i].s
    IN  /\ JobAt(i, "open", "get")
        /\ IF server[s] = "deleted"
             THEN JobEnds(i) /\ UNCHANGED <<term, strayed>>
             ELSE GoesTo(i, [term EXCEPT !.choosing = FALSE], s, {s})
        /\ UNCHANGED <<server, overlapped, clicks, mishaps>>

NewAnswers(i) ==
    /\ JobAt(i, "new", "create")
    /\ \E s \in Unmade :
         /\ server' = [server EXCEPT ![s] = "idle"]
         /\ GoesTo(i, term, s, {})
    /\ UNCHANGED <<overlapped, clicks, mishaps>>

(* One session after the other; one that was deleted ends the rest.        *)
KillAnswers(i) ==
    /\ JobAt(i, "kill", "kill")
    /\ \E s \in job[i].rest :
         LET rest == IF server[s] = "deleted" THEN {} ELSE job[i].rest \ {s}
             next == [job EXCEPT ![i] = IF rest = {} THEN NoJob ELSE [@ EXCEPT !.rest = rest]]
         IN  IF server[s] = "deleted"
               THEN job' = next /\ UNCHANGED <<server, term>>
               ELSE /\ Stopped(s, "closed")
                    /\ job' = ResetKilled(s, next)
                    /\ term' = IF s = term.session THEN Freed(term) ELSE term
    /\ UNCHANGED <<strayed, overlapped, clicks, mishaps>>

Left(t) == [t EXCEPT !.session = NoSession, !.shown = {}]

DeleteAnswers(i) ==
    LET gone == {s \in job[i].rest : server[s] # "deleted"}
    IN  /\ JobAt(i, "delete", "delete")
        /\ server' = [s \in Sessions |-> IF s \in gone THEN "deleted" ELSE server[s]]
        /\ IF term.session \in gone
             THEN /\ term' = Left(Freed(term))
                  /\ job' = ResetKilled(term.session, [job EXCEPT ![i] = NoJob])
                  /\ strayed' = (Prompts # {})
             ELSE JobEnds(i) /\ UNCHANGED <<term, strayed>>
        /\ UNCHANGED <<overlapped, clicks, mishaps>>

StopAnswers(i) ==
    /\ JobAt(i, "stop", "stop")
    /\ Stopped(job[i].s, "idle")
    /\ JobEnds(i)
    /\ UNCHANGED <<term, strayed, overlapped, clicks, mishaps>>

(* A prompt whose answer is lost may have been taken all the same.         *)
JobFails(i) ==
    /\ job[i].at # "free" /\ Mishap
    /\ \/ UNCHANGED server
       \/ /\ JobAt(i, "prompt", "submit") /\ job[i].s \in Sessions /\ TakesPrompt(job[i].s)
          /\ server' = [server EXCEPT ![job[i].s] = "processing"]
    /\ term' = IF i \in Prompts THEN Freed(term) ELSE term
    /\ JobEnds(i)
    /\ UNCHANGED <<strayed, overlapped>>

-----------------------------------------------------------------------------
(* The application asks for a session when it starts, unless there is no   *)
(* provider.                                                               *)
TermInit ==
    /\ term = NewTerm
    /\ \E asks \in BOOLEAN : \E i \in {CHOOSE i \in Tasks : TRUE} :
         job = [j \in Tasks |-> IF asks /\ j = i THEN [NoJob EXCEPT !.kind = "new", !.at = "create"] ELSE NoJob]
    /\ strayed = FALSE
    /\ overlapped = FALSE

Commands(i) ==
    \/ SendPrompt(i)
    \/ AbortCurrentOperation(i)
    \/ \E s \in Sessions : OpenInTerminal(i, s) \/ OpenSelected(i, s)
    \/ BeginOpenSelection(i) \/ CancelSelection(i)
    \/ Clear(i)
    \/ NewOrFork(i)
    \/ KillFromTerminal(i)
    \/ DeleteFromTerminal(i)

Arrivals(i) ==
    \/ SubmitAnswers(i) \/ PollSession(i) \/ AbortedPollEnds(i)
    \/ OpenAnswers(i) \/ SelectorOpens(i) \/ NewAnswers(i) \/ KillAnswers(i) \/ DeleteAnswers(i) \/ StopAnswers(i)

TermNext == \E i \in Tasks : Commands(i) \/ Arrivals(i) \/ JobFails(i)

TermProgress == \E i \in Tasks : Arrivals(i)

-----------------------------------------------------------------------------
(* Esc reaches every prompt that is still followed, and it loads as long   *)
(* as there is one, unless a prompt was sent while one that was stopped    *)
(* had still to end.                                                       *)
LoadsForItsPromptUnlessOverlapped ==
    \/ overlapped
    \/ LivePrompts = IF term.loading THEN {term.controller} ELSE {}

(* The messages shown are those of the session, unless it went there while *)
(* a prompt was under way.                                                 *)
MessagesAreOfTheSessionUnlessStrayed ==
    strayed \/ term.shown \subseteq {term.session}

=============================================================================
