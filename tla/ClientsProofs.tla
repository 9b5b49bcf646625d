--------------------------- MODULE ClientsProofs ----------------------------
(***************************************************************************)
(* What the two clients show and reach, for any sessions, any number of    *)
(* requests under way at once and any bound on what the user and the       *)
(* network do.                                                             *)
(***************************************************************************)
EXTENDS Clients, TLAPS

Some == Sessions \cup {NoSession}

Statuses == {"none", "idle", "processing", "closed", "deleted"}

ServerTypes ==
    /\ server \in [Sessions -> Statuses]
    /\ clicks \in Nat /\ mishaps \in Nat

LEMMA StoppedTypes ==
    ASSUME server \in [Sessions -> Statuses], NEW s, NEW as \in {"closed", "idle"}, Stopped(s, as)
    PROVE  server' \in [Sessions -> Statuses]
  BY DEF Stopped, Statuses

-----------------------------------------------------------------------------
(* The terminal                                                            *)

JobKinds == {"none", "prompt", "stop", "open", "list", "new", "kill", "delete"}
JobPlaces == {"free", "submit", "stream", "stop", "get", "create", "kill", "delete"}

Jobs == [kind : JobKinds, at : JobPlaces, s : Some, rest : SUBSET Sessions,
         aborted : BOOLEAN, seen : BOOLEAN]

Terms == [session : Some, shown : SUBSET Some, loading : BOOLEAN,
          controller : Tasks \cup {NoTask}, choosing : BOOLEAN]

(* What is under way has a kind; what looks for a session has one.         *)
JobPlaced(k) ==
    /\ k.at = "free" => k.kind = "none"
    /\ k.kind = "prompt" => k.at \in {"submit", "stream"}
    /\ k.kind = "open" => k.s \in Sessions

TermTypes ==
    /\ term \in Terms
    /\ job \in [Tasks -> Jobs]
    /\ \A i \in Tasks : JobPlaced(job[i])
    /\ strayed \in BOOLEAN /\ overlapped \in BOOLEAN

(* The prompt that loads is the only one under way, and when nothing loads *)
(* all of them have been stopped.                                          *)
OnePrompt ==
    overlapped
    \/ IF term.loading
         THEN /\ term.controller \in Tasks
              /\ Prompts = {term.controller} /\ ~ job[term.controller].aborted
         ELSE \A i \in Prompts : job[i].aborted

(* Every stream is of the session.                                         *)
StreamsOfSession ==
    strayed
    \/ /\ term.shown \subseteq {term.session}
       /\ \A i \in Tasks : JobAt(i, "prompt", "stream") => job[i].s = term.session

TermInv == TermTypes /\ OnePrompt /\ StreamsOfSession

NoJobTypes == NoJob \in Jobs /\ JobPlaced(NoJob) /\ NoJob.kind = "none"

LEMMA NoJobIs == NoJobTypes
  BY DEF NoJobTypes, NoJob, Jobs, JobKinds, JobPlaces, Some, JobPlaced

LEMMA NewTermIs == NewTerm \in Terms
  BY DEF NewTerm, Terms, Some

(* The jobs but for one that ends, with one that may have been aborted.    *)
LEMMA AbortedJobsAre ==
    ASSUME NEW js \in [Tasks -> Jobs], NEW c
    PROVE  /\ AbortedJobs(js, c) \in [Tasks -> Jobs]
           /\ \A j \in Tasks :
                 /\ AbortedJobs(js, c)[j].kind = js[j].kind
                 /\ AbortedJobs(js, c)[j].at = js[j].at
                 /\ AbortedJobs(js, c)[j].s = js[j].s
                 /\ AbortedJobs(js, c)[j].aborted = (js[j].aborted \/ j = c)
  <1>1. CASE c \in Tasks
    BY <1>1 DEF AbortedJobs, Jobs
  <1>2. CASE c \notin Tasks
    BY <1>2 DEF AbortedJobs, Jobs
  <1>. QED  BY <1>1, <1>2


(* A request that is no prompt takes a free slot.                          *)
LEMMA JobStarts ==
    ASSUME TermInv, NEW i \in Tasks, i \in FreeJobs, NEW what \in Jobs, JobPlaced(what),
           what.kind # "prompt", job' = [job EXCEPT ![i] = what],
           NEW shown \in {term.shown, {}}, NEW choosing \in BOOLEAN,
           term' = [term EXCEPT !.shown = shown, !.choosing = choosing],
           UNCHANGED <<strayed, overlapped>>
    PROVE  TermInv'
  <1>1. /\ term' \in Terms /\ term'.session = term.session /\ term'.shown \in {term.shown, {}}
        /\ term'.loading = term.loading /\ term'.controller = term.controller
    BY DEF TermInv, TermTypes, Terms
  <1>2. job' \in [Tasks -> Jobs] /\ \A j \in Tasks : j # i => job'[j] = job[j]
    BY DEF TermInv, TermTypes
  <1>3. job'[i] = what /\ job[i].kind # "prompt" /\ i \notin Prompts
    BY DEF TermInv, TermTypes, FreeJobs, JobPlaced, Prompts
  <1>4. Prompts' = Prompts
    BY <1>2, <1>3 DEF Prompts
  <1>5. TermTypes'
    BY <1>1, <1>2, <1>3 DEF TermInv, TermTypes
  <1>6. OnePrompt'
    BY <1>1, <1>2, <1>3, <1>4 DEF TermInv, OnePrompt, Prompts
  <1>7. StreamsOfSession'
    BY <1>1, <1>2, <1>3 DEF TermInv, StreamsOfSession, JobAt
  <1>. QED  BY <1>5, <1>6, <1>7 DEF TermInv

(* A request that is no prompt ends.                                       *)
LEMMA JobStops ==
    ASSUME TermInv, NEW i \in Tasks, i \notin Prompts, JobEnds(i),
           NEW choosing \in BOOLEAN, term' = [term EXCEPT !.choosing = choosing],
           UNCHANGED <<strayed, overlapped>>
    PROVE  TermInv'
  <1>1. /\ term' \in Terms /\ term'.session = term.session /\ term'.shown = term.shown
        /\ term'.loading = term.loading /\ term'.controller = term.controller
    BY DEF TermInv, TermTypes, Terms
  <1>2. /\ job' \in [Tasks -> Jobs] /\ \A j \in Tasks : j # i => job'[j] = job[j]
        /\ job'[i] = NoJob /\ NoJob \in Jobs /\ JobPlaced(NoJob) /\ NoJob.kind = "none"
    BY NoJobIs DEF TermInv, TermTypes, JobEnds, NoJobTypes
  <1>4. Prompts' = Prompts
    BY <1>2 DEF Prompts
  <1>5. TermTypes'
    BY <1>1, <1>2 DEF TermInv, TermTypes
  <1>6. OnePrompt'
    BY <1>1, <1>2, <1>4 DEF TermInv, OnePrompt, Prompts
  <1>7. StreamsOfSession'
    BY <1>1, <1>2 DEF TermInv, StreamsOfSession, JobAt
  <1>. QED  BY <1>5, <1>6, <1>7 DEF TermInv

LEMMA FreedIs ==
    ASSUME NEW t \in Terms
    PROVE  /\ Freed(t) \in Terms /\ Freed(t).session = t.session /\ Freed(t).shown = t.shown
           /\ ~ Freed(t).loading
  BY DEF Freed, Terms

(* A prompt ends: when it was the one that loaded, none is left.           *)
LEMMA PromptStops ==
    ASSUME TermInv, NEW i \in Tasks, i \in Prompts, JobEnds(i),
           NEW shown \in SUBSET Some, shown \subseteq term.shown \cup {job[i].s},
           job[i].at = "submit" => shown \subseteq term.shown,
           term' = Freed([term EXCEPT !.shown = shown]),
           UNCHANGED <<strayed, overlapped>>
    PROVE  TermInv'
  <1>0. [term EXCEPT !.shown = shown] \in Terms
    BY DEF TermInv, TermTypes, Terms
  <1>1. /\ term' \in Terms /\ term'.session = term.session /\ term'.shown = shown
        /\ term'.loading = FALSE
    BY <1>0, FreedIs DEF TermInv, TermTypes, Terms
  <1>2. /\ job' \in [Tasks -> Jobs] /\ \A j \in Tasks : j # i => job'[j] = job[j]
        /\ job'[i] = NoJob /\ NoJob \in Jobs /\ JobPlaced(NoJob) /\ NoJob.kind = "none"
    BY NoJobIs DEF TermInv, TermTypes, JobEnds, NoJobTypes
  <1>4. Prompts' = Prompts \ {i}
    BY <1>2 DEF Prompts
  <1>5. TermTypes'
    BY <1>1, <1>2 DEF TermInv, TermTypes
  <1>6. OnePrompt'
    BY <1>1, <1>2, <1>4 DEF TermInv, OnePrompt, Prompts
  <1>7. StreamsOfSession'
    <2>1. job[i].kind = "prompt" /\ job[i].at \in {"submit", "stream"}
      BY DEF Prompts, TermInv, TermTypes, JobPlaced
    <2>. QED  BY <1>1, <1>2, <2>1 DEF TermInv, StreamsOfSession, JobAt
  <1>. QED  BY <1>5, <1>6, <1>7 DEF TermInv


(* What the user does in the terminal.                                     *)
LEMMA SendPromptKeeps ==
    ASSUME TermInv, NEW i \in Tasks, SendPrompt(i)
    PROVE  TermInv'
  <1>. DEFINE what == [NoJob EXCEPT !.kind = "prompt", !.at = "submit", !.s = term.session]
  <1>1. /\ term' \in Terms /\ term'.session = term.session /\ term'.shown = term.shown
        /\ term'.loading /\ term'.controller = i
    BY DEF TermInv, TermTypes, Terms, SendPrompt
  <1>2. /\ what \in Jobs /\ JobPlaced(what) /\ what.kind = "prompt" /\ what.at = "submit"
        /\ ~ what.aborted
    BY DEF TermInv, TermTypes, Terms, Jobs, JobKinds, JobPlaces, NoJob, JobPlaced
  <1>3. /\ job' = [job EXCEPT ![i] = what] /\ i \notin Prompts
        /\ job' \in [Tasks -> Jobs] /\ \A j \in Tasks : j # i => job'[j] = job[j]
        /\ job'[i] = what
    BY <1>2 DEF SendPrompt, Enters, Enter, Key, FreeJobs, TermInv, TermTypes, JobPlaced, Prompts
  <1>. HIDE DEF what
  <1>4. Prompts' = Prompts \cup {i}
    BY <1>2, <1>3 DEF Prompts
  <1>5. TermTypes'
    BY <1>1, <1>2, <1>3 DEF TermInv, TermTypes, SendPrompt
  <1>6. OnePrompt'
    <2>1. SUFFICES ASSUME ~ overlapped'
          PROVE  OnePrompt'
      BY DEF OnePrompt
    <2>2. Prompts = {}
      BY <2>1 DEF SendPrompt, Free, TermInv, OnePrompt
    <2>. QED  BY <1>1, <1>2, <1>3, <1>4, <2>2 DEF OnePrompt
  <1>7. StreamsOfSession'
    BY <1>1, <1>2, <1>3 DEF TermInv, StreamsOfSession, JobAt, SendPrompt
  <1>. QED  BY <1>5, <1>6, <1>7 DEF TermInv

(* The prompt that loads is stopped, and the controller with it.           *)
LEMMA LoadingStops ==
    ASSUME TermInv, job' \in [Tasks -> Jobs], \A j \in Tasks : JobPlaced(job'[j]),
           \A j \in Prompts' :
              /\ j \in Prompts
              /\ job'[j].at = job[j].at /\ job'[j].s = job[j].s
              /\ job[j].aborted \/ j = term.controller => job'[j].aborted,
           term' \in Terms, ~ term'.loading,
           strayed' \in BOOLEAN, UNCHANGED overlapped,
           \/ UNCHANGED strayed /\ term'.session = term.session /\ term'.shown = term.shown
           \/ strayed' = (Prompts # {}) /\ term'.shown \subseteq {term'.session}
    PROVE  TermInv'
  <1>1. TermTypes'
    BY DEF TermInv, TermTypes
  <1>2. OnePrompt'
    BY DEF TermInv, OnePrompt, TermTypes
  <1>3. StreamsOfSession'
    <2>1. \A j \in Tasks : JobAt(j, "prompt", "stream")' =>
             j \in Prompts /\ JobAt(j, "prompt", "stream") /\ job'[j].s = job[j].s
      BY DEF JobAt, Prompts
    <2>. QED  BY <2>1 DEF TermInv, StreamsOfSession
  <1>. QED  BY <1>1, <1>2, <1>3 DEF TermInv

LEMMA AbortCurrentKeeps ==
    ASSUME TermInv, NEW i \in Tasks, AbortCurrentOperation(i)
    PROVE  TermInv'
  <1>. DEFINE js == AbortedJobs(job, term.controller)
              what == IF term.session = NoSession THEN NoJob
                        ELSE [NoJob EXCEPT !.kind = "stop", !.at = "stop", !.s = term.session]
  <1>1. js \in [Tasks -> Jobs]
        /\ \A j \in Tasks : /\ js[j].kind = job[j].kind /\ js[j].at = job[j].at /\ js[j].s = job[j].s
                            /\ js[j].aborted = (job[j].aborted \/ j = term.controller)
    <2>1. job \in [Tasks -> Jobs]
      BY DEF TermInv, TermTypes
    <2>. QED  BY <2>1, AbortedJobsAre
  <1>2. what \in Jobs /\ JobPlaced(what) /\ what.kind # "prompt"
    BY DEF TermInv, TermTypes, Terms, Jobs, JobKinds, JobPlaces, NoJob, JobPlaced, Some
  <1>3. job' = [js EXCEPT ![i] = what] /\ term' = Freed(term) /\ UNCHANGED <<strayed, overlapped>>
    BY DEF AbortCurrentOperation
  <1>. HIDE DEF js, what
  <1>4. /\ job' \in [Tasks -> Jobs] /\ job'[i] = what
        /\ \A j \in Tasks : j # i => job'[j] = js[j]
    BY <1>1, <1>2, <1>3
  <1>5. \A j \in Tasks : JobPlaced(job'[j])
    BY <1>1, <1>2, <1>4 DEF TermInv, TermTypes, JobPlaced
  <1>6. term \in Terms /\ strayed \in BOOLEAN
    BY DEF TermInv, TermTypes
  <1>. QED  BY <1>1, <1>2, <1>3, <1>4, <1>5, <1>6, FreedIs, LoadingStops DEF Prompts

(* What the commands ask for is no prompt.                                 *)
Request(k) == k \in Jobs /\ JobPlaced(k) /\ k.kind # "prompt"

LEMMA RequestsAre ==
    /\ \A s \in Sessions : Request([NoJob EXCEPT !.kind = "open", !.at = "get", !.s = s])
    /\ \A rest \in SUBSET Sessions :
          /\ Request([NoJob EXCEPT !.kind = "kill", !.at = "kill", !.rest = rest])
          /\ Request([NoJob EXCEPT !.kind = "delete", !.at = "delete", !.rest = rest])
    /\ Request([NoJob EXCEPT !.kind = "list", !.at = "get"])
    /\ Request([NoJob EXCEPT !.kind = "new", !.at = "create"])
  BY DEF Request, Jobs, JobKinds, JobPlaces, NoJob, JobPlaced, Some

LEMMA CommandsKeep ==
    ASSUME TermInv, NEW i \in Tasks, Commands(i)
    PROVE  TermInv'
  <1>. USE DEF TermInv, TermTypes
  <1>. /\ term \in Terms /\ term = [term EXCEPT !.shown = term.shown, !.choosing = term.choosing]
       /\ term.choosing \in BOOLEAN
    BY DEF Terms
  <1>1. ASSUME NEW what, Request(what),
               Enters(i, what), UNCHANGED <<term, strayed, overlapped>>
        PROVE  TermInv'
    <2>1. i \in FreeJobs /\ job' = [job EXCEPT ![i] = what]
      BY <1>1 DEF Enters, Enter, Key
    <2>. QED  BY <1>1, <2>1, JobStarts DEF Request
  <1>3. CASE SendPrompt(i)
    BY <1>3, SendPromptKeeps
  <1>4. CASE AbortCurrentOperation(i)
    BY <1>4, AbortCurrentKeeps
  <1>5. ASSUME NEW s \in Sessions, OpenInTerminal(i, s)
        PROVE  TermInv'
    BY <1>1, <1>5, RequestsAre DEF OpenInTerminal
  <1>6. ASSUME NEW s \in Sessions, OpenSelected(i, s)
        PROVE  TermInv'
    <2>. DEFINE what == IF term.loading THEN job[i] ELSE [NoJob EXCEPT !.kind = "open", !.at = "get", !.s = s]
    <2>2. i \in FreeJobs /\ job[i].kind = "none"
      BY <1>6 DEF OpenSelected, Key, FreeJobs, JobPlaced
    <2>3. what \in Jobs /\ JobPlaced(what) /\ what.kind # "prompt"
      BY <2>2, RequestsAre DEF Request
    <2>4. job' = [job EXCEPT ![i] = what]
      BY <1>6 DEF OpenSelected
    <2>5. term' = [term EXCEPT !.shown = term.shown, !.choosing = FALSE]
          /\ UNCHANGED <<strayed, overlapped>>
      BY <1>6 DEF OpenSelected, Terms
    <2>. HIDE DEF what
    <2>. QED  BY <2>2, <2>3, <2>4, <2>5, JobStarts
  <1>7. CASE BeginOpenSelection(i)
    BY <1>1, <1>7, RequestsAre DEF BeginOpenSelection
  <1>8. CASE CancelSelection(i)
    <2>1. job' = [job EXCEPT ![i] = job[i]] /\ i \in FreeJobs /\ job[i].kind = "none"
      BY <1>8 DEF CancelSelection, Key, FreeJobs, JobPlaced
    <2>2. term' = [term EXCEPT !.shown = term.shown, !.choosing = FALSE]
          /\ UNCHANGED <<strayed, overlapped>>
      BY <1>8 DEF CancelSelection, Terms
    <2>. QED  BY <2>1, <2>2, JobStarts
  <1>9. CASE Clear(i)
    <2>1. job' = [job EXCEPT ![i] = job[i]] /\ i \in FreeJobs /\ job[i].kind = "none"
      BY <1>9 DEF Clear, Enter, Key, FreeJobs, JobPlaced
    <2>2. term' = [term EXCEPT !.shown = {}, !.choosing = term.choosing]
          /\ UNCHANGED <<strayed, overlapped>>
      BY <1>9 DEF Clear, Terms
    <2>. QED  BY <2>1, <2>2, JobStarts
  <1>10. CASE NewOrFork(i)
    BY <1>1, <1>10, RequestsAre DEF NewOrFork
  <1>11. CASE KillFromTerminal(i)
    <2>1. PICK targets \in SUBSET Sessions :
             Enters(i, [NoJob EXCEPT !.kind = "kill", !.at = "kill", !.rest = targets])
      BY <1>11 DEF KillFromTerminal, Listed
    <2>. QED  BY <1>1, <1>11, <2>1, RequestsAre DEF KillFromTerminal
  <1>12. CASE DeleteFromTerminal(i)
    <2>1. PICK targets \in SUBSET Sessions :
             Enters(i, [NoJob EXCEPT !.kind = "delete", !.at = "delete", !.rest = targets])
      BY <1>12 DEF DeleteFromTerminal, Listed
    <2>. QED  BY <1>1, <1>12, <2>1, RequestsAre DEF DeleteFromTerminal
  <1>. QED
    BY <1>3, <1>4, <1>5, <1>6, <1>7, <1>8, <1>9, <1>10, <1>11, <1>12 DEF Commands

(* The answers.                                                            *)
LEMMA SubmitAnswersKeeps ==
    ASSUME TermInv, NEW i \in Tasks, SubmitAnswers(i)
    PROVE  TermInv'
  <1>. DEFINE s == job[i].s
  <1>1. i \in Prompts /\ s \in Some /\ job[i].at = "submit" /\ UNCHANGED overlapped
    BY DEF SubmitAnswers, JobAt, Prompts, TermInv, TermTypes, Jobs
  <1>2. CASE s = NoSession \/ TakesPrompt(s) \/ server[s] = "deleted"
    <2>1. /\ term' \in Terms /\ term'.session = s /\ term'.shown = term.shown
          /\ term'.loading = term.loading /\ term'.controller = term.controller
      BY <1>1, <1>2 DEF SubmitAnswers, TermInv, TermTypes, Terms
    <2>2. job' = [job EXCEPT ![i].at = "stream"] /\ strayed' = (strayed \/ term.session # s)
      BY <1>2 DEF SubmitAnswers
    <2>3. /\ job' \in [Tasks -> Jobs] /\ \A j \in Tasks : j # i => job'[j] = job[j]
          /\ job'[i].kind = "prompt" /\ job'[i].s = s /\ job'[i].aborted = job[i].aborted
          /\ job'[i].at = "stream"
      BY <1>1, <2>2 DEF TermInv, TermTypes, Jobs, JobPlaces, Prompts
    <2>4. TermTypes'
      BY <1>1, <2>1, <2>2, <2>3 DEF TermInv, TermTypes, JobPlaced
    <2>5. Prompts' = Prompts
      BY <1>1, <2>3 DEF Prompts
    <2>6. OnePrompt'
      BY <1>1, <2>1, <2>3, <2>5 DEF TermInv, OnePrompt, Prompts
    <2>7. StreamsOfSession'
      BY <2>1, <2>2, <2>3 DEF TermInv, StreamsOfSession, JobAt
    <2>. QED  BY <2>4, <2>6, <2>7 DEF TermInv
  <1>3. CASE ~ (s = NoSession \/ TakesPrompt(s) \/ server[s] = "deleted")
    <2>1. term' = Freed([term EXCEPT !.shown = term.shown]) /\ JobEnds(i) /\ UNCHANGED strayed
      BY <1>3 DEF SubmitAnswers, TermInv, TermTypes, Terms
    <2>2. term.shown \in SUBSET Some
      BY DEF TermInv, TermTypes, Terms
    <2>. QED  BY <1>1, <2>1, <2>2, PromptStops
  <1>. QED  BY <1>2, <1>3

LEMMA PollKeeps ==
    ASSUME TermInv, NEW i \in Tasks, PollSession(i) \/ AbortedPollEnds(i)
    PROVE  TermInv'
  <1>. DEFINE s == job[i].s
  <1>1. /\ i \in Prompts /\ s \in Some /\ job[i].at = "stream" /\ JobAt(i, "prompt", "stream")
        /\ UNCHANGED <<strayed, overlapped>>
    BY DEF PollSession, AbortedPollEnds, JobAt, Prompts, TermInv, TermTypes, Jobs
  <1>2. term.shown \in SUBSET Some /\ term = [term EXCEPT !.shown = term.shown]
    BY DEF TermInv, TermTypes, Terms
  <1>3. CASE term' = Freed(term) /\ JobEnds(i)
    <2>1. term' = Freed([term EXCEPT !.shown = term.shown]) /\ JobEnds(i)
      BY <1>2, <1>3
    <2>. QED  BY <1>1, <1>2, <2>1, PromptStops
  <1>4. CASE term' = Freed([term EXCEPT !.shown = {s}]) /\ JobEnds(i)
    <2>1. {s} \in SUBSET Some
      BY <1>1
    <2>. QED  BY <1>1, <1>4, <2>1, PromptStops
  <1>5. ASSUME job' = [job EXCEPT ![i].seen = TRUE],
               NEW shown \in Updated(s), term' = [term EXCEPT !.shown = shown]
        PROVE  TermInv'
    <2>1. shown \in SUBSET Some /\ shown \subseteq term.shown \cup {s}
      BY <1>1, <1>2, <1>5 DEF Updated
    <2>2. /\ term' \in Terms /\ term'.session = term.session /\ term'.shown = shown
          /\ term'.loading = term.loading /\ term'.controller = term.controller
      BY <1>5, <2>1 DEF TermInv, TermTypes, Terms
    <2>3. /\ job' \in [Tasks -> Jobs] /\ \A j \in Tasks : j # i => job'[j] = job[j]
          /\ job'[i].kind = job[i].kind /\ job'[i].s = s /\ job'[i].aborted = job[i].aborted
          /\ job'[i].at = "stream"
      BY <1>1, <1>5 DEF TermInv, TermTypes, Jobs
    <2>4. TermTypes'
      BY <1>1, <2>2, <2>3 DEF TermInv, TermTypes, JobPlaced
    <2>5. Prompts' = Prompts
      BY <1>1, <2>3 DEF Prompts
    <2>6. OnePrompt'
      BY <1>1, <2>2, <2>3, <2>5 DEF TermInv, OnePrompt, Prompts
    <2>7. StreamsOfSession'
      BY <1>1, <2>1, <2>2, <2>3 DEF TermInv, StreamsOfSession, JobAt
    <2>. QED  BY <2>4, <2>6, <2>7 DEF TermInv
  <1>. QED  BY <1>3, <1>4, <1>5 DEF PollSession, AbortedPollEnds

(* It goes to a session, with messages of it.                              *)
LEMMA GoesToKeeps ==
    ASSUME TermInv, NEW i \in Tasks, i \notin Prompts, NEW s \in Sessions,
           NEW messages \in {{s}, {}}, NEW choosing \in BOOLEAN,
           GoesTo(i, [term EXCEPT !.choosing = choosing], s, messages), UNCHANGED overlapped
    PROVE  TermInv'
  <1>1. /\ term' \in Terms /\ term'.session = s /\ term'.shown = messages
        /\ term'.loading = term.loading /\ term'.controller = term.controller
    BY DEF GoesTo, TermInv, TermTypes, Terms, Some
  <1>2. /\ job' \in [Tasks -> Jobs] /\ \A j \in Tasks : j # i => job'[j] = job[j]
        /\ job'[i] = NoJob /\ NoJob \in Jobs /\ JobPlaced(NoJob) /\ NoJob.kind = "none"
    BY NoJobIs DEF TermInv, TermTypes, GoesTo, JobEnds, NoJobTypes
  <1>3. Prompts' = Prompts /\ strayed' = (Prompts # {})
    BY <1>2 DEF Prompts, GoesTo
  <1>4. TermTypes'
    BY <1>1, <1>2, <1>3 DEF TermInv, TermTypes
  <1>5. OnePrompt'
    BY <1>1, <1>2, <1>3 DEF TermInv, OnePrompt, Prompts
  <1>6. StreamsOfSession'
    BY <1>1, <1>2, <1>3 DEF StreamsOfSession, JobAt, Prompts
  <1>. QED  BY <1>4, <1>5, <1>6 DEF TermInv

LEMMA OpensKeep ==
    ASSUME TermInv, NEW i \in Tasks,
           OpenAnswers(i) \/ SelectorOpens(i) \/ NewAnswers(i) \/ StopAnswers(i)
    PROVE  TermInv'
  <1>1. i \notin Prompts /\ UNCHANGED overlapped /\ (job[i].kind = "open" => job[i].s \in Sessions)
    BY DEF OpenAnswers, SelectorOpens, NewAnswers, StopAnswers, JobAt, Prompts, TermInv, TermTypes,
           JobPlaced
  <1>2. term = [term EXCEPT !.choosing = term.choosing] /\ term.choosing \in BOOLEAN
    BY DEF TermInv, TermTypes, Terms
  <1>3. CASE OpenAnswers(i)
    <2>1. CASE JobEnds(i) /\ UNCHANGED <<term, strayed>>
      <3>1. term' = [term EXCEPT !.choosing = term.choosing]
        BY <1>2, <2>1
      <3>. QED  BY <1>1, <1>2, <2>1, <3>1, JobStops
    <2>2. CASE GoesTo(i, [term EXCEPT !.choosing = FALSE], job[i].s, {job[i].s})
      <3>1. job[i].s \in Sessions
        BY <1>1, <1>3 DEF OpenAnswers, JobAt
      <3>. QED  BY <1>1, <2>2, <3>1, GoesToKeeps
    <2>. QED  BY <1>3, <2>1, <2>2 DEF OpenAnswers
  <1>4. CASE SelectorOpens(i)
    <2>1. (Listed # {}) \in BOOLEAN /\ term' = [term EXCEPT !.choosing = Listed # {}]
          /\ JobEnds(i) /\ UNCHANGED strayed
      BY <1>4 DEF SelectorOpens
    <2>. QED  BY <1>1, <2>1, JobStops
  <1>5. CASE NewAnswers(i)
    <2>1. PICK s \in Sessions : GoesTo(i, term, s, {})
      BY <1>5 DEF NewAnswers, Unmade
    <2>2. GoesTo(i, [term EXCEPT !.choosing = term.choosing], s, {})
      BY <1>2, <2>1
    <2>. QED  BY <1>1, <1>2, <2>2, GoesToKeeps
  <1>6. CASE StopAnswers(i)
    <2>1. term' = [term EXCEPT !.choosing = term.choosing] /\ JobEnds(i) /\ UNCHANGED strayed
      BY <1>2, <1>6 DEF StopAnswers
    <2>. QED  BY <1>1, <1>2, <2>1, JobStops
  <1>. QED  BY <1>3, <1>4, <1>5, <1>6

LEMMA KillKeeps ==
    ASSUME TermInv, NEW i \in Tasks, KillAnswers(i)
    PROVE  TermInv'
  <1>1. /\ job[i].kind = "kill" /\ i \notin Prompts /\ UNCHANGED <<strayed, overlapped>>
        /\ job[i] \in Jobs
    BY DEF KillAnswers, JobAt, Prompts, TermInv, TermTypes
  <1>2. PICK s \in job[i].rest :
           LET rest == IF server[s] = "deleted" THEN {} ELSE job[i].rest \ {s}
               next == [job EXCEPT ![i] = IF rest = {} THEN NoJob ELSE [@ EXCEPT !.rest = rest]]
           IN  IF server[s] = "deleted"
                 THEN job' = next /\ UNCHANGED <<server, term>>
                 ELSE /\ Stopped(s, "closed")
                      /\ job' = ResetKilled(s, next)
                      /\ term' = IF s = term.session THEN Freed(term) ELSE term
    BY DEF KillAnswers
  <1>. DEFINE rest == IF server[s] = "deleted" THEN {} ELSE job[i].rest \ {s}
              what == IF rest = {} THEN NoJob ELSE [job[i] EXCEPT !.rest = rest]
              next == [job EXCEPT ![i] = what]
  <1>3. rest \in SUBSET Sessions
    BY <1>1 DEF Jobs
  <1>4. what \in Jobs /\ JobPlaced(what) /\ what.kind # "prompt"
    <2>1. JobPlaced(job[i])
      BY DEF TermInv, TermTypes
    <2>. HIDE DEF rest
    <2>. QED  BY <1>1, <1>3, <2>1, NoJobIs DEF NoJobTypes, Jobs, JobPlaced
  <1>5. /\ next \in [Tasks -> Jobs] /\ next[i] = what
        /\ \A j \in Tasks : j # i => next[j] = job[j]
    <2>. HIDE DEF what
    <2>. QED  BY <1>4 DEF TermInv, TermTypes
  <1>6. \/ job' = next /\ UNCHANGED term
        \/ /\ s = term.session /\ job' = AbortedJobs(next, term.controller) /\ term' = Freed(term)
    BY <1>2 DEF ResetKilled
  <1>. HIDE DEF next, what, rest
  <1>7. term \in Terms /\ strayed \in BOOLEAN /\ \A j \in Tasks : JobPlaced(job[j])
    BY DEF TermInv, TermTypes
  <1>8. CASE job' = next /\ UNCHANGED term
    <2>1. TermTypes'
      BY <1>1, <1>4, <1>5, <1>8 DEF TermInv, TermTypes
    <2>2. Prompts' = Prompts
      BY <1>1, <1>4, <1>5, <1>8 DEF Prompts
    <2>3. OnePrompt'
      BY <1>1, <1>4, <1>5, <1>8, <2>2 DEF TermInv, OnePrompt, Prompts
    <2>4. StreamsOfSession'
      BY <1>1, <1>4, <1>5, <1>8 DEF TermInv, StreamsOfSession, JobAt
    <2>. QED  BY <2>1, <2>3, <2>4 DEF TermInv
  <1>9. CASE job' = AbortedJobs(next, term.controller) /\ term' = Freed(term)
    <2>1. job' \in [Tasks -> Jobs]
          /\ \A j \in Tasks : /\ job'[j].kind = next[j].kind /\ job'[j].at = next[j].at
                              /\ job'[j].s = next[j].s
                              /\ job'[j].aborted = (next[j].aborted \/ j = term.controller)
      BY <1>5, <1>9, AbortedJobsAre
    <2>2. \A j \in Tasks : JobPlaced(job'[j])
      BY <1>4, <1>5, <1>7, <2>1 DEF JobPlaced
    <2>3. term' \in Terms /\ ~ term'.loading /\ term'.session = term.session /\ term'.shown = term.shown
      BY <1>7, <1>9, FreedIs
    <2>6. \A j \in Prompts' :
             /\ j \in Prompts
             /\ job'[j].at = job[j].at /\ job'[j].s = job[j].s
             /\ job[j].aborted \/ j = term.controller => job'[j].aborted
      BY <1>4, <1>5, <2>1 DEF Prompts
    <2>. QED  BY <1>1, <1>7, <2>1, <2>2, <2>3, <2>6, LoadingStops
  <1>. QED  BY <1>6, <1>8, <1>9

LEMMA DeleteKeeps ==
    ASSUME TermInv, NEW i \in Tasks, DeleteAnswers(i)
    PROVE  TermInv'
  <1>1. job[i].kind = "delete" /\ i \notin Prompts /\ UNCHANGED overlapped
    BY DEF DeleteAnswers, JobAt, Prompts
  <1>2. term \in Terms /\ strayed \in BOOLEAN /\ \A j \in Tasks : JobPlaced(job[j])
    BY DEF TermInv, TermTypes
  <1>3. CASE JobEnds(i) /\ UNCHANGED <<term, strayed>>
    <2>1. term' = [term EXCEPT !.choosing = term.choosing] /\ term.choosing \in BOOLEAN
      BY <1>2, <1>3 DEF Terms
    <2>. QED  BY <1>1, <1>3, <2>1, JobStops
  <1>4. CASE /\ term' = Left(Freed(term))
             /\ job' = ResetKilled(term.session, [job EXCEPT ![i] = NoJob])
             /\ strayed' = (Prompts # {})
    <2>. DEFINE next == [job EXCEPT ![i] = NoJob]
    <2>1. /\ next \in [Tasks -> Jobs] /\ next[i].kind = "none" /\ JobPlaced(next[i])
          /\ \A j \in Tasks : j # i => next[j] = job[j]
      BY NoJobIs DEF NoJobTypes, TermInv, TermTypes
    <2>2. job' = AbortedJobs(next, term.controller)
      BY <1>4 DEF ResetKilled
    <2>. HIDE DEF next
    <2>3. job' \in [Tasks -> Jobs]
          /\ \A j \in Tasks : /\ job'[j].kind = next[j].kind /\ job'[j].at = next[j].at
                              /\ job'[j].s = next[j].s
                              /\ job'[j].aborted = (next[j].aborted \/ j = term.controller)
      BY <2>1, <2>2, AbortedJobsAre
    <2>4. \A j \in Tasks : JobPlaced(job'[j])
      BY <1>2, <2>1, <2>3 DEF JobPlaced
    <2>5. term' \in Terms /\ ~ term'.loading /\ term'.shown \subseteq {term'.session}
      BY <1>2, <1>4 DEF Left, Freed, Terms, Some
    <2>6. \A j \in Prompts' :
             /\ j \in Prompts
             /\ job'[j].at = job[j].at /\ job'[j].s = job[j].s
             /\ job[j].aborted \/ j = term.controller => job'[j].aborted
      BY <2>1, <2>3 DEF Prompts
    <2>. QED  BY <1>1, <1>2, <1>4, <2>3, <2>4, <2>5, <2>6, LoadingStops
  <1>. QED  BY <1>3, <1>4 DEF DeleteAnswers

LEMMA JobFailsKeeps ==
    ASSUME TermInv, NEW i \in Tasks, JobFails(i)
    PROVE  TermInv'
  <1>1. term \in Terms /\ JobEnds(i) /\ UNCHANGED <<strayed, overlapped>>
    BY DEF JobFails, TermInv, TermTypes
  <1>2. CASE i \in Prompts
    <2>1. term' = Freed([term EXCEPT !.shown = term.shown]) /\ term.shown \in SUBSET Some
      BY <1>1, <1>2 DEF JobFails, Terms
    <2>. QED  BY <1>1, <1>2, <2>1, PromptStops
  <1>3. CASE i \notin Prompts
    <2>1. term' = [term EXCEPT !.choosing = term.choosing] /\ term.choosing \in BOOLEAN
      BY <1>1, <1>3 DEF JobFails, Terms
    <2>. QED  BY <1>1, <1>3, <2>1, JobStops
  <1>. QED  BY <1>2, <1>3

LEMMA TerminalStep ==
    ASSUME TermInv, TermNext
    PROVE  TermInv'
  <1>. PICK i \in Tasks : Commands(i) \/ Arrivals(i) \/ JobFails(i)
    BY DEF TermNext
  <1>. QED
    BY CommandsKeep, SubmitAnswersKeeps, PollKeeps, OpensKeep, KillKeeps, DeleteKeeps, JobFailsKeeps
    DEF Arrivals

LEMMA TerminalStays ==
    ASSUME TermInv, UNCHANGED termVars
    PROVE  TermInv'
  BY DEF termVars, TermInv, TermTypes, OnePrompt, StreamsOfSession, Prompts, JobAt

LEMMA TerminalStarts ==
    ASSUME Init
    PROVE  TermInv
  <1>. DEFINE asking == [NoJob EXCEPT !.kind = "new", !.at = "create"]
  <1>1. asking \in Jobs /\ JobPlaced(asking) /\ asking.kind # "prompt"
    BY RequestsAre DEF Request
  <1>2. /\ term = NewTerm /\ strayed = FALSE /\ overlapped = FALSE
        /\ job \in [Tasks -> {asking, NoJob}]
    BY DEF Init, TermInit
  <1>. HIDE DEF asking
  <1>3. job \in [Tasks -> Jobs] /\ \A j \in Tasks : JobPlaced(job[j]) /\ job[j].kind # "prompt"
    BY <1>1, <1>2, NoJobIs DEF NoJobTypes
  <1>4. ~ term.loading /\ term.shown = {} /\ term \in Terms
    BY <1>2, NewTermIs DEF NewTerm
  <1>. QED
    BY <1>2, <1>3, <1>4 DEF TermInv, TermTypes, OnePrompt, StreamsOfSession, Prompts, JobAt

-----------------------------------------------------------------------------
(* The web client                                                          *)

Maybe == Tasks \cup {NoTask}

TaskKinds == {"none", "open", "older", "submit", "follow", "abort", "kill", "delete"}
TaskPlaces == {"free", "get", "submit", "initial", "stream", "final", "abort", "kill", "delete"}

TaskSet == [kind : TaskKinds, at : TaskPlaces, s : Some, from : Some,
            active : BOOLEAN, aborted : BOOLEAN, stopping : BOOLEAN]

Views == [selected : Some, shown : SUBSET Sessions, running : BOOLEAN,
          busyWith : Some, stopping : Some, run : Some, aborting : Some, runs : Maybe,
          follows : Some, followed : Maybe, cleanup : Maybe, cursor : BOOLEAN,
          loading : BOOLEAN, seen : BOOLEAN \X BOOLEAN \X Some]

(* Where a request of each kind can be, and those that show a session.     *)
Showing(k) ==
    \/ k.kind \in {"older", "follow", "abort"}
    \/ k.kind = "submit" /\ k.at \in {"stream", "final"}

TaskPlaced(k) ==
    /\ k.kind = "none" <=> k.at = "free"
    /\ k.at = "get" => k.kind \in {"open", "older"}
    /\ k.at = "submit" => k.kind = "submit"
    /\ k.at = "initial" => k.kind = "follow"
    /\ k.at = "stream" => k.kind \in {"submit", "follow"}
    /\ k.at = "final" => k.kind \in {"submit", "follow", "abort"}
    /\ k.at = "abort" => k.kind = "abort"
    /\ k.at = "kill" => k.kind = "kill"
    /\ k.at = "delete" => k.kind = "delete"
    /\ k.kind \in {"open", "kill"} => k.s \in Sessions
    /\ k.kind = "submit" => k.at \in {"submit", "stream", "final"}
    /\ Showing(k) => k.s \in Sessions

Placed(t) == \A i \in Tasks : TaskPlaced(t[i])

WebTypes ==
    /\ list \in [Sessions -> Statuses]
    /\ view \in Views
    /\ task \in [Tasks -> TaskSet]
    /\ Placed(task)
    /\ moved \in BOOLEAN

(* A session runs as long as some prompt is under way.                     *)
RunHasPrompt(v, t) == v.run \in Sessions => \E i \in Tasks : t[i].kind = "submit"

(* Whatever is under way, noted or on the screen is of the session that is *)
(* selected.                                                               *)
AllOfSelected(v, t) ==
    /\ v.shown \subseteq {v.selected}
    /\ \A i \in Tasks : /\ Showing(t[i]) => t[i].s = v.selected
                        /\ t[i].at = "submit" /\ t[i].from \in Sessions => t[i].from = v.selected
    /\ v.run \in {NoSession, v.selected}
    /\ v.selected = NoSession => v.busyWith = NoSession /\ v.aborting = NoSession

WebInv ==
    /\ WebTypes
    /\ RunHasPrompt(view, task)
    /\ moved \/ AllOfSelected(view, task)

-----------------------------------------------------------------------------
(* Effects                                                                 *)

(* What the effects may change: a session that has stopped is no longer    *)
(* noted, and references to the following of a session change.             *)
SameView(v, w) ==
    /\ w.selected = v.selected /\ w.shown = v.shown /\ w.run = v.run
    /\ w.busyWith \in {v.busyWith, NoSession}
    /\ w.aborting \in {v.aborting, NoSession}

(* Requests are aborted, or the following of session x takes a free slot.  *)
SameTask(k, l, x) ==
    \/ l.kind = k.kind /\ l.at = k.at /\ l.s = k.s /\ l.from = k.from
    \/ k.at = "free" /\ l.kind = "follow" /\ l.at \in {"initial", "stream"} /\ l.s = x /\ x \in Sessions

SameTasks(t, u, x) == \A i \in Tasks : SameTask(t[i], u[i], x)

LEMMA ClearedIs ==
    ASSUME NEW v \in Views, NEW l
    PROVE  Cleared(v, l) \in Views /\ SameView(v, Cleared(v, l))
  <1>1. ASSUME NEW x \in Some, NEW y \in Some, NEW z \in Some
        PROVE  LET w == [v EXCEPT !.busyWith = x, !.aborting = y, !.stopping = z]
               IN  /\ w \in Views
                   /\ x \in {v.busyWith, NoSession} /\ y \in {v.aborting, NoSession} => SameView(v, w)
    BY <1>1 DEF Views, SameView
  <1>. DEFINE x == IF v.busyWith = v.selected THEN NoSession ELSE v.busyWith
              y == IF v.stopping = v.selected /\ v.aborting = v.selected THEN NoSession ELSE v.aborting
              z == IF v.stopping = v.selected THEN NoSession ELSE v.stopping
  <1>2. x \in Some /\ y \in Some /\ z \in Some
        /\ x \in {v.busyWith, NoSession} /\ y \in {v.aborting, NoSession}
    BY DEF Views, Some
  <1>. DEFINE w == [v EXCEPT !.busyWith = x, !.aborting = y, !.stopping = z]
  <1>3. Cleared(v, l) = v \/ Cleared(v, l) = w
    BY DEF Cleared, Views
  <1>. HIDE DEF x, y, z
  <1>4. w \in Views /\ SameView(v, w)
    BY <1>1, <1>2
  <1>. HIDE DEF w
  <1>. QED  BY <1>3, <1>4 DEF SameView

LEMMA AbortedIs ==
    ASSUME NEW t \in [Tasks -> TaskSet], NEW i
    PROVE  /\ Aborted(t, i) \in [Tasks -> TaskSet]
           /\ \A j \in Tasks : /\ Aborted(t, i)[j].kind = t[j].kind /\ Aborted(t, i)[j].at = t[j].at
                               /\ Aborted(t, i)[j].s = t[j].s /\ Aborted(t, i)[j].from = t[j].from
  BY DEF Aborted, TaskSet

LEMMA FreeTaskIs ==
    ASSUME NEW t
    PROVE  FreeTask(t) = NoTask \/ (FreeTask(t) \in Tasks /\ t[FreeTask(t)].at = "free")
  BY DEF FreeTask

LEMMA IdleIs == Idle \in TaskSet /\ Idle.kind = "none" /\ Idle.at = "free" /\ TaskPlaced(Idle)
  BY DEF Idle, TaskSet, TaskKinds, TaskPlaces, Some, TaskPlaced, Showing

LEMMA FollowIs ==
    ASSUME NEW v \in Views, v.selected \in Sessions
    PROVE  /\ Follow(v) \in TaskSet /\ TaskPlaced(Follow(v))
           /\ Follow(v).kind = "follow" /\ Follow(v).at \in {"initial", "stream"}
           /\ Follow(v).s = v.selected
  BY DEF Follow, Idle, TaskSet, TaskKinds, TaskPlaces, Some, TaskPlaced, Showing, Views

LEMMA UnfollowedIs ==
    ASSUME NEW v \in Views, NEW d \in BOOLEAN \X BOOLEAN \X Some
    PROVE  /\ [Unfollowed(v) EXCEPT !.seen = d] \in Views
           /\ SameView(v, [Unfollowed(v) EXCEPT !.seen = d])
  <1>1. Unfollowed(v) \in Views /\ SameView(v, Unfollowed(v))
    BY DEF Unfollowed, Views, SameView, Some, Maybe
  <1>. QED  BY <1>1 DEF Views, SameView

LEMMA RenderedIs ==
    ASSUME NEW v \in Views, NEW t \in [Tasks -> TaskSet], Placed(t), NEW l
    PROVE  /\ Rendered(v, t, l).view \in Views /\ SameView(v, Rendered(v, t, l).view)
           /\ Rendered(v, t, l).task \in [Tasks -> TaskSet]
           /\ Placed(Rendered(v, t, l).task)
           /\ SameTasks(t, Rendered(v, t, l).task, v.selected)
  <1>. DEFINE d == <<Processing(v, l), v.running, v.selected>>
              u == [Unfollowed(v) EXCEPT !.seen = d]
              tt == Aborted(t, v.cleanup)
              i == FreeTask(tt)
              w == [u EXCEPT !.follows = v.selected, !.followed = i, !.cleanup = i]
              ts == [j \in Tasks |-> IF j = i THEN Follow(u) ELSE tt[j]]
              starts == d[1] /\ ~v.running /\ v.selected \in Sessions /\ u.follows # v.selected
  <1>1. d \in BOOLEAN \X BOOLEAN \X Some
    BY DEF Processing, Views
  <1>2. u \in Views /\ SameView(v, u)
    <2>. HIDE DEF d
    <2>. QED  BY <1>1, UnfollowedIs
  <1>3. tt \in [Tasks -> TaskSet]
        /\ \A j \in Tasks : /\ tt[j].kind = t[j].kind /\ tt[j].at = t[j].at
                            /\ tt[j].s = t[j].s /\ tt[j].from = t[j].from
    BY AbortedIs
  <1>4. i = NoTask \/ (i \in Tasks /\ tt[i].at = "free")
    <2>. HIDE DEF tt
    <2>. QED  BY FreeTaskIs
  <1>5. Rendered(v, t, l) =
          IF d = v.seen
            THEN [view |-> v, task |-> t, room |-> TRUE]
            ELSE IF starts
              THEN [view |-> w, task |-> ts, room |-> i \in Tasks]
              ELSE [view |-> u, task |-> tt, room |-> TRUE]
    BY DEF Rendered
  <1>. HIDE DEF d, u, tt, i
  <1>6. Placed(tt)
    BY <1>3 DEF Placed, TaskPlaced, Showing
  <1>7. w \in Views /\ SameView(v, w)
    BY <1>2, <1>4 DEF Views, SameView, Maybe
  <1>8. ASSUME starts
        PROVE  ts \in [Tasks -> TaskSet] /\ Placed(ts) /\ SameTasks(t, ts, v.selected)
    <2>1. u.selected = v.selected /\ v.selected \in Sessions
      BY <1>2, <1>8 DEF SameView
    <2>2. /\ Follow(u) \in TaskSet /\ TaskPlaced(Follow(u))
          /\ Follow(u).kind = "follow" /\ Follow(u).at \in {"initial", "stream"}
          /\ Follow(u).s = v.selected
      BY <1>2, <2>1, FollowIs
    <2>3. ts \in [Tasks -> TaskSet]
      BY <1>3, <2>2
    <2>4. \A j \in Tasks : IF j = i THEN ts[j] = Follow(u) ELSE ts[j] = tt[j]
      OBVIOUS
    <2>. HIDE DEF ts
    <2>5. Placed(ts)
      BY <1>6, <2>2, <2>4 DEF Placed
    <2>6. SameTasks(t, ts, v.selected)
      BY <1>3, <1>4, <2>1, <2>2, <2>4, ClientsAssumption DEF SameTasks, SameTask
    <2>. QED  BY <2>3, <2>5, <2>6
  <1>. HIDE DEF w, ts, starts
  <1>9. SameView(v, v) /\ SameTasks(t, t, v.selected) /\ SameTasks(t, tt, v.selected)
    BY <1>3 DEF SameView, SameTasks, SameTask
  <1>. QED  BY <1>2, <1>3, <1>5, <1>6, <1>7, <1>8, <1>9

LEMMA BecomesIs ==
    ASSUME NEW v \in Views, NEW t \in [Tasks -> TaskSet], Placed(t), NEW l, BecomesWithList(v, t, l)
    PROVE  /\ view' \in Views /\ SameView(v, view')
           /\ task' \in [Tasks -> TaskSet] /\ Placed(task')
           /\ SameTasks(t, task', v.selected)
  <1>. DEFINE c == Cleared(v, l)
  <1>1. c \in Views /\ SameView(v, c)
    BY ClearedIs
  <1>2. view' = Rendered(c, t, l).view /\ task' = Rendered(c, t, l).task
    BY DEF BecomesWithList
  <1>. HIDE DEF c
  <1>3. /\ view' \in Views /\ SameView(c, view')
        /\ task' \in [Tasks -> TaskSet] /\ Placed(task') /\ SameTasks(t, task', c.selected)
    BY <1>1, <1>2, RenderedIs
  <1>. QED  BY <1>1, <1>3 DEF SameView

(* So it is enough that the invariant holds before the effects.            *)
LEMMA BecomesKeeps ==
    ASSUME NEW v \in Views, NEW t \in [Tasks -> TaskSet], Placed(t), NEW l, BecomesWithList(v, t, l),
           list' \in [Sessions -> Statuses], moved' \in BOOLEAN,
           RunHasPrompt(v, t), moved' \/ AllOfSelected(v, t)
    PROVE  WebInv'
  <1>1. /\ view' \in Views /\ SameView(v, view')
        /\ task' \in [Tasks -> TaskSet] /\ Placed(task') /\ SameTasks(t, task', v.selected)
    BY BecomesIs
  <1>2. WebTypes'
    BY <1>1 DEF WebTypes
  <1>3. RunHasPrompt(view', task')
    BY <1>1 DEF RunHasPrompt, SameView, SameTasks, SameTask, Placed, TaskPlaced
  <1>4. AllOfSelected(v, t) => AllOfSelected(view', task')
    BY <1>1 DEF AllOfSelected, SameView, SameTasks, SameTask, Showing
  <1>. QED  BY <1>2, <1>3, <1>4 DEF WebInv

-----------------------------------------------------------------------------
(* Requests                                                                *)

LEMMA DoneIs ==
    ASSUME WebTypes, NEW i \in Tasks
    PROVE  /\ Done(i) \in [Tasks -> TaskSet] /\ Placed(Done(i))
           /\ Done(i)[i] = Idle /\ \A j \in Tasks : j # i => Done(i)[j] = task[j]
  BY IdleIs DEF Done, WebTypes, Placed

LEMMA StartsIs ==
    ASSUME WebTypes, NEW i \in Tasks, NEW k \in TaskSet, TaskPlaced(k)
    PROVE  /\ Starts(i, k) \in [Tasks -> TaskSet] /\ Placed(Starts(i, k))
           /\ Starts(i, k)[i] = k /\ \A j \in Tasks : j # i => Starts(i, k)[j] = task[j]
  BY DEF Starts, WebTypes, Placed

(* What is asked for by a click.                                           *)
OpenTask(s) == [Idle EXCEPT !.kind = "open", !.at = "get", !.s = s]
OlderTask(s) == [Idle EXCEPT !.kind = "older", !.at = "get", !.s = s]
KillTask(s) == [Idle EXCEPT !.kind = "kill", !.at = "kill", !.s = s]
DeleteTask(s) == [Idle EXCEPT !.kind = "delete", !.at = "delete", !.s = s]
AbortTask(s) == [Idle EXCEPT !.kind = "abort", !.at = "abort", !.s = s]
SubmitTask(s, b) ==
    [Idle EXCEPT !.kind = "submit", !.at = "submit", !.s = s, !.from = s, !.stopping = b]

LEMMA TasksAre ==
    /\ \A s \in Sessions :
          /\ OpenTask(s) \in TaskSet /\ TaskPlaced(OpenTask(s)) /\ OpenTask(s).kind = "open"
          /\ OpenTask(s).at = "get"
          /\ OlderTask(s) \in TaskSet /\ TaskPlaced(OlderTask(s)) /\ OlderTask(s).kind = "older"
          /\ OlderTask(s).at = "get" /\ OlderTask(s).s = s
          /\ KillTask(s) \in TaskSet /\ TaskPlaced(KillTask(s)) /\ KillTask(s).kind = "kill"
          /\ KillTask(s).at = "kill"
          /\ AbortTask(s) \in TaskSet /\ TaskPlaced(AbortTask(s)) /\ AbortTask(s).kind = "abort"
          /\ AbortTask(s).at = "abort" /\ AbortTask(s).s = s
    /\ \A s \in Some, b \in BOOLEAN :
          /\ SubmitTask(s, b) \in TaskSet /\ TaskPlaced(SubmitTask(s, b))
          /\ SubmitTask(s, b).kind = "submit" /\ SubmitTask(s, b).at = "submit"
          /\ SubmitTask(s, b).from = s
    /\ \A s \in Some :
          /\ DeleteTask(s) \in TaskSet /\ TaskPlaced(DeleteTask(s)) /\ DeleteTask(s).kind = "delete"
          /\ DeleteTask(s).at = "delete"
  <1>1. ASSUME NEW s \in Sessions
        PROVE  /\ OpenTask(s) \in TaskSet /\ TaskPlaced(OpenTask(s)) /\ OpenTask(s).kind = "open"
               /\ OpenTask(s).at = "get"
    BY DEF OpenTask, Idle, TaskSet, TaskKinds, TaskPlaces,
           Some, TaskPlaced, Showing
  <1>2. ASSUME NEW s \in Sessions
        PROVE  /\ OlderTask(s) \in TaskSet /\ TaskPlaced(OlderTask(s)) /\ OlderTask(s).kind = "older"
               /\ OlderTask(s).at = "get" /\ OlderTask(s).s = s
    BY DEF OlderTask, Idle, TaskSet, TaskKinds, TaskPlaces,
           Some, TaskPlaced, Showing
  <1>3. ASSUME NEW s \in Sessions
        PROVE  /\ KillTask(s) \in TaskSet /\ TaskPlaced(KillTask(s)) /\ KillTask(s).kind = "kill"
               /\ KillTask(s).at = "kill"
    BY DEF KillTask, Idle, TaskSet, TaskKinds, TaskPlaces,
           Some, TaskPlaced, Showing
  <1>4. ASSUME NEW s \in Sessions
        PROVE  /\ AbortTask(s) \in TaskSet /\ TaskPlaced(AbortTask(s)) /\ AbortTask(s).kind = "abort"
               /\ AbortTask(s).at = "abort" /\ AbortTask(s).s = s
    BY DEF AbortTask, Idle, TaskSet, TaskKinds, TaskPlaces,
           Some, TaskPlaced, Showing
  <1>5. ASSUME NEW s \in Some, NEW b \in BOOLEAN
        PROVE  /\ SubmitTask(s, b) \in TaskSet /\ TaskPlaced(SubmitTask(s, b))
               /\ SubmitTask(s, b).kind = "submit" /\ SubmitTask(s, b).at = "submit"
               /\ SubmitTask(s, b).from = s
    BY DEF SubmitTask, Idle, TaskSet, TaskKinds, TaskPlaces,
           Some, TaskPlaced, Showing
  <1>6. ASSUME NEW s \in Some
        PROVE  /\ DeleteTask(s) \in TaskSet /\ TaskPlaced(DeleteTask(s))
               /\ DeleteTask(s).kind = "delete" /\ DeleteTask(s).at = "delete"
    BY DEF DeleteTask, Idle, TaskSet, TaskKinds, TaskPlaces,
           Some, TaskPlaced, Showing
  <1>. QED  BY <1>1, <1>2, <1>3, <1>4, <1>5, <1>6

-----------------------------------------------------------------------------
(* An abort is of the session that runs, and nothing runs but what is      *)
(* selected.                                                               *)

LEMMA TargetIs ==
    ASSUME WebInv
    PROVE  /\ Target(view) \in Some
           /\ view.selected \in Sessions => Target(view) \in Sessions
           /\ view.run \in Sessions => Target(view) \in Sessions
           /\ ~ moved /\ Target(view) \in Sessions => Target(view) = view.selected
  <1>. view \in Views
    BY DEF WebInv, WebTypes
  <1>. QED
    BY ClientsAssumption DEF WebInv, Target, AllOfSelected, Views, Some

LEMMA AbortedViewIs ==
    ASSUME WebInv
    PROVE  /\ AbortedView(view) \in Views
           /\ AbortedView(view).selected = view.selected /\ AbortedView(view).shown = view.shown
           /\ AbortedView(view).run = view.run /\ AbortedView(view).busyWith = NoSession
           /\ AbortedView(view).aborting =
                 IF Target(view) \in Sessions THEN Target(view) ELSE view.aborting
  <1>. view \in Views /\ Target(view) \in Some
    BY TargetIs DEF WebInv, WebTypes
  <1>. DEFINE x == Target(view)
              a == IF x \in Sessions THEN x ELSE view.aborting
              b == IF x \in Sessions THEN x ELSE view.stopping
              c == IF view.follows = x THEN NoSession ELSE view.follows
              w == [view EXCEPT !.aborting = a, !.stopping = b, !.runs = NoTask, !.followed = NoTask,
                                !.follows = c, !.running = FALSE, !.busyWith = NoSession]
  <1>1. AbortedView(view) = w
    BY DEF AbortedView, Views
  <1>2. a \in Some /\ b \in Some /\ c \in Some
    BY DEF Views, Some
  <1>. HIDE DEF a, b, c
  <1>3. /\ w \in Views /\ w.selected = view.selected /\ w.shown = view.shown
        /\ w.run = view.run /\ w.busyWith = NoSession /\ w.aborting = a
    <2>1. NoTask \in Maybe /\ NoSession \in Some
      BY DEF Maybe, Some
    <2>. QED  BY <1>2, <2>1 DEF Views
  <1>. HIDE DEF w
  <1>. QED  BY <1>1, <1>3 DEF a

LEMMA AbortedTasksAre ==
    ASSUME WebInv, NEW t \in [Tasks -> TaskSet], Placed(t), NEW i \in Tasks, t[i].at = "free"
    PROVE  /\ AbortedTasks(view, t, i) \in [Tasks -> TaskSet]
           /\ Placed(AbortedTasks(view, t, i))
           /\ \A j \in Tasks : j # i =>
                 /\ AbortedTasks(view, t, i)[j].kind = t[j].kind
                 /\ AbortedTasks(view, t, i)[j].at = t[j].at
                 /\ AbortedTasks(view, t, i)[j].s = t[j].s
                 /\ AbortedTasks(view, t, i)[j].from = t[j].from
           /\ IF Target(view) \in Sessions
                THEN AbortedTasks(view, t, i)[i] = AbortTask(Target(view))
                ELSE AbortedTasks(view, t, i)[i].at = "free" /\ AbortedTasks(view, t, i)[i].kind = "none"
  <1>. DEFINE u == Aborted(Aborted(t, view.runs), view.followed)
              x == Target(view)
              w == [u EXCEPT ![i] = AbortTask(x)]
  <1>1. /\ Aborted(t, view.runs) \in [Tasks -> TaskSet]
        /\ \A j \in Tasks : /\ Aborted(t, view.runs)[j].kind = t[j].kind
                            /\ Aborted(t, view.runs)[j].at = t[j].at
                            /\ Aborted(t, view.runs)[j].s = t[j].s
                            /\ Aborted(t, view.runs)[j].from = t[j].from
    BY AbortedIs
  <1>2. /\ u \in [Tasks -> TaskSet]
        /\ \A j \in Tasks : /\ u[j].kind = t[j].kind /\ u[j].at = t[j].at
                            /\ u[j].s = t[j].s /\ u[j].from = t[j].from
    <2>. DEFINE a == Aborted(t, view.runs)
    <2>1. a \in [Tasks -> TaskSet]
      BY <1>1
    <2>2. /\ Aborted(a, view.followed) \in [Tasks -> TaskSet]
          /\ \A j \in Tasks : /\ Aborted(a, view.followed)[j].kind = a[j].kind
                              /\ Aborted(a, view.followed)[j].at = a[j].at
                              /\ Aborted(a, view.followed)[j].s = a[j].s
                              /\ Aborted(a, view.followed)[j].from = a[j].from
      <3>. HIDE DEF a
      <3>. QED  BY <2>1, AbortedIs
    <2>. QED  BY <1>1, <2>2
  <1>3. Placed(u) /\ t[i].kind = "none"
    BY <1>2 DEF Placed, TaskPlaced, Showing
  <1>4. AbortedTasks(view, t, i) = IF x \in Sessions THEN w ELSE u
    BY DEF AbortedTasks, AbortTask
  <1>. HIDE DEF u, x
  <1>5. ASSUME x \in Sessions
        PROVE  /\ w \in [Tasks -> TaskSet] /\ Placed(w) /\ w[i] = AbortTask(x)
               /\ \A j \in Tasks : j # i => w[j] = u[j]
    BY <1>2, <1>3, <1>5, TasksAre DEF Placed
  <1>. HIDE DEF w
  <1>6. Target(view) = x
    BY DEF x
  <1>. QED
    <2>1. CASE x \in Sessions
      BY <1>2, <1>4, <1>5, <1>6, <2>1
    <2>2. CASE x \notin Sessions
      BY <1>2, <1>3, <1>4, <1>6, <2>2
    <2>. QED  BY <2>1, <2>2

-----------------------------------------------------------------------------
(* What the user does in the web client.                                   *)

LEMMA ClickIs ==
    ASSUME WebInv, NEW i \in Tasks, Click(i)
    PROVE  /\ task[i].at = "free" /\ task[i].kind = "none"
           /\ list' \in [Sessions -> Statuses]
           /\ view \in Views /\ task \in [Tasks -> TaskSet] /\ Placed(task) /\ WebTypes
           /\ moved \in BOOLEAN
  BY DEF WebInv, WebTypes, Click, At, Placed, TaskPlaced

(* A click that asks for something with nothing but its request noted.     *)
LEMMA AskKeeps ==
    ASSUME WebInv, NEW i \in Tasks, Click(i), NEW k \in TaskSet, TaskPlaced(k),
           Showing(k) => k.s = view.selected, k.at # "submit",
           NEW loading \in BOOLEAN,
           Becomes([view EXCEPT !.loading = loading], Starts(i, k)), UNCHANGED moved
    PROVE  WebInv'
  <1>. DEFINE v == [view EXCEPT !.loading = loading]
              t == Starts(i, k)
  <1>1. /\ task[i].at = "free" /\ task[i].kind = "none" /\ list' \in [Sessions -> Statuses]
        /\ view \in Views /\ task \in [Tasks -> TaskSet] /\ Placed(task) /\ WebTypes
        /\ moved \in BOOLEAN
    BY ClickIs
  <1>2. v \in Views /\ v.selected = view.selected /\ v.shown = view.shown /\ v.run = view.run
        /\ v.busyWith = view.busyWith /\ v.aborting = view.aborting
    BY <1>1 DEF Views
  <1>3. /\ t \in [Tasks -> TaskSet] /\ Placed(t)
        /\ t[i] = k /\ \A j \in Tasks : j # i => t[j] = task[j]
    BY <1>1, StartsIs
  <1>4. BecomesWithList(v, t, list)
    BY DEF Becomes
  <1>. HIDE DEF v, t
  <1>5. RunHasPrompt(v, t)
    BY <1>1, <1>2, <1>3 DEF WebInv, RunHasPrompt
  <1>6. AllOfSelected(view, task) => AllOfSelected(v, t)
    BY <1>2, <1>3 DEF AllOfSelected
  <1>. QED  BY <1>1, <1>2, <1>3, <1>4, <1>5, <1>6, BecomesKeeps DEF WebInv

LEMMA StartDraftKeeps ==
    ASSUME WebInv, NEW i \in Tasks, StartDraftSession(i)
    PROVE  WebInv'
  <1>. DEFINE w == AbortedView(view)
              v == [w EXCEPT !.selected = NoSession, !.shown = {},
                             !.follows = NoSession, !.cursor = FALSE, !.loading = FALSE]
              t == AbortedTasks(view, task, i)
  <1>1. /\ task[i].at = "free" /\ task[i].kind = "none" /\ list' \in [Sessions -> Statuses]
        /\ view \in Views /\ task \in [Tasks -> TaskSet] /\ Placed(task)
        /\ moved \in BOOLEAN
    BY ClickIs DEF StartDraftSession
  <1>2. /\ w \in Views /\ w.run = view.run /\ w.busyWith = NoSession
        /\ w.aborting = IF Target(view) \in Sessions THEN Target(view) ELSE view.aborting
    BY AbortedViewIs
  <1>3. /\ t \in [Tasks -> TaskSet] /\ Placed(t)
        /\ \A j \in Tasks : j # i => t[j].kind = task[j].kind /\ t[j].at = task[j].at
        /\ IF Target(view) \in Sessions
             THEN t[i] = AbortTask(Target(view)) ELSE t[i].at = "free" /\ t[i].kind = "none"
    BY <1>1, AbortedTasksAre
  <1>4. BecomesWithList(v, t, list) /\ moved' = (OthersUnderWay(t, NoTask) \/ v.aborting \in Sessions)
    BY DEF StartDraftSession, Becomes
  <1>. HIDE DEF w, t
  <1>5. /\ v \in Views /\ v.selected = NoSession /\ v.shown = {} /\ v.run = view.run
        /\ v.busyWith = NoSession /\ v.aborting = w.aborting
    <2>1. NoSession \in Some
      BY DEF Some
    <2>. QED  BY <1>2, <2>1 DEF Views
  <1>. HIDE DEF v
  <1>6. RunHasPrompt(v, t)
    BY <1>1, <1>3, <1>5 DEF WebInv, RunHasPrompt
  <1>7. ASSUME ~ moved'
        PROVE  AllOfSelected(v, t)
    <2>1. \A j \in Tasks : t[j].at # "free" => t[j].kind = "open"
      BY <1>4, <1>7, ClientsAssumption DEF OthersUnderWay
    <2>2. \A j \in Tasks : ~ Showing(t[j]) /\ t[j].at # "submit" /\ t[j].kind # "submit"
      BY <1>3, <2>1 DEF Placed, TaskPlaced, Showing
    <2>3. v.run = NoSession /\ v.aborting = NoSession
      BY <1>4, <1>5, <1>6, <1>7, <2>2 DEF RunHasPrompt, Views, Some
    <2>. QED  BY <1>5, <2>2, <2>3 DEF AllOfSelected
  <1>8. moved' \in BOOLEAN
    BY <1>4 DEF OthersUnderWay
  <1>. QED  BY <1>1, <1>3, <1>4, <1>5, <1>6, <1>7, <1>8, BecomesKeeps

LEMMA SubmitKeeps ==
    ASSUME WebInv, NEW i \in Tasks, SubmitPrompt(i)
    PROVE  WebInv'
  <1>. DEFINE b == view.selected \in {view.stopping} \ {NoSession}
              k == SubmitTask(view.selected, b)
              v == [view EXCEPT !.running = TRUE, !.runs = i, !.run = view.selected]
              t == Starts(i, k)
  <1>1. /\ task[i].at = "free" /\ task[i].kind = "none" /\ list' \in [Sessions -> Statuses]
        /\ view \in Views /\ task \in [Tasks -> TaskSet] /\ Placed(task) /\ WebTypes
        /\ moved \in BOOLEAN /\ UNCHANGED moved
    BY ClickIs DEF SubmitPrompt
  <1>2. k \in TaskSet /\ TaskPlaced(k) /\ k.kind = "submit" /\ k.at = "submit"
        /\ k.from = view.selected
    <2>1. b \in BOOLEAN /\ view.selected \in Some
      BY <1>1 DEF Views
    <2>. HIDE DEF b
    <2>. QED  BY <2>1, TasksAre
  <1>3. v \in Views /\ v.selected = view.selected /\ v.shown = view.shown
        /\ v.run = view.selected /\ v.busyWith = view.busyWith /\ v.aborting = view.aborting
    BY <1>1 DEF Views, Maybe
  <1>4. BecomesWithList(v, t, list)
    BY DEF SubmitPrompt, Becomes, SubmitTask
  <1>. HIDE DEF k
  <1>5. /\ t \in [Tasks -> TaskSet] /\ Placed(t)
        /\ t[i] = k /\ \A j \in Tasks : j # i => t[j] = task[j]
    BY <1>1, <1>2, StartsIs
  <1>. HIDE DEF v, t
  <1>6. RunHasPrompt(v, t)
    BY <1>2, <1>5 DEF RunHasPrompt
  <1>7. AllOfSelected(view, task) => AllOfSelected(v, t)
    BY <1>2, <1>3, <1>5 DEF AllOfSelected, Showing
  <1>. QED  BY <1>1, <1>3, <1>4, <1>5, <1>6, <1>7, BecomesKeeps DEF WebInv

(* After an abort, of what is under way.                                   *)
LEMMA AbortKeeps ==
    ASSUME WebInv, NEW t0 \in [Tasks -> TaskSet], Placed(t0), NEW i \in Tasks, t0[i].at = "free",
           task[i].kind # "submit", \A j \in Tasks : j # i => t0[j] = task[j],
           Becomes(AbortedView(view), AbortedTasks(view, t0, i)), UNCHANGED <<list, moved>>
    PROVE  WebInv'
  <1>. DEFINE v == AbortedView(view)
              t == AbortedTasks(view, t0, i)
  <1>1. /\ list' \in [Sessions -> Statuses] /\ moved' \in BOOLEAN
        /\ view \in Views /\ task \in [Tasks -> TaskSet]
    BY DEF WebInv, WebTypes
  <1>2. /\ v \in Views
        /\ v.selected = view.selected /\ v.shown = view.shown
        /\ v.run = view.run /\ v.busyWith = NoSession
        /\ v.aborting = IF Target(view) \in Sessions THEN Target(view) ELSE view.aborting
    BY AbortedViewIs
  <1>3. /\ t \in [Tasks -> TaskSet] /\ Placed(t)
        /\ \A j \in Tasks : j # i =>
              t[j].kind = t0[j].kind /\ t[j].at = t0[j].at /\ t[j].s = t0[j].s /\ t[j].from = t0[j].from
        /\ IF Target(view) \in Sessions
             THEN t[i] = AbortTask(Target(view)) ELSE t[i].at = "free" /\ t[i].kind = "none"
    BY AbortedTasksAre
  <1>4. BecomesWithList(v, t, list)
    BY DEF Becomes
  <1>. HIDE DEF v, t
  <1>5. RunHasPrompt(v, t)
    BY <1>2, <1>3 DEF WebInv, RunHasPrompt
  <1>6. ASSUME ~ moved'
        PROVE  AllOfSelected(v, t)
    <2>1. AllOfSelected(view, task) /\ ~ moved
      BY <1>6 DEF WebInv
    <2>2. Target(view) \in Sessions => Target(view) = view.selected /\ view.selected # NoSession
      BY <2>1, TargetIs, ClientsAssumption
    <2>3. Target(view) \in Sessions => /\ AbortTask(Target(view)).s = Target(view)
                                       /\ AbortTask(Target(view)).at = "abort"
      BY TasksAre
    <2>4. \A j \in Tasks : /\ Showing(t[j]) => t[j].s = view.selected
                           /\ t[j].at = "submit" /\ t[j].from \in Sessions => t[j].from = view.selected
      <3>. TAKE j \in Tasks
      <3>1. CASE j = i
        BY <1>3, <2>2, <2>3, <3>1 DEF Showing
      <3>2. CASE j # i
        BY <1>3, <2>1, <3>2 DEF AllOfSelected, Showing
      <3>. QED  BY <3>1, <3>2
    <2>. QED  BY <1>2, <2>1, <2>2, <2>4 DEF AllOfSelected
  <1>. QED  BY <1>1, <1>2, <1>3, <1>4, <1>5, <1>6, BecomesKeeps

(* By way of a container another session is selected, and nothing else     *)
(* changes.                                                                *)
LEMMA ContainerKeeps ==
    ASSUME WebInv, NEW i \in Tasks, NEW s \in Sessions, OpenContainer(i, s)
    PROVE  WebInv'
  <1>. DEFINE v == [view EXCEPT !.selected = s]
  <1>1. /\ list' \in [Sessions -> Statuses] /\ view \in Views
        /\ task \in [Tasks -> TaskSet] /\ Placed(task) /\ moved \in BOOLEAN
    BY ClickIs DEF OpenContainer
  <1>2. BecomesWithList(v, task, list) /\ moved' = (moved \/ s # view.selected)
    BY DEF OpenContainer, Entered, Becomes
  <1>3. v \in Views /\ v.run = view.run
    BY <1>1 DEF Views, Some
  <1>4. s = view.selected => v = view
    BY <1>1 DEF Views
  <1>. HIDE DEF v
  <1>5. RunHasPrompt(v, task)
    BY <1>3 DEF WebInv, RunHasPrompt
  <1>6. moved' \/ AllOfSelected(v, task)
    BY <1>2, <1>4 DEF WebInv
  <1>. QED  BY <1>1, <1>2, <1>3, <1>5, <1>6, BecomesKeeps

LEMMA ClicksKeep ==
    ASSUME WebInv, NEW i \in Tasks, Clicks(i)
    PROVE  WebInv'
  <1>. view \in Views /\ task \in [Tasks -> TaskSet] /\ Placed(task)
    BY DEF WebInv, WebTypes
  <1>. view = [view EXCEPT !.loading = view.loading] /\ view.loading \in BOOLEAN
    BY DEF Views
  <1>1. ASSUME NEW s \in Sessions, OpenSession(i, s)
        PROVE  WebInv'
    <2>1. /\ OpenTask(s) \in TaskSet /\ TaskPlaced(OpenTask(s)) /\ ~ Showing(OpenTask(s))
          /\ OpenTask(s).at # "submit"
      BY TasksAre DEF Showing
    <2>2. Click(i) /\ Becomes([view EXCEPT !.loading = view.loading], Starts(i, OpenTask(s)))
          /\ UNCHANGED moved
      BY <1>1 DEF OpenSession, Opening, OpenTask
    <2>. QED  BY <2>1, <2>2, AskKeeps
  <1>2. ASSUME NEW s \in Sessions, KillSession(i, s)
        PROVE  WebInv'
    <2>1. /\ KillTask(s) \in TaskSet /\ TaskPlaced(KillTask(s)) /\ ~ Showing(KillTask(s))
          /\ KillTask(s).at # "submit"
      BY TasksAre DEF Showing
    <2>2. Click(i) /\ Becomes([view EXCEPT !.loading = view.loading], Starts(i, KillTask(s)))
          /\ UNCHANGED moved
      BY <1>2 DEF KillSession, KillTask
    <2>. QED  BY <2>1, <2>2, AskKeeps
  <1>3. CASE StartDraftSession(i)
    BY <1>3, StartDraftKeeps
  <1>4. CASE SubmitPrompt(i)
    BY <1>4, SubmitKeeps
  <1>5. CASE AbortRun(i)
    <2>1. task[i].at = "free" /\ task[i].kind = "none"
      BY <1>5, ClickIs DEF AbortRun
    <2>2. Becomes(AbortedView(view), AbortedTasks(view, task, i)) /\ UNCHANGED <<list, moved>>
      BY <1>5 DEF AbortRun, Click
    <2>. QED  BY <2>1, <2>2, AbortKeeps
  <1>6. CASE LoadPreviousMessages(i)
    <2>1. view.selected \in Sessions
      BY <1>6 DEF LoadPreviousMessages
    <2>2. /\ OlderTask(view.selected) \in TaskSet /\ TaskPlaced(OlderTask(view.selected))
          /\ OlderTask(view.selected).s = view.selected /\ OlderTask(view.selected).at # "submit"
      BY <2>1, TasksAre
    <2>3. Click(i) /\ Becomes([view EXCEPT !.loading = TRUE], Starts(i, OlderTask(view.selected)))
          /\ UNCHANGED moved
      BY <1>6 DEF LoadPreviousMessages, OlderTask
    <2>. QED  BY <2>2, <2>3, AskKeeps
  <1>7. ASSUME NEW s \in Sessions \cup {NoSession}, DeleteSessions(i, s)
        PROVE  WebInv'
    <2>1. /\ DeleteTask(s) \in TaskSet /\ TaskPlaced(DeleteTask(s)) /\ ~ Showing(DeleteTask(s))
          /\ DeleteTask(s).at # "submit"
      BY TasksAre DEF Showing, Some
    <2>2. Click(i) /\ Becomes([view EXCEPT !.loading = view.loading], Starts(i, DeleteTask(s)))
          /\ UNCHANGED moved
      BY <1>7 DEF DeleteSessions, DeleteTask
    <2>. QED  BY <2>1, <2>2, AskKeeps
  <1>. QED  BY <1>1, <1>2, <1>3, <1>4, <1>5, <1>6, <1>7, ContainerKeeps DEF Clicks

-----------------------------------------------------------------------------
(* What is answered.                                                       *)

(* A request ends.  A prompt that ends leaves nothing running.             *)
LEMMA EndKeeps ==
    ASSUME WebInv, NEW i \in Tasks, NEW v \in Views, Becomes(v, Done(i)),
           list' \in [Sessions -> Statuses], UNCHANGED moved,
           task[i].kind = "submit" => v.run = NoSession,
           v.run \in {view.run, NoSession},
           AllOfSelected(view, task) =>
              /\ v.selected = view.selected
              /\ v.shown \subseteq {view.selected}
              /\ v.selected = NoSession => v.busyWith = NoSession /\ v.aborting = NoSession
    PROVE  WebInv'
  <1>. DEFINE t == Done(i)
  <1>1. /\ t \in [Tasks -> TaskSet] /\ Placed(t)
        /\ t[i] = Idle /\ \A j \in Tasks : j # i => t[j] = task[j]
    BY DoneIs DEF WebInv
  <1>2. BecomesWithList(v, t, list) /\ moved' \in BOOLEAN
    BY DEF Becomes, WebInv, WebTypes
  <1>3. Idle.kind = "none" /\ Idle.at = "free"
    BY IdleIs
  <1>. HIDE DEF t
  <1>4. RunHasPrompt(v, t)
    BY <1>1, ClientsAssumption DEF WebInv, RunHasPrompt
  <1>5. AllOfSelected(view, task) => AllOfSelected(v, t)
    BY <1>1, <1>3 DEF AllOfSelected, Showing
  <1>. QED  BY <1>1, <1>2, <1>4, <1>5, BecomesKeeps DEF WebInv

LEMMA OpenAnswersKeeps ==
    ASSUME WebInv, NEW i \in Tasks, OpenSessionAnswers(i)
    PROVE  WebInv'
  <1>. DEFINE s == task[i].s
              b == IF server[s] = "processing" THEN s ELSE NoSession
              v == [view EXCEPT !.selected = s, !.shown = {s}, !.cursor = TRUE, !.loading = FALSE,
                                !.busyWith = b]
              t == Done(i)
  <1>1. task[i].kind = "open" /\ view \in Views /\ list' \in [Sessions -> Statuses]
        /\ s \in Sessions
    BY DEF OpenSessionAnswers, WebInv, WebTypes, Placed, TaskPlaced
  <1>2. b \in Some
    BY <1>1 DEF Some
  <1>3. BecomesWithList(v, t, list) /\ moved' = OthersUnderWay(task, i)
    BY DEF OpenSessionAnswers, Becomes
  <1>. HIDE DEF b
  <1>4. v \in Views /\ v.selected = s /\ v.shown = {s} /\ v.run = view.run
    <2>1. s \in Some /\ {s} \in SUBSET Sessions
      BY <1>1 DEF Some
    <2>. QED  BY <1>1, <1>2, <2>1 DEF Views
  <1>5. /\ t \in [Tasks -> TaskSet] /\ Placed(t)
        /\ t[i] = Idle /\ \A j \in Tasks : j # i => t[j] = task[j]
    BY DoneIs DEF WebInv
  <1>. HIDE DEF v, t
  <1>6. RunHasPrompt(v, t)
    BY <1>1, <1>4, <1>5 DEF WebInv, RunHasPrompt
  <1>7. ASSUME ~ moved'
        PROVE  AllOfSelected(v, t)
    <2>1. \A j \in Tasks : t[j].kind \in {"none", "open"} /\ t[j].at # "submit"
      BY <1>3, <1>5, <1>7, IdleIs DEF OthersUnderWay, Placed, TaskPlaced
    <2>2. v.run = NoSession
      BY <1>4, <1>6, <2>1 DEF RunHasPrompt, Views, Some
    <2>. QED  BY <1>1, <1>4, <2>1, <2>2, ClientsAssumption DEF AllOfSelected, Showing
  <1>8. moved' \in BOOLEAN
    BY <1>3 DEF OthersUnderWay
  <1>. QED  BY <1>1, <1>3, <1>4, <1>5, <1>6, <1>7, <1>8, BecomesKeeps

LEMMA OlderArriveKeeps ==
    ASSUME WebInv, NEW i \in Tasks, OlderMessagesArrive(i)
    PROVE  WebInv'
  <1>. DEFINE v == [view EXCEPT !.shown = @ \cup {task[i].s}, !.loading = FALSE]
  <1>1. /\ task[i].kind = "older" /\ view \in Views /\ list' \in [Sessions -> Statuses]
        /\ task[i].s \in Sessions /\ UNCHANGED moved /\ Becomes(v, Done(i))
    BY DEF OlderMessagesArrive, WebInv, WebTypes, Placed, TaskPlaced, Showing
  <1>2. v \in Views /\ v.selected = view.selected /\ v.shown = view.shown \cup {task[i].s}
        /\ v.run = view.run /\ v.busyWith = view.busyWith /\ v.aborting = view.aborting
    BY <1>1 DEF Views
  <1>. HIDE DEF v
  <1>3. AllOfSelected(view, task) => task[i].s = view.selected
    BY <1>1 DEF AllOfSelected, Showing
  <1>. QED  BY <1>1, <1>2, <1>3, EndKeeps DEF AllOfSelected

(* A prompt is taken: a first one selects the session it has made.         *)
LEMMA PromptTakenKeeps ==
    ASSUME WebInv, NEW i \in Tasks, task[i].at = "submit",
           NEW s \in Sessions, task[i].from \in {NoSession, s},
           Becomes([view EXCEPT !.selected = s, !.run = s, !.shown = @ \cup {s}],
                   [task EXCEPT ![i].at = "stream", ![i].s = s]),
           moved' = (moved \/ view.selected # task[i].from),
           list' \in [Sessions -> Statuses]
    PROVE  WebInv'
  <1>. DEFINE v == [view EXCEPT !.selected = s, !.run = s, !.shown = @ \cup {s}]
              t == [task EXCEPT ![i].at = "stream", ![i].s = s]
  <1>1. /\ task[i].kind = "submit" /\ view \in Views /\ task \in [Tasks -> TaskSet]
        /\ Placed(task) /\ moved \in BOOLEAN
    BY DEF WebInv, WebTypes, Placed, TaskPlaced
  <1>2. v \in Views /\ v.selected = s /\ v.run = s /\ v.shown = view.shown \cup {s}
    BY <1>1 DEF Views, Some
  <1>3. /\ t \in [Tasks -> TaskSet] /\ \A j \in Tasks : j # i => t[j] = task[j]
        /\ t[i].kind = "submit" /\ t[i].at = "stream" /\ t[i].s = s
    BY <1>1 DEF TaskSet, TaskPlaces, Some
  <1>4. BecomesWithList(v, t, list)
    BY DEF Becomes
  <1>. HIDE DEF v, t
  <1>5. Placed(t)
    BY <1>1, <1>3 DEF Placed, TaskPlaced, Showing
  <1>6. RunHasPrompt(v, t)
    BY <1>3 DEF RunHasPrompt
  <1>7. ASSUME ~ moved'
        PROVE  AllOfSelected(v, t)
    <2>1. AllOfSelected(view, task) /\ view.selected = task[i].from
      BY <1>7 DEF WebInv
    <2>2. view.selected \in {NoSession, s}
      BY <2>1
    <2>3. v.shown \subseteq {s}
      BY <1>1, <1>2, <2>1, <2>2, ClientsAssumption DEF AllOfSelected, Views
    <2>4. \A j \in Tasks : /\ Showing(t[j]) => t[j].s = s
                           /\ t[j].at = "submit" /\ t[j].from \in Sessions => t[j].from = s
      <3>. TAKE j \in Tasks
      <3>1. CASE j = i
        BY <1>3, <3>1
      <3>2. CASE j # i
        BY <1>1, <1>3, <2>1, <2>2, <3>2, ClientsAssumption DEF AllOfSelected, Placed, TaskPlaced
      <3>. QED  BY <3>1, <3>2
    <2>. QED  BY <1>2, <2>3, <2>4, ClientsAssumption DEF AllOfSelected
  <1>. QED  BY <1>1, <1>2, <1>3, <1>4, <1>5, <1>6, <1>7, BecomesKeeps

LEMMA SubmitAnsweredKeeps ==
    ASSUME WebInv, ServerTypes, NEW i \in Tasks, SubmitChatAnswers(i)
    PROVE  WebInv'
  <1>. DEFINE from == task[i].from
  <1>1. /\ task[i].at = "submit" /\ task[i].kind = "submit" /\ view \in Views
        /\ list' \in [Sessions -> Statuses] /\ from \in Some
    BY DEF SubmitChatAnswers, At, WebInv, WebTypes, Placed, TaskPlaced, TaskSet
  <1>2. PICK s \in IF from = NoSession THEN Unmade ELSE {from} :
           IF TakesPrompt(s) \/ server[s] = "deleted"
             THEN /\ server' = [server EXCEPT ![s] = "processing"]
                  /\ Becomes([view EXCEPT !.selected = s, !.run = s, !.shown = @ \cup {s}],
                             [task EXCEPT ![i].at = "stream", ![i].s = s])
                  /\ moved' = (moved \/ view.selected # from)
             ELSE /\ Becomes([view EXCEPT !.running = FALSE, !.runs = NoTask, !.run = NoSession,
                                !.busyWith = IF server[s] = "processing" THEN s ELSE @], Done(i))
                  /\ UNCHANGED <<server, moved>>
    BY DEF SubmitChatAnswers
  <1>3. s \in Sessions /\ from \in {NoSession, s}
    BY <1>1, <1>2 DEF Unmade, Some
  <1>4. CASE TakesPrompt(s) \/ server[s] = "deleted"
    BY <1>1, <1>2, <1>3, <1>4, PromptTakenKeeps
  <1>5. CASE ~ (TakesPrompt(s) \/ server[s] = "deleted")
    <2>. DEFINE b == IF server[s] = "processing" THEN s ELSE view.busyWith
                v == [view EXCEPT !.running = FALSE, !.runs = NoTask, !.run = NoSession, !.busyWith = b]
    <2>1. Becomes(v, Done(i)) /\ UNCHANGED moved
      BY <1>1, <1>2, <1>5 DEF Views
    <2>2. b \in Some /\ NoTask \in Maybe /\ NoSession \in Some
      BY <1>1, <1>3 DEF Some, Views, Maybe
    <2>3. from = s
      BY <1>2, <1>3, <1>5 DEF Unmade, TakesPrompt
    <2>. HIDE DEF b
    <2>4. /\ v \in Views /\ v.selected = view.selected /\ v.shown = view.shown /\ v.run = NoSession
          /\ v.busyWith = b /\ v.aborting = view.aborting
      BY <1>1, <2>2 DEF Views
    <2>. HIDE DEF v
    <2>5. AllOfSelected(view, task) => view.selected = s
      BY <1>1, <1>3, <2>3 DEF AllOfSelected
    <2>. QED  BY <1>1, <1>3, <2>1, <2>4, <2>5, EndKeeps, ClientsAssumption DEF AllOfSelected
  <1>. QED  BY <1>4, <1>5

LEMMA KillAnsweredKeeps ==
    ASSUME WebInv, NEW i \in Tasks, KillSessionAnswers(i)
    PROVE  WebInv'
  <1>1. /\ task[i].kind = "kill" /\ view \in Views /\ UNCHANGED <<list, moved>>
        /\ list' \in [Sessions -> Statuses]
    BY DEF KillSessionAnswers, At, WebInv, WebTypes, Placed, TaskPlaced
  <1>2. /\ Done(i) \in [Tasks -> TaskSet] /\ Placed(Done(i)) /\ Done(i)[i].at = "free"
        /\ \A j \in Tasks : j # i => Done(i)[j] = task[j]
    BY DoneIs, IdleIs DEF WebInv
  <1>3. CASE Becomes(AbortedView(view), AbortedTasks(view, Done(i), i))
    BY <1>1, <1>2, <1>3, AbortKeeps
  <1>4. CASE Becomes(view, Done(i))
    BY <1>1, <1>4, EndKeeps DEF AllOfSelected
  <1>. QED  BY <1>3, <1>4 DEF KillSessionAnswers

(* The selected session is deleted: an abort of it is under way.           *)
LEMMA DeleteAnsweredKeeps ==
    ASSUME WebInv, NEW i \in Tasks, DeleteSessionAnswers(i)
    PROVE  WebInv'
  <1>. DEFINE w == AbortedView(view)
              v == [w EXCEPT !.selected = NoSession, !.shown = {},
                             !.cursor = FALSE, !.loading = FALSE]
              t == AbortedTasks(view, Done(i), i)
  <1>1. /\ task[i].kind = "delete" /\ view \in Views /\ UNCHANGED list
        /\ list' \in [Sessions -> Statuses]
    BY DEF DeleteSessionAnswers, At, WebInv, WebTypes, Placed, TaskPlaced
  <1>2. /\ Done(i) \in [Tasks -> TaskSet] /\ Placed(Done(i)) /\ Done(i)[i].at = "free"
        /\ \A j \in Tasks : j # i => Done(i)[j] = task[j]
    BY DoneIs, IdleIs DEF WebInv
  <1>3. CASE Becomes(v, t) /\ moved' = TRUE
    <2>1. w \in Views /\ w.run = view.run
      BY AbortedViewIs
    <2>2. /\ t \in [Tasks -> TaskSet] /\ Placed(t)
          /\ \A j \in Tasks : j # i => t[j].kind = Done(i)[j].kind
      BY <1>2, AbortedTasksAre
    <2>3. BecomesWithList(v, t, list)
      BY <1>3 DEF Becomes
    <2>. HIDE DEF w, t
    <2>4. v \in Views /\ v.run = view.run
      <3>1. NoSession \in Some
        BY DEF Some
      <3>. QED  BY <2>1, <3>1 DEF Views
    <2>. HIDE DEF v
    <2>5. RunHasPrompt(v, t)
      BY <1>1, <1>2, <2>2, <2>4 DEF WebInv, RunHasPrompt
    <2>. QED  BY <1>1, <1>3, <2>2, <2>3, <2>4, <2>5, BecomesKeeps
  <1>4. CASE Becomes(view, Done(i)) /\ UNCHANGED moved
    BY <1>1, <1>4, EndKeeps DEF AllOfSelected
  <1>. QED  BY <1>3, <1>4 DEF DeleteSessionAnswers

(* All sessions are deleted: none is selected, and the messages stay.      *)
LEMMA DeleteAllKeeps ==
    ASSUME WebInv, NEW i \in Tasks, DeleteAllAnswers(i)
    PROVE  WebInv'
  <1>. DEFINE v == [view EXCEPT !.selected = NoSession, !.cursor = FALSE, !.loading = FALSE]
  <1>1. /\ task[i].kind = "delete" /\ view \in Views /\ UNCHANGED list
        /\ list' \in [Sessions -> Statuses] /\ moved \in BOOLEAN /\ view.selected \in Some
        /\ Becomes(v, Done(i)) /\ moved' = (moved \/ view.selected \in Sessions)
    BY DEF DeleteAllAnswers, At, WebInv, WebTypes, Placed, TaskPlaced, Views
  <1>2. /\ v \in Views /\ v.selected = NoSession /\ v.shown = view.shown /\ v.run = view.run
        /\ v.busyWith = view.busyWith /\ v.aborting = view.aborting
    <2>1. NoSession \in Some
      BY DEF Some
    <2>. QED  BY <1>1, <2>1 DEF Views
  <1>. HIDE DEF v
  <1>3. CASE view.selected \in Sessions
    <2>1. /\ Done(i) \in [Tasks -> TaskSet] /\ Placed(Done(i))
          /\ \A j \in Tasks : j # i => Done(i)[j] = task[j]
      BY DoneIs DEF WebInv
    <2>2. BecomesWithList(v, Done(i), list)
      BY <1>1 DEF Becomes
    <2>3. RunHasPrompt(v, Done(i))
      BY <1>1, <1>2, <2>1 DEF WebInv, RunHasPrompt
    <2>. QED  BY <1>1, <1>2, <1>3, <2>1, <2>2, <2>3, BecomesKeeps
  <1>4. CASE view.selected \notin Sessions
    <2>1. view.selected = NoSession /\ UNCHANGED moved
      BY <1>1, <1>4 DEF Some
    <2>. QED  BY <1>1, <1>2, <2>1, EndKeeps DEF AllOfSelected
  <1>. QED  BY <1>3, <1>4

(* A request goes on to its next place.                                    *)
LEMMA OnwardIs ==
    ASSUME WebTypes, NEW i \in Tasks, NEW at \in TaskPlaces, NEW a \in BOOLEAN,
           NEW t, t = [task EXCEPT ![i].at = at, ![i].active = a]
    PROVE  /\ t \in [Tasks -> TaskSet] /\ \A j \in Tasks : j # i => t[j] = task[j]
           /\ t[i].kind = task[i].kind /\ t[i].s = task[i].s /\ t[i].from = task[i].from
           /\ t[i].at = at
  BY DEF WebTypes, TaskSet

LEMMA AbortAnsweredKeeps ==
    ASSUME WebInv, NEW i \in Tasks, AbortSessionAnswers(i)
    PROVE  WebInv'
  <1>1. /\ task[i].kind = "abort" /\ task[i].s \in Sessions /\ UNCHANGED <<list, view, moved>>
        /\ task[i].active \in BOOLEAN /\ task \in [Tasks -> TaskSet] /\ WebTypes
    BY DEF AbortSessionAnswers, At, WebInv, WebTypes, Placed, TaskPlaced, Showing, TaskSet
  <1>2. task' = [task EXCEPT ![i].at = "final", ![i].active = task[i].active]
    BY <1>1 DEF AbortSessionAnswers, TaskSet
  <1>3. /\ task' \in [Tasks -> TaskSet] /\ \A j \in Tasks : j # i => task'[j] = task[j]
        /\ task'[i].kind = "abort" /\ task'[i].s = task[i].s /\ task'[i].at = "final"
    BY <1>1, <1>2 DEF TaskSet, TaskPlaces
  <1>4. Placed(task')
    BY <1>1, <1>3 DEF WebTypes, Placed, TaskPlaced, Showing
  <1>5. WebTypes'
    BY <1>1, <1>3, <1>4 DEF WebTypes, Placed
  <1>6. RunHasPrompt(view', task')
    BY <1>1, <1>3 DEF WebInv, RunHasPrompt
  <1>7. AllOfSelected(view, task) => AllOfSelected(view', task')
    BY <1>1, <1>3 DEF AllOfSelected, Showing
  <1>. QED  BY <1>1, <1>5, <1>6, <1>7 DEF WebInv

(* A stream shows its session and goes on.                                 *)
LEMMA OnwardKeeps ==
    ASSUME WebInv, NEW i \in Tasks, Showing(task[i]), task[i].at # "submit",
           NEW at \in TaskPlaces, NEW a \in BOOLEAN,
           at \in {"stream", "final"}, task[i].kind \in {"submit", "follow"},
           NEW shown \in SUBSET Sessions, shown \subseteq view.shown \cup {task[i].s},
           NEW b \in {view.busyWith, task[i].s},
           Becomes([view EXCEPT !.shown = shown, !.cursor = TRUE, !.busyWith = b],
                   [task EXCEPT ![i].at = at, ![i].active = a]),
           UNCHANGED <<list, moved>>
    PROVE  WebInv'
  <1>. DEFINE v == [view EXCEPT !.shown = shown, !.cursor = TRUE, !.busyWith = b]
              t == [task EXCEPT ![i].at = at, ![i].active = a]
  <1>1. /\ view \in Views /\ task[i].s \in Sessions /\ Placed(task) /\ WebTypes
        /\ list' \in [Sessions -> Statuses] /\ moved' \in BOOLEAN
    BY DEF WebInv, WebTypes, Placed, TaskPlaced
  <1>2. b \in Some
    BY <1>1 DEF Views, Some
  <1>3. v \in Views /\ v.selected = view.selected /\ v.shown = shown
        /\ v.run = view.run /\ v.busyWith = b /\ v.aborting = view.aborting
    BY <1>1, <1>2 DEF Views
  <1>4. /\ t \in [Tasks -> TaskSet] /\ \A j \in Tasks : j # i => t[j] = task[j]
        /\ t[i].kind = task[i].kind /\ t[i].s = task[i].s /\ t[i].from = task[i].from
        /\ t[i].at = at
    BY <1>1, OnwardIs
  <1>5. BecomesWithList(v, t, list)
    BY DEF Becomes
  <1>. HIDE DEF v, t
  <1>6. Placed(t)
    BY <1>1, <1>4 DEF Placed, TaskPlaced, Showing
  <1>7. RunHasPrompt(v, t)
    BY <1>3, <1>4 DEF WebInv, RunHasPrompt
  <1>8. AllOfSelected(view, task) => AllOfSelected(v, t)
    BY <1>1, <1>3, <1>4, ClientsAssumption DEF AllOfSelected
  <1>. QED  BY <1>1, <1>3, <1>4, <1>5, <1>6, <1>7, <1>8, BecomesKeeps DEF WebInv

LEMMA StreamUpdateKeeps ==
    ASSUME WebInv, NEW i \in Tasks, StreamUpdate(i)
    PROVE  WebInv'
  <1>. DEFINE at == IF IsStreamComplete(i) THEN "final" ELSE "stream"
  <1>1. /\ task[i].at = "stream" /\ task[i].kind \in {"submit", "follow"} /\ task[i].s \in Sessions
        /\ view \in Views /\ UNCHANGED <<list, moved>> /\ task \in [Tasks -> TaskSet]
    BY DEF StreamUpdate, At, WebInv, WebTypes, Placed, TaskPlaced, Showing
  <1>2. at \in TaskPlaces /\ at \in {"stream", "final"}
    BY DEF TaskPlaces
  <1>3. Shows(i) \in SUBSET Sessions /\ Shows(i) \subseteq view.shown \cup {task[i].s}
    BY <1>1 DEF Shows, Views
  <1>4. [view EXCEPT !.shown = Shows(i), !.cursor = TRUE]
          = [view EXCEPT !.shown = Shows(i), !.cursor = TRUE, !.busyWith = view.busyWith]
    BY <1>1 DEF Views
  <1>5. [task EXCEPT ![i].active = TRUE, ![i].at = IF IsStreamComplete(i) THEN "final" ELSE @]
          = [task EXCEPT ![i].at = at, ![i].active = TRUE]
    BY <1>1 DEF TaskSet
  <1>6. Becomes([view EXCEPT !.shown = Shows(i), !.cursor = TRUE, !.busyWith = view.busyWith],
                [task EXCEPT ![i].at = at, ![i].active = TRUE])
    BY <1>4, <1>5 DEF StreamUpdate
  <1>. HIDE DEF at
  <1>7. Showing(task[i])
    BY <1>1 DEF Showing
  <1>. QED  BY <1>1, <1>2, <1>3, <1>6, <1>7, OnwardKeeps

LEMMA EndedIs ==
    ASSUME NEW i \in Tasks, NEW v \in Views
    PROVE  /\ Ended(i, v) \in Views
           /\ Ended(i, v).selected = v.selected /\ Ended(i, v).shown = v.shown
           /\ Ended(i, v).busyWith = v.busyWith /\ Ended(i, v).aborting = v.aborting
           /\ Ended(i, v).run = IF task[i].kind = "submit" THEN NoSession ELSE v.run
  <1>. DEFINE f == IF v.follows = task[i].s THEN NoSession ELSE v.follows
              g == IF v.followed = i THEN NoTask ELSE v.followed
              w == [v EXCEPT !.running = FALSE, !.runs = NoTask, !.run = NoSession]
              u == [v EXCEPT !.follows = f, !.followed = g]
  <1>1. Ended(i, v) = IF task[i].kind = "submit" THEN w ELSE u
    BY DEF Ended, Views
  <1>2. f \in Some /\ g \in Maybe /\ NoSession \in Some /\ NoTask \in Maybe
    BY DEF Views, Some, Maybe
  <1>. HIDE DEF f, g
  <1>3. /\ w \in Views /\ w.selected = v.selected /\ w.shown = v.shown
        /\ w.busyWith = v.busyWith /\ w.aborting = v.aborting /\ w.run = NoSession
    BY <1>2 DEF Views
  <1>4. /\ u \in Views /\ u.selected = v.selected /\ u.shown = v.shown
        /\ u.busyWith = v.busyWith /\ u.aborting = v.aborting /\ u.run = v.run
    BY <1>2 DEF Views
  <1>. HIDE DEF w, u
  <1>. QED  BY <1>1, <1>3, <1>4

LEMMA InterruptedIs ==
    ASSUME NEW i \in Tasks, view \in Views
    PROVE  /\ Interrupted(i) \in Views
           /\ Interrupted(i).selected = view.selected /\ Interrupted(i).shown = view.shown
           /\ Interrupted(i).run = view.run /\ Interrupted(i).aborting = view.aborting
           /\ Interrupted(i).busyWith \in {view.busyWith, view.aborting}
  BY DEF Interrupted, Views

(* A stream ends before its time, with or without an error.                *)
LEMMA StreamEndsKeeps ==
    ASSUME WebInv, NEW i \in Tasks, Becomes(Ended(i, Interrupted(i)), Done(i)),
           UNCHANGED <<list, moved>>
    PROVE  WebInv'
  <1>. DEFINE v == Ended(i, Interrupted(i))
  <1>1. view \in Views /\ list' \in [Sessions -> Statuses]
    BY DEF WebInv, WebTypes
  <1>2. /\ Interrupted(i) \in Views
        /\ Interrupted(i).selected = view.selected /\ Interrupted(i).shown = view.shown
        /\ Interrupted(i).run = view.run /\ Interrupted(i).aborting = view.aborting
        /\ Interrupted(i).busyWith \in {view.busyWith, view.aborting}
    BY <1>1, InterruptedIs
  <1>3. /\ v \in Views /\ v.selected = view.selected /\ v.shown = view.shown
        /\ v.busyWith \in {view.busyWith, view.aborting} /\ v.aborting = view.aborting
        /\ v.run = IF task[i].kind = "submit" THEN NoSession ELSE view.run
    BY <1>2, EndedIs
  <1>. Becomes(v, Done(i))
    OBVIOUS
  <1>. HIDE DEF v
  <1>4. AllOfSelected(view, task) =>
           /\ v.selected = view.selected /\ v.shown \subseteq {view.selected}
           /\ v.selected = NoSession => v.busyWith = NoSession /\ v.aborting = NoSession
    BY <1>3 DEF AllOfSelected
  <1>5. v.run \in {view.run, NoSession} /\ (task[i].kind = "submit" => v.run = NoSession)
    BY <1>3
  <1>. QED  BY <1>1, <1>3, <1>4, <1>5, EndKeeps

LEMMA InitialArrivesKeeps ==
    ASSUME WebInv, NEW i \in Tasks, InitialSessionArrives(i)
    PROVE  WebInv'
  <1>. DEFINE s == task[i].s
  <1>1. /\ task[i].at = "initial" /\ task[i].kind = "follow" /\ s \in Sessions /\ Showing(task[i])
        /\ view \in Views /\ UNCHANGED <<list, moved>> /\ task \in [Tasks -> TaskSet]
        /\ list' \in [Sessions -> Statuses]
    BY DEF InitialSessionArrives, At, WebInv, WebTypes, Placed, TaskPlaced, Showing
  <1>2. AllOfSelected(view, task) => view.selected = s
    BY <1>1 DEF AllOfSelected
  <1>3. CASE Becomes(view, Done(i))
    BY <1>1, <1>3, EndKeeps DEF AllOfSelected
  <1>4. CASE Becomes([view EXCEPT !.shown = {s}, !.cursor = TRUE, !.busyWith = s],
                     [task EXCEPT ![i].at = "stream"])
    <2>1. [task EXCEPT ![i].at = "stream"]
            = [task EXCEPT ![i].at = "stream", ![i].active = task[i].active]
      BY <1>1 DEF TaskSet
    <2>2. Becomes([view EXCEPT !.shown = {s}, !.cursor = TRUE, !.busyWith = s],
                  [task EXCEPT ![i].at = "stream", ![i].active = task[i].active])
      BY <1>4, <2>1
    <2>3. task[i].active \in BOOLEAN /\ "stream" \in TaskPlaces /\ {s} \in SUBSET Sessions
      BY <1>1 DEF TaskSet, TaskPlaces
    <2>. QED  BY <1>1, <2>2, <2>3, OnwardKeeps
  <1>5. CASE Becomes([view EXCEPT !.shown = {s}, !.cursor = TRUE, !.busyWith = NoSession,
                        !.follows  = IF @ = s THEN NoSession ELSE @,
                        !.followed = IF @ = i THEN NoTask ELSE @], Done(i))
    <2>. DEFINE f == IF view.follows = s THEN NoSession ELSE view.follows
                g == IF view.followed = i THEN NoTask ELSE view.followed
                v == [view EXCEPT !.shown = {s}, !.cursor = TRUE, !.busyWith = NoSession,
                                  !.follows = f, !.followed = g]
    <2>1. Becomes(v, Done(i))
      BY <1>1, <1>5 DEF Views
    <2>2. f \in Some /\ g \in Maybe /\ NoSession \in Some /\ {s} \in SUBSET Sessions
      BY <1>1 DEF Views, Some, Maybe
    <2>. HIDE DEF f, g
    <2>3. v \in Views /\ v.selected = view.selected /\ v.shown = {s} /\ v.run = view.run
          /\ v.busyWith = NoSession /\ v.aborting = view.aborting
      BY <1>1, <2>2 DEF Views
    <2>. HIDE DEF v
    <2>. QED  BY <1>1, <1>2, <2>1, <2>3, EndKeeps DEF AllOfSelected
  <1>. QED  BY <1>3, <1>4, <1>5 DEF InitialSessionArrives

LEMMA FinalArrivesKeeps ==
    ASSUME WebInv, NEW i \in Tasks, FinalSessionArrives(i)
    PROVE  WebInv'
  <1>. DEFINE s == task[i].s
              a == IF view.aborting = s /\ (task[i].kind = "abort" \/ task[i].stopping)
                     THEN NoSession ELSE view.aborting
              z == IF task[i].kind = "abort" \/ task[i].stopping THEN NoSession ELSE view.stopping
              v == [view EXCEPT !.shown = Shows(i), !.cursor = TRUE, !.busyWith = NoSession,
                                !.aborting = a, !.stopping = z]
  <1>1. /\ task[i].at = "final" /\ task[i].kind \in {"submit", "follow", "abort"} /\ s \in Sessions
        /\ view \in Views /\ UNCHANGED <<list, moved>> /\ list' \in [Sessions -> Statuses]
    BY DEF FinalSessionArrives, At, WebInv, WebTypes, Placed, TaskPlaced, Showing
  <1>2. Becomes(IF task[i].kind = "abort" THEN v ELSE Ended(i, v), Done(i))
    BY <1>1 DEF FinalSessionArrives, Views
  <1>3. a \in Some /\ z \in Some /\ a \in {view.aborting, NoSession} /\ NoSession \in Some
    BY <1>1 DEF Views, Some
  <1>4. Shows(i) \in SUBSET Sessions /\ Shows(i) \subseteq view.shown \cup {s}
    BY <1>1 DEF Shows, Views
  <1>. HIDE DEF a, z
  <1>5. v \in Views /\ v.selected = view.selected /\ v.shown = Shows(i) /\ v.run = view.run
        /\ v.busyWith = NoSession /\ v.aborting = a
    BY <1>1, <1>3, <1>4 DEF Views
  <1>. HIDE DEF v
  <1>6. AllOfSelected(view, task) => view.selected = s
    BY <1>1 DEF AllOfSelected, Showing
  <1>7. CASE task[i].kind = "abort"
    BY <1>1, <1>2, <1>3, <1>4, <1>5, <1>6, <1>7, EndKeeps DEF AllOfSelected
  <1>8. CASE task[i].kind # "abort"
    <2>. DEFINE w == Ended(i, v)
    <2>1. /\ w \in Views /\ w.selected = v.selected /\ w.shown = v.shown
          /\ w.busyWith = v.busyWith /\ w.aborting = v.aborting
          /\ w.run = IF task[i].kind = "submit" THEN NoSession ELSE v.run
      BY <1>5, EndedIs
    <2>2. Becomes(w, Done(i))
      BY <1>2, <1>8
    <2>. HIDE DEF w
    <2>. QED  BY <1>1, <1>3, <1>4, <1>5, <1>6, <2>1, <2>2, EndKeeps DEF AllOfSelected
  <1>. QED  BY <1>7, <1>8

(* A request of another kind than a prompt or the following ends without   *)
(* an answer.                                                              *)
LEMMA WithoutAnswerKeeps ==
    ASSUME WebInv, NEW i \in Tasks, task[i].kind # "submit",
           Becomes(WithoutAnswer(i), Done(i)), UNCHANGED <<list, moved>>
    PROVE  WebInv'
  <1>. DEFINE b == IF task[i].kind = "older" THEN FALSE ELSE view.loading
              v == [view EXCEPT !.loading = b]
  <1>1. view \in Views /\ list' \in [Sessions -> Statuses]
    BY DEF WebInv, WebTypes
  <1>2. Becomes(v, Done(i)) /\ b \in BOOLEAN
    BY <1>1 DEF WithoutAnswer, Views
  <1>. HIDE DEF b
  <1>3. v \in Views /\ v.selected = view.selected /\ v.shown = view.shown /\ v.run = view.run
        /\ v.busyWith = view.busyWith /\ v.aborting = view.aborting
    BY <1>1, <1>2 DEF Views
  <1>. HIDE DEF v
  <1>. QED  BY <1>1, <1>2, <1>3, EndKeeps DEF AllOfSelected

LEMMA AnswerLostKeeps ==
    ASSUME WebInv, NEW i \in Tasks, AnswerLost(i)
    PROVE  WebInv'
  <1>1. task[i].kind # "submit"
    BY DEF AnswerLost, At, WebInv, WebTypes, Placed, TaskPlaced
  <1>2. Becomes(WithoutAnswer(i), Done(i)) /\ UNCHANGED <<list, moved>>
    BY DEF AnswerLost
  <1>. QED  BY <1>1, <1>2, WithoutAnswerKeeps

LEMMA RefusedKeeps ==
    ASSUME WebInv, NEW i \in Tasks, Refused(i)
    PROVE  WebInv'
  <1>1. UNCHANGED <<list, moved>>
    BY DEF Refused
  <1>2. CASE task[i].kind \in {"submit", "follow"}
    BY <1>1, <1>2, StreamEndsKeeps DEF Refused
  <1>3. CASE task[i].kind \notin {"submit", "follow"}
    BY <1>1, <1>3, WithoutAnswerKeeps DEF Refused
  <1>. QED  BY <1>2, <1>3

LEMMA RefetchKeeps ==
    ASSUME WebInv, ServerTypes, Refetch
    PROVE  WebInv'
  <1>1. /\ view \in Views /\ task \in [Tasks -> TaskSet] /\ Placed(task)
        /\ BecomesWithList(view, task, server) /\ list' \in [Sessions -> Statuses]
        /\ moved' \in BOOLEAN /\ UNCHANGED moved
    BY DEF Refetch, WebInv, WebTypes, ServerTypes
  <1>. QED  BY <1>1, BecomesKeeps DEF WebInv

LEMMA WebStep ==
    ASSUME WebInv, ServerTypes, WebNext
    PROVE  WebInv'
  <1>1. CASE Refetch
    BY <1>1, RefetchKeeps
  <1>2. ASSUME NEW i \in Tasks, Answers(i)
        PROVE  WebInv'
    <2>1. ASSUME AbortedStreamEnds(i)
          PROVE  WebInv'
      BY <2>1, StreamEndsKeeps DEF AbortedStreamEnds
    <2>. QED
      BY <1>2, <2>1, OpenAnswersKeeps, OlderArriveKeeps, SubmitAnsweredKeeps, KillAnsweredKeeps,
         DeleteAnsweredKeeps, DeleteAllKeeps, RefusedKeeps, AbortAnsweredKeeps, InitialArrivesKeeps, StreamUpdateKeeps, FinalArrivesKeeps DEF Answers
  <1>3. ASSUME NEW i \in Tasks, StreamFails(i)
        PROVE  WebInv'
    BY <1>3, StreamEndsKeeps DEF StreamFails
  <1>. QED  BY <1>1, <1>2, <1>3, ClicksKeep, AnswerLostKeeps DEF WebNext

LEMMA WebStays ==
    ASSUME WebInv, UNCHANGED webVars
    PROVE  WebInv'
  <1>1. UNCHANGED <<list, view, task, moved>>
    BY DEF webVars
  <1>2. WebTypes'
    BY <1>1 DEF WebInv, WebTypes, Placed
  <1>3. RunHasPrompt(view', task') /\ (moved' \/ AllOfSelected(view', task'))
    BY <1>1 DEF WebInv
  <1>. QED  BY <1>2, <1>3 DEF WebInv

LEMMA WebStarts ==
    ASSUME Init, ServerTypes
    PROVE  WebInv
  <1>. DEFINE idle == [i \in Tasks |-> Idle]
  <1>1. idle \in [Tasks -> TaskSet] /\ Placed(idle) /\ \A i \in Tasks : idle[i].kind = "none"
    BY IdleIs DEF Placed
  <1>2. list = server /\ moved = FALSE
    BY DEF Init, WebInit
  <1>3. /\ NewView \in Views /\ NewView.selected = NoSession /\ NewView.shown = {}
        /\ NewView.run = NoSession /\ NewView.busyWith = NoSession /\ NewView.aborting = NoSession
    BY DEF NewView, Views, Some, Maybe
  <1>4. CASE client = "terminal"
    <2>1. view = NewView /\ task = idle
      BY <1>4 DEF Init
    <2>. HIDE DEF idle
    <2>2. WebTypes
      BY <1>1, <1>2, <1>3, <2>1 DEF WebTypes, ServerTypes
    <2>3. RunHasPrompt(view, task)
      BY <1>3, <2>1, ClientsAssumption DEF RunHasPrompt
    <2>4. AllOfSelected(view, task)
      BY <1>1, <1>3, <2>1 DEF AllOfSelected, Showing, Placed, TaskPlaced
    <2>. QED  BY <2>2, <2>3, <2>4 DEF WebInv
  <1>5. CASE client = "web"
    <2>1. PICK s \in {x \in Sessions : server[x] # "none"} \cup {NoSession} :
             LET r == Rendered(IF s = NoSession THEN NewView
                                 ELSE [NewView EXCEPT !.selected = s, !.shown = {s}, !.cursor = TRUE],
                               [i \in Tasks |-> Idle], server)
             IN  view = r.view /\ task = r.task
      BY <1>5 DEF Init, WebInit
    <2>. DEFINE v == IF s = NoSession THEN NewView
                       ELSE [NewView EXCEPT !.selected = s, !.shown = {s}, !.cursor = TRUE]
    <2>2. view = Rendered(v, idle, server).view /\ task = Rendered(v, idle, server).task
      BY <2>1
    <2>3. /\ v \in Views /\ v.shown \subseteq {v.selected}
          /\ v.run = NoSession /\ v.busyWith = NoSession /\ v.aborting = NoSession
      BY <1>3 DEF Views, Some
    <2>. HIDE DEF v, idle
    <2>4. /\ view \in Views /\ SameView(v, view)
          /\ task \in [Tasks -> TaskSet] /\ Placed(task) /\ SameTasks(idle, task, v.selected)
      BY <1>1, <2>2, <2>3, RenderedIs
    <2>5. WebTypes
      BY <1>2, <2>4 DEF WebTypes, ServerTypes
    <2>6. RunHasPrompt(view, task)
      BY <2>3, <2>4, ClientsAssumption DEF RunHasPrompt, SameView
    <2>7. AllOfSelected(view, task)
      <3>1. \A i \in Tasks : /\ Showing(task[i]) => task[i].s = v.selected
                             /\ task[i].at # "submit"
        BY <1>1, <2>4 DEF SameTasks, SameTask, Showing, Placed, TaskPlaced
      <3>. QED  BY <2>3, <2>4, <3>1 DEF AllOfSelected, SameView
    <2>. QED  BY <2>5, <2>6, <2>7 DEF WebInv
  <1>. QED  BY <1>4, <1>5 DEF Init

-----------------------------------------------------------------------------
(* Both clients                                                            *)

ClientsInv == ServerTypes /\ TermInv /\ WebInv

ServerMoves ==
    /\ server' \in [Sessions -> Statuses] /\ clicks' \in Nat /\ mishaps' \in Nat

LEMMA TermMovesServer ==
    ASSUME ServerTypes, TermTypes, TermNext
    PROVE  ServerMoves
  <1>. PICK i \in Tasks : Commands(i) \/ Arrivals(i) \/ JobFails(i)
    BY DEF TermNext
  <1>. "processing" \in Statuses /\ "idle" \in Statuses /\ "deleted" \in Statuses
    BY DEF Statuses
  <1>1. CASE Commands(i)
    <2>1. Key(i)
      BY <1>1 DEF Commands, SendPrompt, AbortCurrentOperation, OpenInTerminal, OpenSelected,
         BeginOpenSelection, CancelSelection, Clear, NewOrFork, KillFromTerminal, DeleteFromTerminal,
         Enters, Enter
    <2>. QED  BY <2>1 DEF Key, ServerTypes, ServerMoves
  <1>2. CASE SubmitAnswers(i)
    BY <1>2 DEF SubmitAnswers, ServerTypes, ServerMoves
  <1>3. CASE NewAnswers(i)
    BY <1>3 DEF NewAnswers, Unmade, ServerTypes, ServerMoves
  <1>4. CASE KillAnswers(i)
    BY <1>4, StoppedTypes DEF KillAnswers, ServerTypes, ServerMoves
  <1>5. CASE DeleteAnswers(i)
    BY <1>5 DEF DeleteAnswers, ServerTypes, ServerMoves
  <1>6. CASE StopAnswers(i)
    BY <1>6, StoppedTypes DEF StopAnswers, ServerTypes, ServerMoves
  <1>7. CASE PollSession(i) \/ AbortedPollEnds(i) \/ OpenAnswers(i) \/ SelectorOpens(i)
    BY <1>7 DEF PollSession, AbortedPollEnds, OpenAnswers, SelectorOpens, ServerTypes, ServerMoves
  <1>8. CASE JobFails(i)
    BY <1>8 DEF JobFails, Mishap, ServerTypes, ServerMoves
  <1>. QED
    BY <1>1, <1>2, <1>3, <1>4, <1>5, <1>6, <1>7, <1>8 DEF Arrivals

LEMMA WebMovesServer ==
    ASSUME ServerTypes, WebTypes, WebNext
    PROVE  ServerMoves
  <1>. "processing" \in Statuses
    BY DEF Statuses
  <1>1. ASSUME NEW i \in Tasks, Clicks(i)
        PROVE  ServerMoves
    <2>1. Click(i)
      BY <1>1 DEF Clicks, OpenSession, OpenContainer, KillSession, DeleteSessions, StartDraftSession,
         SubmitPrompt, AbortRun, LoadPreviousMessages
    <2>. QED  BY <2>1 DEF Click, ServerTypes, ServerMoves
  <1>2. ASSUME NEW i \in Tasks, SubmitChatAnswers(i)
        PROVE  ServerMoves
    BY <1>2 DEF SubmitChatAnswers, ServerTypes, ServerMoves
  <1>3. ASSUME NEW i \in Tasks, TakesEffect(i)
        PROVE  server' \in [Sessions -> Statuses]
    <2>1. CASE Stopped(task[i].s, "closed") \/ Stopped(task[i].s, "idle")
      BY <2>1, StoppedTypes DEF ServerTypes
    <2>2. CASE Deleted(task[i].s)
      BY <2>2 DEF Deleted, ServerTypes, Statuses
    <2>. QED  BY <1>3, <2>1, <2>2 DEF TakesEffect
  <1>4. ASSUME NEW i \in Tasks,
               \/ KillSessionAnswers(i) \/ AbortSessionAnswers(i)
               \/ DeleteSessionAnswers(i) \/ DeleteAllAnswers(i)
        PROVE  ServerMoves
    BY <1>3, <1>4 DEF KillSessionAnswers, AbortSessionAnswers, DeleteSessionAnswers,
       DeleteAllAnswers, ServerTypes, ServerMoves
  <1>5. ASSUME NEW i \in Tasks,
               \/ OpenSessionAnswers(i) \/ OlderMessagesArrive(i) \/ InitialSessionArrives(i)
               \/ StreamUpdate(i) \/ AbortedStreamEnds(i) \/ FinalSessionArrives(i) \/ Refused(i)
        PROVE  ServerMoves
    BY <1>5 DEF Refused, OpenSessionAnswers, OlderMessagesArrive, InitialSessionArrives, StreamUpdate,
       AbortedStreamEnds, FinalSessionArrives, ServerTypes, ServerMoves
  <1>6. ASSUME NEW i \in Tasks, StreamFails(i) \/ AnswerLost(i)
        PROVE  ServerMoves
    BY <1>3, <1>6 DEF StreamFails, AnswerLost, Mishap, ServerTypes, ServerMoves
  <1>7. CASE Refetch
    BY <1>7 DEF Refetch, ServerTypes, ServerMoves
  <1>. QED
    BY <1>1, <1>2, <1>3, <1>4, <1>5, <1>6, <1>7 DEF WebNext, Answers

LEMMA ServerMovesItself ==
    ASSUME ServerTypes, ServerNext
    PROVE  ServerMoves
  BY DEF ServerNext, PromptEnds, OtherClientPrompts, Mishap, ServerTypes, ServerMoves, Statuses

(* What both clients note and have under way goes with what they show.     *)
THEOREM ClientsInductive ==
    Spec => []ClientsInv
  <1>1. Init => ClientsInv
    <2>. SUFFICES ASSUME Init PROVE ClientsInv
      OBVIOUS
    <2>1. ServerTypes
      BY DEF Init, ServerTypes, Statuses, Open
    <2>. QED  BY <2>1, TerminalStarts, WebStarts DEF ClientsInv
  <1>2. ClientsInv /\ [Next]_vars => ClientsInv'
    <2>. SUFFICES ASSUME ClientsInv, [Next]_vars PROVE ClientsInv'
      OBVIOUS
    <2>. USE DEF ClientsInv
    <2>1. ASSUME ServerMoves
          PROVE  ServerTypes'
      BY <2>1 DEF ServerMoves, ServerTypes
    <2>2. CASE WebNext /\ UNCHANGED termVars
      BY <2>1, <2>2, WebStep, WebMovesServer, TerminalStays DEF WebInv
    <2>3. CASE TermNext /\ UNCHANGED webVars
      BY <2>1, <2>3, TerminalStep, TermMovesServer, WebStays DEF TermInv
    <2>4. CASE ServerNext /\ UNCHANGED <<webVars, termVars>>
      BY <2>1, <2>4, ServerMovesItself, WebStays, TerminalStays
    <2>5. CASE UNCHANGED vars
      BY <2>5, WebStays, TerminalStays DEF vars, serverVars, ServerTypes
    <2>. QED  BY <2>2, <2>3, <2>4, <2>5 DEF Next
  <1>. QED  BY <1>1, <1>2, PTL DEF Spec

(* The types of the server, of both clients and of their requests.         *)
THEOREM ClientsTypeCorrect ==
    Spec => [](ServerTypes /\ TermTypes /\ WebTypes)
  BY ClientsInductive, PTL DEF ClientsInv, TermInv, WebInv

(* The web client shows messages of the selected session only, in whatever *)
(* order the answers come, unless the user has moved on with answers       *)
(* outstanding, or by way of a container or of deleting all sessions,      *)
(* which leave the messages (openSession, submitPrompt, abortRun,          *)
(* openContainerWorkspace and handleDelete in App.tsx).                    *)
THEOREM WebShowsSelected ==
    Spec => []ShownIsSelectedUnlessMoved
  <1>1. ClientsInv => ShownIsSelectedUnlessMoved
    BY DEF ClientsInv, WebInv, AllOfSelected, ShownIsSelectedUnlessMoved
  <1>. QED  BY <1>1, ClientsInductive, PTL

(* Esc reaches the one prompt of the terminal that is not stopped, and     *)
(* there is one exactly as long as it loads, until a prompt is sent beside *)
(* a stopped one (sendPrompt and abortCurrentOperation in tui-app.ts).     *)
THEOREM EscReachesThePrompt ==
    Spec => []LoadsForItsPromptUnlessOverlapped
  <1>1. ClientsInv => LoadsForItsPromptUnlessOverlapped
    BY DEF ClientsInv, TermInv, OnePrompt, LoadsForItsPromptUnlessOverlapped, LivePrompts, Prompts
  <1>. QED  BY <1>1, ClientsInductive, PTL

(* The terminal shows messages of its session only, unless it went there   *)
(* while a prompt was under way (openSession, createSession and the        *)
(* streams of sendPrompt in tui-app.ts).                                   *)
THEOREM TerminalShowsItsSession ==
    Spec => []MessagesAreOfTheSessionUnlessStrayed
  <1>1. ClientsInv => MessagesAreOfTheSessionUnlessStrayed
    BY DEF ClientsInv, TermInv, StreamsOfSession, MessagesAreOfTheSessionUnlessStrayed
  <1>. QED  BY <1>1, ClientsInductive, PTL

=============================================================================
