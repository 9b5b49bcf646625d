------------------------------ MODULE Clients -------------------------------
(***************************************************************************)
(* The web client or the terminal client at work on the sessions of the    *)
(* server.  What other clients do is part of ServerSessions.               *)
(***************************************************************************)
EXTENDS WebView, TerminalView

VARIABLE client

vars == <<serverVars, webVars, termVars, client>>

Init ==
    /\ client \in {"web", "terminal"}
    /\ server \in [Sessions -> {"none"} \cup Open]
    /\ clicks = 0 /\ mishaps = 0
    /\ IF client = "web"
         THEN WebInit /\ term = NewTerm /\ job = [i \in Tasks |-> NoJob] /\ strayed = FALSE /\ overlapped = FALSE
         ELSE TermInit /\ list = server /\ view = NewView /\ task = [i \in Tasks |-> Idle] /\ moved = FALSE

ServerNext == \E s \in Sessions : PromptEnds(s) \/ OtherClientPrompts(s)

Next ==
    /\ UNCHANGED client
    /\ \/ client = "web" /\ WebNext /\ UNCHANGED termVars
       \/ client = "terminal" /\ TermNext /\ UNCHANGED webVars
       \/ ServerNext /\ UNCHANGED <<webVars, termVars>>

Spec == Init /\ [][Next]_vars

(* Something goes on as long as anything can: a request is answered, the   *)
(* list is fetched again, a prompt ends; the user need not do anything.    *)
Progress ==
    /\ UNCHANGED client
    /\ \/ client = "web" /\ WebProgress /\ UNCHANGED termVars
       \/ client = "terminal" /\ TermProgress /\ UNCHANGED webVars
       \/ (\E s \in Sessions : PromptEnds(s)) /\ UNCHANGED <<webVars, termVars>>

FairSpec == Spec /\ WF_vars(Progress)

-----------------------------------------------------------------------------
(* A composer that is blocked because an agent runs becomes free again, in *)
(* the web client, unless the session it is on has been deleted, and so    *)
(* does the prompt of the terminal.                                        *)
ClientsFreed ==
    /\ Busy ~> (~Busy \/ Gone(view.selected))
    /\ term.loading ~> ~term.loading

=============================================================================
