----------------------------- MODULE Containers -----------------------------
(***************************************************************************)
(* The register of containers: rows, links to sessions, and the instances  *)
(* behind them.                                                            *)
(*                                                                         *)
(* Requests and tool calls work on the register side by side, each a list  *)
(* of statements: create a container and link it, attach, use, destroy,    *)
(* kill a session, delete it.  A kill destroys the containers no other     *)
(* session is linked to and unlinks the others.                            *)
(***************************************************************************)
EXTENDS Naturals, FiniteSets

CONSTANTS
    Sessions,
    ContainerIds,
    Slots,        \* requests and tool calls that may be under way at once
    NoSession,
    MaxRequests,  \* requests and tool calls that arrive (bound)
    MaxMishaps    \* requests lost and instances that cannot be destroyed
                  \* (bound)

ASSUME NoSessionAssumption == NoSession \notin Sessions
ASSUME FiniteTables == IsFiniteSet(Sessions) /\ IsFiniteSet(ContainerIds)

VARIABLES
    row,          \* containers.status, "none" before the row is inserted
    link,         \* session_container
    up,           \* the instances that run
    session,      \* sessions.status; "deleted" when the row is gone
    req,          \* what is under way in each slot
    revived,      \* containers marked as destroyed while somebody was using
                  \* them or about to, or had started them again, and those
                  \* a stop has called when they were destroyed (history)
    asked,        \* requests and tool calls that have arrived
    mishaps

vars == <<row, link, up, session, req, revived, asked, mishaps>>

(* late, own and met are history: sessions linked to c since its links     *)
(* were counted; the containers listed; whether somebody else has taken a  *)
(* link from one of them, or one could not be destroyed.                   *)
Free == [does |-> "nothing", at |-> "free", s |-> NoSession, c |-> {}, left |-> {},
         late |-> {}, own |-> {}, met |-> FALSE]

Rows == {c \in ContainerIds : row[c] # "none"}
Linked(c) == {s \in Sessions : <<s, c>> \in link}
Kills == {"kill", "delete"}
Tools == {"use", "remove"}
At(r, place) == req[r].at = place

-----------------------------------------------------------------------------
(* Faulty variants, each of which breaks a property when it stands in the  *)
(* place of the definition named.                                          *)

(* Exclusive: two links still count as one's own.                          *)
ExclusiveUpToTwo(links) == Cardinality(links) <= 2

(* Owned: containers that others are linked to are passed over, and so are *)
(* those linked to nobody else.                                            *)
OwnedIfShared(s) == {c \in ContainerIds : s \in Linked(c) /\ Cardinality(Linked(c)) > 1}

(* Usable: the link is enough.                                             *)
UsableIfLinked(s, c) == <<s, c>> \in link

-----------------------------------------------------------------------------
Start(r, what) ==
    /\ At(r, "free") /\ asked < MaxRequests
    /\ req' = [req EXCEPT ![r] = what]
    /\ asked' = asked + 1

GoTo(r, place) == req' = [req EXCEPT ![r].at = place]
Finish(r) == req' = [req EXCEPT ![r] = Free]

(* A link has gone: the kills that have listed its container no longer     *)
(* meet what they have read.                                               *)
WithoutLinks(gone, others) ==
    [r \in Slots |-> IF r \in others /\ \E l \in gone : l[2] \in req[r].own
                       THEN [req[r] EXCEPT !.met = TRUE] ELSE req[r]]

Usable(s, c) == row[c] = "active" /\ <<s, c>> \in link
Exclusive(links) == Cardinality(links) <= 1
Owned(s) == {c \in ContainerIds : s \in Linked(c)}

-----------------------------------------------------------------------------
(* Creating and attaching.  The name of a new container is given, or       *)
(* chosen by counting the rows before it is inserted; a unique index       *)
(* refuses it when it is that of another container by then.                *)

CreateContainer(r, s, c) ==
    /\ c \notin Rows /\ \A q \in Slots : c \notin req[q].c
    /\ s # NoSession => session[s] # "deleted"
    /\ Start(r, [Free EXCEPT !.does = "create", !.at = "insert", !.s = s, !.c = {c}])
    /\ UNCHANGED <<row, link, up, session, revived, mishaps>>

InsertContainer(r) ==
    /\ At(r, "insert")
    /\ \/ /\ row' = [c \in ContainerIds |-> IF c \in req[r].c THEN "active" ELSE row[c]]
          /\ GoTo(r, IF req[r].s = NoSession THEN "call" ELSE "check")
       \/ UNCHANGED row /\ Finish(r)
    /\ UNCHANGED <<link, up, session, revived, asked, mishaps>>

AttachContainer(r, s, c) ==
    /\ c \in Rows
    /\ Start(r, [Free EXCEPT !.does = "attach", !.at = "check", !.s = s, !.c = {c}])
    /\ UNCHANGED <<row, link, up, session, revived, mishaps>>

LinkSessionChecks(r) ==
    /\ At(r, "check")
    /\ IF session[req[r].s] # "deleted" /\ \A c \in req[r].c : row[c] = "active"
         THEN GoTo(r, "link") ELSE Finish(r)
    /\ UNCHANGED <<row, link, up, session, revived, asked, mishaps>>

(* A link to a session that has been deleted is refused as a dangling key. *)
LinkSessionInserts(r) ==
    LET s == req[r].s
        after == [q \in Slots |->
                    IF q # r /\ req[q].does \in Kills /\ req[q].c = req[r].c
                             /\ req[q].at \in {"destroy", "mark"}
                      THEN [req[q] EXCEPT !.late = @ \cup {s}] ELSE req[q]]
    IN  /\ At(r, "link")
        /\ IF session[s] = "deleted"
             THEN UNCHANGED link /\ Finish(r)
             ELSE /\ link' = link \cup ({s} \X req[r].c)
                  /\ req' = [after EXCEPT ![r] =
                       IF @.does = "create" THEN [@ EXCEPT !.at = "call"] ELSE Free]
        /\ UNCHANGED <<row, up, session, revived, asked, mishaps>>

UnlinkSession(s, c) ==
    /\ <<s, c>> \in link
    /\ link' = link \ {<<s, c>>}
    /\ req' = WithoutLinks({<<s, c>>}, Slots)
    /\ UNCHANGED <<row, up, session, revived, asked, mishaps>>

(* A call to the container starts its instance if need be, and one that    *)
(* sleeps is as good as running.                                           *)
CallInstance(r) ==
    /\ At(r, "call")
    /\ up' = up \cup req[r].c
    /\ GoTo(r, "answer")
    /\ UNCHANGED <<row, link, session, revived, asked, mishaps>>

(* A tool may call again: container_bash starts a command, then asks how   *)
(* it does.                                                                *)
ReadAnswer(r) ==
    /\ At(r, "answer")
    /\ \/ Finish(r)
       \/ req[r].does = "use" /\ GoTo(r, "call")
    /\ UNCHANGED <<row, link, up, session, revived, asked, mishaps>>

(* A call broken by the end of the instance is sent once more, whatever    *)
(* has become of the container, which starts it again.  The look at the    *)
(* health of a new container is not.                                       *)
CallAgain(r) ==
    /\ At(r, "answer") /\ req[r].does # "create"
    /\ req[r].c \cap up = {}
    /\ up' = up \cup req[r].c
    /\ Finish(r)
    /\ UNCHANGED <<row, link, session, revived, asked, mishaps>>

-----------------------------------------------------------------------------
(* Tool calls of a session's agent, and the destruction of a container.    *)
(* A worker that has not noticed that its run is cancelled may still make  *)
(* one, so that runs (SessionRuns) are left out here.                      *)

ToolCall(r, does, s, c) ==
    /\ c \in Rows
    /\ Start(r, [Free EXCEPT !.does = does, !.at = "require", !.s = s, !.c = {c}])
    /\ UNCHANGED <<row, link, up, session, revived, mishaps>>

RequireActiveSessionContainer(r) ==
    /\ At(r, "require")
    /\ IF \A c \in req[r].c : Usable(req[r].s, c)
         THEN GoTo(r, IF req[r].does = "use" THEN "call" ELSE "destroy")
         ELSE Finish(r)
    /\ UNCHANGED <<row, link, up, session, revived, asked, mishaps>>

(* A session that is stopped cancels the commands it has on record as      *)
(* running, with no look at the row of their container.                    *)
CancelCommand(r, c) ==
    /\ c \in Rows
    /\ Start(r, [Free EXCEPT !.does = "stop", !.at = "call", !.c = {c}])
    /\ revived' = IF row[c] = "destroyed" THEN revived \cup {c} ELSE revived
    /\ UNCHANGED <<row, link, up, session, mishaps>>

DestroyContainer(r, c) ==
    /\ c \in Rows
    /\ Start(r, [Free EXCEPT !.does = "destroy", !.at = "destroy", !.c = {c}])
    /\ UNCHANGED <<row, link, up, session, revived, mishaps>>

DestroyInstance(r) ==
    /\ At(r, "destroy")
    /\ up' = up \ req[r].c
    /\ GoTo(r, "mark")
    /\ UNCHANGED <<row, link, session, revived, asked, mishaps>>

CallsNext(r) ==
    \/ At(r, "call")
    \/ At(r, "answer") /\ req[r].does # "create"
    \/ At(r, "link") /\ req[r].does = "create"
AboutToCall  == UNION {req[r].c : r \in {q \in Slots : CallsNext(q)}}

MarkDestroyed(r) ==
    /\ At(r, "mark")
    /\ row' = [c \in ContainerIds |-> IF c \in req[r].c THEN "destroyed" ELSE row[c]]
    /\ revived' = revived \cup (req[r].c \cap (up \cup AboutToCall))
    /\ req' = [req EXCEPT ![r] = IF @.does \in Kills
                 THEN [@ EXCEPT !.at = "next", !.c = {}, !.late = {}] ELSE Free]
    /\ UNCHANGED <<link, up, session, asked, mishaps>>

-----------------------------------------------------------------------------
(* Killing and deleting a session.                                         *)

KillSession(r, does, s) ==
    /\ session[s] # "deleted"
    /\ Start(r, [Free EXCEPT !.does = does, !.at = "list", !.s = s])
    /\ UNCHANGED <<row, link, up, session, revived, mishaps>>

ListForSession(r) ==
    /\ At(r, "list")
    /\ req' = [req EXCEPT ![r].at = "next", ![r].left = Owned(req[r].s),
                          ![r].own = {c \in ContainerIds : req[r].s \in Linked(c)}]
    /\ UNCHANGED <<row, link, up, session, revived, asked, mishaps>>

CountLinks(r) ==
    /\ At(r, "next")
    /\ \E c \in req[r].left :
         req' = [req EXCEPT ![r].at   = IF Exclusive(Linked(c)) THEN "destroy" ELSE "unlink",
                            ![r].c    = {c},
                            ![r].left = @ \ {c}]
    /\ UNCHANGED <<row, link, up, session, revived, asked, mishaps>>

UnlinkShared(r) ==
    /\ At(r, "unlink")
    /\ LET gone == {req[r].s} \X req[r].c
       IN  /\ link' = link \ gone
           /\ req' = [WithoutLinks(gone, Slots \ {r}) EXCEPT ![r].at = "next", ![r].c = {}]
    /\ UNCHANGED <<row, up, session, revived, asked, mishaps>>

MarkClosed(r) ==
    /\ At(r, "next") /\ req[r].left = {}
    /\ session' = [session EXCEPT ![req[r].s] = IF @ = "deleted" THEN @ ELSE "closed"]
    /\ IF req[r].does = "kill" THEN Finish(r) ELSE GoTo(r, "delete")
    /\ UNCHANGED <<row, link, up, revived, asked, mishaps>>

(* The links of a session go with its row.                                 *)
DeleteSession(r) ==
    /\ At(r, "delete")
    /\ LET gone == {l \in link : l[1] = req[r].s}
       IN  /\ link' = link \ gone
           /\ req' = [WithoutLinks(gone, Slots \ {r}) EXCEPT ![r] = Free]
    /\ session' = [session EXCEPT ![req[r].s] = "deleted"]
    /\ UNCHANGED <<row, up, revived, asked, mishaps>>

-----------------------------------------------------------------------------
(* A kill goes on to the next container when one cannot be destroyed.      *)
DestroyFails(r) ==
    /\ At(r, "destroy") /\ mishaps < MaxMishaps
    /\ mishaps' = mishaps + 1
    /\ req' = [req EXCEPT ![r] = IF @.does \in Kills
                 THEN [@ EXCEPT !.at = "next", !.c = {}, !.late = {}, !.met = TRUE] ELSE Free]
    /\ UNCHANGED <<row, link, up, session, revived, asked>>

RequestLost(r) ==
    /\ ~At(r, "free") /\ mishaps < MaxMishaps
    /\ mishaps' = mishaps + 1
    /\ Finish(r)
    /\ UNCHANGED <<row, link, up, session, revived, asked>>

-----------------------------------------------------------------------------
(* Any containers, linked to any sessions, that have been used or not.     *)
Init ==
    /\ row \in [ContainerIds -> {"none", "active"}]
    /\ link \in SUBSET (Sessions \X Rows)
    /\ up \in SUBSET Rows
    /\ session = [s \in Sessions |-> "open"]
    /\ req = [r \in Slots |-> Free]
    /\ revived = {}
    /\ asked = 0
    /\ mishaps = 0

Arrives(r) ==
    \/ \E s \in Sessions \cup {NoSession}, c \in ContainerIds : CreateContainer(r, s, c)
    \/ \E s \in Sessions, c \in ContainerIds : AttachContainer(r, s, c)
    \/ \E does \in Tools, s \in Sessions, c \in ContainerIds : ToolCall(r, does, s, c)
    \/ \E c \in ContainerIds : DestroyContainer(r, c)
    \/ \E does \in Kills, s \in Sessions : KillSession(r, does, s)

GoesOn(r) ==
    \/ InsertContainer(r)
    \/ LinkSessionChecks(r)
    \/ LinkSessionInserts(r)
    \/ CallInstance(r)
    \/ ReadAnswer(r)
    \/ CallAgain(r)
    \/ RequireActiveSessionContainer(r)
    \/ DestroyInstance(r)
    \/ MarkDestroyed(r)
    \/ ListForSession(r)
    \/ CountLinks(r)
    \/ UnlinkShared(r)
    \/ MarkClosed(r)
    \/ DeleteSession(r)

Next ==
    \/ \E r \in Slots : Arrives(r) \/ GoesOn(r) \/ DestroyFails(r) \/ RequestLost(r)
    \/ \E r \in Slots, c \in ContainerIds : CancelCommand(r, c)
    \/ \E s \in Sessions, c \in ContainerIds : UnlinkSession(s, c)

Spec == Init /\ [][Next]_vars

-----------------------------------------------------------------------------
Places == {"free", "insert", "check", "link", "call", "answer", "require", "destroy",
           "mark", "list", "next", "unlink", "delete"}

Doings == Kills \cup Tools \cup {"nothing", "create", "attach", "stop", "destroy"}

Jobs == [does : Doings, at : Places, s : Sessions \cup {NoSession},
         c : SUBSET ContainerIds, left : SUBSET ContainerIds,
         late : SUBSET Sessions, own : SUBSET ContainerIds, met : BOOLEAN]

(* Types of the tables and of what is under way. *)
TypeOK ==
    /\ row \in [ContainerIds -> {"none", "active", "destroyed"}]
    /\ link \subseteq Sessions \X ContainerIds
    /\ up \subseteq ContainerIds
    /\ session \in [Sessions -> {"open", "closed", "deleted"}]
    /\ req \in [Slots -> Jobs]
    /\ revived \subseteq ContainerIds
    /\ asked \in Nat /\ mishaps \in Nat

(* A kill destroys no container another session is linked to, unless that  *)
(* session was linked while the kill was about to destroy it, or a link of *)
(* a container the kill had listed was removed meanwhile.                  *)
AboutToDestroy(r) == req[r].does \in Kills /\ req[r].at \in {"destroy", "mark"}

KillSparesSharedUndisturbed ==
    \A r \in Slots :
        AboutToDestroy(r) /\ ~req[r].met =>
            \A c \in req[r].c : Linked(c) \subseteq {req[r].s} \cup req[r].late

(* A kill that has gone through its list has left none of the session's    *)
(* containers behind: each is destroyed or linked to another session,      *)
(* unless a link was removed meanwhile or an instance could not be         *)
(* destroyed.                                                              *)
KillLeavesNothingBehind ==
    \A r \in Slots :
        (At(r, "next") /\ req[r].left = {} /\ ~req[r].met) =>
            \A c \in req[r].own :
                row[c] = "destroyed" \/ Linked(c) \ {req[r].s} # {}

(* The instance of a destroyed container does not run again, unless        *)
(* somebody was using it or about to when it was marked as destroyed, or   *)
(* had started it again by then, or a session that was stopped cancelled a *)
(* command in it: no other call finds it active any more.                  *)
DestroyedStaysDown ==
    \A c \in ContainerIds : row[c] = "destroyed" /\ c \in up => c \in revived

=============================================================================
