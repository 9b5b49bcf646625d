-------------------------- MODULE ContainersProofs --------------------------
(***************************************************************************)
(* What Containers guarantees for any number of sessions, containers and   *)
(* requests under way at once, and for any number of mishaps.              *)
(***************************************************************************)
EXTENDS Containers, TLAPS, FiniteSetTheorems

OneContainer == {"insert", "check", "link", "call", "answer", "require", "destroy", "mark",
                 "unlink"}
Killing      == {"next", "destroy", "mark", "unlink"}

(* What a request has in hand at each of its statements.                   *)
Shape(q) ==
    /\ q.at \in {"list", "next", "unlink", "delete"} => q.does \in Kills
    /\ q.at \in {"free", "insert", "check", "link", "call", "answer", "require"} => q.does \notin Kills
    /\ q.at \in OneContainer => \E c \in ContainerIds : q.c = {c}
    /\ q.at \notin OneContainer => q.c = {}
    /\ q.at \in {"check", "link"} \/ q.does \in Kills => q.s \in Sessions
    /\ q.left \subseteq q.own
    /\ q.does \in Kills /\ q.at \in OneContainer => q.c \subseteq q.own \ q.left

(* A new container is known to nobody but the request that inserts it, so  *)
(* that no container is ever inserted again.                               *)
Reserved ==
    \A r \in Slots :
        req[r].at = "insert" =>
            /\ \A c \in req[r].c : row[c] = "none"
            /\ \A q \in Slots \ {r} : req[r].c \cap req[q].c = {}

(* Every other container that is in hand or linked has a row.              *)
Known ==
    /\ \A s \in Sessions, c \in ContainerIds : <<s, c>> \in link => c \in Rows
    /\ \A r \in Slots :
          /\ req[r].at # "insert" => req[r].c \subseteq Rows
          /\ req[r].own \subseteq Rows

(* Until a kill meets a change, the session is linked to what is still on  *)
(* its list,                                                               *)
ListIsLinked(q) ==
    ~ q.met /\ q.does \in Kills => \A c \in q.left : <<q.s, c>> \in link

(* what it is about to destroy is linked to nobody else, but to those that *)
(* have come later,                                                        *)
Spares(q) ==
    ~ q.met /\ q.does \in Kills /\ q.at \in {"destroy", "mark"} =>
        \A c \in q.c : Linked(c) \subseteq {q.s} \cup q.late

(* and what it has gone through is destroyed or linked to another.         *)
Leaves(q) ==
    ~ q.met /\ q.at \in Killing /\ q.does \in Kills =>
        \A c \in q.own \ q.left :
            \/ c \in q.c /\ q.at # "unlink"
            \/ row[c] = "destroyed"
            \/ Linked(c) \ {q.s} # {}

KillInv(q) == Shape(q) /\ ListIsLinked(q) /\ Spares(q) /\ Leaves(q)

(* Whoever may start an instance has found its container active, or it was *)
(* destroyed in front of him.                                              *)
Calls ==
    \A r \in Slots : CallsNext(r) => \A c \in req[r].c : row[c] = "active" \/ c \in revived

RegisterInv ==
    /\ TypeOK /\ Known /\ Reserved
    /\ \A r \in Slots : KillInv(req[r])

DownInv == RegisterInv /\ Calls /\ DestroyedStaysDown

-----------------------------------------------------------------------------
(* What is in hand *)

LEMMA FreeJob ==
    /\ Free \in Jobs
    /\ Free.does = "nothing" /\ Free.at = "free" /\ Free.s = NoSession
    /\ Free.c = {} /\ Free.left = {} /\ Free.own = {} /\ Free.late = {} /\ Free.met = FALSE
  BY DEF Free, Jobs, Places, Doings

LEMMA JobFields ==
    ASSUME NEW j \in Jobs
    PROVE  /\ j.does \in Doings /\ j.at \in Places /\ j.s \in Sessions \cup {NoSession}
           /\ j.c \in SUBSET ContainerIds /\ j.left \in SUBSET ContainerIds
           /\ j.own \in SUBSET ContainerIds
           /\ j.late \in SUBSET Sessions /\ j.met \in BOOLEAN
  BY DEF Jobs

LEMMA JobOf ==
    ASSUME TypeOK, NEW r \in Slots
    PROVE  req[r] \in Jobs
  BY DEF TypeOK

LEMMA PlacesAre ==
    \A place \in {"free", "insert", "check", "link", "call", "answer", "require", "destroy",
                  "mark", "list", "next", "unlink", "delete"} : place \in Places
  BY DEF Places

LEMMA Goes ==
    ASSUME TypeOK, NEW r \in Slots, NEW place \in Places, GoTo(r, place)
    PROVE  /\ req' \in [Slots -> Jobs]
           /\ \A q \in Slots \ {r} : req'[q] = req[q]
           /\ req'[r] = [req[r] EXCEPT !.at = place]
  BY JobOf DEF TypeOK, GoTo, Jobs

LEMMA Becomes ==
    ASSUME TypeOK, NEW r \in Slots, NEW j \in Jobs, req' = [req EXCEPT ![r] = j]
    PROVE  /\ req' \in [Slots -> Jobs]
           /\ \A q \in Slots \ {r} : req'[q] = req[q]
           /\ req'[r] = j
  BY DEF TypeOK

LEMMA Finishes ==
    ASSUME TypeOK, NEW r \in Slots, Finish(r)
    PROVE  /\ req' \in [Slots -> Jobs]
           /\ \A q \in Slots \ {r} : req'[q] = req[q]
           /\ req'[r] = Free
  BY Becomes, FreeJob DEF Finish

(* A job that differs in its place only.                                   *)
LEMMA PlaceOnly ==
    ASSUME NEW j \in Jobs, NEW place
    PROVE  LET k == [j EXCEPT !.at = place]
           IN  /\ k.at = place /\ k.does = j.does /\ k.s = j.s /\ k.c = j.c /\ k.left = j.left
               /\ k.own = j.own /\ k.late = j.late /\ k.met = j.met
  BY DEF Jobs

(* Taking links away changes of the others no more than that they have met *)
(* a change.                                                               *)
LEMMA LinksGo ==
    ASSUME TypeOK, NEW gone, NEW others, NEW q \in Slots
    PROVE  LET k == WithoutLinks(gone, others)[q]
           IN  /\ k \in Jobs
               /\ k.at = req[q].at /\ k.does = req[q].does /\ k.s = req[q].s
               /\ k.c = req[q].c /\ k.left = req[q].left /\ k.own = req[q].own
               /\ k.late = req[q].late
               /\ req[q].met => k.met
               /\ q \in others /\ (\E l \in gone : l[2] \in req[q].own) => k.met
<1>1. req[q] \in Jobs
  BY JobOf
<1>2. CASE q \in others /\ \E l \in gone : l[2] \in req[q].own
  <2>1. WithoutLinks(gone, others)[q] = [req[q] EXCEPT !.met = TRUE]
    BY <1>2 DEF WithoutLinks
  <2> QED  BY <1>1, <2>1 DEF Jobs
<1>3. CASE ~ (q \in others /\ \E l \in gone : l[2] \in req[q].own)
  <2>1. WithoutLinks(gone, others)[q] = req[q]
    BY <1>3 DEF WithoutLinks
  <2> QED  BY <1>1, <1>3, <2>1
<1> QED  BY <1>2, <1>3

LEMMA LinksGoType ==
    ASSUME TypeOK, NEW gone, NEW others
    PROVE  WithoutLinks(gone, others) \in [Slots -> Jobs]
<1>1. \A q \in Slots : WithoutLinks(gone, others)[q] \in Jobs
  BY LinksGo
<1>2. WithoutLinks(gone, others) =
        [r \in Slots |-> IF r \in others /\ \E l \in gone : l[2] \in req[r].own
                           THEN [req[r] EXCEPT !.met = TRUE] ELSE req[r]]
  BY DEF WithoutLinks
<1> QED  BY <1>1, <1>2

-----------------------------------------------------------------------------
(* What becomes of what is in hand, statement by statement *)

LEMMA CreateMoves ==
    ASSUME TypeOK, NEW r \in Slots, NEW s \in Sessions \cup {NoSession}, NEW c \in ContainerIds,
           CreateContainer(r, s, c)
    PROVE  /\ req' \in [Slots -> Jobs] /\ \A q \in Slots \ {r} : req'[q] = req[q]
           /\ req'[r].does = "create" /\ req'[r].at = "insert" /\ req'[r].s = s
           /\ req'[r].c = {c} /\ req'[r].left = {} /\ req'[r].own = {}
<1> DEFINE j == [Free EXCEPT !.does = "create", !.at = "insert", !.s = s, !.c = {c}]
<1>1. j \in Jobs /\ j.does = "create" /\ j.at = "insert" /\ j.s = s /\ j.c = {c} /\ j.left = {} /\ j.own = {}
  BY DEF Free, Jobs, Places, Doings
<1>2. req' = [req EXCEPT ![r] = j]
  BY DEF CreateContainer, Start
<1> HIDE DEF j
<1> QED  BY <1>1, <1>2, Becomes

LEMMA AttachMoves ==
    ASSUME TypeOK, NEW r \in Slots, NEW s \in Sessions, NEW c \in ContainerIds,
           AttachContainer(r, s, c)
    PROVE  /\ req' \in [Slots -> Jobs] /\ \A q \in Slots \ {r} : req'[q] = req[q]
           /\ req'[r].does = "attach" /\ req'[r].at = "check" /\ req'[r].s = s
           /\ req'[r].c = {c} /\ req'[r].left = {} /\ req'[r].own = {}
<1> DEFINE j == [Free EXCEPT !.does = "attach", !.at = "check", !.s = s, !.c = {c}]
<1>1. j \in Jobs /\ j.does = "attach" /\ j.at = "check" /\ j.s = s /\ j.c = {c} /\ j.left = {} /\ j.own = {}
  BY DEF Free, Jobs, Places, Doings
<1>2. req' = [req EXCEPT ![r] = j]
  BY DEF AttachContainer, Start
<1> HIDE DEF j
<1> QED  BY <1>1, <1>2, Becomes

LEMMA ToolMoves ==
    ASSUME TypeOK, NEW r \in Slots, NEW does \in Tools, NEW s \in Sessions,
           NEW c \in ContainerIds, ToolCall(r, does, s, c)
    PROVE  /\ req' \in [Slots -> Jobs] /\ \A q \in Slots \ {r} : req'[q] = req[q]
           /\ req'[r].does = does /\ req'[r].at = "require" /\ req'[r].s = s
           /\ req'[r].c = {c} /\ req'[r].left = {} /\ req'[r].own = {}
<1> DEFINE j == [Free EXCEPT !.does = does, !.at = "require", !.s = s, !.c = {c}]
<1>1. j \in Jobs /\ j.does = does /\ j.at = "require" /\ j.s = s /\ j.c = {c} /\ j.left = {} /\ j.own = {}
  BY DEF Free, Jobs, Places, Doings, Tools
<1>2. req' = [req EXCEPT ![r] = j]
  BY DEF ToolCall, Start
<1> HIDE DEF j
<1> QED  BY <1>1, <1>2, Becomes

LEMMA CancelMoves ==
    ASSUME TypeOK, NEW r \in Slots, NEW c \in ContainerIds, CancelCommand(r, c)
    PROVE  /\ req' \in [Slots -> Jobs] /\ \A q \in Slots \ {r} : req'[q] = req[q]
           /\ req'[r].does = "stop" /\ req'[r].at = "call"
           /\ req'[r].c = {c} /\ req'[r].left = {} /\ req'[r].own = {}
<1> DEFINE j == [Free EXCEPT !.does = "stop", !.at = "call", !.c = {c}]
<1>1. j \in Jobs /\ j.does = "stop" /\ j.at = "call" /\ j.c = {c} /\ j.left = {} /\ j.own = {}
  BY DEF Free, Jobs, Places, Doings
<1>2. req' = [req EXCEPT ![r] = j]
  BY DEF CancelCommand, Start
<1> HIDE DEF j
<1> QED  BY <1>1, <1>2, Becomes

LEMMA DestroyMoves ==
    ASSUME TypeOK, NEW r \in Slots, NEW c \in ContainerIds, DestroyContainer(r, c)
    PROVE  /\ req' \in [Slots -> Jobs] /\ \A q \in Slots \ {r} : req'[q] = req[q]
           /\ req'[r].does = "destroy" /\ req'[r].at = "destroy"
           /\ req'[r].c = {c} /\ req'[r].left = {} /\ req'[r].own = {}
<1> DEFINE j == [Free EXCEPT !.does = "destroy", !.at = "destroy", !.c = {c}]
<1>1. j \in Jobs /\ j.does = "destroy" /\ j.at = "destroy" /\ j.c = {c} /\ j.left = {} /\ j.own = {}
  BY DEF Free, Jobs, Places, Doings
<1>2. req' = [req EXCEPT ![r] = j]
  BY DEF DestroyContainer, Start
<1> HIDE DEF j
<1> QED  BY <1>1, <1>2, Becomes

LEMMA KillMoves ==
    ASSUME TypeOK, NEW r \in Slots, NEW does \in Kills, NEW s \in Sessions,
           KillSession(r, does, s)
    PROVE  /\ req' \in [Slots -> Jobs] /\ \A q \in Slots \ {r} : req'[q] = req[q]
           /\ req'[r].does = does /\ req'[r].at = "list" /\ req'[r].s = s
           /\ req'[r].c = {} /\ req'[r].left = {} /\ req'[r].own = {}
<1> DEFINE j == [Free EXCEPT !.does = does, !.at = "list", !.s = s]
<1>1. j \in Jobs /\ j.does = does /\ j.at = "list" /\ j.s = s /\ j.c = {} /\ j.left = {} /\ j.own = {}
  BY DEF Free, Jobs, Places, Doings, Kills
<1>2. req' = [req EXCEPT ![r] = j]
  BY DEF KillSession, Start
<1> HIDE DEF j
<1> QED  BY <1>1, <1>2, Becomes

LEMMA InsertMoves ==
    ASSUME TypeOK, NEW r \in Slots, GoTo(r, IF req[r].s = NoSession THEN "call" ELSE "check")
    PROVE  /\ req' \in [Slots -> Jobs] /\ \A q \in Slots \ {r} : req'[q] = req[q]
           /\ req'[r].at = IF req[r].s = NoSession THEN "call" ELSE "check"
           /\ req'[r].does = req[r].does /\ req'[r].s = req[r].s /\ req'[r].c = req[r].c
           /\ req'[r].left = req[r].left /\ req'[r].own = req[r].own
<1> DEFINE place == IF req[r].s = NoSession THEN "call" ELSE "check"
<1>1. place \in Places /\ GoTo(r, place)
  BY DEF Places
<1>2. place = IF req[r].s = NoSession THEN "call" ELSE "check"
  OBVIOUS
<1> HIDE DEF place
<1>3. /\ req' \in [Slots -> Jobs] /\ \A q \in Slots \ {r} : req'[q] = req[q]
      /\ req'[r] = [req[r] EXCEPT !.at = place]
  BY <1>1, Goes
<1> QED  BY <1>2, <1>3, JobOf, PlaceOnly

LEMMA ListMoves ==
    ASSUME TypeOK, NEW r \in Slots, ListForSession(r)
    PROVE  /\ req' \in [Slots -> Jobs] /\ \A q \in Slots \ {r} : req'[q] = req[q]
           /\ req'[r].at = "next" /\ req'[r].does = req[r].does /\ req'[r].s = req[r].s
           /\ req'[r].c = req[r].c
           /\ req'[r].left = Owned(req[r].s) /\ req'[r].own = Owned(req[r].s)
<1>1. req' = [req EXCEPT ![r].at = "next", ![r].left = Owned(req[r].s),
                         ![r].own = Owned(req[r].s)]
  BY DEF ListForSession, Owned
<1> DEFINE list == Owned(req[r].s)
<1>2. list \in SUBSET ContainerIds /\ "next" \in Places
  BY DEF Owned, Places
<1>3. list = Owned(req[r].s)
  OBVIOUS
<1> HIDE DEF list
<1>4. req' = [req EXCEPT ![r].at = "next", ![r].left = list, ![r].own = list]
  BY <1>1, <1>3
<1> DEFINE j == [req[r] EXCEPT !.at = "next", !.left = list, !.own = list]
<1>5. /\ j \in Jobs /\ j.at = "next" /\ j.does = req[r].does /\ j.s = req[r].s
      /\ j.c = req[r].c /\ j.left = list /\ j.own = list
  BY <1>2, JobOf DEF Jobs
<1>6. req' = [req EXCEPT ![r] = j]
  BY <1>4 DEF TypeOK
<1> HIDE DEF j
<1>7. /\ req' \in [Slots -> Jobs] /\ \A q \in Slots \ {r} : req'[q] = req[q]
      /\ req'[r] = j
  BY <1>5, <1>6, Becomes
<1> QED  BY <1>3, <1>5, <1>7

LEMMA CountMoves ==
    ASSUME TypeOK, NEW r \in Slots, CountLinks(r)
    PROVE  \E c \in req[r].left :
           /\ req' \in [Slots -> Jobs] /\ \A q \in Slots \ {r} : req'[q] = req[q]
           /\ req'[r].at = IF Exclusive(Linked(c)) THEN "destroy" ELSE "unlink"
           /\ req'[r].does = req[r].does /\ req'[r].s = req[r].s
           /\ req'[r].c = {c} /\ req'[r].left = req[r].left \ {c}
           /\ req'[r].own = req[r].own
           /\ req'[r].late = req[r].late /\ req'[r].met = req[r].met
<1>1. PICK c \in req[r].left :
         req' = [req EXCEPT ![r].at   = IF Exclusive(Linked(c)) THEN "destroy" ELSE "unlink",
                            ![r].c    = {c},
                            ![r].left = @ \ {c}]
  BY DEF CountLinks
<1> DEFINE place == IF Exclusive(Linked(c)) THEN "destroy" ELSE "unlink"
<1>2. place \in Places
  BY DEF Places
<1>3. req' = [req EXCEPT ![r].at = place, ![r].c = {c}, ![r].left = @ \ {c}]
  BY <1>1
<1>4. place = IF Exclusive(Linked(c)) THEN "destroy" ELSE "unlink"
  OBVIOUS
<1>5. c \in ContainerIds
  BY <1>1, JobOf, JobFields
<1> HIDE DEF place
<1>6. /\ req' \in [Slots -> Jobs] /\ \A q \in Slots \ {r} : req'[q] = req[q]
      /\ req'[r].at = place
      /\ req'[r].does = req[r].does /\ req'[r].s = req[r].s
      /\ req'[r].c = {c} /\ req'[r].left = req[r].left \ {c}
      /\ req'[r].own = req[r].own
      /\ req'[r].late = req[r].late /\ req'[r].met = req[r].met
  BY <1>2, <1>3, <1>5 DEF TypeOK, Jobs
<1> QED  BY <1>4, <1>6

(* A kill that is done with a container goes on to the next, anything else *)
(* is over.                                                                *)
LEMMA MarkMoves ==
    ASSUME TypeOK, NEW r \in Slots, MarkDestroyed(r)
    PROVE  /\ req' \in [Slots -> Jobs] /\ \A q \in Slots \ {r} : req'[q] = req[q]
           /\ req[r].does \notin Kills => req'[r] = Free
           /\ req[r].does \in Kills =>
                /\ req'[r].at = "next" /\ req'[r].does = req[r].does /\ req'[r].s = req[r].s
                /\ req'[r].c = {} /\ req'[r].left = req[r].left
                /\ req'[r].own = req[r].own /\ req'[r].met = req[r].met
<1> DEFINE k == [req[r] EXCEPT !.at = "next", !.c = {}, !.late = {}]
           j == IF req[r].does \in Kills THEN k ELSE Free
<1>1. req' = [req EXCEPT ![r] = j]
  BY DEF MarkDestroyed, TypeOK
<1>2. k \in Jobs /\ k.at = "next" /\ k.does = req[r].does /\ k.s = req[r].s /\ k.c = {} /\ k.left = req[r].left
      /\ k.own = req[r].own /\ k.met = req[r].met
  BY JobOf DEF Jobs, Places
<1> HIDE DEF k
<1>3. j \in Jobs
  BY <1>2, FreeJob
<1>4. (req[r].does \in Kills => j = k) /\ (req[r].does \notin Kills => j = Free)
  OBVIOUS
<1> HIDE DEF j
<1>5. /\ req' \in [Slots -> Jobs] /\ \A q \in Slots \ {r} : req'[q] = req[q]
      /\ req'[r] = j
  BY <1>1, <1>3, Becomes
<1> QED  BY <1>2, <1>4, <1>5

LEMMA FailMoves ==
    ASSUME TypeOK, NEW r \in Slots, DestroyFails(r)
    PROVE  /\ req' \in [Slots -> Jobs] /\ \A q \in Slots \ {r} : req'[q] = req[q]
           /\ req[r].does \notin Kills => req'[r] = Free
           /\ req[r].does \in Kills =>
                /\ req'[r].at = "next" /\ req'[r].does = req[r].does /\ req'[r].s = req[r].s
                /\ req'[r].c = {} /\ req'[r].left = req[r].left
                /\ req'[r].own = req[r].own /\ req'[r].met
<1> DEFINE k == [req[r] EXCEPT !.at = "next", !.c = {}, !.late = {}, !.met = TRUE]
           j == IF req[r].does \in Kills THEN k ELSE Free
<1>1. req' = [req EXCEPT ![r] = j]
  BY DEF DestroyFails, TypeOK
<1>2. k \in Jobs /\ k.at = "next" /\ k.does = req[r].does /\ k.s = req[r].s /\ k.c = {} /\ k.left = req[r].left
      /\ k.own = req[r].own /\ k.met
  BY JobOf DEF Jobs, Places
<1> HIDE DEF k
<1>3. j \in Jobs
  BY <1>2, FreeJob
<1>4. (req[r].does \in Kills => j = k) /\ (req[r].does \notin Kills => j = Free)
  OBVIOUS
<1> HIDE DEF j
<1>5. /\ req' \in [Slots -> Jobs] /\ \A q \in Slots \ {r} : req'[q] = req[q]
      /\ req'[r] = j
  BY <1>1, <1>3, Becomes
<1> QED  BY <1>2, <1>4, <1>5

(* A new link is noticed by the kills that are about to destroy its        *)
(* container.                                                              *)
LEMMA LinkMoves ==
    ASSUME TypeOK, NEW r \in Slots, LinkSessionInserts(r), session[req[r].s] # "deleted",
           req[r].s \in Sessions
    PROVE  /\ req' \in [Slots -> Jobs]
           /\ \A q \in Slots \ {r} :
                /\ req'[q].does = req[q].does /\ req'[q].at = req[q].at /\ req'[q].s = req[q].s
                /\ req'[q].c = req[q].c /\ req'[q].left = req[q].left
                /\ req'[q].own = req[q].own /\ req'[q].met = req[q].met
                /\ req[q].late \subseteq req'[q].late
                /\ AboutToDestroy(q) /\ req[q].c = req[r].c => req[r].s \in req'[q].late
           /\ req[r].does # "create" => req'[r] = Free
           /\ req[r].does = "create" =>
                /\ req'[r].at = "call" /\ req'[r].does = "create" /\ req'[r].s = req[r].s
                /\ req'[r].c = req[r].c /\ req'[r].left = req[r].left
                /\ req'[r].own = req[r].own
<1> DEFINE Hit(q) == /\ q # r /\ req[q].does \in Kills /\ req[q].c = req[r].c
                     /\ req[q].at \in {"destroy", "mark"}
           after  == [q \in Slots |-> IF Hit(q) THEN [req[q] EXCEPT !.late = @ \cup {req[r].s}]
                                                ELSE req[q]]
<1>1. req' = [after EXCEPT ![r] = IF @.does = "create" THEN [@ EXCEPT !.at = "call"] ELSE Free]
  BY DEF LinkSessionInserts
<1>2. ASSUME NEW q \in Slots
      PROVE  /\ after[q] \in Jobs
             /\ after[q].does = req[q].does /\ after[q].at = req[q].at /\ after[q].s = req[q].s
             /\ after[q].c = req[q].c /\ after[q].left = req[q].left
             /\ after[q].own = req[q].own /\ after[q].met = req[q].met
             /\ req[q].late \subseteq after[q].late
             /\ Hit(q) => req[r].s \in after[q].late
  <2>1. CASE Hit(q)
    <3>1. after[q] = [req[q] EXCEPT !.late = req[q].late \cup {req[r].s}]
      BY <2>1
    <3>2. req[q] \in Jobs
      BY JobOf
    <3> HIDE DEF after, Hit
    <3> QED  BY <3>1, <3>2 DEF Jobs
  <2>2. CASE ~ Hit(q)
    <3>1. after[q] = req[q]
      BY <2>2
    <3> HIDE DEF after, Hit
    <3> QED  BY <2>2, <3>1, JobOf
  <2> QED  BY <2>1, <2>2
<1>3. after \in [Slots -> Jobs] /\ after[r] = req[r]
  BY <1>2
<1>4. \A q \in Slots \ {r} : AboutToDestroy(q) /\ req[q].c = req[r].c => Hit(q)
  BY DEF AboutToDestroy
<1> HIDE DEF after, Hit
<1>5. \A q \in Slots \ {r} : req'[q] = after[q]
  BY <1>1, <1>3
<1>6. req[r].does = "create" => req'[r] = [req[r] EXCEPT !.at = "call"]
  BY <1>1, <1>3
<1>7. req[r].does # "create" => req'[r] = Free
  BY <1>1, <1>3
<1>8. [req[r] EXCEPT !.at = "call"] \in Jobs
  BY JobOf DEF Jobs, Places
<1>9. req' \in [Slots -> Jobs]
  <2>1. req'[r] \in Jobs
    BY <1>6, <1>7, <1>8, FreeJob
  <2>2. DOMAIN req' = Slots /\ req' = [q \in Slots |-> req'[q]]
    BY <1>1, <1>3
  <2>3. \A q \in Slots : req'[q] \in Jobs
    BY <1>2, <1>5, <2>1
  <2> QED  BY <2>2, <2>3
<1>10. req[r].does = "create" =>
          /\ req'[r].at = "call" /\ req'[r].does = "create" /\ req'[r].s = req[r].s
          /\ req'[r].c = req[r].c /\ req'[r].left = req[r].left /\ req'[r].own = req[r].own
  BY <1>6, JobOf DEF Jobs
<1> QED  BY <1>2, <1>4, <1>5, <1>7, <1>9, <1>10

LEMMA UnlinkMoves ==
    ASSUME TypeOK, NEW r \in Slots, UnlinkShared(r)
    PROVE  /\ req' \in [Slots -> Jobs]
           /\ \A q \in Slots \ {r} :
                 req'[q] = WithoutLinks({req[r].s} \X req[r].c, Slots \ {r})[q]
           /\ req'[r].at = "next" /\ req'[r].does = req[r].does /\ req'[r].s = req[r].s
           /\ req'[r].c = {} /\ req'[r].left = req[r].left /\ req'[r].own = req[r].own
           /\ req[r].met => req'[r].met
<1> DEFINE after == WithoutLinks({req[r].s} \X req[r].c, Slots \ {r})
<1>1. req' = [after EXCEPT ![r].at = "next", ![r].c = {}]
  BY DEF UnlinkShared
<1>2. after \in [Slots -> Jobs]
  BY LinksGoType
<1>3. /\ after[r].does = req[r].does /\ after[r].s = req[r].s /\ after[r].left = req[r].left
      /\ after[r].own = req[r].own /\ (req[r].met => after[r].met)
  BY LinksGo
<1> HIDE DEF after
<1>4. /\ req' \in [Slots -> Jobs] /\ \A q \in Slots \ {r} : req'[q] = after[q]
      /\ req'[r].at = "next" /\ req'[r].does = after[r].does /\ req'[r].s = after[r].s
      /\ req'[r].c = {} /\ req'[r].left = after[r].left /\ req'[r].own = after[r].own
      /\ req'[r].met = after[r].met
  <2>1. "next" \in Places
    BY DEF Places
  <2> QED  BY <1>1, <1>2, <2>1 DEF Jobs
<1> QED  BY <1>3, <1>4 DEF after

LEMMA DeleteMoves ==
    ASSUME TypeOK, NEW r \in Slots, DeleteSession(r)
    PROVE  /\ req' \in [Slots -> Jobs] /\ req'[r] = Free
           /\ \A q \in Slots \ {r} :
                 req'[q] = WithoutLinks({l \in link : l[1] = req[r].s}, Slots \ {r})[q]
<1> DEFINE after == WithoutLinks({l \in link : l[1] = req[r].s}, Slots \ {r})
<1>1. req' = [after EXCEPT ![r] = Free]
  BY DEF DeleteSession
<1>2. after \in [Slots -> Jobs]
  BY LinksGoType
<1> HIDE DEF after
<1>3. /\ req' \in [Slots -> Jobs] /\ \A q \in Slots \ {r} : req'[q] = after[q]
      /\ req'[r] = Free
  BY <1>1, <1>2, FreeJob
<1> QED  BY <1>3 DEF after

-----------------------------------------------------------------------------
(* What a step does to the requests that do not take it *)

(* They stay where they are; a link that goes from a container they have   *)
(* listed is met, and one that comes to a container they are about to      *)
(* destroy is late.                                                        *)
Apart(Q) ==
    \A q \in Q :
        /\ req'[q].does = req[q].does /\ req'[q].at = req[q].at /\ req'[q].s = req[q].s
        /\ req'[q].c = req[q].c /\ req'[q].left = req[q].left /\ req'[q].own = req[q].own
        /\ req[q].late \subseteq req'[q].late
        /\ req[q].met => req'[q].met
        /\ \A s \in Sessions, c \in req[q].own :
              <<s, c>> \in link /\ ~ req'[q].met => <<s, c>> \in link'
        /\ \A s \in Sessions, c \in req[q].c :
              AboutToDestroy(q) /\ <<s, c>> \in link' =>
                  <<s, c>> \in link \/ s \in req'[q].late

(* Rows are never deleted, and what is destroyed stays so.                 *)
RowsGoOn ==
    \A c \in ContainerIds : /\ row[c] # "none" => row'[c] # "none"
                            /\ row[c] = "destroyed" => row'[c] = "destroyed"

LEMMA ApartUntouched ==
    ASSUME NEW Q, \A q \in Q : req'[q] = req[q], UNCHANGED link
    PROVE  Apart(Q)
  BY DEF Apart

LEMMA ApartLess ==
    ASSUME TypeOK, NEW Q \in SUBSET Slots, NEW gone,
           \A q \in Q : req'[q] = WithoutLinks(gone, Q)[q],
           link' = link \ gone
    PROVE  Apart(Q)
<1> SUFFICES ASSUME NEW q \in Q
             PROVE  /\ req'[q].does = req[q].does /\ req'[q].at = req[q].at
                    /\ req'[q].s = req[q].s /\ req'[q].c = req[q].c
                    /\ req'[q].left = req[q].left /\ req'[q].own = req[q].own
                    /\ req[q].late \subseteq req'[q].late
                    /\ req[q].met => req'[q].met
                    /\ \A s \in Sessions, c \in req[q].own :
                          <<s, c>> \in link /\ ~ req'[q].met => <<s, c>> \in link'
                    /\ \A s \in Sessions, c \in req[q].c :
                          AboutToDestroy(q) /\ <<s, c>> \in link' =>
                              <<s, c>> \in link \/ s \in req'[q].late
  BY DEF Apart
<1>1. /\ req'[q].at = req[q].at /\ req'[q].does = req[q].does /\ req'[q].s = req[q].s
      /\ req'[q].c = req[q].c /\ req'[q].left = req[q].left /\ req'[q].own = req[q].own
      /\ req'[q].late = req[q].late
      /\ req[q].met => req'[q].met
      /\ (\E l \in gone : l[2] \in req[q].own) => req'[q].met
  BY LinksGo
<1>2. ASSUME NEW s \in Sessions, NEW c \in req[q].own, <<s, c>> \in link, ~ req'[q].met
      PROVE  <<s, c>> \in link'
  <2>1. <<s, c>>[2] = c
    OBVIOUS
  <2>2. <<s, c>> \notin gone
    BY <1>1, <1>2, <2>1
  <2> QED  BY <1>2, <2>2
<1> QED  BY <1>1, <1>2

LEMMA BystanderKept ==
    ASSUME TypeOK, NEW Q \in SUBSET Slots, Apart(Q), RowsGoOn, NEW q \in Q, KillInv(req[q])
    PROVE  KillInv(req[q])'
<1>1. /\ req[q].s \in Sessions \cup {NoSession} /\ req[q].c \in SUBSET ContainerIds
      /\ req[q].left \in SUBSET ContainerIds /\ req[q].own \in SUBSET ContainerIds
  BY JobOf, JobFields
<1>2. /\ req'[q].does = req[q].does /\ req'[q].at = req[q].at /\ req'[q].s = req[q].s
      /\ req'[q].c = req[q].c /\ req'[q].left = req[q].left /\ req'[q].own = req[q].own
      /\ req[q].late \subseteq req'[q].late
      /\ req[q].met => req'[q].met
      /\ \A s \in Sessions, c \in req[q].own :
            <<s, c>> \in link /\ ~ req'[q].met => <<s, c>> \in link'
      /\ \A s \in Sessions, c \in req[q].c :
            AboutToDestroy(q) /\ <<s, c>> \in link' =>
                <<s, c>> \in link \/ s \in req'[q].late
  BY DEF Apart
<1>3. Shape(req[q])'
  BY <1>2 DEF KillInv, Shape
<1>4. ListIsLinked(req[q])'
  BY <1>2 DEF KillInv, ListIsLinked, Shape
<1>5. Spares(req[q])'
  <2>1. SUFFICES ASSUME ~ req'[q].met, req'[q].does \in Kills,
                        req'[q].at \in {"destroy", "mark"},
                        NEW c \in req'[q].c, NEW s \in Sessions, <<s, c>> \in link'
                 PROVE  s \in {req'[q].s} \cup req'[q].late
    BY DEF Spares, Linked
  <2>2. AboutToDestroy(q) /\ ~ req[q].met /\ c \in req[q].c
    BY <1>2, <2>1 DEF AboutToDestroy
  <2>3. CASE <<s, c>> \in link
    <3>1. s \in Linked(c)
      BY <2>1, <2>3 DEF Linked
    <3>2. Linked(c) \subseteq {req[q].s} \cup req[q].late
      BY <2>2 DEF KillInv, Spares, AboutToDestroy
    <3> QED  BY <1>2, <3>1, <3>2
  <2>4. CASE <<s, c>> \notin link
    BY <1>2, <2>1, <2>2, <2>4
  <2> QED  BY <2>3, <2>4
<1>6. Leaves(req[q])'
  <2>1. SUFFICES ASSUME ~ req'[q].met, req'[q].at \in Killing, req'[q].does \in Kills,
                        NEW c \in req'[q].own \ req'[q].left
                 PROVE  \/ c \in req'[q].c /\ req'[q].at # "unlink"
                        \/ row'[c] = "destroyed"
                        \/ Linked(c)' \ {req'[q].s} # {}
    BY DEF Leaves
  <2>2. \/ c \in req[q].c /\ req[q].at # "unlink"
        \/ row[c] = "destroyed"
        \/ Linked(c) \ {req[q].s} # {}
    BY <1>2, <2>1 DEF KillInv, Leaves
  <2>3. c \in ContainerIds
    BY <1>1, <1>2
  <2>4. CASE row[c] = "destroyed"
    BY <2>3, <2>4 DEF RowsGoOn
  <2>5. CASE Linked(c) \ {req[q].s} # {}
    <3>1. PICK s \in Sessions : <<s, c>> \in link /\ s # req[q].s
      BY <2>5 DEF Linked
    <3>2. <<s, c>> \in link'
      BY <1>2, <2>1, <3>1
    <3> QED  BY <1>2, <3>1, <3>2 DEF Linked
  <2> QED  BY <1>2, <2>2, <2>4, <2>5
<1> QED  BY <1>3, <1>4, <1>5, <1>6 DEF KillInv

-----------------------------------------------------------------------------
(* What a step does to the one that takes it *)

(* Its containers are new ones nobody knows, or have rows; and it changes  *)
(* no row but those of its containers.                                     *)
Fits(r) ==
    /\ \A s \in Sessions, c \in ContainerIds : <<s, c>> \in link' =>
          <<s, c>> \in link \/ c \in Rows
    /\ req'[r].own \subseteq Rows
    /\ \A c \in ContainerIds : row'[c] # row[c] => c \in req[r].c
    /\ \/ /\ req'[r].at = "insert" /\ row' = row
          /\ \A c \in req'[r].c : c \notin Rows /\ \A q \in Slots : c \notin req[q].c
       \/ /\ req'[r].at # "insert"
          /\ req'[r].c \subseteq Rows' /\ req'[r].c \subseteq Rows \cup req[r].c

LEMMA RegisterKept ==
    ASSUME RegisterInv, TypeOK', NEW r \in Slots, Apart(Slots \ {r}), RowsGoOn, Fits(r),
           KillInv(req[r])'
    PROVE  RegisterInv'
<1>1. \A q \in Slots : KillInv(req[q])'
  BY BystanderKept DEF RegisterInv
<1>2. Rows \subseteq Rows'
  BY DEF RowsGoOn, Rows
<1>3. \A q \in Slots \ {r} : req'[q].at = req[q].at /\ req'[q].c = req[q].c /\ req'[q].own = req[q].own
  BY DEF Apart
<1>4. \A q \in Slots : req[q].c \in SUBSET ContainerIds
  BY JobOf, JobFields DEF RegisterInv
<1>5. Known'
  <2>1. \A s \in Sessions, c \in ContainerIds : <<s, c>> \in link' => c \in Rows'
    BY <1>2 DEF Fits, RegisterInv, Known
  <2>2. ASSUME NEW q \in Slots
        PROVE  (req'[q].at # "insert" => req'[q].c \subseteq Rows') /\ req'[q].own \subseteq Rows'
    <3>1. CASE q = r
      BY <1>2, <3>1 DEF Fits
    <3>2. CASE q # r
      BY <1>2, <1>3, <3>2 DEF RegisterInv, Known
    <3> QED  BY <3>1, <3>2
  <2> QED  BY <2>1, <2>2 DEF Known
<1>6. Reserved'
  <2>1. SUFFICES ASSUME NEW p \in Slots, req'[p].at = "insert", NEW c \in req'[p].c
                 PROVE  row'[c] = "none" /\ \A q \in Slots \ {p} : c \notin req'[q].c
    BY DEF Reserved
  <2>2. CASE p = r
    <3>1. c \in ContainerIds /\ c \notin Rows /\ row' = row /\ \A q \in Slots : c \notin req[q].c
      BY <2>1, <2>2, JobOf, JobFields DEF Fits, TypeOK
    <3> QED  BY <1>3, <2>2, <3>1 DEF Rows
  <2>3. CASE p # r
    <3>1. /\ c \in ContainerIds /\ row[c] = "none" /\ c \notin Rows
          /\ \A q \in Slots \ {p} : c \notin req[q].c
      BY <1>3, <1>4, <2>1, <2>3 DEF RegisterInv, Reserved, Rows
    <3>2. row'[c] = "none"
      BY <2>3, <3>1 DEF Fits
    <3>3. c \notin req'[r].c
      <4>1. c \in req[p].c /\ c \notin req[r].c
        BY <1>3, <2>1, <2>3, <3>1
      <4>2. (\A d \in req'[r].c : \A q \in Slots : d \notin req[q].c)
              \/ req'[r].c \subseteq Rows \cup req[r].c
        BY DEF Fits
      <4> QED  BY <3>1, <4>1, <4>2
    <3> QED  BY <1>3, <3>1, <3>2, <3>3
  <2> QED  BY <2>2, <2>3
<1> QED  BY <1>1, <1>5, <1>6 DEF RegisterInv

(* What is not a kill needs no more than its shape.                        *)
LEMMA NoKill ==
    ASSUME NEW r \in Slots, req'[r].does \notin Kills, Shape(req[r])'
    PROVE  KillInv(req[r])'
  BY DEF KillInv, ListIsLinked, Spares, Leaves

LEMMA FreeKept ==
    ASSUME NEW r \in Slots, req'[r] = Free
    PROVE  /\ KillInv(req[r])'
           /\ UNCHANGED row => (Fits(r) <=> 
                 \A s \in Sessions, c \in ContainerIds : <<s, c>> \in link' =>
                     <<s, c>> \in link \/ c \in Rows)
<1>1. Shape(req[r])'
  BY FreeJob DEF Shape, Kills, OneContainer
<1>2. KillInv(req[r])'
  BY <1>1, FreeJob, NoKill DEF Kills
<1> QED  BY <1>2, FreeJob DEF Fits

LEMMA AtMostOne ==
    ASSUME NEW S \in SUBSET Sessions, NEW s \in S
    PROVE  Exclusive(S) <=> S \subseteq {s}
<1>1. IsFiniteSet(S)
  BY FiniteTables, FS_Subset
<1>2. Cardinality({s}) = 1 /\ IsFiniteSet({s})
  BY FS_Singleton
<1>3. ASSUME S \subseteq {s}
      PROVE  Exclusive(S)
  <2>1. S = {s}
    BY <1>3
  <2> QED  BY <1>2, <2>1 DEF Exclusive
<1>4. ASSUME Exclusive(S), ~ (S \subseteq {s})
      PROVE  FALSE
  <2>1. Cardinality({s}) <= Cardinality(S) /\ Cardinality({s}) # Cardinality(S)
    BY <1>1, <1>4, FS_Subset
  <2>2. Cardinality(S) \in Nat
    BY <1>1, FS_CardinalityType
  <2> QED  BY <1>2, <1>4, <2>1, <2>2 DEF Exclusive
<1> QED  BY <1>3, <1>4

-----------------------------------------------------------------------------
(* The statements *)

LEMMA InHand ==
    ASSUME RegisterInv, NEW r \in Slots
    PROVE  /\ TypeOK /\ KillInv(req[r]) /\ Shape(req[r]) /\ req[r] \in Jobs
           /\ req[r].own \subseteq Rows
           /\ req[r].at # "insert" => req[r].c \subseteq Rows
  BY JobOf DEF RegisterInv, KillInv, Known

(* Statements that change nothing but their own job.                       *)
LEMMA JobMoves ==
    ASSUME RegisterInv, NEW r \in Slots, req' \in [Slots -> Jobs],
           \A q \in Slots \ {r} : req'[q] = req[q],
           UNCHANGED <<row, link>>, up' \subseteq ContainerIds,
           session' \in [Sessions -> {"open", "closed", "deleted"}],
           revived' \subseteq ContainerIds, asked' \in Nat, mishaps' \in Nat,
           req'[r].own \subseteq Rows,
           \/ req'[r].at # "insert" /\ req'[r].c \subseteq Rows
           \/ /\ req'[r].at = "insert"
              /\ \A c \in req'[r].c : c \notin Rows /\ \A q \in Slots : c \notin req[q].c,
           KillInv(req[r])'
    PROVE  RegisterInv'
<1>1. TypeOK'
  BY DEF RegisterInv, TypeOK
<1>2. RowsGoOn
  BY DEF RowsGoOn
<1>3. Apart(Slots \ {r})
  BY ApartUntouched
<1>4. Fits(r)
  BY DEF Fits, Rows
<1> QED  BY <1>1, <1>2, <1>3, <1>4, RegisterKept

LEMMA JobOnly ==
    ASSUME RegisterInv, NEW r \in Slots, req' \in [Slots -> Jobs],
           \A q \in Slots \ {r} : req'[q] = req[q],
           UNCHANGED <<row, link>>, up' \subseteq ContainerIds,
           session' \in [Sessions -> {"open", "closed", "deleted"}],
           revived' = revived, asked' \in Nat, mishaps' \in Nat,
           req'[r].own \subseteq Rows,
           \/ req'[r].at # "insert" /\ req'[r].c \subseteq Rows
           \/ /\ req'[r].at = "insert"
              /\ \A c \in req'[r].c : c \notin Rows /\ \A q \in Slots : c \notin req[q].c,
           KillInv(req[r])'
    PROVE  RegisterInv'
<1>1. revived' \subseteq ContainerIds
  BY DEF RegisterInv, TypeOK
<1> QED  BY <1>1, JobMoves

LEMMA JobOver ==
    ASSUME RegisterInv, NEW r \in Slots, Finish(r),
           UNCHANGED <<row, link>>, up' \subseteq ContainerIds,
           session' \in [Sessions -> {"open", "closed", "deleted"}],
           revived' = revived, asked' \in Nat, mishaps' \in Nat
    PROVE  RegisterInv'
<1>1. /\ req' \in [Slots -> Jobs] /\ \A q \in Slots \ {r} : req'[q] = req[q]
      /\ req'[r] = Free
  BY Finishes DEF RegisterInv
<1> QED  BY <1>1, JobOnly, FreeKept, FreeJob

LEMMA ArrivesKeeps ==
    ASSUME RegisterInv, NEW r \in Slots, Arrives(r)
    PROVE  RegisterInv'
<1>1. TypeOK
  BY DEF RegisterInv
<1>2. UNCHANGED <<row, link, up, session, revived, mishaps>> /\ asked' \in Nat
  <2>1. UNCHANGED <<row, link, up, session, revived, mishaps>> /\ \E what : Start(r, what)
    BY DEF Arrives, CreateContainer, AttachContainer, ToolCall, DestroyContainer, KillSession
  <2>2. asked' = asked + 1
    BY <2>1 DEF Start
  <2> QED  BY <1>1, <2>1, <2>2 DEF TypeOK
<1>3. UNCHANGED <<row, link>> /\ up' \subseteq ContainerIds
      /\ session' \in [Sessions -> {"open", "closed", "deleted"}]
      /\ revived' = revived /\ asked' \in Nat /\ mishaps' \in Nat
  BY <1>1, <1>2 DEF TypeOK
<1>4. ASSUME NEW s \in Sessions \cup {NoSession}, NEW c \in ContainerIds,
             CreateContainer(r, s, c)
      PROVE  RegisterInv'
  <2>1. /\ req' \in [Slots -> Jobs] /\ \A q \in Slots \ {r} : req'[q] = req[q]
        /\ req'[r].does = "create" /\ req'[r].at = "insert" /\ req'[r].s = s
        /\ req'[r].c = {c} /\ req'[r].left = {} /\ req'[r].own = {}
    BY <1>1, <1>4, CreateMoves
  <2>2. KillInv(req[r])'
    <3>1. Shape(req[r])'
      BY <2>1 DEF Shape, Kills, OneContainer
    <3> QED  BY <2>1, <3>1, NoKill DEF Kills
  <2>3. \A d \in req'[r].c : d \notin Rows /\ \A q \in Slots : d \notin req[q].c
    BY <1>4, <2>1 DEF CreateContainer
  <2> QED  BY <1>3, <2>1, <2>2, <2>3, JobOnly
<1>5. ASSUME NEW s \in Sessions, NEW c \in ContainerIds, AttachContainer(r, s, c)
      PROVE  RegisterInv'
  <2>1. /\ req' \in [Slots -> Jobs] /\ \A q \in Slots \ {r} : req'[q] = req[q]
        /\ req'[r].does = "attach" /\ req'[r].at = "check" /\ req'[r].s = s
        /\ req'[r].c = {c} /\ req'[r].left = {} /\ req'[r].own = {} /\ c \in Rows
    BY <1>1, <1>5, AttachMoves DEF AttachContainer
  <2>2. KillInv(req[r])'
    <3>1. Shape(req[r])'
      BY <2>1 DEF Shape, Kills, OneContainer
    <3> QED  BY <2>1, <3>1, NoKill DEF Kills
  <2> QED  BY <1>3, <2>1, <2>2, JobOnly
<1>6. ASSUME NEW does \in Tools, NEW s \in Sessions, NEW c \in ContainerIds,
             ToolCall(r, does, s, c)
      PROVE  RegisterInv'
  <2>1. /\ req' \in [Slots -> Jobs] /\ \A q \in Slots \ {r} : req'[q] = req[q]
        /\ req'[r].does = does /\ req'[r].at = "require" /\ req'[r].s = s
        /\ req'[r].c = {c} /\ req'[r].left = {} /\ req'[r].own = {}
    BY <1>1, <1>6, ToolMoves
  <2>2. does \notin Kills /\ c \in Rows
    BY <1>6 DEF Tools, Kills, ToolCall
  <2>3. KillInv(req[r])'
    <3>1. Shape(req[r])'
      BY <2>1, <2>2 DEF Shape, OneContainer
    <3> QED  BY <2>1, <2>2, <3>1, NoKill
  <2> QED  BY <1>3, <2>1, <2>2, <2>3, JobOnly
<1>7. ASSUME NEW c \in ContainerIds, DestroyContainer(r, c)
      PROVE  RegisterInv'
  <2>1. /\ req' \in [Slots -> Jobs] /\ \A q \in Slots \ {r} : req'[q] = req[q]
        /\ req'[r].does = "destroy" /\ req'[r].at = "destroy"
        /\ req'[r].c = {c} /\ req'[r].left = {} /\ req'[r].own = {} /\ c \in Rows
    BY <1>1, <1>7, DestroyMoves DEF DestroyContainer
  <2>2. KillInv(req[r])'
    <3>1. Shape(req[r])'
      BY <2>1 DEF Shape, Kills, OneContainer
    <3> QED  BY <2>1, <3>1, NoKill DEF Kills
  <2> QED  BY <1>3, <2>1, <2>2, JobOnly
<1>8. ASSUME NEW does \in Kills, NEW s \in Sessions, KillSession(r, does, s)
      PROVE  RegisterInv'
  <2>1. /\ req' \in [Slots -> Jobs] /\ \A q \in Slots \ {r} : req'[q] = req[q]
        /\ req'[r].does = does /\ req'[r].at = "list" /\ req'[r].s = s
        /\ req'[r].c = {} /\ req'[r].left = {} /\ req'[r].own = {}
    BY <1>1, <1>8, KillMoves
  <2>2. KillInv(req[r])'
    <3>1. Shape(req[r])'
      BY <2>1 DEF Shape, OneContainer
    <3> QED  BY <2>1, <3>1 DEF KillInv, ListIsLinked, Spares, Leaves, Killing
  <2> QED  BY <1>3, <2>1, <2>2, JobOnly
<1> QED  BY <1>4, <1>5, <1>6, <1>7, <1>8 DEF Arrives

LEMMA CancelKeeps ==
    ASSUME RegisterInv, NEW r \in Slots, NEW c \in ContainerIds, CancelCommand(r, c)
    PROVE  RegisterInv'
<1>1. TypeOK /\ c \in Rows
  BY DEF RegisterInv, CancelCommand
<1>2. /\ UNCHANGED <<row, link>> /\ up' \subseteq ContainerIds
      /\ session' \in [Sessions -> {"open", "closed", "deleted"}]
      /\ revived' \subseteq ContainerIds /\ asked' \in Nat /\ mishaps' \in Nat
  BY <1>1 DEF CancelCommand, Start, TypeOK
<1>3. /\ req' \in [Slots -> Jobs] /\ \A q \in Slots \ {r} : req'[q] = req[q]
      /\ req'[r].does = "stop" /\ req'[r].at = "call"
      /\ req'[r].c = {c} /\ req'[r].left = {} /\ req'[r].own = {}
  BY <1>1, CancelMoves
<1>4. KillInv(req[r])'
  <2>1. Shape(req[r])'
    BY <1>3 DEF Shape, Kills, OneContainer
  <2> QED  BY <1>3, <2>1, NoKill DEF Kills
<1> QED  BY <1>1, <1>2, <1>3, <1>4, JobMoves

LEMMA LinkCheckKeeps ==
    ASSUME RegisterInv, NEW r \in Slots, LinkSessionChecks(r)
    PROVE  RegisterInv'
<1>1. UNCHANGED <<row, link, up, session, revived, asked, mishaps>> /\ At(r, "check")
  BY DEF LinkSessionChecks
<1>2. TypeOK /\ Shape(req[r]) /\ req[r] \in Jobs /\ req[r].own \subseteq Rows
      /\ req[r].c \subseteq Rows
  BY <1>1, InHand DEF At
<1>3. UNCHANGED <<row, link>> /\ up' \subseteq ContainerIds
      /\ session' \in [Sessions -> {"open", "closed", "deleted"}]
      /\ revived' = revived /\ asked' \in Nat /\ mishaps' \in Nat
  BY <1>1, <1>2 DEF TypeOK
<1>4. CASE GoTo(r, "link")
  <2>1. /\ req' \in [Slots -> Jobs] /\ \A q \in Slots \ {r} : req'[q] = req[q]
        /\ req'[r] = [req[r] EXCEPT !.at = "link"]
    BY <1>2, <1>4, Goes, PlacesAre
  <2>2. /\ req'[r].at = "link" /\ req'[r].does = req[r].does /\ req'[r].s = req[r].s
        /\ req'[r].c = req[r].c /\ req'[r].left = req[r].left /\ req'[r].own = req[r].own
    BY <1>2, <2>1, PlaceOnly
  <2>3. Shape(req[r])' /\ req'[r].does \notin Kills
    BY <1>1, <1>2, <2>2 DEF Shape, OneContainer, At
  <2> QED  BY <1>2, <1>3, <2>1, <2>2, <2>3, NoKill, JobOnly
<1>5. CASE Finish(r)
  BY <1>3, <1>5, JobOver
<1> QED  BY <1>4, <1>5 DEF LinkSessionChecks

LEMMA RequireKeeps ==
    ASSUME RegisterInv, NEW r \in Slots, RequireActiveSessionContainer(r)
    PROVE  RegisterInv'
<1>1. UNCHANGED <<row, link, up, session, revived, asked, mishaps>> /\ At(r, "require")
  BY DEF RequireActiveSessionContainer
<1>2. TypeOK /\ Shape(req[r]) /\ req[r] \in Jobs /\ req[r].own \subseteq Rows
      /\ req[r].c \subseteq Rows
  BY <1>1, InHand DEF At
<1>3. UNCHANGED <<row, link>> /\ up' \subseteq ContainerIds
      /\ session' \in [Sessions -> {"open", "closed", "deleted"}]
      /\ revived' = revived /\ asked' \in Nat /\ mishaps' \in Nat
  BY <1>1, <1>2 DEF TypeOK
<1>4. ASSUME NEW place \in {"call", "destroy"}, GoTo(r, place)
      PROVE  RegisterInv'
  <2>1. /\ req' \in [Slots -> Jobs] /\ \A q \in Slots \ {r} : req'[q] = req[q]
        /\ req'[r] = [req[r] EXCEPT !.at = place]
    BY <1>2, <1>4, Goes, PlacesAre
  <2>2. /\ req'[r].at = place /\ req'[r].does = req[r].does /\ req'[r].s = req[r].s
        /\ req'[r].c = req[r].c /\ req'[r].left = req[r].left /\ req'[r].own = req[r].own
    BY <1>2, <2>1, PlaceOnly
  <2>3. Shape(req[r])' /\ req'[r].does \notin Kills
    BY <1>1, <1>2, <2>2 DEF Shape, OneContainer, At
  <2> QED  BY <1>2, <1>3, <2>1, <2>2, <2>3, NoKill, JobOnly
<1>5. CASE Finish(r)
  BY <1>3, <1>5, JobOver
<1> QED  BY <1>4, <1>5 DEF RequireActiveSessionContainer

LEMMA CallKeeps ==
    ASSUME RegisterInv, NEW r \in Slots, CallInstance(r)
    PROVE  RegisterInv'
<1>1. UNCHANGED <<row, link, session, revived, asked, mishaps>> /\ At(r, "call")
  BY DEF CallInstance
<1>2. TypeOK /\ Shape(req[r]) /\ req[r] \in Jobs /\ req[r].own \subseteq Rows
      /\ req[r].c \subseteq Rows /\ req[r].c \subseteq ContainerIds
  BY <1>1, InHand, JobFields DEF At
<1>3. up' \subseteq ContainerIds
      /\ session' \in [Sessions -> {"open", "closed", "deleted"}]
      /\ asked' \in Nat /\ mishaps' \in Nat
  BY <1>1, <1>2 DEF TypeOK, CallInstance
<1>4. /\ req' \in [Slots -> Jobs] /\ \A q \in Slots \ {r} : req'[q] = req[q]
      /\ req'[r] = [req[r] EXCEPT !.at = "answer"]
  BY <1>2, Goes, PlacesAre DEF CallInstance
<1>5. /\ req'[r].at = "answer" /\ req'[r].does = req[r].does /\ req'[r].s = req[r].s
      /\ req'[r].c = req[r].c /\ req'[r].left = req[r].left /\ req'[r].own = req[r].own
  BY <1>2, <1>4, PlaceOnly
<1>6. Shape(req[r])' /\ req'[r].does \notin Kills
  BY <1>1, <1>2, <1>5 DEF Shape, OneContainer, At
<1> QED  BY <1>1, <1>2, <1>3, <1>4, <1>5, <1>6, NoKill, JobOnly

LEMMA AnswerKeeps ==
    ASSUME RegisterInv, NEW r \in Slots, ReadAnswer(r)
    PROVE  RegisterInv'
<1>1. UNCHANGED <<row, link, up, session, revived, asked, mishaps>> /\ At(r, "answer")
  BY DEF ReadAnswer
<1>2. TypeOK /\ Shape(req[r]) /\ req[r] \in Jobs /\ req[r].own \subseteq Rows
      /\ req[r].c \subseteq Rows
  BY <1>1, InHand DEF At
<1>3. UNCHANGED <<row, link>> /\ up' \subseteq ContainerIds
      /\ session' \in [Sessions -> {"open", "closed", "deleted"}]
      /\ revived' = revived /\ asked' \in Nat /\ mishaps' \in Nat
  BY <1>1, <1>2 DEF TypeOK
<1>4. CASE GoTo(r, "call")
  <2>1. /\ req' \in [Slots -> Jobs] /\ \A q \in Slots \ {r} : req'[q] = req[q]
        /\ req'[r] = [req[r] EXCEPT !.at = "call"]
    BY <1>2, <1>4, Goes, PlacesAre
  <2>2. /\ req'[r].at = "call" /\ req'[r].does = req[r].does /\ req'[r].s = req[r].s
        /\ req'[r].c = req[r].c /\ req'[r].left = req[r].left /\ req'[r].own = req[r].own
    BY <1>2, <2>1, PlaceOnly
  <2>3. Shape(req[r])' /\ req'[r].does \notin Kills
    BY <1>1, <1>2, <2>2 DEF Shape, OneContainer, At
  <2> QED  BY <1>2, <1>3, <2>1, <2>2, <2>3, NoKill, JobOnly
<1>5. CASE Finish(r)
  BY <1>3, <1>5, JobOver
<1> QED  BY <1>4, <1>5 DEF ReadAnswer

LEMMA AgainKeeps ==
    ASSUME RegisterInv, NEW r \in Slots, CallAgain(r)
    PROVE  RegisterInv'
<1>1. TypeOK /\ req[r].c \subseteq ContainerIds
  BY InHand, JobFields
<1>2. up' \subseteq ContainerIds /\ Finish(r) /\ UNCHANGED <<row, link, session, revived, asked, mishaps>>
  BY <1>1 DEF CallAgain, TypeOK
<1>3. session' \in [Sessions -> {"open", "closed", "deleted"}] /\ asked' \in Nat /\ mishaps' \in Nat
  BY <1>1, <1>2 DEF TypeOK
<1> QED  BY <1>2, <1>3, JobOver

LEMMA LostKeeps ==
    ASSUME RegisterInv, NEW r \in Slots, RequestLost(r)
    PROVE  RegisterInv'
<1>1. TypeOK
  BY DEF RegisterInv
<1>2. Finish(r) /\ UNCHANGED <<row, link, up, session, revived, asked>> /\ mishaps' \in Nat
  BY <1>1 DEF RequestLost, TypeOK
<1>3. /\ session' \in [Sessions -> {"open", "closed", "deleted"}] /\ asked' \in Nat
      /\ up' \subseteq ContainerIds
  BY <1>1, <1>2 DEF TypeOK
<1> QED  BY <1>2, <1>3, JobOver

LEMMA DestroyKeeps ==
    ASSUME RegisterInv, NEW r \in Slots, DestroyInstance(r)
    PROVE  RegisterInv'
<1>1. UNCHANGED <<row, link, session, revived, asked, mishaps>> /\ At(r, "destroy")
  BY DEF DestroyInstance
<1>2. TypeOK /\ KillInv(req[r]) /\ req[r] \in Jobs /\ req[r].own \subseteq Rows
      /\ req[r].c \subseteq Rows
  BY <1>1, InHand DEF At
<1>3. up' \subseteq ContainerIds
      /\ session' \in [Sessions -> {"open", "closed", "deleted"}]
      /\ asked' \in Nat /\ mishaps' \in Nat
  BY <1>1, <1>2 DEF TypeOK, DestroyInstance
<1>4. /\ req' \in [Slots -> Jobs] /\ \A q \in Slots \ {r} : req'[q] = req[q]
      /\ req'[r] = [req[r] EXCEPT !.at = "mark"]
  BY <1>2, Goes, PlacesAre DEF DestroyInstance
<1>5. /\ req'[r].at = "mark" /\ req'[r].does = req[r].does /\ req'[r].s = req[r].s
      /\ req'[r].c = req[r].c /\ req'[r].left = req[r].left /\ req'[r].own = req[r].own
      /\ req'[r].late = req[r].late /\ req'[r].met = req[r].met
  BY <1>2, <1>4, PlaceOnly
<1>6. KillInv(req[r])'
  <2>1. Shape(req[r])'
    BY <1>1, <1>2, <1>5 DEF KillInv, Shape, OneContainer, At
  <2>2. ListIsLinked(req[r])'
    BY <1>1, <1>2, <1>5 DEF KillInv, ListIsLinked
  <2>3. Spares(req[r])'
    BY <1>1, <1>2, <1>5 DEF KillInv, Spares, Linked, At
  <2>4. Leaves(req[r])'
    BY <1>1, <1>2, <1>5 DEF KillInv, Leaves, Linked, At, Killing
  <2> QED  BY <2>1, <2>2, <2>3, <2>4 DEF KillInv
<1> QED  BY <1>1, <1>2, <1>3, <1>4, <1>5, <1>6, JobOnly

LEMMA FailsKeeps ==
    ASSUME RegisterInv, NEW r \in Slots, DestroyFails(r)
    PROVE  RegisterInv'
<1>1. UNCHANGED <<row, link, up, session, revived, asked>> /\ At(r, "destroy")
  BY DEF DestroyFails
<1>2. TypeOK /\ KillInv(req[r]) /\ req[r] \in Jobs /\ req[r].own \subseteq Rows
  BY InHand
<1>3. up' \subseteq ContainerIds
      /\ session' \in [Sessions -> {"open", "closed", "deleted"}]
      /\ asked' \in Nat /\ mishaps' \in Nat
  BY <1>1, <1>2 DEF TypeOK, DestroyFails
<1>4. CASE req[r].does \in Kills
  <2>1. /\ req' \in [Slots -> Jobs] /\ \A q \in Slots \ {r} : req'[q] = req[q]
        /\ req'[r].at = "next" /\ req'[r].does = req[r].does /\ req'[r].s = req[r].s
        /\ req'[r].c = {} /\ req'[r].left = req[r].left
        /\ req'[r].own = req[r].own /\ req'[r].met
    BY <1>2, <1>4, FailMoves
  <2>2. Shape(req[r])'
    BY <1>2, <1>4, <2>1 DEF KillInv, Shape, OneContainer
  <2>3. KillInv(req[r])'
    BY <2>1, <2>2 DEF KillInv, ListIsLinked, Spares, Leaves
  <2> QED  BY <1>1, <1>2, <1>3, <2>1, <2>3, JobOnly
<1>5. CASE req[r].does \notin Kills
  <2>1. /\ req' \in [Slots -> Jobs] /\ \A q \in Slots \ {r} : req'[q] = req[q]
        /\ req'[r] = Free
    BY <1>2, <1>5, FailMoves
  <2> QED  BY <1>1, <1>3, <2>1, FreeKept, FreeJob, JobOnly
<1> QED  BY <1>4, <1>5

LEMMA ListKeeps ==
    ASSUME RegisterInv, NEW r \in Slots, ListForSession(r)
    PROVE  RegisterInv'
<1>1. UNCHANGED <<row, link, up, session, revived, asked, mishaps>> /\ At(r, "list")
  BY DEF ListForSession
<1>2. TypeOK /\ Shape(req[r]) /\ req[r] \in Jobs
  BY InHand
<1>3. up' \subseteq ContainerIds
      /\ session' \in [Sessions -> {"open", "closed", "deleted"}]
      /\ asked' \in Nat /\ mishaps' \in Nat
  BY <1>1, <1>2 DEF TypeOK
<1>4. /\ req' \in [Slots -> Jobs] /\ \A q \in Slots \ {r} : req'[q] = req[q]
      /\ req'[r].at = "next" /\ req'[r].does = req[r].does /\ req'[r].s = req[r].s
      /\ req'[r].c = req[r].c
      /\ req'[r].left = Owned(req[r].s) /\ req'[r].own = Owned(req[r].s)
  BY <1>2, ListMoves
<1>5. req[r].does \in Kills /\ req[r].s \in Sessions /\ req[r].c = {}
  BY <1>1, <1>2 DEF Shape, At, OneContainer
<1>6. \A c \in Owned(req[r].s) : c \in ContainerIds /\ <<req[r].s, c>> \in link /\ c \in Rows
  BY <1>5 DEF Owned, Linked, RegisterInv, Known
<1>7. KillInv(req[r])'
  <2>1. Shape(req[r])'
    BY <1>4, <1>5 DEF Shape, OneContainer
  <2>2. ListIsLinked(req[r])'
    BY <1>1, <1>4, <1>6 DEF ListIsLinked
  <2>3. Spares(req[r])' /\ Leaves(req[r])'
    BY <1>4 DEF Spares, Leaves
  <2> QED  BY <2>1, <2>2, <2>3 DEF KillInv
<1> QED  BY <1>1, <1>3, <1>4, <1>5, <1>6, <1>7, JobOnly

LEMMA InsertKeeps ==
    ASSUME RegisterInv, NEW r \in Slots, InsertContainer(r)
    PROVE  RegisterInv'
<1>1. UNCHANGED <<link, up, session, revived, asked, mishaps>> /\ At(r, "insert")
  BY DEF InsertContainer
<1>2. TypeOK /\ Shape(req[r]) /\ req[r] \in Jobs /\ req[r].own \subseteq Rows
  BY InHand
<1>3. up' \subseteq ContainerIds
      /\ session' \in [Sessions -> {"open", "closed", "deleted"}]
      /\ asked' \in Nat /\ mishaps' \in Nat
  BY <1>1, <1>2 DEF TypeOK
<1>4. CASE /\ row' = [c \in ContainerIds |-> IF c \in req[r].c THEN "active" ELSE row[c]]
           /\ GoTo(r, IF req[r].s = NoSession THEN "call" ELSE "check")
  <2>1. /\ req' \in [Slots -> Jobs] /\ \A q \in Slots \ {r} : req'[q] = req[q]
        /\ req'[r].at = IF req[r].s = NoSession THEN "call" ELSE "check"
        /\ req'[r].does = req[r].does /\ req'[r].s = req[r].s /\ req'[r].c = req[r].c
        /\ req'[r].left = req[r].left /\ req'[r].own = req[r].own
    BY <1>2, <1>4, InsertMoves
  <2>2. row' = [c \in ContainerIds |-> IF c \in req[r].c THEN "active" ELSE row[c]]
    BY <1>4
  <2>3. \A c \in req[r].c : row[c] = "none"
    BY <1>1 DEF RegisterInv, Reserved, At
  <2>4. TypeOK'
    <3>1. row' \in [ContainerIds -> {"none", "active", "destroyed"}]
      BY <1>2, <2>2 DEF TypeOK
    <3> QED  BY <1>1, <1>2, <2>1, <3>1 DEF TypeOK
  <2>5. RowsGoOn
    BY <2>2, <2>3 DEF RowsGoOn
  <2>6. Apart(Slots \ {r})
    BY <1>1, <2>1, ApartUntouched
  <2>7. req[r].c \subseteq ContainerIds
    BY <1>2, JobFields
  <2>8. req[r].c \subseteq Rows'
    BY <2>2, <2>7 DEF Rows
  <2>9. Fits(r)
    <3>1. \A c \in ContainerIds : row'[c] # row[c] => c \in req[r].c
      BY <2>2
    <3> QED  BY <1>1, <1>2, <2>1, <2>8, <3>1 DEF Fits
  <2>10. KillInv(req[r])'
    <3>1. Shape(req[r])' /\ req'[r].does \notin Kills
      <4>1. req'[r].does \notin Kills /\ \E c \in ContainerIds : req'[r].c = {c}
        BY <1>1, <1>2, <2>1 DEF Shape, OneContainer, At
      <4>2. req'[r].at = "check" => req'[r].s \in Sessions
        BY <1>2, <2>1, JobFields
      <4>3. req'[r].at \in {"call", "check"} /\ req'[r].left \subseteq req'[r].own
        BY <1>2, <2>1 DEF Shape
      <4> QED  BY <4>1, <4>2, <4>3 DEF Shape, OneContainer
    <3> QED  BY <3>1, NoKill
  <2> QED  BY <2>4, <2>5, <2>6, <2>9, <2>10, RegisterKept
<1>5. CASE row' = row /\ Finish(r)
  BY <1>1, <1>3, <1>5, JobOver
<1> QED  BY <1>4, <1>5 DEF InsertContainer

LEMMA LinkApart ==
    ASSUME RegisterInv, NEW r \in Slots, LinkSessionInserts(r), session[req[r].s] # "deleted"
    PROVE  Apart(Slots \ {r})
<1>1. link' = link \cup ({req[r].s} \X req[r].c) /\ At(r, "link")
  BY DEF LinkSessionInserts
<1>2. TypeOK /\ Shape(req[r])
  BY InHand
<1>3. req[r].s \in Sessions /\ \E c \in ContainerIds : req[r].c = {c}
  BY <1>1, <1>2 DEF Shape, OneContainer, At
<1>4. \A q \in Slots \ {r} :
        /\ req'[q].does = req[q].does /\ req'[q].at = req[q].at /\ req'[q].s = req[q].s
        /\ req'[q].c = req[q].c /\ req'[q].left = req[q].left
        /\ req'[q].own = req[q].own /\ req'[q].met = req[q].met
        /\ req[q].late \subseteq req'[q].late
        /\ AboutToDestroy(q) /\ req[q].c = req[r].c => req[r].s \in req'[q].late
  BY <1>2, <1>3, LinkMoves
<1>5. ASSUME NEW q \in Slots \ {r}, NEW s \in Sessions, NEW c \in req[q].c,
             AboutToDestroy(q), <<s, c>> \in link'
      PROVE  <<s, c>> \in link \/ s \in req'[q].late
  <2>1. Shape(req[q])
    BY InHand
  <2>2. PICK d \in ContainerIds : req[q].c = {d}
    BY <1>5, <2>1 DEF Shape, OneContainer, AboutToDestroy
  <2>3. CASE <<s, c>> \in link
    BY <2>3
  <2>4. CASE <<s, c>> \notin link
    <3>1. s = req[r].s /\ c \in req[r].c
      BY <1>1, <1>5, <2>4
    <3>2. req[q].c = req[r].c
      BY <1>3, <1>5, <2>2, <3>1
    <3> QED  BY <1>4, <1>5, <3>1, <3>2
  <2> QED  BY <2>3, <2>4
<1>6. ASSUME NEW q \in Slots \ {r}, NEW s \in Sessions, NEW c \in req[q].own, <<s, c>> \in link
      PROVE  <<s, c>> \in link'
  BY <1>1, <1>6
<1> QED  BY <1>4, <1>5, <1>6 DEF Apart

LEMMA LinkKeeps ==
    ASSUME RegisterInv, NEW r \in Slots, LinkSessionInserts(r)
    PROVE  RegisterInv'
<1>1. UNCHANGED <<row, up, session, revived, asked, mishaps>> /\ At(r, "link")
  BY DEF LinkSessionInserts
<1>2. TypeOK /\ Shape(req[r]) /\ req[r] \in Jobs /\ req[r].own \subseteq Rows
      /\ req[r].c \subseteq Rows
  BY <1>1, InHand DEF At
<1>3. up' \subseteq ContainerIds
      /\ session' \in [Sessions -> {"open", "closed", "deleted"}]
      /\ asked' \in Nat /\ mishaps' \in Nat
  BY <1>1, <1>2 DEF TypeOK
<1>4. req[r].s \in Sessions /\ req[r].does \notin Kills /\ \E c \in ContainerIds : req[r].c = {c}
  BY <1>1, <1>2 DEF Shape, OneContainer, At
<1>5. CASE session[req[r].s] = "deleted"
  <2>1. Finish(r) /\ link' = link
    BY <1>5 DEF LinkSessionInserts
  <2> QED  BY <1>1, <1>3, <2>1, JobOver
<1>6. CASE session[req[r].s] # "deleted"
  <2>1. link' = link \cup ({req[r].s} \X req[r].c)
    BY <1>6 DEF LinkSessionInserts
  <2>2. /\ req' \in [Slots -> Jobs]
        /\ \A q \in Slots \ {r} :
             /\ req'[q].does = req[q].does /\ req'[q].at = req[q].at /\ req'[q].s = req[q].s
             /\ req'[q].c = req[q].c /\ req'[q].left = req[q].left
             /\ req'[q].own = req[q].own /\ req'[q].met = req[q].met
             /\ req[q].late \subseteq req'[q].late
             /\ AboutToDestroy(q) /\ req[q].c = req[r].c => req[r].s \in req'[q].late
        /\ req[r].does # "create" => req'[r] = Free
        /\ req[r].does = "create" =>
             /\ req'[r].at = "call" /\ req'[r].does = "create" /\ req'[r].s = req[r].s
             /\ req'[r].c = req[r].c /\ req'[r].left = req[r].left
             /\ req'[r].own = req[r].own
    BY <1>2, <1>4, <1>6, LinkMoves
  <2>3. TypeOK'
    <3>1. link' \subseteq Sessions \X ContainerIds
      BY <1>2, <1>4, <2>1 DEF TypeOK
    <3> QED  BY <1>1, <1>2, <2>2, <3>1 DEF TypeOK
  <2>4. RowsGoOn
    BY <1>1 DEF RowsGoOn
  <2>5. Apart(Slots \ {r})
    BY <1>6, LinkApart
  <2>6. \A s \in Sessions, c \in ContainerIds : <<s, c>> \in link' => <<s, c>> \in link \/ c \in Rows
    BY <1>2, <2>1
  <2>7. CASE req[r].does # "create"
    <3>1. req'[r] = Free
      BY <2>2, <2>7
    <3> QED  BY <1>1, <2>3, <2>4, <2>5, <2>6, <3>1, FreeKept, RegisterKept
  <2>8. CASE req[r].does = "create"
    <3>1. /\ req'[r].at = "call" /\ req'[r].does = "create" /\ req'[r].s = req[r].s
          /\ req'[r].c = req[r].c /\ req'[r].left = req[r].left
          /\ req'[r].own = req[r].own
      BY <2>2, <2>8
    <3>2. Shape(req[r])'
      BY <1>2, <1>4, <3>1 DEF Shape, OneContainer, Kills
    <3>3. KillInv(req[r])'
      BY <3>1, <3>2, NoKill DEF Kills
    <3>4. Fits(r)
      BY <1>1, <1>2, <2>6, <3>1 DEF Fits, Rows
    <3> QED  BY <2>3, <2>4, <2>5, <3>3, <3>4, RegisterKept
  <2> QED  BY <2>7, <2>8
<1> QED  BY <1>5, <1>6

LEMMA MarkKeeps ==
    ASSUME RegisterInv, NEW r \in Slots, MarkDestroyed(r)
    PROVE  RegisterInv'
<1>1. UNCHANGED <<link, up, session, asked, mishaps>> /\ At(r, "mark")
      /\ row' = [c \in ContainerIds |-> IF c \in req[r].c THEN "destroyed" ELSE row[c]]
      /\ revived' = revived \cup (req[r].c \cap (up \cup AboutToCall))
  BY DEF MarkDestroyed
<1>2. TypeOK /\ KillInv(req[r]) /\ req[r] \in Jobs /\ req[r].own \subseteq Rows
      /\ req[r].c \subseteq ContainerIds
  BY InHand, JobFields
<1>3. /\ req' \in [Slots -> Jobs] /\ \A q \in Slots \ {r} : req'[q] = req[q]
      /\ req[r].does \notin Kills => req'[r] = Free
      /\ req[r].does \in Kills =>
           /\ req'[r].at = "next" /\ req'[r].does = req[r].does /\ req'[r].s = req[r].s
           /\ req'[r].c = {} /\ req'[r].left = req[r].left
           /\ req'[r].own = req[r].own /\ req'[r].met = req[r].met
  BY <1>2, MarkMoves
<1>4. TypeOK'
  <2>1. row' \in [ContainerIds -> {"none", "active", "destroyed"}]
    BY <1>1, <1>2 DEF TypeOK
  <2>2. revived' \subseteq ContainerIds
    BY <1>1, <1>2 DEF TypeOK
  <2> QED  BY <1>1, <1>2, <1>3, <2>1, <2>2 DEF TypeOK
<1>5. RowsGoOn
  BY <1>1 DEF RowsGoOn
<1>6. Apart(Slots \ {r})
  BY <1>1, <1>3, ApartUntouched
<1>7. \A c \in ContainerIds : row'[c] # row[c] => c \in req[r].c
  BY <1>1
<1>8. CASE req[r].does \notin Kills
  <2>1. req'[r] = Free
    BY <1>3, <1>8
  <2>2. Fits(r)
    BY <1>1, <1>7, <2>1, FreeJob DEF Fits
  <2> QED  BY <1>4, <1>5, <1>6, <2>1, <2>2, FreeKept, RegisterKept
<1>9. CASE req[r].does \in Kills
  <2>1. /\ req'[r].at = "next" /\ req'[r].does = req[r].does /\ req'[r].s = req[r].s
        /\ req'[r].c = {} /\ req'[r].left = req[r].left
        /\ req'[r].own = req[r].own /\ req'[r].met = req[r].met
    BY <1>3, <1>9
  <2>2. Fits(r)
    BY <1>1, <1>2, <1>7, <2>1 DEF Fits
  <2>3. Shape(req[r])'
    BY <1>2, <1>9, <2>1 DEF KillInv, Shape, OneContainer
  <2>4. ListIsLinked(req[r])'
    BY <1>1, <1>2, <2>1 DEF KillInv, ListIsLinked
  <2>5. Spares(req[r])'
    BY <2>1 DEF Spares
  <2>6. Leaves(req[r])'
    <3>1. SUFFICES ASSUME ~ req[r].met, NEW c \in req[r].own \ req[r].left
                   PROVE  row'[c] = "destroyed" \/ Linked(c)' \ {req[r].s} # {}
      BY <2>1 DEF Leaves
    <3>2. \/ c \in req[r].c
          \/ row[c] = "destroyed"
          \/ Linked(c) \ {req[r].s} # {}
      BY <1>1, <1>2, <1>9, <3>1 DEF KillInv, Leaves, Killing, At
    <3>3. c \in ContainerIds /\ Linked(c)' = Linked(c)
      BY <1>1, <1>2 DEF Rows, Linked
    <3> QED  BY <1>1, <3>2, <3>3
  <2>7. KillInv(req[r])'
    BY <2>3, <2>4, <2>5, <2>6 DEF KillInv
  <2> QED  BY <1>4, <1>5, <1>6, <2>2, <2>7, RegisterKept
<1> QED  BY <1>8, <1>9

(* A container that is counted as the session's own has no other link, and *)
(* one that is not has another.                                            *)
LEMMA CountKeeps ==
    ASSUME RegisterInv, NEW r \in Slots, CountLinks(r)
    PROVE  RegisterInv'
<1>1. UNCHANGED <<row, link, up, session, revived, asked, mishaps>> /\ At(r, "next")
  BY DEF CountLinks
<1>2. TypeOK /\ KillInv(req[r]) /\ req[r] \in Jobs /\ req[r].own \subseteq Rows
      /\ req[r].left \subseteq req[r].own
  BY InHand DEF Shape
<1>3. up' \subseteq ContainerIds
      /\ session' \in [Sessions -> {"open", "closed", "deleted"}]
      /\ asked' \in Nat /\ mishaps' \in Nat
  BY <1>1, <1>2 DEF TypeOK
<1>4. req[r].does \in Kills /\ req[r].s \in Sessions /\ req[r].c = {}
  BY <1>1, <1>2 DEF KillInv, Shape, At, OneContainer
<1>5. PICK c \in req[r].left :
         /\ req' \in [Slots -> Jobs] /\ \A q \in Slots \ {r} : req'[q] = req[q]
         /\ req'[r].at = IF Exclusive(Linked(c)) THEN "destroy" ELSE "unlink"
         /\ req'[r].does = req[r].does /\ req'[r].s = req[r].s
         /\ req'[r].c = {c} /\ req'[r].left = req[r].left \ {c}
         /\ req'[r].own = req[r].own
         /\ req'[r].late = req[r].late /\ req'[r].met = req[r].met
  BY <1>2, CountMoves
<1>6. c \in Rows /\ c \in ContainerIds /\ c \in req[r].own
  BY <1>2, <1>5 DEF Rows
<1>7. /\ req'[r].at \in {"destroy", "unlink"}
      /\ req'[r].at = "destroy" => Exclusive(Linked(c))
      /\ req'[r].at = "unlink" => ~ Exclusive(Linked(c))
  BY <1>5
<1>8. ~ req[r].met => req[r].s \in Linked(c)
  BY <1>2, <1>4, <1>5 DEF KillInv, ListIsLinked, Linked
<1>9. Linked(c) \in SUBSET Sessions
  BY DEF Linked
<1>10. \A d : Linked(d)' = Linked(d)
  BY <1>1 DEF Linked
<1>11. Shape(req[r])'
  BY <1>2, <1>4, <1>5, <1>6, <1>7 DEF Shape, OneContainer
<1>12. ListIsLinked(req[r])'
  BY <1>1, <1>2, <1>5 DEF KillInv, ListIsLinked
<1>13. Spares(req[r])'
  <2>1. SUFFICES ASSUME ~ req[r].met, Exclusive(Linked(c))
                 PROVE  Linked(c) \subseteq {req[r].s}
    BY <1>5, <1>7, <1>10 DEF Spares
  <2> QED  BY <1>8, <1>9, <2>1, AtMostOne
<1>14. Leaves(req[r])'
  <2>1. SUFFICES ASSUME ~ req[r].met, NEW d \in req[r].own, d \notin req[r].left \/ d = c
                 PROVE  \/ d = c /\ req'[r].at # "unlink"
                        \/ row[d] = "destroyed"
                        \/ Linked(d) \ {req[r].s} # {}
    BY <1>1, <1>5, <1>10 DEF Leaves
  <2>2. CASE d = c
    BY <1>7, <1>8, <1>9, <2>1, <2>2, AtMostOne
  <2>3. CASE d \notin req[r].left
    BY <1>1, <1>2, <1>4, <2>1, <2>3 DEF KillInv, Leaves, Killing, At
  <2> QED  BY <2>1, <2>2, <2>3
<1>15. KillInv(req[r])'
  BY <1>11, <1>12, <1>13, <1>14 DEF KillInv
<1>16. req'[r].at # "insert" /\ req'[r].c \subseteq Rows /\ req'[r].own \subseteq Rows
  BY <1>2, <1>5, <1>6, <1>7
<1> QED  BY <1>1, <1>3, <1>5, <1>15, <1>16, JobOnly

LEMMA UnlinkKeeps ==
    ASSUME RegisterInv, NEW r \in Slots, UnlinkShared(r)
    PROVE  RegisterInv'
<1>1. UNCHANGED <<row, up, session, revived, asked, mishaps>> /\ At(r, "unlink")
      /\ link' = link \ ({req[r].s} \X req[r].c)
  BY DEF UnlinkShared
<1>2. TypeOK /\ KillInv(req[r]) /\ Shape(req[r]) /\ req[r] \in Jobs /\ req[r].own \subseteq Rows
  BY InHand
<1>3. /\ req' \in [Slots -> Jobs]
      /\ \A q \in Slots \ {r} :
            req'[q] = WithoutLinks({req[r].s} \X req[r].c, Slots \ {r})[q]
      /\ req'[r].at = "next" /\ req'[r].does = req[r].does /\ req'[r].s = req[r].s
      /\ req'[r].c = {} /\ req'[r].left = req[r].left /\ req'[r].own = req[r].own
      /\ req[r].met => req'[r].met
  BY <1>2, UnlinkMoves
<1>4. req[r].does \in Kills /\ req[r].s \in Sessions /\ req[r].c \cap req[r].left = {}
  BY <1>1, <1>2 DEF Shape, At, OneContainer
<1>5. TypeOK'
  BY <1>1, <1>2, <1>3 DEF TypeOK
<1>6. RowsGoOn
  BY <1>1 DEF RowsGoOn
<1>7. Apart(Slots \ {r})
  BY <1>1, <1>2, <1>3, ApartLess
<1>8. Fits(r)
  BY <1>1, <1>2, <1>3 DEF Fits
<1>9. Shape(req[r])'
  BY <1>2, <1>3, <1>4 DEF Shape, OneContainer
<1>10. ListIsLinked(req[r])'
  BY <1>1, <1>2, <1>3, <1>4 DEF KillInv, ListIsLinked
<1>11. Spares(req[r])'
  BY <1>3 DEF Spares
<1>12. Leaves(req[r])'
  <2>1. SUFFICES ASSUME ~ req[r].met, NEW c \in req[r].own \ req[r].left
                 PROVE  row[c] = "destroyed" \/ Linked(c)' \ {req[r].s} # {}
    BY <1>1, <1>3 DEF Leaves
  <2>2. row[c] = "destroyed" \/ Linked(c) \ {req[r].s} # {}
    BY <1>1, <1>2, <1>4, <2>1 DEF KillInv, Leaves, Killing, At
  <2>3. \A s \in Linked(c) : s # req[r].s => s \in Linked(c)'
    BY <1>1 DEF Linked
  <2> QED  BY <2>2, <2>3
<1>13. KillInv(req[r])'
  BY <1>9, <1>10, <1>11, <1>12 DEF KillInv
<1> QED  BY <1>5, <1>6, <1>7, <1>8, <1>13, RegisterKept

LEMMA ClosedKeeps ==
    ASSUME RegisterInv, NEW r \in Slots, MarkClosed(r)
    PROVE  RegisterInv'
<1>1. UNCHANGED <<row, link, up, revived, asked, mishaps>> /\ At(r, "next") /\ req[r].left = {}
  BY DEF MarkClosed
<1>2. TypeOK /\ KillInv(req[r]) /\ Shape(req[r]) /\ req[r] \in Jobs /\ req[r].own \subseteq Rows
  BY InHand
<1>3. up' \subseteq ContainerIds
      /\ session' \in [Sessions -> {"open", "closed", "deleted"}]
      /\ asked' \in Nat /\ mishaps' \in Nat
  <2>1. session' \in [Sessions -> {"open", "closed", "deleted"}]
    BY <1>2 DEF MarkClosed, TypeOK
  <2> QED  BY <1>1, <1>2, <2>1 DEF TypeOK
<1>4. CASE GoTo(r, "delete")
  <2>1. /\ req' \in [Slots -> Jobs] /\ \A q \in Slots \ {r} : req'[q] = req[q]
        /\ req'[r] = [req[r] EXCEPT !.at = "delete"]
    BY <1>2, <1>4, Goes, PlacesAre
  <2>2. /\ req'[r].at = "delete" /\ req'[r].does = req[r].does /\ req'[r].s = req[r].s
        /\ req'[r].c = req[r].c /\ req'[r].left = req[r].left /\ req'[r].own = req[r].own
    BY <1>2, <2>1, PlaceOnly
  <2>3. req[r].does \in Kills /\ req[r].s \in Sessions /\ req[r].c = {}
    BY <1>1, <1>2 DEF Shape, At, OneContainer
  <2>4. Shape(req[r])'
    BY <1>2, <2>2, <2>3 DEF Shape, OneContainer
  <2>5. KillInv(req[r])'
    BY <1>1, <2>2, <2>4 DEF KillInv, ListIsLinked, Spares, Leaves, Killing
  <2> QED  BY <1>1, <1>2, <1>3, <2>1, <2>2, <2>3, <2>5, JobOnly
<1>5. CASE Finish(r)
  BY <1>1, <1>3, <1>5, JobOver
<1> QED  BY <1>4, <1>5 DEF MarkClosed

LEMMA DeleteKeeps ==
    ASSUME RegisterInv, NEW r \in Slots, DeleteSession(r)
    PROVE  RegisterInv'
<1>1. UNCHANGED <<row, up, revived, asked, mishaps>> /\ At(r, "delete")
      /\ link' = link \ {l \in link : l[1] = req[r].s}
      /\ session' = [session EXCEPT ![req[r].s] = "deleted"]
  BY DEF DeleteSession
<1>2. TypeOK
  BY InHand
<1>3. /\ req' \in [Slots -> Jobs] /\ req'[r] = Free
      /\ \A q \in Slots \ {r} :
            req'[q] = WithoutLinks({l \in link : l[1] = req[r].s}, Slots \ {r})[q]
  BY <1>2, DeleteMoves
<1>4. TypeOK'
  BY <1>1, <1>2, <1>3 DEF TypeOK
<1>5. RowsGoOn
  BY <1>1 DEF RowsGoOn
<1>6. Apart(Slots \ {r})
  BY <1>1, <1>2, <1>3, ApartLess
<1>7. \A s \in Sessions, c \in ContainerIds : <<s, c>> \in link' => <<s, c>> \in link
  BY <1>1
<1> QED  BY <1>1, <1>3, <1>4, <1>5, <1>6, <1>7, FreeKept, RegisterKept

LEMMA UnlinkSessionKeeps ==
    ASSUME RegisterInv, NEW s \in Sessions, NEW c \in ContainerIds, UnlinkSession(s, c)
    PROVE  RegisterInv'
<1>1. UNCHANGED <<row, up, session, revived, asked, mishaps>>
      /\ link' = link \ {<<s, c>>} /\ req' = WithoutLinks({<<s, c>>}, Slots)
  BY DEF UnlinkSession
<1>2. TypeOK
  BY DEF RegisterInv
<1>3. TypeOK'
  BY <1>1, <1>2, LinksGoType DEF TypeOK
<1>4. RowsGoOn
  BY <1>1 DEF RowsGoOn
<1>5. Apart(Slots)
  BY <1>1, <1>2, ApartLess
<1>6. \A q \in Slots : KillInv(req[q])'
  BY <1>2, <1>4, <1>5, BystanderKept DEF RegisterInv
<1>7. \A q \in Slots : req'[q].at = req[q].at /\ req'[q].c = req[q].c /\ req'[q].own = req[q].own
  BY <1>5 DEF Apart
<1>8. Known'
  <2>1. Rows' = Rows /\ link' \subseteq link
    BY <1>1 DEF Rows
  <2> QED  BY <1>7, <2>1 DEF RegisterInv, Known
<1>9. Reserved'
  BY <1>1, <1>7 DEF RegisterInv, Reserved
<1> QED  BY <1>3, <1>6, <1>8, <1>9 DEF RegisterInv

LEMMA RegisterStep ==
    ASSUME RegisterInv, [Next]_vars
    PROVE  RegisterInv'
<1>1. CASE Next
  BY <1>1, ArrivesKeeps, InsertKeeps, LinkCheckKeeps, LinkKeeps, CallKeeps, AnswerKeeps,
     AgainKeeps, CancelKeeps, RequireKeeps, DestroyKeeps, MarkKeeps, ListKeeps, CountKeeps, UnlinkKeeps, ClosedKeeps, DeleteKeeps,
     FailsKeeps, LostKeeps, UnlinkSessionKeeps DEF Next, GoesOn
<1>2. CASE UNCHANGED vars
  BY <1>2 DEF vars, RegisterInv, TypeOK, Known, Reserved, KillInv, Shape, ListIsLinked, Spares,
              Leaves, Rows, Linked
<1> QED  BY <1>1, <1>2

LEMMA RegisterInit ==
    ASSUME Init
    PROVE  RegisterInv
<1>1. \A r \in Slots : req[r] = Free
  BY DEF Init
<1>2. TypeOK
  <2>1. req \in [Slots -> Jobs]
    BY FreeJob DEF Init
  <2>2. Rows \subseteq ContainerIds
    BY DEF Rows
  <2> QED  BY <2>1, <2>2 DEF Init, TypeOK
<1>3. Known
  BY <1>1, FreeJob DEF Init, Known
<1>4. Reserved
  BY <1>1, FreeJob DEF Reserved
<1>5. Shape(Free) /\ ListIsLinked(Free) /\ Spares(Free) /\ Leaves(Free)
  BY FreeJob DEF Shape, ListIsLinked, Spares, Leaves, Kills, OneContainer
<1> QED  BY <1>1, <1>2, <1>3, <1>4, <1>5 DEF RegisterInv, KillInv

LEMMA RegisterInvariant == Spec => []RegisterInv
BY RegisterInit, RegisterStep, PTL DEF Spec

(* Every container, link and request has the type it is declared with.     *)
THEOREM ContainersTypeCorrect == Spec => []TypeOK
<1>1. RegisterInv => TypeOK
  BY DEF RegisterInv
<1> QED  BY <1>1, RegisterInvariant, PTL

(* A kill destroys no container another session is linked to, unless that  *)
(* session was linked while the kill was about to destroy it or the kill   *)
(* met a change (killOrDeleteSession's loop over its containers).          *)
THEOREM KillsSpareShared == Spec => []KillSparesSharedUndisturbed
<1>1. RegisterInv => KillSparesSharedUndisturbed
  BY DEF RegisterInv, KillInv, Spares, KillSparesSharedUndisturbed, AboutToDestroy
<1> QED  BY <1>1, RegisterInvariant, PTL

(* A kill that has gone through its list has left nothing behind, unless   *)
(* it met a change or an instance that could not be destroyed.             *)
THEOREM KillsLeaveNothing == Spec => []KillLeavesNothingBehind
<1>1. ASSUME RegisterInv
      PROVE  KillLeavesNothingBehind
  <2>1. SUFFICES ASSUME NEW r \in Slots, At(r, "next"), req[r].left = {}, ~ req[r].met,
                        NEW c \in req[r].own
                 PROVE  row[c] = "destroyed" \/ Linked(c) \ {req[r].s} # {}
    BY DEF KillLeavesNothingBehind
  <2>2. Shape(req[r]) /\ Leaves(req[r])
    BY <1>1, InHand DEF KillInv
  <2>3. req[r].does \in Kills /\ req[r].c = {}
    BY <2>1, <2>2 DEF Shape, At, OneContainer
  <2> QED  BY <2>1, <2>2, <2>3 DEF Leaves, Killing, At
<1> QED  BY <1>1, RegisterInvariant, PTL

-----------------------------------------------------------------------------
(* Instances that stay down *)

(* Steps that destroy nothing, and after which nobody is about to start an *)
(* instance but who was, or who has found it active.                       *)
LEMMA DownKept ==
    ASSUME DownInv, RegisterInv', NEW r \in Slots, Apart(Slots \ {r}),
           revived' = revived,
           \A c \in ContainerIds : row'[c] = row[c] \/ row'[c] = "active",
           \A c \in up' : c \in up \/ (CallsNext(r) /\ c \in req[r].c),
           CallsNext(r)' =>
               \/ CallsNext(r) /\ req'[r].c = req[r].c
               \/ \A c \in req'[r].c : row'[c] = "active"
    PROVE  DownInv'
<1>1. \A q \in Slots : req[q].c \in SUBSET ContainerIds
  BY JobOf, JobFields DEF DownInv, RegisterInv
<1>2. Calls'
  <2>1. SUFFICES ASSUME NEW q \in Slots, CallsNext(q)', NEW c \in req'[q].c
                 PROVE  row'[c] = "active" \/ c \in revived
    BY DEF Calls
  <2>2. CASE CallsNext(q) /\ req'[q].c = req[q].c
    <3>1. c \in ContainerIds /\ (row[c] = "active" \/ c \in revived)
      BY <1>1, <2>1, <2>2 DEF DownInv, Calls
    <3> QED  BY <3>1
  <2>3. CASE q = r
    BY <2>1, <2>2, <2>3
  <2>4. CASE q # r
    <3>1. CallsNext(q) /\ req'[q].c = req[q].c
      BY <2>1, <2>4 DEF Apart, CallsNext, At
    <3> QED  BY <2>2, <3>1
  <2> QED  BY <2>3, <2>4
<1>3. DestroyedStaysDown'
  <2>1. SUFFICES ASSUME NEW c \in ContainerIds, row'[c] = "destroyed", c \in up'
                 PROVE  c \in revived
    BY DEF DestroyedStaysDown
  <2>2. row[c] = "destroyed"
    BY <2>1
  <2> QED  BY <2>1, <2>2 DEF DownInv, DestroyedStaysDown, Calls
<1> QED  BY <1>2, <1>3 DEF DownInv

LEMMA NotCalling ==
    ASSUME NEW r \in Slots, req'[r].at \notin {"call", "answer", "link"}
    PROVE  ~ CallsNext(r)'
  BY DEF CallsNext, At

LEMMA ArrivesDown ==
    ASSUME DownInv, RegisterInv', NEW r \in Slots, Arrives(r)
    PROVE  DownInv'
<1>1. TypeOK
  BY DEF DownInv, RegisterInv
<1>2. UNCHANGED <<row, link, up, session, revived, mishaps>>
  BY DEF Arrives, CreateContainer, AttachContainer, ToolCall, DestroyContainer, KillSession
<1>3. /\ \A q \in Slots \ {r} : req'[q] = req[q]
      /\ req'[r].at \notin {"call", "answer", "link"}
  <2>1. CASE \E s \in Sessions \cup {NoSession}, c \in ContainerIds : CreateContainer(r, s, c)
    BY <1>1, <2>1, CreateMoves
  <2>2. CASE \E s \in Sessions, c \in ContainerIds : AttachContainer(r, s, c)
    BY <1>1, <2>2, AttachMoves
  <2>3. CASE \E does \in Tools, s \in Sessions, c \in ContainerIds : ToolCall(r, does, s, c)
    <3>1. PICK does \in Tools, s \in Sessions, c \in ContainerIds : ToolCall(r, does, s, c)
      BY <2>3
    <3>2. req'[r].at = "require" /\ \A q \in Slots \ {r} : req'[q] = req[q]
      BY <1>1, <3>1, ToolMoves
    <3> QED  BY <3>2
  <2>4. CASE \E c \in ContainerIds : DestroyContainer(r, c)
    BY <1>1, <2>4, DestroyMoves
  <2>5. CASE \E does \in Kills, s \in Sessions : KillSession(r, does, s)
    BY <1>1, <2>5, KillMoves
  <2> QED  BY <2>1, <2>2, <2>3, <2>4, <2>5 DEF Arrives
<1>4. Apart(Slots \ {r})
  BY <1>2, <1>3, ApartUntouched
<1> QED  BY <1>2, <1>3, <1>4, NotCalling, DownKept

LEMMA MarkDown ==
    ASSUME DownInv, RegisterInv', NEW r \in Slots, MarkDestroyed(r)
    PROVE  DownInv'
<1>1. /\ row' = [c \in ContainerIds |-> IF c \in req[r].c THEN "destroyed" ELSE row[c]]
      /\ revived' = revived \cup (req[r].c \cap (up \cup AboutToCall)) /\ up' = up
  BY DEF MarkDestroyed
<1>2. TypeOK /\ \A q \in Slots : req[q].c \in SUBSET ContainerIds
  BY JobOf, JobFields DEF DownInv, RegisterInv
<1>3. /\ \A q \in Slots \ {r} : req'[q] = req[q]
      /\ req[r].does \notin Kills => req'[r] = Free
      /\ req[r].does \in Kills => req'[r].at = "next"
  BY <1>2, MarkMoves
<1>4. ~ CallsNext(r)'
  BY <1>3, FreeJob, NotCalling
<1>5. Calls'
  <2>1. SUFFICES ASSUME NEW q \in Slots, CallsNext(q)', NEW c \in req'[q].c
                 PROVE  row'[c] = "active" \/ c \in revived'
    BY DEF Calls
  <2>2. q # r
    BY <1>4, <2>1
  <2>3. CallsNext(q) /\ c \in req[q].c /\ c \in ContainerIds
    BY <1>2, <1>3, <2>1, <2>2 DEF CallsNext, At
  <2>4. row[c] = "active" \/ c \in revived
    BY <2>3 DEF DownInv, Calls
  <2>5. c \in AboutToCall
    BY <2>3 DEF AboutToCall
  <2> QED  BY <1>1, <2>3, <2>4, <2>5
<1>6. DestroyedStaysDown'
  BY <1>1 DEF DownInv, DestroyedStaysDown
<1> QED  BY <1>5, <1>6 DEF DownInv

LEMMA GoesOnDown ==
    ASSUME DownInv, RegisterInv', NEW r \in Slots,
           GoesOn(r) \/ DestroyFails(r) \/ RequestLost(r)
    PROVE  DownInv'
<1>1. TypeOK /\ req[r] \in Jobs /\ RegisterInv /\ Shape(req[r]) /\ req[r].c \in SUBSET ContainerIds
  BY InHand, JobFields DEF DownInv
<1>2. ASSUME Finish(r), UNCHANGED <<row, link, revived>>,
             \A c \in up' : c \in up \/ (CallsNext(r) /\ c \in req[r].c)
      PROVE  DownInv'
  <2>1. \A q \in Slots \ {r} : req'[q] = req[q]
    BY <1>1, <1>2, Finishes
  <2>2. ~ CallsNext(r)'
    BY <1>1, <1>2, Finishes, FreeJob, NotCalling
  <2> QED  BY <1>2, <2>1, <2>2, ApartUntouched, DownKept
<1>3. CASE InsertContainer(r)
  <2>1. CASE /\ row' = [c \in ContainerIds |-> IF c \in req[r].c THEN "active" ELSE row[c]]
             /\ GoTo(r, IF req[r].s = NoSession THEN "call" ELSE "check")
    <3>1. row' = [c \in ContainerIds |-> IF c \in req[r].c THEN "active" ELSE row[c]]
      BY <2>1
    <3>2. (\A q \in Slots \ {r} : req'[q] = req[q]) /\ req'[r].c = req[r].c
      BY <1>1, <2>1, InsertMoves
    <3>3. UNCHANGED <<link, up, revived>>
      BY <1>3 DEF InsertContainer
    <3>4. \A c \in req'[r].c : row'[c] = "active"
      BY <1>1, <3>1, <3>2
    <3>5. \A c \in ContainerIds : row'[c] = row[c] \/ row'[c] = "active"
      BY <3>1
    <3> QED  BY <3>2, <3>3, <3>4, <3>5, ApartUntouched, DownKept
  <2>2. CASE row' = row /\ Finish(r)
    BY <1>2, <1>3, <2>2 DEF InsertContainer
  <2> QED  BY <1>3, <2>1, <2>2 DEF InsertContainer
<1>4. CASE LinkSessionChecks(r)
  <2>1. UNCHANGED <<row, link, up, revived>>
    BY <1>4 DEF LinkSessionChecks
  <2>2. CASE Finish(r)
    BY <1>2, <2>1, <2>2
  <2>3. CASE GoTo(r, "link") /\ \A c \in req[r].c : row[c] = "active"
    <3>1. (\A q \in Slots \ {r} : req'[q] = req[q]) /\ req'[r] = [req[r] EXCEPT !.at = "link"]
      BY <1>1, <2>3, Goes, PlacesAre
    <3>2. req'[r].c = req[r].c
      BY <1>1, <3>1, PlaceOnly
    <3> QED  BY <2>1, <2>3, <3>1, <3>2, ApartUntouched, DownKept
  <2> QED  BY <1>4, <2>2, <2>3 DEF LinkSessionChecks
<1>5. CASE LinkSessionInserts(r)
  <2>1. UNCHANGED <<row, up, revived>> /\ At(r, "link")
    BY <1>5 DEF LinkSessionInserts
  <2>2. CASE session[req[r].s] = "deleted"
    BY <1>2, <1>5, <2>1, <2>2 DEF LinkSessionInserts
  <2>3. CASE session[req[r].s] # "deleted"
    <3>1. req[r].s \in Sessions
      BY <1>1, <2>1 DEF Shape, At
    <3>2. /\ \A q \in Slots \ {r} :
             /\ req'[q].does = req[q].does /\ req'[q].at = req[q].at /\ req'[q].s = req[q].s
             /\ req'[q].c = req[q].c /\ req'[q].left = req[q].left
             /\ req'[q].own = req[q].own /\ req'[q].met = req[q].met
          /\ req[r].does # "create" => req'[r] = Free
          /\ req[r].does = "create" => req'[r].at = "call" /\ req'[r].c = req[r].c
      BY <1>1, <1>5, <2>3, <3>1, LinkMoves
    <3>3. Apart(Slots \ {r})
      BY <1>1, <1>5, <2>3, LinkApart
    <3>4. CallsNext(r)' => CallsNext(r) /\ req'[r].c = req[r].c
      BY <2>1, <3>2, FreeJob, NotCalling DEF CallsNext
    <3> QED  BY <2>1, <3>3, <3>4, DownKept
  <2> QED  BY <2>2, <2>3
<1>6. CASE CallInstance(r)
  <2>1. CallsNext(r) /\ GoTo(r, "answer") /\ up' = up \cup req[r].c
        /\ UNCHANGED <<row, link, revived>>
    BY <1>6 DEF CallInstance, CallsNext
  <2>2. (\A q \in Slots \ {r} : req'[q] = req[q]) /\ req'[r] = [req[r] EXCEPT !.at = "answer"]
    BY <1>1, <2>1, Goes, PlacesAre
  <2>3. req'[r].c = req[r].c
    BY <1>1, <2>2, PlaceOnly
  <2> QED  BY <2>1, <2>2, <2>3, ApartUntouched, DownKept
<1>7. CASE RequireActiveSessionContainer(r)
  <2>1. UNCHANGED <<row, link, up, revived>>
    BY <1>7 DEF RequireActiveSessionContainer
  <2>2. CASE Finish(r)
    BY <1>2, <2>1, <2>2
  <2>3. CASE \E place \in {"call", "destroy"} :
                 GoTo(r, place) /\ \A c \in req[r].c : row[c] = "active"
    <3>1. PICK place \in {"call", "destroy"} : GoTo(r, place)
      BY <2>3
    <3>2. (\A q \in Slots \ {r} : req'[q] = req[q]) /\ req'[r] = [req[r] EXCEPT !.at = place]
      BY <1>1, <3>1, Goes, PlacesAre
    <3>3. req'[r].c = req[r].c
      BY <1>1, <3>2, PlaceOnly
    <3> QED  BY <2>1, <2>3, <3>2, <3>3, ApartUntouched, DownKept
  <2> QED  BY <1>7, <2>2, <2>3 DEF RequireActiveSessionContainer, Usable
<1>8. CASE DestroyInstance(r)
  <2>1. UNCHANGED <<row, link, revived>> /\ up' = up \ req[r].c /\ GoTo(r, "mark")
    BY <1>8 DEF DestroyInstance
  <2>2. (\A q \in Slots \ {r} : req'[q] = req[q]) /\ req'[r] = [req[r] EXCEPT !.at = "mark"]
    BY <1>1, <2>1, Goes, PlacesAre
  <2>3. ~ CallsNext(r)'
    <3>1. req'[r].at = "mark"
      BY <1>1, <2>2, PlaceOnly
    <3> QED  BY <3>1, NotCalling
  <2> QED  BY <2>1, <2>2, <2>3, ApartUntouched, DownKept
<1>9. CASE MarkDestroyed(r)
  BY <1>9, MarkDown
<1>10. CASE ListForSession(r) \/ CountLinks(r)
  <2>1. UNCHANGED <<row, link, up, revived>>
    BY <1>10 DEF ListForSession, CountLinks
  <2>2. (\A q \in Slots \ {r} : req'[q] = req[q]) /\ req'[r].at \in {"next", "destroy", "unlink"}
    BY <1>1, <1>10, ListMoves, CountMoves
  <2>3. ~ CallsNext(r)'
    BY <2>2, NotCalling
  <2> QED  BY <2>1, <2>2, <2>3, ApartUntouched, DownKept
<1>11. CASE UnlinkShared(r)
  <2>1. UNCHANGED <<row, up, revived>> /\ link' = link \ ({req[r].s} \X req[r].c)
    BY <1>11 DEF UnlinkShared
  <2>2. Apart(Slots \ {r}) /\ req'[r].at = "next"
    BY <1>1, <1>11, <2>1, UnlinkMoves, ApartLess
  <2>3. ~ CallsNext(r)'
    BY <2>2, NotCalling
  <2> QED  BY <2>1, <2>2, <2>3, DownKept
<1>12. CASE MarkClosed(r)
  <2>1. UNCHANGED <<row, link, up, revived>>
    BY <1>12 DEF MarkClosed
  <2>2. CASE Finish(r)
    BY <1>2, <2>1, <2>2
  <2>3. CASE GoTo(r, "delete")
    <3>1. (\A q \in Slots \ {r} : req'[q] = req[q]) /\ req'[r] = [req[r] EXCEPT !.at = "delete"]
      BY <1>1, <2>3, Goes, PlacesAre
    <3>2. ~ CallsNext(r)'
      <4>1. req'[r].at = "delete"
        BY <1>1, <3>1, PlaceOnly
      <4> QED  BY <4>1, NotCalling
    <3> QED  BY <2>1, <3>1, <3>2, ApartUntouched, DownKept
  <2> QED  BY <1>12, <2>2, <2>3 DEF MarkClosed
<1>13. CASE DeleteSession(r)
  <2>1. UNCHANGED <<row, up, revived>> /\ link' = link \ {l \in link : l[1] = req[r].s}
    BY <1>13 DEF DeleteSession
  <2>2. Apart(Slots \ {r}) /\ req'[r] = Free
    BY <1>1, <1>13, <2>1, DeleteMoves, ApartLess
  <2>3. ~ CallsNext(r)'
    BY <2>2, FreeJob, NotCalling
  <2> QED  BY <2>1, <2>2, <2>3, DownKept
<1>14. CASE DestroyFails(r)
  <2>1. UNCHANGED <<row, link, up, revived>>
    BY <1>14 DEF DestroyFails
  <2>2. (\A q \in Slots \ {r} : req'[q] = req[q]) /\ req'[r].at \in {"free", "next"}
    BY <1>1, <1>14, FailMoves, FreeJob
  <2>3. ~ CallsNext(r)'
    BY <2>2, NotCalling
  <2> QED  BY <2>1, <2>2, <2>3, ApartUntouched, DownKept
<1>15. CASE RequestLost(r)
  BY <1>2, <1>15 DEF RequestLost
<1>16. CASE ReadAnswer(r)
  <2>1. UNCHANGED <<row, link, up, revived>>
    BY <1>16 DEF ReadAnswer
  <2>2. CASE Finish(r)
    BY <1>2, <2>1, <2>2
  <2>3. CASE GoTo(r, "call") /\ req[r].does = "use"
    <3>1. (\A q \in Slots \ {r} : req'[q] = req[q]) /\ req'[r] = [req[r] EXCEPT !.at = "call"]
      BY <1>1, <2>3, Goes, PlacesAre
    <3>2. req'[r].c = req[r].c
      BY <1>1, <3>1, PlaceOnly
    <3>3. CallsNext(r)
      BY <1>16, <2>3 DEF ReadAnswer, CallsNext
    <3> QED  BY <2>1, <3>1, <3>2, <3>3, ApartUntouched, DownKept
  <2> QED  BY <1>16, <2>2, <2>3 DEF ReadAnswer
<1>17. CASE CallAgain(r)
  <2>1. CallsNext(r) /\ Finish(r) /\ up' = up \cup req[r].c
        /\ UNCHANGED <<row, link, revived>>
    BY <1>17 DEF CallAgain, CallsNext
  <2> QED  BY <1>2, <2>1
<1> QED  BY <1>3, <1>4, <1>5, <1>6, <1>7, <1>8, <1>9, <1>10, <1>11, <1>12, <1>13, <1>14, <1>15, <1>16,
            <1>17 DEF GoesOn

(* A stop that calls a destroyed container counts it among those revived.  *)
LEMMA CancelDown ==
    ASSUME DownInv, RegisterInv', NEW r \in Slots, NEW c \in ContainerIds, CancelCommand(r, c)
    PROVE  DownInv'
<1>1. /\ UNCHANGED <<row, up>> /\ c \in Rows /\ TypeOK
      /\ revived' = IF row[c] = "destroyed" THEN revived \cup {c} ELSE revived
  BY DEF CancelCommand, DownInv, RegisterInv
<1>2. /\ \A q \in Slots \ {r} : req'[q] = req[q]
      /\ req'[r].c = {c}
  BY <1>1, CancelMoves
<1>3. row[c] = "active" \/ c \in revived'
  BY <1>1 DEF Rows, TypeOK
<1>4. revived \subseteq revived'
  BY <1>1
<1>5. Calls'
  <2>1. SUFFICES ASSUME NEW q \in Slots, CallsNext(q)', NEW d \in req'[q].c
                 PROVE  row'[d] = "active" \/ d \in revived'
    BY DEF Calls
  <2>2. CASE q = r
    BY <1>1, <1>2, <1>3, <2>1, <2>2
  <2>3. CASE q # r
    <3>1. CallsNext(q) /\ d \in req[q].c
      BY <1>2, <2>1, <2>3 DEF CallsNext, At
    <3>2. row[d] = "active" \/ d \in revived
      BY <3>1 DEF DownInv, Calls
    <3> QED  BY <1>1, <1>4, <3>2
  <2> QED  BY <2>2, <2>3
<1>6. DestroyedStaysDown'
  BY <1>1, <1>4 DEF DownInv, DestroyedStaysDown
<1> QED  BY <1>5, <1>6 DEF DownInv

LEMMA UnlinkSessionDown ==
    ASSUME DownInv, RegisterInv', NEW s \in Sessions, NEW c \in ContainerIds, UnlinkSession(s, c)
    PROVE  DownInv'
<1>1. UNCHANGED <<row, up, revived>> /\ link' = link \ {<<s, c>>}
      /\ req' = WithoutLinks({<<s, c>>}, Slots)
  BY DEF UnlinkSession
<1>2. Apart(Slots)
  BY <1>1, ApartLess DEF DownInv, RegisterInv
<1>3. \A q \in Slots : (CallsNext(q)' => CallsNext(q)) /\ req'[q].c = req[q].c
  BY <1>2 DEF Apart, CallsNext, At
<1>4. Calls'
  BY <1>1, <1>3 DEF DownInv, Calls
<1>5. DestroyedStaysDown'
  BY <1>1 DEF DownInv, DestroyedStaysDown
<1> QED  BY <1>4, <1>5 DEF DownInv

LEMMA DownStep ==
    ASSUME DownInv, [Next]_vars
    PROVE  DownInv'
<1>1. RegisterInv'
  BY RegisterStep DEF DownInv
<1>2. CASE Next
  BY <1>1, <1>2, ArrivesDown, GoesOnDown, UnlinkSessionDown, CancelDown DEF Next
<1>3. CASE UNCHANGED vars
  BY <1>1, <1>3 DEF vars, DownInv, Calls, CallsNext, At, DestroyedStaysDown
<1> QED  BY <1>2, <1>3

LEMMA DownInit ==
    ASSUME Init
    PROVE  DownInv
<1>1. RegisterInv
  BY RegisterInit
<1>2. Calls
  BY FreeJob DEF Init, Calls, CallsNext, At
<1>3. DestroyedStaysDown
  <2>1. \A c \in ContainerIds : row[c] # "destroyed"
    BY DEF Init
  <2> QED  BY <2>1 DEF DestroyedStaysDown
<1> QED  BY <1>1, <1>2, <1>3 DEF DownInv

(* The instance of a destroyed container stays down, but for one that was  *)
(* running again, in use or about to be used when its row was marked, or   *)
(* called by a stop since (destroyContainer, callContainerRuntime with its *)
(* second send, stopRunningWorkflowTools).                                 *)
THEOREM DestroyedStayDown == Spec => []DestroyedStaysDown
<1>1. DownInv => DestroyedStaysDown
  BY DEF DownInv
<1> QED  BY <1>1, DownInit, DownStep, PTL DEF Spec

=============================================================================
