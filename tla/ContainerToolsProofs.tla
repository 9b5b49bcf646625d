----------------------- MODULE ContainerToolsProofs ------------------------
(***************************************************************************)
(* What BashCommands guarantees for any amount of output, any buffer and   *)
(* any number of slips; and, below it, what Files guarantees for any       *)
(* number of operations under way at once, of calls, of results of a walk  *)
(* and of mishaps.  The two share no state.                                *)
(***************************************************************************)
EXTENDS BashCommands, Files, TLAPS, FiniteSetTheorems, SequenceTheorems

(* Output is dropped from the front only; a command that has ended by the  *)
(* list of the server is over, or has been told to end.                    *)
CommandOk(k) ==
    /\ k.start <= k.end
    /\ k.state # "running" => ~ k.alive \/ k.signalled

CommandsOk == \A c \in Ids : CommandOk(commands[c])

(* A row that names a command is that of a running call.                   *)
RowOk ==
    /\ row.cmd # NoCmd => /\ row.status = "running" /\ row.cmd \in Ids
                         /\ row.cursor <= commands[row.cmd].end
    /\ row.cmd = NoCmd => row.cursor = 0

(* What a visit has in hand at each of its statements.                     *)
VisitOk ==
    /\ visit.at \in {"away", "show", "save", "note", "start"} => visit.cmd = NoCmd
    /\ visit.at \in {"mark", "ask"} => visit.cmd = row.cmd /\ visit.cursor = row.cursor
    /\ visit.at = "mark" => row.status \notin Ended
    /\ visit.at \in {"start", "started", "attached"} => row.cmd = NoCmd /\ visit.cursor = 0
    /\ visit.at \in {"start", "started", "attached", "ask", "persist"} => row.status = "running"
    /\ visit.at \in {"started", "attached", "ask"} => visit.cmd \in Ids
    /\ visit.at = "persist" =>
          /\ visit.cmd # NoCmd => visit.cmd \in Ids /\ row.cmd \in {NoCmd, visit.cmd}
          /\ visit.result = "running" => visit.cmd # NoCmd
                                         /\ visit.cursor <= commands[visit.cmd].end
    /\ visit.at \in {"persist", "show", "save", "note"} => visit.result # "none"

(* Until the call has a result, the only command that has not been let go  *)
(* of is the one the row or the visit names.                               *)
OneCommand ==
    /\ \A c, d \in Ids \ lost : c = d
    /\ row.status \notin Ended => Ids \ lost \subseteq {row.cmd, visit.cmd}

CommandInv == BashTypeOK /\ CommandsOk /\ RowOk /\ VisitOk /\ OneCommand

(* The cursor of the row is where the output that is shown ends, or will   *)
(* when the part on its way is shown.                                      *)
LastTo(s) == IF s = <<>> THEN 0 ELSE s[Len(s)].to

Follows(p, n) == p.from <= p.to /\ (p.from = n \/ (p.from > n /\ p.gap))

OutputSoFar ==
    /\ Len(visit.part) <= 1
    /\ visit.part # <<>> => visit.at \in {"persist", "show"}
    /\ visit.part # <<>> => Follows(Head(visit.part), LastTo(shown))
    /\ visit.at = "persist" =>
          /\ visit.result = "running" <=> visit.part # <<>>
          /\ visit.part # <<>> => Head(visit.part).to = visit.cursor
    /\ row.status \notin Ended =>
          row.cursor = IF visit.at = "show" /\ visit.part # <<>> THEN Head(visit.part).to
                                                               ELSE LastTo(shown)

(* The command a stop was asked about is the row's, or is over, or has     *)
(* been let go of.                                                         *)
Named ==
    \/ stop.named \in lost \cup {NoCmd}
    \/ stop.named \in Ids /\ ~ commands[stop.named].alive
    \/ row.cmd = stop.named

StopHit ==
    \/ stop.named \in lost \cup {NoCmd}
    \/ stop.named \in Ids /\ (~ commands[stop.named].alive \/ commands[stop.named].signalled)

StopOk ==
    /\ stop.at = "not asked" => stop.saw = "none"
    /\ stop.at = "cancel" => stop.cmd \in Ids
    /\ stop.saw = "running" =>
          /\ stop.at = "row" => Named
          /\ stop.at = "cancel" => stop.cmd = stop.named \/ StopHit
          /\ stop.at \in {"save", "run", "done"} => stop.failed \/ StopHit

BashInv == CommandInv /\ OutputSoFar /\ OutputShownInOrder /\ StopOk

-----------------------------------------------------------------------------
(* Records *)

LEMMA CommandFields ==
    ASSUME NEW k \in CommandStates
    PROVE  /\ k.state \in {"running", "complete", "error", "cancelled"}
           /\ k.killed \in BOOLEAN /\ k.signalled \in BOOLEAN /\ k.alive \in BOOLEAN
           /\ k.known \in BOOLEAN /\ k.timer \in {"set", "killing", "off"}
           /\ k.start \in Nat /\ k.end \in Nat
  BY DEF CommandStates

LEMMA RowFields ==
    ASSUME BashTypeOK
    PROVE  /\ row.status \in {"absent", "running"} \cup Ended
           /\ row.cmd \in Nat /\ row.cursor \in Nat
  BY DEF BashTypeOK

LEMMA VisitFields ==
    ASSUME BashTypeOK
    PROVE  /\ visit \in Visits
           /\ visit.at \in {"away", "mark", "start", "started", "attached", "ask", "persist",
                            "show", "save", "note"}
           /\ visit.cmd \in Nat /\ visit.cursor \in Nat /\ visit.retried \in BOOLEAN
           /\ visit.result \in {"none", "running"} \cup Ended /\ visit.part \in Seq(Parts)
  BY DEF BashTypeOK, Visits

LEMMA StopFields ==
    ASSUME BashTypeOK
    PROVE  /\ stop \in Stops
           /\ stop.at \in {"not asked", "row", "cancel", "save", "run", "done"}
           /\ stop.saw \in {"none", "pending", "running"} \cup Ended
           /\ stop.cmd \in Nat /\ stop.named \in Nat /\ stop.failed \in BOOLEAN
  BY DEF BashTypeOK, Stops

LEMMA AwayVisit ==
    /\ Away \in Visits /\ Away.at = "away" /\ Away.cmd = NoCmd /\ Away.cursor = 0
    /\ Away.result = "none" /\ Away.part = <<>>
  BY DEF Away, Visits, NoCmd, Ended

LEMMA IdsAre ==
    ASSUME BashTypeOK
    PROVE  /\ Ids = 1 .. Len(commands) /\ Len(commands) \in Nat
           /\ \A c \in Ids : c \in Nat /\ c # NoCmd /\ commands[c] \in CommandStates
           /\ NewId \in Nat /\ NewId \notin Ids
  BY DEF BashTypeOK, Ids, NoCmd, NewId

-----------------------------------------------------------------------------
(* What becomes of the commands: what has been said of one stays true of   *)
(* it, and no more is known of a new one than that it is in order.         *)

Later(k, j) ==
    /\ k.end <= j.end
    /\ k.signalled => j.signalled
    /\ ~ k.alive => ~ j.alive

CommandsGoOn ==
    /\ commands' \in Seq(CommandStates) /\ Len(commands) <= Len(commands')
    /\ \A c \in Ids' : CommandOk(commands'[c])
    /\ \A c \in Ids : Later(commands[c], commands'[c])

LEMMA GoingOn ==
    ASSUME BashTypeOK, CommandsGoOn
    PROVE  /\ Ids \subseteq Ids' /\ CommandsOk'
           /\ \A c \in Ids : /\ commands[c].end \in Nat /\ commands'[c].end \in Nat
                             /\ commands[c].end <= commands'[c].end
                             /\ commands[c].signalled => commands'[c].signalled
                             /\ ~ commands[c].alive => ~ commands'[c].alive
<1>1. Ids = 1 .. Len(commands) /\ Ids' = 1 .. Len(commands') /\ Len(commands) \in Nat
      /\ Len(commands') \in Nat
  BY DEF BashTypeOK, CommandsGoOn, Ids
<1>2. Ids \subseteq Ids'
  BY <1>1 DEF CommandsGoOn
<1>3. \A c \in Ids : commands[c] \in CommandStates /\ commands'[c] \in CommandStates
  BY <1>1, <1>2 DEF BashTypeOK, CommandsGoOn
<1>4. CommandsOk'
  BY DEF CommandsOk, CommandsGoOn
<1>5. \A c \in Ids : commands[c].end \in Nat /\ commands'[c].end \in Nat
  BY <1>3, CommandFields
<1> QED  BY <1>2, <1>4, <1>5 DEF CommandsGoOn, Later

LEMMA CommandsStay ==
    ASSUME BashTypeOK, CommandsOk, UNCHANGED commands
    PROVE  CommandsGoOn
<1>1. \A c \in Ids : commands[c] \in CommandStates /\ CommandOk(commands[c])
  BY IdsAre DEF CommandsOk
<1>2. \A c \in Ids : Later(commands[c], commands[c])
  BY <1>1, CommandFields DEF Later
<1>3. Ids' = Ids /\ Len(commands) \in Nat
  BY IdsAre DEF Ids
<1> QED  BY <1>1, <1>2, <1>3 DEF BashTypeOK, CommandsGoOn

LEMMA OneChanges ==
    ASSUME BashTypeOK, CommandsOk, NEW c \in Ids, NEW k \in CommandStates,
           commands' = [commands EXCEPT ![c] = k],
           CommandOk(k), Later(commands[c], k)
    PROVE  CommandsGoOn
<1>1. \A d \in Ids : commands[d] \in CommandStates /\ CommandOk(commands[d])
  BY IdsAre DEF CommandsOk
<1>2. \A d \in Ids : Later(commands[d], commands[d])
  BY <1>1, CommandFields DEF Later
<1>3. commands' \in Seq(CommandStates) /\ Len(commands') = Len(commands) /\ Len(commands) \in Nat
  BY DEF BashTypeOK, Ids
<1>4. Ids' = Ids
  BY <1>3, IdsAre DEF Ids
<1>5. \A d \in Ids : commands'[d] = IF d = c THEN k ELSE commands[d]
  BY DEF Ids
<1> QED  BY <1>1, <1>2, <1>3, <1>4, <1>5 DEF CommandsGoOn

LEMMA NewCommandIn ==
    ASSUME BashTypeOK, NEW heeds \in HeedChoices
    PROVE  /\ NewCommand(heeds) \in CommandStates /\ CommandOk(NewCommand(heeds))
           /\ NewCommand(heeds).end = 0
<1>1. heeds \in BOOLEAN /\ detached \in BOOLEAN
  BY ChoiceAssumption DEF BashTypeOK
<1> QED  BY <1>1 DEF NewCommand, CommandStates, CommandOk

LEMMA OneStarts ==
    ASSUME BashTypeOK, CommandsOk, StartBashCommand
    PROVE  CommandsGoOn /\ Ids' = Ids \cup {NewId}
<1>1. PICK heeds \in HeedChoices : commands' = Append(commands, NewCommand(heeds))
  BY DEF StartBashCommand
<1> DEFINE k == NewCommand(heeds)
<1>2. k \in CommandStates /\ CommandOk(k)
  BY NewCommandIn
<1>3. commands' = Append(commands, k)
  BY <1>1
<1> HIDE DEF k
<1>4. commands' \in Seq(CommandStates) /\ Len(commands') = Len(commands) + 1 /\ Len(commands) \in Nat
  BY <1>2, <1>3 DEF BashTypeOK
<1>5. Ids' = Ids \cup {NewId} /\ Ids = 1 .. Len(commands)
  BY <1>4, IdsAre DEF Ids, NewId
<1>6. \A c \in Ids : commands'[c] = commands[c]
  BY <1>3, <1>5 DEF BashTypeOK
<1>7. commands'[NewId] = k
  BY <1>3 DEF BashTypeOK, NewId
<1>8. \A d \in Ids : commands[d] \in CommandStates /\ CommandOk(commands[d])
  BY IdsAre DEF CommandsOk
<1>9. \A d \in Ids : Later(commands[d], commands[d])
  BY <1>8, CommandFields DEF Later
<1>10. Len(commands) <= Len(commands')
  BY <1>4
<1> QED  BY <1>2, <1>4, <1>5, <1>6, <1>7, <1>8, <1>9, <1>10 DEF CommandsGoOn

LEMMA ProcessGoesOn ==
    ASSUME BashTypeOK, CommandsOk, NEW c \in Ids, Output(c) \/ Close(c) \/ Timeout(c) \/ Escalate(c)
    PROVE  CommandsGoOn /\ Ids' = Ids
<1> DEFINE k == commands[c]
<1>1. k \in CommandStates /\ CommandOk(k)
  BY IdsAre DEF CommandsOk
<1>2. /\ k.state \in {"running", "complete", "error", "cancelled"}
      /\ k.killed \in BOOLEAN /\ k.signalled \in BOOLEAN /\ k.alive \in BOOLEAN
      /\ k.known \in BOOLEAN /\ k.timer \in {"set", "killing", "off"}
      /\ k.start \in Nat /\ k.end \in Nat
  BY <1>1, CommandFields
<1>3. k.start <= k.end /\ (k.state # "running" => ~ k.alive \/ k.signalled)
  BY <1>1 DEF CommandOk
<1>4. Ids' = Ids
  BY DEF Output, Close, Timeout, Escalate, Ids
<1>5. CASE Output(c)
  <2> DEFINE first == IF k.end - k.start >= BufferSize THEN k.start + 1 ELSE k.start
             last  == k.end + 1
             j     == [k EXCEPT !.end = last, !.start = first]
  <2>1. first \in Nat /\ last \in Nat /\ first <= last /\ k.end <= last
    BY <1>2, <1>3
  <2>2. commands' = [commands EXCEPT ![c] = j]
    BY <1>5 DEF Output
  <2> HIDE DEF first, last, k
  <2>3. j \in CommandStates
    BY <1>1, <1>2, <2>1 DEF CommandStates
  <2>4. j.state = k.state /\ j.alive = k.alive /\ j.signalled = k.signalled
        /\ j.end = last /\ j.start = first
    BY <1>1 DEF CommandStates
  <2> HIDE DEF j
  <2>5. CommandOk(j) /\ Later(k, j)
    BY <1>2, <1>3, <2>1, <2>4 DEF CommandOk, Later
  <2> QED  BY <1>4, <2>2, <2>3, <2>5, OneChanges DEF k
<1>6. CASE Close(c)
  <2>1. PICK code \in {"zero", "other"} :
          commands' = [commands EXCEPT ![c].alive = FALSE, ![c].timer = "off",
             ![c].state = IF code = "zero" /\ ~commands[c].killed THEN "complete" ELSE "error"]
    BY <1>6 DEF Close
  <2> DEFINE state == IF code = "zero" /\ ~k.killed THEN "complete" ELSE "error"
             j == [k EXCEPT !.alive = FALSE, !.timer = "off", !.state = state]
  <2>2. state \in {"complete", "error"}
    OBVIOUS
  <2>3. commands' = [commands EXCEPT ![c] = j]
    BY <2>1
  <2> HIDE DEF state, k
  <2>4. j \in CommandStates
    BY <1>1, <2>2 DEF CommandStates
  <2>5. ~ j.alive /\ j.signalled = k.signalled /\ j.end = k.end /\ j.start = k.start
    BY <1>1 DEF CommandStates
  <2> HIDE DEF j
  <2>6. CommandOk(j) /\ Later(k, j)
    BY <1>2, <1>3, <2>5 DEF CommandOk, Later
  <2> QED  BY <1>4, <2>3, <2>4, <2>6, OneChanges DEF k
<1>7. CASE Timeout(c)
  <2> DEFINE j == [k EXCEPT !.killed = TRUE, !.signalled = TRUE, !.timer = "killing"]
  <2>1. commands' = [commands EXCEPT ![c] = j]
    BY <1>7 DEF Timeout, TimedOut
  <2> HIDE DEF k
  <2>2. j \in CommandStates
    BY <1>1 DEF CommandStates
  <2>3. j.alive = k.alive /\ j.signalled /\ j.end = k.end /\ j.start = k.start
    BY <1>1 DEF CommandStates
  <2> HIDE DEF j
  <2>4. CommandOk(j) /\ Later(k, j)
    BY <1>2, <1>3, <2>3 DEF CommandOk, Later
  <2> QED  BY <1>4, <2>1, <2>2, <2>4, OneChanges DEF k
<1>8. CASE Escalate(c)
  <2> DEFINE alive == k.alive /\ k.signalled
             state == IF k.signalled THEN k.state ELSE "error"
             j     == [k EXCEPT !.timer = "off", !.alive = alive, !.state = state]
  <2>1. commands' = [commands EXCEPT ![c] = j]
    BY <1>8 DEF Escalate
  <2>2. alive \in BOOLEAN /\ state \in {"running", "complete", "error", "cancelled"}
        /\ (alive => k.signalled) /\ (~ k.alive => ~ alive)
    BY <1>2
  <2> HIDE DEF k, alive, state
  <2>3. j \in CommandStates
    BY <1>1, <2>2 DEF CommandStates
  <2>4. j.alive = alive /\ j.signalled = k.signalled /\ j.end = k.end /\ j.start = k.start
    BY <1>1 DEF CommandStates
  <2> HIDE DEF j
  <2>5. CommandOk(j) /\ Later(k, j)
    BY <1>2, <1>3, <2>2, <2>4 DEF CommandOk, Later
  <2> QED  BY <1>4, <2>1, <2>3, <2>5, OneChanges DEF k
<1> QED  BY <1>5, <1>6, <1>7, <1>8

LEMMA CancelGoesOn ==
    ASSUME BashTypeOK, CommandsOk, NEW c \in Ids, CancelCommand(c)
    PROVE  /\ CommandsGoOn /\ Ids' = Ids
           /\ commands'[c].alive => commands'[c].signalled
<1> DEFINE k == commands[c]
<1>1. k \in CommandStates /\ CommandOk(k)
  BY IdsAre DEF CommandsOk
<1>2. Ids' = Ids
  BY DEF CancelCommand, Ids
<1>3. CASE k.state # "running"
  <2>1. commands' = commands
    BY <1>3 DEF CancelCommand
  <2> QED  BY <1>1, <1>2, <1>3, <2>1, CommandsStay DEF CommandOk
<1>4. CASE k.state = "running"
  <2> DEFINE j == [k EXCEPT !.killed = TRUE, !.state = "cancelled", !.signalled = TRUE]
  <2>1. commands' = [commands EXCEPT ![c] = j]
    BY <1>4 DEF CancelCommand
  <2>2. commands'[c] = j
    BY <2>1 DEF Ids
  <2> HIDE DEF k
  <2>3. j \in CommandStates
    BY <1>1 DEF CommandStates
  <2>4. j.alive = k.alive /\ j.signalled /\ j.end = k.end /\ j.start = k.start
    BY <1>1 DEF CommandStates
  <2> HIDE DEF j
  <2>5. CommandOk(j) /\ Later(k, j)
    BY <1>1, <2>4, CommandFields DEF CommandOk, Later
  <2> QED  BY <1>2, <2>1, <2>2, <2>3, <2>4, <2>5, OneChanges DEF k
<1> QED  BY <1>3, <1>4

LEMMA RestartGoesOn ==
    ASSUME BashTypeOK, CommandsOk, Restart
    PROVE  CommandsGoOn /\ Ids' = Ids
<1>1. commands' = [c \in Ids |-> [commands[c] EXCEPT !.alive = FALSE, !.known = FALSE,
                                                     !.timer = "off"]]
  BY DEF Restart
<1>2. ASSUME NEW c \in Ids
      PROVE  /\ commands'[c] \in CommandStates /\ CommandOk(commands'[c])
             /\ Later(commands[c], commands'[c])
  <2> DEFINE k == commands[c]
             j == [k EXCEPT !.alive = FALSE, !.known = FALSE, !.timer = "off"]
  <2>1. k \in CommandStates /\ CommandOk(k)
    BY IdsAre DEF CommandsOk
  <2>2. commands'[c] = j
    BY <1>1
  <2> HIDE DEF k
  <2>3. j \in CommandStates
    BY <2>1 DEF CommandStates
  <2>4. ~ j.alive /\ j.signalled = k.signalled /\ j.end = k.end /\ j.start = k.start
    BY <2>1 DEF CommandStates
  <2> HIDE DEF j
  <2>5. CommandOk(j) /\ Later(k, j)
    BY <2>1, <2>4, CommandFields DEF CommandOk, Later
  <2> QED  BY <2>2, <2>3, <2>5 DEF k
<1>3. Ids' = Ids
  BY <1>1 DEF Ids
<1>4. commands' \in Seq(CommandStates) /\ Len(commands') = Len(commands)
  <2>1. Ids = 1 .. Len(commands) /\ Len(commands) \in Nat
    BY IdsAre
  <2>2. commands' \in [1 .. Len(commands) -> CommandStates]
    BY <1>1, <1>2, <2>1
  <2> QED  BY <2>1, <2>2
<1>5. Len(commands) <= Len(commands')
  BY <1>4, IdsAre
<1> QED  BY <1>2, <1>3, <1>4, <1>5 DEF CommandsGoOn

-----------------------------------------------------------------------------
(* The worker's statements: what they make of the visit *)

LEMMA BeginVisitMoves ==
    ASSUME CommandInv, BeginVisit
    PROVE  /\ visit' \in Visits /\ visit'.part = <<>>
           /\ row.status \in Ended => /\ visit'.at = "show" /\ visit'.cmd = NoCmd
                                      /\ visit'.result = row.status
           /\ row.status \notin Ended => /\ visit'.at = "mark" /\ visit'.cmd = row.cmd
                                         /\ visit'.cursor = row.cursor
<1>1. /\ row.status \in {"absent", "running"} \cup Ended
      /\ row.cmd \in Nat /\ row.cursor \in Nat
  BY RowFields DEF CommandInv
<1>2. CASE row.status \in Ended
  <2>1. visit' = [Away EXCEPT !.at = "show", !.result = row.status]
    BY <1>2 DEF BeginVisit, AfterLooking
  <2> QED  BY <1>2, <2>1, AwayVisit DEF Visits
<1>3. CASE row.status \notin Ended
  <2>1. visit' = [Away EXCEPT !.at = "mark", !.cmd = row.cmd, !.cursor = row.cursor]
    BY <1>3 DEF BeginVisit, AfterLooking
  <2> QED  BY <1>1, <1>3, <2>1, AwayVisit DEF Visits
<1> QED  BY <1>2, <1>3

LEMMA MarkMoves ==
    ASSUME BashTypeOK, MarkRunning
    PROVE  /\ visit' \in Visits
           /\ visit'.at = IF visit.cmd = NoCmd THEN "start" ELSE "ask"
           /\ visit'.cmd = visit.cmd /\ visit'.cursor = visit.cursor /\ visit'.part = visit.part
<1> DEFINE place == IF visit.cmd = NoCmd THEN "start" ELSE "ask"
<1>1. visit' = [visit EXCEPT !.at = place] /\ place \in {"start", "ask"}
  BY DEF MarkRunning
<1>2. place = IF visit.cmd = NoCmd THEN "start" ELSE "ask"
  OBVIOUS
<1> HIDE DEF place
<1>3. visit' \in Visits /\ visit'.at = place /\ visit'.cmd = visit.cmd
      /\ visit'.cursor = visit.cursor /\ visit'.part = visit.part
  BY <1>1, VisitFields DEF Visits
<1> QED  BY <1>2, <1>3

LEMMA StartMoves ==
    ASSUME BashTypeOK, ContainerBashStart
    PROVE  /\ visit' \in Visits
           /\ visit'.at \in {"started", "attached"}
           /\ visit'.cmd = NewId /\ visit'.cursor = visit.cursor /\ visit'.part = visit.part
<1> DEFINE place == IF detached THEN "started" ELSE "attached"
<1>1. visit' = [visit EXCEPT !.at = place, !.cmd = NewId]
  BY DEF ContainerBashStart
<1>2. place \in {"started", "attached"} /\ NewId \in Nat
  BY IdsAre
<1> HIDE DEF place
<1> QED  BY <1>1, <1>2, VisitFields DEF Visits

(* The answer to a question about a command follows what has been asked    *)
(* for, up to the end of its output.                                       *)
LEMMA PartFollows ==
    ASSUME BashTypeOK, CommandsOk, NEW c \in Ids, NEW n \in Nat, n <= commands[c].end
    PROVE  /\ Part(c, n) \in Parts /\ Part(c, n).to = commands[c].end
           /\ Follows(Part(c, n), n)
<1> DEFINE first == commands[c].start
           last  == commands[c].end
           from  == IF n < first THEN first ELSE n
<1>1. first \in Nat /\ last \in Nat /\ first <= last /\ c \in Nat
  BY IdsAre, CommandFields DEF CommandsOk, CommandOk
<1>2. from \in Nat /\ from <= last /\ (from = n \/ (from > n /\ n < first))
  BY <1>1
<1>3. (IF n < last THEN n ELSE last) = n
  BY <1>1
<1> DEFINE gap == n < first
<1>4. Part(c, n) = [cmd |-> c, from |-> from, to |-> last, gap |-> gap, told |-> TRUE]
  BY <1>3 DEF Part
<1>5. gap \in BOOLEAN /\ (from = n \/ (from > n /\ gap))
  BY <1>2
<1> HIDE DEF from, first, last, gap
<1>6. Part(c, n) \in Parts
  BY <1>1, <1>2, <1>4, <1>5 DEF Parts
<1>7. Part(c, n).from = from /\ Part(c, n).to = last /\ Part(c, n).gap = gap
  BY <1>4
<1>8. Follows(Part(c, n), n)
  BY <1>2, <1>5, <1>7 DEF Follows
<1> QED  BY <1>6, <1>7, <1>8 DEF last

LEMMA StatusMoves ==
    ASSUME CommandInv, ContainerBashStatus
    PROVE  /\ visit' \in Visits
           /\ visit'.at = "persist" /\ visit'.cmd = visit.cmd
           /\ visit'.result \in {"running"} \cup Ended
           /\ visit'.cursor = commands[visit.cmd].end
           /\ visit'.part = IF visit'.result = "running" THEN <<Part(visit.cmd, visit.cursor)>>
                                                         ELSE <<>>
           /\ visit.cursor \in Nat /\ visit.cursor <= commands[visit.cmd].end
           /\ visit.cursor = row.cursor
<1>1. BashTypeOK /\ CommandsOk /\ visit.cmd \in Ids /\ visit \in Visits /\ visit.cursor \in Nat
  BY VisitFields DEF CommandInv, VisitOk, ContainerBashStatus
<1> DEFINE r    == Reported(visit.cmd)
           part == IF r = "running" THEN <<Part(visit.cmd, visit.cursor)>> ELSE <<>>
           last == commands[visit.cmd].end
<1>2. visit' = [visit EXCEPT !.at = "persist", !.result = r, !.retried = FALSE,
                             !.part = part, !.cursor = last]
  BY DEF ContainerBashStatus
<1>3. last \in Nat
  BY <1>1, IdsAre, CommandFields
<1>4. visit.cursor <= last /\ visit.cursor = row.cursor
  <2>1. CASE visit.at = "started"
    <3>1. row.cursor = 0 /\ visit.cursor = 0
      BY <2>1 DEF CommandInv, VisitOk, RowOk
    <3> QED  BY <1>3, <3>1
  <2>2. CASE visit.at = "ask"
    BY <1>1, <2>2, IdsAre DEF CommandInv, VisitOk, RowOk
  <2> QED  BY <2>1, <2>2 DEF ContainerBashStatus
<1>5. r \in {"running"} \cup Ended
  BY DEF Reported, Ended
<1>6. Part(visit.cmd, visit.cursor) \in Parts
  BY <1>1, <1>4, PartFollows
<1>7. part \in Seq(Parts)
  BY <1>6
<1>8. part = IF r = "running" THEN <<Part(visit.cmd, visit.cursor)>> ELSE <<>>
  OBVIOUS
<1> HIDE DEF r, part, last
<1>9. /\ visit' \in Visits
      /\ visit'.at = "persist" /\ visit'.cmd = visit.cmd
      /\ visit'.result = r /\ visit'.cursor = last /\ visit'.part = part
  BY <1>1, <1>2, <1>3, <1>5, <1>7 DEF Visits
<1> QED  BY <1>1, <1>4, <1>5, <1>8, <1>9 DEF last

LEMMA AttachedMoves ==
    ASSUME BashTypeOK, ContainerBash
    PROVE  /\ visit' \in Visits
           /\ visit'.at = "persist" /\ visit'.cmd = visit.cmd
           /\ visit'.result \in Ended /\ visit'.part = visit.part
<1> DEFINE r == IF commands[visit.cmd].state = "complete" THEN "complete" ELSE "error"
<1>1. visit' = [visit EXCEPT !.at = "persist", !.result = r, !.retried = FALSE]
  BY DEF ContainerBash
<1>2. r \in Ended
  BY DEF Ended
<1> HIDE DEF r
<1> QED  BY <1>1, <1>2, VisitFields DEF Visits

LEMMA PersistMoves ==
    ASSUME BashTypeOK, PersistToolRunOutcome
    PROVE  /\ visit' \in Visits
           /\ visit'.at = "show" /\ visit'.cmd = NoCmd /\ visit'.result = visit.result
           /\ visit'.part = NewOutput(visit)
           /\ row'.status = visit.result
           /\ visit.result = "running" => row'.cmd = visit.cmd /\ row'.cursor = visit.cursor
           /\ visit.result # "running" => row'.cmd = NoCmd /\ row'.cursor = 0
           /\ visit.result # "none" =>
                 row' \in [status : {"absent", "running"} \cup Ended, cmd : Nat, cursor : Nat]
<1> DEFINE part == NewOutput(visit)
<1>1. visit' = [visit EXCEPT !.at = "show", !.cmd = NoCmd, !.cursor = 0, !.part = part]
  BY DEF PersistToolRunOutcome
<1>2. part \in Seq(Parts)
  BY VisitFields DEF NewOutput
<1>3. NoCmd \in Nat
  BY DEF NoCmd
<1> HIDE DEF part
<1>4. /\ visit' \in Visits
      /\ visit'.at = "show" /\ visit'.cmd = NoCmd /\ visit'.result = visit.result
      /\ visit'.part = part
  BY <1>1, <1>2, <1>3, VisitFields DEF Visits
<1>5. row' = Persisted(visit)
  BY DEF PersistToolRunOutcome
<1>6. CASE visit.result = "running"
  <2>1. row' = [status |-> "running", cmd |-> visit.cmd, cursor |-> visit.cursor]
    BY <1>5, <1>6 DEF Persisted
  <2> QED  BY <1>4, <1>6, <2>1, VisitFields DEF part
<1>7. CASE visit.result # "running"
  <2>1. row' = [status |-> visit.result, cmd |-> NoCmd, cursor |-> 0]
    BY <1>5, <1>7 DEF Persisted
  <2> QED  BY <1>3, <1>4, <1>7, <2>1, VisitFields DEF part
<1> QED  BY <1>6, <1>7

LEMMA EmitMoves ==
    ASSUME BashTypeOK, EmitUpdate
    PROVE  /\ visit' \in Visits
           /\ visit'.at = "save" /\ visit'.cmd = visit.cmd /\ visit'.result = visit.result
           /\ visit'.part = <<>>
<1> DEFINE nothing == <<>>
<1>1. visit' = [visit EXCEPT !.at = "save", !.part = nothing]
  BY DEF EmitUpdate
<1>2. nothing \in Seq(Parts) /\ nothing = <<>>
  OBVIOUS
<1> HIDE DEF nothing
<1> QED  BY <1>1, <1>2, VisitFields DEF Visits

LEMMA SaveMoves ==
    ASSUME BashTypeOK, SaveWorkflowSession
    PROVE  /\ visit' \in Visits
           /\ visit'.at = "note" /\ visit'.cmd = visit.cmd /\ visit'.result = visit.result
           /\ visit'.part = visit.part
<1>1. visit' = [visit EXCEPT !.at = "note"]
  BY DEF SaveWorkflowSession
<1> QED  BY <1>1, VisitFields DEF Visits

LEMMA AgainMoves ==
    ASSUME BashTypeOK, CallContainerRuntimeAgain
    PROVE  /\ visit' \in Visits
           /\ visit'.at = "start" /\ visit'.cmd = NoCmd /\ visit'.cursor = visit.cursor
           /\ visit'.part = visit.part
<1>1. visit' = [visit EXCEPT !.at = "start", !.cmd = NoCmd, !.retried = TRUE]
  BY DEF CallContainerRuntimeAgain
<1>2. NoCmd \in Nat
  BY DEF NoCmd
<1> QED  BY <1>1, <1>2, VisitFields DEF Visits

LEMMA ThrowsMoves ==
    ASSUME BashTypeOK, ToolThrows
    PROVE  /\ visit' \in Visits
           /\ visit'.at = "persist" /\ visit'.cmd = NoCmd /\ visit'.result = "error"
           /\ visit'.part = <<>>
<1>1. visit' = [Away EXCEPT !.at = "persist", !.result = "error"]
  BY DEF ToolThrows
<1>2. "error" \in Ended
  BY DEF Ended
<1> QED  BY <1>1, <1>2, AwayVisit DEF Visits

LEMMA LooseType ==
    ASSUME BashTypeOK, GiveUpRequest(visit)
    PROVE  loose' \in Nat
<1>1. loose' = loose \/ loose' = loose + 1
  BY DEF GiveUpRequest
<1> QED  BY <1>1 DEF BashTypeOK

-----------------------------------------------------------------------------
(* One command *)

(* Steps that leave the row and the visit alone, and start no command that *)
(* is not let go of at once.                                               *)
LEMMA ElsewhereKeeps ==
    ASSUME CommandInv, BashTypeOK', CommandsGoOn, UNCHANGED <<row, visit>>,
           Ids' \ lost' \subseteq Ids \ lost
    PROVE  CommandInv'
<1>1. /\ Ids \subseteq Ids' /\ CommandsOk'
      /\ \A c \in Ids : /\ commands[c].end \in Nat /\ commands'[c].end \in Nat
                        /\ commands[c].end <= commands'[c].end
  BY GoingOn DEF CommandInv
<1>2. row.cmd \in Nat /\ row.cursor \in Nat /\ visit.cursor \in Nat
  BY RowFields, VisitFields DEF CommandInv
<1>3. RowOk'
  BY <1>1, <1>2 DEF CommandInv, RowOk
<1>4. VisitOk'
  <2>1. ASSUME visit.at = "persist", visit.result = "running"
        PROVE  visit.cursor <= commands'[visit.cmd].end
    BY <1>1, <1>2, <2>1 DEF CommandInv, VisitOk
  <2> QED  BY <1>1, <2>1 DEF CommandInv, VisitOk
<1>5. OneCommand'
  BY DEF CommandInv, OneCommand
<1> QED  BY <1>1, <1>3, <1>4, <1>5 DEF CommandInv

(* Steps of the worker that start no command.                              *)
LEMMA VisitKeeps ==
    ASSUME CommandInv, BashTypeOK', UNCHANGED commands, VisitOk', RowOk',
           lost \subseteq lost',
           row'.status \notin Ended =>
               /\ row.status \notin Ended
               /\ \A c \in Ids \ lost' : c \in {row.cmd, visit.cmd} => c \in {row'.cmd, visit'.cmd}
    PROVE  CommandInv'
<1>1. Ids' = Ids
  BY DEF Ids
<1>2. CommandsOk'
  BY <1>1 DEF CommandInv, CommandsOk
<1>3. OneCommand'
  BY <1>1 DEF CommandInv, OneCommand
<1> QED  BY <1>2, <1>3 DEF CommandInv

LEMMA BeginKeeps ==
    ASSUME CommandInv, BeginVisit, UNCHANGED detached
    PROVE  CommandInv'
<1>1. /\ visit' \in Visits /\ visit'.part = <<>>
      /\ row.status \in Ended => /\ visit'.at = "show" /\ visit'.cmd = NoCmd
                                 /\ visit'.result = row.status
      /\ row.status \notin Ended => /\ visit'.at = "mark" /\ visit'.cmd = row.cmd
                                    /\ visit'.cursor = row.cursor
  BY BeginVisitMoves
<1>2. UNCHANGED <<commands, row, call, recorded, runOpen, loose, shown, stop, slips, lost>>
      /\ visit.at = "away"
  BY DEF BeginVisit
<1>3. BashTypeOK'
  BY <1>1, <1>2 DEF CommandInv, BashTypeOK
<1>4. RowOk'
  BY <1>2 DEF CommandInv, RowOk, Ids
<1>5. VisitOk'
  BY <1>1, <1>2 DEF VisitOk, Ended
<1>6. visit.cmd = NoCmd
  BY <1>2 DEF CommandInv, VisitOk
<1>7. \A c \in Ids : c # NoCmd
  BY IdsAre DEF CommandInv
<1> QED  BY <1>1, <1>2, <1>3, <1>4, <1>5, <1>6, <1>7, VisitKeeps

LEMMA MarkKeeps ==
    ASSUME CommandInv, MarkRunning, UNCHANGED detached
    PROVE  CommandInv'
<1>1. /\ visit' \in Visits
      /\ visit'.at = IF visit.cmd = NoCmd THEN "start" ELSE "ask"
      /\ visit'.cmd = visit.cmd /\ visit'.cursor = visit.cursor /\ visit'.part = visit.part
  BY MarkMoves DEF CommandInv
<1>2. UNCHANGED <<commands, call, recorded, runOpen, loose, shown, stop, slips, lost>>
      /\ visit.at = "mark"
      /\ row' = [status |-> "running", cmd |-> visit.cmd, cursor |-> visit.cursor]
  BY DEF MarkRunning
<1>3. row'.status = "running" /\ row'.cmd = row.cmd /\ row'.cursor = row.cursor
      /\ visit.cmd = row.cmd /\ visit.cursor = row.cursor /\ row.status \notin Ended
  BY <1>2 DEF CommandInv, VisitOk
<1>4. row' \in [status : {"absent", "running"} \cup Ended, cmd : Nat, cursor : Nat]
  BY <1>2, VisitFields DEF CommandInv
<1>5. BashTypeOK'
  BY <1>1, <1>2, <1>4 DEF CommandInv, BashTypeOK
<1>6. RowOk'
  BY <1>2, <1>3 DEF CommandInv, RowOk, Ids
<1>7. VisitOk'
  BY <1>1, <1>2, <1>3 DEF CommandInv, VisitOk, RowOk, Ids
<1> QED  BY <1>1, <1>2, <1>3, <1>5, <1>6, <1>7, VisitKeeps

LEMMA StartKeeps ==
    ASSUME CommandInv, ContainerBashStart, UNCHANGED detached
    PROVE  CommandInv' /\ CommandsGoOn
<1>1. BashTypeOK /\ CommandsOk
  BY DEF CommandInv
<1>2. /\ visit' \in Visits
      /\ visit'.at \in {"started", "attached"}
      /\ visit'.cmd = NewId /\ visit'.cursor = visit.cursor /\ visit'.part = visit.part
  BY <1>1, StartMoves
<1>3. UNCHANGED <<row, call, recorded, runOpen, loose, shown, stop, slips, lost>>
      /\ visit.at = "start" /\ StartBashCommand
  BY DEF ContainerBashStart
<1>4. CommandsGoOn /\ Ids' = Ids \cup {NewId}
  BY <1>1, <1>3, OneStarts
<1>5. CommandsOk'
  BY <1>1, <1>4, GoingOn
<1>6. row.cmd = NoCmd /\ visit.cursor = 0 /\ visit.cmd = NoCmd /\ row.status = "running"
  BY <1>3 DEF CommandInv, VisitOk
<1>7. BashTypeOK'
  BY <1>2, <1>3, <1>4 DEF CommandInv, BashTypeOK, CommandsGoOn
<1>8. RowOk'
  BY <1>3, <1>6 DEF CommandInv, RowOk
<1>9. VisitOk'
  BY <1>2, <1>3, <1>4, <1>6 DEF VisitOk
<1>10. OneCommand'
  <2>1. Ids \ lost = {}
    <3>1. \A c \in Ids : c # NoCmd
      BY <1>1, IdsAre
    <3>2. Ids \ lost \subseteq {NoCmd}
      BY <1>6 DEF CommandInv, OneCommand, Ended
    <3> QED  BY <3>1, <3>2
  <2>2. Ids' \ lost' \subseteq {NewId}
    BY <1>3, <1>4, <2>1
  <2> QED  BY <1>2, <2>2 DEF OneCommand
<1> QED  BY <1>4, <1>5, <1>7, <1>8, <1>9, <1>10 DEF CommandInv

LEMMA StatusKeeps ==
    ASSUME CommandInv, ContainerBashStatus, UNCHANGED detached
    PROVE  CommandInv'
<1>1. /\ visit' \in Visits
      /\ visit'.at = "persist" /\ visit'.cmd = visit.cmd
      /\ visit'.result \in {"running"} \cup Ended
      /\ visit'.cursor = commands[visit.cmd].end
  BY StatusMoves
<1>2. UNCHANGED <<commands, row, call, recorded, runOpen, loose, shown, stop, slips, lost>>
      /\ visit.at \in {"started", "ask"}
  BY DEF ContainerBashStatus
<1>3. BashTypeOK'
  BY <1>1, <1>2 DEF CommandInv, BashTypeOK
<1>4. RowOk'
  BY <1>2 DEF CommandInv, RowOk, Ids
<1>5. visit.cmd \in Ids /\ visit.cmd # NoCmd /\ row.status = "running"
      /\ row.cmd \in {NoCmd, visit.cmd} /\ commands[visit.cmd].end \in Nat
  BY <1>2, IdsAre, CommandFields DEF CommandInv, VisitOk
<1>6. VisitOk'
  <2>1. visit'.cursor <= commands'[visit'.cmd].end
    BY <1>1, <1>2, <1>5
  <2>2. "none" \notin {"running"} \cup Ended
    BY DEF Ended
  <2> QED  BY <1>1, <1>2, <1>5, <2>1, <2>2 DEF VisitOk, Ids
<1> QED  BY <1>1, <1>2, <1>3, <1>4, <1>6, VisitKeeps

LEMMA AttachedKeeps ==
    ASSUME CommandInv, ContainerBash, UNCHANGED detached
    PROVE  CommandInv'
<1>1. /\ visit' \in Visits
      /\ visit'.at = "persist" /\ visit'.cmd = visit.cmd
      /\ visit'.result \in Ended /\ visit'.part = visit.part
  BY AttachedMoves DEF CommandInv
<1>2. UNCHANGED <<commands, row, call, recorded, runOpen, loose, shown, stop, slips, lost>>
      /\ visit.at = "attached"
  BY DEF ContainerBash
<1>3. BashTypeOK'
  BY <1>1, <1>2 DEF CommandInv, BashTypeOK
<1>4. RowOk'
  BY <1>2 DEF CommandInv, RowOk, Ids
<1>5. VisitOk'
  <2>1. visit.cmd \in Ids /\ row.status = "running" /\ row.cmd = NoCmd
    BY <1>2 DEF CommandInv, VisitOk
  <2>2. visit'.result # "none" /\ visit'.result # "running"
    BY <1>1 DEF Ended
  <2> QED  BY <1>1, <1>2, <2>1, <2>2 DEF VisitOk, Ids
<1> QED  BY <1>1, <1>2, <1>3, <1>4, <1>5, VisitKeeps

LEMMA PersistKeeps ==
    ASSUME CommandInv, PersistToolRunOutcome, UNCHANGED detached
    PROVE  CommandInv'
<1>1. UNCHANGED <<commands, call, recorded, runOpen, loose, shown, stop, slips>>
      /\ visit.at = "persist" /\ lost' = lost \cup LetGo(visit)
  BY DEF PersistToolRunOutcome
<1>2. /\ row.status = "running" /\ visit.result # "none"
      /\ visit.cmd # NoCmd => visit.cmd \in Ids /\ row.cmd \in {NoCmd, visit.cmd}
      /\ visit.result = "running" => visit.cmd # NoCmd
                                     /\ visit.cursor <= commands[visit.cmd].end
  BY <1>1 DEF CommandInv, VisitOk
<1>3. /\ visit' \in Visits
      /\ visit'.at = "show" /\ visit'.cmd = NoCmd /\ visit'.result = visit.result
      /\ row'.status = visit.result
      /\ visit.result = "running" => row'.cmd = visit.cmd /\ row'.cursor = visit.cursor
      /\ visit.result # "running" => row'.cmd = NoCmd /\ row'.cursor = 0
      /\ row' \in [status : {"absent", "running"} \cup Ended, cmd : Nat, cursor : Nat]
  BY <1>2, PersistMoves DEF CommandInv
<1>4. BashTypeOK /\ visit.cmd \in Nat /\ row.cmd \in Nat /\ visit.result \in {"running"} \cup Ended
  BY <1>2, VisitFields, RowFields DEF CommandInv
<1>5. BashTypeOK'
  <2>1. lost' \subseteq Nat
    BY <1>1, <1>4 DEF BashTypeOK, LetGo
  <2> QED  BY <1>1, <1>3, <1>4, <2>1 DEF BashTypeOK
<1>6. RowOk'
  BY <1>1, <1>2, <1>3 DEF RowOk, Ids
<1>7. VisitOk'
  BY <1>2, <1>3 DEF VisitOk
<1>8. ASSUME row'.status \notin Ended, NEW c \in Ids \ lost', c \in {row.cmd, visit.cmd}
      PROVE  c \in {row'.cmd, visit'.cmd}
  <2>1. visit.result = "running" /\ c # NoCmd
    BY <1>3, <1>4, <1>8, IdsAre
  <2> QED  BY <1>2, <1>3, <1>8, <2>1
<1>9. row.status \notin Ended
  BY <1>2 DEF Ended
<1> QED  BY <1>1, <1>5, <1>6, <1>7, <1>8, <1>9, VisitKeeps

LEMMA ReportKeeps ==
    ASSUME CommandInv, EmitUpdate \/ SaveWorkflowSession, UNCHANGED detached
    PROVE  CommandInv'
<1>1. BashTypeOK /\ shown \in Seq(Parts) /\ visit.part \in Seq(Parts)
  BY VisitFields DEF CommandInv, BashTypeOK
<1>2. /\ visit' \in Visits /\ visit'.at \in {"save", "note"}
      /\ visit'.cmd = visit.cmd /\ visit'.result = visit.result
  BY <1>1, EmitMoves, SaveMoves
<1>3. UNCHANGED <<commands, row, recorded, runOpen, loose, stop, slips, lost>>
      /\ visit.at \in {"show", "save"}
  BY DEF EmitUpdate, SaveWorkflowSession
<1>4. visit.result # "none" /\ visit.cmd = NoCmd /\ visit.result \in {"running"} \cup Ended
  BY <1>1, <1>3, VisitFields DEF CommandInv, VisitOk
<1>5. shown' \in Seq(Parts)
  BY <1>1, ConcatProperties DEF EmitUpdate, SaveWorkflowSession
<1>6. call' \in {"pending", "running"} \cup Ended
  BY <1>1, <1>4 DEF BashTypeOK, EmitUpdate, SaveWorkflowSession
<1>7. BashTypeOK'
  BY <1>1, <1>2, <1>3, <1>5, <1>6 DEF BashTypeOK
<1>8. RowOk'
  BY <1>3 DEF CommandInv, RowOk, Ids
<1>9. VisitOk'
  BY <1>2, <1>3, <1>4 DEF VisitOk
<1> QED  BY <1>2, <1>3, <1>7, <1>8, <1>9, VisitKeeps

(* A worker that goes away has let go of a command only it knew.           *)
LEMMA AwayKeeps ==
    ASSUME CommandInv, BashTypeOK', UNCHANGED <<commands, row>>, visit' = Away,
           lost \cup FreshCommand(visit) \subseteq lost'
    PROVE  CommandInv'
<1>1. RowOk'
  BY DEF CommandInv, RowOk, Ids
<1>2. VisitOk'
  BY AwayVisit DEF VisitOk
<1>3. ASSUME NEW c \in Ids \ lost', c \in {row.cmd, visit.cmd}
      PROVE  c \in {row.cmd}
  <2>1. c # NoCmd
    BY IdsAre DEF CommandInv
  <2>2. CASE c = visit.cmd /\ c # row.cmd
    <3>1. visit.at \notin {"started", "attached", "persist"}
      BY <1>3, <2>1, <2>2 DEF FreshCommand
    <3>2. visit.at \in {"away", "mark", "start", "ask", "show", "save", "note"}
      BY <3>1, VisitFields DEF CommandInv
    <3> QED  BY <2>1, <2>2, <3>2 DEF CommandInv, VisitOk
  <2> QED  BY <1>3, <2>2
<1> QED  BY <1>1, <1>2, <1>3, VisitKeeps

LEMMA NoteKeeps ==
    ASSUME CommandInv, CompleteStepOrYield, UNCHANGED detached
    PROVE  CommandInv'
<1>1. UNCHANGED <<commands, row, call, runOpen, loose, shown, stop, slips, lost>>
      /\ visit' = Away /\ visit.at = "note"
      /\ recorded' = (recorded \/ (runOpen /\ visit.result \in Ended))
  BY DEF CompleteStepOrYield
<1>2. recorded' \in BOOLEAN
  BY <1>1 DEF CommandInv, BashTypeOK
<1>3. BashTypeOK'
  BY <1>1, <1>2, AwayVisit DEF CommandInv, BashTypeOK
<1>4. FreshCommand(visit) = {}
  BY <1>1 DEF FreshCommand
<1> QED  BY <1>1, <1>3, <1>4, AwayKeeps

LEMMA LostOf ==
    ASSUME BashTypeOK
    PROVE  lost \cup FreshCommand(visit) \subseteq Nat
  BY VisitFields DEF BashTypeOK, FreshCommand

LEMMA AgainKeeps ==
    ASSUME CommandInv, CallContainerRuntimeAgain, UNCHANGED detached
    PROVE  CommandInv'
<1>1. BashTypeOK
  BY DEF CommandInv
<1>2. /\ visit' \in Visits
      /\ visit'.at = "start" /\ visit'.cmd = NoCmd /\ visit'.cursor = visit.cursor
  BY <1>1, AgainMoves
<1>3. UNCHANGED <<commands, row, call, recorded, runOpen, shown, stop>>
      /\ visit.at \in {"start", "started", "attached"}
      /\ slips' = slips + 1 /\ lost' = lost \cup FreshCommand(visit) /\ GiveUpRequest(visit)
  BY DEF CallContainerRuntimeAgain
<1>4. slips' \in Nat
  BY <1>1, <1>3 DEF BashTypeOK
<1>5. BashTypeOK'
  BY <1>1, <1>2, <1>3, <1>4, LooseType, LostOf DEF BashTypeOK
<1>6. RowOk'
  BY <1>3 DEF CommandInv, RowOk, Ids
<1>7. row.cmd = NoCmd /\ visit.cursor = 0 /\ row.status = "running"
  BY <1>3 DEF CommandInv, VisitOk
<1>8. VisitOk'
  BY <1>2, <1>3, <1>7 DEF VisitOk
<1>9. ASSUME NEW c \in Ids \ lost', c \in {row.cmd, visit.cmd}
      PROVE  FALSE
  <2>1. c # NoCmd /\ c = visit.cmd
    BY <1>1, <1>7, <1>9, IdsAre
  <2>2. visit.at # "start"
    BY <2>1 DEF CommandInv, VisitOk
  <2> QED  BY <1>3, <1>7, <1>9, <2>1, <2>2 DEF FreshCommand
<1> QED  BY <1>3, <1>5, <1>6, <1>8, <1>9, VisitKeeps

LEMMA ThrowsKeeps ==
    ASSUME CommandInv, ToolThrows, UNCHANGED detached
    PROVE  CommandInv'
<1>1. BashTypeOK
  BY DEF CommandInv
<1>2. /\ visit' \in Visits
      /\ visit'.at = "persist" /\ visit'.cmd = NoCmd /\ visit'.result = "error"
  BY <1>1, ThrowsMoves
<1>3. UNCHANGED <<commands, row, call, recorded, runOpen, shown, stop>>
      /\ visit.at \in {"start", "started", "attached", "ask"}
      /\ slips' = slips + 1 /\ lost' = lost \cup FreshCommand(visit) /\ GiveUpRequest(visit)
  BY DEF ToolThrows
<1>4. slips' \in Nat
  BY <1>1, <1>3 DEF BashTypeOK
<1>5. BashTypeOK'
  BY <1>1, <1>2, <1>3, <1>4, LooseType, LostOf DEF BashTypeOK
<1>6. RowOk'
  BY <1>3 DEF CommandInv, RowOk, Ids
<1>7. row.status = "running" /\ (visit.at = "ask" => visit.cmd = row.cmd)
      /\ (visit.at = "start" => visit.cmd = NoCmd)
  BY <1>3 DEF CommandInv, VisitOk
<1>8. VisitOk'
  BY <1>2, <1>3, <1>7 DEF VisitOk
<1>9. ASSUME NEW c \in Ids \ lost', c \in {row.cmd, visit.cmd}
      PROVE  c = row.cmd
  <2>1. c # NoCmd
    BY <1>1, IdsAre
  <2> QED  BY <1>3, <1>7, <1>9, <2>1 DEF FreshCommand
<1> QED  BY <1>2, <1>3, <1>5, <1>6, <1>8, <1>9, VisitKeeps

(* What was on its way to the log when its worker was lost.                *)
Untold(part) == [i \in DOMAIN part |-> [part[i] EXCEPT !.told = FALSE]]

LEMMA UntoldParts ==
    ASSUME NEW part \in Seq(Parts)
    PROVE  /\ Untold(part) \in Seq(Parts) /\ Len(Untold(part)) = Len(part)
           /\ \A i \in 1 .. Len(part) : /\ Untold(part)[i].from = part[i].from
                                        /\ Untold(part)[i].to = part[i].to
                                        /\ Untold(part)[i].gap = part[i].gap
<1>1. \A i \in 1 .. Len(part) : part[i] \in Parts
  OBVIOUS
<1>2. \A i \in 1 .. Len(part) :
        LET q == [part[i] EXCEPT !.told = FALSE]
        IN  q \in Parts /\ q.from = part[i].from /\ q.to = part[i].to /\ q.gap = part[i].gap
  BY <1>1 DEF Parts
<1>3. Untold(part) = [i \in 1 .. Len(part) |-> [part[i] EXCEPT !.told = FALSE]]
  BY DEF Untold
<1>4. Untold(part) \in [1 .. Len(part) -> Parts]
  BY <1>2, <1>3
<1>5. Untold(part) \in Seq(Parts) /\ Len(Untold(part)) = Len(part)
  BY <1>4
<1> QED  BY <1>2, <1>3, <1>5

LEMMA LostKeeps ==
    ASSUME CommandInv, WorkerLost, UNCHANGED detached
    PROVE  CommandInv'
<1>1. BashTypeOK /\ visit.part \in Seq(Parts) /\ shown \in Seq(Parts)
  BY VisitFields DEF CommandInv, BashTypeOK
<1>2. UNCHANGED <<commands, row, call, recorded, runOpen, stop>> /\ visit' = Away
      /\ slips' = slips + 1 /\ lost' = lost \cup FreshCommand(visit) /\ GiveUpRequest(visit)
      /\ shown' = IF visit.at # "show" THEN shown ELSE shown \o Untold(visit.part)
  BY DEF WorkerLost, Untold
<1>3. slips' \in Nat
  BY <1>1, <1>2 DEF BashTypeOK
<1>4. shown' \in Seq(Parts)
  BY <1>1, <1>2, UntoldParts, ConcatProperties
<1>5. BashTypeOK'
  BY <1>1, <1>2, <1>3, <1>4, AwayVisit, LooseType, LostOf DEF BashTypeOK
<1> QED  BY <1>2, <1>5, AwayKeeps

LEMMA RestartKeeps ==
    ASSUME CommandInv, Restart, UNCHANGED detached
    PROVE  CommandInv' /\ CommandsGoOn
<1>1. BashTypeOK /\ CommandsOk
  BY DEF CommandInv
<1>2. UNCHANGED <<row, call, recorded, runOpen, visit, loose, shown, stop, lost>>
      /\ slips' = slips + 1
  BY DEF Restart
<1>3. CommandsGoOn /\ Ids' = Ids
  BY <1>1, RestartGoesOn
<1>4. slips' \in Nat
  BY <1>1, <1>2 DEF BashTypeOK
<1>5. BashTypeOK'
  BY <1>1, <1>2, <1>3, <1>4 DEF BashTypeOK, CommandsGoOn
<1> QED  BY <1>2, <1>3, <1>5, ElsewhereKeeps

LEMMA LateKeeps ==
    ASSUME CommandInv, StartLate, UNCHANGED detached
    PROVE  CommandInv' /\ CommandsGoOn
<1>1. BashTypeOK /\ CommandsOk
  BY DEF CommandInv
<1>2. UNCHANGED <<row, call, recorded, runOpen, visit, shown, stop, slips>>
      /\ loose > 0 /\ loose' = loose - 1 /\ lost' = lost \cup {NewId} /\ StartBashCommand
  BY DEF StartLate
<1>3. CommandsGoOn /\ Ids' = Ids \cup {NewId}
  BY <1>1, <1>2, OneStarts
<1>4. loose' \in Nat
  BY <1>1, <1>2 DEF BashTypeOK
<1>5. lost' \subseteq Nat
  BY <1>1, <1>2, IdsAre DEF BashTypeOK
<1>6. BashTypeOK'
  BY <1>1, <1>2, <1>3, <1>4, <1>5 DEF BashTypeOK, CommandsGoOn
<1>7. Ids' \ lost' \subseteq Ids \ lost
  BY <1>2, <1>3
<1> QED  BY <1>2, <1>3, <1>6, <1>7, ElsewhereKeeps

LEMMA ProcessKeeps ==
    ASSUME CommandInv, NEW c \in Ids, ProcessStep(c), UNCHANGED detached
    PROVE  CommandInv' /\ CommandsGoOn
<1>1. BashTypeOK /\ CommandsOk
  BY DEF CommandInv
<1>2. UNCHANGED <<row, call, recorded, runOpen, visit, loose, shown, stop, slips, lost>>
  BY DEF ProcessStep, others
<1>3. CommandsGoOn /\ Ids' = Ids
  BY <1>1, ProcessGoesOn DEF ProcessStep
<1>4. BashTypeOK'
  BY <1>1, <1>2, <1>3 DEF BashTypeOK, CommandsGoOn
<1> QED  BY <1>2, <1>3, <1>4, ElsewhereKeeps

-----------------------------------------------------------------------------
(* The stop *)

(* Whatever else happens, the command the stop was asked about is the      *)
(* row's until it is over or let go of, and stays reached.                 *)
LEMMA StopKept ==
    ASSUME CommandInv, StopOk, CommandsGoOn, UNCHANGED stop, lost \subseteq lost',
           \/ row'.cmd = row.cmd \/ row.cmd \in lost' \cup {NoCmd}
           \/ row.cmd \in Ids /\ ~ commands[row.cmd].alive
    PROVE  StopOk'
<1>1. /\ Ids \subseteq Ids'
      /\ \A c \in Ids : /\ commands[c].signalled => commands'[c].signalled
                        /\ ~ commands[c].alive => ~ commands'[c].alive
  BY GoingOn DEF CommandInv
<1>2. Named => Named'
  BY <1>1 DEF Named
<1>3. StopHit => StopHit'
  BY <1>1 DEF StopHit
<1> QED  BY <1>1, <1>2, <1>3 DEF StopOk

LEMMA StopType ==
    ASSUME BashTypeOK, StopStep, commands' \in Seq(CommandStates), UNCHANGED detached
    PROVE  BashTypeOK'
<1>1. /\ row' = row /\ visit' = visit /\ loose' = loose /\ shown' = shown /\ lost' = lost
      /\ recorded' = recorded
  BY DEF StopStep, AbortReadsSession, AbortReadsRow, AbortCancels, AbortSavesSession,
         AbortCancelsRun
<1>2. call' = call \/ call' = "aborted"
  BY DEF StopStep, AbortReadsSession, AbortReadsRow, AbortCancels, AbortSavesSession,
         AbortCancelsRun
<1>3. call' \in {"pending", "running"} \cup Ended
  BY <1>2 DEF BashTypeOK, Ended
<1>4. runOpen' = runOpen \/ runOpen' = FALSE
  BY DEF StopStep, AbortReadsSession, AbortReadsRow, AbortCancels, AbortSavesSession,
         AbortCancelsRun
<1>5. slips' = slips \/ slips' = slips + 1
  BY DEF StopStep, AbortReadsSession, AbortReadsRow, AbortCancels, AbortSavesSession,
         AbortCancelsRun
<1>6. slips' \in Nat
  BY <1>5 DEF BashTypeOK
<1>7. stop' \in Stops
  <2>0. NoCmd \in Nat
    BY DEF NoCmd
  <2>1. CASE AbortReadsSession
    <3> DEFINE place == IF call \in {"pending", "running"} THEN "row" ELSE "run"
    <3>1. stop' = [at |-> place, saw |-> call, cmd |-> NoCmd, named |-> row.cmd, failed |-> FALSE]
      BY <2>1 DEF AbortReadsSession, NotAsked
    <3>2. place \in {"row", "run"} /\ call \in {"pending", "running"} \cup Ended /\ row.cmd \in Nat
      BY RowFields DEF BashTypeOK
    <3> HIDE DEF place
    <3> QED  BY <2>0, <3>1, <3>2 DEF Stops
  <2>2. CASE AbortReadsRow
    <3> DEFINE c == Cancellable
               place == IF c = NoCmd THEN "save" ELSE "cancel"
    <3>1. stop' = [stop EXCEPT !.at = place, !.cmd = c]
      BY <2>2 DEF AbortReadsRow
    <3>2. place \in {"save", "cancel"} /\ c \in Nat
      BY <2>0, RowFields DEF Cancellable
    <3> HIDE DEF c, place
    <3> QED  BY <3>1, <3>2, StopFields DEF Stops
  <2>3. CASE AbortCancels
    <3>1. \/ stop' = [stop EXCEPT !.at = "save", !.cmd = NoCmd]
          \/ stop' = [stop EXCEPT !.at = "save", !.cmd = NoCmd, !.failed = TRUE]
      BY <2>3 DEF AbortCancels
    <3> QED  BY <2>0, <3>1, StopFields DEF Stops
  <2>4. CASE AbortSavesSession
    BY <2>4, StopFields DEF Stops, AbortSavesSession
  <2>5. CASE AbortCancelsRun
    BY <2>5, StopFields DEF Stops, AbortCancelsRun
  <2> QED  BY <2>1, <2>2, <2>3, <2>4, <2>5 DEF StopStep
<1> QED  BY <1>1, <1>3, <1>4, <1>6, <1>7 DEF BashTypeOK

LEMMA StopStepKeeps ==
    ASSUME CommandInv, StopOk, StopStep, UNCHANGED detached
    PROVE  CommandInv' /\ CommandsGoOn /\ StopOk'
<1>1. BashTypeOK /\ CommandsOk /\ stop \in Stops
  BY StopFields DEF CommandInv
<1>2. CommandsGoOn /\ Ids' = Ids
  <2>1. CASE UNCHANGED commands
    BY <1>1, <2>1, CommandsStay DEF Ids
  <2>2. CASE stop.at = "cancel" /\ CancelCommand(stop.cmd)
    BY <1>1, <2>2, CancelGoesOn DEF StopOk
  <2> QED  BY <2>1, <2>2 DEF StopStep, AbortReadsSession, AbortReadsRow, AbortCancels,
                             AbortSavesSession, AbortCancelsRun
<1>3. BashTypeOK'
  BY <1>1, <1>2, StopType DEF CommandsGoOn
<1>4. UNCHANGED <<row, visit, lost>>
  BY DEF StopStep, AbortReadsSession, AbortReadsRow, AbortCancels, AbortSavesSession,
         AbortCancelsRun
<1>5. CommandInv'
  BY <1>2, <1>3, <1>4, ElsewhereKeeps
<1>6. ASSUME StopHit, stop'.named = stop.named
      PROVE  StopHit'
  BY <1>1, <1>2, <1>4, <1>6, GoingOn DEF StopHit
<1>7. StopOk'
  <2>1. CASE AbortReadsSession
    <3> DEFINE place == IF call \in {"pending", "running"} THEN "row" ELSE "run"
    <3>1. stop' = [at |-> place, saw |-> call, cmd |-> NoCmd, named |-> row.cmd, failed |-> FALSE]
      BY <2>1 DEF AbortReadsSession, NotAsked
    <3>2. stop'.at = place /\ stop'.saw = call /\ stop'.named = row.cmd
      BY <3>1
    <3>3. (place = "run" => call # "running") /\ place \in {"row", "run"}
      OBVIOUS
    <3>4. Named'
      BY <1>4, <3>2 DEF Named
    <3> HIDE DEF place
    <3> QED  BY <3>2, <3>3, <3>4 DEF StopOk
  <2>2. CASE AbortReadsRow
    <3> DEFINE c == Cancellable
               place == IF c = NoCmd THEN "save" ELSE "cancel"
    <3>1. stop' = [stop EXCEPT !.at = place, !.cmd = c] /\ stop.at = "row"
      BY <2>2 DEF AbortReadsRow
    <3>2. stop'.at = place /\ stop'.cmd = c /\ stop'.saw = stop.saw /\ stop'.named = stop.named
          /\ stop'.failed = stop.failed
      BY <1>1, <3>1 DEF Stops
    <3>3. place = "cancel" => c \in Ids
      BY DEF Cancellable, CommandInv, RowOk
    <3>4. ASSUME stop.saw = "running"
          PROVE  (place = "cancel" => c = stop.named \/ StopHit) /\ (place = "save" => StopHit)
      <4>1. Named
        BY <3>1, <3>4 DEF StopOk
      <4>2. CASE row.cmd = stop.named /\ stop.named # NoCmd
        <5>1. c = stop.named
          BY <3>4, <4>2 DEF Cancellable, CommandInv, RowOk
        <5> QED  BY <4>2, <5>1
      <4>3. CASE ~ (row.cmd = stop.named /\ stop.named # NoCmd)
        BY <4>1, <4>3 DEF Named, StopHit
      <4> QED  BY <4>2, <4>3
    <3>5. place \in {"save", "cancel"}
      OBVIOUS
    <3> HIDE DEF c, place
    <3> QED  BY <1>2, <1>6, <3>2, <3>3, <3>4, <3>5 DEF StopOk
  <2>3. CASE AbortCancels
    <3>1. \/ stop' = [stop EXCEPT !.at = "save", !.cmd = NoCmd] /\ CancelCommand(stop.cmd)
          \/ stop' = [stop EXCEPT !.at = "save", !.cmd = NoCmd, !.failed = TRUE]
      BY <2>3 DEF AbortCancels
    <3>2. stop'.at = "save" /\ stop'.saw = stop.saw /\ stop'.named = stop.named
          /\ (stop'.failed \/ CancelCommand(stop.cmd))
      BY <1>1, <3>1 DEF Stops
    <3>3. stop.at = "cancel" /\ stop.cmd \in Ids
      BY <2>3 DEF AbortCancels, StopOk
    <3>4. ASSUME stop.saw = "running", CancelCommand(stop.cmd)
          PROVE  StopHit'
      <4>1. CASE stop.cmd = stop.named
        <5>1. commands'[stop.cmd].alive => commands'[stop.cmd].signalled
          BY <1>1, <3>3, <3>4, CancelGoesOn
        <5> QED  BY <1>2, <3>2, <3>3, <4>1, <5>1 DEF StopHit
      <4>2. CASE StopHit
        BY <1>6, <3>2, <4>2
      <4> QED  BY <3>3, <3>4, <4>1, <4>2 DEF StopOk
    <3> QED  BY <3>2, <3>4 DEF StopOk
  <2>4. CASE AbortSavesSession \/ AbortCancelsRun
    <3>1. \E place \in {"run", "done"} : stop' = [stop EXCEPT !.at = place]
      BY <2>4 DEF AbortSavesSession, AbortCancelsRun
    <3>2. stop'.at \in {"run", "done"} /\ stop'.saw = stop.saw /\ stop'.named = stop.named
          /\ stop'.failed = stop.failed
      BY <1>1, <3>1 DEF Stops
    <3>3. stop.at \in {"save", "run"}
      BY <2>4 DEF AbortSavesSession, AbortCancelsRun
    <3> QED  BY <1>6, <3>2, <3>3 DEF StopOk
  <2> QED  BY <2>1, <2>2, <2>3, <2>4 DEF StopStep
<1> QED  BY <1>2, <1>5, <1>7

-----------------------------------------------------------------------------
(* Output *)

LEMMA OutputStays ==
    ASSUME OutputSoFar, OutputShownInOrder, UNCHANGED <<row, visit, shown>>
    PROVE  OutputSoFar' /\ OutputShownInOrder'
  BY DEF OutputSoFar, OutputShownInOrder, LastTo

(* Nothing is on its way, before or after.                                 *)
LEMMA OutputQuiet ==
    ASSUME OutputSoFar, OutputShownInOrder, UNCHANGED shown,
           visit.at = "show" => visit.part = <<>>, visit'.part = <<>>,
           visit'.at = "persist" => visit'.result # "running",
           row'.status \notin Ended => row.status \notin Ended /\ row'.cursor = row.cursor
    PROVE  OutputSoFar' /\ OutputShownInOrder'
<1>1. OutputShownInOrder'
  BY DEF OutputShownInOrder
<1>2. LastTo(shown)' = LastTo(shown)
  BY DEF LastTo
<1>3. Len(visit'.part) <= 1
  OBVIOUS
<1> QED  BY <1>1, <1>2, <1>3 DEF OutputSoFar

LEMMA PartOnItsWay ==
    ASSUME BashTypeOK, OutputSoFar, visit.part # <<>>
    PROVE  /\ Len(visit.part) = 1 /\ Head(visit.part) = visit.part[1] /\ visit.part[1] \in Parts
           /\ Follows(visit.part[1], LastTo(shown)) /\ visit.part = <<visit.part[1]>>
<1>1. visit.part \in Seq(Parts) /\ Len(visit.part) <= 1
  BY VisitFields DEF OutputSoFar
<1>2. Len(visit.part) = 1 /\ Head(visit.part) = visit.part[1]
  <2>1. Len(visit.part) \in Nat \ {0}
    BY <1>1, EmptySeq
  <2>2. Len(visit.part) = 1
    <3> DEFINE m == Len(visit.part)
    <3>1. m \in Nat \ {0} /\ m <= 1
      BY <1>1, <2>1
    <3> HIDE DEF m
    <3>2. m = 1
      BY <3>1
    <3> QED  BY <3>2 DEF m
  <2> QED  BY <1>1, <2>2, HeadTailProperties
<1>3. visit.part[1] \in Parts
  BY <1>1, <1>2, ElementOfSeq
<1>4. visit.part = <<visit.part[1]>>
  <2> DEFINE s == <<visit.part[1]>>
  <2>1. s \in Seq(Parts) /\ Len(s) = 1 /\ s[1] = visit.part[1]
    BY <1>3
  <2> HIDE DEF s
  <2>2. \A i \in 1 .. Len(visit.part) : visit.part[i] = s[i]
    BY <1>2, <2>1
  <2>3. visit.part = s
    BY <1>1, <1>2, <2>1, <2>2, SeqEqual
  <2> QED  BY <2>3 DEF s
<1> QED  BY <1>2, <1>3, <1>4 DEF OutputSoFar

LEMMA LastIs ==
    ASSUME NEW s \in Seq(Parts)
    PROVE  LastTo(s) \in Nat
<1>1. CASE s = <<>>
  BY <1>1 DEF LastTo
<1>2. CASE s # <<>>
  <2>1. Len(s) \in Nat \ {0}
    BY <1>2, EmptySeq
  <2>2. Len(s) \in 1 .. Len(s)
    BY <2>1
  <2>3. s[Len(s)] \in Parts
    BY <2>2, ElementOfSeq
  <2> QED  BY <1>2, <2>3 DEF LastTo, Parts
<1> QED  BY <1>1, <1>2

(* A part that follows what is shown is shown after it.                    *)
LEMMA OneMoreShown ==
    ASSUME BashTypeOK, OutputShownInOrder, NEW part \in Seq(Parts), Len(part) = 1,
           Follows(part[1], LastTo(shown)), shown' = shown \o part
    PROVE  OutputShownInOrder' /\ LastTo(shown') = part[1].to
<1>1. shown \in Seq(Parts) /\ Len(shown) \in Nat
  BY DEF BashTypeOK
<1> DEFINE n == Len(shown)
<1>2. /\ shown' \in Seq(Parts) /\ Len(shown') = n + 1
      /\ \A i \in 1 .. n : shown'[i] = shown[i]
      /\ shown'[n + 1] = part[1]
  <2> DEFINE longer == shown \o part
  <2>1. /\ longer \in Seq(Parts) /\ Len(longer) = n + 1
        /\ \A i \in 1 .. n + 1 : longer[i] = IF i <= n THEN shown[i] ELSE part[i - n]
    <3>1. /\ shown \o part \in Seq(Parts) /\ Len(shown \o part) = n + Len(part)
          /\ \A i \in 1 .. n + Len(part) :
                (shown \o part)[i] = IF i <= n THEN shown[i] ELSE part[i - n]
      BY <1>1, ConcatProperties
    <3> QED  BY <3>1
  <2> HIDE DEF longer, n
  <2>2. n \in Nat
    BY <1>1 DEF n
  <2>3. n + 1 \in 1 .. n + 1 /\ ~ (n + 1 <= n) /\ n + 1 - n = 1
    BY <2>2
  <2>4. longer[n + 1] = part[1]
    <3>1. longer[n + 1] = IF n + 1 <= n THEN shown[n + 1] ELSE part[n + 1 - n]
      BY <2>1, <2>2, <2>3
    <3>2. longer[n + 1] = part[n + 1 - n]
      BY <2>3, <3>1
    <3> QED  BY <2>3, <3>2
  <2>5. \A i \in 1 .. n : longer[i] = shown[i]
    BY <2>1, <2>2
  <2>6. shown' = longer
    BY DEF longer
  <2> QED  BY <2>1, <2>4, <2>5, <2>6
<1>3. DOMAIN shown' = 1 .. (n + 1) /\ DOMAIN shown = 1 .. n
  BY <1>1, <1>2
<1>4. LastTo(shown) = IF n = 0 THEN 0 ELSE shown[n].to
  BY <1>1 DEF LastTo
<1>5. LastTo(shown') = part[1].to
  BY <1>1, <1>2 DEF LastTo
<1> DEFINE Before(s, i) == IF i = 1 THEN 0 ELSE s[i - 1].to
<1>6. \A i \in 1 .. n : Follows(shown[i], Before(shown, i))
  BY <1>3 DEF OutputShownInOrder, Follows
<1>7. \A i \in 1 .. n : Before(shown', i) = Before(shown, i)
  BY <1>1, <1>2
<1>8. Before(shown', n + 1) = LastTo(shown)
  BY <1>1, <1>2, <1>4
<1> HIDE DEF n, Before
<1>9. \A i \in 1 .. (n + 1) : Follows(shown'[i], Before(shown', i))
  <2>1. SUFFICES ASSUME NEW i \in 1 .. (n + 1)
                 PROVE  Follows(shown'[i], Before(shown', i))
    OBVIOUS
  <2>2. i \in 1 .. n \/ i = n + 1
    BY <1>1 DEF n
  <2>3. CASE i \in 1 .. n
    BY <1>2, <1>6, <1>7, <2>3
  <2>4. CASE i = n + 1
    BY <1>2, <1>8, <2>4
  <2> QED  BY <2>2, <2>3, <2>4
<1>10. OutputShownInOrder'
  BY <1>3, <1>9 DEF OutputShownInOrder, Follows, Before
<1> QED  BY <1>5, <1>10

LEMMA StatusOutput ==
    ASSUME CommandInv, OutputSoFar, OutputShownInOrder, ContainerBashStatus
    PROVE  OutputSoFar' /\ OutputShownInOrder'
<1>1. /\ visit'.at = "persist"
      /\ visit'.result \in {"running"} \cup Ended
      /\ visit'.cursor = commands[visit.cmd].end
      /\ visit'.part = IF visit'.result = "running" THEN <<Part(visit.cmd, visit.cursor)>>
                                                    ELSE <<>>
      /\ visit.cursor \in Nat /\ visit.cursor <= commands[visit.cmd].end
      /\ visit.cursor = row.cursor
  BY StatusMoves
<1>2. UNCHANGED <<commands, row, shown>> /\ visit.at \in {"started", "ask"}
  BY DEF ContainerBashStatus
<1>3. BashTypeOK /\ CommandsOk /\ visit.cmd \in Ids /\ row.status = "running"
  BY <1>2 DEF CommandInv, VisitOk
<1>4. row.cursor = LastTo(shown) /\ row.status \notin Ended
  BY <1>2, <1>3 DEF OutputSoFar, Ended
<1> DEFINE p == Part(visit.cmd, visit.cursor)
<1>5. p \in Parts /\ p.to = commands[visit.cmd].end /\ Follows(p, visit.cursor)
  BY <1>1, <1>3, PartFollows
<1>6. visit'.part = IF visit'.result = "running" THEN <<p>> ELSE <<>>
  BY <1>1
<1> HIDE DEF p
<1>7. visit'.part = <<>> \/ visit'.part = <<p>>
  BY <1>6
<1>8. <<p>> # <<>> /\ Head(<<p>>) = p /\ Len(<<p>>) = 1 /\ Len(<<>>) = 0
  OBVIOUS
<1>9. Len(visit'.part) <= 1
  <2>1. CASE visit'.part = <<>>
    BY <1>8, <2>1
  <2>2. CASE visit'.part = <<p>>
    BY <1>8, <2>2
  <2> QED  BY <1>7, <2>1, <2>2
<1>10. LastTo(shown)' = LastTo(shown) /\ OutputShownInOrder'
  BY <1>2 DEF LastTo, OutputShownInOrder
<1> QED  BY <1>1, <1>2, <1>4, <1>5, <1>6, <1>7, <1>8, <1>9, <1>10 DEF OutputSoFar

LEMMA PersistOutput ==
    ASSUME CommandInv, OutputSoFar, OutputShownInOrder, PersistToolRunOutcome
    PROVE  OutputSoFar' /\ OutputShownInOrder'
<1>1. BashTypeOK /\ visit.at = "persist" /\ UNCHANGED shown /\ row.status = "running"
      /\ shown \in Seq(Parts)
  BY DEF PersistToolRunOutcome, CommandInv, VisitOk, BashTypeOK
<1>2. /\ visit'.at = "show" /\ visit'.part = NewOutput(visit)
      /\ row'.status = visit.result
      /\ visit.result = "running" => row'.cursor = visit.cursor
  BY <1>1, PersistMoves
<1>3. row.cursor = LastTo(shown) /\ LastTo(shown)' = LastTo(shown) /\ OutputShownInOrder'
  BY <1>1 DEF OutputSoFar, Ended, LastTo, OutputShownInOrder
<1>4. visit.result = "running" <=> visit.part # <<>>
  BY <1>1 DEF OutputSoFar
<1>5. CASE visit.part = <<>>
  <2>1. visit'.part = <<>> /\ visit.result # "running" /\ visit.result # "none"
    BY <1>1, <1>2, <1>4, <1>5 DEF NewOutput, CommandInv, VisitOk
  <2>2. row'.status \in Ended
    BY <1>1, <1>2, <2>1, VisitFields
  <2> QED  BY <1>1, <1>2, <2>1, <2>2, OutputQuiet
<1>6. CASE visit.part # <<>>
  <2> DEFINE p == visit.part[1]
  <2>1. /\ Len(visit.part) = 1 /\ Head(visit.part) = p /\ p \in Parts
        /\ Follows(p, LastTo(shown)) /\ visit.part = <<p>>
    BY <1>1, <1>6, PartOnItsWay
  <2>2. p.to = visit.cursor /\ row'.cursor = visit.cursor /\ row'.status = "running"
    BY <1>1, <1>2, <1>4, <1>6, <2>1 DEF OutputSoFar
  <2> HIDE DEF p
  <2>3. CASE SaysSomething(p)
    <3>1. visit'.part = visit.part
      BY <1>2, <1>6, <2>1, <2>3 DEF NewOutput
    <3> QED  BY <1>2, <1>3, <1>6, <2>1, <2>2, <3>1 DEF OutputSoFar
  <2>4. CASE ~ SaysSomething(p)
    <3>1. visit'.part = <<>>
      BY <1>2, <2>1, <2>4 DEF NewOutput
    <3>2. p.from \in Nat /\ p.to \in Nat /\ LastTo(shown) \in Nat
      BY <1>1, <2>1, LastIs DEF Parts
    <3>3. p.to = LastTo(shown)
      BY <2>1, <2>4, <3>2 DEF SaysSomething, Follows
    <3>4. Len(visit'.part) <= 1
      BY <3>1
    <3> QED  BY <1>2, <1>3, <2>2, <3>1, <3>3, <3>4 DEF OutputSoFar
  <2> QED  BY <2>3, <2>4
<1> QED  BY <1>5, <1>6

(* The part that was on its way is shown, or was lost with its worker.     *)
LEMMA ShownOutput ==
    ASSUME CommandInv, OutputSoFar, OutputShownInOrder, NEW part \in Seq(Parts),
           visit.at = "show", visit.part # <<>>, UNCHANGED row,
           Len(part) = 1, part[1].from = visit.part[1].from,
           part[1].to = visit.part[1].to, part[1].gap = visit.part[1].gap,
           shown' = shown \o part, visit'.part = <<>>, visit'.at \in {"save", "away"}
    PROVE  OutputSoFar' /\ OutputShownInOrder'
<1>1. /\ Len(visit.part) = 1 /\ Head(visit.part) = visit.part[1]
      /\ Follows(visit.part[1], LastTo(shown))
  BY PartOnItsWay DEF CommandInv
<1>2. Follows(part[1], LastTo(shown))
  BY <1>1 DEF Follows
<1>3. OutputShownInOrder' /\ LastTo(shown') = part[1].to
  BY <1>2, OneMoreShown DEF CommandInv
<1>4. row'.status \notin Ended => row'.cursor = LastTo(shown')
  BY <1>1, <1>3 DEF OutputSoFar
<1>5. Len(visit'.part) <= 1
  OBVIOUS
<1> QED  BY <1>3, <1>4, <1>5 DEF OutputSoFar

LEMMA EmitOutput ==
    ASSUME CommandInv, OutputSoFar, OutputShownInOrder, EmitUpdate
    PROVE  OutputSoFar' /\ OutputShownInOrder'
<1>1. BashTypeOK /\ visit.part \in Seq(Parts) /\ shown \in Seq(Parts)
  BY VisitFields DEF CommandInv, BashTypeOK
<1>2. visit'.at = "save" /\ visit'.part = <<>>
  BY <1>1, EmitMoves
<1>3. UNCHANGED row /\ visit.at = "show" /\ shown' = shown \o visit.part
  BY DEF EmitUpdate
<1>4. CASE visit.part = <<>>
  <2>1. shown' = shown
    BY <1>1, <1>3, <1>4
  <2> QED  BY <1>2, <1>3, <1>4, <2>1, OutputQuiet
<1>5. CASE visit.part # <<>>
  BY <1>1, <1>2, <1>3, <1>5, PartOnItsWay, ShownOutput
<1> QED  BY <1>4, <1>5

LEMMA LostOutput ==
    ASSUME CommandInv, OutputSoFar, OutputShownInOrder, WorkerLost
    PROVE  OutputSoFar' /\ OutputShownInOrder'
<1>1. BashTypeOK /\ visit.part \in Seq(Parts) /\ shown \in Seq(Parts)
  BY VisitFields DEF CommandInv, BashTypeOK
<1>2. UNCHANGED row /\ visit' = Away
      /\ shown' = IF visit.at # "show" THEN shown ELSE shown \o Untold(visit.part)
  BY DEF WorkerLost, Untold
<1>3. visit'.part = <<>> /\ visit'.at = "away"
  BY <1>2, AwayVisit
<1>4. CASE visit.at # "show"
  <2>1. shown' = shown
    BY <1>2, <1>4
  <2> QED  BY <1>2, <1>3, <1>4, <2>1, OutputQuiet
<1>5. CASE visit.at = "show" /\ visit.part = <<>>
  <2>1. Untold(visit.part) = <<>>
    <3>1. <<>> \in Seq(Parts) /\ Len(<<>>) = 0
      BY EmptySeq
    <3>2. Untold(<<>>) \in Seq(Parts) /\ Len(Untold(<<>>)) = 0
      BY <3>1, UntoldParts
    <3> QED  BY <1>5, <3>2, EmptySeq
  <2>2. shown' = shown
    BY <1>1, <1>2, <1>5, <2>1
  <2> QED  BY <1>2, <1>3, <1>5, <2>2, OutputQuiet
<1>6. CASE visit.at = "show" /\ visit.part # <<>>
  <2>1. Len(visit.part) = 1 /\ 1 \in 1 .. Len(visit.part)
    BY <1>1, <1>6, PartOnItsWay
  <2>2. /\ Untold(visit.part) \in Seq(Parts) /\ Len(Untold(visit.part)) = 1
        /\ Untold(visit.part)[1].from = visit.part[1].from
        /\ Untold(visit.part)[1].to = visit.part[1].to
        /\ Untold(visit.part)[1].gap = visit.part[1].gap
    BY <1>1, <2>1, UntoldParts
  <2> QED  BY <1>2, <1>3, <1>6, <2>2, ShownOutput
<1> QED  BY <1>4, <1>5, <1>6

(* The other statements of the worker show nothing.                        *)
LEMMA OtherOutput ==
    ASSUME CommandInv, OutputSoFar, OutputShownInOrder,
           \/ BeginVisit \/ MarkRunning \/ ContainerBashStart \/ ContainerBash
           \/ SaveWorkflowSession \/ CompleteStepOrYield
           \/ CallContainerRuntimeAgain \/ ToolThrows
    PROVE  OutputSoFar' /\ OutputShownInOrder'
<1>1. BashTypeOK
  BY DEF CommandInv
<1>2. UNCHANGED shown
  BY DEF BeginVisit, MarkRunning, ContainerBashStart, ContainerBash, SaveWorkflowSession,
         CompleteStepOrYield, CallContainerRuntimeAgain, ToolThrows
<1>3. visit.at \in {"away", "mark", "start", "attached", "started", "ask", "save", "note"}
  BY DEF BeginVisit, MarkRunning, ContainerBashStart, ContainerBash, SaveWorkflowSession,
         CompleteStepOrYield, CallContainerRuntimeAgain, ToolThrows
<1>4. visit.part = <<>>
  BY <1>3 DEF OutputSoFar
<1>5. visit'.part = <<>>
  BY <1>1, <1>4, BeginVisitMoves, MarkMoves, StartMoves, AttachedMoves, SaveMoves, AgainMoves,
     ThrowsMoves, AwayVisit DEF CompleteStepOrYield
<1>6. visit'.at = "persist" => visit'.result # "running"
  <2>1. CASE BeginVisit
    BY <2>1, BeginVisitMoves
  <2>2. CASE MarkRunning
    BY <1>1, <2>2, MarkMoves
  <2>3. CASE ContainerBashStart
    BY <1>1, <2>3, StartMoves
  <2>4. CASE ContainerBash
    BY <1>1, <2>4, AttachedMoves DEF Ended
  <2>5. CASE SaveWorkflowSession \/ CompleteStepOrYield
    BY <1>1, <2>5, SaveMoves, AwayVisit DEF CompleteStepOrYield
  <2>6. CASE CallContainerRuntimeAgain \/ ToolThrows
    BY <1>1, <2>6, AgainMoves, ThrowsMoves
  <2> QED  BY <2>1, <2>2, <2>3, <2>4, <2>5, <2>6
<1>7. row'.status \notin Ended => row.status \notin Ended /\ row'.cursor = row.cursor
  <2>1. CASE MarkRunning
    BY <2>1 DEF MarkRunning, CommandInv, VisitOk
  <2>2. CASE ~ MarkRunning
    BY <2>2 DEF BeginVisit, ContainerBashStart, ContainerBash, SaveWorkflowSession,
                CompleteStepOrYield, CallContainerRuntimeAgain, ToolThrows
  <2> QED  BY <2>1, <2>2
<1> QED  BY <1>2, <1>4, <1>5, <1>6, <1>7, OutputQuiet

-----------------------------------------------------------------------------
LEMMA VisitStopKept ==
    ASSUME CommandInv, StopOk, WorkerStep \/ Mishap
    PROVE  StopOk'
<1>1. BashTypeOK /\ CommandsOk
  BY DEF CommandInv
<1>2. UNCHANGED stop /\ lost \subseteq lost'
  BY DEF WorkerStep, Mishap, BeginVisit, MarkRunning, ContainerBashStart, ContainerBashStatus,
         ContainerBash, PersistToolRunOutcome, EmitUpdate, SaveWorkflowSession,
         CompleteStepOrYield, CallContainerRuntimeAgain, ToolThrows, WorkerLost
<1>3. CommandsGoOn
  <2>1. CASE ContainerBashStart
    BY <1>1, <2>1, OneStarts DEF ContainerBashStart
  <2>2. CASE ~ ContainerBashStart
    <3>1. UNCHANGED commands
      BY <2>2 DEF WorkerStep, Mishap, BeginVisit, MarkRunning, ContainerBashStatus,
         ContainerBash, PersistToolRunOutcome, EmitUpdate, SaveWorkflowSession,
         CompleteStepOrYield, CallContainerRuntimeAgain, ToolThrows, WorkerLost
    <3> QED  BY <1>1, <3>1, CommandsStay
  <2> QED  BY <2>1, <2>2
<1>4. \/ row'.cmd = row.cmd \/ row.cmd \in lost' \cup {NoCmd}
      \/ row.cmd \in Ids /\ ~ commands[row.cmd].alive
  <2>1. CASE MarkRunning
    BY <2>1 DEF MarkRunning, CommandInv, VisitOk
  <2>2. CASE PersistToolRunOutcome
    <3>1. /\ visit.result = "running" => row'.cmd = visit.cmd
          /\ visit.at = "persist" /\ lost' = lost \cup LetGo(visit)
      BY <1>1, <2>2, PersistMoves DEF PersistToolRunOutcome
    <3>2. CASE visit.result = "running"
      BY <3>1, <3>2 DEF CommandInv, VisitOk
    <3>3. CASE visit.result # "running" /\ row.cmd # NoCmd
      <4>1. visit.result \in Ended /\ row.cmd \in Ids
        BY <1>1, <3>1, <3>3, VisitFields DEF CommandInv, VisitOk, RowOk
      <4> QED  BY <3>1, <3>3, <4>1 DEF LetGo
    <3> QED  BY <3>2, <3>3
  <2>3. CASE ~ (MarkRunning \/ PersistToolRunOutcome)
    BY <2>3 DEF WorkerStep, Mishap, BeginVisit, ContainerBashStart, ContainerBashStatus,
         ContainerBash, EmitUpdate, SaveWorkflowSession,
         CompleteStepOrYield, CallContainerRuntimeAgain, ToolThrows, WorkerLost
  <2> QED  BY <2>1, <2>2, <2>3
<1> QED  BY <1>2, <1>3, <1>4, StopKept

LEMMA BashStep ==
    ASSUME BashInv, [BashNext]_bashVars
    PROVE  BashInv'
<1>1. CommandInv /\ OutputSoFar /\ OutputShownInOrder /\ StopOk
  BY DEF BashInv
<1>2. CASE (WorkerStep \/ Mishap) /\ UNCHANGED detached
  <2>1. CommandInv'
    BY <1>1, <1>2, BeginKeeps, MarkKeeps, StartKeeps, StatusKeeps, AttachedKeeps, PersistKeeps,
       ReportKeeps, NoteKeeps, AgainKeeps, ThrowsKeeps, LostKeeps DEF WorkerStep, Mishap
  <2>2. OutputSoFar' /\ OutputShownInOrder'
    BY <1>1, <1>2, StatusOutput, PersistOutput, EmitOutput, LostOutput, OtherOutput
       DEF WorkerStep, Mishap
  <2>3. StopOk'
    BY <1>1, <1>2, VisitStopKept
  <2> QED  BY <2>1, <2>2, <2>3 DEF BashInv
<1>3. CASE StopStep /\ UNCHANGED detached
  <2>1. CommandInv' /\ StopOk'
    BY <1>1, <1>3, StopStepKeeps
  <2>2. UNCHANGED <<row, visit, shown>>
    BY <1>3 DEF StopStep, AbortReadsSession, AbortReadsRow, AbortCancels, AbortSavesSession,
                AbortCancelsRun
  <2> QED  BY <1>1, <2>1, <2>2, OutputStays DEF BashInv
<1>4. CASE (Restart \/ StartLate \/ \E c \in Ids \ lost : ProcessStep(c)) /\ UNCHANGED detached
  <2>1. CommandInv' /\ CommandsGoOn
    BY <1>1, <1>4, RestartKeeps, LateKeeps, ProcessKeeps
  <2>2. UNCHANGED <<row, visit, shown, stop>> /\ lost \subseteq lost'
    BY <1>4 DEF Restart, StartLate, ProcessStep, others
  <2>3. StopOk'
    BY <1>1, <2>1, <2>2, StopKept
  <2> QED  BY <1>1, <2>1, <2>2, <2>3, OutputStays DEF BashInv
<1>5. CASE UNCHANGED bashVars
  <2>1. UNCHANGED <<commands, detached, row, call, recorded, runOpen, visit, loose, shown, stop,
                    slips, lost>>
    BY <1>5 DEF bashVars, others
  <2>2. Ids' = Ids
    BY <2>1 DEF Ids
  <2>3. BashTypeOK'
    BY <1>1, <2>1 DEF CommandInv, BashTypeOK
  <2>4. CommandsOk'
    BY <1>1, <2>1, <2>2 DEF CommandInv, CommandsOk
  <2>5. RowOk' /\ VisitOk'
    BY <1>1, <2>1, <2>2 DEF CommandInv, RowOk, VisitOk
  <2>6. OneCommand'
    BY <1>1, <2>1, <2>2 DEF CommandInv, OneCommand
  <2>7. StopOk'
    BY <1>1, <2>1, <2>2 DEF StopOk, Named, StopHit
  <2> QED  BY <1>1, <2>1, <2>3, <2>4, <2>5, <2>6, <2>7, OutputStays DEF BashInv, CommandInv
<1> QED  BY <1>2, <1>3, <1>4, <1>5 DEF BashNext

LEMMA BashStarts ==
    ASSUME BashInit
    PROVE  BashInv
<1>1. /\ commands = <<>> /\ row = [status |-> "absent", cmd |-> NoCmd, cursor |-> 0]
      /\ visit = Away /\ shown = <<>> /\ stop = NotAsked /\ lost = {} /\ Ids = {}
  BY DEF BashInit, Ids
<1>2. BashTypeOK
  <2>1. row \in [status : {"absent", "running"} \cup Ended, cmd : Nat, cursor : Nat]
    BY <1>1 DEF NoCmd
  <2>2. stop \in Stops
    BY <1>1 DEF NotAsked, Stops, NoCmd
  <2>3. detached \in BOOLEAN
    BY ChoiceAssumption DEF BashInit
  <2>4. commands \in Seq(CommandStates) /\ shown \in Seq(Parts)
    BY <1>1
  <2> QED  BY <1>1, <2>1, <2>2, <2>3, <2>4, AwayVisit DEF BashInit, BashTypeOK
<1>3. row.cmd = NoCmd /\ row.cursor = 0 /\ row.status = "absent"
  BY <1>1
<1>4. CommandInv
  BY <1>1, <1>2, <1>3, AwayVisit DEF CommandInv, CommandsOk, RowOk, VisitOk, OneCommand
<1>5. OutputShownInOrder
  BY <1>1 DEF OutputShownInOrder
<1>6. OutputSoFar
  <2>1. Len(visit.part) <= 1 /\ visit.part = <<>> /\ visit.at = "away" /\ LastTo(shown) = 0
    BY <1>1, AwayVisit DEF LastTo
  <2> QED  BY <1>3, <2>1 DEF OutputSoFar
<1>7. StopOk
  BY <1>1 DEF StopOk, NotAsked
<1> QED  BY <1>4, <1>5, <1>6, <1>7 DEF BashInv

LEMMA BashInvariant == BashSpec => []BashInv
BY BashStarts, BashStep, PTL DEF BashSpec

(* The commands, the rows and what is under way are well typed.            *)
THEOREM BashTypeCorrect == BashSpec => []BashTypeOK
<1>1. BashInv => BashTypeOK
  BY DEF BashInv, CommandInv
<1> QED  BY <1>1, BashInvariant, PTL

(* A tool call never has two commands but one that was let go of: the      *)
(* durable tool run, with the id of the command in its row.                *)
THEOREM CommandsStartOnce == BashSpec => []CommandStartedOnce
<1>1. ASSUME BashInv
      PROVE  CommandStartedOnce
  <2>1. \A c, d \in Ids \ lost : c = d
    BY <1>1 DEF BashInv, CommandInv, OneCommand
  <2>2. CASE Ids \ lost = {}
    <3>1. Cardinality({}) = 0
      BY FS_EmptySet
    <3> QED  BY <2>2, <3>1 DEF CommandStartedOnce
  <2>3. CASE Ids \ lost # {}
    <3>1. PICK c \in Ids \ lost : TRUE
      BY <2>3
    <3>2. Ids \ lost = {c}
      BY <2>1, <3>1
    <3>3. Cardinality({c}) = 1
      BY FS_Singleton
    <3> QED  BY <3>2, <3>3 DEF CommandStartedOnce
  <2> QED  BY <2>2, <2>3
<1> QED  BY <1>1, BashInvariant, PTL

(* The log shows the output of a command in order, each piece once, and    *)
(* says where something is missing.                                        *)
THEOREM OutputInOrder == BashSpec => []OutputShownInOrder
<1>1. BashInv => OutputShownInOrder
  BY DEF BashInv
<1> QED  BY <1>1, BashInvariant, PTL

(* A stop that reports no error has ended the command it was asked about,  *)
(* whatever the worker did between its statements.                         *)
THEOREM StopsReach == BashSpec => []StopReachesCommand
<1>1. BashInv => StopReachesCommand
  BY DEF BashInv, StopOk, StopHit, StopReachesCommand
<1> QED  BY <1>1, BashInvariant, PTL

-----------------------------------------------------------------------------
(* Files.                                                                  *)

(* The types of all variables but the requests that are to be sent again,  *)
(* of which no step but a call knows.                                      *)
Typed ==
    /\ dir \in [Names -> {None} \cup Inodes]
    /\ sub \in BOOLEAN
    /\ disk \in [Inodes -> Seq(Nat)]
    /\ op \in [Slots -> Operations]
    /\ calls \in 0..MaxCalls
    /\ due \in SUBSET (Files \X Nat)
    /\ clashed \in BOOLEAN
    /\ told \in [ok : BOOLEAN, full : BOOLEAN, does : Doings, found : SUBSET Seen,
                 stayed : SUBSET Seen, ever : SUBSET Seen]
    /\ mishaps \in 0..MaxMishaps

Asked == broken \in SUBSET Requests

(* An edit that has its temporary file open.                               *)
Preparing(o) == o.at \in {"put", "rename"}

(* What an operation has in hand at each of its places.                    *)
Shape(o) ==
    /\ o.at = "free" <=> o.does = "nothing"
    /\ o.at \in {"mkdir", "create", "fill"} <=> o.does \in {"write", "append"}
    /\ o.at \in {"read", "temp", "put", "rename"} <=> o.does = "edit"
    /\ o.at \in {"open", "walk"} <=> o.does \in Walks
    /\ o.ino # None <=> o.at \in {"fill", "put", "rename"}
    /\ o.at \in {"mkdir", "create", "read", "temp"} => o.done = 0
    /\ o.at = "fill" => o.done < Chunks
    /\ o.at = "fill" /\ o.does = "append" => o.done = 0
    /\ o.at \in {"temp", "put", "rename"} => o.stamp \in Stamps /\ o.k \in Marks(o.text)
    /\ o.at = "put" => o.done < Len(o.text)
    /\ o.at = "rename" => o.done = Len(o.text)

Shapes == \A r \in Slots : Shape(op[r])

(* What is in the directory goes with it, a file has one name,             *)
Housed    == ~sub => \A n \in Names : n[1] = "g" => dir[n] = None
NamedOnce == \A n, m \in Names : dir[n] = dir[m] /\ dir[n] # None => n = m

(* and a temporary file is that of an edit under way, so that none is left *)
(* behind.                                                                 *)
TempsAreOfEdits ==
    \A n \in Files \X Stamps : dir[n] # None =>
        \E r \in Slots : Preparing(op[r]) /\ Target(op[r]) = n /\ op[r].ino = dir[n]

NamesInv == Housed /\ NamedOnce /\ TempsAreOfEdits

(* The temporary file of an edit is its own: neither is it at the name of  *)
(* a file, nor does another operation have it open, or its name.           *)
Apart(r) ==
    Preparing(op[r]) =>
        /\ \A f \in Files : dir[<<f, 0>>] # op[r].ino
        /\ \A q \in Slots \ {r} : op[q].ino # op[r].ino
        /\ \A q \in Slots \ {r} : Preparing(op[q]) => Target(op[q]) # Target(op[r])

TempsApart == ~clashed => \A r \in Slots : Apart(r)

(* Changes of a file that are under way together know it.                  *)
Together(o, p) == o.does \in Changes /\ p.does \in Changes /\ o.file = p.file
Met == \A r, q \in Slots : r # q /\ Together(op[r], op[q]) => op[r].met

(* What a change is to replace is due no more,                             *)
Removed(o) ==
    /\ o.does = "write" => \A m \in due : m[1] # o.file
    /\ o.does = "edit" => <<o.file, o.seek>> \notin due

(* and one that meets no other finds the file where it has opened it.      *)
Stays(o) == o.at = "fill" /\ ~o.met => dir[Itself(o)] = o.ino

ChangesInv == Met /\ \A r \in Slots : Removed(op[r]) /\ Stays(op[r])

(* The new text of an edit has every mark that is due, the file that is    *)
(* written is that of no other name, and the temporary file holds as much  *)
(* of the new text as the edit has written.                                *)
Keeps(o) ==
    o.at \in {"temp", "put", "rename"} =>
        \A m \in due : m[1] = o.file => m[2] \in Marks(o.text)
Fills(o)  == o.at = "fill" => \A f \in Files : f # o.file => dir[<<f, 0>>] # o.ino
Copied(o) ==
    Preparing(o) => /\ Len(disk[o.ino]) = o.done
                    /\ \A i \in 1..o.done : disk[o.ino][i] = o.text[i]

TextsInv == ~clashed => \A r \in Slots : Keeps(op[r]) /\ Fills(op[r]) /\ Copied(op[r])

(* What a walk has found and has before it was there, and what stayed is   *)
(* found, before it, or in the directory that is before it.                *)
Listed(todo, n) == \E j \in DOMAIN todo : n \in todo[j]
Ahead(o, n)     == Listed(o.todo, n) \/ (n[1] = "g" /\ Listed(o.todo, Sub))
Reached(o, n)   == n \in o.found \/ (n = Sub /\ o.does = "find") \/ Ahead(o, n)

Walked(o) ==
    /\ o.stayed \subseteq Tree(dir, sub)
    /\ Tree(dir, sub) \subseteq o.ever
    /\ o.found \subseteq o.ever
    /\ \A n \in Seen : Listed(o.todo, n) => n \in o.ever
    /\ o.at = "open" => o.todo = <<>> /\ o.found = {}
    /\ o.at = "walk" /\ ~Full(o) /\ o.does # "grep" => \A n \in o.stayed : Reached(o, n)

WalksInv == \A r \in Slots : op[r].does \in Walks => Walked(op[r])

PlacesInv  == Typed /\ Asked /\ Shapes /\ NamesInv
FilesInv   == PlacesInv /\ TempsApart /\ ChangesInv /\ TextsInv /\ ChangesStick
TreeInv    == PlacesInv /\ WalksInv /\ WalksAreComplete

-----------------------------------------------------------------------------
(* Names, inodes, contents *)

LEMMA SlotsCounted == IsFiniteSet(Slots) /\ Cardinality(Slots) \in Nat
  BY FilesAssumption, FS_CardinalityType

LEMMA InodesAre == Inodes \subseteq Nat /\ None \notin Inodes
  BY SlotsCounted DEF Inodes, None

LEMMA NamesAre ==
    /\ \A f \in Files : <<f, 0>> \in Names
    /\ \A f \in Files, s \in Stamps : <<f, s>> \in Names /\ <<f, s>> \in Files \X Stamps
    /\ \A f \in Files, s \in Stamps, h \in Files : <<f, s>> # <<h, 0>>
    /\ \A n \in Names : n \in Files \X Stamps \/ n = <<n[1], 0>>
    /\ \A n \in Names : n[1] \in Files
    /\ Sub \notin Names
    /\ Sub[1] # "f" /\ Sub[1] # "g"
<1>1. \A s \in Stamps : s # 0
  BY FilesAssumption
<1>2. Sub \notin Names /\ Sub[1] # "f" /\ Sub[1] # "g"
  BY DEF Sub, Names, Files
<1> QED  BY <1>1, <1>2 DEF Names

LEMMA FilesAre == Files = {"f", "g"} /\ "f" \in Files /\ "g" \in Files
  BY DEF Files

LEMMA TreeSeen ==
    ASSUME NEW d, NEW s
    PROVE  /\ \A place : Entries(d, s, place) \subseteq Seen
           /\ Tree(d, s) \subseteq Seen
  BY DEF Entries, Tree, Seen

LEMMA Overwrites ==
    ASSUME NEW text \in Seq(Nat), NEW at \in Nat \ {0}, NEW mark \in Nat
    PROVE  LET new == Overwrite(text, at, mark)
           IN  /\ new \in Seq(Nat)
               /\ Len(new) = IF at > Len(text) THEN at ELSE Len(text)
               /\ new[at] = mark
               /\ \A i \in 1..Len(text) : i # at => new[i] = text[i]
               /\ mark \in Marks(new)
               /\ at = Len(text) + 1 => Marks(text) \subseteq Marks(new)
<1> DEFINE n   == IF at > Len(text) THEN at ELSE Len(text)
           new == Overwrite(text, at, mark)
<1>1. Len(text) \in Nat /\ DOMAIN text = 1..Len(text) /\ \A i \in 1..Len(text) : text[i] \in Nat
  OBVIOUS
<1>2. n \in Nat /\ at \in 1..n /\ 1..Len(text) \subseteq 1..n
  BY <1>1
<1>3. new = [i \in 1..n |-> IF i = at THEN mark ELSE IF i <= Len(text) THEN text[i] ELSE Hole]
  BY DEF Overwrite
<1>4. \A i \in 1..n : new[i] = IF i = at THEN mark ELSE IF i <= Len(text) THEN text[i] ELSE Hole
  BY <1>3
<1>5. new \in [1..n -> Nat]
  BY <1>1, <1>3 DEF Hole
<1>6. new \in Seq(Nat) /\ Len(new) = n /\ DOMAIN new = 1..n
  BY <1>2, <1>5
<1>7. new[at] = mark
  BY <1>2, <1>4
<1>8. \A i \in 1..Len(text) : i # at => new[i] = text[i]
  BY <1>1, <1>2, <1>4
<1>9. mark \in Marks(new)
  BY <1>2, <1>6, <1>7 DEF Marks
<1>10. at = Len(text) + 1 => Marks(text) \subseteq Marks(new)
  BY <1>1, <1>2, <1>6, <1>8 DEF Marks
<1> QED  BY <1>6, <1>7, <1>8, <1>9, <1>10

LEMMA Replaces ==
    ASSUME NEW text \in Seq(Nat), NEW x, NEW mark \in Nat
    PROVE  LET new == Replaced(text, x, mark)
           IN  /\ new \in Seq(Nat)
               /\ x \in Marks(text) => mark \in Marks(new)
               /\ x \in Marks(text) => Len(new) \in Nat \ {0}
               /\ \A m \in Marks(text) : m # x => m \in Marks(new)
<1> DEFINE new == Replaced(text, x, mark)
<1>1. Len(text) \in Nat /\ DOMAIN text = 1..Len(text) /\ \A i \in 1..Len(text) : text[i] \in Nat
  OBVIOUS
<1>2. new = [i \in 1..Len(text) |-> IF text[i] = x THEN mark ELSE text[i]]
  BY <1>1 DEF Replaced
<1>3. new \in [1..Len(text) -> Nat]
  BY <1>1, <1>2
<1>4. new \in Seq(Nat) /\ Len(new) = Len(text) /\ DOMAIN new = 1..Len(text)
  BY <1>1, <1>3
<1>5. \A i \in 1..Len(text) : new[i] = IF text[i] = x THEN mark ELSE text[i]
  BY <1>2
<1>6. x \in Marks(text) => mark \in Marks(new)
  BY <1>1, <1>4, <1>5 DEF Marks
<1>7. x \in Marks(text) => Len(new) \in Nat \ {0}
  BY <1>1, <1>4 DEF Marks
<1>8. \A m \in Marks(text) : m # x => m \in Marks(new)
  BY <1>1, <1>4, <1>5 DEF Marks
<1> QED  BY <1>4, <1>6, <1>7, <1>8

LEMMA SomeMatch ==
    ASSUME NEW text \in Seq(Nat), NEW x, Matches(text, x) # 0
    PROVE  x \in Marks(text)
<1>1. {i \in DOMAIN text : text[i] = x} # {}
  BY FS_EmptySet DEF Matches
<1> QED  BY <1>1 DEF Marks

LEMMA NoMarks == \A x : x \notin Marks(<<>>)
  BY DEF Marks

LEMMA ContentOf ==
    ASSUME Typed, NEW f \in Files
    PROVE  Content(f) \in Seq(Nat)
<1>1. dir[<<f, 0>>] \in {None} \cup Inodes
  BY NamesAre DEF Typed
<1>2. dir[<<f, 0>>] # None => disk[dir[<<f, 0>>]] \in Seq(Nat)
  BY <1>1 DEF Typed
<1> QED  BY <1>2 DEF Content

-----------------------------------------------------------------------------
(* What is in hand *)

LEMMA DoingsAre ==
    /\ \A does \in Changes \cup Walks \cup {"nothing"} : does \in Doings
    /\ \A does \in Changes : does \notin Walks /\ does # "nothing"
    /\ \A does \in Walks : does # "nothing"
    /\ "write" \in Changes /\ "append" \in Changes /\ "edit" \in Changes
  BY DEF Doings, Changes, Walks

LEMMA FreeOperation ==
    /\ Free \in Operations /\ Shape(Free)
    /\ Free.does = "nothing" /\ Free.at = "free" /\ Free.ino = None
    /\ Free.done = 0 /\ Free.k = 0 /\ Free.seek = 0 /\ Free.text = <<>> /\ Free.stamp = 0
    /\ Free.todo = <<>> /\ Free.found = {} /\ Free.met = FALSE
<1>1. Free \in Operations
  BY DEF Free, Operations, Doings, Places, None, Files
<1>2. Shape(Free)
  BY DEF Free, Shape, Walks, None, Chunks
<1> QED  BY <1>1, <1>2 DEF Free

LEMMA OperationFields ==
    ASSUME NEW o \in Operations
    PROVE  /\ o.does \in Doings /\ o.at \in Places /\ o.k \in Nat /\ o.file \in Files
           /\ o.seek \in Nat /\ o.ino \in {None} \cup Inodes /\ o.text \in Seq(Nat)
           /\ o.done \in Nat /\ o.stamp \in {0} \cup Stamps /\ o.met \in BOOLEAN
           /\ o.todo \in Seq(SUBSET Seen) /\ o.found \in SUBSET Seen
           /\ o.stayed \in SUBSET Seen /\ o.ever \in SUBSET Seen
  BY DEF Operations

LEMMA OperationOf ==
    ASSUME Typed, NEW r \in Slots
    PROVE  op[r] \in Operations
  BY DEF Typed

(* Two operations that differ at most in what they have met and in what    *)
(* was there while they walked.                                            *)
Alike(p, o) ==
    /\ p.does = o.does /\ p.at = o.at /\ p.k = o.k /\ p.file = o.file /\ p.seek = o.seek
    /\ p.ino = o.ino /\ p.text = o.text /\ p.done = o.done /\ p.stamp = o.stamp
    /\ p.todo = o.todo /\ p.found = o.found

LEMMA AlikeShape ==
    ASSUME NEW o, NEW p, Alike(p, o), Shape(o)
    PROVE  Shape(p)
  BY DEF Alike, Shape

LEMMA Becomes ==
    ASSUME Typed, NEW r \in Slots, NEW o \in Operations
    PROVE  LET ops == [op EXCEPT ![r] = o]
           IN  /\ ops \in [Slots -> Operations]
               /\ ops[r] = o
               /\ \A q \in Slots \ {r} : ops[q] = op[q]
  BY DEF Typed

LEMMA ObservedAre ==
    ASSUME NEW ops \in [Slots -> Operations], NEW d, NEW s
    PROVE  LET seen == Observed(ops, d, s)
           IN  /\ seen \in [Slots -> Operations]
               /\ \A q \in Slots : /\ Alike(seen[q], ops[q])
                                   /\ seen[q].met = ops[q].met
                                   /\ ops[q].does \notin Walks => seen[q] = ops[q]
                                   /\ ops[q].does \in Walks =>
                                        /\ seen[q].stayed = ops[q].stayed \cap Tree(d, s)
                                        /\ seen[q].ever = ops[q].ever \cup Tree(d, s)
<1> DEFINE seen == Observed(ops, d, s)
           new(q) == [ops[q] EXCEPT !.stayed = @ \cap Tree(d, s), !.ever = @ \cup Tree(d, s)]
<1>1. \A q \in Slots : seen[q] = IF ops[q].does \in Walks THEN new(q) ELSE ops[q]
  BY DEF Observed
<1>2. \A q \in Slots : /\ new(q) \in Operations /\ Alike(new(q), ops[q])
                       /\ new(q).met = ops[q].met
                       /\ new(q).stayed = ops[q].stayed \cap Tree(d, s)
                       /\ new(q).ever = ops[q].ever \cup Tree(d, s)
  <2> SUFFICES ASSUME NEW q \in Slots
               PROVE  /\ new(q) \in Operations /\ Alike(new(q), ops[q])
                      /\ new(q).met = ops[q].met
                      /\ new(q).stayed = ops[q].stayed \cap Tree(d, s)
                      /\ new(q).ever = ops[q].ever \cup Tree(d, s)
    OBVIOUS
  <2>1. ops[q] \in Operations /\ Tree(d, s) \subseteq Seen
    BY TreeSeen
  <2>2. new(q) \in Operations
    BY <2>1 DEF Operations
  <2>3. Alike(new(q), ops[q]) /\ new(q).met = ops[q].met
    BY <2>1 DEF Operations, Alike
  <2>4. new(q).stayed = ops[q].stayed \cap Tree(d, s) /\ new(q).ever = ops[q].ever \cup Tree(d, s)
    BY <2>1 DEF Operations
  <2> QED  BY <2>2, <2>3, <2>4
<1>3. \A q \in Slots : Alike(ops[q], ops[q])
  BY DEF Alike
<1>4. seen = [q \in Slots |-> seen[q]] /\ \A q \in Slots : seen[q] \in Operations
  BY <1>1, <1>2 DEF Observed
<1> HIDE DEF seen, new
<1>5. seen \in [Slots -> Operations]
  BY <1>4
<1>6. \A q \in Slots : Alike(seen[q], ops[q]) /\ seen[q].met = ops[q].met
  BY <1>1, <1>2, <1>3
<1>7. \A q \in Slots : /\ ops[q].does \notin Walks => seen[q] = ops[q]
                       /\ ops[q].does \in Walks =>
                            /\ seen[q].stayed = ops[q].stayed \cap Tree(d, s)
                            /\ seen[q].ever = ops[q].ever \cup Tree(d, s)
  BY <1>1, <1>2
<1> QED  BY <1>5, <1>6, <1>7 DEF seen

(* The operation of one slot becomes o, and the others go on as they are,  *)
Moves(r, o) ==
    /\ op' \in [Slots -> Operations]
    /\ op'[r] = o
    /\ \A q \in Slots \ {r} : Alike(op'[q], op[q]) /\ op'[q].met = op[q].met

(* the walks among them having seen the tree as it is now.                 *)
WalksSee(r) ==
    \A q \in Slots \ {r} : op[q].does \in Walks =>
        /\ Alike(op'[q], op[q])
        /\ op'[q].stayed = op[q].stayed \cap Tree(dir, sub)'
        /\ op'[q].ever = op[q].ever \cup Tree(dir, sub)'

LEMMA MovesPlain ==
    ASSUME Typed, NEW r \in Slots, NEW o \in Operations, op' = [op EXCEPT ![r] = o]
    PROVE  Moves(r, o) /\ \A q \in Slots \ {r} : op'[q] = op[q]
  BY Becomes DEF Moves, Alike

LEMMA MovesObserved ==
    ASSUME Typed, NEW r \in Slots, NEW o \in Operations, o.does \notin Walks,
           op' = Observed([op EXCEPT ![r] = o], dir', sub')
    PROVE  Moves(r, o) /\ WalksSee(r)
<1> DEFINE ops == [op EXCEPT ![r] = o]
<1>1. ops \in [Slots -> Operations] /\ ops[r] = o /\ \A q \in Slots \ {r} : ops[q] = op[q]
  BY Becomes
<1> HIDE DEF ops
<1>2. op' = Observed(ops, dir', sub')
  BY DEF ops
<1> DEFINE seen == Observed(ops, dir', sub')
<1>3. /\ seen \in [Slots -> Operations]
      /\ \A q \in Slots : /\ Alike(seen[q], ops[q])
                          /\ seen[q].met = ops[q].met
                          /\ ops[q].does \notin Walks => seen[q] = ops[q]
                          /\ ops[q].does \in Walks =>
                               /\ seen[q].stayed = ops[q].stayed \cap Tree(dir', sub')
                               /\ seen[q].ever = ops[q].ever \cup Tree(dir', sub')
  BY <1>1, ObservedAre
<1>4. /\ op' \in [Slots -> Operations]
      /\ \A q \in Slots : /\ Alike(op'[q], ops[q])
                          /\ op'[q].met = ops[q].met
                          /\ ops[q].does \notin Walks => op'[q] = ops[q]
                          /\ ops[q].does \in Walks =>
                               /\ op'[q].stayed = ops[q].stayed \cap Tree(dir', sub')
                               /\ op'[q].ever = ops[q].ever \cup Tree(dir', sub')
  BY <1>2, <1>3
<1>5. Tree(dir, sub)' = Tree(dir', sub')
  BY DEF Tree, Entries
<1>6. Moves(r, o)
  BY <1>1, <1>4 DEF Moves
<1>7. WalksSee(r)
  BY <1>1, <1>4, <1>5 DEF WalksSee
<1> QED  BY <1>6, <1>7

(* There are always inodes enough: two for the files, one for each slot.   *)
LEMMA UnusedInode ==
    ASSUME Typed, TempsAreOfEdits, NEW r \in Slots
    PROVE  /\ Unused \in Inodes
           /\ \A n \in Names : dir[n] # Unused
           /\ \A q \in Slots : op[q].ino # Unused
<1> DEFINE held == [q \in Slots |-> op[q].ino]
           H    == {held[q] : q \in Slots}
           a    == dir[<<"f", 0>>]
           b    == dir[<<"g", 0>>]
           U    == (H \cup {a}) \cup {b}
<1>1. held \in Surjection(Slots, H)
  BY DEF Surjection
<1>2. IsFiniteSet(H) /\ Cardinality(H) <= Cardinality(Slots) /\ Cardinality(H) \in Nat
  BY <1>1, SlotsCounted, FS_Surjection, FS_CardinalityType DEF ExistsSurjection
<1>3. /\ IsFiniteSet(H \cup {a})
      /\ Cardinality(H \cup {a}) <= Cardinality(Slots) + 1
      /\ Cardinality(H \cup {a}) \in Nat
  <2> HIDE DEF H, a
  <2> QED  BY <1>2, SlotsCounted, FS_AddElement
<1>4. IsFiniteSet(U) /\ Cardinality(U) <= Cardinality(Slots) + 2 /\ Cardinality(U) \in Nat
  <2> DEFINE V == H \cup {a}
  <2>1. IsFiniteSet(V) /\ Cardinality(V) <= Cardinality(Slots) + 1 /\ Cardinality(V) \in Nat
    BY <1>3
  <2> HIDE DEF V, b
  <2>2. /\ IsFiniteSet(V \cup {b})
        /\ Cardinality(V \cup {b}) <= Cardinality(Slots) + 2
        /\ Cardinality(V \cup {b}) \in Nat
    <3>1. /\ IsFiniteSet(V \cup {b})
          /\ \/ Cardinality(V \cup {b}) = Cardinality(V)
             \/ Cardinality(V \cup {b}) = Cardinality(V) + 1
      BY <2>1, FS_AddElement
    <3> QED  BY <2>1, <3>1, SlotsCounted
  <2> QED  BY <2>2 DEF V
<1>5. IsFiniteSet(Inodes) /\ Cardinality(Inodes) = 2 + 2 * Cardinality(Slots)
  BY SlotsCounted, FS_Interval DEF Inodes
<1>6. Cardinality(Slots) # 0
  BY SlotsCounted, FS_EmptySet
<1> HIDE DEF U
<1>7. ~ (Inodes \subseteq U)
  BY <1>4, <1>5, <1>6, SlotsCounted, FS_Subset
<1>8. PICK i \in Inodes : i \notin U
  BY <1>7
<1>9. \A q \in Slots : op[q].ino # i
  BY <1>8 DEF U
<1>10. \A n \in Names : dir[n] # i
  <2> SUFFICES ASSUME NEW n \in Names, dir[n] = i
               PROVE  FALSE
    OBVIOUS
  <2>1. CASE n \in Files \X Stamps
    BY <2>1, <1>8, <1>9, InodesAre DEF TempsAreOfEdits
  <2>2. CASE n = <<n[1], 0>>
    BY <2>2, <1>8, NamesAre, FilesAre DEF U
  <2> QED  BY <2>1, <2>2, NamesAre
<1> QED  BY <1>8, <1>9, <1>10 DEF Unused

-----------------------------------------------------------------------------
(* What a step does to the operations.  Most take one from its place to    *)
(* another, or end it, and leave the others as they are.                   *)

Others(r) == \A q \in Slots \ {r} : Alike(op'[q], op[q]) /\ op'[q].met = op[q].met

Turns(r, place, ino, text, done, stamp) ==
    /\ op' \in [Slots -> Operations] /\ Others(r)
    /\ op'[r].does = op[r].does /\ op'[r].k = op[r].k /\ op'[r].file = op[r].file
    /\ op'[r].seek = op[r].seek /\ op'[r].met = op[r].met
    /\ op'[r].at = place /\ op'[r].ino = ino /\ op'[r].text = text
    /\ op'[r].done = done /\ op'[r].stamp = stamp

Ends(r) == op' \in [Slots -> Operations] /\ Others(r) /\ op'[r] = Free

(* The walks under way go on, over a tree that is the same or that they    *)
(* see.                                                                    *)
WalksGo(r) ==
    \/ WalksSee(r)
    \/ /\ UNCHANGED <<dir, sub>>
       /\ \A q \in Slots \ {r} : op'[q] = op[q]

Fresh(i) == (\A n \in Names : dir[n] # i) /\ (\A q \in Slots : op[q].ino # i)

(* A change that fails has changed nothing.                                *)
GivesUp(r) ==
    /\ Ends(r) /\ WalksGo(r)
    /\ op[r].does \in Changes
    /\ Preparing(op[r]) => dir[Target(op[r])] = None
    /\ UNCHANGED <<dir, sub, disk, due, clashed>>

LEMMA PlacesAre ==
    \A place \in {"free", "mkdir", "create", "fill", "read", "temp", "put", "rename",
                  "open", "walk"} : place \in Places
  BY DEF Places

LEMMA ShapeOf ==
    ASSUME Typed, Shapes, NEW r \in Slots
    PROVE  op[r] \in Operations /\ Shape(op[r])
  BY OperationOf DEF Shapes

LEMMA EndsPlain ==
    ASSUME Typed, NEW r \in Slots, Fails(r)
    PROVE  Ends(r) /\ \A q \in Slots \ {r} : op'[q] = op[q]
  BY MovesPlain, FreeOperation DEF Fails, Ends, Others, Moves

(* An operation that turns to another place, as the actions write it.      *)
LEMMA TurnsPlain ==
    ASSUME Typed, NEW r \in Slots, NEW place \in Places, NEW ino \in {None} \cup Inodes,
           NEW text \in Seq(Nat), NEW done \in Nat, NEW stamp \in {0} \cup Stamps,
           op' = [op EXCEPT ![r] = [op[r] EXCEPT !.at = place, !.ino = ino, !.text = text,
                                                 !.done = done, !.stamp = stamp]]
    PROVE  /\ Turns(r, place, ino, text, done, stamp)
           /\ \A q \in Slots \ {r} : op'[q] = op[q]
<1> DEFINE p == [op[r] EXCEPT !.at = place, !.ino = ino, !.text = text, !.done = done,
                              !.stamp = stamp]
<1>1. op[r] \in Operations
  BY OperationOf
<1>2. /\ p \in Operations
      /\ p.does = op[r].does /\ p.k = op[r].k /\ p.file = op[r].file /\ p.seek = op[r].seek
      /\ p.met = op[r].met
      /\ p.at = place /\ p.ino = ino /\ p.text = text /\ p.done = done /\ p.stamp = stamp
  BY <1>1 DEF Operations
<1> HIDE DEF p
<1>3. op' = [op EXCEPT ![r] = p]
  BY DEF p
<1>4. Moves(r, p) /\ \A q \in Slots \ {r} : op'[q] = op[q]
  BY <1>2, <1>3, MovesPlain
<1> QED  BY <1>2, <1>4 DEF Moves, Turns, Others

LEMMA TurnsObserved ==
    ASSUME Typed, NEW r \in Slots, NEW place \in Places, NEW ino \in {None} \cup Inodes,
           NEW text \in Seq(Nat), NEW done \in Nat, NEW stamp \in {0} \cup Stamps,
           op[r].does \notin Walks,
           op' = Observed([op EXCEPT ![r] =
                             [op[r] EXCEPT !.at = place, !.ino = ino, !.text = text,
                                           !.done = done, !.stamp = stamp]], dir', sub')
    PROVE  Turns(r, place, ino, text, done, stamp) /\ WalksSee(r)
<1> DEFINE p == [op[r] EXCEPT !.at = place, !.ino = ino, !.text = text, !.done = done,
                              !.stamp = stamp]
<1>1. op[r] \in Operations
  BY OperationOf
<1>2. /\ p \in Operations
      /\ p.does = op[r].does /\ p.k = op[r].k /\ p.file = op[r].file /\ p.seek = op[r].seek
      /\ p.met = op[r].met
      /\ p.at = place /\ p.ino = ino /\ p.text = text /\ p.done = done /\ p.stamp = stamp
  BY <1>1 DEF Operations
<1> HIDE DEF p
<1>3. op' = Observed([op EXCEPT ![r] = p], dir', sub')
  BY DEF p
<1>4. Moves(r, p) /\ WalksSee(r)
  BY <1>2, <1>3, MovesObserved
<1> QED  BY <1>2, <1>4 DEF Moves, Turns, Others

LEMMA EndsObserved ==
    ASSUME Typed, NEW r \in Slots, op' = Observed([op EXCEPT ![r] = Free], dir', sub')
    PROVE  Ends(r) /\ WalksSee(r)
  BY MovesObserved, FreeOperation, DoingsAre DEF Ends, Others, Moves

LEMMA MkdirMoves ==
    ASSUME Typed, Shapes, NEW r \in Slots, Mkdir(r)
    PROVE  /\ Turns(r, "create", op[r].ino, op[r].text, op[r].done, op[r].stamp)
           /\ WalksSee(r)
           /\ op[r].at = "mkdir" /\ op[r].does \in {"write", "append"}
           /\ sub' \in BOOLEAN /\ (sub => sub')
           /\ UNCHANGED <<dir, disk, calls, due, clashed, told, mishaps>>
<1> DEFINE o == op[r]
<1>1. o \in Operations /\ Shape(o) /\ o.at = "mkdir"
  BY ShapeOf DEF Mkdir, At
<1>2. o.does \in {"write", "append"} /\ o.does \notin Walks
  BY <1>1, DoingsAre DEF Shape
<1>3. [op EXCEPT ![r].at = "create"] =
        [op EXCEPT ![r] = [o EXCEPT !.at = "create", !.ino = o.ino, !.text = o.text,
                                    !.done = o.done, !.stamp = o.stamp]]
  BY <1>1 DEF Typed, Operations
<1>4. op' = Observed([op EXCEPT ![r] =
                        [o EXCEPT !.at = "create", !.ino = o.ino, !.text = o.text,
                                  !.done = o.done, !.stamp = o.stamp]], dir', sub')
  <2>1. op' = Observed([op EXCEPT ![r].at = "create"], dir', sub')
    BY DEF Mkdir
  <2> QED  BY <1>3, <2>1
<1>5. Turns(r, "create", o.ino, o.text, o.done, o.stamp) /\ WalksSee(r)
  <2>1. /\ "create" \in Places /\ o.ino \in {None} \cup Inodes /\ o.text \in Seq(Nat)
        /\ o.done \in Nat /\ o.stamp \in {0} \cup Stamps
    BY <1>1, OperationFields, PlacesAre
  <2> HIDE DEF o
  <2> QED  BY <1>2, <1>4, <2>1, TurnsObserved DEF o
<1>6. sub' \in BOOLEAN /\ (sub => sub')
  BY DEF Mkdir, Typed
<1> QED  BY <1>1, <1>2, <1>5, <1>6 DEF Mkdir

(* The inode a file is opened with: the one at its name, or a new one.     *)
Opens(r, n, i) ==
    /\ i \in Inodes
    /\ op[r].file = "g" => sub
    /\ IF dir[n] = None THEN Fresh(i) ELSE i = dir[n]
    /\ dir' = [dir EXCEPT ![n] = i]
    /\ UNCHANGED <<sub, calls, due, told, mishaps>>

LEMMA OpenToWriteMoves ==
    ASSUME Typed, Shapes, TempsAreOfEdits, NEW r \in Slots, OpenToWrite(r)
    PROVE  /\ op[r].at = "create" /\ op[r].does \in {"write", "append"}
           /\ \/ GivesUp(r) /\ UNCHANGED <<calls, told, mishaps>>
              \/ \E i \in Inodes :
                    /\ Opens(r, Itself(op[r]), i)
                    /\ disk' = IF dir[Itself(op[r])] = None \/ op[r].does = "write"
                                 THEN [disk EXCEPT ![i] = <<>>] ELSE disk
                    /\ Turns(r, "fill", i, op[r].text, op[r].done, op[r].stamp)
                    /\ WalksSee(r)
                    /\ UNCHANGED clashed
<1> DEFINE o == op[r]
           n == Itself(o)
           i == IF dir[n] = None THEN Unused ELSE dir[n]
<1>1. o \in Operations /\ Shape(o) /\ o.at = "create"
  BY ShapeOf DEF OpenToWrite, At
<1>2. o.does \in {"write", "append"} /\ o.does \notin Walks /\ o.does \in Changes /\ ~Preparing(o)
  BY <1>1, DoingsAre DEF Shape, Preparing
<1>3. n \in Names /\ dir[n] \in {None} \cup Inodes
  BY <1>1, OperationFields, NamesAre DEF Itself, Typed
<1>4. i \in Inodes /\ (IF dir[n] = None THEN Fresh(i) ELSE i = dir[n])
  BY <1>3, UnusedInode DEF Fresh
<1>5. CASE o.file = "g" /\ ~sub
  <2>1. Fails(r) /\ UNCHANGED <<dir, disk, sub, calls, due, clashed, told, mishaps>>
    BY <1>5 DEF OpenToWrite
  <2>2. Ends(r) /\ \A q \in Slots \ {r} : op'[q] = op[q]
    BY <2>1, EndsPlain
  <2>3. GivesUp(r)
    BY <1>2, <2>1, <2>2 DEF GivesUp, WalksGo
  <2> QED  BY <1>1, <1>2, <2>1, <2>3
<1>6. CASE ~(o.file = "g" /\ ~sub)
  <2>1. /\ dir' = [dir EXCEPT ![n] = i]
        /\ disk' = IF dir[n] = None \/ o.does = "write" THEN [disk EXCEPT ![i] = <<>>] ELSE disk
        /\ op' = Observed([op EXCEPT ![r].at = "fill", ![r].ino = i], dir', sub)
        /\ UNCHANGED <<sub, calls, due, clashed, told, mishaps>>
    BY <1>6 DEF OpenToWrite
  <2> HIDE DEF n, i
  <2>2. [op EXCEPT ![r].at = "fill", ![r].ino = i] =
          [op EXCEPT ![r] = [o EXCEPT !.at = "fill", !.ino = i, !.text = o.text,
                                      !.done = o.done, !.stamp = o.stamp]]
    BY <1>1, <1>4 DEF Typed, Operations
  <2>3. op' = Observed([op EXCEPT ![r] = [o EXCEPT !.at = "fill", !.ino = i, !.text = o.text,
                                      !.done = o.done, !.stamp = o.stamp]], dir', sub')
    <3>1. sub' = sub /\ op' = Observed([op EXCEPT ![r].at = "fill", ![r].ino = i], dir', sub)
      BY <2>1
    <3> QED  BY <2>2, <3>1
  <2>4. Turns(r, "fill", i, o.text, o.done, o.stamp) /\ WalksSee(r)
    <3>1. /\ "fill" \in Places /\ i \in {None} \cup Inodes /\ o.text \in Seq(Nat)
          /\ o.done \in Nat /\ o.stamp \in {0} \cup Stamps
      BY <1>1, <1>4, OperationFields, PlacesAre
    <3> HIDE DEF o
    <3> QED  BY <1>2, <2>3, <3>1, TurnsObserved DEF o
  <2>5. Opens(r, n, i)
    BY <1>4, <1>6, <2>1 DEF Opens
  <2> QED  BY <1>1, <1>2, <1>4, <2>1, <2>4, <2>5 DEF n
<1> QED  BY <1>5, <1>6

LEMMA FillMoves ==
    ASSUME Typed, Shapes, NEW r \in Slots, Fill(r)
    PROVE  LET o    == op[r]
               n    == IF o.does = "append" THEN Len(disk[o.ino]) + 1 ELSE o.done + 1
               last == o.does = "append" \/ o.done + 1 = Chunks
           IN  /\ o.at = "fill" /\ o.does \in {"write", "append"} /\ o.ino \in Inodes
               /\ n \in Nat \ {0}
               /\ disk' = [disk EXCEPT ![o.ino] = Overwrite(disk[o.ino], n, o.k)]
               /\ IF last THEN Ends(r)
                    ELSE /\ Turns(r, "fill", o.ino, o.text, o.done + 1, o.stamp)
                         /\ o.done + 1 < Chunks
               /\ \A q \in Slots \ {r} : op'[q] = op[q]
               /\ due' = IF last /\ ~o.met THEN due \cup {<<o.file, o.k>>} ELSE due
               /\ UNCHANGED <<dir, sub, calls, clashed, told, mishaps>>
<1> DEFINE o    == op[r]
           n    == IF o.does = "append" THEN Len(disk[o.ino]) + 1 ELSE o.done + 1
           last == o.does = "append" \/ o.done + 1 = Chunks
<1>1. o \in Operations /\ Shape(o) /\ o.at = "fill"
  BY ShapeOf DEF Fill, At
<1>2. o.does \in {"write", "append"} /\ o.ino \in Inodes /\ o.done \in Nat /\ o.done < Chunks
  BY <1>1, OperationFields DEF Shape
<1>3. n \in Nat \ {0}
  <2>1. disk[o.ino] \in Seq(Nat)
    BY <1>2 DEF Typed
  <2> QED  BY <1>2, <2>1
<1>4. /\ disk' = [disk EXCEPT ![o.ino] = Overwrite(disk[o.ino], n, o.k)]
      /\ op' = IF last THEN [op EXCEPT ![r] = Free] ELSE [op EXCEPT ![r].done = @ + 1]
      /\ due' = IF last /\ ~o.met THEN due \cup {<<o.file, o.k>>} ELSE due
      /\ UNCHANGED <<dir, sub, calls, clashed, told, mishaps>>
  BY DEF Fill
<1>5. CASE last
  <2>1. Fails(r)
    BY <1>4, <1>5 DEF Fails
  <2>2. Ends(r) /\ \A q \in Slots \ {r} : op'[q] = op[q]
    BY <2>1, EndsPlain
  <2> HIDE DEF n
  <2>3. /\ o.at = "fill" /\ o.does \in {"write", "append"} /\ o.ino \in Inodes
        /\ n \in Nat \ {0}
    BY <1>1, <1>2, <1>3
  <2> QED  BY <1>4, <1>5, <2>2, <2>3 DEF n
<1>6. CASE ~last
  <2>1. [op EXCEPT ![r].done = @ + 1] =
          [op EXCEPT ![r] = [o EXCEPT !.at = "fill", !.ino = o.ino, !.text = o.text,
                                      !.done = o.done + 1, !.stamp = o.stamp]]
    BY <1>1 DEF Typed, Operations
  <2>2. op' = [op EXCEPT ![r] = [o EXCEPT !.at = "fill", !.ino = o.ino, !.text = o.text,
                                      !.done = o.done + 1, !.stamp = o.stamp]]
    BY <1>4, <1>6, <2>1
  <2>3. /\ Turns(r, "fill", o.ino, o.text, o.done + 1, o.stamp)
        /\ \A q \in Slots \ {r} : op'[q] = op[q]
    <3>1. /\ "fill" \in Places /\ o.ino \in {None} \cup Inodes /\ o.text \in Seq(Nat)
          /\ o.done + 1 \in Nat /\ o.stamp \in {0} \cup Stamps
      BY <1>1, <1>2, OperationFields, PlacesAre
    <3> HIDE DEF o
    <3> QED  BY <2>2, <3>1, TurnsPlain DEF o
  <2>4. o.done + 1 < Chunks
    BY <1>2, <1>6 DEF Chunks
  <2> HIDE DEF n
  <2>5. /\ o.at = "fill" /\ o.does \in {"write", "append"} /\ o.ino \in Inodes
        /\ n \in Nat \ {0}
    BY <1>1, <1>2, <1>3
  <2> QED  BY <1>4, <1>6, <2>3, <2>4, <2>5 DEF n
<1> QED  BY <1>5, <1>6

LEMMA ReadToEditMoves ==
    ASSUME Typed, Shapes, NEW r \in Slots, NEW all \in BOOLEAN, ReadToEdit(r, all)
    PROVE  /\ op[r].at = "read" /\ op[r].does = "edit"
           /\ UNCHANGED <<dir, sub, disk, calls, due, clashed, told, mishaps>>
           /\ \A q \in Slots \ {r} : op'[q] = op[q]
           /\ \/ GivesUp(r)
              \/ \E stamp \in Stamps :
                    LET text == Content(op[r].file)
                        new  == Replaced(text, op[r].seek, op[r].k)
                    IN  /\ op[r].seek \in Marks(text)
                        /\ new \in Seq(Nat)
                        /\ Turns(r, "temp", op[r].ino, new, op[r].done, stamp)
<1> DEFINE o    == op[r]
           text == Content(o.file)
           new  == Replaced(text, o.seek, o.k)
<1>1. o \in Operations /\ Shape(o) /\ o.at = "read"
  BY ShapeOf DEF ReadToEdit, At
<1>2. o.does = "edit" /\ o.does \in Changes /\ ~Preparing(o)
  BY <1>1, DoingsAre DEF Shape, Preparing
<1>3. UNCHANGED <<dir, sub, disk, calls, due, clashed, told, mishaps>>
  BY DEF ReadToEdit
<1>4. ASSUME Fails(r)
      PROVE  GivesUp(r) /\ \A q \in Slots \ {r} : op'[q] = op[q]
  BY <1>2, <1>3, <1>4, EndsPlain DEF GivesUp, WalksGo
<1>5. ASSUME ~Fails(r)
      PROVE  /\ Matches(text, o.seek) # 0
             /\ \E stamp \in Stamps : op' = [op EXCEPT ![r].at = "temp", ![r].stamp = stamp,
                                                       ![r].text = new]
  BY <1>5 DEF ReadToEdit
<1>6. CASE ~Fails(r)
  <2>1. text \in Seq(Nat)
    BY <1>1, OperationFields, ContentOf
  <2>2. o.seek \in Marks(text)
    BY <1>5, <1>6, <2>1, SomeMatch
  <2>3. new \in Seq(Nat)
    BY <1>1, <2>1, OperationFields, Replaces
  <2> HIDE DEF new
  <2>4. PICK stamp \in Stamps : op' = [op EXCEPT ![r].at = "temp", ![r].stamp = stamp,
                                                 ![r].text = new]
    BY <1>5, <1>6
  <2>5. [op EXCEPT ![r].at = "temp", ![r].stamp = stamp, ![r].text = new] =
          [op EXCEPT ![r] = [o EXCEPT !.at = "temp", !.ino = o.ino, !.text = new,
                                      !.done = o.done, !.stamp = stamp]]
    BY <1>1, <2>3 DEF Typed, Operations
  <2>6. /\ Turns(r, "temp", o.ino, new, o.done, stamp)
        /\ \A q \in Slots \ {r} : op'[q] = op[q]
    <3>2. op' = [op EXCEPT ![r] = [o EXCEPT !.at = "temp", !.ino = o.ino, !.text = new,
                                      !.done = o.done, !.stamp = stamp]]
      BY <2>4, <2>5
    <3>1. /\ "temp" \in Places /\ o.ino \in {None} \cup Inodes
          /\ o.done \in Nat /\ stamp \in {0} \cup Stamps
      BY <1>1, OperationFields, PlacesAre
    <3> HIDE DEF o
    <3> QED  BY <2>3, <3>2, <3>1, TurnsPlain DEF o
  <2> QED  BY <1>1, <1>2, <1>3, <2>2, <2>3, <2>6 DEF new
<1> QED  BY <1>1, <1>2, <1>3, <1>4, <1>6

LEMMA OpenTempMoves ==
    ASSUME Typed, Shapes, TempsAreOfEdits, NEW r \in Slots, OpenTemp(r)
    PROVE  /\ op[r].at = "temp" /\ op[r].does = "edit" /\ op[r].stamp \in Stamps
           /\ \/ GivesUp(r) /\ UNCHANGED <<calls, told, mishaps>>
              \/ \E i \in Inodes :
                    /\ Opens(r, Target(op[r]), i)
                    /\ disk' = [disk EXCEPT ![i] = <<>>]
                    /\ clashed' = (clashed \/ \E q \in Slots : /\ Preparing(op[q])
                                                             /\ Target(op[q]) = Target(op[r]))
                    /\ Turns(r, "put", i, op[r].text, op[r].done, op[r].stamp)
                    /\ WalksSee(r)
<1> DEFINE o == op[r]
           n == Target(o)
           i == IF dir[n] = None THEN Unused ELSE dir[n]
<1>1. o \in Operations /\ Shape(o) /\ o.at = "temp"
  BY ShapeOf DEF OpenTemp, At
<1>2. o.does = "edit" /\ o.does \notin Walks /\ o.does \in Changes /\ ~Preparing(o)
  BY <1>1, DoingsAre DEF Shape, Preparing
<1>3. o.stamp \in Stamps
  BY <1>1 DEF Shape
<1>4. n \in Names /\ dir[n] \in {None} \cup Inodes
  BY <1>1, <1>3, OperationFields, NamesAre DEF Target, Typed
<1>5. i \in Inodes /\ (IF dir[n] = None THEN Fresh(i) ELSE i = dir[n])
  BY <1>4, UnusedInode DEF Fresh
<1>6. CASE o.file = "g" /\ ~sub
  <2>1. Fails(r) /\ UNCHANGED <<dir, disk, sub, calls, due, clashed, told, mishaps>>
    BY <1>6 DEF OpenTemp
  <2>2. Ends(r) /\ \A q \in Slots \ {r} : op'[q] = op[q]
    BY <2>1, EndsPlain
  <2>3. GivesUp(r)
    BY <1>2, <2>1, <2>2 DEF GivesUp, WalksGo
  <2> QED  BY <1>1, <1>2, <1>3, <2>1, <2>3
<1>7. CASE ~(o.file = "g" /\ ~sub)
  <2>1. /\ dir' = [dir EXCEPT ![n] = i]
        /\ disk' = [disk EXCEPT ![i] = <<>>]
        /\ clashed' = (clashed \/ \E q \in Slots : Preparing(op[q]) /\ Target(op[q]) = n)
        /\ op' = Observed([op EXCEPT ![r].at = "put", ![r].ino = i], dir', sub)
        /\ UNCHANGED <<sub, calls, due, told, mishaps>>
    BY <1>7 DEF OpenTemp, Preparing
  <2> HIDE DEF n, i
  <2>2. [op EXCEPT ![r].at = "put", ![r].ino = i] =
          [op EXCEPT ![r] = [o EXCEPT !.at = "put", !.ino = i, !.text = o.text,
                                      !.done = o.done, !.stamp = o.stamp]]
    BY <1>1, <1>5 DEF Typed, Operations
  <2>3. op' = Observed([op EXCEPT ![r] = [o EXCEPT !.at = "put", !.ino = i, !.text = o.text,
                                      !.done = o.done, !.stamp = o.stamp]], dir', sub')
    <3>1. sub' = sub /\ op' = Observed([op EXCEPT ![r].at = "put", ![r].ino = i], dir', sub)
      BY <2>1
    <3> QED  BY <2>2, <3>1
  <2>4. Turns(r, "put", i, o.text, o.done, o.stamp) /\ WalksSee(r)
    <3>1. /\ "put" \in Places /\ i \in {None} \cup Inodes /\ o.text \in Seq(Nat)
          /\ o.done \in Nat /\ o.stamp \in {0} \cup Stamps
      BY <1>1, <1>5, OperationFields, PlacesAre
    <3> HIDE DEF o
    <3> QED  BY <1>2, <2>3, <3>1, TurnsObserved DEF o
  <2>5. Opens(r, n, i)
    BY <1>5, <1>7, <2>1 DEF Opens
  <2> QED  BY <1>1, <1>2, <1>3, <1>5, <2>1, <2>4, <2>5 DEF n
<1> QED  BY <1>6, <1>7

LEMMA WriteTempMoves ==
    ASSUME Typed, Shapes, NEW r \in Slots, WriteTemp(r)
    PROVE  LET o == op[r]
               n == o.done + 1
           IN  /\ o.at = "put" /\ o.does = "edit" /\ o.ino \in Inodes /\ o.stamp \in Stamps
               /\ n \in 1..Len(o.text) /\ o.text[n] \in Nat
               /\ disk' = [disk EXCEPT ![o.ino] = Overwrite(disk[o.ino], n, o.text[n])]
               /\ Turns(r, IF n = Len(o.text) THEN "rename" ELSE "put", o.ino, o.text, n, o.stamp)
               /\ \A q \in Slots \ {r} : op'[q] = op[q]
               /\ UNCHANGED <<dir, sub, calls, due, clashed, told, mishaps>>
<1> DEFINE o == op[r]
           n == o.done + 1
           place == IF n = Len(o.text) THEN "rename" ELSE "put"
<1>1. o \in Operations /\ Shape(o) /\ o.at = "put"
  BY ShapeOf DEF WriteTemp, At
<1>2. /\ o.does = "edit" /\ o.ino \in Inodes /\ o.stamp \in Stamps
      /\ o.done \in Nat /\ o.done < Len(o.text) /\ o.text \in Seq(Nat)
  BY <1>1, OperationFields DEF Shape
<1>3. n \in 1..Len(o.text) /\ o.text[n] \in Nat /\ n \in Nat
  <2>1. Len(o.text) \in Nat /\ \A i \in 1..Len(o.text) : o.text[i] \in Nat
    BY <1>2
  <2>2. n \in 1..Len(o.text) /\ n \in Nat
    BY <1>2, <2>1
  <2> QED  BY <2>1, <2>2
<1>4. /\ disk' = [disk EXCEPT ![o.ino] = Overwrite(disk[o.ino], n, o.text[n])]
      /\ op' = [op EXCEPT ![r].done = n, ![r].at = IF n = Len(o.text) THEN "rename" ELSE @]
      /\ UNCHANGED <<dir, sub, calls, due, clashed, told, mishaps>>
  BY DEF WriteTemp
<1>5. place \in Places
  BY PlacesAre
<1>6. [op EXCEPT ![r].done = n, ![r].at = IF n = Len(o.text) THEN "rename" ELSE @] =
        [op EXCEPT ![r] = [o EXCEPT !.at = place, !.ino = o.ino, !.text = o.text,
                                    !.done = n, !.stamp = o.stamp]]
  BY <1>1, <1>3 DEF Typed, Operations
<1>7. Turns(r, place, o.ino, o.text, n, o.stamp) /\ \A q \in Slots \ {r} : op'[q] = op[q]
  <2>1. op' = [op EXCEPT ![r] = [o EXCEPT !.at = place, !.ino = o.ino, !.text = o.text,
                                          !.done = n, !.stamp = o.stamp]]
    BY <1>4, <1>6
  <2>2. o.ino \in {None} \cup Inodes /\ o.text \in Seq(Nat) /\ o.stamp \in {0} \cup Stamps
    BY <1>1, OperationFields
  <2> HIDE DEF o, n, place
  <2> QED  BY <1>3, <1>5, <2>1, <2>2, TurnsPlain DEF o
<1> QED  BY <1>1, <1>2, <1>3, <1>4, <1>7

LEMMA RenameMoves ==
    ASSUME Typed, Shapes, NEW r \in Slots, Rename(r)
    PROVE  LET o == op[r]
           IN  /\ o.at = "rename" /\ o.does = "edit" /\ o.stamp \in Stamps
               /\ \/ GivesUp(r) /\ UNCHANGED <<calls, told, mishaps>>
                  \/ /\ dir[Target(o)] # None
                     /\ dir' = [dir EXCEPT ![Itself(o)] = dir[Target(o)], ![Target(o)] = None]
                     /\ Ends(r) /\ WalksSee(r)
                     /\ due' = IF o.met THEN due ELSE due \cup {<<o.file, o.k>>}
                     /\ UNCHANGED <<sub, disk, calls, clashed, told, mishaps>>
<1> DEFINE o == op[r]
           t == Target(o)
<1>1. o \in Operations /\ Shape(o) /\ o.at = "rename"
  BY ShapeOf DEF Rename, At
<1>2. o.does = "edit" /\ o.does \in Changes /\ o.stamp \in Stamps
  BY <1>1, DoingsAre DEF Shape
<1>3. t # Itself(o)
  BY <1>1, <1>2, OperationFields, NamesAre DEF Target, Itself
<1>4. CASE dir[t] = None
  <2>1. Fails(r) /\ UNCHANGED <<dir, due, sub, disk, calls, clashed, told, mishaps>>
    BY <1>4 DEF Rename
  <2>2. Ends(r) /\ \A q \in Slots \ {r} : op'[q] = op[q]
    BY <2>1, EndsPlain
  <2>3. GivesUp(r)
    BY <1>2, <1>4, <2>1, <2>2 DEF GivesUp, WalksGo
  <2> QED  BY <1>1, <1>2, <2>1, <2>3
<1>5. CASE dir[t] # None
  <2>1. /\ dir' = [dir EXCEPT ![Itself(o)] = dir[t], ![t] = None]
        /\ due' = IF o.met THEN due ELSE due \cup {<<o.file, o.k>>}
        /\ op' = Observed([op EXCEPT ![r] = Free], dir', sub)
        /\ UNCHANGED <<sub, disk, calls, clashed, told, mishaps>>
    BY <1>3, <1>5 DEF Rename
  <2>2. op' = Observed([op EXCEPT ![r] = Free], dir', sub')
    BY <2>1
  <2>3. Ends(r) /\ WalksSee(r)
    BY <2>2, EndsObserved
  <2> QED  BY <1>1, <1>2, <1>5, <2>1, <2>3
<1> QED  BY <1>4, <1>5

(* A walk that goes on, with what is left and what it has found.           *)
WalksOn(r, todo, found) ==
    /\ op' \in [Slots -> Operations]
    /\ \A q \in Slots \ {r} : op'[q] = op[q]
    /\ op'[r].does = op[r].does /\ op'[r].ino = op[r].ino /\ op'[r].at = "walk"
    /\ op'[r].todo = todo /\ op'[r].found = found
    /\ op'[r].stayed = op[r].stayed /\ op'[r].ever = op[r].ever

Answers == [ok : BOOLEAN, full : BOOLEAN, does : Doings, found : SUBSET Seen,
            stayed : SUBSET Seen, ever : SUBSET Seen]

LEMMA AnswerTyped ==
    ASSUME NEW o \in Operations, NEW ok \in BOOLEAN
    PROVE  Answer(o, ok) \in Answers
<1>1. (Cardinality(o.found) >= MaxResults) \in BOOLEAN
  OBVIOUS
<1>2. o.does \in Doings /\ o.found \in SUBSET Seen /\ o.stayed \in SUBSET Seen /\ o.ever \in SUBSET Seen
  BY OperationFields
<1> QED  BY <1>1, <1>2 DEF Answer, Answers

LEMMA WalkMoves ==
    ASSUME Typed, NEW r \in Slots, NEW todo \in Seq(SUBSET Seen), NEW found \in SUBSET Seen,
           op' = [op EXCEPT ![r] = [op[r] EXCEPT !.at = "walk", !.todo = todo, !.found = found]]
    PROVE  WalksOn(r, todo, found)
<1> DEFINE p == [op[r] EXCEPT !.at = "walk", !.todo = todo, !.found = found]
<1>1. op[r] \in Operations /\ "walk" \in Places
  BY OperationOf, PlacesAre
<1>2. /\ p \in Operations /\ p.does = op[r].does /\ p.ino = op[r].ino /\ p.at = "walk"
      /\ p.todo = todo /\ p.found = found
      /\ p.stayed = op[r].stayed /\ p.ever = op[r].ever
  BY <1>1 DEF Operations
<1> HIDE DEF p
<1>3. op' = [op EXCEPT ![r] = p]
  BY DEF p
<1>4. Moves(r, p) /\ \A q \in Slots \ {r} : op'[q] = op[q]
  BY <1>2, <1>3, MovesPlain
<1> QED  BY <1>2, <1>4 DEF Moves, WalksOn

LEMMA OpenDirectoryMoves ==
    ASSUME Typed, Shapes, NEW r \in Slots, OpenDirectory(r)
    PROVE  /\ op[r].at = "open" /\ op[r].does \in Walks
           /\ WalksOn(r, <<Entries(dir, sub, "top")>>, op[r].found)
           /\ UNCHANGED <<dir, sub, disk, calls, due, clashed, told, mishaps>>
<1> DEFINE o    == op[r]
           todo == <<Entries(dir, sub, "top")>>
<1>1. o \in Operations /\ Shape(o) /\ o.at = "open"
  BY ShapeOf DEF OpenDirectory, At
<1>2. o.does \in Walks
  BY <1>1 DEF Shape
<1>3. todo \in Seq(SUBSET Seen) /\ o.found \in SUBSET Seen
  <2>1. Entries(dir, sub, "top") \in SUBSET Seen
    BY TreeSeen
  <2>2. todo \in Seq(SUBSET Seen)
    BY <2>1
  <2> QED  BY <1>1, <2>2, OperationFields
<1>4. op' = [op EXCEPT ![r].at = "walk", ![r].todo = todo]
  BY DEF OpenDirectory
<1> HIDE DEF todo
<1>5. [op EXCEPT ![r].at = "walk", ![r].todo = todo] =
        [op EXCEPT ![r] = [o EXCEPT !.at = "walk", !.todo = todo, !.found = o.found]]
  BY <1>1, <1>3 DEF Typed, Operations
<1>6. op' = [op EXCEPT ![r] = [o EXCEPT !.at = "walk", !.todo = todo, !.found = o.found]]
  BY <1>4, <1>5
<1>7. WalksOn(r, todo, o.found)
  <2> HIDE DEF o
  <2> QED  BY <1>3, <1>6, WalkMoves DEF o
<1> QED  BY <1>1, <1>2, <1>7 DEF OpenDirectory, todo

LEMMA LeaveMoves ==
    ASSUME Typed, Shapes, NEW r \in Slots, Leave(r)
    PROVE  /\ op[r].at = "walk" /\ op[r].does \in Walks /\ op[r].todo # <<>>
           /\ Head(op[r].todo) = {} \/ Full(op[r])
           /\ WalksOn(r, Tail(op[r].todo), op[r].found)
           /\ UNCHANGED <<dir, sub, disk, calls, due, clashed, told, mishaps>>
<1> DEFINE o    == op[r]
           todo == Tail(o.todo)
<1>1. o \in Operations /\ Shape(o) /\ o.at = "walk" /\ o.todo # <<>>
  BY ShapeOf DEF Leave, At
<1>2. o.does \in Walks
  BY <1>1 DEF Shape
<1>3. todo \in Seq(SUBSET Seen) /\ o.found \in SUBSET Seen
  BY <1>1, OperationFields
<1>4. op' = [op EXCEPT ![r].todo = Tail(@)]
  BY DEF Leave
<1>5. [op EXCEPT ![r].todo = Tail(@)] =
        [op EXCEPT ![r] = [o EXCEPT !.at = "walk", !.todo = todo, !.found = o.found]]
  BY <1>1, <1>3 DEF Typed, Operations
<1>6. op' = [op EXCEPT ![r] = [o EXCEPT !.at = "walk", !.todo = todo, !.found = o.found]]
  BY <1>4, <1>5
<1>7. WalksOn(r, todo, o.found)
  <2> HIDE DEF o, todo
  <2> QED  BY <1>3, <1>6, WalkMoves DEF o
<1> QED  BY <1>1, <1>2, <1>7 DEF Leave

LEMMA AnswerWalkMoves ==
    ASSUME Typed, Shapes, NEW r \in Slots, AnswerWalk(r)
    PROVE  /\ op[r].at = "walk" /\ op[r].does \in Walks /\ op[r].todo = <<>>
           /\ Ends(r) /\ \A q \in Slots \ {r} : op'[q] = op[q]
           /\ told' = Answer(op[r], TRUE)
           /\ UNCHANGED <<dir, sub, disk, calls, due, clashed, mishaps>>
<1>1. op[r] \in Operations /\ Shape(op[r]) /\ op[r].at = "walk"
  BY ShapeOf DEF AnswerWalk, At
<1>2. op[r].does \in Walks
  BY <1>1 DEF Shape
<1>3. Ends(r) /\ \A q \in Slots \ {r} : op'[q] = op[q]
  BY EndsPlain DEF AnswerWalk
<1> QED  BY <1>1, <1>2, <1>3 DEF AnswerWalk

LEMMA VisitMoves ==
    ASSUME Typed, Shapes, NEW r \in Slots, Visit(r)
    PROVE  LET o   == op[r]
               top == Head(o.todo)
           IN  /\ o.at = "walk" /\ o.does \in Walks /\ o.todo # <<>> /\ ~Full(o)
               /\ UNCHANGED <<dir, sub, disk, calls, due, clashed, mishaps>>
               /\ \E n \in top :
                    LET left  == <<top \ {n}>> \o Tail(o.todo)
                        found == IF Wanted(o, n) THEN o.found \cup {n} ELSE o.found
                    IN  \/ n # Sub /\ WalksOn(r, left, found) /\ UNCHANGED told
                        \/ /\ n = Sub /\ (sub \/ o.does = "grep")
                           /\ WalksOn(r, <<Entries(dir, sub, "sub")>> \o left, found)
                           /\ UNCHANGED told
                        \/ /\ Ends(r) /\ \A q \in Slots \ {r} : op'[q] = op[q]
                           /\ \E p \in Operations : told' = Answer(p, FALSE)
<1> DEFINE o   == op[r]
           top == Head(o.todo)
<1>1. o \in Operations /\ Shape(o) /\ o.at = "walk" /\ o.todo # <<>> /\ ~Full(o)
  BY ShapeOf DEF Visit, At
<1>2. o.does \in Walks
  BY <1>1 DEF Shape
<1>3. o.todo \in Seq(SUBSET Seen) /\ top \in SUBSET Seen /\ Tail(o.todo) \in Seq(SUBSET Seen)
  BY <1>1, OperationFields
<1> DEFINE left(n)  == <<top \ {n}>> \o Tail(o.todo)
           found(n) == IF Wanted(o, n) THEN o.found \cup {n} ELSE o.found
           met(n)   == [o EXCEPT !.todo  = <<top \ {n}>> \o Tail(@),
                                 !.found = IF Wanted(o, n) THEN @ \cup {n} ELSE @]
           below(n) == [met(n) EXCEPT !.todo = <<Entries(dir, sub, "sub")>> \o @]
<1>4. UNCHANGED <<dir, sub, disk, calls, due, clashed, mishaps>>
  BY DEF Visit
<1>5. PICK n \in top :
        IF n # Sub
          THEN op' = [op EXCEPT ![r] = met(n)] /\ UNCHANGED told
          ELSE IF sub \/ o.does = "grep"
            THEN op' = [op EXCEPT ![r] = below(n)] /\ UNCHANGED told
            ELSE Fails(r) /\ told' = Answer(met(n), FALSE)
  BY DEF Visit
<1>6. left(n) \in Seq(SUBSET Seen) /\ found(n) \in SUBSET Seen
  <2>1. <<top \ {n}>> \in Seq(SUBSET Seen)
    BY <1>3
  <2>2. left(n) \in Seq(SUBSET Seen)
    BY <1>3, <2>1
  <2>3. o.found \in SUBSET Seen /\ n \in Seen
    BY <1>1, <1>3, OperationFields
  <2> QED  BY <2>2, <2>3
<1>7. <<Entries(dir, sub, "sub")>> \o left(n) \in Seq(SUBSET Seen)
  <2>1. <<Entries(dir, sub, "sub")>> \in Seq(SUBSET Seen)
    BY TreeSeen
  <2> HIDE DEF left
  <2> QED  BY <1>6, <2>1
<1>8. /\ met(n) = [o EXCEPT !.at = "walk", !.todo = left(n), !.found = found(n)]
      /\ met(n) \in Operations
  BY <1>1, <1>6 DEF Operations
<1>9. below(n) = [o EXCEPT !.at = "walk", !.todo = <<Entries(dir, sub, "sub")>> \o left(n),
                           !.found = found(n)]
  BY <1>1, <1>7 DEF Operations
<1>10. CASE n # Sub
  <2>1. op' = [op EXCEPT ![r] = [o EXCEPT !.at = "walk", !.todo = left(n), !.found = found(n)]]
        /\ UNCHANGED told
    BY <1>5, <1>8, <1>10
  <2>2. WalksOn(r, left(n), found(n))
    <3> HIDE DEF o, left, found
    <3> QED  BY <1>6, <2>1, WalkMoves DEF o
  <2> QED  BY <1>1, <1>2, <1>4, <1>10, <2>1, <2>2
<1>11. CASE n = Sub /\ (sub \/ o.does = "grep")
  <2> DEFINE all == <<Entries(dir, sub, "sub")>> \o left(n)
  <2>1. op' = [op EXCEPT ![r] = [o EXCEPT !.at = "walk", !.todo = all, !.found = found(n)]]
        /\ UNCHANGED told
    BY <1>5, <1>9, <1>11
  <2>2. all \in Seq(SUBSET Seen)
    BY <1>7
  <2>3. WalksOn(r, all, found(n))
    <3> HIDE DEF o, all, found
    <3> QED  BY <1>6, <2>1, <2>2, WalkMoves DEF o
  <2> QED  BY <1>1, <1>2, <1>4, <1>11, <2>1, <2>3
<1>12. CASE n = Sub /\ ~(sub \/ o.does = "grep")
  <2>1. Fails(r) /\ told' = Answer(met(n), FALSE)
    BY <1>5, <1>12
  <2>2. Ends(r) /\ \A q \in Slots \ {r} : op'[q] = op[q]
    BY <2>1, EndsPlain
  <2> HIDE DEF met
  <2> QED  BY <1>1, <1>2, <1>4, <1>8, <2>1, <2>2
<1> QED  BY <1>10, <1>11, <1>12

(* A call begins in a free slot; those it meets are told.                  *)
Begun(r, does, at, k, f, x) ==
    /\ op[r].at = "free"
    /\ op' \in [Slots -> Operations]
    /\ op'[r].does = does /\ op'[r].at = at /\ op'[r].k = k /\ op'[r].file = f
    /\ op'[r].seek = x /\ op'[r].ino = None /\ op'[r].done = 0
    /\ op'[r].todo = <<>> /\ op'[r].found = {}
    /\ \A q \in Slots \ {r} :
          /\ Alike(op'[q], op[q])
          /\ op[q].met => op'[q].met
          /\ op[q].does \in Walks => op'[q] = op[q]
          /\ does \in Changes /\ op[q].does \in Changes /\ op[q].file = f =>
                op'[q].met /\ op'[r].met
    /\ does \in Walks => op'[r].stayed = Tree(dir, sub) /\ op'[r].ever = Tree(dir, sub)

LEMMA MeetingAre ==
    ASSUME Typed, NEW o \in Operations
    PROVE  /\ Meeting(o) \in [Slots -> Operations]
           /\ \A q \in Slots :
                /\ Alike(Meeting(o)[q], op[q])
                /\ op[q].met => Meeting(o)[q].met
                /\ op[q].does \notin Changes => Meeting(o)[q] = op[q]
                /\ op[q].does \in Changes /\ op[q].file = o.file => Meeting(o)[q].met
<1> DEFINE new(q) == [op[q] EXCEPT !.met = TRUE]
           there(q) == op[q].does \in Changes /\ op[q].file = o.file
<1>1. Meeting(o) = [q \in Slots |-> IF there(q) THEN new(q) ELSE op[q]]
  BY DEF Meeting
<1>2. \A q \in Slots : op[q] \in Operations
  BY OperationOf
<1>3. \A q \in Slots : new(q) \in Operations /\ Alike(new(q), op[q]) /\ new(q).met = TRUE
  BY <1>2 DEF Operations, Alike
<1>4. \A q \in Slots : Alike(op[q], op[q])
  BY DEF Alike
<1> HIDE DEF new, there
<1>5. Meeting(o) \in [Slots -> Operations]
  BY <1>1, <1>2, <1>3
<1>6. \A q \in Slots : Meeting(o)[q] = IF there(q) THEN new(q) ELSE op[q]
  BY <1>1
<1>7. \A q \in Slots : /\ Alike(Meeting(o)[q], op[q])
                       /\ op[q].met => Meeting(o)[q].met
                       /\ there(q) => Meeting(o)[q].met
                       /\ ~there(q) => Meeting(o)[q] = op[q]
  BY <1>3, <1>4, <1>6
<1>8. \A q \in Slots : /\ op[q].does \notin Changes => Meeting(o)[q] = op[q]
                       /\ op[q].does \in Changes /\ op[q].file = o.file => Meeting(o)[q].met
  BY <1>7 DEF there
<1> QED  BY <1>5, <1>7, <1>8

LEMMA BeginMoves ==
    ASSUME Typed, Shapes, NEW r \in Slots, NEW does \in Changes \cup Walks, NEW at \in Places,
           NEW k \in Nat, NEW f \in Files, NEW x \in Nat,
           Begin(r, [Free EXCEPT !.does = does, !.k = k, !.file = f, !.seek = x, !.at = at])
    PROVE  Begun(r, does, at, k, f, x)
<1> DEFINE o == [Free EXCEPT !.does = does, !.k = k, !.file = f, !.seek = x, !.at = at]
           T == Tree(dir, sub)
<1>1. does \in Doings
  BY DoingsAre
<1>2. /\ o \in Operations /\ o.does = does /\ o.at = at /\ o.k = k /\ o.file = f /\ o.seek = x
      /\ o.ino = None /\ o.done = 0 /\ o.todo = <<>> /\ o.found = {}
  BY <1>1, FreeOperation DEF Operations
<1>3. op[r] \in Operations /\ Shape(op[r]) /\ op[r].at = "free"
  BY ShapeOf DEF Begin, At
<1>4. op[r].does = "nothing"
  BY <1>3 DEF Shape
<1> HIDE DEF o
<1>5. CASE does \in Changes
  <2> DEFINE p    == [o EXCEPT !.met = Meets(o)]
             meet == Meeting(o)
  <2>1. op' = [meet EXCEPT ![r] = p]
    BY <1>2, <1>5 DEF Begin, o
  <2>2. Meets(o) \in BOOLEAN
    BY DEF Meets
  <2>3. /\ p \in Operations /\ p.does = does /\ p.at = at /\ p.k = k /\ p.file = f /\ p.seek = x
        /\ p.ino = None /\ p.done = 0 /\ p.todo = <<>> /\ p.found = {} /\ p.met = Meets(o)
    BY <1>2, <2>2 DEF Operations
  <2>4. /\ meet \in [Slots -> Operations]
        /\ \A q \in Slots :
             /\ Alike(meet[q], op[q])
             /\ op[q].met => meet[q].met
             /\ op[q].does \notin Changes => meet[q] = op[q]
             /\ op[q].does \in Changes /\ op[q].file = f => meet[q].met
    BY <1>2, MeetingAre
  <2>5. \A q \in Slots : op[q].does \in Changes /\ op[q].file = f => Meets(o)
    BY <1>2 DEF Meets
  <2> HIDE DEF p, meet
  <2>6. op' \in [Slots -> Operations] /\ op'[r] = p /\ \A q \in Slots \ {r} : op'[q] = meet[q]
    BY <2>1, <2>3, <2>4
  <2>7. \A q \in Slots \ {r} :
          /\ Alike(op'[q], op[q])
          /\ op[q].met => op'[q].met
          /\ op[q].does \in Walks => op'[q] = op[q]
          /\ does \in Changes /\ op[q].does \in Changes /\ op[q].file = f =>
                op'[q].met /\ op'[r].met
    BY <2>3, <2>4, <2>5, <2>6, DoingsAre
  <2>8. does \notin Walks
    BY <1>5, DoingsAre
  <2> QED  BY <1>3, <2>3, <2>6, <2>7, <2>8 DEF Begun
<1>6. CASE does \in Walks
  <2> DEFINE p == [o EXCEPT !.stayed = T, !.ever = T]
  <2>1. does \notin Changes
    BY <1>6, DoingsAre
  <2>2. op' = [op EXCEPT ![r] = p]
    BY <1>2, <2>1 DEF Begin, o
  <2>3. /\ p \in Operations /\ p.does = does /\ p.at = at /\ p.k = k /\ p.file = f /\ p.seek = x
        /\ p.ino = None /\ p.done = 0 /\ p.todo = <<>> /\ p.found = {}
        /\ p.stayed = T /\ p.ever = T
    BY <1>2, TreeSeen DEF Operations
  <2> HIDE DEF p, T
  <2>4. Moves(r, p) /\ \A q \in Slots \ {r} : op'[q] = op[q]
    BY <2>2, <2>3, MovesPlain
  <2>5. \A q \in Slots \ {r} : Alike(op'[q], op[q])
    BY <2>4 DEF Moves
  <2>6. \A q \in Slots \ {r} :
          /\ Alike(op'[q], op[q])
          /\ op[q].met => op'[q].met
          /\ op[q].does \in Walks => op'[q] = op[q]
          /\ does \in Changes /\ op[q].does \in Changes /\ op[q].file = f =>
                op'[q].met /\ op'[r].met
    BY <2>1, <2>4, <2>5
  <2>7. op' \in [Slots -> Operations] /\ op'[r] = p
    BY <2>4 DEF Moves
  <2> QED  BY <1>3, <2>3, <2>6, <2>7 DEF Begun, T
<1> QED  BY <1>5, <1>6

FirstPlace(does) == CASE does = "edit" -> "read" [] does \in Walks -> "open" [] OTHER -> "mkdir"

LEMMA AskMoves ==
    ASSUME Typed, Shapes, NEW r \in Slots, NEW does \in Changes \cup Walks, NEW f \in Files,
           NEW x \in Nat, Ask(r, does, f, x)
    PROVE  /\ Begun(r, does, FirstPlace(does), calls + 1, f, x)
           /\ calls' = calls + 1 /\ calls < MaxCalls
           /\ due' = CASE does = "write" -> {m \in due : m[1] # f}
                       [] does = "edit"  -> due \ {<<f, x>>}
                       [] OTHER          -> due
           /\ told' = Answer(Free, FALSE)
           /\ UNCHANGED <<dir, sub, disk, clashed>>
<1>1. FirstPlace(does) \in Places
  BY PlacesAre DEF FirstPlace
<1>2. Begin(r, [Free EXCEPT !.does = does, !.k = calls + 1, !.file = f, !.seek = x,
                            !.at = FirstPlace(does)])
  BY DEF Ask, FirstPlace
<1>3. calls + 1 \in Nat
  BY FilesAssumption DEF Typed
<1>4. Begun(r, does, FirstPlace(does), calls + 1, f, x)
  <2> DEFINE k == calls + 1
             at == FirstPlace(does)
  <2>1. k \in Nat /\ at \in Places
    BY <1>1, <1>3
  <2>2. Begin(r, [Free EXCEPT !.does = does, !.k = k, !.file = f, !.seek = x, !.at = at])
    BY <1>2
  <2> HIDE DEF k, at
  <2> QED  BY <2>1, <2>2, BeginMoves DEF k, at
<1> QED  BY <1>4 DEF Ask, StillDue

LEMMA SendAgainMoves ==
    ASSUME Typed, Shapes, NEW r \in Slots, NEW b \in Requests, SendAgain(r, b)
    PROVE  /\ b.does \in Changes /\ b.file \in Files /\ b.seek \in Nat
           /\ Begun(r, b.does, FirstPlace(b.does), b.k, b.file, b.seek)
           /\ due' = CASE b.does = "write" -> {m \in due : m[1] # b.file}
                       [] b.does = "edit"  -> due \ {<<b.file, b.seek>>}
                       [] OTHER            -> due
           /\ UNCHANGED <<dir, sub, disk, calls, clashed, told, mishaps>>
<1> DEFINE does == b.does
           at   == FirstPlace(does)
           k    == b.k
           f    == b.file
           x    == b.seek
<1>1. does \in Changes /\ k \in Nat /\ f \in Files /\ x \in Nat
  BY DEF Requests
<1>2. does \notin Walks /\ does \in Changes \cup Walks
  BY <1>1, DoingsAre
<1>3. at \in Places
  BY PlacesAre DEF FirstPlace
<1>4. at = IF does = "edit" THEN "read" ELSE "mkdir"
  BY <1>2 DEF FirstPlace
<1> HIDE DEF at
<1>5. Begin(r, [Free EXCEPT !.does = does, !.k = k, !.file = f, !.seek = x, !.at = at])
  BY <1>4 DEF SendAgain
<1>6. Begun(r, does, at, k, f, x)
  <2> HIDE DEF does, k, f, x
  <2> QED  BY <1>1, <1>2, <1>3, <1>5, BeginMoves
<1> QED  BY <1>1, <1>6 DEF SendAgain, StillDue, at

(* A command that removes the directory meets the changes of its file.     *)
LEMMA CommandMoves ==
    ASSUME Typed, CommandRemoves
    PROVE  /\ op' \in [Slots -> Operations]
           /\ \A q \in Slots :
                /\ Alike(op'[q], op[q])
                /\ op[q].met => op'[q].met
                /\ op[q].does \in Changes /\ op[q].file = "g" => op'[q].met
                /\ op[q].does \in Walks =>
                     /\ op'[q].stayed = op[q].stayed \cap Tree(dir, sub)'
                     /\ op'[q].ever = op[q].ever \cup Tree(dir, sub)'
           /\ mishaps < MaxMishaps /\ mishaps' = mishaps + 1
           /\ sub' = FALSE
           /\ dir' = [n \in Names |-> IF n[1] = "g" THEN None ELSE dir[n]]
           /\ due' = {m \in due : m[1] = "f"}
           /\ UNCHANGED <<disk, calls, clashed, told>>
<1> DEFINE new(q) == [op[q] EXCEPT !.met = TRUE]
           there(q) == op[q].does \in Changes /\ op[q].file = "g"
           ops == [q \in Slots |-> IF there(q) THEN new(q) ELSE op[q]]
<1>1. \A q \in Slots : op[q] \in Operations
  BY OperationOf
<1>2. \A q \in Slots : new(q) \in Operations /\ Alike(new(q), op[q]) /\ new(q).met = TRUE
  BY <1>1 DEF Operations, Alike
<1>3. \A q \in Slots : Alike(op[q], op[q])
  BY DEF Alike
<1>4. \A q \in Slots : there(q) => op[q].does \notin Walks
  BY DoingsAre
<1>5. op' = Observed(ops, dir', sub')
  BY DEF CommandRemoves
<1> HIDE DEF new, there
<1>6. /\ ops \in [Slots -> Operations]
      /\ \A q \in Slots : ops[q] = IF there(q) THEN new(q) ELSE op[q]
  BY <1>1, <1>2
<1> HIDE DEF ops
<1> DEFINE seen == Observed(ops, dir', sub')
<1>7. /\ seen \in [Slots -> Operations]
      /\ \A q \in Slots : /\ Alike(seen[q], ops[q])
                          /\ seen[q].met = ops[q].met
                          /\ ops[q].does \in Walks =>
                               /\ seen[q].stayed = ops[q].stayed \cap Tree(dir', sub')
                               /\ seen[q].ever = ops[q].ever \cup Tree(dir', sub')
  BY <1>6, ObservedAre
<1> HIDE DEF seen
<1>8. op' = seen
  BY <1>5 DEF seen
<1>9. \A q \in Slots : Alike(ops[q], op[q]) /\ (op[q].met => ops[q].met) /\ (there(q) => ops[q].met)
  BY <1>2, <1>3, <1>6
<1>10. \A q \in Slots : Alike(op'[q], op[q]) /\ (op[q].met => op'[q].met) /\ (there(q) => op'[q].met)
  BY <1>7, <1>8, <1>9 DEF Alike
<1>11. \A q \in Slots : op[q].does \in Walks =>
          /\ op'[q].stayed = op[q].stayed \cap Tree(dir, sub)'
          /\ op'[q].ever = op[q].ever \cup Tree(dir, sub)'
  <2>1. Tree(dir, sub)' = Tree(dir', sub')
    BY DEF Tree, Entries
  <2>2. \A q \in Slots : op[q].does \in Walks => ops[q] = op[q]
    BY <1>4, <1>6
  <2> QED  BY <1>7, <1>8, <2>1, <2>2
<1> QED  BY <1>7, <1>8, <1>10, <1>11 DEF CommandRemoves, there

-----------------------------------------------------------------------------
(* Types and shapes *)

LEMMA TypesGo ==
    ASSUME Typed, dir' \in [Names -> {None} \cup Inodes], sub' \in BOOLEAN,
           disk' \in [Inodes -> Seq(Nat)], op' \in [Slots -> Operations],
           calls' \in 0..MaxCalls, due' \in SUBSET (Files \X Nat), clashed' \in BOOLEAN,
           told' \in Answers, mishaps' \in 0..MaxMishaps
    PROVE  Typed'
  BY DEF Typed, Answers

LEMMA ShapesGo ==
    ASSUME Shapes, NEW r \in Slots, Shape(op'[r]),
           \A q \in Slots \ {r} : Alike(op'[q], op[q])
    PROVE  Shapes'
<1>1. \A q \in Slots : Shape(op'[q])
  BY AlikeShape DEF Shapes
<1> QED  BY <1>1 DEF Shapes, Shape

LEMMA TypeFacts ==
    ASSUME Typed
    PROVE  /\ dir \in [Names -> {None} \cup Inodes] /\ sub \in BOOLEAN
           /\ disk \in [Inodes -> Seq(Nat)] /\ calls \in 0..MaxCalls
           /\ due \in SUBSET (Files \X Nat) /\ clashed \in BOOLEAN
           /\ told \in Answers /\ mishaps \in 0..MaxMishaps
  BY DEF Typed, Answers

LEMMA MkdirTyped ==
    ASSUME Typed, Shapes, NEW r \in Slots, Mkdir(r)
    PROVE  Typed' /\ Shapes'
<1>1. /\ Turns(r, "create", op[r].ino, op[r].text, op[r].done, op[r].stamp)
      /\ op[r].at = "mkdir" /\ op[r].does \in {"write", "append"} /\ Shape(op[r])
      /\ sub' \in BOOLEAN
      /\ UNCHANGED <<dir, disk, calls, due, clashed, told, mishaps>>
  BY MkdirMoves, ShapeOf
<1>2. Typed'
  BY <1>1, TypesGo, TypeFacts DEF Turns
<1>3. Shape(op'[r])
  BY <1>1 DEF Turns, Shape
<1>4. Shapes'
  BY <1>1, <1>3, ShapesGo DEF Turns, Others
<1> QED  BY <1>2, <1>4

LEMMA GivesUpTyped ==
    ASSUME Typed, Shapes, NEW r \in Slots, GivesUp(r), UNCHANGED <<calls, told, mishaps>>
    PROVE  Typed' /\ Shapes'
<1>1. Ends(r) /\ UNCHANGED <<dir, sub, disk, due, clashed>>
  BY DEF GivesUp
<1>2. Typed'
  BY <1>1, TypesGo, TypeFacts DEF Ends
<1>3. Shapes'
  BY <1>1, ShapesGo, FreeOperation DEF Ends, Others
<1> QED  BY <1>2, <1>3

LEMMA OpenToWriteTyped ==
    ASSUME Typed, Shapes, TempsAreOfEdits, NEW r \in Slots, OpenToWrite(r)
    PROVE  Typed' /\ Shapes'
<1>1. /\ op[r].at = "create" /\ op[r].does \in {"write", "append"}
      /\ op[r] \in Operations /\ Shape(op[r])
  BY OpenToWriteMoves, ShapeOf
<1>2. CASE GivesUp(r) /\ UNCHANGED <<calls, told, mishaps>>
  BY <1>2, GivesUpTyped
<1>3. CASE ~(GivesUp(r) /\ UNCHANGED <<calls, told, mishaps>>)
  <2>1. PICK i \in Inodes :
          /\ Opens(r, Itself(op[r]), i)
          /\ disk' = IF dir[Itself(op[r])] = None \/ op[r].does = "write"
                       THEN [disk EXCEPT ![i] = <<>>] ELSE disk
          /\ Turns(r, "fill", i, op[r].text, op[r].done, op[r].stamp)
          /\ UNCHANGED clashed
    BY <1>3, OpenToWriteMoves
  <2>2. dir' \in [Names -> {None} \cup Inodes] /\ disk' \in [Inodes -> Seq(Nat)]
    <3>1. dir' = [dir EXCEPT ![Itself(op[r])] = i]
      BY <2>1 DEF Opens
    <3>2. <<>> \in Seq(Nat)
      OBVIOUS
    <3>3. [disk EXCEPT ![i] = <<>>] \in [Inodes -> Seq(Nat)]
      BY <3>2, TypeFacts
    <3> QED  BY <2>1, <3>1, <3>3, TypeFacts
  <2>3. UNCHANGED <<sub, calls, due, told, mishaps>>
    BY <2>1 DEF Opens
  <2>4. Typed'
    BY <2>1, <2>2, <2>3, TypesGo, TypeFacts DEF Turns
  <2>5. i # None
    BY InodesAre
  <2>6. Shape(op'[r])
    BY <1>1, <2>1, <2>5 DEF Turns, Shape, Chunks
  <2>7. Shapes'
    BY <2>1, <2>6, ShapesGo DEF Turns, Others
  <2> QED  BY <2>4, <2>7
<1> QED  BY <1>2, <1>3

LEMMA FillTyped ==
    ASSUME Typed, Shapes, NEW r \in Slots, Fill(r)
    PROVE  Typed' /\ Shapes'
<1> DEFINE o    == op[r]
           n    == IF o.does = "append" THEN Len(disk[o.ino]) + 1 ELSE o.done + 1
           last == o.does = "append" \/ o.done + 1 = Chunks
<1>1. /\ o.at = "fill" /\ o.does \in {"write", "append"} /\ o.ino \in Inodes
      /\ n \in Nat \ {0}
      /\ disk' = [disk EXCEPT ![o.ino] = Overwrite(disk[o.ino], n, o.k)]
      /\ IF last THEN Ends(r)
           ELSE Turns(r, "fill", o.ino, o.text, o.done + 1, o.stamp) /\ o.done + 1 < Chunks
      /\ due' = IF last /\ ~o.met THEN due \cup {<<o.file, o.k>>} ELSE due
      /\ UNCHANGED <<dir, sub, calls, clashed, told, mishaps>>
  BY FillMoves
<1>2. o \in Operations /\ Shape(o)
  BY ShapeOf
<1>3. due' \in SUBSET (Files \X Nat)
  BY <1>1, <1>2, OperationFields, TypeFacts
<1>4. disk' \in [Inodes -> Seq(Nat)]
  <2>1. disk[o.ino] \in Seq(Nat) /\ o.k \in Nat
    BY <1>1, <1>2, OperationFields, TypeFacts
  <2> HIDE DEF n
  <2>2. Overwrite(disk[o.ino], n, o.k) \in Seq(Nat)
    BY <1>1, <2>1, Overwrites
  <2> QED  BY <1>1, <2>2, TypeFacts
<1>5. op' \in [Slots -> Operations] /\ Others(r)
  BY <1>1 DEF Ends, Turns
<1> HIDE DEF n
<1>6. Typed'
  BY <1>1, <1>3, <1>4, <1>5, TypesGo, TypeFacts
<1>7. Shape(op'[r])
  <2>1. CASE last
    BY <1>1, <2>1, FreeOperation DEF Ends
  <2>2. CASE ~last
    BY <1>1, <1>2, <2>2 DEF Turns, Shape
  <2> QED  BY <2>1, <2>2
<1>8. Shapes'
  BY <1>5, <1>7, ShapesGo DEF Others
<1> QED  BY <1>6, <1>8

LEMMA ReadToEditTyped ==
    ASSUME Typed, Shapes, NEW r \in Slots, NEW all \in BOOLEAN, ReadToEdit(r, all)
    PROVE  Typed' /\ Shapes'
<1>1. /\ op[r].at = "read" /\ op[r].does = "edit" /\ Shape(op[r]) /\ op[r] \in Operations
      /\ UNCHANGED <<dir, sub, disk, calls, due, clashed, told, mishaps>>
  BY ReadToEditMoves, ShapeOf
<1>2. CASE GivesUp(r)
  BY <1>1, <1>2, GivesUpTyped
<1>3. CASE ~GivesUp(r)
  <2> DEFINE text == Content(op[r].file)
             new  == Replaced(text, op[r].seek, op[r].k)
  <2>1. PICK stamp \in Stamps :
          /\ op[r].seek \in Marks(text) /\ new \in Seq(Nat)
          /\ Turns(r, "temp", op[r].ino, new, op[r].done, stamp)
    BY <1>3, ReadToEditMoves
  <2>2. Typed'
    BY <1>1, <2>1, TypesGo, TypeFacts DEF Turns
  <2>3. op[r].k \in Marks(new)
    <3>1. text \in Seq(Nat) /\ op[r].k \in Nat
      BY <1>1, OperationFields, ContentOf
    <3> HIDE DEF text
    <3> QED  BY <2>1, <3>1, Replaces
  <2> HIDE DEF new
  <2>4. Shape(op'[r])
    BY <1>1, <2>1, <2>3 DEF Turns, Shape
  <2>5. Shapes'
    BY <2>1, <2>4, ShapesGo DEF Turns, Others
  <2> QED  BY <2>2, <2>5
<1> QED  BY <1>2, <1>3

LEMMA OpenTempTyped ==
    ASSUME Typed, Shapes, TempsAreOfEdits, NEW r \in Slots, OpenTemp(r)
    PROVE  Typed' /\ Shapes'
<1>1. /\ op[r].at = "temp" /\ op[r].does = "edit" /\ op[r].stamp \in Stamps
      /\ op[r] \in Operations /\ Shape(op[r])
  BY OpenTempMoves, ShapeOf
<1>2. CASE GivesUp(r) /\ UNCHANGED <<calls, told, mishaps>>
  BY <1>2, GivesUpTyped
<1>3. CASE ~(GivesUp(r) /\ UNCHANGED <<calls, told, mishaps>>)
  <2>1. PICK i \in Inodes :
          /\ Opens(r, Target(op[r]), i)
          /\ disk' = [disk EXCEPT ![i] = <<>>]
          /\ clashed' = (clashed \/ \E q \in Slots : /\ Preparing(op[q])
                                                   /\ Target(op[q]) = Target(op[r]))
          /\ Turns(r, "put", i, op[r].text, op[r].done, op[r].stamp)
    BY <1>3, OpenTempMoves
  <2>2. dir' \in [Names -> {None} \cup Inodes] /\ disk' \in [Inodes -> Seq(Nat)]
    <3>1. dir' = [dir EXCEPT ![Target(op[r])] = i]
      BY <2>1 DEF Opens
    <3>2. <<>> \in Seq(Nat)
      OBVIOUS
    <3>3. [disk EXCEPT ![i] = <<>>] \in [Inodes -> Seq(Nat)]
      BY <3>2, TypeFacts
    <3> QED  BY <2>1, <3>1, <3>3, TypeFacts
  <2>3. UNCHANGED <<sub, calls, due, told, mishaps>> /\ clashed' \in BOOLEAN
    BY <2>1, TypeFacts DEF Opens
  <2>4. Typed'
    BY <2>1, <2>2, <2>3, TypesGo, TypeFacts DEF Turns
  <2>5. i # None
    BY InodesAre
  <2>6. op[r].done = 0 /\ 0 < Len(op[r].text)
    <3>1. op[r].text \in Seq(Nat) /\ op[r].k \in Marks(op[r].text)
      BY <1>1, OperationFields DEF Shape
    <3>2. Len(op[r].text) \in Nat /\ DOMAIN op[r].text = 1..Len(op[r].text)
      BY <3>1
    <3>3. \E j \in 1..Len(op[r].text) : op[r].text[j] = op[r].k
      BY <3>1, <3>2 DEF Marks
    <3>4. 0 < Len(op[r].text)
      BY <3>2, <3>3
    <3> QED  BY <1>1, <3>4 DEF Shape
  <2>7. Shape(op'[r])
    BY <1>1, <2>1, <2>5, <2>6 DEF Turns, Shape
  <2>8. Shapes'
    BY <2>1, <2>7, ShapesGo DEF Turns, Others
  <2> QED  BY <2>4, <2>8
<1> QED  BY <1>2, <1>3

LEMMA WriteTempTyped ==
    ASSUME Typed, Shapes, NEW r \in Slots, WriteTemp(r)
    PROVE  Typed' /\ Shapes'
<1> DEFINE o == op[r]
           n == o.done + 1
           place == IF n = Len(o.text) THEN "rename" ELSE "put"
<1>1. /\ o.at = "put" /\ o.does = "edit" /\ o.ino \in Inodes /\ o.stamp \in Stamps
      /\ n \in 1..Len(o.text) /\ o.text[n] \in Nat
      /\ disk' = [disk EXCEPT ![o.ino] = Overwrite(disk[o.ino], n, o.text[n])]
      /\ Turns(r, place, o.ino, o.text, n, o.stamp)
      /\ UNCHANGED <<dir, sub, calls, due, clashed, told, mishaps>>
  BY WriteTempMoves
<1>2. o \in Operations /\ Shape(o) /\ o.text \in Seq(Nat) /\ o.done \in Nat
  BY ShapeOf, OperationFields
<1>3. disk' \in [Inodes -> Seq(Nat)]
  <2>1. disk[o.ino] \in Seq(Nat) /\ n \in Nat \ {0}
    BY <1>1, <1>2, TypeFacts
  <2> HIDE DEF n
  <2>2. Overwrite(disk[o.ino], n, o.text[n]) \in Seq(Nat)
    BY <1>1, <2>1, Overwrites
  <2> QED  BY <1>1, <2>2, TypeFacts
<1>4. Typed'
  BY <1>1, <1>3, TypesGo, TypeFacts DEF Turns
<1>5. Shape(op'[r])
  <2>1. Len(o.text) \in Nat /\ (n # Len(o.text) => n < Len(o.text))
    BY <1>1, <1>2
  <2> HIDE DEF n
  <2> QED  BY <1>1, <1>2, <2>1 DEF Turns, Shape
<1>6. Shapes'
  BY <1>1, <1>5, ShapesGo DEF Turns, Others
<1> QED  BY <1>4, <1>6

LEMMA RenameTyped ==
    ASSUME Typed, Shapes, NEW r \in Slots, Rename(r)
    PROVE  Typed' /\ Shapes'
<1> DEFINE o == op[r]
<1>1. o.at = "rename" /\ o.does = "edit" /\ o.stamp \in Stamps /\ o \in Operations
  BY RenameMoves, ShapeOf
<1>2. CASE GivesUp(r) /\ UNCHANGED <<calls, told, mishaps>>
  BY <1>2, GivesUpTyped
<1>3. CASE ~(GivesUp(r) /\ UNCHANGED <<calls, told, mishaps>>)
  <2>1. /\ dir[Target(o)] # None
        /\ dir' = [dir EXCEPT ![Itself(o)] = dir[Target(o)], ![Target(o)] = None]
        /\ Ends(r)
        /\ due' = IF o.met THEN due ELSE due \cup {<<o.file, o.k>>}
        /\ UNCHANGED <<sub, disk, calls, clashed, told, mishaps>>
    BY <1>3, RenameMoves
  <2>2. due' \in SUBSET (Files \X Nat)
    BY <1>1, <2>1, OperationFields, TypeFacts
  <2>3. dir' \in [Names -> {None} \cup Inodes]
    <3>1. Target(o) \in Names /\ Itself(o) \in Names
      BY <1>1, NamesAre, OperationFields DEF Target, Itself
    <3> QED  BY <2>1, <3>1, TypeFacts
  <2>4. Typed'
    BY <2>1, <2>2, <2>3, TypesGo, TypeFacts DEF Ends
  <2>5. Shapes'
    BY <2>1, ShapesGo, FreeOperation DEF Ends, Others
  <2> QED  BY <2>4, <2>5
<1> QED  BY <1>2, <1>3

LEMMA WalksOnTyped ==
    ASSUME Typed, Shapes, NEW r \in Slots, NEW todo, NEW found, op[r].does \in Walks,
           WalksOn(r, todo, found), UNCHANGED <<dir, sub, disk, calls, due, clashed, told, mishaps>>
    PROVE  Typed' /\ Shapes'
<1>1. Typed'
  BY TypesGo, TypeFacts DEF WalksOn
<1>2. Shape(op'[r])
  <2>1. Shape(op[r])
    BY ShapeOf
  <2> QED  BY <2>1, DoingsAre DEF WalksOn, Shape, Walks
<1>3. \A q \in Slots \ {r} : Alike(op'[q], op[q])
  BY DEF WalksOn, Alike
<1>4. Shapes'
  BY <1>2, <1>3, ShapesGo
<1> QED  BY <1>1, <1>4

LEMMA WalkEndsTyped ==
    ASSUME Typed, Shapes, NEW r \in Slots, Ends(r), told' \in Answers,
           UNCHANGED <<dir, sub, disk, calls, due, clashed, mishaps>>
    PROVE  Typed' /\ Shapes'
<1>1. Typed'
  BY TypesGo, TypeFacts DEF Ends
<1>2. Shapes'
  BY ShapesGo, FreeOperation DEF Ends, Others
<1> QED  BY <1>1, <1>2

LEMMA WalkingTyped ==
    ASSUME Typed, Shapes, NEW r \in Slots,
           OpenDirectory(r) \/ Visit(r) \/ Leave(r) \/ AnswerWalk(r)
    PROVE  Typed' /\ Shapes'
<1>1. CASE OpenDirectory(r)
  BY <1>1, OpenDirectoryMoves, WalksOnTyped
<1>2. CASE Visit(r)
  <2>1. PICK n \in Head(op[r].todo) :
          \/ \E todo, found : WalksOn(r, todo, found) /\ UNCHANGED told
          \/ Ends(r) /\ \E p \in Operations : told' = Answer(p, FALSE)
    <3> HIDE DEF WalksOn
    <3> QED  BY <1>2, VisitMoves
  <2>2. UNCHANGED <<dir, sub, disk, calls, due, clashed, mishaps>> /\ op[r].does \in Walks
    BY <1>2, VisitMoves
  <2>3. CASE \E todo, found : WalksOn(r, todo, found) /\ UNCHANGED told
    BY <2>2, <2>3, WalksOnTyped
  <2>4. CASE Ends(r) /\ \E p \in Operations : told' = Answer(p, FALSE)
    BY <2>2, <2>4, AnswerTyped, WalkEndsTyped
  <2> QED  BY <2>1, <2>3, <2>4
<1>3. CASE Leave(r)
  BY <1>3, LeaveMoves, WalksOnTyped
<1>4. CASE AnswerWalk(r)
  <2>1. told' = Answer(op[r], TRUE) /\ op[r] \in Operations
    BY <1>4, AnswerWalkMoves, OperationOf
  <2>2. told' \in Answers
    BY <2>1, AnswerTyped
  <2> QED  BY <1>4, <2>2, AnswerWalkMoves, WalkEndsTyped
<1> QED  BY <1>1, <1>2, <1>3, <1>4

LEMMA BegunShape ==
    ASSUME Shapes, NEW r \in Slots, NEW does \in Changes \cup Walks, NEW k, NEW f, NEW x,
           Begun(r, does, FirstPlace(does), k, f, x)
    PROVE  Shapes'
<1>1. Shape(op'[r])
  BY DEF Begun, FirstPlace, Shape, Changes, Walks
<1>2. \A q \in Slots \ {r} : Alike(op'[q], op[q])
  BY DEF Begun
<1> QED  BY <1>1, <1>2, ShapesGo

LEMMA AskTyped ==
    ASSUME Typed, Shapes, NEW r \in Slots, NEW does \in Changes \cup Walks, NEW f \in Files,
           NEW x \in Nat, Ask(r, does, f, x), mishaps' \in 0..MaxMishaps
    PROVE  Typed' /\ Shapes'
<1>1. /\ Begun(r, does, FirstPlace(does), calls + 1, f, x)
      /\ calls' = calls + 1 /\ calls < MaxCalls
      /\ due' = CASE does = "write" -> {m \in due : m[1] # f}
                  [] does = "edit"  -> due \ {<<f, x>>}
                  [] OTHER          -> due
      /\ told' = Answer(Free, FALSE)
      /\ UNCHANGED <<dir, sub, disk, clashed>>
  BY AskMoves
<1>2. due' \subseteq due
  BY <1>1
<1>3. calls' \in 0..MaxCalls
  BY <1>1, TypeFacts, FilesAssumption
<1>4. told' \in Answers
  BY <1>1, AnswerTyped, FreeOperation
<1>5. op' \in [Slots -> Operations]
  BY <1>1 DEF Begun
<1>6. due' \in SUBSET (Files \X Nat)
  BY <1>2, TypeFacts
<1>7. Typed'
  BY <1>1, <1>3, <1>4, <1>5, <1>6, TypesGo, TypeFacts
<1>8. Shapes'
  BY <1>1, BegunShape
<1> QED  BY <1>7, <1>8

LEMMA SendAgainTyped ==
    ASSUME Typed, Shapes, NEW r \in Slots, NEW b \in Requests, SendAgain(r, b)
    PROVE  Typed' /\ Shapes'
<1>1. /\ b.does \in Changes /\ b.file \in Files
      /\ Begun(r, b.does, FirstPlace(b.does), b.k, b.file, b.seek)
      /\ due' = CASE b.does = "write" -> {m \in due : m[1] # b.file}
                  [] b.does = "edit"  -> due \ {<<b.file, b.seek>>}
                  [] OTHER            -> due
      /\ UNCHANGED <<dir, sub, disk, calls, clashed, told, mishaps>>
  BY SendAgainMoves
<1>2. due' \in SUBSET (Files \X Nat)
  <2>1. due' \subseteq due
    BY <1>1
  <2> QED  BY <2>1, TypeFacts
<1>3. op' \in [Slots -> Operations]
  BY <1>1 DEF Begun
<1>4. Typed'
  BY <1>1, <1>2, <1>3, TypesGo, TypeFacts
<1>5. Shapes'
  BY <1>1, BegunShape
<1> QED  BY <1>4, <1>5

LEMMA CommandTyped ==
    ASSUME Typed, Shapes, CommandRemoves
    PROVE  Typed' /\ Shapes'
<1>1. /\ op' \in [Slots -> Operations]
      /\ \A q \in Slots : Alike(op'[q], op[q])
      /\ mishaps < MaxMishaps /\ mishaps' = mishaps + 1
      /\ sub' = FALSE
      /\ dir' = [n \in Names |-> IF n[1] = "g" THEN None ELSE dir[n]]
      /\ due' = {m \in due : m[1] = "f"}
      /\ UNCHANGED <<disk, calls, clashed, told>>
  BY CommandMoves
<1>2. mishaps' \in 0..MaxMishaps
  BY <1>1, TypeFacts, FilesAssumption
<1>3. dir' \in [Names -> {None} \cup Inodes]
  BY <1>1, TypeFacts
<1>4. Typed'
  BY <1>1, <1>2, <1>3, TypesGo, TypeFacts
<1>5. Shapes'
  <2>1. \A q \in Slots : Shape(op'[q])
    BY <1>1, AlikeShape DEF Shapes
  <2> QED  BY <2>1 DEF Shapes, Shape
<1> QED  BY <1>4, <1>5

-----------------------------------------------------------------------------
(* Names and temporary files.  Most steps change no name, and leave those  *)
(* who have a file open as they are.                                       *)

Holds(p, o) ==
    /\ Preparing(o) /\ dir[Target(o)] # None => Preparing(p)
    /\ Preparing(p) => Preparing(o) /\ Target(p) = Target(o) /\ p.ino = o.ino
    /\ p.ino # None => p.ino = o.ino

Quiet ==
    /\ UNCHANGED <<dir, clashed>> /\ (sub => sub')
    /\ \A q \in Slots : Holds(op'[q], op[q])

LEMMA AlikeHolds ==
    ASSUME NEW o, NEW p, Alike(p, o)
    PROVE  /\ Holds(p, o)
           /\ Preparing(p) = Preparing(o) /\ Target(p) = Target(o) /\ Itself(p) = Itself(o)
           /\ p.does = o.does /\ p.at = o.at /\ p.file = o.file /\ p.ino = o.ino
  BY DEF Alike, Holds, Preparing, Target, Itself

LEMMA FreeHolds ==
    ASSUME NEW o, Preparing(o) => dir[Target(o)] = None
    PROVE  Holds(Free, o)
  BY FreeOperation DEF Holds, Preparing

LEMMA MkdirQuiet ==
    ASSUME Typed, Shapes, NEW r \in Slots, Mkdir(r)
    PROVE  Quiet
<1>1. /\ Turns(r, "create", op[r].ino, op[r].text, op[r].done, op[r].stamp)
      /\ op[r].at = "mkdir" /\ (sub => sub') /\ UNCHANGED <<dir, clashed>>
  BY MkdirMoves
<1>2. Holds(op'[r], op[r])
  BY <1>1 DEF Turns, Holds, Preparing
<1> QED  BY <1>1, <1>2, AlikeHolds DEF Quiet, Turns, Others

LEMMA GivesUpQuiet ==
    ASSUME NEW r \in Slots, GivesUp(r)
    PROVE  Quiet
  BY AlikeHolds, FreeHolds DEF GivesUp, Quiet, Ends, Others

LEMMA FillQuiet ==
    ASSUME Typed, Shapes, NEW r \in Slots, Fill(r)
    PROVE  Quiet
<1>1. /\ op[r].at = "fill" /\ UNCHANGED <<dir, sub, clashed>>
      /\ \/ Ends(r)
         \/ Turns(r, "fill", op[r].ino, op[r].text, op[r].done + 1, op[r].stamp)
  BY FillMoves
<1>2. ~Preparing(op[r])
  BY <1>1 DEF Preparing
<1>3. Holds(op'[r], op[r])
  BY <1>1, <1>2, FreeHolds DEF Turns, Ends, Holds, Preparing
<1> QED  BY <1>1, <1>3, AlikeHolds DEF Quiet, Turns, Ends, Others

LEMMA ReadToEditQuiet ==
    ASSUME Typed, Shapes, NEW r \in Slots, NEW all \in BOOLEAN, ReadToEdit(r, all)
    PROVE  Quiet
<1>1. op[r].at = "read" /\ UNCHANGED <<dir, sub, clashed>>
  BY ReadToEditMoves
<1>2. CASE GivesUp(r)
  BY <1>2, GivesUpQuiet
<1>3. CASE ~GivesUp(r)
  <2> DEFINE new == Replaced(Content(op[r].file), op[r].seek, op[r].k)
  <2>1. PICK stamp \in Stamps : Turns(r, "temp", op[r].ino, new, op[r].done, stamp)
    BY <1>3, ReadToEditMoves
  <2> HIDE DEF new
  <2>2. Holds(op'[r], op[r])
    BY <1>1, <2>1 DEF Turns, Holds, Preparing
  <2> QED  BY <1>1, <2>1, <2>2, AlikeHolds DEF Quiet, Turns, Others
<1> QED  BY <1>2, <1>3

LEMMA WriteTempQuiet ==
    ASSUME Typed, Shapes, NEW r \in Slots, WriteTemp(r)
    PROVE  Quiet
<1> DEFINE place == IF op[r].done + 1 = Len(op[r].text) THEN "rename" ELSE "put"
<1>1. /\ op[r].at = "put" /\ UNCHANGED <<dir, sub, clashed>>
      /\ Turns(r, place, op[r].ino, op[r].text, op[r].done + 1, op[r].stamp)
  BY WriteTempMoves
<1>2. Preparing(op[r]) /\ Preparing(op'[r])
  BY <1>1 DEF Turns, Preparing
<1>3. Holds(op'[r], op[r])
  BY <1>1, <1>2 DEF Turns, Holds, Target
<1> QED  BY <1>1, <1>3, AlikeHolds DEF Quiet, Turns, Others

LEMMA WalksOnQuiet ==
    ASSUME Shapes, NEW r \in Slots, op[r].does \in Walks,
           \A q \in Slots \ {r} : op'[q] = op[q],
           Ends(r) \/ (op'[r].at = "walk" /\ op'[r].ino = op[r].ino),
           UNCHANGED <<dir, sub, clashed>>
    PROVE  Quiet
<1>1. ~Preparing(op[r])
  BY DEF Shapes, Shape, Preparing, Walks
<1>2. Holds(op'[r], op[r])
  BY <1>1, FreeHolds DEF Ends, Holds, Preparing
<1>3. \A q \in Slots \ {r} : Holds(op'[q], op[q])
  BY DEF Holds
<1> QED  BY <1>2, <1>3 DEF Quiet

LEMMA WalkingQuiet ==
    ASSUME Typed, Shapes, NEW r \in Slots,
           OpenDirectory(r) \/ Visit(r) \/ Leave(r) \/ AnswerWalk(r)
    PROVE  /\ Quiet /\ op[r].does \in Walks /\ UNCHANGED <<dir, sub, disk, due, clashed>>
           /\ \A q \in Slots \ {r} : op'[q] = op[q]
           /\ op'[r].does \notin Changes
<1>1. \A todo, found : WalksOn(r, todo, found) =>
          /\ \A q \in Slots \ {r} : op'[q] = op[q]
          /\ op'[r].at = "walk" /\ op'[r].ino = op[r].ino /\ op'[r].does = op[r].does
  BY DEF WalksOn
<1>2. /\ op[r].does \in Walks /\ UNCHANGED <<dir, sub, disk, due, clashed>>
      /\ \A q \in Slots \ {r} : op'[q] = op[q]
      /\ \/ Ends(r)
         \/ op'[r].at = "walk" /\ op'[r].ino = op[r].ino /\ op'[r].does = op[r].does
  <2>1. CASE OpenDirectory(r)
    BY <1>1, <2>1, OpenDirectoryMoves
  <2>2. CASE Visit(r)
    <3> HIDE DEF WalksOn
    <3>1. (\A q \in Slots \ {r} : op'[q] = op[q]) /\ (Ends(r) \/ \E todo, found : WalksOn(r, todo, found))
      BY <1>1, <2>2, VisitMoves
    <3> QED  BY <1>1, <2>2, <3>1, VisitMoves
  <2>3. CASE Leave(r)
    BY <1>1, <2>3, LeaveMoves
  <2>4. CASE AnswerWalk(r)
    BY <2>4, AnswerWalkMoves
  <2> QED  BY <2>1, <2>2, <2>3, <2>4
<1>3. op'[r].does \notin Changes
  BY <1>2, FreeOperation, DoingsAre DEF Ends, Walks, Changes
<1> QED  BY <1>2, <1>3, WalksOnQuiet

LEMMA BegunQuiet ==
    ASSUME Shapes, NEW r \in Slots, NEW does, NEW k, NEW f, NEW x,
           Begun(r, does, FirstPlace(does), k, f, x), UNCHANGED <<dir, sub, clashed>>
    PROVE  Quiet
<1>1. FirstPlace(does) \notin {"put", "rename"}
  BY DEF FirstPlace
<1>2. Holds(op'[r], op[r])
  BY <1>1 DEF Begun, Holds, Preparing
<1> QED  BY <1>2, AlikeHolds DEF Begun, Quiet

LEMMA QuietNames ==
    ASSUME NamesInv, Quiet
    PROVE  NamesInv'
<1>1. Housed'
  BY DEF NamesInv, Housed, Quiet
<1>2. NamedOnce'
  BY DEF NamesInv, NamedOnce, Quiet
<1>3. TempsAreOfEdits'
  <2> SUFFICES ASSUME NEW n \in Files \X Stamps, dir'[n] # None
               PROVE  \E r \in Slots : /\ Preparing(op'[r]) /\ Target(op'[r]) = n
                                       /\ op'[r].ino = dir'[n]
    BY DEF TempsAreOfEdits, Preparing, Target
  <2>1. PICK r \in Slots : Preparing(op[r]) /\ Target(op[r]) = n /\ op[r].ino = dir[n]
    BY DEF NamesInv, TempsAreOfEdits, Quiet
  <2> QED  BY <2>1 DEF Quiet, Holds
<1> QED  BY <1>1, <1>2, <1>3 DEF NamesInv

LEMMA QuietApart ==
    ASSUME Shapes, TempsApart, Quiet
    PROVE  TempsApart'
<1> SUFFICES ASSUME ~clashed', NEW r \in Slots, Preparing(op'[r])
             PROVE  /\ \A f \in Files : dir'[<<f, 0>>] # op'[r].ino
                    /\ \A q \in Slots \ {r} : op'[q].ino # op'[r].ino
                    /\ \A q \in Slots \ {r} : Preparing(op'[q]) => Target(op'[q]) # Target(op'[r])
  BY DEF TempsApart, Apart, Preparing, Target
<1>1. Preparing(op[r]) /\ Target(op'[r]) = Target(op[r]) /\ op'[r].ino = op[r].ino
  BY DEF Quiet, Holds
<1>2. Apart(r)
  BY DEF TempsApart, Quiet
<1>3. op[r].ino # None
  BY <1>1 DEF Shapes, Shape, Preparing
<1>4. \A f \in Files : dir'[<<f, 0>>] # op'[r].ino
  BY <1>1, <1>2 DEF Apart, Quiet
<1>5. \A q \in Slots \ {r} : op'[q].ino # op'[r].ino
  BY <1>1, <1>2, <1>3 DEF Apart, Quiet, Holds
<1>6. \A q \in Slots \ {r} : Preparing(op'[q]) => Target(op'[q]) # Target(op'[r])
  BY <1>1, <1>2 DEF Apart, Quiet, Holds
<1> QED  BY <1>4, <1>5, <1>6

(* A name is opened: that of the file itself, or of a temporary file.      *)
LEMMA OpensNames ==
    ASSUME Typed, NamesInv, NEW r \in Slots, NEW n \in Names, NEW i \in Inodes,
           Opens(r, n, i), n[1] = op[r].file,
           \A q \in Slots \ {r} : Alike(op'[q], op[q]),
           ~Preparing(op[r]),
           n \in Files \X Stamps => Preparing(op'[r]) /\ Target(op'[r]) = n /\ op'[r].ino = i
    PROVE  NamesInv'
<1>1. dir' \in [Names -> {None} \cup Inodes] /\ dir'[n] = i
      /\ \A m \in Names : m # n => dir'[m] = dir[m]
  <2>1. dir' = [dir EXCEPT ![n] = i]
    BY DEF Opens
  <2> QED  BY <2>1, TypeFacts
<1>2. \A m \in Names : m # n => dir[m] # i
  BY InodesAre, TypeFacts DEF Opens, Fresh, NamesInv, NamedOnce
<1>3. Housed'
  <2>1. ~sub' => ~sub /\ n[1] # "g"
    BY DEF Opens
  <2> QED  BY <1>1, <2>1 DEF Housed, NamesInv
<1>4. NamedOnce'
  BY <1>1, <1>2 DEF NamedOnce, NamesInv
<1>5. TempsAreOfEdits'
  <2> SUFFICES ASSUME NEW m \in Files \X Stamps, dir'[m] # None
               PROVE  \E q \in Slots : /\ Preparing(op'[q]) /\ Target(op'[q]) = m
                                       /\ op'[q].ino = dir'[m]
    BY DEF TempsAreOfEdits, Preparing, Target
  <2>1. CASE m = n
    BY <1>1, <2>1
  <2>2. CASE m # n
    <3>1. m \in Names
      BY NamesAre
    <3>2. PICK q \in Slots : Preparing(op[q]) /\ Target(op[q]) = m /\ op[q].ino = dir[m]
      BY <1>1, <2>2, <3>1 DEF NamesInv, TempsAreOfEdits
    <3>3. q # r
      BY <3>2
    <3> QED  BY <1>1, <2>2, <3>1, <3>2, <3>3, AlikeHolds
  <2> QED  BY <2>1, <2>2
<1> QED  BY <1>3, <1>4, <1>5 DEF NamesInv

LEMMA NamesOf ==
    ASSUME Typed, NEW r \in Slots
    PROVE  /\ Itself(op[r]) \in Names /\ Itself(op[r])[1] = op[r].file
           /\ Itself(op[r]) \notin Files \X Stamps
           /\ op[r].file \in Files
           /\ op[r].stamp \in Stamps =>
                /\ Target(op[r]) \in Names /\ Target(op[r])[1] = op[r].file
                /\ Target(op[r]) \in Files \X Stamps
                /\ \A f \in Files : <<f, 0>> # Target(op[r])
<1>1. op[r].file \in Files /\ 0 \notin Stamps
  BY OperationOf, OperationFields, FilesAssumption
<1> QED  BY <1>1, NamesAre DEF Itself, Target

LEMMA OpenToWriteNames ==
    ASSUME Typed, Shapes, NamesInv, NEW r \in Slots, OpenToWrite(r)
    PROVE  NamesInv'
<1>1. TempsAreOfEdits /\ ~Preparing(op[r])
  BY DEF NamesInv, OpenToWrite, At, Preparing
<1>2. CASE GivesUp(r)
  BY <1>2, GivesUpQuiet, QuietNames
<1>3. CASE ~GivesUp(r)
  <2>1. PICK i \in Inodes :
          /\ Opens(r, Itself(op[r]), i)
          /\ Turns(r, "fill", i, op[r].text, op[r].done, op[r].stamp)
    BY <1>1, <1>3, OpenToWriteMoves
  <2>2. \A q \in Slots \ {r} : Alike(op'[q], op[q])
    BY <2>1 DEF Turns, Others
  <2> QED  BY <1>1, <2>1, <2>2, NamesOf, OpensNames
<1> QED  BY <1>2, <1>3

LEMMA OpenTempNames ==
    ASSUME Typed, Shapes, NamesInv, NEW r \in Slots, OpenTemp(r)
    PROVE  NamesInv'
<1>1. TempsAreOfEdits /\ ~Preparing(op[r])
  BY DEF NamesInv, OpenTemp, At, Preparing
<1>2. CASE GivesUp(r)
  BY <1>2, GivesUpQuiet, QuietNames
<1>3. CASE ~GivesUp(r)
  <2>1. PICK i \in Inodes :
          /\ Opens(r, Target(op[r]), i)
          /\ Turns(r, "put", i, op[r].text, op[r].done, op[r].stamp)
    BY <1>1, <1>3, OpenTempMoves
  <2>2. \A q \in Slots \ {r} : Alike(op'[q], op[q])
    BY <2>1 DEF Turns, Others
  <2>3. op[r].stamp \in Stamps
    BY <1>1, OpenTempMoves
  <2>4. Preparing(op'[r]) /\ Target(op'[r]) = Target(op[r]) /\ op'[r].ino = i
    BY <2>1 DEF Turns, Preparing, Target
  <2> QED  BY <1>1, <2>1, <2>2, <2>3, <2>4, NamesOf, OpensNames
<1> QED  BY <1>2, <1>3

LEMMA RenameNames ==
    ASSUME Typed, Shapes, NamesInv, NEW r \in Slots, Rename(r)
    PROVE  NamesInv'
<1> DEFINE I == Itself(op[r])
           T == Target(op[r])
<1>1. CASE GivesUp(r)
  BY <1>1, GivesUpQuiet, QuietNames
<1>2. CASE ~GivesUp(r)
  <2>1. /\ dir[T] # None /\ dir' = [dir EXCEPT ![I] = dir[T], ![T] = None]
        /\ Ends(r) /\ UNCHANGED sub /\ op[r].stamp \in Stamps
    BY <1>2, RenameMoves
  <2>2. /\ I \in Names /\ T \in Names /\ I # T /\ T \in Files \X Stamps
        /\ I \notin Files \X Stamps /\ I[1] = T[1]
    BY <2>1, NamesOf
  <2> HIDE DEF I, T
  <2>3. /\ dir'[I] = dir[T] /\ dir'[T] = None
        /\ \A n \in Names : n # I /\ n # T => dir'[n] = dir[n]
    BY <2>1, <2>2, TypeFacts
  <2>4. Housed'
    BY <2>1, <2>2, <2>3 DEF Housed, NamesInv
  <2>5. NamedOnce'
    <3> SUFFICES ASSUME NEW n \in Names, NEW m \in Names, dir'[n] = dir'[m], dir'[n] # None
                 PROVE  n = m
      BY DEF NamedOnce
    <3>1. n # T /\ m # T
      BY <2>3
    <3>2. \A k \in {n, m} : dir'[k] = dir[IF k = I THEN T ELSE k]
      BY <2>3, <3>1
    <3>3. (IF n = I THEN T ELSE n) = (IF m = I THEN T ELSE m)
      BY <2>2, <3>2 DEF NamesInv, NamedOnce
    <3> QED  BY <3>1, <3>3
  <2>6. TempsAreOfEdits'
    <3> SUFFICES ASSUME NEW m \in Files \X Stamps, dir'[m] # None
                 PROVE  \E q \in Slots : /\ Preparing(op'[q]) /\ Target(op'[q]) = m
                                         /\ op'[q].ino = dir'[m]
      BY DEF TempsAreOfEdits, Preparing, Target
    <3>1. m \in Names /\ m # I /\ m # T
      BY <2>2, <2>3, NamesAre
    <3>2. PICK q \in Slots : Preparing(op[q]) /\ Target(op[q]) = m /\ op[q].ino = dir[m]
      BY <2>3, <3>1 DEF NamesInv, TempsAreOfEdits
    <3>3. q # r
      BY <3>1, <3>2 DEF T
    <3>4. Alike(op'[q], op[q])
      BY <2>1, <3>3 DEF Ends, Others
    <3> QED  BY <2>3, <3>1, <3>2, <3>4, AlikeHolds
  <2> QED  BY <2>4, <2>5, <2>6 DEF NamesInv
<1> QED  BY <1>1, <1>2

LEMMA CommandNames ==
    ASSUME Typed, NamesInv, CommandRemoves
    PROVE  NamesInv'
<1>1. /\ \A q \in Slots : Alike(op'[q], op[q])
      /\ dir' = [n \in Names |-> IF n[1] = "g" THEN None ELSE dir[n]]
  BY CommandMoves
<1>2. \A n \in Names : dir'[n] # None => dir'[n] = dir[n]
  BY <1>1
<1>3. Housed'
  BY <1>1 DEF Housed
<1>4. NamedOnce'
  BY <1>2 DEF NamedOnce, NamesInv
<1>5. TempsAreOfEdits'
  <2> SUFFICES ASSUME NEW m \in Files \X Stamps, dir'[m] # None
               PROVE  \E q \in Slots : /\ Preparing(op'[q]) /\ Target(op'[q]) = m
                                       /\ op'[q].ino = dir'[m]
    BY DEF TempsAreOfEdits, Preparing, Target
  <2>1. dir'[m] = dir[m]
    BY <1>2, NamesAre
  <2>2. PICK q \in Slots : Preparing(op[q]) /\ Target(op[q]) = m /\ op[q].ino = dir[m]
    BY <2>1 DEF NamesInv, TempsAreOfEdits
  <2> QED  BY <1>1, <2>1, <2>2, AlikeHolds
<1> QED  BY <1>3, <1>4, <1>5 DEF NamesInv

(* The temporary file of an edit, while no two have shared one.            *)
LEMMA OwnTemp ==
    ASSUME Typed, TempsAreOfEdits, NEW r \in Slots, Apart(r), Preparing(op[r]),
           op[r].stamp \in Stamps, dir[Target(op[r])] # None
    PROVE  dir[Target(op[r])] = op[r].ino
<1>1. Target(op[r]) \in Files \X Stamps
  BY NamesOf
<1>2. PICK q \in Slots : /\ Preparing(op[q]) /\ Target(op[q]) = Target(op[r])
                         /\ op[q].ino = dir[Target(op[r])]
  BY <1>1 DEF TempsAreOfEdits
<1>3. q = r
  BY <1>2 DEF Apart
<1> QED  BY <1>2, <1>3

LEMMA OpenToWriteApart ==
    ASSUME Typed, Shapes, NamesInv, TempsApart, NEW r \in Slots, OpenToWrite(r)
    PROVE  TempsApart'
<1>1. TempsAreOfEdits /\ ~Preparing(op[r])
  BY DEF NamesInv, OpenToWrite, At, Preparing
<1>2. CASE GivesUp(r)
  BY <1>2, GivesUpQuiet, QuietApart
<1>3. CASE ~GivesUp(r)
  <2> DEFINE n == Itself(op[r])
  <2>1. PICK i \in Inodes :
          /\ Opens(r, n, i)
          /\ Turns(r, "fill", i, op[r].text, op[r].done, op[r].stamp)
          /\ UNCHANGED clashed
    BY <1>1, <1>3, OpenToWriteMoves
  <2>2. n \in Names /\ n = <<op[r].file, 0>> /\ op[r].file \in Files
    BY NamesOf DEF Itself
  <2> HIDE DEF n
  <2>3. \A m \in Names : dir'[m] = IF m = n THEN i ELSE dir[m]
    BY <2>1, <2>2, TypeFacts DEF Opens
  <2> SUFFICES ASSUME ~clashed', NEW q \in Slots, Preparing(op'[q])
               PROVE  /\ \A f \in Files : dir'[<<f, 0>>] # op'[q].ino
                      /\ \A p \in Slots \ {q} : op'[p].ino # op'[q].ino
                      /\ \A p \in Slots \ {q} : Preparing(op'[p]) => Target(op'[p]) # Target(op'[q])
    BY DEF TempsApart, Apart, Preparing, Target
  <2>4. ~Preparing(op'[r]) /\ op'[r].ino = i
    BY <2>1 DEF Turns, Preparing
  <2>5. \A p \in Slots \ {r} : Preparing(op'[p]) = Preparing(op[p]) /\ Target(op'[p]) = Target(op[p])
                                /\ op'[p].ino = op[p].ino
    BY <2>1, AlikeHolds DEF Turns, Others
  <2>6. q # r /\ Preparing(op[q]) /\ Apart(q)
    BY <2>1, <2>4, <2>5 DEF TempsApart
  <2>7. i # op[q].ino
    BY <2>1, <2>2, <2>6 DEF Opens, Fresh, Apart
  <2>8. \A f \in Files : dir'[<<f, 0>>] # op'[q].ino
    BY <2>3, <2>5, <2>6, <2>7, NamesAre DEF Apart
  <2>9. \A p \in Slots \ {q} : op'[p].ino # op'[q].ino
    BY <2>4, <2>5, <2>6, <2>7 DEF Apart
  <2>10. \A p \in Slots \ {q} : Preparing(op'[p]) => Target(op'[p]) # Target(op'[q])
    BY <2>4, <2>5, <2>6 DEF Apart
  <2> QED  BY <2>8, <2>9, <2>10
<1> QED  BY <1>2, <1>3

(* Unless the step is a clash, the temporary file is a new one.            *)
LEMMA OpenTempFresh ==
    ASSUME Typed, NamesInv, NEW r \in Slots, NEW i, Opens(r, Target(op[r]), i),
           op[r].stamp \in Stamps,
           ~ \E q \in Slots : Preparing(op[q]) /\ Target(op[q]) = Target(op[r])
    PROVE  Fresh(i)
<1>1. Target(op[r]) \in Files \X Stamps
  BY NamesOf
<1>2. dir[Target(op[r])] = None
  BY <1>1 DEF NamesInv, TempsAreOfEdits
<1> QED  BY <1>2 DEF Opens

LEMMA OpenTempApart ==
    ASSUME Typed, Shapes, NamesInv, TempsApart, NEW r \in Slots, OpenTemp(r)
    PROVE  TempsApart'
<1>1. TempsAreOfEdits /\ ~Preparing(op[r])
  BY DEF NamesInv, OpenTemp, At, Preparing
<1>2. CASE GivesUp(r)
  BY <1>2, GivesUpQuiet, QuietApart
<1>3. CASE ~GivesUp(r)
  <2> DEFINE n == Target(op[r])
  <2>1. PICK i \in Inodes :
          /\ Opens(r, n, i)
          /\ clashed' = (clashed \/ \E q \in Slots : Preparing(op[q]) /\ Target(op[q]) = n)
          /\ Turns(r, "put", i, op[r].text, op[r].done, op[r].stamp)
    BY <1>1, <1>3, OpenTempMoves
  <2>2. n \in Names /\ (\A f \in Files : <<f, 0>> # n) /\ op[r].stamp \in Stamps
    BY <1>1, NamesOf, OpenTempMoves
  <2> SUFFICES ASSUME ~clashed', NEW q \in Slots, Preparing(op'[q])
               PROVE  /\ \A f \in Files : dir'[<<f, 0>>] # op'[q].ino
                      /\ \A p \in Slots \ {q} : op'[p].ino # op'[q].ino
                      /\ \A p \in Slots \ {q} : Preparing(op'[p]) => Target(op'[p]) # Target(op'[q])
    BY DEF TempsApart, Apart, Preparing, Target
  <2>3. ~clashed /\ \A p \in Slots : Preparing(op[p]) => Target(op[p]) # n
    BY <2>1
  <2>4. Fresh(i)
    BY <2>1, <2>2, <2>3, OpenTempFresh
  <2>5. Target(op'[r]) = n /\ op'[r].ino = i
    BY <2>1 DEF Turns, Target
  <2> HIDE DEF n
  <2>6. \A f \in Files : dir'[<<f, 0>>] = dir[<<f, 0>>]
    BY <2>1, <2>2, TypeFacts, NamesAre DEF Opens
  <2>7. \A p \in Slots \ {r} : Preparing(op'[p]) = Preparing(op[p]) /\ Target(op'[p]) = Target(op[p])
                                /\ op'[p].ino = op[p].ino
    BY <2>1, AlikeHolds DEF Turns, Others
  <2>8. CASE q = r
    BY <2>3, <2>4, <2>5, <2>6, <2>7, <2>8, NamesAre DEF Fresh
  <2>9. CASE q # r
    <3>1. Preparing(op[q]) /\ Apart(q) /\ op'[q].ino = op[q].ino /\ Target(op'[q]) = Target(op[q])
      BY <2>3, <2>7, <2>9 DEF TempsApart
    <3>2. \A f \in Files : dir'[<<f, 0>>] # op'[q].ino
      BY <2>6, <3>1 DEF Apart
    <3>3. \A p \in Slots \ {q} : op'[p].ino # op'[q].ino
      BY <2>4, <2>5, <2>7, <3>1 DEF Apart, Fresh
    <3>4. \A p \in Slots \ {q} : Preparing(op'[p]) => Target(op'[p]) # Target(op'[q])
      BY <2>3, <2>5, <2>7, <3>1 DEF Apart
    <3> QED  BY <3>2, <3>3, <3>4
  <2> QED  BY <2>8, <2>9
<1> QED  BY <1>2, <1>3

LEMMA RenameApart ==
    ASSUME Typed, Shapes, NamesInv, TempsApart, NEW r \in Slots, Rename(r)
    PROVE  TempsApart'
<1> DEFINE I == Itself(op[r])
           T == Target(op[r])
<1>1. CASE GivesUp(r)
  BY <1>1, GivesUpQuiet, QuietApart
<1>2. CASE ~GivesUp(r)
  <2>1. /\ dir[T] # None /\ dir' = [dir EXCEPT ![I] = dir[T], ![T] = None]
        /\ Ends(r) /\ UNCHANGED clashed /\ op[r].stamp \in Stamps /\ op[r].at = "rename"
    BY <1>2, RenameMoves
  <2>2. /\ I \in Names /\ T \in Names /\ I # T /\ \A f \in Files : <<f, 0>> # T
    BY <2>1, NamesOf
  <2>3. Preparing(op[r])
    BY <2>1 DEF Preparing
  <2> SUFFICES ASSUME ~clashed', NEW q \in Slots, Preparing(op'[q])
               PROVE  /\ \A f \in Files : dir'[<<f, 0>>] # op'[q].ino
                      /\ \A p \in Slots \ {q} : op'[p].ino # op'[q].ino
                      /\ \A p \in Slots \ {q} : Preparing(op'[p]) => Target(op'[p]) # Target(op'[q])
    BY DEF TempsApart, Apart, Preparing, Target
  <2>4. dir[T] = op[r].ino
    <3>1. Apart(r) /\ TempsAreOfEdits
      BY <2>1 DEF TempsApart, NamesInv
    <3> QED  BY <2>1, <2>3, <3>1, OwnTemp
  <2> HIDE DEF I, T
  <2>5. \A n \in Names : dir'[n] = IF n = I THEN op[r].ino ELSE IF n = T THEN None ELSE dir[n]
    BY <2>1, <2>2, <2>4, TypeFacts
  <2>6. \A p \in Slots \ {r} : Preparing(op'[p]) = Preparing(op[p]) /\ Target(op'[p]) = Target(op[p])
                                /\ op'[p].ino = op[p].ino
    BY <2>1, AlikeHolds DEF Ends, Others
  <2>7. ~Preparing(op'[r]) /\ op'[r].ino = None
    BY <2>1, FreeOperation DEF Ends, Preparing
  <2>8. q # r /\ Preparing(op[q]) /\ Apart(q) /\ op'[q].ino = op[q].ino
        /\ Target(op'[q]) = Target(op[q])
    BY <2>1, <2>6, <2>7 DEF TempsApart
  <2>9. op[r].ino # op[q].ino /\ op[q].ino # None
    BY <2>8 DEF Apart, Shapes, Shape, Preparing
  <2>10. \A f \in Files : dir'[<<f, 0>>] # op'[q].ino
    BY <2>2, <2>5, <2>8, <2>9, NamesAre DEF Apart
  <2>11. \A p \in Slots \ {q} : op'[p].ino # op'[q].ino
    BY <2>6, <2>7, <2>8, <2>9 DEF Apart
  <2>12. \A p \in Slots \ {q} : Preparing(op'[p]) => Target(op'[p]) # Target(op'[q])
    BY <2>6, <2>7, <2>8 DEF Apart
  <2> QED  BY <2>10, <2>11, <2>12
<1> QED  BY <1>1, <1>2

LEMMA CommandApart ==
    ASSUME Typed, Shapes, TempsApart, CommandRemoves
    PROVE  TempsApart'
<1>1. /\ \A q \in Slots : Alike(op'[q], op[q])
      /\ dir' = [n \in Names |-> IF n[1] = "g" THEN None ELSE dir[n]]
      /\ UNCHANGED clashed
  BY CommandMoves
<1>2. \A n \in Names : dir'[n] \in {None, dir[n]}
  BY <1>1
<1>3. \A p \in Slots : Preparing(op'[p]) = Preparing(op[p]) /\ Target(op'[p]) = Target(op[p])
                       /\ op'[p].ino = op[p].ino
  BY <1>1, AlikeHolds
<1>4. \A p \in Slots : Preparing(op[p]) => op[p].ino # None
  BY DEF Shapes, Shape, Preparing
<1> SUFFICES ASSUME ~clashed', NEW q \in Slots, Preparing(op'[q])
             PROVE  /\ \A f \in Files : dir'[<<f, 0>>] # op'[q].ino
                    /\ \A p \in Slots \ {q} : op'[p].ino # op'[q].ino
                    /\ \A p \in Slots \ {q} : Preparing(op'[p]) => Target(op'[p]) # Target(op'[q])
  BY DEF TempsApart, Apart, Preparing, Target
<1>5. Apart(q) /\ Preparing(op[q])
  BY <1>1, <1>3 DEF TempsApart
<1>6. \A f \in Files : dir'[<<f, 0>>] # op'[q].ino
  BY <1>2, <1>3, <1>4, <1>5, NamesAre DEF Apart
<1> QED  BY <1>3, <1>5, <1>6 DEF Apart

-----------------------------------------------------------------------------
(* Changes of a file under way *)

(* What is due grows only by the mark of a change that ends, and met none. *)
DueGoes(r) ==
    \/ due' \subseteq due
    \/ /\ due' = due \cup {<<op[r].file, op[r].k>>}
       /\ ~op[r].met /\ op[r].does \in Changes /\ op'[r] = Free

(* The operation of the slot goes on with the same, or is over.            *)
SameOrOver(r) ==
    \/ op'[r].does \notin Changes
    \/ /\ op'[r].does = op[r].does /\ op'[r].file = op[r].file
       /\ op'[r].seek = op[r].seek /\ op'[r].met = op[r].met
       /\ due' \subseteq due

LEMMA ChangesGo ==
    ASSUME ChangesInv, NEW r \in Slots, DueGoes(r), SameOrOver(r), Others(r),
           \A q \in Slots : Stays(op[q])'
    PROVE  ChangesInv'
<1>1. \A q \in Slots \ {r} : /\ op'[q].does = op[q].does /\ op'[q].file = op[q].file
                             /\ op'[q].seek = op[q].seek /\ op'[q].met = op[q].met
  BY DEF Others, Alike
<1>2. Met'
  <2> SUFFICES ASSUME NEW p \in Slots, NEW q \in Slots, p # q, Together(op'[p], op'[q])
               PROVE  op'[p].met
    BY DEF Met, Together
  <2>1. \A s \in {p, q} : /\ op'[s].does = op[s].does /\ op'[s].file = op[s].file
                          /\ op'[s].met = op[s].met
    BY <1>1 DEF SameOrOver, Together
  <2>2. Together(op[p], op[q])
    BY <2>1 DEF Together
  <2> QED  BY <2>1, <2>2 DEF ChangesInv, Met
<1>3. \A q \in Slots : Removed(op[q])'
  <2> SUFFICES ASSUME NEW q \in Slots, op'[q].does \in Changes
               PROVE  Removed(op[q])'
    BY DoingsAre DEF Removed
  <2>1. /\ op'[q].does = op[q].does /\ op'[q].file = op[q].file /\ op'[q].seek = op[q].seek
    BY <1>1 DEF SameOrOver
  <2>2. Removed(op[q])
    BY DEF ChangesInv
  <2>3. CASE due' \subseteq due
    BY <2>1, <2>2, <2>3 DEF Removed
  <2>4. CASE ~(due' \subseteq due)
    <3>1. /\ due' = due \cup {<<op[r].file, op[r].k>>}
          /\ ~op[r].met /\ op[r].does \in Changes /\ op'[r] = Free
      BY <2>4 DEF DueGoes
    <3>2. q # r
      BY <3>1, FreeOperation, DoingsAre
    <3>3. op[q].file # op[r].file
      BY <2>1, <3>1, <3>2 DEF ChangesInv, Met, Together
    <3> QED  BY <2>1, <2>2, <3>1, <3>3 DEF Removed
  <2> QED  BY <2>3, <2>4
<1> QED  BY <1>2, <1>3 DEF ChangesInv

(* Names stay, so that whoever has a file open finds it where it was.      *)
LEMMA StaysGo ==
    ASSUME ChangesInv, dir' = dir, NEW q \in Slots, Alike(op'[q], op[q]),
           op[q].met => op'[q].met
    PROVE  Stays(op[q])'
<1>1. Stays(op[q])
  BY DEF ChangesInv
<1> QED  BY <1>1, AlikeHolds DEF Stays

LEMMA StaysElsewhere ==
    ASSUME NEW q \in Slots, op'[q].at # "fill"
    PROVE  Stays(op[q])'
  BY DEF Stays

LEMMA GivesUpChanges ==
    ASSUME ChangesInv, NEW r \in Slots, GivesUp(r)
    PROVE  ChangesInv'
<1>1. op'[r] = Free /\ Others(r) /\ dir' = dir /\ due' \subseteq due
  BY DEF GivesUp, Ends
<1>2. SameOrOver(r)
  BY <1>1, FreeOperation, DoingsAre DEF SameOrOver
<1>3. \A q \in Slots : Stays(op[q])'
  BY <1>1, StaysGo, StaysElsewhere, FreeOperation DEF Others
<1> QED  BY <1>1, <1>2, <1>3, ChangesGo DEF DueGoes

LEMMA MkdirChanges ==
    ASSUME Typed, Shapes, ChangesInv, NEW r \in Slots, Mkdir(r)
    PROVE  ChangesInv'
<1>1. /\ Turns(r, "create", op[r].ino, op[r].text, op[r].done, op[r].stamp)
      /\ UNCHANGED <<dir, due>>
  BY MkdirMoves
<1>2. DueGoes(r) /\ SameOrOver(r) /\ Others(r)
  BY <1>1 DEF DueGoes, SameOrOver, Turns
<1>3. \A q \in Slots : Stays(op[q])'
  BY <1>1, <1>2, StaysGo, StaysElsewhere DEF Others, Turns
<1> QED  BY <1>2, <1>3, ChangesGo

(* A change that has its file to open, or to rename, sees it placed where  *)
(* the others that are at it know that they were met.                      *)
LEMMA PlacedChanges ==
    ASSUME Typed, ChangesInv, NEW r \in Slots, op[r].does \in Changes,
           Others(r), DueGoes(r), SameOrOver(r), Shapes,
           \A f \in Files : f # op[r].file => dir'[<<f, 0>>] = dir[<<f, 0>>],
           Stays(op[r])'
    PROVE  ChangesInv'
<1>1. \A q \in Slots \ {r} : Stays(op[q])'
  <2> SUFFICES ASSUME NEW q \in Slots \ {r}, op'[q].at = "fill", ~op'[q].met
               PROVE  dir'[Itself(op'[q])] = op'[q].ino
    BY DEF Stays, Itself
  <2>1. Alike(op'[q], op[q]) /\ op'[q].met = op[q].met
    BY DEF Others
  <2>2. op[q].at = "fill" /\ ~op[q].met /\ Itself(op'[q]) = Itself(op[q]) /\ op'[q].ino = op[q].ino
    BY <2>1, AlikeHolds
  <2>3. dir[Itself(op[q])] = op[q].ino
    BY <2>2 DEF ChangesInv, Stays
  <2>4. op[q].does \in Changes
    BY <2>2 DEF Shapes, Shape, Changes
  <2>5. op[q].file # op[r].file
    BY <2>2, <2>4 DEF ChangesInv, Met, Together
  <2>6. op[q].file \in Files
    BY NamesOf
  <2> QED  BY <2>2, <2>3, <2>5, <2>6 DEF Itself
<1> QED  BY <1>1, ChangesGo

LEMMA OpenToWriteChanges ==
    ASSUME Typed, Shapes, NamesInv, ChangesInv, NEW r \in Slots, OpenToWrite(r)
    PROVE  ChangesInv'
<1>1. TempsAreOfEdits
  BY DEF NamesInv
<1>2. CASE GivesUp(r)
  BY <1>2, GivesUpChanges
<1>3. CASE ~GivesUp(r)
  <2> DEFINE n == Itself(op[r])
  <2>1. PICK i \in Inodes :
          /\ Opens(r, n, i)
          /\ Turns(r, "fill", i, op[r].text, op[r].done, op[r].stamp)
    BY <1>1, <1>3, OpenToWriteMoves
  <2>2. n \in Names /\ n = <<op[r].file, 0>>
    BY NamesOf DEF Itself
  <2>3. op[r].does \in Changes
    BY <1>1, OpenToWriteMoves DEF Changes
  <2>4. DueGoes(r) /\ SameOrOver(r) /\ Others(r)
    BY <2>1 DEF DueGoes, SameOrOver, Turns, Opens
  <2>5. Itself(op'[r]) = n /\ op'[r].ino = i
    BY <2>1 DEF Turns, Itself
  <2> HIDE DEF n
  <2>6. \A m \in Names : dir'[m] = IF m = n THEN i ELSE dir[m]
    BY <2>1, <2>2, TypeFacts DEF Opens
  <2>7. \A f \in Files : f # op[r].file => dir'[<<f, 0>>] = dir[<<f, 0>>]
    BY <2>2, <2>6, NamesAre
  <2>8. Stays(op[r])'
    BY <2>2, <2>5, <2>6 DEF Stays, Itself
  <2> QED  BY <2>3, <2>4, <2>7, <2>8, PlacedChanges
<1> QED  BY <1>2, <1>3

LEMMA FillChanges ==
    ASSUME Typed, Shapes, ChangesInv, NEW r \in Slots, Fill(r)
    PROVE  ChangesInv'
<1> DEFINE o    == op[r]
           last == o.does = "append" \/ o.done + 1 = Chunks
<1>1. /\ o.at = "fill" /\ o.does \in {"write", "append"} /\ dir' = dir
      /\ IF last THEN Ends(r)
           ELSE Turns(r, "fill", o.ino, o.text, o.done + 1, o.stamp)
      /\ due' = IF last /\ ~o.met THEN due \cup {<<o.file, o.k>>} ELSE due
  BY FillMoves
<1>2. o.does \in Changes
  BY <1>1 DEF Changes
<1>3. Others(r) /\ DueGoes(r)
  BY <1>1, <1>2 DEF DueGoes, Turns, Ends
<1>4. SameOrOver(r)
  BY <1>1, FreeOperation, DoingsAre DEF SameOrOver, Turns, Ends
<1>5. Stays(op[r])'
  <2>1. CASE last
    BY <1>1, <2>1, FreeOperation, StaysElsewhere DEF Ends
  <2>2. CASE ~last
    <3>1. Stays(o)
      BY DEF ChangesInv
    <3> QED  BY <1>1, <2>2, <3>1 DEF Stays, Turns, Itself
  <2> QED  BY <2>1, <2>2
<1> QED  BY <1>1, <1>2, <1>3, <1>4, <1>5, PlacedChanges

LEMMA ReadToEditChanges ==
    ASSUME Typed, Shapes, ChangesInv, NEW r \in Slots, NEW all \in BOOLEAN, ReadToEdit(r, all)
    PROVE  ChangesInv'
<1>1. UNCHANGED <<dir, due>>
  BY ReadToEditMoves
<1>2. CASE GivesUp(r)
  BY <1>2, GivesUpChanges
<1>3. CASE ~GivesUp(r)
  <2> DEFINE new == Replaced(Content(op[r].file), op[r].seek, op[r].k)
  <2>1. PICK stamp \in Stamps : Turns(r, "temp", op[r].ino, new, op[r].done, stamp)
    BY <1>3, ReadToEditMoves
  <2> HIDE DEF new
  <2>2. DueGoes(r) /\ SameOrOver(r) /\ Others(r)
    BY <1>1, <2>1 DEF DueGoes, SameOrOver, Turns
  <2>3. \A q \in Slots : Stays(op[q])'
    BY <1>1, <2>1, <2>2, StaysGo, StaysElsewhere DEF Others, Turns
  <2> QED  BY <2>2, <2>3, ChangesGo
<1> QED  BY <1>2, <1>3

LEMMA OpenTempChanges ==
    ASSUME Typed, Shapes, NamesInv, ChangesInv, NEW r \in Slots, OpenTemp(r)
    PROVE  ChangesInv'
<1>1. TempsAreOfEdits
  BY DEF NamesInv
<1>2. CASE GivesUp(r)
  BY <1>2, GivesUpChanges
<1>3. CASE ~GivesUp(r)
  <2> DEFINE n == Target(op[r])
  <2>1. PICK i \in Inodes :
          /\ Opens(r, n, i)
          /\ Turns(r, "put", i, op[r].text, op[r].done, op[r].stamp)
    BY <1>1, <1>3, OpenTempMoves
  <2>2. op[r].does \in Changes /\ op[r].stamp \in Stamps
    BY <1>1, OpenTempMoves DEF Changes
  <2>3. n \in Names /\ \A f \in Files : <<f, 0>> # n
    BY <2>2, NamesOf
  <2>4. DueGoes(r) /\ SameOrOver(r) /\ Others(r)
    BY <2>1 DEF DueGoes, SameOrOver, Turns, Opens
  <2> HIDE DEF n
  <2>5. \A f \in Files : dir'[<<f, 0>>] = dir[<<f, 0>>]
    BY <2>1, <2>3, TypeFacts, NamesAre DEF Opens
  <2>6. Stays(op[r])'
    BY <2>1, StaysElsewhere DEF Turns
  <2> QED  BY <2>2, <2>4, <2>5, <2>6, PlacedChanges
<1> QED  BY <1>2, <1>3

LEMMA WriteTempChanges ==
    ASSUME Typed, Shapes, ChangesInv, NEW r \in Slots, WriteTemp(r)
    PROVE  ChangesInv'
<1> DEFINE place == IF op[r].done + 1 = Len(op[r].text) THEN "rename" ELSE "put"
<1>1. /\ Turns(r, place, op[r].ino, op[r].text, op[r].done + 1, op[r].stamp)
      /\ UNCHANGED <<dir, due>>
  BY WriteTempMoves
<1>2. DueGoes(r) /\ SameOrOver(r) /\ Others(r) /\ op'[r].at # "fill"
  BY <1>1 DEF DueGoes, SameOrOver, Turns
<1>3. \A q \in Slots : Stays(op[q])'
  BY <1>1, <1>2, StaysGo, StaysElsewhere DEF Others
<1> QED  BY <1>2, <1>3, ChangesGo

LEMMA RenameChanges ==
    ASSUME Typed, Shapes, ChangesInv, NEW r \in Slots, Rename(r)
    PROVE  ChangesInv'
<1> DEFINE I == Itself(op[r])
           T == Target(op[r])
<1>1. CASE GivesUp(r)
  BY <1>1, GivesUpChanges
<1>2. CASE ~GivesUp(r)
  <2>1. /\ dir' = [dir EXCEPT ![I] = dir[T], ![T] = None]
        /\ Ends(r) /\ op[r].stamp \in Stamps /\ op[r].does \in Changes
        /\ due' = IF op[r].met THEN due ELSE due \cup {<<op[r].file, op[r].k>>}
    BY <1>2, RenameMoves, DoingsAre
  <2>2. /\ I \in Names /\ T \in Names /\ I = <<op[r].file, 0>> /\ \A f \in Files : <<f, 0>> # T
    BY <2>1, NamesOf DEF Itself
  <2>3. Others(r) /\ DueGoes(r) /\ SameOrOver(r) /\ Stays(op[r])'
    BY <2>1, FreeOperation, DoingsAre, StaysElsewhere DEF Ends, DueGoes, SameOrOver
  <2> HIDE DEF I, T
  <2>4. \A f \in Files : f # op[r].file => dir'[<<f, 0>>] = dir[<<f, 0>>]
    BY <2>1, <2>2, TypeFacts, NamesAre
  <2> QED  BY <2>1, <2>3, <2>4, PlacedChanges
<1> QED  BY <1>1, <1>2

LEMMA WalkingChanges ==
    ASSUME Typed, Shapes, ChangesInv, NEW r \in Slots,
           OpenDirectory(r) \/ Visit(r) \/ Leave(r) \/ AnswerWalk(r)
    PROVE  ChangesInv'
<1>1. /\ op[r].does \in Walks /\ UNCHANGED <<dir, due>> /\ op'[r].does \notin Changes
      /\ \A q \in Slots \ {r} : op'[q] = op[q]
  BY WalkingQuiet
<1>2. Others(r) /\ DueGoes(r) /\ SameOrOver(r)
  BY <1>1 DEF Others, Alike, DueGoes, SameOrOver
<1>3. Shapes'
  BY WalkingTyped
<1>4. op'[r].at # "fill"
  BY <1>1, <1>3 DEF Shapes, Shape, Changes
<1>5. \A q \in Slots : Stays(op[q])'
  BY <1>1, <1>2, <1>4, StaysGo, StaysElsewhere DEF Others
<1> QED  BY <1>2, <1>5, ChangesGo

(* A call that begins makes what it is to replace no longer due, and knows *)
(* whom it meets.                                                          *)
LEMMA BegunChanges ==
    ASSUME ChangesInv, NEW r \in Slots, NEW does \in Changes \cup Walks, NEW k, NEW f, NEW x,
           Begun(r, does, FirstPlace(does), k, f, x), dir' = dir, due' \subseteq due,
           does = "write" => \A m \in due' : m[1] # f,
           does = "edit" => <<f, x>> \notin due'
    PROVE  ChangesInv'
<1>1. \A q \in Slots \ {r} : /\ Alike(op'[q], op[q]) /\ (op[q].met => op'[q].met)
                             /\ op'[q].does = op[q].does /\ op'[q].file = op[q].file
                             /\ op'[q].seek = op[q].seek
  BY DEF Begun, Alike
<1>2. op'[r].does = does /\ op'[r].file = f /\ op'[r].seek = x /\ op'[r].at # "fill"
  BY DEF Begun, FirstPlace
<1>3. Met'
  <2> SUFFICES ASSUME NEW p \in Slots, NEW q \in Slots, p # q, Together(op'[p], op'[q])
               PROVE  op'[p].met
    BY DEF Met, Together
  <2>1. CASE p # r /\ q # r
    BY <1>1, <2>1 DEF ChangesInv, Met, Together
  <2>2. CASE p = r
    <3>1. does \in Changes /\ op[q].does \in Changes /\ op[q].file = f /\ q \in Slots \ {r}
      BY <1>1, <1>2, <2>2 DEF Together
    <3> QED  BY <2>2, <3>1 DEF Begun
  <2>3. CASE q = r
    <3>1. does \in Changes /\ op[p].does \in Changes /\ op[p].file = f /\ p \in Slots \ {r}
      BY <1>1, <1>2, <2>3 DEF Together
    <3> QED  BY <3>1 DEF Begun
  <2> QED  BY <2>1, <2>2, <2>3
<1>4. \A q \in Slots : Removed(op[q])'
  <2>1. Removed(op[r])'
    BY <1>2 DEF Removed
  <2>2. \A q \in Slots \ {r} : Removed(op[q])'
    BY <1>1 DEF ChangesInv, Removed
  <2> QED  BY <2>1, <2>2
<1>5. \A q \in Slots : Stays(op[q])'
  BY <1>1, <1>2, StaysGo, StaysElsewhere
<1> QED  BY <1>3, <1>4, <1>5 DEF ChangesInv

LEMMA AskChanges ==
    ASSUME Typed, Shapes, ChangesInv, NEW r \in Slots, NEW does \in Changes \cup Walks,
           NEW f \in Files, NEW x \in Nat, Ask(r, does, f, x)
    PROVE  ChangesInv'
<1>1. /\ Begun(r, does, FirstPlace(does), calls + 1, f, x) /\ dir' = dir
      /\ due' = CASE does = "write" -> {m \in due : m[1] # f}
                  [] does = "edit"  -> due \ {<<f, x>>}
                  [] OTHER          -> due
  BY AskMoves
<1>2. /\ due' \subseteq due
      /\ does = "write" => \A m \in due' : m[1] # f
      /\ does = "edit" => <<f, x>> \notin due'
  BY <1>1
<1> QED  BY <1>1, <1>2, BegunChanges

LEMMA SendAgainChanges ==
    ASSUME Typed, Shapes, ChangesInv, NEW r \in Slots, NEW b \in Requests, SendAgain(r, b)
    PROVE  ChangesInv'
<1>1. /\ b.does \in Changes /\ dir' = dir
      /\ Begun(r, b.does, FirstPlace(b.does), b.k, b.file, b.seek)
      /\ due' = CASE b.does = "write" -> {m \in due : m[1] # b.file}
                  [] b.does = "edit"  -> due \ {<<b.file, b.seek>>}
                  [] OTHER            -> due
  BY SendAgainMoves
<1>2. /\ due' \subseteq due
      /\ b.does = "write" => \A m \in due' : m[1] # b.file
      /\ b.does = "edit" => <<b.file, b.seek>> \notin due'
  BY <1>1
<1> QED  BY <1>1, <1>2, BegunChanges

LEMMA CommandChanges ==
    ASSUME Typed, Shapes, ChangesInv, CommandRemoves
    PROVE  ChangesInv'
<1>1. /\ \A q \in Slots :
           /\ Alike(op'[q], op[q]) /\ (op[q].met => op'[q].met)
           /\ op[q].does \in Changes /\ op[q].file = "g" => op'[q].met
      /\ dir' = [n \in Names |-> IF n[1] = "g" THEN None ELSE dir[n]]
      /\ due' = {m \in due : m[1] = "f"}
  BY CommandMoves
<1>2. \A q \in Slots : /\ op'[q].does = op[q].does /\ op'[q].file = op[q].file
                       /\ op'[q].seek = op[q].seek
  BY <1>1 DEF Alike
<1>3. Met'
  BY <1>1, <1>2 DEF ChangesInv, Met, Together
<1>4. \A q \in Slots : Removed(op[q])'
  BY <1>1, <1>2 DEF ChangesInv, Removed
<1>5. \A q \in Slots : Stays(op[q])'
  <2> SUFFICES ASSUME NEW q \in Slots, op'[q].at = "fill", ~op'[q].met
               PROVE  dir'[Itself(op'[q])] = op'[q].ino
    BY DEF Stays, Itself
  <2>1. op[q].at = "fill" /\ ~op[q].met /\ Itself(op'[q]) = Itself(op[q]) /\ op'[q].ino = op[q].ino
    BY <1>1, AlikeHolds
  <2>2. dir[Itself(op[q])] = op[q].ino
    BY <2>1 DEF ChangesInv, Stays
  <2>3. op[q].does \in Changes
    BY <2>1 DEF Shapes, Shape, Changes
  <2>4. op[q].file # "g"
    BY <1>1, <2>3
  <2>5. Itself(op[q]) \in Names /\ Itself(op[q])[1] = op[q].file
    BY NamesOf
  <2> QED  BY <1>1, <2>1, <2>2, <2>4, <2>5
<1> QED  BY <1>3, <1>4, <1>5 DEF ChangesInv

-----------------------------------------------------------------------------
(* What a change has written stays *)

(* Everything that is due is in its file.                                  *)
LEMMA StickFacts ==
    ASSUME Typed, ~clashed, ChangesStick, NEW m \in due
    PROVE  m[1] \in Files /\ m[2] \in Marks(Content(m[1])) /\ m[2] \in Nat
  BY TypeFacts DEF ChangesStick

LEMMA SticksOn ==
    ASSUME Typed, ~clashed, ChangesStick, due' \subseteq due,
           \A f \in Files : Content(f)' = Content(f)
    PROVE  ChangesStick'
<1> SUFFICES ASSUME NEW m \in due'
             PROVE  (m[2] \in Marks(Content(m[1])))'
  BY DEF ChangesStick
<1>1. m[1] \in Files /\ m[2] \in Marks(Content(m[1]))
  BY StickFacts
<1> QED  BY <1>1 DEF Marks

LEMMA ContentStays ==
    ASSUME NEW f, dir'[<<f, 0>>] = dir[<<f, 0>>],
           dir[<<f, 0>>] # None => disk'[dir[<<f, 0>>]] = disk[dir[<<f, 0>>]]
    PROVE  Content(f)' = Content(f)
  BY DEF Content

(* The texts of an operation, carried over a step.                         *)
LEMMA TextsGo ==
    ASSUME NEW q \in Slots, Alike(op'[q], op[q]),
           Keeps(op[q]) /\ Fills(op[q]) /\ Copied(op[q]),
           \A m \in due' : m \in due \/ m[1] # op[q].file,
           \A f \in Files : dir'[<<f, 0>>] = dir[<<f, 0>>]
                              \/ (op[q].at = "fill" /\ f # op[q].file => dir'[<<f, 0>>] # op[q].ino),
           Preparing(op[q]) => disk'[op[q].ino] = disk[op[q].ino]
    PROVE  Keeps(op[q])' /\ Fills(op[q])' /\ Copied(op[q])'
<1>1. /\ op'[q].at = op[q].at /\ op'[q].file = op[q].file /\ op'[q].ino = op[q].ino
      /\ op'[q].text = op[q].text /\ op'[q].done = op[q].done
  BY DEF Alike
<1>2. Keeps(op[q])'
  BY <1>1 DEF Keeps
<1>3. Fills(op[q])'
  BY <1>1 DEF Fills
<1>4. Copied(op[q])'
  BY <1>1 DEF Copied, Preparing
<1> QED  BY <1>2, <1>3, <1>4

LEMMA TextsElsewhere ==
    ASSUME NEW q \in Slots, op'[q].at \notin {"fill", "temp", "put", "rename"}
    PROVE  Keeps(op[q])' /\ Fills(op[q])' /\ Copied(op[q])'
  BY DEF Keeps, Fills, Copied, Preparing

(* A step that changes no file and makes nothing due.                      *)
LEMMA TextsUntouched ==
    ASSUME Typed, TextsInv, ChangesStick, due' \subseteq due,
           clashed => clashed', UNCHANGED <<dir, disk>>,
           \A q \in Slots : \/ Alike(op'[q], op[q])
                            \/ op'[q].at \notin {"fill", "temp", "put", "rename"}
    PROVE  TextsInv' /\ ChangesStick'
<1>1. CASE clashed'
  BY <1>1 DEF TextsInv, ChangesStick
<1>2. CASE ~clashed'
  <2>1. ~clashed
    BY <1>2
  <2>2. ChangesStick'
    BY <2>1, SticksOn, ContentStays
  <2>3. ASSUME NEW q \in Slots
        PROVE  Keeps(op[q])' /\ Fills(op[q])' /\ Copied(op[q])'
    <3>1. CASE op'[q].at \notin {"fill", "temp", "put", "rename"}
      BY <3>1, TextsElsewhere
    <3>2. CASE Alike(op'[q], op[q])
      BY <2>1, <3>2, TextsGo DEF TextsInv
    <3> QED  BY <3>1, <3>2
  <2> QED  BY <2>2, <2>3 DEF TextsInv
<1> QED  BY <1>1, <1>2

LEMMA GivesUpTexts ==
    ASSUME Typed, TextsInv, ChangesStick, NEW r \in Slots, GivesUp(r)
    PROVE  TextsInv' /\ ChangesStick'
<1>1. op'[r] = Free /\ Others(r) /\ UNCHANGED <<dir, disk, due, clashed>>
  BY DEF GivesUp, Ends
<1> QED  BY <1>1, FreeOperation, TextsUntouched DEF Others

LEMMA MkdirTexts ==
    ASSUME Typed, Shapes, TextsInv, ChangesStick, NEW r \in Slots, Mkdir(r)
    PROVE  TextsInv' /\ ChangesStick'
<1>1. op'[r].at = "create" /\ Others(r) /\ UNCHANGED <<dir, disk, due, clashed>>
  BY MkdirMoves DEF Turns
<1> QED  BY <1>1, TextsUntouched DEF Others

LEMMA WalkingTexts ==
    ASSUME Typed, Shapes, TextsInv, ChangesStick, NEW r \in Slots,
           OpenDirectory(r) \/ Visit(r) \/ Leave(r) \/ AnswerWalk(r)
    PROVE  TextsInv' /\ ChangesStick'
<1>1. /\ op'[r].does \notin Changes /\ UNCHANGED <<dir, disk, due, clashed>>
      /\ \A q \in Slots \ {r} : op'[q] = op[q]
  BY WalkingQuiet
<1>2. Shapes'
  BY WalkingTyped
<1>3. op'[r].at \notin {"fill", "temp", "put", "rename"}
  BY <1>1, <1>2 DEF Shapes, Shape, Changes
<1> QED  BY <1>1, <1>3, TextsUntouched DEF Alike

LEMMA BegunTexts ==
    ASSUME Typed, TextsInv, ChangesStick, NEW r \in Slots, NEW does, NEW k, NEW f, NEW x,
           Begun(r, does, FirstPlace(does), k, f, x), UNCHANGED <<dir, disk, clashed>>,
           due' \subseteq due
    PROVE  TextsInv' /\ ChangesStick'
<1>1. op'[r].at \notin {"fill", "temp", "put", "rename"}
  BY DEF Begun, FirstPlace
<1> QED  BY <1>1, TextsUntouched DEF Begun

LEMMA AskTexts ==
    ASSUME Typed, Shapes, TextsInv, ChangesStick, NEW r \in Slots,
           NEW does \in Changes \cup Walks, NEW f \in Files, NEW x \in Nat, Ask(r, does, f, x)
    PROVE  TextsInv' /\ ChangesStick'
<1>1. /\ Begun(r, does, FirstPlace(does), calls + 1, f, x) /\ UNCHANGED <<dir, disk, clashed>>
      /\ due' = CASE does = "write" -> {m \in due : m[1] # f}
                  [] does = "edit"  -> due \ {<<f, x>>}
                  [] OTHER          -> due
  BY AskMoves
<1>2. due' \subseteq due
  BY <1>1
<1> QED  BY <1>1, <1>2, BegunTexts

LEMMA SendAgainTexts ==
    ASSUME Typed, Shapes, TextsInv, ChangesStick, NEW r \in Slots, NEW b \in Requests,
           SendAgain(r, b)
    PROVE  TextsInv' /\ ChangesStick'
<1>1. /\ Begun(r, b.does, FirstPlace(b.does), b.k, b.file, b.seek)
      /\ UNCHANGED <<dir, disk, clashed>>
      /\ due' = CASE b.does = "write" -> {m \in due : m[1] # b.file}
                  [] b.does = "edit"  -> due \ {<<b.file, b.seek>>}
                  [] OTHER            -> due
  BY SendAgainMoves
<1>2. due' \subseteq due
  BY <1>1
<1> QED  BY <1>1, <1>2, BegunTexts

(* Opening to write: the file is new, or its content goes only if a write  *)
(* is to replace it, and then nothing in it is due.                        *)
LEMMA OpenToWriteTexts ==
    ASSUME Typed, Shapes, NamesInv, TempsApart, ChangesInv, TextsInv, ChangesStick,
           NEW r \in Slots, OpenToWrite(r)
    PROVE  TextsInv' /\ ChangesStick'
<1>1. TempsAreOfEdits
  BY DEF NamesInv
<1>2. CASE GivesUp(r)
  BY <1>2, GivesUpTexts
<1>3. CASE ~GivesUp(r)
  <2> DEFINE o == op[r]
             n == Itself(o)
             emptied == dir[n] = None \/ o.does = "write"
  <2>1. PICK i \in Inodes :
          /\ Opens(r, n, i)
          /\ disk' = IF emptied THEN [disk EXCEPT ![i] = <<>>] ELSE disk
          /\ Turns(r, "fill", i, o.text, o.done, o.stamp)
          /\ UNCHANGED clashed
    BY <1>1, <1>3, OpenToWriteMoves
  <2>2. n \in Names /\ n = <<o.file, 0>> /\ o.file \in Files
    BY NamesOf DEF Itself
  <2>3. due' = due /\ IF dir[n] = None THEN Fresh(i) ELSE i = dir[n]
    BY <2>1 DEF Opens
  <2>4. Removed(o)
    BY DEF ChangesInv
  <2>5. CASE clashed
    BY <2>1, <2>5 DEF TextsInv, ChangesStick
  <2>6. CASE ~clashed
    <3>1. emptied => \A m \in due : m[1] # o.file
      <4>1. CASE dir[n] = None
        BY <2>2, <2>6, <4>1, StickFacts, NoMarks DEF Content
      <4>2. CASE o.does = "write"
        BY <2>4, <4>2 DEF Removed
      <4> QED  BY <4>1, <4>2
    <3> HIDE DEF n, emptied
    <3>2. \A m \in Names : dir'[m] = IF m = n THEN i ELSE dir[m]
      BY <2>1, <2>2, TypeFacts DEF Opens
    <3>3. \A m \in Names : m # n => dir[m] # i
      BY <2>2, <2>3, InodesAre DEF Fresh, NamesInv, NamedOnce
    <3>4. \A j \in Inodes : j # i \/ ~emptied => disk'[j] = disk[j]
      BY <2>1, TypeFacts
    <3>5. \A f \in Files : f # o.file \/ ~emptied => Content(f)' = Content(f)
      <4> SUFFICES ASSUME NEW f \in Files, f # o.file \/ ~emptied
                   PROVE  Content(f)' = Content(f)
        OBVIOUS
      <4>1. dir[<<f, 0>>] \in {None} \cup Inodes /\ <<f, 0>> \in Names
        BY NamesAre, TypeFacts
      <4>2. dir'[<<f, 0>>] = dir[<<f, 0>>]
        BY <2>2, <2>3, <3>2, <4>1 DEF emptied
      <4>3. dir[<<f, 0>>] # None => disk'[dir[<<f, 0>>]] = disk[dir[<<f, 0>>]]
        BY <2>2, <3>3, <3>4, <4>1
      <4> QED  BY <4>2, <4>3, ContentStays
    <3>6. ChangesStick'
      <4> SUFFICES ASSUME NEW m \in due'
                   PROVE  (m[2] \in Marks(Content(m[1])))'
        BY DEF ChangesStick
      <4>1. m[1] \in Files /\ m[2] \in Marks(Content(m[1]))
        BY <2>3, <2>6, StickFacts
      <4>2. Content(m[1])' = Content(m[1])
        BY <2>3, <3>1, <3>5, <4>1
      <4> QED  BY <4>1, <4>2 DEF Marks
    <3>7. ASSUME NEW q \in Slots \ {r}
          PROVE  Keeps(op[q])' /\ Fills(op[q])' /\ Copied(op[q])'
      <4>1. Alike(op'[q], op[q])
        BY <2>1 DEF Turns, Others
      <4>2. Keeps(op[q]) /\ Fills(op[q]) /\ Copied(op[q]) /\ op[q].ino \in {None} \cup Inodes
        BY <2>6, OperationOf, OperationFields DEF TextsInv
      <4>3. Preparing(op[q]) => op[q].ino \in Inodes /\ op[q].ino # i
        <5> SUFFICES ASSUME Preparing(op[q])
                     PROVE  op[q].ino \in Inodes /\ op[q].ino # i
          OBVIOUS
        <5>1. Apart(q)
          BY <2>6 DEF TempsApart
        <5>2. op[q].ino # dir[n]
          BY <2>2, <5>1 DEF Apart
        <5>3. op[q].ino # None
          BY DEF Shapes, Shape, Preparing
        <5> QED  BY <2>3, <4>2, <5>2, <5>3 DEF Fresh
      <4>4. Preparing(op[q]) => disk'[op[q].ino] = disk[op[q].ino]
        BY <3>4, <4>3
      <4>5. \A f \in Files : dir'[<<f, 0>>] = dir[<<f, 0>>]
                \/ (op[q].at = "fill" /\ f # op[q].file => dir'[<<f, 0>>] # op[q].ino)
        <5> SUFFICES ASSUME NEW f \in Files, op[q].at = "fill", dir'[<<f, 0>>] # dir[<<f, 0>>]
                     PROVE  dir'[<<f, 0>>] # op[q].ino
          OBVIOUS
        <5>1. <<f, 0>> = n /\ dir'[<<f, 0>>] = i /\ dir[n] # i
          BY <2>2, <3>2, NamesAre
        <5> QED  BY <2>3, <5>1 DEF Fresh
      <4> QED  BY <2>3, <4>1, <4>2, <4>4, <4>5, TextsGo
    <3>8. Keeps(op[r])' /\ Fills(op[r])' /\ Copied(op[r])'
      <4>1. op'[r].at = "fill" /\ op'[r].file = o.file /\ op'[r].ino = i
        BY <2>1 DEF Turns
      <4>2. \A f \in Files : f # o.file => dir'[<<f, 0>>] # i
        BY <2>2, <3>2, <3>3, NamesAre
      <4> QED  BY <4>1, <4>2 DEF Keeps, Fills, Copied, Preparing
    <3> QED  BY <3>6, <3>7, <3>8 DEF TextsInv
  <2> QED  BY <2>5, <2>6
<1> QED  BY <1>2, <1>3

(* Filling: an append keeps what is there, a write has nothing due to      *)
(* lose, and the last piece leaves the mark of the change.                 *)
LEMMA FillTexts ==
    ASSUME Typed, Shapes, TempsApart, ChangesInv, TextsInv, ChangesStick,
           NEW r \in Slots, Fill(r)
    PROVE  TextsInv' /\ ChangesStick'
<1> DEFINE o    == op[r]
           n    == IF o.does = "append" THEN Len(disk[o.ino]) + 1 ELSE o.done + 1
           last == o.does = "append" \/ o.done + 1 = Chunks
           new  == Overwrite(disk[o.ino], n, o.k)
<1>1. /\ o.at = "fill" /\ o.does \in {"write", "append"} /\ o.ino \in Inodes
      /\ n \in Nat \ {0} /\ disk' = [disk EXCEPT ![o.ino] = new]
      /\ IF last THEN Ends(r) ELSE Turns(r, "fill", o.ino, o.text, o.done + 1, o.stamp)
      /\ due' = IF last /\ ~o.met THEN due \cup {<<o.file, o.k>>} ELSE due
      /\ UNCHANGED <<dir, clashed>>
  BY FillMoves
<1>2. o \in Operations /\ o.k \in Nat /\ o.file \in Files
  BY OperationOf, OperationFields
<1>3. CASE clashed
  BY <1>1, <1>3 DEF TextsInv, ChangesStick
<1>4. CASE ~clashed
  <2>1. /\ disk[o.ino] \in Seq(Nat) /\ o.k \in Marks(new)
        /\ o.does = "append" => Marks(disk[o.ino]) \subseteq Marks(new)
    <3>1. disk[o.ino] \in Seq(Nat)
      BY <1>1, TypeFacts
    <3>2. o.does = "append" => n = Len(disk[o.ino]) + 1
      OBVIOUS
    <3> HIDE DEF n
    <3> QED  BY <1>1, <1>2, <3>1, <3>2, Overwrites
  <2> HIDE DEF new, n
  <2>2. disk'[o.ino] = new /\ \A j \in Inodes \ {o.ino} : disk'[j] = disk[j]
    BY <1>1, TypeFacts
  <2>3. Removed(o) /\ Stays(o) /\ Keeps(o) /\ Fills(o)
    BY <1>4 DEF ChangesInv, TextsInv
  <2>4. \A f \in Files : dir[<<f, 0>>] \in {None} \cup Inodes
    BY NamesAre, TypeFacts
  <2>5. \A f \in Files : f # o.file => Content(f)' = Content(f)
    BY <1>1, <2>2, <2>3, <2>4, ContentStays DEF Fills
  <2>6. \A m \in due : m[2] \in Marks(Content(m[1]))'
    <3> SUFFICES ASSUME NEW m \in due
                 PROVE  m[2] \in Marks(Content(m[1]))'
      OBVIOUS
    <3>1. m[1] \in Files /\ m[2] \in Marks(Content(m[1]))
      BY <1>4, StickFacts
    <3>2. CASE Content(m[1])' = Content(m[1])
      BY <3>1, <3>2 DEF Marks
    <3>3. CASE Content(m[1])' # Content(m[1])
      <4>1. m[1] = o.file
        BY <2>5, <3>1, <3>3
      <4>2. o.does = "append"
        BY <1>1, <2>3, <4>1 DEF Removed
      <4>3. dir[<<m[1], 0>>] = o.ino
        BY <1>1, <2>2, <2>4, <3>1, <3>3, ContentStays
      <4>4. Content(m[1]) = disk[o.ino] /\ Content(m[1])' = new
        BY <1>1, <2>2, <4>3, InodesAre DEF Content
      <4> QED  BY <2>1, <3>1, <4>2, <4>4 DEF Marks
    <3> QED  BY <3>2, <3>3
  <2>7. ~o.met => \A f \in Files : f = o.file => o.k \in Marks(Content(f))'
    <3> SUFFICES ASSUME ~o.met, NEW f \in Files, f = o.file
                 PROVE  o.k \in Marks(Content(f))'
      OBVIOUS
    <3>1. dir[<<f, 0>>] = o.ino
      BY <1>1, <2>3 DEF Stays, Itself
    <3>2. Content(f)' = new
      BY <1>1, <2>2, <3>1, InodesAre DEF Content
    <3> QED  BY <2>1, <3>2 DEF Marks
  <2>8. ChangesStick'
    <3> SUFFICES ASSUME NEW m \in due'
                 PROVE  (m[2] \in Marks(Content(m[1])))'
      BY DEF ChangesStick
    <3>1. m \in due \/ (last /\ ~o.met /\ m = <<o.file, o.k>>)
      BY <1>1
    <3>2. CASE m \in due
      BY <2>6, <3>2
    <3>3. CASE last /\ ~o.met /\ m = <<o.file, o.k>>
      <4>1. m[1] = o.file /\ m[2] = o.k /\ m[1] \in Files
        BY <1>2, <3>3
      <4>2. o.k \in Marks(Content(m[1]))'
        BY <2>7, <3>3, <4>1
      <4> QED  BY <4>1, <4>2 DEF Marks
    <3> QED  BY <3>1, <3>2, <3>3
  <2>9. ASSUME NEW q \in Slots \ {r}
        PROVE  Keeps(op[q])' /\ Fills(op[q])' /\ Copied(op[q])'
    <3>1. Alike(op'[q], op[q])
      BY <1>1 DEF Turns, Ends, Others
    <3>2. Keeps(op[q]) /\ Fills(op[q]) /\ Copied(op[q]) /\ op[q].ino \in {None} \cup Inodes
      BY <1>4, OperationOf, OperationFields DEF TextsInv
    <3>3. Preparing(op[q]) => disk'[op[q].ino] = disk[op[q].ino]
      <4>1. Preparing(op[q]) => op[q].ino # o.ino /\ op[q].ino # None
        BY <1>4 DEF TempsApart, Apart, Shapes, Shape, Preparing
      <4> QED  BY <2>2, <3>2, <4>1
    <3>4. CASE op[q].at \in {"temp", "put", "rename"}
      <4>1. op[q].does = "edit" /\ op[q].does \in Changes /\ o.does \in Changes
        BY <1>1, <3>4 DEF Shapes, Shape, Changes
      <4>2. \A m \in due' : m \in due \/ m[1] # op[q].file
        BY <1>1, <4>1 DEF ChangesInv, Met, Together
      <4> QED  BY <1>1, <3>1, <3>2, <3>3, <4>2, TextsGo
    <3>5. CASE op[q].at = "fill"
      <4>1. op'[q].at = "fill" /\ op'[q].file = op[q].file /\ op'[q].ino = op[q].ino
        BY <3>1, <3>5 DEF Alike
      <4> QED  BY <1>1, <3>2, <3>5, <4>1 DEF Keeps, Fills, Copied, Preparing
    <3>6. CASE op[q].at \notin {"fill", "temp", "put", "rename"}
      BY <3>1, <3>6, TextsElsewhere DEF Alike
    <3> QED  BY <3>4, <3>5, <3>6
  <2>10. Keeps(op[r])' /\ Fills(op[r])' /\ Copied(op[r])'
    <3>1. CASE last
      BY <1>1, <3>1, FreeOperation, TextsElsewhere DEF Ends
    <3>2. CASE ~last
      <4>1. op'[r].at = "fill" /\ op'[r].file = o.file /\ op'[r].ino = o.ino
        BY <1>1, <3>2 DEF Turns
      <4> QED  BY <1>1, <2>3, <4>1 DEF Keeps, Fills, Copied, Preparing
    <3> QED  BY <3>1, <3>2
  <2> QED  BY <2>8, <2>9, <2>10 DEF TextsInv
<1> QED  BY <1>3, <1>4

(* The new text of an edit has what is due in the file but for the mark    *)
(* that it replaces, which is due no more.                                 *)
LEMMA ReadToEditTexts ==
    ASSUME Typed, Shapes, ChangesInv, TextsInv, ChangesStick,
           NEW r \in Slots, NEW all \in BOOLEAN, ReadToEdit(r, all)
    PROVE  TextsInv' /\ ChangesStick'
<1>1. UNCHANGED <<dir, disk, due, clashed>> /\ op[r].does = "edit"
  BY ReadToEditMoves
<1>2. CASE GivesUp(r)
  BY <1>2, GivesUpTexts
<1>3. CASE ~GivesUp(r)
  <2> DEFINE o    == op[r]
             text == Content(o.file)
             new  == Replaced(text, o.seek, o.k)
  <2>1. PICK stamp \in Stamps : Turns(r, "temp", o.ino, new, o.done, stamp)
    BY <1>3, ReadToEditMoves
  <2>2. CASE clashed
    BY <1>1, <2>2 DEF TextsInv, ChangesStick
  <2>3. CASE ~clashed
    <3>1. ChangesStick'
      BY <1>1, <2>3, SticksOn, ContentStays
    <3>2. \A m \in Marks(text) : m # o.seek => m \in Marks(new)
      <4>1. text \in Seq(Nat) /\ o.k \in Nat
        BY OperationOf, OperationFields, ContentOf
      <4> HIDE DEF text
      <4> QED  BY <4>1, Replaces
    <3>3. \A m \in due : m[1] = o.file => m[2] \in Marks(new)
      <4> SUFFICES ASSUME NEW m \in due, m[1] = o.file
                   PROVE  m[2] \in Marks(new)
        OBVIOUS
      <4>1. m[2] \in Marks(text)
        BY <2>3, StickFacts
      <4>2. m = <<m[1], m[2]>>
        BY TypeFacts
      <4>3. <<o.file, o.seek>> \notin due
        BY <1>1 DEF ChangesInv, Removed
      <4>4. m[2] # o.seek
        BY <4>2, <4>3
      <4> QED  BY <3>2, <4>1, <4>4
    <3> HIDE DEF new
    <3>4. Keeps(op[r])' /\ Fills(op[r])' /\ Copied(op[r])'
      <4>1. op'[r].at = "temp" /\ op'[r].text = new /\ op'[r].file = o.file
        BY <2>1 DEF Turns
      <4> QED  BY <1>1, <3>3, <4>1 DEF Keeps, Fills, Copied, Preparing
    <3>5. ASSUME NEW q \in Slots \ {r}
          PROVE  Keeps(op[q])' /\ Fills(op[q])' /\ Copied(op[q])'
      <4>1. Alike(op'[q], op[q]) /\ Keeps(op[q]) /\ Fills(op[q]) /\ Copied(op[q])
        BY <2>1, <2>3 DEF Turns, Others, TextsInv
      <4> QED  BY <1>1, <4>1, TextsGo
    <3> QED  BY <3>1, <3>4, <3>5 DEF TextsInv
  <2> QED  BY <2>2, <2>3
<1> QED  BY <1>2, <1>3

LEMMA OpenTempTexts ==
    ASSUME Typed, Shapes, NamesInv, TextsInv, ChangesStick, NEW r \in Slots, OpenTemp(r)
    PROVE  TextsInv' /\ ChangesStick'
<1>1. TempsAreOfEdits
  BY DEF NamesInv
<1>2. CASE GivesUp(r)
  BY <1>2, GivesUpTexts
<1>3. CASE ~GivesUp(r)
  <2> DEFINE o == op[r]
             n == Target(o)
  <2>1. PICK i \in Inodes :
          /\ Opens(r, n, i)
          /\ disk' = [disk EXCEPT ![i] = <<>>]
          /\ clashed' = (clashed \/ \E q \in Slots : Preparing(op[q]) /\ Target(op[q]) = n)
          /\ Turns(r, "put", i, o.text, o.done, o.stamp)
    BY <1>1, <1>3, OpenTempMoves
  <2>2. /\ n \in Names /\ (\A f \in Files : <<f, 0>> # n) /\ o.stamp \in Stamps
        /\ o.at = "temp" /\ Shape(o)
    BY <1>1, NamesOf, OpenTempMoves, ShapeOf
  <2>3. CASE clashed'
    BY <2>3 DEF TextsInv, ChangesStick
  <2>4. CASE ~clashed'
    <3>1. ~clashed /\ Fresh(i)
      BY <2>1, <2>2, <2>4, OpenTempFresh
    <3>2. due' = due
      BY <2>1 DEF Opens
    <3> HIDE DEF n
    <3>3. \A f \in Files : dir'[<<f, 0>>] = dir[<<f, 0>>]
      BY <2>1, <2>2, TypeFacts, NamesAre DEF Opens
    <3>4. disk'[i] = <<>> /\ \A j \in Inodes \ {i} : disk'[j] = disk[j]
      BY <2>1, TypeFacts
    <3>5. \A f \in Files : Content(f)' = Content(f)
      <4>1. \A f \in Files : dir[<<f, 0>>] \in {None} \cup Inodes /\ dir[<<f, 0>>] # i
        BY <3>1, NamesAre, TypeFacts DEF Fresh
      <4> QED  BY <3>3, <3>4, <4>1, ContentStays
    <3>6. ChangesStick'
      BY <3>1, <3>2, <3>5, SticksOn
    <3>7. Keeps(op[r])' /\ Fills(op[r])' /\ Copied(op[r])'
      <4>1. Keeps(o) /\ o.done = 0
        BY <2>2, <3>1 DEF TextsInv, Shape
      <4>2. /\ op'[r].at = "put" /\ op'[r].text = o.text /\ op'[r].file = o.file
            /\ op'[r].ino = i /\ op'[r].done = 0
        BY <2>1, <4>1 DEF Turns
      <4>3. Keeps(op[r])'
        BY <2>2, <3>2, <4>1, <4>2 DEF Keeps
      <4>4. Copied(op[r])'
        BY <3>4, <4>2 DEF Copied, Preparing
      <4> QED  BY <4>2, <4>3, <4>4 DEF Fills
    <3>8. ASSUME NEW q \in Slots \ {r}
          PROVE  Keeps(op[q])' /\ Fills(op[q])' /\ Copied(op[q])'
      <4>1. Alike(op'[q], op[q]) /\ Keeps(op[q]) /\ Fills(op[q]) /\ Copied(op[q])
        BY <2>1, <3>1 DEF Turns, Others, TextsInv
      <4>2. Preparing(op[q]) => op[q].ino \in Inodes \ {i}
        <5>1. op[q].ino \in {None} \cup Inodes
          BY OperationOf, OperationFields
        <5> QED  BY <3>1, <5>1 DEF Fresh, Shapes, Shape, Preparing
      <4> QED  BY <3>2, <3>3, <3>4, <4>1, <4>2, TextsGo
    <3> QED  BY <3>6, <3>7, <3>8 DEF TextsInv
  <2> QED  BY <2>3, <2>4
<1> QED  BY <1>2, <1>3

LEMMA WriteTempTexts ==
    ASSUME Typed, Shapes, TempsApart, TextsInv, ChangesStick, NEW r \in Slots, WriteTemp(r)
    PROVE  TextsInv' /\ ChangesStick'
<1> DEFINE o == op[r]
           n == o.done + 1
           place == IF n = Len(o.text) THEN "rename" ELSE "put"
           new == Overwrite(disk[o.ino], n, o.text[n])
<1>1. /\ o.at = "put" /\ o.ino \in Inodes /\ n \in 1..Len(o.text) /\ o.text[n] \in Nat
      /\ disk' = [disk EXCEPT ![o.ino] = new]
      /\ Turns(r, place, o.ino, o.text, n, o.stamp)
      /\ UNCHANGED <<dir, due, clashed>>
  BY WriteTempMoves
<1>2. Preparing(o) /\ o.text \in Seq(Nat) /\ o.done \in Nat
  BY <1>1, OperationOf, OperationFields DEF Preparing
<1>3. CASE clashed
  BY <1>1, <1>3 DEF TextsInv, ChangesStick
<1>4. CASE ~clashed
  <2>1. disk[o.ino] \in Seq(Nat) /\ Apart(r) /\ Keeps(o) /\ Copied(o)
    BY <1>1, <1>4, TypeFacts DEF TempsApart, TextsInv
  <2>2. Len(disk[o.ino]) = o.done /\ \A i \in 1..o.done : disk[o.ino][i] = o.text[i]
    BY <1>2, <2>1 DEF Copied
  <2>3. Len(new) = n /\ \A i \in 1..n : new[i] = o.text[i]
    <3>1. n \in Nat \ {0} /\ n > Len(disk[o.ino])
      BY <1>2, <2>2
    <3>2. Len(new) = n /\ new[n] = o.text[n]
          /\ \A i \in 1..Len(disk[o.ino]) : i # n => new[i] = disk[o.ino][i]
      <4> DEFINE d == disk[o.ino]
                 t == o.text[n]
      <4>1. d \in Seq(Nat) /\ n \in Nat \ {0} /\ t \in Nat /\ n > Len(d)
        BY <1>1, <2>1, <3>1
      <4>2. new = Overwrite(d, n, t)
        OBVIOUS
      <4> HIDE DEF n, d, t, new
      <4>3. /\ Len(new) = IF n > Len(d) THEN n ELSE Len(d)
            /\ new[n] = t
            /\ \A i \in 1..Len(d) : i # n => new[i] = d[i]
        BY <4>1, <4>2, Overwrites
      <4> QED  BY <4>1, <4>3 DEF d, t
    <3>3. \A i \in 1..n : i = n \/ (i \in 1..o.done /\ i # n)
      BY <1>2
    <3> HIDE DEF new, n
    <3> QED  BY <2>2, <3>2, <3>3
  <2> HIDE DEF new, place
  <2>4. disk'[o.ino] = new /\ \A j \in Inodes \ {o.ino} : disk'[j] = disk[j]
    BY <1>1, TypeFacts
  <2>5. \A f \in Files : Content(f)' = Content(f)
    <3>1. \A f \in Files : dir[<<f, 0>>] \in {None} \cup Inodes /\ dir[<<f, 0>>] # o.ino
      BY <1>2, <2>1, NamesAre, TypeFacts DEF Apart
    <3> QED  BY <1>1, <2>4, <3>1, ContentStays
  <2>6. ChangesStick'
    BY <1>1, <1>4, <2>5, SticksOn
  <2>7. Keeps(op[r])' /\ Fills(op[r])' /\ Copied(op[r])'
    <3>1. /\ op'[r].at \in {"put", "rename"} /\ op'[r].text = o.text /\ op'[r].file = o.file
          /\ op'[r].ino = o.ino /\ op'[r].done = n
      BY <1>1 DEF Turns, place
    <3> HIDE DEF n
    <3>2. Keeps(op[r])'
      BY <1>1, <2>1, <3>1 DEF Keeps
    <3>3. Copied(op[r])'
      BY <2>3, <2>4, <3>1 DEF Copied, Preparing
    <3> QED  BY <3>1, <3>2, <3>3 DEF Fills
  <2>8. ASSUME NEW q \in Slots \ {r}
        PROVE  Keeps(op[q])' /\ Fills(op[q])' /\ Copied(op[q])'
    <3>1. Alike(op'[q], op[q]) /\ Keeps(op[q]) /\ Fills(op[q]) /\ Copied(op[q])
      BY <1>1, <1>4 DEF Turns, Others, TextsInv
    <3>2. Preparing(op[q]) => op[q].ino \in Inodes \ {o.ino}
      <4>1. op[q].ino \in {None} \cup Inodes
        BY OperationOf, OperationFields
      <4>2. op[q].ino # o.ino
        BY <1>2, <2>1 DEF Apart
      <4> QED  BY <4>1, <4>2 DEF Shapes, Shape, Preparing
    <3> QED  BY <1>1, <2>4, <3>1, <3>2, TextsGo
  <2> QED  BY <2>6, <2>7, <2>8 DEF TextsInv
<1> QED  BY <1>3, <1>4

(* The temporary file holds all of the new text by then, with the mark of  *)
(* the edit and with whatever is due.                                      *)
LEMMA RenameTexts ==
    ASSUME Typed, Shapes, NamesInv, TempsApart, ChangesInv, TextsInv, ChangesStick,
           NEW r \in Slots, Rename(r)
    PROVE  TextsInv' /\ ChangesStick'
<1> DEFINE o == op[r]
           I == Itself(o)
           T == Target(o)
<1>1. CASE GivesUp(r)
  BY <1>1, GivesUpTexts
<1>2. CASE ~GivesUp(r)
  <2>1. /\ o.at = "rename" /\ o.stamp \in Stamps /\ o.does = "edit"
        /\ dir[T] # None /\ dir' = [dir EXCEPT ![I] = dir[T], ![T] = None]
        /\ Ends(r)
        /\ due' = IF o.met THEN due ELSE due \cup {<<o.file, o.k>>}
        /\ UNCHANGED <<disk, clashed>>
    BY <1>2, RenameMoves
  <2>2. /\ I \in Names /\ T \in Names /\ I # T /\ I = <<o.file, 0>> /\ o.file \in Files
        /\ \A f \in Files : <<f, 0>> # T
    BY <2>1, NamesOf DEF Itself
  <2>3. Preparing(o) /\ Shape(o) /\ o.text \in Seq(Nat) /\ o.ino \in Inodes
    BY <2>1, ShapeOf, OperationFields DEF Preparing, Shape
  <2>4. CASE clashed
    BY <2>1, <2>4 DEF TextsInv, ChangesStick
  <2>5. CASE ~clashed
    <3>1. dir[T] = o.ino
      <4>1. Apart(r) /\ TempsAreOfEdits
        BY <2>5 DEF TempsApart, NamesInv
      <4> QED  BY <2>1, <2>3, <4>1, OwnTemp
    <3> HIDE DEF I, T
    <3>2. \A f \in Files : dir'[<<f, 0>>] = IF f = o.file THEN o.ino ELSE dir[<<f, 0>>]
      BY <2>1, <2>2, <3>1, TypeFacts, NamesAre
    <3>3. \A x \in Marks(o.text) : x \in Marks(disk[o.ino])
      <4>1. /\ Len(disk[o.ino]) = Len(o.text)
            /\ \A i \in 1..Len(o.text) : disk[o.ino][i] = o.text[i]
        BY <2>1, <2>3, <2>5 DEF TextsInv, Copied, Shape
      <4>2. DOMAIN o.text = 1..Len(o.text) /\ DOMAIN disk[o.ino] = 1..Len(disk[o.ino])
        <5>1. disk[o.ino] \in Seq(Nat)
          BY <2>3, TypeFacts
        <5> QED  BY <2>3, <5>1
      <4> QED  BY <4>1, <4>2 DEF Marks
    <3>4. Keeps(o) /\ o.k \in Marks(o.text)
      BY <2>1, <2>3, <2>5 DEF TextsInv, Shape
    <3>5. \A f \in Files : f = o.file => Content(f)' = disk[o.ino]
      BY <2>1, <2>3, <3>2, InodesAre DEF Content
    <3>6. \A f \in Files : f # o.file => Content(f)' = Content(f)
      BY <2>1, <3>2, ContentStays
    <3>7. ChangesStick'
      <4> SUFFICES ASSUME NEW m \in due'
                   PROVE  (m[2] \in Marks(Content(m[1])))'
        BY DEF ChangesStick
      <4>1. m \in due \/ m = <<o.file, o.k>>
        BY <2>1
      <4>2. m[1] \in Files
        BY <2>2, <2>5, <4>1, StickFacts
      <4>3. CASE m[1] = o.file
        <5>1. m[2] \in Marks(o.text)
          BY <2>1, <3>4, <4>1, <4>3 DEF Keeps
        <5>2. Content(m[1])' = disk[o.ino]
          BY <3>5, <4>2, <4>3
        <5> QED  BY <3>3, <5>1, <5>2 DEF Marks
      <4>4. CASE m[1] # o.file
        <5>1. m \in due /\ m[2] \in Marks(Content(m[1]))
          BY <2>5, <4>1, <4>4, StickFacts
        <5>2. Content(m[1])' = Content(m[1])
          BY <3>6, <4>2, <4>4
        <5> QED  BY <5>1, <5>2 DEF Marks
      <4> QED  BY <4>3, <4>4
    <3>8. Keeps(op[r])' /\ Fills(op[r])' /\ Copied(op[r])'
      BY <2>1, FreeOperation, TextsElsewhere DEF Ends
    <3>9. ASSUME NEW q \in Slots \ {r}
          PROVE  Keeps(op[q])' /\ Fills(op[q])' /\ Copied(op[q])'
      <4>1. Alike(op'[q], op[q]) /\ Keeps(op[q]) /\ Fills(op[q]) /\ Copied(op[q])
        BY <2>1, <2>5 DEF Ends, Others, TextsInv
      <4>2. op[q].ino # o.ino
        BY <2>3, <2>5 DEF TempsApart, Apart
      <4>3. CASE op[q].at \in {"temp", "put", "rename"}
        <5>1. op[q].does = "edit" /\ op[q].does \in Changes /\ o.does \in Changes
          BY <2>1, <4>3 DEF Shapes, Shape, Changes
        <5>2. \A m \in due' : m \in due \/ m[1] # op[q].file
          BY <2>1, <5>1 DEF ChangesInv, Met, Together
        <5> QED  BY <2>1, <3>2, <4>1, <4>2, <4>3, <5>2, TextsGo
      <4>4. CASE op[q].at = "fill"
        <5>1. op'[q].at = "fill" /\ op'[q].file = op[q].file /\ op'[q].ino = op[q].ino
          BY <4>1, <4>4 DEF Alike
        <5> QED  BY <3>2, <4>1, <4>2, <4>4, <5>1 DEF Keeps, Fills, Copied, Preparing
      <4>5. CASE op[q].at \notin {"fill", "temp", "put", "rename"}
        BY <4>1, <4>5, TextsElsewhere DEF Alike
      <4> QED  BY <4>3, <4>4, <4>5
    <3> QED  BY <3>7, <3>8, <3>9 DEF TextsInv
  <2> QED  BY <2>4, <2>5
<1> QED  BY <1>1, <1>2

LEMMA CommandTexts ==
    ASSUME Typed, Shapes, TextsInv, ChangesStick, CommandRemoves
    PROVE  TextsInv' /\ ChangesStick'
<1>1. /\ \A q \in Slots : Alike(op'[q], op[q])
      /\ dir' = [n \in Names |-> IF n[1] = "g" THEN None ELSE dir[n]]
      /\ due' = {m \in due : m[1] = "f"}
      /\ UNCHANGED <<disk, clashed>>
  BY CommandMoves
<1>2. CASE clashed
  BY <1>1, <1>2 DEF TextsInv, ChangesStick
<1>3. CASE ~clashed
  <2>1. dir'[<<"f", 0>>] = dir[<<"f", 0>>] /\ \A f \in Files : dir'[<<f, 0>>] \in {None, dir[<<f, 0>>]}
    BY <1>1, NamesAre, FilesAre
  <2>2. Content("f")' = Content("f")
    BY <1>1, <2>1, ContentStays
  <2>3. ChangesStick'
    <3> SUFFICES ASSUME NEW m \in due'
                 PROVE  (m[2] \in Marks(Content(m[1])))'
      BY DEF ChangesStick
    <3>1. m \in due /\ m[1] = "f" /\ m[2] \in Marks(Content(m[1]))
      BY <1>1, <1>3, StickFacts
    <3>2. Content(m[1])' = Content(m[1])
      BY <2>2, <3>1
    <3> QED  BY <3>1, <3>2 DEF Marks
  <2>4. ASSUME NEW q \in Slots
        PROVE  Keeps(op[q])' /\ Fills(op[q])' /\ Copied(op[q])'
    <3>1. Alike(op'[q], op[q]) /\ Keeps(op[q]) /\ Fills(op[q]) /\ Copied(op[q])
      BY <1>1, <1>3 DEF TextsInv
    <3>2. op[q].at = "fill" => op[q].ino # None
      BY DEF Shapes, Shape
    <3>3. \A f \in Files : dir'[<<f, 0>>] = dir[<<f, 0>>]
              \/ (op[q].at = "fill" /\ f # op[q].file => dir'[<<f, 0>>] # op[q].ino)
      BY <2>1, <3>2
    <3> QED  BY <1>1, <3>1, <3>3, TextsGo
  <2> QED  BY <2>3, <2>4 DEF TextsInv
<1> QED  BY <1>2, <1>3

-----------------------------------------------------------------------------
(* Walks *)

LEMMA NoneListed == \A n : ~Listed(<<>>, n)
  BY DEF Listed

LEMMA ListedPushed ==
    ASSUME NEW e \in SUBSET Seen, NEW s \in Seq(SUBSET Seen), NEW n
    PROVE  Listed(<<e>> \o s, n) <=> n \in e \/ Listed(s, n)
<1> DEFINE t == <<e>> \o s
<1>1. Len(s) \in Nat /\ DOMAIN s = 1..Len(s)
  OBVIOUS
<1>2. /\ Len(t) = Len(s) + 1 /\ DOMAIN t = 1..(Len(s) + 1)
      /\ t[1] = e
      /\ \A j \in 1..Len(s) : t[j + 1] = s[j]
  OBVIOUS
<1> HIDE DEF t
<1>3. ASSUME NEW j \in DOMAIN t, n \in t[j]
      PROVE  n \in e \/ Listed(s, n)
  <2>1. CASE j = 1
    BY <1>2, <1>3, <2>1
  <2>2. CASE j # 1
    <3>1. j - 1 \in 1..Len(s) /\ t[(j - 1) + 1] = s[j - 1] /\ (j - 1) + 1 = j
      BY <1>1, <1>2, <1>3, <2>2
    <3> QED  BY <1>1, <1>3, <3>1 DEF Listed
  <2> QED  BY <2>1, <2>2
<1>4. n \in e => Listed(t, n)
  BY <1>1, <1>2 DEF Listed
<1>5. ASSUME NEW j \in DOMAIN s, n \in s[j]
      PROVE  Listed(t, n)
  <2>1. j + 1 \in DOMAIN t /\ t[j + 1] = s[j]
    BY <1>1, <1>2
  <2> QED  BY <1>5, <2>1 DEF Listed
<1>6. Listed(t, n) <=> n \in e \/ Listed(s, n)
  BY <1>3, <1>4, <1>5 DEF Listed
<1> QED  BY <1>6 DEF t

LEMMA ListedPopped ==
    ASSUME NEW s \in Seq(SUBSET Seen), s # <<>>, NEW n
    PROVE  Listed(s, n) <=> n \in Head(s) \/ Listed(Tail(s), n)
<1>1. Head(s) \in SUBSET Seen /\ Tail(s) \in Seq(SUBSET Seen) /\ s = <<Head(s)>> \o Tail(s)
  OBVIOUS
<1> DEFINE e == Head(s)
           t == Tail(s)
<1>2. e \in SUBSET Seen /\ t \in Seq(SUBSET Seen) /\ s = <<e>> \o t
  BY <1>1
<1> HIDE DEF e, t
<1>3. Listed(s, n) <=> n \in e \/ Listed(t, n)
  BY <1>2, ListedPushed
<1> QED  BY <1>3 DEF e, t

LEMMA WalkSees ==
    ASSUME NEW q \in Slots, Walked(op[q]), Alike(op'[q], op[q]),
           op'[q].stayed = op[q].stayed \cap Tree(dir, sub)',
           op'[q].ever = op[q].ever \cup Tree(dir, sub)'
    PROVE  Walked(op[q])'
<1>1. /\ op'[q].at = op[q].at /\ op'[q].does = op[q].does /\ op'[q].todo = op[q].todo
      /\ op'[q].found = op[q].found
  BY DEF Alike
<1>2. Full(op[q])' = Full(op[q])
  BY <1>1 DEF Full
<1>3. \A n : Reached(op[q], n)' = Reached(op[q], n)
  BY <1>1 DEF Reached, Ahead, Listed
<1> QED  BY <1>1, <1>2, <1>3 DEF Walked

LEMMA WalkStays ==
    ASSUME NEW q \in Slots, Walked(op[q]), op'[q] = op[q], UNCHANGED <<dir, sub>>
    PROVE  Walked(op[q])'
<1>1. Tree(dir, sub)' = Tree(dir, sub)
  BY DEF Tree, Entries
<1>2. Full(op[q])' = Full(op[q])
  BY DEF Full
<1>3. \A n : Reached(op[q], n)' = Reached(op[q], n)
  BY DEF Reached, Ahead, Listed
<1> QED  BY <1>1, <1>2, <1>3 DEF Walked

LEMMA WalksWithChange ==
    ASSUME WalksInv, WalksAreComplete, NEW r \in Slots, WalksGo(r), Others(r),
           op'[r].does \notin Walks, told' = told
    PROVE  WalksInv' /\ WalksAreComplete'
<1>1. ASSUME NEW q \in Slots, op'[q].does \in Walks
      PROVE  Walked(op[q])'
  <2>1. q # r /\ Alike(op'[q], op[q])
    BY <1>1 DEF Others
  <2>2. op[q].does \in Walks /\ Walked(op[q])
    BY <1>1, <2>1 DEF Alike, WalksInv
  <2>3. CASE WalksSee(r)
    BY <2>1, <2>2, <2>3, WalkSees DEF WalksSee
  <2>4. CASE ~WalksSee(r)
    BY <2>1, <2>2, <2>4, WalkStays DEF WalksGo
  <2> QED  BY <2>3, <2>4
<1> QED  BY <1>1 DEF WalksInv, WalksAreComplete

LEMMA ChangeWalks ==
    ASSUME Typed, Shapes, TempsAreOfEdits, WalksInv, WalksAreComplete, NEW r \in Slots,
           \/ Mkdir(r) \/ OpenToWrite(r) \/ Fill(r) \/ (\E all \in BOOLEAN : ReadToEdit(r, all))
           \/ OpenTemp(r) \/ WriteTemp(r) \/ Rename(r)
    PROVE  WalksInv' /\ WalksAreComplete'
<1>1. GivesUp(r) /\ told' = told => WalksInv' /\ WalksAreComplete'
  BY WalksWithChange, FreeOperation, DoingsAre DEF GivesUp, Ends
<1>2. CASE Mkdir(r)
  <2>1. WalksSee(r) /\ Others(r) /\ op'[r].does \notin Walks /\ told' = told
    BY <1>2, MkdirMoves DEF Turns, Walks
  <2> QED  BY <2>1, WalksWithChange DEF WalksGo
<1>3. CASE OpenToWrite(r)
  <2>1. CASE GivesUp(r) /\ told' = told
    BY <1>1, <2>1
  <2>2. CASE ~(GivesUp(r) /\ told' = told)
    <3>1. PICK i \in Inodes : /\ Opens(r, Itself(op[r]), i)
                              /\ Turns(r, "fill", i, op[r].text, op[r].done, op[r].stamp)
                              /\ WalksSee(r)
      BY <1>3, <2>2, OpenToWriteMoves
    <3>2. op[r].does \notin Walks
      BY <1>3, OpenToWriteMoves DEF Walks
    <3> QED  BY <3>1, <3>2, WalksWithChange DEF WalksGo, Turns, Opens
  <2> QED  BY <2>1, <2>2
<1>4. CASE Fill(r)
  <2>1. /\ UNCHANGED <<dir, sub, told>> /\ op[r].does \notin Walks
        /\ \A q \in Slots \ {r} : op'[q] = op[q]
        /\ Ends(r) \/ (Others(r) /\ op'[r].does = op[r].does)
    BY <1>4, FillMoves DEF Turns, Walks
  <2> QED  BY <2>1, WalksWithChange, FreeOperation, DoingsAre DEF WalksGo, Ends
<1>5. CASE \E all \in BOOLEAN : ReadToEdit(r, all)
  <2>1. /\ UNCHANGED <<dir, sub, told>> /\ op[r].does \notin Walks
        /\ \A q \in Slots \ {r} : op'[q] = op[q]
        /\ Ends(r) \/ (Others(r) /\ op'[r].does = op[r].does)
    BY <1>5, ReadToEditMoves DEF Turns, Walks, GivesUp
  <2> QED  BY <2>1, WalksWithChange, FreeOperation, DoingsAre DEF WalksGo, Ends
<1>6. CASE OpenTemp(r)
  <2>1. CASE GivesUp(r) /\ told' = told
    BY <1>1, <2>1
  <2>2. CASE ~(GivesUp(r) /\ told' = told)
    <3>1. PICK i \in Inodes : /\ Opens(r, Target(op[r]), i)
                              /\ Turns(r, "put", i, op[r].text, op[r].done, op[r].stamp)
                              /\ WalksSee(r)
      BY <1>6, <2>2, OpenTempMoves
    <3>2. op[r].does \notin Walks
      BY <1>6, OpenTempMoves DEF Walks
    <3> QED  BY <3>1, <3>2, WalksWithChange DEF WalksGo, Turns, Opens
  <2> QED  BY <2>1, <2>2
<1>7. CASE WriteTemp(r)
  <2>1. /\ UNCHANGED <<dir, sub, told>> /\ op[r].does \notin Walks
        /\ \A q \in Slots \ {r} : op'[q] = op[q]
        /\ Others(r) /\ op'[r].does = op[r].does
    BY <1>7, WriteTempMoves DEF Turns, Walks
  <2> QED  BY <2>1, WalksWithChange DEF WalksGo
<1>8. CASE Rename(r)
  <2>1. CASE GivesUp(r) /\ told' = told
    BY <1>1, <2>1
  <2>2. CASE ~(GivesUp(r) /\ told' = told)
    BY <1>8, <2>2, RenameMoves, WalksWithChange, FreeOperation, DoingsAre DEF WalksGo, Ends
  <2> QED  BY <2>1, <2>2
<1> QED  BY <1>2, <1>3, <1>4, <1>5, <1>6, <1>7, <1>8

LEMMA BegunWalks ==
    ASSUME WalksInv, NEW r \in Slots, NEW does \in Changes \cup Walks, NEW k, NEW f, NEW x,
           Begun(r, does, FirstPlace(does), k, f, x), UNCHANGED <<dir, sub>>
    PROVE  WalksInv'
<1>1. ASSUME NEW q \in Slots \ {r}, op'[q].does \in Walks
      PROVE  Walked(op[q])'
  <2>1. op[q].does \in Walks
    BY <1>1 DEF Begun, Alike
  <2>2. op'[q] = op[q] /\ Walked(op[q])
    BY <2>1 DEF Begun, WalksInv
  <2> QED  BY <2>2, WalkStays
<1>2. ASSUME op'[r].does \in Walks
      PROVE  Walked(op[r])'
  <2>1. /\ op'[r].stayed = Tree(dir, sub) /\ op'[r].ever = Tree(dir, sub)
        /\ op'[r].at = "open" /\ op'[r].todo = <<>> /\ op'[r].found = {}
    BY <1>2 DEF Begun, FirstPlace, Walks
  <2>2. Tree(dir, sub)' = Tree(dir, sub)
    BY DEF Tree, Entries
  <2> QED  BY <2>1, <2>2, NoneListed DEF Walked
<1> QED  BY <1>1, <1>2 DEF WalksInv

LEMMA AskWalks ==
    ASSUME Typed, Shapes, WalksInv, NEW r \in Slots, NEW does \in Changes \cup Walks,
           NEW f \in Files, NEW x \in Nat, Ask(r, does, f, x)
    PROVE  WalksInv' /\ WalksAreComplete'
<1>1. /\ Begun(r, does, FirstPlace(does), calls + 1, f, x) /\ UNCHANGED <<dir, sub>>
      /\ told' = Answer(Free, FALSE)
  BY AskMoves
<1>2. told'.ok = FALSE
  BY <1>1 DEF Answer
<1> QED  BY <1>1, <1>2, BegunWalks DEF WalksAreComplete

LEMMA SendAgainWalks ==
    ASSUME Typed, Shapes, WalksInv, WalksAreComplete, NEW r \in Slots, NEW b \in Requests,
           SendAgain(r, b)
    PROVE  WalksInv' /\ WalksAreComplete'
<1>1. /\ b.does \in Changes \cup Walks /\ UNCHANGED <<dir, sub, told>>
      /\ Begun(r, b.does, FirstPlace(b.does), b.k, b.file, b.seek)
  BY SendAgainMoves
<1>2. WalksInv'
  BY <1>1, BegunWalks
<1> QED  BY <1>1, <1>2 DEF WalksAreComplete

LEMMA CommandWalks ==
    ASSUME Typed, WalksInv, WalksAreComplete, CommandRemoves
    PROVE  WalksInv' /\ WalksAreComplete'
<1>1. /\ \A q \in Slots :
           /\ Alike(op'[q], op[q])
           /\ op[q].does \in Walks =>
                /\ op'[q].stayed = op[q].stayed \cap Tree(dir, sub)'
                /\ op'[q].ever = op[q].ever \cup Tree(dir, sub)'
      /\ told' = told
  BY CommandMoves
<1>2. ASSUME NEW q \in Slots, op'[q].does \in Walks
      PROVE  Walked(op[q])'
  <2>1. op[q].does \in Walks /\ Walked(op[q])
    BY <1>1, <1>2 DEF Alike, WalksInv
  <2> QED  BY <1>1, <2>1, WalkSees
<1> QED  BY <1>1, <1>2 DEF WalksInv, WalksAreComplete

(* A walk that goes on leaves the tree as it is, so that what it is to     *)
(* have reached and what it may list can be told from its own fields.      *)
LEMMA WalksOnWalks ==
    ASSUME WalksInv, WalksAreComplete, NEW r \in Slots, NEW todo, NEW found,
           op[r].does \in Walks, WalksOn(r, todo, found), UNCHANGED <<dir, sub, told>>,
           found \subseteq op[r].ever,
           \A n \in Seen : Listed(todo, n) => n \in op[r].ever,
           ~(Cardinality(found) >= MaxResults) /\ op[r].does # "grep" =>
               \A n \in op[r].stayed :
                   \/ n \in found
                   \/ n = Sub /\ op[r].does = "find"
                   \/ Listed(todo, n)
                   \/ n[1] = "g" /\ Listed(todo, Sub)
    PROVE  WalksInv' /\ WalksAreComplete'
<1>1. Tree(dir, sub)' = Tree(dir, sub)
  BY DEF Tree, Entries
<1>2. /\ op'[r].does = op[r].does /\ op'[r].at = "walk" /\ op'[r].todo = todo
      /\ op'[r].found = found /\ op'[r].stayed = op[r].stayed /\ op'[r].ever = op[r].ever
      /\ \A q \in Slots \ {r} : op'[q] = op[q]
  BY DEF WalksOn
<1>3. Walked(op[r])'
  <2>1. Walked(op[r])
    BY DEF WalksInv
  <2>2. op'[r].stayed \subseteq Tree(dir, sub)' /\ Tree(dir, sub)' \subseteq op'[r].ever
    BY <1>1, <1>2, <2>1 DEF Walked
  <2>3. Full(op[r])' <=> Cardinality(found) >= MaxResults
    BY <1>2 DEF Full
  <2>4. \A n : Reached(op[r], n)' <=>
          \/ n \in found
          \/ n = Sub /\ op[r].does = "find"
          \/ Listed(todo, n)
          \/ n[1] = "g" /\ Listed(todo, Sub)
    BY <1>2 DEF Reached, Ahead, Listed
  <2>5. \A n : Listed(op[r].todo, n)' <=> Listed(todo, n)
    BY <1>2 DEF Listed
  <2>6. (op[r].at = "walk" /\ ~Full(op[r]) /\ op[r].does # "grep")' =>
          \A n \in op'[r].stayed : Reached(op[r], n)'
    BY <1>2, <2>3, <2>4
  <2> QED  BY <1>2, <2>2, <2>5, <2>6 DEF Walked
<1>4. ASSUME NEW q \in Slots \ {r}, op'[q].does \in Walks
      PROVE  Walked(op[q])'
  <2>1. op'[q] = op[q] /\ Walked(op[q])
    BY <1>2, <1>4 DEF WalksInv
  <2> QED  BY <2>1, WalkStays
<1> QED  BY <1>3, <1>4 DEF WalksInv, WalksAreComplete

(* A walk that ends leaves the others where they are.                      *)
LEMMA WalkEndsWalks ==
    ASSUME WalksInv, NEW r \in Slots, Ends(r), UNCHANGED <<dir, sub>>,
           \A q \in Slots \ {r} : op'[q] = op[q]
    PROVE  WalksInv'
<1>1. op'[r].does \notin Walks
  BY FreeOperation, DoingsAre DEF Ends
<1>2. ASSUME NEW q \in Slots \ {r}, op'[q].does \in Walks
      PROVE  Walked(op[q])'
  <2>1. op'[q] = op[q] /\ Walked(op[q])
    BY <1>2 DEF WalksInv
  <2> QED  BY <2>1, WalkStays
<1> QED  BY <1>1, <1>2 DEF WalksInv

(* The tree is the entries at the top and, while there is a directory,     *)
(* those in it; those at the top are f, its temporary files and Sub.       *)
LEMMA TreeIs ==
    /\ \A n \in Tree(dir, sub) :
          n \in Entries(dir, sub, "top") \/ (n[1] = "g" /\ Sub \in Entries(dir, sub, "top"))
    /\ Entries(dir, sub, "top") \subseteq Tree(dir, sub)
    /\ \A n \in Tree(dir, sub) : n[1] = "g" => n \in Entries(dir, sub, "sub")
    /\ sub => Entries(dir, sub, "sub") \subseteq Tree(dir, sub)
    /\ ~sub /\ Housed => Entries(dir, sub, "sub") = {}
<1>1. "top" # "sub"
  OBVIOUS
<1>2. Entries(dir, sub, "top") =
        {n \in Names : dir[n] # None /\ n[1] = "f"} \cup (IF sub THEN {Sub} ELSE {})
  BY DEF Entries
<1>3. Entries(dir, sub, "sub") = {n \in Names : dir[n] # None /\ n[1] = "g"}
  BY DEF Entries
<1>4. Sub[1] # "g" /\ "f" # "g"
  BY NamesAre
<1> QED  BY <1>2, <1>3, <1>4 DEF Tree, Housed

LEMMA OpenDirectoryWalks ==
    ASSUME Typed, Shapes, WalksInv, WalksAreComplete, NEW r \in Slots, OpenDirectory(r)
    PROVE  WalksInv' /\ WalksAreComplete'
<1> DEFINE top  == Entries(dir, sub, "top")
           todo == <<top>>
<1>1. /\ op[r].at = "open" /\ op[r].does \in Walks
      /\ WalksOn(r, todo, op[r].found)
      /\ UNCHANGED <<dir, sub, told>>
  BY OpenDirectoryMoves
<1>2. /\ op[r].stayed \subseteq Tree(dir, sub) /\ Tree(dir, sub) \subseteq op[r].ever
      /\ op[r].found \subseteq op[r].ever
  BY <1>1 DEF WalksInv, Walked
<1>3. \A n : Listed(todo, n) <=> n \in top
  <2> HIDE DEF top
  <2>1. DOMAIN todo = {1} /\ todo[1] = top
    OBVIOUS
  <2> QED  BY <2>1 DEF Listed
<1>4. top \subseteq Tree(dir, sub) /\ \A n \in Tree(dir, sub) : n \in top \/ (n[1] = "g" /\ Sub \in top)
  BY TreeIs
<1> HIDE DEF top, todo
<1> QED  BY <1>1, <1>2, <1>3, <1>4, WalksOnWalks

LEMMA LeaveWalks ==
    ASSUME Typed, Shapes, WalksInv, WalksAreComplete, NEW r \in Slots, Leave(r)
    PROVE  WalksInv' /\ WalksAreComplete'
<1> DEFINE o    == op[r]
           todo == Tail(o.todo)
<1>1. /\ o.at = "walk" /\ o.does \in Walks /\ o.todo # <<>>
      /\ Head(o.todo) = {} \/ Full(o)
      /\ WalksOn(r, todo, o.found)
      /\ UNCHANGED <<dir, sub, told>>
  BY LeaveMoves
<1>2. Walked(o) /\ o.todo \in Seq(SUBSET Seen)
  BY <1>1, OperationOf, OperationFields DEF WalksInv
<1>3. \A n : Listed(o.todo, n) <=> n \in Head(o.todo) \/ Listed(todo, n)
  BY <1>1, <1>2, ListedPopped
<1>4. Full(o) <=> Cardinality(o.found) >= MaxResults
  BY DEF Full
<1>5. o.found \subseteq o.ever /\ \A n \in Seen : Listed(todo, n) => n \in o.ever
  BY <1>2, <1>3 DEF Walked
<1>6. ASSUME ~(Cardinality(o.found) >= MaxResults), o.does # "grep", NEW n \in o.stayed
      PROVE  \/ n \in o.found
             \/ n = Sub /\ o.does = "find"
             \/ Listed(todo, n)
             \/ n[1] = "g" /\ Listed(todo, Sub)
  <2>1. Reached(o, n)
    BY <1>1, <1>2, <1>4, <1>6 DEF Walked
  <2>2. Head(o.todo) = {}
    BY <1>1, <1>4, <1>6
  <2> QED  BY <1>3, <2>1, <2>2 DEF Reached, Ahead
<1> HIDE DEF todo
<1> QED  BY <1>1, <1>5, <1>6, WalksOnWalks

(* When there is nothing before it a walk has found all that stayed.       *)
LEMMA AnswerWalkWalks ==
    ASSUME Typed, Shapes, WalksInv, NEW r \in Slots, AnswerWalk(r)
    PROVE  WalksInv' /\ WalksAreComplete'
<1> DEFINE o == op[r]
<1>1. /\ o.at = "walk" /\ o.does \in Walks /\ o.todo = <<>>
      /\ Ends(r) /\ (\A q \in Slots \ {r} : op'[q] = op[q])
      /\ told' = Answer(o, TRUE)
      /\ UNCHANGED <<dir, sub>>
  BY AnswerWalkMoves
<1>2. Walked(o)
  BY <1>1 DEF WalksInv
<1>3. /\ told'.full = (Cardinality(o.found) >= MaxResults) /\ told'.does = o.does
      /\ told'.found = o.found /\ told'.stayed = o.stayed /\ told'.ever = o.ever
  BY <1>1 DEF Answer
<1>4. ASSUME ~Full(o), o.does # "grep", NEW n \in o.stayed
      PROVE  n \in o.found \/ (n = Sub /\ o.does = "find")
  <2>1. Reached(o, n)
    BY <1>1, <1>2, <1>4 DEF Walked
  <2> QED  BY <1>1, <2>1, NoneListed DEF Reached, Ahead
<1>5. WalksAreComplete'
  <2>1. o.found \subseteq o.ever
    BY <1>2 DEF Walked
  <2>2. ~told'.full => ~Full(o)
    BY <1>3 DEF Full
  <2>3. ~told'.full /\ told'.does = "ls" => told'.stayed \subseteq told'.found
    BY <1>3, <1>4, <2>2
  <2>4. ~told'.full /\ told'.does = "find" => told'.stayed \ {Sub} \subseteq told'.found
    BY <1>3, <1>4, <2>2
  <2> QED  BY <1>3, <2>1, <2>3, <2>4 DEF WalksAreComplete
<1> QED  BY <1>1, <1>5, WalkEndsWalks

(* A visited entry is found when it is of the kind the walk is for, and    *)
(* the directory is exchanged for what is in it.                           *)
LEMMA VisitWalks ==
    ASSUME Typed, Shapes, Housed, WalksInv, WalksAreComplete, NEW r \in Slots, Visit(r)
    PROVE  WalksInv' /\ WalksAreComplete'
<1> DEFINE o        == op[r]
           top      == Head(o.todo)
           rest     == Tail(o.todo)
           in       == Entries(dir, sub, "sub")
           left(n)  == <<top \ {n}>> \o rest
           found(n) == IF Wanted(o, n) THEN o.found \cup {n} ELSE o.found
<1>1. /\ o.at = "walk" /\ o.does \in Walks /\ o.todo # <<>> /\ ~Full(o)
      /\ UNCHANGED <<dir, sub>>
  BY VisitMoves
<1>2. PICK n \in top :
        \/ n # Sub /\ WalksOn(r, left(n), found(n)) /\ UNCHANGED told
        \/ /\ n = Sub /\ (sub \/ o.does = "grep")
           /\ WalksOn(r, <<in>> \o left(n), found(n))
           /\ UNCHANGED told
        \/ /\ Ends(r) /\ \A q \in Slots \ {r} : op'[q] = op[q]
           /\ \E p \in Operations : told' = Answer(p, FALSE)
  BY VisitMoves
<1>3. Walked(o) /\ o.todo \in Seq(SUBSET Seen)
  BY <1>1, OperationOf, OperationFields DEF WalksInv
<1>4. top \in SUBSET Seen /\ rest \in Seq(SUBSET Seen) /\ top \ {n} \in SUBSET Seen
  BY <1>1, <1>3
<1>5. left(n) \in Seq(SUBSET Seen)
  <2>1. <<top \ {n}>> \in Seq(SUBSET Seen)
    BY <1>4
  <2> QED  BY <1>4, <2>1
<1>6. \A x : Listed(left(n), x) <=> x \in top \ {n} \/ Listed(rest, x)
  <2> HIDE DEF top, rest
  <2> QED  BY <1>4, ListedPushed
<1>7. \A x : Listed(o.todo, x) <=> x \in top \/ Listed(rest, x)
  BY <1>1, <1>3, ListedPopped
<1>8. \A x : Listed(<<in>> \o left(n), x) <=> x \in in \/ Listed(left(n), x)
  <2>1. in \in SUBSET Seen
    BY TreeSeen
  <2> HIDE DEF in, left
  <2> QED  BY <1>5, <2>1, ListedPushed
<1>9. n \in o.ever /\ found(n) \subseteq o.ever
  BY <1>3, <1>4, <1>7 DEF Walked
<1>10. o.found \subseteq found(n)
  OBVIOUS
<1>11. \A x \in Seen : Listed(left(n), x) => x \in o.ever
  BY <1>3, <1>6, <1>7 DEF Walked
<1>12. ASSUME o.does # "grep", NEW x \in o.stayed
       PROVE  \/ x \in o.found
              \/ x = Sub /\ o.does = "find"
              \/ x = n
              \/ Listed(left(n), x)
              \/ x[1] = "g" /\ (n = Sub \/ Listed(left(n), Sub))
  <2>1. Reached(o, x)
    BY <1>1, <1>3, <1>12 DEF Walked
  <2> QED  BY <1>6, <1>7, <2>1 DEF Reached, Ahead
<1>13. /\ o.does = "ls" => n \in found(n)
       /\ o.does = "find" /\ n # Sub => n \in found(n)
  BY DEF Wanted
<1>14. o.does # "grep" => o.does \in {"ls", "find"}
  BY <1>1 DEF Walks
<1>15. CASE n # Sub /\ WalksOn(r, left(n), found(n)) /\ UNCHANGED told
  <2>1. ASSUME o.does # "grep", NEW x \in o.stayed
        PROVE  \/ x \in found(n)
               \/ x = Sub /\ o.does = "find"
               \/ Listed(left(n), x)
               \/ x[1] = "g" /\ Listed(left(n), Sub)
    <3> HIDE DEF found, left
    <3> QED  BY <1>10, <1>12, <1>13, <1>14, <1>15, <2>1
  <2> HIDE DEF found, left
  <2> QED  BY <1>1, <1>9, <1>11, <1>15, <2>1, WalksOnWalks
<1>16. CASE /\ n = Sub /\ (sub \/ o.does = "grep")
            /\ WalksOn(r, <<in>> \o left(n), found(n))
            /\ UNCHANGED told
  <2> DEFINE all == <<in>> \o left(n)
  <2>1. in \subseteq o.ever
    BY <1>3, <1>16, TreeIs DEF Walked
  <2>2. \A x \in Seen : Listed(all, x) => x \in o.ever
    BY <1>8, <1>11, <2>1
  <2>3. \A x \in o.stayed : x[1] = "g" => x \in in
    BY <1>3, TreeIs DEF Walked
  <2>4. ASSUME o.does # "grep", NEW x \in o.stayed
        PROVE  \/ x \in found(n)
               \/ x = Sub /\ o.does = "find"
               \/ Listed(all, x)
               \/ x[1] = "g" /\ Listed(all, Sub)
    <3>1. x[1] = "g" => Listed(all, x)
      BY <1>8, <2>3, <2>4
    <3>2. Listed(left(n), x) => Listed(all, x)
      BY <1>8
    <3> HIDE DEF found, left, all, in
    <3> QED  BY <1>10, <1>12, <1>13, <1>14, <1>16, <2>4, <3>1, <3>2
  <2>5. WalksOn(r, all, found(n)) /\ UNCHANGED told
    BY <1>16
  <2> HIDE DEF found, all
  <2> QED  BY <1>1, <1>9, <2>2, <2>4, <2>5, WalksOnWalks
<1>17. CASE /\ Ends(r) /\ \A q \in Slots \ {r} : op'[q] = op[q]
            /\ \E p \in Operations : told' = Answer(p, FALSE)
  <2>1. told'.ok = FALSE
    BY <1>17 DEF Answer
  <2> QED  BY <1>1, <1>17, <2>1, WalkEndsWalks DEF WalksAreComplete
<1> HIDE DEF found, left, in
<1> QED  BY <1>2, <1>15, <1>16, <1>17

-----------------------------------------------------------------------------
(* The initial states *)

LEMMA InitFacts ==
    ASSUME Init
    PROVE  /\ sub \in BOOLEAN /\ 1 \in Inodes /\ 2 \in Inodes /\ Old \in Nat
           /\ \A n \in Names : dir[n] = IF n = <<"f", 0>> THEN 1
                                        ELSE IF sub /\ n = <<"g", 0>> THEN 2 ELSE None
           /\ dir \in [Names -> {None} \cup Inodes]
           /\ disk \in [Inodes -> Seq(Nat)]
           /\ \A i \in Inodes : (\E n \in Names : dir[n] = i) => disk[i] = <<Old, Old>>
           /\ \A q \in Slots : op[q] = Free
           /\ \A m \in due : m[1] \in Files /\ m[2] = Old /\ (m[1] = "g" => sub)
           /\ due \in SUBSET (Files \X Nat)
           /\ told = Answer(Free, FALSE)
<1>1. 1 \in Inodes /\ 2 \in Inodes
  BY SlotsCounted DEF Inodes
<1>2. Old \in Nat
  BY FilesAssumption DEF Old
<1>3. sub \in BOOLEAN
  BY DEF Init
<1>4. /\ \A n \in Names : dir[n] = IF n = <<"f", 0>> THEN 1
                                   ELSE IF sub /\ n = <<"g", 0>> THEN 2 ELSE None
      /\ dir \in [Names -> {None} \cup Inodes]
  <2>1. dir = [n \in Names |-> IF n = <<"f", 0>> THEN 1
                               ELSE IF sub /\ n = <<"g", 0>> THEN 2 ELSE None]
    BY DEF Init
  <2> QED  BY <1>1, <2>1
<1>5. /\ disk \in [Inodes -> Seq(Nat)]
      /\ \A i \in Inodes : (\E n \in Names : dir[n] = i) => disk[i] = <<Old, Old>>
  <2>1. disk = [i \in Inodes |-> IF \E n \in Names : dir[n] = i THEN <<Old, Old>> ELSE <<>>]
    BY DEF Init
  <2>2. <<Old, Old>> \in Seq(Nat)
    BY <1>2
  <2>3. <<>> \in Seq(Nat)
    OBVIOUS
  <2> DEFINE two == <<Old, Old>>
  <2> HIDE DEF two
  <2>4. disk = [i \in Inodes |-> IF \E n \in Names : dir[n] = i THEN two ELSE <<>>]
    BY <2>1 DEF two
  <2>5. two \in Seq(Nat)
    BY <2>2 DEF two
  <2>6. /\ disk \in [Inodes -> Seq(Nat)]
        /\ \A i \in Inodes : (\E n \in Names : dir[n] = i) => disk[i] = two
    BY <2>3, <2>4, <2>5
  <2> QED  BY <2>6 DEF two
<1>6. \A q \in Slots : op[q] = Free
  <2>1. op = [q \in Slots |-> Free]
    BY DEF Init
  <2> QED  BY <2>1
<1>7. \A m \in due : \E f \in Files : m = <<f, Old>> /\ (f = "g" => sub)
  <2>1. due = {<<f, Old>> : f \in IF sub THEN Files ELSE {"f"}}
    BY DEF Init
  <2>2. "f" # "g" /\ "f" \in Files
    BY FilesAre
  <2> QED  BY <2>1, <2>2
<1>8. told = Answer(Free, FALSE)
  BY DEF Init
<1> QED  BY <1>1, <1>2, <1>3, <1>4, <1>5, <1>6, <1>7, <1>8

LEMMA InitPlaces == Init => PlacesInv
<1> SUFFICES ASSUME Init
             PROVE  PlacesInv
  OBVIOUS
<1>1. Typed
  <2>1. op \in [Slots -> Operations]
    <3>1. op = [q \in Slots |-> Free]
      BY DEF Init
    <3> QED  BY <3>1, FreeOperation
  <2>2. told \in Answers
    BY InitFacts, FreeOperation, AnswerTyped
  <2>3. calls = 0 /\ mishaps = 0 /\ clashed = FALSE
    BY DEF Init
  <2>4. calls \in 0..MaxCalls /\ mishaps \in 0..MaxMishaps
    BY <2>3, FilesAssumption
  <2> QED  BY <2>1, <2>2, <2>3, <2>4, InitFacts DEF Typed, Answers
<1>6. Asked
  BY DEF Init, Asked
<1>2. Shapes
  BY InitFacts, FreeOperation DEF Shapes
<1>3. Housed
  <2>1. "f" # "g" /\ <<"f", 0>>[1] = "f"
    OBVIOUS
  <2> QED  BY <2>1, InitFacts DEF Housed
<1>4. NamedOnce
  <2>1. 1 # 2 /\ None # 1 /\ None # 2
    BY DEF None
  <2> QED  BY <2>1, InitFacts DEF NamedOnce
<1>5. TempsAreOfEdits
  <2> SUFFICES ASSUME NEW n \in Files \X Stamps
               PROVE  dir[n] = None
    BY DEF TempsAreOfEdits
  <2>1. n \in Names /\ n # <<"f", 0>> /\ n # <<"g", 0>>
    BY NamesAre, FilesAre
  <2> QED  BY <2>1, InitFacts
<1> QED  BY <1>1, <1>2, <1>3, <1>4, <1>5, <1>6 DEF PlacesInv, NamesInv

LEMMA InitFiles == Init => FilesInv
<1> SUFFICES ASSUME Init
             PROVE  FilesInv
  OBVIOUS
<1>1. TempsApart
  BY InitFacts, FreeOperation DEF TempsApart, Apart, Preparing
<1>2. ChangesInv
  <2>1. \A q \in Slots : op[q].does = "nothing" /\ op[q].at = "free"
    BY InitFacts, FreeOperation
  <2>2. "nothing" \notin Changes
    BY DEF Changes
  <2>3. Met
    BY <2>1, <2>2 DEF Met, Together
  <2> QED  BY <2>1, <2>3 DEF ChangesInv, Removed, Stays
<1>3. TextsInv
  BY InitFacts, FreeOperation DEF TextsInv, Keeps, Fills, Copied, Preparing
<1>4. ChangesStick
  <2> SUFFICES ASSUME NEW m \in due
               PROVE  m[2] \in Marks(Content(m[1]))
    BY DEF ChangesStick
  <2>1. m[1] \in Files /\ m[2] = Old /\ (m[1] = "g" => sub)
    BY InitFacts
  <2>2. \A f \in Files : <<f, 0>> \in Names /\ (f = "f" \/ f = "g")
    BY NamesAre, FilesAre
  <2>3. dir[<<m[1], 0>>] \in {1, 2}
    BY <2>1, <2>2, InitFacts
  <2>4. disk[dir[<<m[1], 0>>]] = <<Old, Old>> /\ dir[<<m[1], 0>>] # None
    BY <2>1, <2>2, <2>3, InitFacts DEF None
  <2>5. Content(m[1]) = <<Old, Old>>
    BY <2>4 DEF Content
  <2>6. Old \in Marks(<<Old, Old>>)
    BY DEF Marks
  <2> QED  BY <2>1, <2>5, <2>6
<1> QED  BY <1>1, <1>2, <1>3, <1>4, InitPlaces DEF FilesInv

LEMMA InitTree == Init => TreeInv
<1> SUFFICES ASSUME Init
             PROVE  TreeInv
  OBVIOUS
<1>1. WalksInv
  <2>1. "nothing" \notin Walks
    BY DEF Walks
  <2> QED  BY <2>1, InitFacts, FreeOperation DEF WalksInv
<1>2. WalksAreComplete
  <2>1. told.ok = FALSE
    BY InitFacts DEF Answer
  <2> QED  BY <2>1 DEF WalksAreComplete
<1> QED  BY <1>1, <1>2, InitPlaces DEF TreeInv

-----------------------------------------------------------------------------
(* Every step *)

(* The calls of Next, with parameters of the types that the lemmas ask.    *)
Calls ==
    \E r \in Slots, does \in Changes \cup Walks, f \in Files, x \in Nat :
        /\ Ask(r, does, f, x)
        /\ mishaps' \in 0..MaxMishaps
        /\ \/ broken' = broken
           \/ /\ does \in Changes
              /\ broken' = broken \cup
                    {[does |-> does, k |-> calls + 1, file |-> f, seek |-> x]}

LEMMA CallsOf ==
    ASSUME Typed, Asked, Next
    PROVE  \/ Calls
           \/ (\E r \in Slots : GoesOn(r)) /\ UNCHANGED broken
           \/ \E r \in Slots, b \in Requests : SendAgain(r, b)
           \/ CommandRemoves /\ UNCHANGED broken
<1>1. Old \in Nat /\ \A does : Sought(does) \subseteq Nat
  <2>1. calls \in Nat
    BY TypeFacts, FilesAssumption
  <2>2. Old \in Nat
    BY FilesAssumption DEF Old
  <2> QED  BY <2>1, <2>2 DEF Sought
<1>2. "f" \in Files
  BY FilesAre
<1>3. ASSUME NEW r \in Slots, NEW does \in Changes \cup Walks, NEW f \in Files, NEW x \in Nat,
             Call(r, does, f, x)
      PROVE  Calls
  <2>1. Ask(r, does, f, x) /\ broken' = broken /\ mishaps' = mishaps
    BY <1>3 DEF Call
  <2>2. mishaps' \in 0..MaxMishaps
    BY <2>1, TypeFacts
  <2> QED  BY <2>1, <2>2 DEF Calls
<1>4. ASSUME NEW r \in Slots, NEW does \in Changes, NEW f \in Files, NEW x \in Nat,
             CallInVain(r, does, f, x)
      PROVE  Calls
  <2>1. /\ Ask(r, does, f, x) /\ mishaps < MaxMishaps /\ mishaps' = mishaps + 1
        /\ broken' = broken \cup
              {[does |-> does, k |-> calls + 1, file |-> f, seek |-> x]}
    BY <1>4 DEF CallInVain
  <2>2. mishaps' \in 0..MaxMishaps
    BY <2>1, TypeFacts, FilesAssumption
  <2>3. does \in Changes \cup Walks
    OBVIOUS
  <2> QED  BY <2>1, <2>2, <2>3 DEF Calls
<1>5. CASE \E r \in Slots, does \in Changes, f \in Files : \E x \in Sought(does) :
             Call(r, does, f, x) \/ CallInVain(r, does, f, x)
  <2>1. PICK r \in Slots, does \in Changes, f \in Files :
               \E x \in Sought(does) : Call(r, does, f, x) \/ CallInVain(r, does, f, x)
    BY <1>5
  <2>2. PICK x \in Sought(does) : Call(r, does, f, x) \/ CallInVain(r, does, f, x)
    BY <2>1
  <2>3. does \in Changes \cup Walks /\ x \in Nat
    BY <1>1
  <2> QED  BY <1>3, <1>4, <2>2, <2>3
<1>6. CASE \E r \in Slots, does \in Walks : Call(r, does, "f", Old)
  <2>1. PICK r \in Slots, does \in Walks : Call(r, does, "f", Old)
    BY <1>6
  <2>2. does \in Changes \cup Walks
    OBVIOUS
  <2> QED  BY <1>1, <1>2, <1>3, <2>1, <2>2
<1>7. CASE \E r \in Slots, b \in broken : SendAgain(r, b)
  BY <1>7 DEF Asked
<1> QED  BY <1>5, <1>6, <1>7 DEF Next

(* What is to be sent again is a change that was called.                   *)
LEMMA AskedStep ==
    ASSUME Typed, Asked, Next
    PROVE  Asked'
<1>1. CASE Calls
  <2>1. PICK r \in Slots, does \in Changes \cup Walks, f \in Files, x \in Nat :
          \/ broken' = broken
          \/ /\ does \in Changes
             /\ broken' = broken \cup
                   {[does |-> does, k |-> calls + 1, file |-> f, seek |-> x]}
    BY <1>1 DEF Calls
  <2>2. calls + 1 \in Nat
    BY TypeFacts, FilesAssumption
  <2> QED  BY <2>1, <2>2 DEF Asked, Requests
<1>2. CASE UNCHANGED broken
  BY <1>2 DEF Asked
<1>3. CASE \E r \in Slots, b \in Requests : SendAgain(r, b)
  BY <1>3 DEF Asked, SendAgain
<1> QED  BY <1>1, <1>2, <1>3, CallsOf

LEMMA PlacesStep ==
    ASSUME PlacesInv, Next
    PROVE  PlacesInv'
<1> DEFINE Rest == Typed /\ Shapes /\ NamesInv
<1>1. Typed /\ Asked /\ Shapes /\ NamesInv /\ TempsAreOfEdits
  BY DEF PlacesInv, NamesInv
<1>2. ASSUME NEW r \in Slots, NEW does \in Changes \cup Walks, NEW f \in Files, NEW x \in Nat,
             Ask(r, does, f, x), mishaps' \in 0..MaxMishaps
      PROVE  Rest'
  <2>1. Quiet
    BY <1>1, <1>2, AskMoves, BegunQuiet
  <2> QED  BY <1>1, <1>2, <2>1, AskTyped, QuietNames
<1>3. ASSUME NEW r \in Slots, NEW b \in Requests, SendAgain(r, b)
      PROVE  Rest'
  <2>1. Quiet
    BY <1>1, <1>3, SendAgainMoves, BegunQuiet
  <2> QED  BY <1>1, <1>3, <2>1, SendAgainTyped, QuietNames
<1>4. ASSUME CommandRemoves
      PROVE  Rest'
  BY <1>1, <1>4, CommandTyped, CommandNames
<1>5. ASSUME NEW r \in Slots, GoesOn(r)
      PROVE  Rest'
  <2>1. CASE Mkdir(r)
    BY <1>1, <2>1, MkdirTyped, MkdirQuiet, QuietNames
  <2>2. CASE OpenToWrite(r)
    BY <1>1, <2>2, OpenToWriteTyped, OpenToWriteNames
  <2>3. CASE Fill(r)
    BY <1>1, <2>3, FillTyped, FillQuiet, QuietNames
  <2>4. CASE \E all \in BOOLEAN : ReadToEdit(r, all)
    BY <1>1, <2>4, ReadToEditTyped, ReadToEditQuiet, QuietNames
  <2>5. CASE OpenTemp(r)
    BY <1>1, <2>5, OpenTempTyped, OpenTempNames
  <2>6. CASE WriteTemp(r)
    BY <1>1, <2>6, WriteTempTyped, WriteTempQuiet, QuietNames
  <2>7. CASE Rename(r)
    BY <1>1, <2>7, RenameTyped, RenameNames
  <2>8. CASE OpenDirectory(r) \/ Visit(r) \/ Leave(r) \/ AnswerWalk(r)
    BY <1>1, <2>8, WalkingTyped, WalkingQuiet, QuietNames
  <2> QED  BY <1>5, <2>1, <2>2, <2>3, <2>4, <2>5, <2>6, <2>7, <2>8 DEF GoesOn
<1>6. Rest'
  BY <1>1, <1>2, <1>3, <1>4, <1>5, CallsOf DEF Calls
<1>7. Asked'
  BY <1>1, AskedStep
<1> QED  BY <1>6, <1>7 DEF PlacesInv

LEMMA FilesStep ==
    ASSUME FilesInv, Next
    PROVE  FilesInv'
<1> DEFINE Rest == TempsApart /\ ChangesInv /\ TextsInv /\ ChangesStick
<1>1. Typed /\ Asked /\ Shapes /\ NamesInv /\ Rest
  BY DEF FilesInv, PlacesInv
<1>2. ASSUME NEW r \in Slots, NEW does \in Changes \cup Walks, NEW f \in Files, NEW x \in Nat,
             Ask(r, does, f, x), mishaps' \in 0..MaxMishaps
      PROVE  Rest'
  <2>1. Quiet
    BY <1>1, <1>2, AskMoves, BegunQuiet
  <2> QED  BY <1>1, <1>2, <2>1, QuietApart, AskChanges, AskTexts
<1>3. ASSUME NEW r \in Slots, NEW b \in Requests, SendAgain(r, b)
      PROVE  Rest'
  <2>1. Quiet
    BY <1>1, <1>3, SendAgainMoves, BegunQuiet
  <2> QED  BY <1>1, <1>3, <2>1, QuietApart, SendAgainChanges, SendAgainTexts
<1>4. ASSUME CommandRemoves
      PROVE  Rest'
  BY <1>1, <1>4, CommandApart, CommandChanges, CommandTexts
<1>5. ASSUME NEW r \in Slots, GoesOn(r)
      PROVE  Rest'
  <2>1. CASE Mkdir(r)
    BY <1>1, <2>1, MkdirQuiet, QuietApart, MkdirChanges, MkdirTexts
  <2>2. CASE OpenToWrite(r)
    BY <1>1, <2>2, OpenToWriteApart, OpenToWriteChanges, OpenToWriteTexts
  <2>3. CASE Fill(r)
    BY <1>1, <2>3, FillQuiet, QuietApart, FillChanges, FillTexts
  <2>4. CASE \E all \in BOOLEAN : ReadToEdit(r, all)
    BY <1>1, <2>4, ReadToEditQuiet, QuietApart, ReadToEditChanges, ReadToEditTexts
  <2>5. CASE OpenTemp(r)
    BY <1>1, <2>5, OpenTempApart, OpenTempChanges, OpenTempTexts
  <2>6. CASE WriteTemp(r)
    BY <1>1, <2>6, WriteTempQuiet, QuietApart, WriteTempChanges, WriteTempTexts
  <2>7. CASE Rename(r)
    BY <1>1, <2>7, RenameApart, RenameChanges, RenameTexts
  <2>8. CASE OpenDirectory(r) \/ Visit(r) \/ Leave(r) \/ AnswerWalk(r)
    BY <1>1, <2>8, WalkingQuiet, QuietApart, WalkingChanges, WalkingTexts
  <2> QED  BY <1>5, <2>1, <2>2, <2>3, <2>4, <2>5, <2>6, <2>7, <2>8 DEF GoesOn
<1>6. Rest'
  BY <1>1, <1>2, <1>3, <1>4, <1>5, CallsOf DEF Calls
<1>7. PlacesInv'
  BY PlacesStep DEF FilesInv
<1> QED  BY <1>6, <1>7 DEF FilesInv

LEMMA TreeStep ==
    ASSUME TreeInv, Next
    PROVE  TreeInv'
<1> DEFINE Rest == WalksInv /\ WalksAreComplete
<1>1. Typed /\ Asked /\ Shapes /\ Housed /\ TempsAreOfEdits /\ Rest
  BY DEF TreeInv, PlacesInv, NamesInv
<1>2. ASSUME NEW r \in Slots, NEW does \in Changes \cup Walks, NEW f \in Files, NEW x \in Nat,
             Ask(r, does, f, x), mishaps' \in 0..MaxMishaps
      PROVE  Rest'
  BY <1>1, <1>2, AskWalks
<1>3. ASSUME NEW r \in Slots, NEW b \in Requests, SendAgain(r, b)
      PROVE  Rest'
  BY <1>1, <1>3, SendAgainWalks
<1>4. ASSUME CommandRemoves
      PROVE  Rest'
  BY <1>1, <1>4, CommandWalks
<1>5. ASSUME NEW r \in Slots, GoesOn(r)
      PROVE  Rest'
  <2>1. CASE \/ Mkdir(r) \/ OpenToWrite(r) \/ Fill(r) \/ (\E all \in BOOLEAN : ReadToEdit(r, all))
             \/ OpenTemp(r) \/ WriteTemp(r) \/ Rename(r)
    BY <1>1, <2>1, ChangeWalks
  <2>2. CASE OpenDirectory(r)
    BY <1>1, <2>2, OpenDirectoryWalks
  <2>3. CASE Visit(r)
    BY <1>1, <2>3, VisitWalks
  <2>4. CASE Leave(r)
    BY <1>1, <2>4, LeaveWalks
  <2>5. CASE AnswerWalk(r)
    BY <1>1, <2>5, AnswerWalkWalks
  <2> QED  BY <1>5, <2>1, <2>2, <2>3, <2>4, <2>5 DEF GoesOn
<1>6. Rest'
  BY <1>1, <1>2, <1>3, <1>4, <1>5, CallsOf DEF Calls
<1>7. PlacesInv'
  BY PlacesStep DEF TreeInv
<1> QED  BY <1>6, <1>7 DEF TreeInv

(* Nothing is said of what does not change.                                *)
LEMMA PlacesStutter == PlacesInv /\ UNCHANGED vars => PlacesInv'
<1> SUFFICES ASSUME PlacesInv, UNCHANGED vars
             PROVE  PlacesInv'
  OBVIOUS
<1>1. UNCHANGED <<dir, sub, disk, op, calls, broken, due, clashed, told, mishaps>>
  BY DEF vars
<1>2. Typed' /\ Shapes' /\ Asked'
  BY <1>1 DEF PlacesInv, Typed, Shapes, Asked
<1>3. Quiet
  BY <1>1 DEF Quiet, Holds
<1> QED  BY <1>2, <1>3, QuietNames DEF PlacesInv

LEMMA FilesStutter == FilesInv /\ UNCHANGED vars => FilesInv'
<1> SUFFICES ASSUME FilesInv, UNCHANGED vars
             PROVE  FilesInv'
  OBVIOUS
<1>1. UNCHANGED <<dir, sub, disk, op, calls, due, clashed, told, mishaps>>
  BY DEF vars
<1>2. PlacesInv'
  BY PlacesStutter DEF FilesInv
<1>3. TempsApart'
  <2>1. Quiet
    BY <1>1 DEF Quiet, Holds
  <2> QED  BY <2>1, QuietApart DEF FilesInv, PlacesInv
<1>4. ChangesInv'
  BY <1>1 DEF FilesInv, ChangesInv, Met, Removed, Stays
<1>5. TextsInv'
  BY <1>1 DEF FilesInv, TextsInv, Keeps, Fills, Copied
<1>6. ChangesStick'
  <2>1. \A f : Content(f)' = Content(f)
    BY <1>1 DEF Content
  <2> QED  BY <1>1, <2>1 DEF FilesInv, ChangesStick, Marks
<1> QED  BY <1>2, <1>3, <1>4, <1>5, <1>6 DEF FilesInv

LEMMA TreeStutter == TreeInv /\ UNCHANGED vars => TreeInv'
<1> SUFFICES ASSUME TreeInv, UNCHANGED vars
             PROVE  TreeInv'
  OBVIOUS
<1>1. UNCHANGED <<dir, sub, disk, op, calls, due, clashed, told, mishaps>>
  BY DEF vars
<1>2. ASSUME NEW q \in Slots, op'[q].does \in Walks
      PROVE  Walked(op[q])'
  BY <1>1, <1>2, WalkStays DEF TreeInv, WalksInv
<1> QED  BY <1>1, <1>2, PlacesStutter DEF TreeInv, WalksInv, WalksAreComplete

-----------------------------------------------------------------------------
(* Theorems *)

(* What every operation under way has in hand at its place, and the names  *)
(* of the files: an inode has one, what is in the directory goes with it,  *)
(* and no temporary file outlives its edit.                                *)
THEOREM FilesPlaced == Spec => []PlacesInv
<1>1. PlacesInv /\ [Next]_vars => PlacesInv'
  BY PlacesStep, PlacesStutter
<1> QED  BY InitPlaces, <1>1, PTL DEF Spec

(* Every variable keeps its type, for any number of operations under way.  *)
THEOREM FilesTypeCorrect == Spec => []TypeOK
<1>1. PlacesInv => TypeOK
  BY DEF PlacesInv, Typed, Asked, TypeOK
<1> QED  BY FilesPlaced, <1>1, PTL

(* The inductive invariant of the changes of files: temporary files that   *)
(* are apart, changes that know of one another, texts that keep what is    *)
(* due.                                                                    *)
THEOREM FilesInductive == Spec => []FilesInv
<1>1. FilesInv /\ [Next]_vars => FilesInv'
  BY FilesStep, FilesStutter
<1> QED  BY InitFiles, <1>1, PTL DEF Spec

(* An edit is atomic (write to a temporary file, then rename): the inode   *)
(* it writes is not at the name of the file, for any number of edits under *)
(* way, unless two have shared a temporary file.                           *)
THEOREM EditsAtomic == Spec => []EditsAreAtomic
<1>1. FilesInv => EditsAreAtomic
  <2> SUFFICES ASSUME FilesInv, ~clashed, NEW r \in Slots, At(r, "put")
               PROVE  dir[Itself(op[r])] # op[r].ino
    BY DEF EditsAreAtomic
  <2>1. Preparing(op[r]) /\ Apart(r)
    BY DEF FilesInv, TempsApart, At, Preparing
  <2>2. op[r].file \in Files /\ Itself(op[r]) = <<op[r].file, 0>>
    BY OperationOf, OperationFields DEF FilesInv, PlacesInv, Itself
  <2> QED  BY <2>1, <2>2 DEF Apart
<1> QED  BY FilesInductive, <1>1, PTL

(* What a write, an append or an edit has written is in the file until a   *)
(* later request replaces it, unless it met another change of that file,   *)
(* its own repetition among them, or two edits have shared a temporary     *)
(* file.  A request is repeated while the first is still under way or at   *)
(* any time after it has ended, and the repetition of a write replaces     *)
(* what came between like a new one.                                       *)
THEOREM ChangesStickAlways == Spec => []ChangesStick
<1>1. FilesInv => ChangesStick
  BY DEF FilesInv
<1> QED  BY FilesInductive, <1>1, PTL

(* The inductive invariant of the walks: what one has found and has before *)
(* it was there, and all that stayed is found or before it.                *)
THEOREM WalksInductive == Spec => []TreeInv
<1>1. TreeInv /\ [Next]_vars => TreeInv'
  BY TreeStep, TreeStutter
<1> QED  BY InitTree, <1>1, PTL DEF Spec

(* A walk that is not cut short answers with every entry of its kind that  *)
(* stayed from its beginning to its end and with none that never was,      *)
(* whatever the changes and the commands under way do to the tree.         *)
THEOREM WalksComplete == Spec => []WalksAreComplete
<1>1. TreeInv => WalksAreComplete
  BY DEF TreeInv
<1> QED  BY WalksInductive, <1>1, PTL

=============================================================================
