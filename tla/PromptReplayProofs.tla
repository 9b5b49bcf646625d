------------------------- MODULE PromptReplayProofs -------------------------
(***************************************************************************)
(* What no number of workers changes about the prompts of a session.       *)
(***************************************************************************)
EXTENDS PromptReplay, FiniteSetTheorems, TLAPS

-----------------------------------------------------------------------------
(* Conversations                                                           *)

Turns == [status : TurnStatuses, calls : SUBSET CallIds]

(* A conversation whose calls are among the first n that the model made.   *)
Conversation(s, n) ==
    /\ s = [status |-> s.status, turns |-> s.turns, history |-> s.history, calls |-> s.calls]
    /\ s.status \in {"idle", "running", "error"}
    /\ s.turns \in Seq(Turns)
    /\ s.calls \in [CallIds -> CallStatuses]
    /\ \A c \in CallIds : s.calls[c] # "none" => c <= n

Begun(s) == s.turns # <<>>

(* A step that the conversation has left behind.                           *)
Past(s, step) ==
    \/ /\ step.type = "assistant"
       /\ \/ step.turn < Len(s.turns)
          \/ step.turn = Len(s.turns) /\ LatestTurn(s).status # "awaiting_assistant"
    \/ /\ step.type = "complete"
       /\ \/ step.turn < Len(s.turns)
          \/ step.turn = Len(s.turns) /\ s.status # "running"
    \/ /\ step.type = "tool"
       /\ \E c \in step.calls : s.calls[c] = "finished"

AgentStep(step) ==
    /\ step.type \in {"assistant", "tool", "complete"}
    /\ step.turn \in Nat
    /\ step.calls \in SUBSET CallIds

NoneRuns(s) == \A c \in CallIds : s.calls[c] # "running"

(* Closing a turn opens another, unless it ends the prompt.                *)
Longer(s, t, step) ==
    t.status = "running" =>
        Len(t.turns) = Len(s.turns) + (IF step.type = "complete" THEN 1 ELSE 0)

(* What any step does to the conversation it is taken from.                *)
Advance(s, t) ==
    \A step : AgentStep(step) /\ Past(s, step) => Past(t, step)

LEMMA EmptyIs ==
    ASSUME NEW n \in Nat
    PROVE  /\ Conversation(EmptySession, n)
           /\ NoneRuns(EmptySession)
  <1>1. <<>> \in Seq(Turns)
    OBVIOUS
  <1>2. [c \in CallIds |-> "none"] \in [CallIds -> CallStatuses]
    BY DEF CallStatuses
  <1>. QED  BY <1>1, <1>2 DEF Conversation, NoneRuns, EmptySession

LEMMA MoreCalls ==
    ASSUME NEW s, NEW n \in Nat, NEW m \in Nat, n <= m, Conversation(s, n)
    PROVE  Conversation(s, m)
  BY CallIdsAssumption DEF Conversation

LEMMA LatestIs ==
    ASSUME NEW s, NEW n, Conversation(s, n), Begun(s)
    PROVE  /\ LatestTurn(s) = s.turns[Len(s.turns)]
           /\ LatestTurn(s) \in Turns
           /\ Len(s.turns) \in Nat \ {0}
  BY DEF Conversation, Begun, LatestTurn, Last

LEMMA Joined ==
    ASSUME NEW S, NEW u \in Seq(S), NEW e \in S
    PROVE  /\ u \o <<e>> \in Seq(S)
           /\ Len(u \o <<e>>) = Len(u) + 1
           /\ (u \o <<e>>)[Len(u) + 1] = e
  <1>1. u \o <<e>> = Append(u, e)
    OBVIOUS
  <1>. QED  BY <1>1

LEMMA WithLatestIs ==
    ASSUME NEW s, NEW n, Conversation(s, n), Begun(s), NEW turn \in Turns,
           NEW r, r = WithLatestTurn(s, turn)
    PROVE  /\ r = [status |-> s.status, turns |-> r.turns, history |-> s.history, calls |-> s.calls]
           /\ r.turns \in Seq(Turns)
           /\ Len(r.turns) = Len(s.turns)
           /\ r.turns[Len(s.turns)] = turn
  <1>. DEFINE front == SubSeq(s.turns, 1, Len(s.turns) - 1)
  <1>1. Len(s.turns) \in Nat \ {0} /\ s.turns \in Seq(Turns)
    BY LatestIs DEF Conversation
  <1>2. front \in Seq(Turns) /\ Len(front) = Len(s.turns) - 1
    BY <1>1
  <1>4. r = [s EXCEPT !.turns = front \o <<turn>>]
    BY DEF WithLatestTurn, Front
  <1>. HIDE DEF front
  <1>5. /\ front \o <<turn>> \in Seq(Turns)
        /\ Len(front \o <<turn>>) = Len(s.turns)
        /\ (front \o <<turn>>)[Len(s.turns)] = turn
    <2>1. /\ front \o <<turn>> \in Seq(Turns)
          /\ Len(front \o <<turn>>) = Len(front) + 1
          /\ (front \o <<turn>>)[Len(front) + 1] = turn
      BY <1>2, Joined
    <2>. QED  BY <1>1, <1>2, <2>1
  <1>6. s = [status |-> s.status, turns |-> s.turns, history |-> s.history, calls |-> s.calls]
    BY DEF Conversation
  <1>7. r = [status |-> s.status, turns |-> front \o <<turn>>, history |-> s.history, calls |-> s.calls]
    BY <1>4, <1>6
  <1>8. r.turns = front \o <<turn>>
    BY <1>7
  <1>9. r = [status |-> s.status, turns |-> r.turns, history |-> s.history, calls |-> s.calls]
    BY <1>7, <1>8
  <1>. QED  BY <1>5, <1>8, <1>9

LEMMA EnqueueIs ==
    ASSUME NEW s, NEW n \in Nat, Conversation(s, n),
           NEW r, r = EnqueuePrompt(s)
    PROVE  /\ Conversation(r, n)
           /\ Begun(r)
           /\ r.status = "running"
           /\ r.calls = s.calls
           /\ r.history = Append(s.history, Message("user", {}))
           /\ LatestTurn(r) = EmptyTurn
  <1>. DEFINE new == Append(s.turns, EmptyTurn)
              told == Append(s.history, Message("user", {}))
  <1>1. s = [status |-> s.status, turns |-> s.turns, history |-> s.history, calls |-> s.calls]
    BY DEF Conversation
  <1>2. r = [s EXCEPT !.status = "running", !.history = told, !.turns = new]
    BY DEF EnqueuePrompt
  <1>3. EmptyTurn \in Turns
    BY DEF EmptyTurn, Turns, TurnStatuses
  <1>4. new \in Seq(Turns) /\ new # <<>> /\ new[Len(new)] = EmptyTurn
    BY <1>3 DEF Conversation
  <1>a. told = Append(s.history, Message("user", {}))
    OBVIOUS
  <1>. HIDE DEF new, told
  <1>5. r = [status |-> "running", turns |-> new, history |-> told, calls |-> s.calls]
    BY <1>1, <1>2
  <1>6. Conversation(r, n)
    BY <1>4, <1>5 DEF Conversation
  <1>7. Begun(r) /\ r.status = "running" /\ LatestTurn(r) = EmptyTurn
    BY <1>4, <1>5 DEF Begun, LatestTurn, Last
  <1>. QED  BY <1>a, <1>5, <1>6, <1>7

LEMMA ErrorIs ==
    ASSUME NEW s, NEW n \in Nat, Conversation(s, n), Begun(s),
           NEW r, r = [s EXCEPT !.status = "error"]
    PROVE  /\ Conversation(r, n)
           /\ Begun(r)
           /\ r.status = "error"
           /\ r.calls = s.calls /\ r.history = s.history /\ r.turns = s.turns
           /\ Advance(s, r)
  <1>1. s = [status |-> s.status, turns |-> s.turns, history |-> s.history, calls |-> s.calls]
    BY DEF Conversation
  <1>2. r = [status |-> "error", turns |-> s.turns, history |-> s.history, calls |-> s.calls]
    BY <1>1
  <1>3. Conversation(r, n)
    BY <1>2 DEF Conversation
  <1>4. Advance(s, r)
    BY <1>2 DEF Advance, Past, LatestTurn
  <1>. QED  BY <1>2, <1>3, <1>4 DEF Begun

(* ... also before there is any turn. *)
LEMMA StatusIs ==
    ASSUME NEW s, NEW n \in Nat, Conversation(s, n),
           NEW r, r = [s EXCEPT !.status = "error"]
    PROVE  /\ Conversation(r, n)
           /\ r.calls = s.calls /\ r.history = s.history /\ r.turns = s.turns
           /\ \A t : SameContext(s, t) <=> SameContext(r, t)
  <1>1. s = [status |-> s.status, turns |-> s.turns, history |-> s.history, calls |-> s.calls]
    BY DEF Conversation
  <1>2. r = [status |-> "error", turns |-> s.turns, history |-> s.history, calls |-> s.calls]
    BY <1>1
  <1>3. Conversation(r, n)
    BY <1>2 DEF Conversation
  <1>4. \A x : [s EXCEPT !.status = x] = [r EXCEPT !.status = x]
    BY <1>1, <1>2
  <1>. QED  BY <1>2, <1>3, <1>4 DEF SameContext

LEMMA SameIs ==
    ASSUME NEW s, NEW n, Conversation(s, n)
    PROVE  SameContext(s, s)
  <1>1. s = [status |-> s.status, turns |-> s.turns, history |-> s.history, calls |-> s.calls]
    BY DEF Conversation
  <1>. QED  BY <1>1 DEF SameContext

LEMMA StepTypes ==
    ASSUME NEW s, s.status # "running"
    PROVE  NextStep(s) = NoStep
  BY DEF NextStep

LEMMA UnsatisfiedIs ==
    ASSUME NEW s, NEW n, Conversation(s, n), Begun(s)
    PROVE  /\ Unsatisfied(s) \in SUBSET CallIds
           /\ \A c \in Unsatisfied(s) : s.calls[c] \in {"pending", "running"}
  BY LatestIs DEF Unsatisfied, Begun, Turns

(* What the name of a step says of the conversation.                       *)
LEMMA NextStepIs ==
    ASSUME NEW s, NEW n, Conversation(s, n), Begun(s),
           NEW k, k = NextStep(s)
    PROVE  /\ k.type = "none" => k = NoStep
           /\ k # NoStep => AgentStep(k) /\ s.status = "running" /\ ~ Past(s, k)
           /\ k.type = "assistant" => /\ k # NoStep
                                      /\ k.turn = Len(s.turns)
           /\ k.type = "complete" => /\ k # NoStep
                                     /\ k.turn = Len(s.turns)
                                     /\ Unsatisfied(s) = {}
                                     /\ LatestTurn(s).status \in {"awaiting_tools", "complete"}
           /\ k.type = "tool" => /\ k # NoStep
                                 /\ k.calls = Unsatisfied(s)
                                 /\ k.calls # {}
  <1>. DEFINE tool == [type |-> "tool", turn |-> 0, calls |-> Unsatisfied(s)]
              ask == [type |-> "assistant", turn |-> Len(s.turns), calls |-> {}]
              end == [type |-> "complete", turn |-> Len(s.turns), calls |-> {}]
              status == LatestTurn(s).status
  <1>1. Len(s.turns) \in Nat \ {0} /\ s.turns # <<>>
    BY LatestIs DEF Begun
  <1>2. NoStep.type = "none"
    BY DEF NoStep
  <1>3. CASE s.status # "running"
    BY <1>2, <1>3, StepTypes
  <1>4. CASE s.status = "running" /\ Unsatisfied(s) # {}
    <2>1. k = tool
      BY <1>4 DEF NextStep
    <2>2. AgentStep(tool)
      BY UnsatisfiedIs DEF AgentStep
    <2>3. ~ Past(s, tool)
      BY UnsatisfiedIs DEF Past
    <2>. QED  BY <1>2, <1>4, <2>1, <2>2, <2>3
  <1>5. CASE s.status = "running" /\ Unsatisfied(s) = {} /\ status = "awaiting_assistant"
    <2>1. k = ask
      BY <1>5 DEF NextStep
    <2>2. AgentStep(ask)
      BY <1>1 DEF AgentStep
    <2>3. ~ Past(s, ask)
      BY <1>1, <1>5 DEF Past
    <2>. QED  BY <1>2, <1>5, <2>1, <2>2, <2>3
  <1>6. CASE /\ s.status = "running" /\ Unsatisfied(s) = {}
             /\ status \in {"awaiting_tools", "complete"}
    <2>1. k = end
      BY <1>1, <1>6 DEF NextStep
    <2>2. AgentStep(end)
      BY <1>1 DEF AgentStep
    <2>3. ~ Past(s, end)
      BY <1>1, <1>6 DEF Past
    <2>. QED  BY <1>2, <1>6, <2>1, <2>2, <2>3
  <1>7. CASE /\ s.status = "running" /\ Unsatisfied(s) = {}
             /\ status \notin {"awaiting_assistant", "awaiting_tools", "complete"}
    <2>1. k = NoStep
      BY <1>1, <1>7 DEF NextStep
    <2>. QED  BY <1>2, <2>1
  <1>. QED  BY <1>3, <1>4, <1>5, <1>6, <1>7

-----------------------------------------------------------------------------
(* The steps                                                               *)

(* The messages that tell the results of the calls.                        *)
TellsOf(calls) == [i \in 1 .. Len(InOrder(calls)) |-> Message("toolResult", {InOrder(calls)[i]})]

(* What the steps say and leave to do.                                     *)
Answered(s, calls, failed, r) ==
    /\ r.history = Append(s.history, Message("assistant", calls))
    /\ \A c \in CallIds : r.calls[c] = IF c \in calls THEN "pending" ELSE s.calls[c]
    /\ LatestTurn(r).calls = calls
    /\ ~ failed =>
          /\ r.status = "running"
          /\ LatestTurn(r).status = IF calls = {} THEN "complete" ELSE "awaiting_tools"

Closed(s, r) ==
    /\ r.history = s.history
    /\ IF \E i \in DOMAIN s.history :
             s.history[i].role = "toolResult" /\ s.history[i].calls \subseteq LatestTurn(s).calls
       THEN r.status = "running" /\ LatestTurn(r) = EmptyTurn
       ELSE r.status = "idle" /\ LatestTurn(r).status = "complete"

Finished(s, given, r) ==
    /\ r.turns = s.turns /\ r.status = s.status
    /\ r.history = s.history \o TellsOf({c \in DOMAIN given : given[c] = "finished"})
    /\ \A c \in CallIds : c \notin DOMAIN given => r.calls[c] = s.calls[c]
    /\ \A c \in DOMAIN given :
          /\ r.calls[c] \in {"running", "finished"}
          /\ given[c] # "finished" => r.calls[c] = "running"
    /\ (\A c \in DOMAIN given : given[c] = "finished") =>
          \A c \in DOMAIN given : r.calls[c] = "finished"

LEMMA AnswerIs ==
    ASSUME NEW s, NEW n \in Nat, Conversation(s, n), Begun(s), s.status = "running",
           NEW m \in Nat, n <= m,
           NEW calls \in SUBSET CallIds, \A c \in calls : n < c /\ c <= m,
           NEW failed \in BOOLEAN,
           NEW r, r = Answer(s, calls, failed)
    PROVE  /\ Conversation(r, m)
           /\ Begun(r)
           /\ Len(r.turns) = Len(s.turns)
           /\ LatestTurn(r).status # "awaiting_assistant"
           /\ Advance(s, r)
           /\ NoneRuns(s) => NoneRuns(r)
           /\ Answered(s, calls, failed, r)
  <1>. DEFINE status == IF failed THEN "error"
                        ELSE IF calls = {} THEN "complete" ELSE "awaiting_tools"
              turn == [status |-> status, calls |-> calls]
              b == WithLatestTurn(s, turn)
              told == Append(b.history, Message("assistant", calls))
              made == [c \in CallIds |-> IF c \in calls THEN "pending" ELSE b.calls[c]]
              next == IF failed THEN "error" ELSE "running"
  <1>1. turn \in Turns /\ turn.status # "awaiting_assistant"
    BY DEF Turns, TurnStatuses
  <1>2. r = [b EXCEPT !.status = next, !.history = told, !.calls = made]
    BY DEF Answer
  <1>a. /\ turn.calls = calls
        /\ ~ failed => turn.status = IF calls = {} THEN "complete" ELSE "awaiting_tools"
    OBVIOUS
  <1>. HIDE DEF turn
  <1>3. /\ b = [status |-> s.status, turns |-> b.turns, history |-> s.history, calls |-> s.calls]
        /\ b.turns \in Seq(Turns)
        /\ Len(b.turns) = Len(s.turns)
        /\ b.turns[Len(s.turns)] = turn
    BY <1>1, WithLatestIs
  <1>b. told = Append(s.history, Message("assistant", calls))
    BY <1>3
  <1>. HIDE DEF b, told, next
  <1>4. s.calls \in [CallIds -> CallStatuses]
    BY DEF Conversation
  <1>5. made = [c \in CallIds |-> IF c \in calls THEN "pending" ELSE s.calls[c]]
    BY <1>3
  <1>6. made \in [CallIds -> CallStatuses]
    BY <1>4, <1>5 DEF CallStatuses
  <1>7. \A c \in CallIds : made[c] # "none" => c <= m
    BY <1>5, CallIdsAssumption DEF Conversation
  <1>8. \A c \in CallIds : s.calls[c] = "finished" => made[c] = "finished"
    <2>1. \A c \in CallIds : c \in calls => s.calls[c] = "none"
      BY CallIdsAssumption DEF Conversation
    <2>. QED  BY <1>5, <2>1
  <1>9. NoneRuns(s) => \A c \in CallIds : made[c] # "running"
    BY <1>5 DEF NoneRuns
  <1>c. \A c \in CallIds : made[c] = IF c \in calls THEN "pending" ELSE s.calls[c]
    BY <1>5
  <1>. HIDE DEF made
  <1>10. r = [status |-> next, turns |-> b.turns, history |-> told, calls |-> made]
    BY <1>2, <1>3
  <1>11. next \in {"running", "error"}
    BY DEF next
  <1>12. Conversation(r, m)
    BY <1>3, <1>6, <1>7, <1>10, <1>11 DEF Conversation
  <1>13. Len(s.turns) \in Nat \ {0}
    BY LatestIs
  <1>14. Begun(r) /\ LatestTurn(r) = turn
    BY <1>3, <1>10, <1>13 DEF Begun, LatestTurn, Last
  <1>15. r.turns = b.turns /\ r.calls = made /\ r.history = told /\ (~ failed => r.status = "running")
    BY <1>10 DEF next
  <1>16. ASSUME NEW step, AgentStep(step), Past(s, step)
         PROVE  Past(r, step)
    <2>1. CASE step.type = "assistant"
      BY <1>1, <1>3, <1>14, <1>15, <1>16, <2>1 DEF Past
    <2>2. CASE step.type = "complete"
      BY <1>3, <1>15, <1>16, <2>2 DEF Past
    <2>3. CASE step.type = "tool"
      BY <1>8, <1>15, <1>16, <2>3 DEF Past, AgentStep
    <2>. QED  BY <1>16, <2>1, <2>2, <2>3 DEF AgentStep
  <1>17. Advance(s, r) /\ (NoneRuns(s) => NoneRuns(r))
    BY <1>9, <1>15, <1>16 DEF Advance, NoneRuns
  <1>18. Answered(s, calls, failed, r)
    BY <1>a, <1>b, <1>c, <1>14, <1>15 DEF Answered
  <1>. QED  BY <1>1, <1>3, <1>12, <1>14, <1>15, <1>17, <1>18

LEMMA CompleteIs ==
    ASSUME NEW s, NEW n \in Nat, Conversation(s, n), Begun(s),
           NextStep(s).type = "complete",
           NEW r, r = CompleteTurn(s)
    PROVE  /\ Conversation(r, n)
           /\ Begun(r)
           /\ r.calls = s.calls
           /\ Advance(s, r)
           /\ Past(r, NextStep(s))
           /\ Longer(s, r, NextStep(s))
           /\ Closed(s, r)
  <1>. DEFINE k == NextStep(s)
              turn == LatestTurn(s)
              ended == [turn EXCEPT !.status = IF @ = "error" THEN "error" ELSE "complete"]
              b == WithLatestTurn(s, ended)
              more == Append(b.turns, EmptyTurn)
              hasResults == \E i \in DOMAIN s.history :
                               s.history[i].role = "toolResult" /\ s.history[i].calls \subseteq turn.calls
  <1>1. /\ k # NoStep
        /\ k.turn = Len(s.turns)
        /\ k.type = "complete"
        /\ Unsatisfied(s) = {}
        /\ turn.status \in {"awaiting_tools", "complete"}
        /\ s.status = "running"
    BY NextStepIs
  <1>2. turn \in Turns /\ Len(s.turns) \in Nat \ {0}
    BY LatestIs
  <1>3. ended \in Turns /\ ended.status = "complete"
    BY <1>1, <1>2 DEF Turns, TurnStatuses
  <1>4. r = IF hasResults THEN [b EXCEPT !.turns = more] ELSE [b EXCEPT !.status = "idle"]
    BY <1>1 DEF CompleteTurn
  <1>. HIDE DEF ended, hasResults, k
  <1>5. /\ b = [status |-> s.status, turns |-> b.turns, history |-> s.history, calls |-> s.calls]
        /\ b.turns \in Seq(Turns)
        /\ Len(b.turns) = Len(s.turns)
        /\ b.turns[Len(s.turns)] = ended
    BY <1>3, WithLatestIs
  <1>. HIDE DEF b
  <1>6. EmptyTurn \in Turns
    BY DEF EmptyTurn, Turns, TurnStatuses
  <1>7. /\ more \in Seq(Turns) /\ Len(more) = Len(s.turns) + 1 /\ more # <<>>
        /\ more[Len(more)] = EmptyTurn
    BY <1>2, <1>5, <1>6
  <1>. HIDE DEF more
  <1>8. CASE hasResults
    <2>1. r = [status |-> s.status, turns |-> more, history |-> s.history, calls |-> s.calls]
      BY <1>4, <1>5, <1>8
    <2>2. Conversation(r, n) /\ Begun(r)
      BY <1>7, <2>1 DEF Conversation, Begun
    <2>3. r.calls = s.calls /\ Len(r.turns) = Len(s.turns) + 1
      BY <1>7, <2>1
    <2>4. Advance(s, r)
      BY <1>2, <2>3 DEF Advance, Past, AgentStep
    <2>5. Past(r, k)
      BY <1>1, <1>2, <2>3 DEF Past
    <2>6. Longer(s, r, k)
      BY <1>1, <2>3 DEF Longer
    <2>7. r.history = s.history /\ r.status = "running" /\ LatestTurn(r) = EmptyTurn
      BY <1>1, <1>7, <2>1 DEF LatestTurn, Last
    <2>. QED  BY <1>8, <2>2, <2>3, <2>4, <2>5, <2>6, <2>7 DEF k, hasResults, Closed
  <1>9. CASE ~ hasResults
    <2>1. r = [status |-> "idle", turns |-> b.turns, history |-> s.history, calls |-> s.calls]
      BY <1>4, <1>5, <1>9
    <2>2. Conversation(r, n) /\ Begun(r)
      BY <1>2, <1>5, <2>1 DEF Conversation, Begun
    <2>3. r.calls = s.calls /\ Len(r.turns) = Len(s.turns) /\ r.status = "idle"
      BY <1>5, <2>1
    <2>4. LatestTurn(r).status = "complete"
      BY <1>2, <1>3, <1>5, <2>1 DEF LatestTurn, Last
    <2>5. Advance(s, r)
      BY <1>2, <2>3, <2>4 DEF Advance, Past, AgentStep
    <2>6. Past(r, k)
      BY <1>1, <1>2, <2>3 DEF Past
    <2>7. Longer(s, r, k)
      BY <1>1, <2>3 DEF Longer
    <2>8. r.history = s.history
      BY <2>1
    <2>. QED  BY <1>9, <2>2, <2>3, <2>4, <2>5, <2>6, <2>7, <2>8 DEF k, hasResults, Closed
  <1>. QED  BY <1>8, <1>9

LEMMA FinishIs ==
    ASSUME NEW s, NEW n \in Nat, Conversation(s, n), Begun(s),
           NextStep(s).type = "tool",
           NEW given, DOMAIN given = NextStep(s).calls,
           NEW r, r = FinishCalls(s, given)
    PROVE  /\ Conversation(r, n)
           /\ Begun(r)
           /\ Advance(s, r)
           /\ Longer(s, r, NextStep(s))
           /\ \A c \in DOMAIN given : given[c] # "finished" => r.calls[c] = "running"
           /\ (\A c \in DOMAIN given : given[c] = "finished") =>
                 /\ Past(r, NextStep(s))
                 /\ NoneRuns(s) => NoneRuns(r)
           /\ Finished(s, given, r)
  <1>. DEFINE k == NextStep(s)
              batch == DOMAIN given
              ended == {c \in batch : given[c] = "finished"}
              putBack(c) == /\ s.calls[c] = "running"
                            /\ \E later \in batch \ ended : later > c
              order == InOrder(ended)
              told == s.history \o [i \in 1 .. Len(order) |-> Message("toolResult", {order[i]})]
              done == [c \in CallIds |->
                          IF c \notin batch THEN s.calls[c]
                          ELSE IF c \in ended /\ ~ putBack(c) THEN "finished"
                          ELSE "running"]
  <1>1. /\ k # NoStep
        /\ k.type = "tool"
        /\ k.calls = Unsatisfied(s)
        /\ k.calls # {}
        /\ s.status = "running"
        /\ AgentStep(k)
    BY NextStepIs
  <1>2. batch = k.calls /\ batch \in SUBSET CallIds
    BY <1>1, UnsatisfiedIs
  <1>3. \A c \in batch : s.calls[c] \in {"pending", "running"}
    BY <1>1, <1>2, UnsatisfiedIs
  <1>4. r = [s EXCEPT !.history = told, !.calls = done]
    BY <1>2 DEF FinishCalls, Conversation
  <1>5. s.calls \in [CallIds -> CallStatuses]
    BY DEF Conversation
  <1>6. done \in [CallIds -> CallStatuses]
    BY <1>5 DEF CallStatuses
  <1>7. \A c \in CallIds : c \notin batch => done[c] = s.calls[c]
    OBVIOUS
  <1>8. \A c \in batch : given[c] # "finished" => done[c] = "running"
    BY <1>2
  <1>9. (\A c \in batch : given[c] = "finished") => \A c \in batch : done[c] = "finished"
    BY <1>2
  <1>a. told = s.history \o TellsOf(ended)
    BY DEF TellsOf
  <1>b. \A c \in batch : done[c] \in {"running", "finished"}
    BY <1>2
  <1>. HIDE DEF told, done, k, batch
  <1>10. s = [status |-> s.status, turns |-> s.turns, history |-> s.history, calls |-> s.calls]
    BY DEF Conversation
  <1>11. r = [status |-> s.status, turns |-> s.turns, history |-> told, calls |-> done]
    BY <1>4, <1>10
  <1>12. \A c \in CallIds : done[c] # "none" => c <= n
    BY <1>2, <1>3, <1>7 DEF Conversation
  <1>13. Conversation(r, n)
    BY <1>6, <1>11, <1>12 DEF Conversation
  <1>14. r.turns = s.turns /\ r.status = s.status /\ r.calls = done /\ r.history = told /\ Begun(r)
    BY <1>11 DEF Begun
  <1>15. Advance(s, r)
    <2>1. \A c \in CallIds : s.calls[c] = "finished" => done[c] = "finished"
      BY <1>3, <1>7
    <2>. QED  BY <1>14, <2>1 DEF Advance, Past, AgentStep, LatestTurn
  <1>16. Longer(s, r, k)
    <2>1. Len(s.turns) \in Nat
      BY LatestIs
    <2>. QED  BY <1>1, <1>14, <2>1 DEF Longer
  <1>17. \A c \in batch : given[c] # "finished" => r.calls[c] = "running"
    BY <1>8, <1>14
  <1>18. ASSUME \A c \in batch : given[c] = "finished"
         PROVE  Past(r, k)
    BY <1>1, <1>2, <1>9, <1>14, <1>18 DEF Past
  <1>19. ASSUME \A c \in batch : given[c] = "finished", NoneRuns(s)
         PROVE  NoneRuns(r)
    BY <1>2, <1>7, <1>9, <1>14, <1>19 DEF NoneRuns
  <1>20. Finished(s, given, r)
    BY <1>a, <1>b, <1>7, <1>8, <1>9, <1>14 DEF Finished, batch
  <1>. QED  BY <1>13, <1>14, <1>15, <1>16, <1>17, <1>18, <1>19, <1>20 DEF k, batch

-----------------------------------------------------------------------------
(* The journal                                                             *)

OtherKeys == {EnqueueKey, LimitKey, FinalKey, ErrorKey}

AgentKey(k) ==
    /\ k = Key("agent", k.index, k.step)
    /\ k.index \in Nat
    /\ AgentStep(k.step)

AgentKeys(J) == {k \in DOMAIN J : k.name = "agent"}

(* Every entry is a conversation under a name that the worker gives.       *)
Kept(J, n) ==
    \A k \in DOMAIN J :
        /\ Conversation(J[k], n)
        /\ k \in OtherKeys \/ AgentKey(k)
        /\ k # ErrorKey => Begun(J[k])

Added(J, key, s) == [k \in DOMAIN J \cup {key} |-> IF k \in DOMAIN J THEN J[k] ELSE s]

PastAll(J, s) == \A k \in AgentKeys(J) : Past(s, k.step)

LEMMA KeysDiffer ==
    /\ \A k \in OtherKeys : k.name # "agent"
    /\ \A i, step : Key("agent", i, step).name = "agent"
    /\ \A i, step : Key("agent", i, step).index = i
    /\ \A i, step : Key("agent", i, step).step = step
    /\ \A k, m \in OtherKeys : k.name = m.name => k = m
    /\ EnqueueKey # LimitKey /\ EnqueueKey # ErrorKey /\ EnqueueKey # FinalKey
    /\ LimitKey # ErrorKey /\ LimitKey # FinalKey /\ FinalKey # ErrorKey
  BY DEF OtherKeys, EnqueueKey, LimitKey, FinalKey, ErrorKey, Key

LEMMA AddedIs ==
    ASSUME NEW J, NEW key, NEW s, NEW K, K = Added(J, key, s)
    PROVE  /\ DOMAIN K = DOMAIN J \cup {key}
           /\ \A k \in DOMAIN J : K[k] = J[k]
           /\ key \notin DOMAIN J => K[key] = s
  BY DEF Added

LEMMA AddedAgentKeys ==
    ASSUME NEW J, NEW key, NEW s, NEW K, K = Added(J, key, s)
    PROVE  /\ key.name = "agent" => AgentKeys(K) = AgentKeys(J) \cup {key}
           /\ key \in OtherKeys => AgentKeys(K) = AgentKeys(J)
  <1>1. DOMAIN K = DOMAIN J \cup {key}
    BY AddedIs
  <1>2. key \in OtherKeys => key.name # "agent"
    BY KeysDiffer
  <1>. QED  BY <1>1, <1>2 DEF AgentKeys

LEMMA AgentKeysAre ==
    ASSUME NEW J, NEW n, Kept(J, n), NEW k \in AgentKeys(J)
    PROVE  k \in DOMAIN J /\ AgentKey(k) /\ k \notin OtherKeys
  BY KeysDiffer DEF Kept, AgentKeys

LEMMA MoreKept ==
    ASSUME NEW J, NEW n \in Nat, NEW m \in Nat, n <= m, Kept(J, n)
    PROVE  Kept(J, m)
  BY MoreCalls DEF Kept

LEMMA KeptAdded ==
    ASSUME NEW J, NEW n, Kept(J, n),
           NEW key, key \in OtherKeys \/ AgentKey(key),
           NEW s, Conversation(s, n), key # ErrorKey => Begun(s)
    PROVE  Kept(Added(J, key, s), n)
  BY DEF Kept, Added

LEMMA RecordIs ==
    ASSUME NEW key, NEW s, Record(key, s)
    PROVE  journal' = Added(journal, key, s)
  BY DEF Record, Added

-----------------------------------------------------------------------------
(* Where a worker is                                                       *)

TypesInv ==
    /\ Conversation(stored, issued)
    /\ Conversation(cur, issued)
    /\ Conversation(work, issued)
    /\ Kept(journal, issued)
    /\ toolRun \in [CallIds -> {"none", "running", "finished"}]
    /\ pc \in Stages /\ open \in BOOLEAN
    /\ index \in Nat /\ turnsDone \in Nat /\ issued \in Nat
    /\ crashes \in Nat /\ faults \in Nat /\ waits \in Nat

(* A worker that has its conversation.                                     *)
Live == {"step", "tools", "record", "limit", "stop", "record_stop", "record_final"}

Goes == NextStep(cur) # NoStep

ToolsInv ==
    pc = "tools" =>
        /\ NextStep(cur).type = "tool"
        /\ DOMAIN results = NextStep(cur).calls
        /\ \A c \in DOMAIN results :
              results[c] \in {"executing", "running"} => toolRun[c] = "running"

(* What has been saved waits for its record.                               *)
RecordInv ==
    /\ pc = "record" =>
          /\ Goes /\ stored = work /\ Begun(work)
          /\ Advance(cur, work)
          /\ Past(work, NextStep(cur))
          /\ Longer(cur, work, NextStep(cur))
    /\ pc = "record_stop" =>
          /\ work = [cur EXCEPT !.status = "error"]
          /\ stored = work /\ ~ Recorded(LimitKey)

PromptInv ==
    /\ ~ open => pc = "off"
    /\ Recorded(EnqueueKey) => Begun(stored)
    /\ ~ Recorded(EnqueueKey) => AgentKeys(journal) = {} /\ ~ Recorded(LimitKey)
    /\ Recorded(LimitKey) => journal[LimitKey].status = "error"
    /\ pc \in {"first_answer", "record_prompt"} =>
          ~ Recorded(EnqueueKey) /\ stored = work /\ Begun(work)
    /\ pc = "first_answer" => work.status = "running"
    /\ pc \in Live \cup {"resume"} => Recorded(EnqueueKey) /\ Begun(cur)
    /\ pc = "resume" => cur = journal[EnqueueKey]

LimitInv ==
    /\ pc \in {"off", "enqueue", "first_answer", "record_prompt", "resume"} =>
          index = 0 /\ turnsDone = 0
    /\ pc \in {"step", "tools", "record"} /\ Goes => turnsDone < MaxTurns
    /\ pc \in {"stop", "record_stop"} => Goes /\ turnsDone >= MaxTurns

YieldInv == pc = "yield" => Waiting(stored, CallIds) /\ Recorded(EnqueueKey)

PlaceInv == ToolsInv /\ RecordInv /\ PromptInv /\ LimitInv /\ YieldInv

LEMMA ModelAnswersIs ==
    ASSUME NEW s, Conversation(s, issued), Begun(s), s.status = "running",
           issued \in Nat, faults \in Nat, ModelAnswers(s)
    PROVE  /\ issued' \in Nat /\ issued <= issued' /\ faults' \in Nat
           /\ stored' = work'
           /\ Conversation(work', issued')
           /\ Begun(work')
           /\ Len(work'.turns) = Len(s.turns)
           /\ LatestTurn(work').status # "awaiting_assistant"
           /\ Advance(s, work')
           /\ NoneRuns(s) => NoneRuns(work')
  <1>1. PICK n \in 0 .. MaxCalls, failed \in BOOLEAN :
           /\ issued + 1 .. issued + n \subseteq CallIds
           /\ issued' = issued + n
           /\ faults' = IF failed THEN faults + 1 ELSE faults
           /\ SaveWork(Answer(s, issued + 1 .. issued + n, failed))
    BY DEF ModelAnswers
  <1>. DEFINE calls == issued + 1 .. issued + n
              m == issued + n
  <1>2. n \in Nat
    BY ReplayAssumption
  <1>3. m \in Nat /\ issued <= m /\ faults' \in Nat
    BY <1>1, <1>2
  <1>4. calls \in SUBSET CallIds
    BY <1>1
  <1>5. \A c \in calls : issued < c /\ c <= m
    BY <1>2
  <1>6. work' = Answer(s, calls, failed) /\ stored' = work' /\ issued' = m
    BY <1>1 DEF SaveWork
  <1>. HIDE DEF calls, m
  <1>7. /\ Conversation(work', m)
        /\ Begun(work')
        /\ Len(work'.turns) = Len(s.turns)
        /\ LatestTurn(work').status # "awaiting_assistant"
        /\ Advance(s, work')
        /\ NoneRuns(s) => NoneRuns(work')
    BY <1>3, <1>4, <1>5, <1>6, AnswerIs
  <1>. QED  BY <1>3, <1>6, <1>7

LEMMA LeaveTyped ==
    ASSUME TypesInv, Leave
    PROVE  /\ Conversation(cur', issued)
           /\ Conversation(work', issued)
           /\ index' = 0 /\ turnsDone' = 0 /\ pc' = "off"
  BY EmptyIs DEF TypesInv, Leave

LEMMA TypesSameTables ==
    ASSUME TypesInv, UNCHANGED <<stored, journal, issued>>,
           Conversation(cur', issued), Conversation(work', issued),
           toolRun' \in [CallIds -> {"none", "running", "finished"}],
           pc' \in Stages, open' \in BOOLEAN,
           index' \in Nat, turnsDone' \in Nat,
           crashes' \in Nat, faults' \in Nat, waits' \in Nat
    PROVE  TypesInv'
  BY DEF TypesInv

LEMMA TypesStep ==
    ASSUME TypesInv, PlaceInv, Next
    PROVE  TypesInv'
  <1>. USE DEF tables, worker, outside, Stages
  <1>1. CASE GivePrompt
    <2>1. DOMAIN journal' = {}
      BY <1>1 DEF GivePrompt
    <2>2. Kept(journal', issued)
      BY <2>1 DEF Kept
    <2>. QED  BY <1>1, <2>2 DEF GivePrompt, TypesInv
  <1>2. CASE Start
    BY <1>2 DEF Start, TypesInv
  <1>3. CASE ReplayEnqueue
    <2>1. Conversation(cur', issued)
      BY <1>3 DEF ReplayEnqueue, Recorded, Kept, TypesInv
    <2>. QED  BY <1>3, <2>1 DEF ReplayEnqueue, TypesInv
  <1>4. CASE SavePrompt
    <2>1. Conversation(work', issued) /\ stored' = work'
      BY <1>4, EnqueueIs DEF SavePrompt, SaveWork, TypesInv
    <2>. QED  BY <1>4, <2>1 DEF SavePrompt, TypesInv
  <1>5. CASE FirstAnswer
    <2>1. /\ issued' \in Nat /\ issued <= issued' /\ faults' \in Nat
          /\ stored' = work' /\ Conversation(work', issued')
      BY <1>5, ModelAnswersIs DEF FirstAnswer, TypesInv, PlaceInv, PromptInv
    <2>2. Conversation(cur, issued') /\ Kept(journal, issued')
      BY <2>1, MoreCalls, MoreKept DEF TypesInv
    <2>. QED  BY <1>5, <2>1, <2>2 DEF FirstAnswer, TypesInv
  <1>6. CASE RecordPrompt
    <2>1. journal' = Added(journal, EnqueueKey, work)
      BY <1>6, RecordIs DEF RecordPrompt
    <2>2. Kept(journal', issued)
      BY <1>6, <2>1, KeptAdded DEF RecordPrompt, TypesInv, PlaceInv, PromptInv, OtherKeys
    <2>. QED  BY <1>6, <2>2 DEF RecordPrompt, TypesInv
  <1>7. CASE Resume
    BY <1>7 DEF Resume, TypesInv
  <1>8. CASE Ask
    <2>1. Begun(cur) /\ cur.status = "running"
      BY <1>8, NextStepIs DEF Ask, NewStep, TypesInv, PlaceInv, PromptInv, Live
    <2>2. /\ issued' \in Nat /\ issued <= issued' /\ faults' \in Nat
          /\ stored' = work' /\ Conversation(work', issued')
      BY <1>8, <2>1, ModelAnswersIs DEF Ask, TypesInv
    <2>3. Conversation(cur, issued') /\ Kept(journal, issued')
      BY <2>2, MoreCalls, MoreKept DEF TypesInv
    <2>. QED  BY <1>8, <2>2, <2>3 DEF Ask, TypesInv
  <1>9. CASE EndTurn
    <2>1. Begun(cur)
      BY <1>9 DEF EndTurn, NewStep, PlaceInv, PromptInv, Live
    <2>2. Conversation(work', issued) /\ stored' = work'
      BY <1>9, <2>1, CompleteIs DEF EndTurn, NewStep, SaveWork, TypesInv
    <2>. QED  BY <1>9, <2>2 DEF EndTurn, TypesInv
  <1>10. CASE StartTools
    BY <1>10 DEF StartTools, TypesInv
  <1>11. CASE SaveTools
    <2>1. Begun(cur)
      BY <1>11 DEF SaveTools, PlaceInv, PromptInv, Live
    <2>2. Conversation(work', issued) /\ stored' = work'
      BY <1>11, <2>1, FinishIs DEF SaveTools, SaveWork, TypesInv, PlaceInv, ToolsInv
    <2>3. pc' \in Stages /\ waits' \in Nat
      BY <1>11 DEF SaveTools, TypesInv
    <2>. QED  BY <1>11, <2>2, <2>3 DEF SaveTools, TypesInv
  <1>12. CASE Yield
    BY <1>12, LeaveTyped DEF Yield, TypesInv
  <1>13. ASSUME NEW c \in CallIds, BeginTool(c)
         PROVE  TypesInv'
    <2>1. toolRun' \in [CallIds -> {"none", "running", "finished"}]
      BY <1>13 DEF BeginTool, TypesInv
    <2>. QED  BY <1>13, <2>1 DEF BeginTool, TypesInv
  <1>14. ASSUME NEW c \in CallIds, EndTool(c)
         PROVE  TypesInv'
    <2>1. toolRun' \in [CallIds -> {"none", "running", "finished"}]
      BY <1>14 DEF EndTool, TypesInv
    <2>. QED  BY <1>14, <2>1 DEF EndTool, TypesInv
  <1>15. CASE RecordStep
    <2>1. journal' = Added(journal, StepKey, work)
      BY <1>15, RecordIs DEF RecordStep
    <2>2. AgentKey(StepKey) /\ Begun(work)
      BY <1>15, NextStepIs, KeysDiffer
         DEF RecordStep, StepKey, AgentKey, TypesInv, PlaceInv, RecordInv, PromptInv, Goes, Live
    <2>3. Kept(journal', issued)
      BY <2>1, <2>2, KeptAdded DEF TypesInv
    <2>. QED  BY <1>15, <2>3 DEF RecordStep, Proceed, TypesInv
  <1>16. CASE ReplayStep
    <2>1. Conversation(cur', issued)
      BY <1>16 DEF ReplayStep, Proceed, Recorded, Kept, TypesInv
    <2>. QED  BY <1>16, <2>1 DEF ReplayStep, Proceed, TypesInv
  <1>17. CASE CheckLimit
    BY <1>17 DEF CheckLimit, TypesInv
  <1>18. CASE StopAtLimit
    <2>1. Conversation(work', issued) /\ stored' = work'
      BY <1>18, ErrorIs DEF StopAtLimit, SaveWork, TypesInv, PlaceInv, PromptInv, Live
    <2>. QED  BY <1>18, <2>1 DEF StopAtLimit, TypesInv
  <1>19. CASE RecordStop
    <2>1. journal' = Added(journal, LimitKey, work)
      BY <1>19, RecordIs DEF RecordStop
    <2>2. Begun(work)
      BY <1>19, ErrorIs DEF RecordStop, TypesInv, PlaceInv, PromptInv, RecordInv, Live
    <2>3. Kept(journal', issued)
      BY <2>1, <2>2, KeptAdded DEF TypesInv, OtherKeys
    <2>. QED  BY <1>19, <2>3 DEF RecordStop, TypesInv
  <1>20. CASE ReplayStop
    <2>1. Conversation(cur', issued)
      BY <1>20 DEF ReplayStop, Recorded, Kept, TypesInv
    <2>. QED  BY <1>20, <2>1 DEF ReplayStop, TypesInv
  <1>21. CASE Finalize
    BY <1>21 DEF Finalize, TypesInv
  <1>22. CASE RecordFinal
    <2>1. journal' = Added(journal, FinalKey, cur)
      BY <1>22, RecordIs DEF RecordFinal
    <2>2. Kept(journal', issued)
      BY <1>22, <2>1, KeptAdded DEF RecordFinal, TypesInv, PlaceInv, PromptInv, Live, OtherKeys
    <2>. QED  BY <1>22, <2>2 DEF RecordFinal, TypesInv
  <1>23. CASE ReplayFinal
    BY <1>23 DEF ReplayFinal, TypesInv
  <1>24. CASE Complete
    <2>1. open' \in BOOLEAN /\ UNCHANGED <<stored, journal, toolRun, issued, crashes, faults, waits>>
      BY <1>24 DEF Complete
    <2>2. /\ Conversation(cur', issued) /\ Conversation(work', issued)
          /\ index' = 0 /\ turnsDone' = 0 /\ pc' = "off"
      BY <1>24, LeaveTyped DEF Complete
    <2>. QED  BY <2>1, <2>2, TypesSameTables DEF TypesInv
  <1>25. CASE Report
    <2>1. Conversation(stored', issued)
      BY <1>25, StatusIs DEF Report, SaveError, SaveErrorRow, TypesInv
    <2>. QED  BY <1>25, <2>1 DEF Report, SaveError, SaveErrorRow, TypesInv
  <1>26. CASE RecordReport
    <2>1. journal' = Added(journal, ErrorKey, cur)
      BY <1>26, RecordIs DEF RecordReport
    <2>2. Kept(journal', issued)
      BY <2>1, KeptAdded DEF TypesInv, OtherKeys
    <2>. QED  BY <1>26, <2>2 DEF RecordReport, TypesInv
  <1>27. CASE Fault
    BY <1>27 DEF Fault, TypesInv
  <1>28. CASE Crash
    BY <1>28, LeaveTyped DEF Crash, TypesInv
  <1>. QED
    BY <1>1, <1>2, <1>3, <1>4, <1>5, <1>6, <1>7, <1>8, <1>9, <1>10, <1>11, <1>12, <1>13, <1>14,
       <1>15, <1>16, <1>17, <1>18, <1>19, <1>20, <1>21, <1>22, <1>23, <1>24, <1>25, <1>26, <1>27,
       <1>28
       DEF Next, Progress

-----------------------------------------------------------------------------
(* Every step keeps the worker and what it has saved in their places.      *)

(* The worker is where nothing but the prompt and the tables counts.       *)
LEMMA PlaceElsewhere ==
    ASSUME PlaceInv, UNCHANGED <<stored, journal>>,
           pc' \in {"off", "enqueue", "complete", "report", "report_row", "record_report"},
           pc' \in {"off", "enqueue"} => index' = 0 /\ turnsDone' = 0,
           open' \/ pc' = "off"
    PROVE  PlaceInv'
  <1>. USE DEF PlaceInv, Recorded, Live
  <1>1. ToolsInv' /\ RecordInv' /\ YieldInv'
    BY DEF ToolsInv, RecordInv, YieldInv
  <1>2. PromptInv'
    BY DEF PromptInv
  <1>3. LimitInv'
    BY DEF LimitInv
  <1>. QED  BY <1>1, <1>2, <1>3

LEMMA PlaceOff ==
    ASSUME TypesInv, PlaceInv, Leave, UNCHANGED <<stored, journal>>
    PROVE  PlaceInv'
  BY PlaceElsewhere, LeaveTyped

LEMMA PlaceStepAway ==
    ASSUME TypesInv, PlaceInv,
           Start \/ Yield \/ Complete \/ ReplayFinal \/ Report \/ Fault \/ Crash
    PROVE  PlaceInv'
  <1>. USE DEF tables, worker, outside
  <1>0. pc # "off" => open
    BY DEF PlaceInv, PromptInv, TypesInv
  <1>1. CASE Start
    BY <1>1, PlaceElsewhere DEF Start, PlaceInv, LimitInv
  <1>2. CASE Yield
    BY <1>2, PlaceOff DEF Yield
  <1>3. CASE Complete
    BY <1>3, PlaceOff DEF Complete
  <1>4. CASE ReplayFinal
    BY <1>0, <1>4, PlaceElsewhere DEF ReplayFinal, AtEnd
  <1>5. CASE Report
    <2>1. /\ pc' \in {"complete", "report_row", "record_report"}
          /\ UNCHANGED <<journal, open>> /\ pc \in {"report", "report_row"}
      BY <1>5 DEF Report, SaveError, SaveErrorRow
    <2>2. CASE stored' = stored
      BY <1>0, <2>1, <2>2, PlaceElsewhere
    <2>3. CASE stored' = [stored EXCEPT !.status = "error"]
      <3>1. Begun(stored) => Begun(stored')
        BY <2>3, StatusIs DEF TypesInv, Begun
      <3>2. PromptInv'
        BY <1>0, <2>1, <3>1 DEF PlaceInv, PromptInv, Recorded, Live
      <3>. QED  BY <2>1, <3>2 DEF PlaceInv, ToolsInv, RecordInv, LimitInv, YieldInv
    <2>. QED  BY <1>5, <2>2, <2>3 DEF Report, SaveError, SaveErrorRow
  <1>6. CASE Fault
    BY <1>0, <1>6, PlaceElsewhere DEF Fault
  <1>7. CASE Crash
    BY <1>7, PlaceOff DEF Crash
  <1>. QED  BY <1>1, <1>2, <1>3, <1>4, <1>5, <1>6, <1>7

(* A name added to the journal beside those that count.                    *)
LEMMA PlaceNoted ==
    ASSUME TypesInv, PlaceInv,
           NEW key \in {FinalKey, ErrorKey}, NEW s, journal' = Added(journal, key, s),
           UNCHANGED <<stored, open>>, open, pc' = "complete"
    PROVE  PlaceInv'
  <1>1. /\ AgentKeys(journal') = AgentKeys(journal)
        /\ DOMAIN journal' = DOMAIN journal \cup {key}
        /\ \A k \in DOMAIN journal : journal'[k] = journal[k]
    <2>1. key \in OtherKeys
      BY DEF OtherKeys
    <2>2. AgentKeys(journal') = AgentKeys(journal)
      BY <2>1, AddedAgentKeys
    <2>. QED  BY <2>2 DEF Added
  <1>2. key # EnqueueKey /\ key # LimitKey
    BY KeysDiffer
  <1>3. Recorded(EnqueueKey)' = Recorded(EnqueueKey) /\ Recorded(LimitKey)' = Recorded(LimitKey)
    BY <1>1, <1>2 DEF Recorded
  <1>4. PromptInv'
    BY <1>1, <1>3 DEF PlaceInv, PromptInv, Recorded, Live
  <1>. QED  BY <1>3, <1>4 DEF PlaceInv, ToolsInv, RecordInv, LimitInv, YieldInv

LEMMA PlaceStepNote ==
    ASSUME TypesInv, PlaceInv, RecordFinal \/ RecordReport
    PROVE  PlaceInv'
  <1>0. pc # "off" => open
    BY DEF PlaceInv, PromptInv, TypesInv
  <1>1. CASE RecordFinal
    <2>1. journal' = Added(journal, FinalKey, cur)
      BY <1>1, RecordIs DEF RecordFinal
    <2>. QED  BY <1>0, <1>1, <2>1, PlaceNoted DEF RecordFinal, outside
  <1>2. CASE RecordReport
    <2>1. journal' = Added(journal, ErrorKey, cur)
      BY <1>2, RecordIs DEF RecordReport
    <2>. QED  BY <1>0, <1>2, <2>1, PlaceNoted DEF RecordReport, outside
  <1>. QED  BY <1>1, <1>2

LEMMA PlaceStepPrompt ==
    ASSUME TypesInv, PlaceInv,
           GivePrompt \/ ReplayEnqueue \/ SavePrompt \/ FirstAnswer \/ RecordPrompt \/ Resume
    PROVE  PlaceInv'
  <1>. USE DEF tables, worker, outside
  <1>0. pc # "off" => open
    BY DEF PlaceInv, PromptInv, TypesInv
  <1>1. CASE GivePrompt
    <2>1. DOMAIN journal' = {} /\ UNCHANGED <<pc, stored, index, turnsDone>> /\ open' = TRUE /\ pc = "off"
      BY <1>1 DEF GivePrompt
    <2>2. PromptInv'
      BY <2>1 DEF PromptInv, Recorded, AgentKeys, Live
    <2>3. LimitInv'
      BY <2>1 DEF LimitInv, PlaceInv
    <2>. QED  BY <2>1, <2>2, <2>3 DEF PlaceInv, ToolsInv, RecordInv, YieldInv
  <1>2. CASE ReplayEnqueue
    <2>1. Begun(cur')
      BY <1>2, KeysDiffer DEF ReplayEnqueue, Recorded, TypesInv, Kept
    <2>2. PromptInv'
      BY <1>0, <1>2, <2>1 DEF ReplayEnqueue, Recorded, PlaceInv, PromptInv, Live
    <2>3. LimitInv'
      BY <1>2 DEF ReplayEnqueue, LimitInv, PlaceInv
    <2>. QED  BY <1>2, <2>2, <2>3 DEF ReplayEnqueue, PlaceInv, ToolsInv, RecordInv, YieldInv
  <1>3. CASE SavePrompt
    <2>1. Begun(work') /\ work'.status = "running" /\ stored' = work'
      BY <1>3, EnqueueIs DEF SavePrompt, SaveWork, TypesInv
    <2>2. PromptInv'
      BY <1>0, <1>3, <2>1 DEF SavePrompt, Recorded, PlaceInv, PromptInv, Live
    <2>3. LimitInv'
      BY <1>3 DEF SavePrompt, LimitInv, PlaceInv
    <2>. QED  BY <1>3, <2>2, <2>3 DEF SavePrompt, PlaceInv, ToolsInv, RecordInv, YieldInv
  <1>4. CASE FirstAnswer
    <2>1. Begun(work') /\ stored' = work'
      BY <1>4, ModelAnswersIs DEF FirstAnswer, TypesInv, PlaceInv, PromptInv
    <2>2. PromptInv'
      BY <1>0, <1>4, <2>1 DEF FirstAnswer, Recorded, PlaceInv, PromptInv, Live
    <2>3. LimitInv'
      BY <1>4 DEF FirstAnswer, LimitInv, PlaceInv
    <2>. QED  BY <1>4, <2>2, <2>3 DEF FirstAnswer, PlaceInv, ToolsInv, RecordInv, YieldInv
  <1>5. CASE RecordPrompt
    <2>1. journal' = Added(journal, EnqueueKey, work)
      BY <1>5, RecordIs DEF RecordPrompt
    <2>2. /\ AgentKeys(journal') = AgentKeys(journal)
          /\ DOMAIN journal' = DOMAIN journal \cup {EnqueueKey}
          /\ \A k \in DOMAIN journal : journal'[k] = journal[k]
          /\ EnqueueKey \notin DOMAIN journal => journal'[EnqueueKey] = work
      <3>1. EnqueueKey \in OtherKeys
        BY DEF OtherKeys
      <3>2. AgentKeys(journal') = AgentKeys(journal)
        BY <2>1, <3>1, AddedAgentKeys
      <3>. QED  BY <2>1, <3>2 DEF Added
    <2>3. /\ EnqueueKey \notin DOMAIN journal
          /\ LimitKey \notin DOMAIN journal
          /\ stored = work /\ Begun(work)
      BY <1>5 DEF RecordPrompt, PlaceInv, PromptInv, Recorded
    <2>4. PromptInv'
      BY <1>0, <1>5, <2>2, <2>3, KeysDiffer DEF RecordPrompt, Recorded, PlaceInv, PromptInv, Live
    <2>5. LimitInv'
      BY <1>5 DEF RecordPrompt, LimitInv, PlaceInv
    <2>. QED  BY <1>5, <2>4, <2>5 DEF RecordPrompt, PlaceInv, ToolsInv, RecordInv, YieldInv
  <1>6. CASE Resume
    <2>1. Begun(cur') /\ Recorded(EnqueueKey)
      BY <1>6 DEF Resume, PlaceInv, PromptInv, Live
    <2>2. PromptInv'
      BY <1>0, <1>6, <2>1 DEF Resume, Recorded, PlaceInv, PromptInv, Live
    <2>3. LimitInv'
      BY <1>6, ReplayAssumption DEF Resume, LimitInv, PlaceInv
    <2>. QED  BY <1>6, <2>2, <2>3 DEF Resume, PlaceInv, ToolsInv, RecordInv, YieldInv
  <1>. QED  BY <1>1, <1>2, <1>3, <1>4, <1>5, <1>6

(* A step of the agent has been taken and saved.                           *)
LEMMA PlaceSaved ==
    ASSUME TypesInv, PlaceInv, pc \in {"step", "tools"}, Goes,
           pc' = "record", UNCHANGED <<journal, cur, index, turnsDone, open>>,
           stored' = work', Begun(work'), Advance(cur, work'),
           Past(work', NextStep(cur)), Longer(cur, work', NextStep(cur))
    PROVE  PlaceInv'
  <1>1. RecordInv'
    BY DEF RecordInv, Goes
  <1>2. PromptInv'
    BY DEF PlaceInv, PromptInv, Recorded, Live
  <1>3. LimitInv'
    BY DEF PlaceInv, LimitInv, Goes
  <1>. QED  BY <1>1, <1>2, <1>3 DEF PlaceInv, ToolsInv, YieldInv

LEMMA PlaceAsk ==
    ASSUME TypesInv, PlaceInv, Ask
    PROVE  PlaceInv'
  <1>. DEFINE k == NextStep(cur)
  <1>1. Begun(cur) /\ pc = "step" /\ k.type = "assistant"
    BY DEF Ask, NewStep, PlaceInv, PromptInv, Live
  <1>2. cur.status = "running" /\ Goes /\ k.turn = Len(cur.turns)
    BY <1>1, NextStepIs DEF TypesInv, Goes
  <1>3. /\ stored' = work'
        /\ Begun(work')
        /\ Len(work'.turns) = Len(cur.turns)
        /\ LatestTurn(work').status # "awaiting_assistant"
        /\ Advance(cur, work')
    BY <1>1, <1>2, ModelAnswersIs DEF Ask, TypesInv
  <1>4. Past(work', k)
    BY <1>1, <1>2, <1>3 DEF Past
  <1>5. Len(cur.turns) \in Nat
    BY <1>1, LatestIs DEF TypesInv
  <1>6. Longer(cur, work', k)
    BY <1>1, <1>3, <1>5 DEF Longer
  <1>7. pc' = "record" /\ UNCHANGED <<journal, cur, index, turnsDone, open>>
    BY DEF Ask
  <1>. QED  BY <1>1, <1>2, <1>3, <1>4, <1>6, <1>7, PlaceSaved

LEMMA PlaceEndTurn ==
    ASSUME TypesInv, PlaceInv, EndTurn
    PROVE  PlaceInv'
  <1>1. Begun(cur) /\ pc = "step" /\ NextStep(cur).type = "complete"
    BY DEF EndTurn, NewStep, PlaceInv, PromptInv, Live
  <1>2. Goes
    BY <1>1, NextStepIs DEF TypesInv, Goes
  <1>3. stored' = work' /\ work' = CompleteTurn(cur)
    BY DEF EndTurn, SaveWork
  <1>4. /\ Begun(work')
        /\ Advance(cur, work')
        /\ Past(work', NextStep(cur))
        /\ Longer(cur, work', NextStep(cur))
    BY <1>1, <1>3, CompleteIs DEF TypesInv
  <1>5. pc' = "record" /\ UNCHANGED <<journal, cur, index, turnsDone, open>>
    BY DEF EndTurn, outside
  <1>. QED  BY <1>1, <1>2, <1>3, <1>4, <1>5, PlaceSaved

LEMMA PlaceStartTools ==
    ASSUME TypesInv, PlaceInv, StartTools
    PROVE  PlaceInv'
  <1>. USE DEF tables, worker, outside
  <1>1. /\ pc = "step" /\ pc' = "tools" /\ NextStep(cur).type = "tool"
        /\ UNCHANGED <<stored, journal, cur, index, turnsDone, open>>
        /\ results' = [c \in NextStep(cur).calls |-> "none"]
    BY DEF StartTools, NewStep
  <1>2. ToolsInv'
    BY <1>1 DEF ToolsInv
  <1>3. PromptInv'
    BY <1>1 DEF PlaceInv, PromptInv, Recorded, Live
  <1>4. LimitInv'
    BY <1>1 DEF PlaceInv, LimitInv, Goes
  <1>. QED  BY <1>1, <1>2, <1>3, <1>4 DEF PlaceInv, RecordInv, YieldInv

LEMMA PlaceTool ==
    ASSUME TypesInv, PlaceInv, NEW c \in CallIds, BeginTool(c) \/ EndTool(c)
    PROVE  PlaceInv'
  <1>1. /\ pc = "tools" /\ pc' = "tools" /\ c \in DOMAIN results
        /\ UNCHANGED <<stored, journal, cur, index, turnsDone, open>>
    BY DEF BeginTool, EndTool, outside
  <1>2. /\ DOMAIN results' = DOMAIN results
        /\ \A d \in DOMAIN results : d # c => results'[d] = results[d] /\ toolRun'[d] = toolRun[d]
        /\ results'[c] \in {"executing", "running"} => toolRun'[c] = "running"
    <2>1. toolRun \in [CallIds -> {"none", "running", "finished"}]
      BY DEF TypesInv
    <2>2. DOMAIN results \subseteq CallIds
      BY <1>1, NextStepIs, UnsatisfiedIs DEF PlaceInv, ToolsInv, PromptInv, Live, TypesInv
    <2>3. CASE BeginTool(c)
      <3>1. CASE toolRun[c] = "finished"
        BY <2>1, <2>3, <2>2, <3>1 DEF BeginTool
      <3>2. CASE toolRun[c] # "finished"
        BY <2>1, <2>3, <2>2, <3>2 DEF BeginTool
      <3>. QED  BY <3>1, <3>2
    <2>4. CASE EndTool(c)
      <3>1. results[c] = "executing" /\ toolRun[c] = "running"
        BY <2>4, <1>1 DEF EndTool, PlaceInv, ToolsInv
      <3>2. CASE /\ results' = [results EXCEPT ![c] = "finished"]
                 /\ toolRun' = [toolRun EXCEPT ![c] = "finished"]
        BY <1>1, <2>1, <2>2, <3>2
      <3>3. CASE results' = [results EXCEPT ![c] = "running"] /\ UNCHANGED toolRun
        BY <2>1, <2>2, <3>1, <3>3
      <3>. QED  BY <2>4, <3>2, <3>3 DEF EndTool
    <2>. QED  BY <2>3, <2>4
  <1>3. ToolsInv'
    BY <1>1, <1>2 DEF PlaceInv, ToolsInv
  <1>4. PromptInv'
    BY <1>1 DEF PlaceInv, PromptInv, Recorded, Live
  <1>5. LimitInv'
    BY <1>1 DEF PlaceInv, LimitInv, Goes
  <1>. QED  BY <1>1, <1>3, <1>4, <1>5 DEF PlaceInv, RecordInv, YieldInv

LEMMA SaveToolsIs ==
    ASSUME TypesInv, PlaceInv, SaveTools
    PROVE  /\ pc = "tools" /\ Goes /\ Begun(cur)
           /\ stored' = work' /\ Begun(work')
           /\ Advance(cur, work')
           /\ Longer(cur, work', NextStep(cur))
           /\ pc' = "yield" => Waiting(stored', CallIds) /\ waits' = waits + 1
           /\ pc' # "yield" => /\ pc' = "record" /\ waits' = waits
                               /\ Past(work', NextStep(cur))
                               /\ NoneRuns(cur) => NoneRuns(work')
           /\ UNCHANGED <<journal, cur, toolRun, index, turnsDone, open, crashes>>
  <1>1. /\ pc = "tools"
        /\ stored' = work' /\ work' = FinishCalls(cur, results)
        /\ \A c \in DOMAIN results : results[c] \in {"finished", "running"}
        /\ UNCHANGED <<journal, cur, toolRun, index, turnsDone, open, crashes>>
    BY DEF SaveTools, SaveWork
  <1>2. /\ Begun(cur) /\ NextStep(cur).type = "tool" /\ DOMAIN results = NextStep(cur).calls
        /\ \A c \in DOMAIN results : results[c] = "running" => toolRun[c] = "running"
    BY <1>1 DEF PlaceInv, ToolsInv, PromptInv, Live
  <1>3. Goes
    BY <1>2, NextStepIs DEF TypesInv, Goes
  <1>4. /\ Begun(work')
        /\ Advance(cur, work')
        /\ Longer(cur, work', NextStep(cur))
        /\ \A c \in DOMAIN results : results[c] # "finished" => work'.calls[c] = "running"
        /\ (\A c \in DOMAIN results : results[c] = "finished") =>
              /\ Past(work', NextStep(cur))
              /\ NoneRuns(cur) => NoneRuns(work')
    BY <1>1, <1>2, FinishIs DEF TypesInv
  <1>5. DOMAIN results \subseteq CallIds
    BY <1>2, NextStepIs, UnsatisfiedIs DEF TypesInv
  <1>6. CASE Waiting(work', DOMAIN results)
    <2>1. pc' = "yield" /\ waits' = waits + 1
      BY <1>6 DEF SaveTools
    <2>2. Waiting(work', CallIds)
      BY <1>5, <1>6 DEF Waiting
    <2>3. Waiting(stored', CallIds)
      BY <1>1, <2>2
    <2>. QED  BY <1>1, <1>2, <1>3, <1>4, <2>1, <2>3
  <1>7. CASE ~ Waiting(work', DOMAIN results)
    <2>1. pc' = "record" /\ waits' = waits
      BY <1>7 DEF SaveTools
    <2>2. \A c \in DOMAIN results : results[c] = "finished"
      BY <1>1, <1>2, <1>4, <1>7 DEF Waiting
    <2>. QED  BY <1>1, <1>2, <1>3, <1>4, <2>1, <2>2
  <1>. QED  BY <1>6, <1>7

LEMMA PlaceSaveTools ==
    ASSUME TypesInv, PlaceInv, SaveTools
    PROVE  PlaceInv'
  <1>1. CASE pc' = "yield"
    <2>1. /\ Waiting(stored', CallIds) /\ stored' = work' /\ Begun(stored')
          /\ UNCHANGED <<journal, open, toolRun>> /\ pc = "tools"
      BY <1>1, SaveToolsIs
    <2>2. Waiting(stored, CallIds)'
      BY <2>1 DEF Waiting
    <2>3. PromptInv'
      BY <1>1, <2>1 DEF PlaceInv, PromptInv, Recorded, Live
    <2>4. YieldInv'
      BY <2>1, <2>2 DEF PlaceInv, PromptInv, YieldInv, Recorded, Live
    <2>. QED  BY <1>1, <2>3, <2>4 DEF PlaceInv, RecordInv, ToolsInv, LimitInv
  <1>2. CASE pc' # "yield"
    BY <1>2, SaveToolsIs, PlaceSaved
  <1>. QED  BY <1>1, <1>2

(* The step that is recorded has a name that no other entry has.           *)
LEMMA RecordStepIs ==
    ASSUME TypesInv, PlaceInv, RecordStep
    PROVE  /\ pc = "record" /\ Goes /\ Begun(cur)
           /\ journal' = Added(journal, StepKey, work)
           /\ StepKey = Key("agent", index, NextStep(cur))
           /\ AgentKey(StepKey)
           /\ AgentKeys(journal') = AgentKeys(journal) \cup {StepKey}
           /\ cur' = work /\ stored' = work /\ pc' = "limit" /\ index' = index + 1
           /\ turnsDone' = turnsDone + (IF NextStep(cur).type = "complete" THEN 1 ELSE 0)
           /\ UNCHANGED <<stored, work, toolRun, open, crashes, waits>>
  <1>1. pc = "record" /\ Goes /\ Begun(cur) /\ stored = work
    BY DEF RecordStep, PlaceInv, RecordInv, PromptInv, Live
  <1>2. journal' = Added(journal, StepKey, work)
    BY RecordIs DEF RecordStep
  <1>3. AgentKey(StepKey) /\ StepKey.name = "agent"
    BY <1>1, NextStepIs, KeysDiffer DEF StepKey, AgentKey, TypesInv, Goes
  <1>4. AgentKeys(journal') = AgentKeys(journal) \cup {StepKey}
    BY <1>2, <1>3, AddedAgentKeys
  <1>5. turnsDone' = turnsDone + (IF NextStep(cur).type = "complete" THEN 1 ELSE 0)
    BY DEF RecordStep, Proceed, TypesInv
  <1>. QED  BY <1>1, <1>2, <1>3, <1>4, <1>5 DEF RecordStep, Proceed, StepKey, outside

LEMMA PlaceRecordStep ==
    ASSUME TypesInv, PlaceInv, RecordStep
    PROVE  PlaceInv'
  <1>1. /\ pc = "record" /\ pc' = "limit" /\ UNCHANGED <<stored, open>> /\ cur' = work
        /\ journal' = Added(journal, StepKey, work)
        /\ AgentKey(StepKey)
    BY RecordStepIs
  <1>2. Begun(work) /\ Recorded(EnqueueKey)
    BY <1>1 DEF PlaceInv, RecordInv, PromptInv, Live
  <1>3. StepKey # LimitKey
    BY <1>1, KeysDiffer DEF AgentKey, OtherKeys
  <1>4. /\ Recorded(EnqueueKey)'
        /\ Recorded(LimitKey)' = Recorded(LimitKey)
        /\ Recorded(LimitKey) => journal'[LimitKey] = journal[LimitKey]
    BY <1>1, <1>2, <1>3 DEF Recorded, Added
  <1>5. PromptInv'
    BY <1>1, <1>2, <1>4 DEF PlaceInv, PromptInv, Live
  <1>. QED  BY <1>1, <1>5 DEF PlaceInv, ToolsInv, RecordInv, LimitInv, YieldInv

LEMMA ReplayStepIs ==
    ASSUME TypesInv, PlaceInv, ReplayStep
    PROVE  /\ pc = "step" /\ Goes /\ Begun(cur)
           /\ StepKey = Key("agent", index, NextStep(cur))
           /\ StepKey \in AgentKeys(journal)
           /\ cur' = journal[StepKey] /\ Begun(cur')
           /\ pc' = "limit" /\ index' = index + 1
           /\ turnsDone' = turnsDone + (IF NextStep(cur).type = "complete" THEN 1 ELSE 0)
           /\ UNCHANGED <<stored, journal, work, toolRun, open, crashes, waits>>
  <1>1. pc = "step" /\ Goes /\ Begun(cur) /\ StepKey \in DOMAIN journal
    BY DEF ReplayStep, Recorded, PlaceInv, PromptInv, Live, Goes
  <1>2. StepKey \in AgentKeys(journal) /\ StepKey \notin OtherKeys
    BY <1>1, KeysDiffer DEF AgentKeys, StepKey
  <1>3. cur' = journal[StepKey]
    BY DEF ReplayStep, Proceed
  <1>4. Begun(cur')
    BY <1>1, <1>2, <1>3 DEF TypesInv, Kept, OtherKeys
  <1>5. turnsDone' = turnsDone + (IF NextStep(cur).type = "complete" THEN 1 ELSE 0)
    BY DEF ReplayStep, Proceed, TypesInv
  <1>. QED  BY <1>1, <1>2, <1>3, <1>4, <1>5 DEF ReplayStep, Proceed, StepKey, tables, outside

LEMMA PlaceReplayStep ==
    ASSUME TypesInv, PlaceInv, ReplayStep
    PROVE  PlaceInv'
  <1>1. /\ pc = "step" /\ pc' = "limit" /\ UNCHANGED <<stored, journal, open>> /\ Begun(cur')
    BY ReplayStepIs
  <1>2. PromptInv'
    BY <1>1 DEF PlaceInv, PromptInv, Recorded, Live
  <1>. QED  BY <1>1, <1>2 DEF PlaceInv, ToolsInv, RecordInv, LimitInv, YieldInv

LEMMA PlaceCheckLimit ==
    ASSUME TypesInv, PlaceInv, CheckLimit
    PROVE  PlaceInv'
  <1>1. /\ pc = "limit" /\ pc' = (IF Goes /\ turnsDone >= MaxTurns THEN "stop" ELSE "step")
        /\ UNCHANGED <<stored, journal, cur, index, turnsDone, open>>
    BY DEF CheckLimit, LimitReached, Goes, tables, worker, outside
  <1>2. PromptInv'
    BY <1>1 DEF PlaceInv, PromptInv, Recorded, Live
  <1>3. LimitInv'
    BY <1>1, ReplayAssumption DEF LimitInv, Goes, TypesInv
  <1>. QED  BY <1>1, <1>2, <1>3 DEF PlaceInv, ToolsInv, RecordInv, YieldInv

LEMMA PlaceStopAtLimit ==
    ASSUME TypesInv, PlaceInv, StopAtLimit
    PROVE  PlaceInv'
  <1>1. /\ pc = "stop" /\ pc' = "record_stop" /\ ~ Recorded(LimitKey)
        /\ work' = [cur EXCEPT !.status = "error"] /\ stored' = work'
        /\ UNCHANGED <<journal, cur, index, turnsDone, open>>
    BY DEF StopAtLimit, SaveWork, outside
  <1>2. Begun(cur) /\ Begun(work')
    <2>1. Begun(cur)
      BY <1>1 DEF PlaceInv, PromptInv, Live
    <2>. QED  BY <1>1, <2>1, ErrorIs DEF TypesInv
  <1>3. RecordInv'
    BY <1>1 DEF RecordInv, Recorded
  <1>4. PromptInv'
    BY <1>1, <1>2 DEF PlaceInv, PromptInv, Recorded, Live
  <1>5. LimitInv'
    BY <1>1 DEF PlaceInv, LimitInv, Goes
  <1>. QED  BY <1>1, <1>3, <1>4, <1>5 DEF PlaceInv, ToolsInv, YieldInv

LEMMA RecordStopIs ==
    ASSUME TypesInv, PlaceInv, RecordStop
    PROVE  /\ pc = "record_stop" /\ Goes /\ turnsDone >= MaxTurns /\ Begun(cur)
           /\ journal' = Added(journal, LimitKey, work)
           /\ ~ Recorded(LimitKey) /\ Recorded(EnqueueKey)
           /\ AgentKeys(journal') = AgentKeys(journal)
           /\ work = [cur EXCEPT !.status = "error"]
           /\ Begun(work) /\ work.status = "error" /\ work.calls = cur.calls /\ Advance(cur, work)
           /\ cur' = work /\ stored = work /\ pc' = "step"
           /\ UNCHANGED <<stored, work, toolRun, index, turnsDone, open, crashes, waits>>
  <1>1. /\ pc = "record_stop" /\ Goes /\ turnsDone >= MaxTurns /\ Begun(cur)
        /\ ~ Recorded(LimitKey) /\ Recorded(EnqueueKey) /\ stored = work
        /\ work = [cur EXCEPT !.status = "error"]
    BY DEF RecordStop, PlaceInv, RecordInv, PromptInv, LimitInv, Live
  <1>2. Begun(work) /\ work.status = "error" /\ work.calls = cur.calls /\ Advance(cur, work)
    BY <1>1, ErrorIs DEF TypesInv
  <1>3. journal' = Added(journal, LimitKey, work)
    BY RecordIs DEF RecordStop
  <1>4. LimitKey \in OtherKeys
    BY DEF OtherKeys
  <1>5. AgentKeys(journal') = AgentKeys(journal)
    BY <1>3, <1>4, AddedAgentKeys
  <1>. QED  BY <1>1, <1>2, <1>3, <1>5 DEF RecordStop, outside

LEMMA PlaceRecordStop ==
    ASSUME TypesInv, PlaceInv, RecordStop
    PROVE  PlaceInv'
  <1>1. /\ pc' = "step" /\ cur' = work /\ open' = open /\ stored' = stored
        /\ Begun(work) /\ work.status = "error" /\ pc = "record_stop"
        /\ journal' = Added(journal, LimitKey, work)
        /\ ~ Recorded(LimitKey) /\ Recorded(EnqueueKey)
    BY RecordStopIs
  <1>2. /\ Recorded(EnqueueKey)' /\ Recorded(LimitKey)'
        /\ journal'[LimitKey] = work
    BY <1>1 DEF Recorded, Added
  <1>3. PromptInv'
    BY <1>1, <1>2 DEF PlaceInv, PromptInv, Live
  <1>4. LimitInv'
    BY <1>1, StepTypes DEF LimitInv, Goes
  <1>. QED  BY <1>1, <1>3, <1>4 DEF PlaceInv, ToolsInv, RecordInv, YieldInv

LEMMA ReplayStopIs ==
    ASSUME TypesInv, PlaceInv, ReplayStop
    PROVE  /\ pc = "stop" /\ pc' = "step" /\ Recorded(LimitKey)
           /\ cur' = journal[LimitKey] /\ Begun(cur') /\ cur'.status = "error"
           /\ UNCHANGED <<stored, journal, work, toolRun, index, turnsDone, open, crashes, waits>>
  <1>1. /\ pc = "stop" /\ pc' = "step" /\ Recorded(LimitKey) /\ cur' = journal[LimitKey]
        /\ UNCHANGED <<stored, journal, work, toolRun, index, turnsDone, open, crashes, waits>>
    BY DEF ReplayStop, tables, outside
  <1>2. Begun(cur')
    BY <1>1, KeysDiffer DEF TypesInv, Kept, Recorded
  <1>3. cur'.status = "error"
    BY <1>1 DEF PlaceInv, PromptInv
  <1>. QED  BY <1>1, <1>2, <1>3

LEMMA PlaceReplayStop ==
    ASSUME TypesInv, PlaceInv, ReplayStop
    PROVE  PlaceInv'
  <1>1. /\ pc = "stop" /\ pc' = "step" /\ Begun(cur') /\ cur'.status = "error"
        /\ UNCHANGED <<stored, journal, open>>
    BY ReplayStopIs
  <1>2. PromptInv'
    BY <1>1 DEF PlaceInv, PromptInv, Recorded, Live
  <1>3. LimitInv'
    BY <1>1, StepTypes DEF LimitInv, Goes
  <1>. QED  BY <1>1, <1>2, <1>3 DEF PlaceInv, ToolsInv, RecordInv, YieldInv

LEMMA PlaceFinalize ==
    ASSUME TypesInv, PlaceInv, Finalize
    PROVE  PlaceInv'
  <1>1. /\ pc = "step" /\ pc' = "record_final"
        /\ UNCHANGED <<stored, journal, cur, index, turnsDone, open>>
    BY DEF Finalize, AtEnd, worker, outside
  <1>2. PromptInv'
    BY <1>1 DEF PlaceInv, PromptInv, Recorded, Live
  <1>. QED  BY <1>1, <1>2 DEF PlaceInv, ToolsInv, RecordInv, LimitInv, YieldInv

LEMMA PlaceStep ==
    ASSUME TypesInv, PlaceInv, Next
    PROVE  PlaceInv'
  BY PlaceStepAway, PlaceStepNote, PlaceStepPrompt, PlaceAsk, PlaceEndTurn, PlaceStartTools,
     PlaceTool, PlaceSaveTools, PlaceRecordStep, PlaceReplayStep, PlaceCheckLimit,
     PlaceStopAtLimit, PlaceRecordStop, PlaceReplayStop, PlaceFinalize
     DEF Next, Progress

-----------------------------------------------------------------------------
(* While no worker is lost                                                 *)

(* Every recorded step is behind the worker: it starts again only to wait  *)
(* for a tool, and then from the stored conversation.                      *)
Straight ==
    /\ \A k, m \in AgentKeys(journal) : k.step = m.step => k = m
    /\ pc \in Live => PastAll(journal, cur)
    /\ pc \in {"off", "enqueue", "yield"} /\ open /\ Recorded(EnqueueKey) =>
          Waiting(stored, CallIds) /\ PastAll(journal, stored)
    /\ pc = "resume" =>
          PastAll(journal, stored) /\ (cur = stored \/ Waiting(stored, CallIds))
    /\ pc \in {"step", "tools", "limit", "stop", "record_final"} => stored = cur
    /\ open /\ Recorded(LimitKey) =>
          /\ pc \in {"step", "record_final", "complete", "report", "report_row", "record_report"}
          /\ pc = "step" => ~ Goes

LEMMA AdvanceAll ==
    ASSUME NEW J, NEW n, Kept(J, n), NEW s, NEW t, Advance(s, t), PastAll(J, s)
    PROVE  PastAll(J, t)
  <1>1. \A k \in AgentKeys(J) : AgentStep(k.step)
    BY AgentKeysAre DEF AgentKey
  <1>. QED  BY <1>1 DEF PastAll, Advance

LEMMA StraightPrompt ==
    ASSUME TypesInv, PlaceInv, Straight,
           \/ GivePrompt \/ Start \/ ReplayEnqueue \/ SavePrompt \/ FirstAnswer
           \/ RecordPrompt \/ Resume
    PROVE  Straight'
  <1>. USE DEF tables, worker, outside
  <1>0. pc # "off" => open
    BY DEF PlaceInv, PromptInv, TypesInv
  <1>1. CASE GivePrompt
    <2>1. DOMAIN journal' = {} /\ AgentKeys(journal') = {} /\ pc' = "off"
      BY <1>1 DEF GivePrompt, AgentKeys
    <2>. QED  BY <2>1 DEF Straight, Recorded, Live
  <1>2. CASE Start
    BY <1>2 DEF Start, Straight, Recorded, Waiting, Live
  <1>3. CASE ReplayEnqueue
    BY <1>0, <1>3 DEF ReplayEnqueue, Straight, Recorded, Waiting, Live
  <1>4. CASE SavePrompt
    BY <1>4 DEF SavePrompt, Straight, PlaceInv, PromptInv, Recorded, Live
  <1>5. CASE FirstAnswer
    BY <1>5 DEF FirstAnswer, Straight, PlaceInv, PromptInv, Recorded, Live
  <1>6. CASE RecordPrompt
    <2>1. journal' = Added(journal, EnqueueKey, work)
      BY <1>6, RecordIs DEF RecordPrompt
    <2>2. /\ EnqueueKey \notin DOMAIN journal
          /\ LimitKey \notin DOMAIN journal /\ AgentKeys(journal) = {} /\ stored = work
      BY <1>6 DEF RecordPrompt, PlaceInv, PromptInv, Recorded
    <2>3. AgentKeys(journal') = {}
      BY <2>1, <2>2, AddedAgentKeys DEF OtherKeys
    <2>4. LimitKey \notin DOMAIN journal'
      BY <2>1, <2>2, KeysDiffer DEF Added
    <2>5. pc' = "resume" /\ cur' = stored'
      BY <1>6, <2>2 DEF RecordPrompt
    <2>. QED  BY <2>3, <2>4, <2>5 DEF Straight, Recorded, PastAll, Live
  <1>7. CASE Resume
    <2>1. pc = "resume" /\ pc' = "step" /\ cur' = stored /\ UNCHANGED <<journal, stored, open>>
      BY <1>7 DEF Resume, Straight
    <2>2. PastAll(journal, stored)
      BY <2>1 DEF Straight
    <2>3. ~ (open /\ Recorded(LimitKey))
      BY <2>1 DEF Straight
    <2>. QED  BY <2>1, <2>2, <2>3 DEF Straight, Recorded, Live
  <1>. QED  BY <1>1, <1>2, <1>3, <1>4, <1>5, <1>6, <1>7

LEMMA StraightAgent ==
    ASSUME TypesInv, PlaceInv, Straight,
           \/ Ask \/ EndTurn \/ StartTools \/ SaveTools \/ CheckLimit \/ StopAtLimit
           \/ \E c \in CallIds : BeginTool(c) \/ EndTool(c)
    PROVE  Straight'
  <1>. USE DEF tables, worker, outside
  <1>0. pc # "off" => open
    BY DEF PlaceInv, PromptInv, TypesInv
  <1>1. CASE Ask \/ EndTurn
    <2>1. /\ pc = "step" /\ pc' = "record" /\ UNCHANGED <<journal, cur, open>>
          /\ NextStep(cur).type \in {"assistant", "complete"}
      BY <1>1 DEF Ask, EndTurn, NewStep
    <2>2. Goes
      BY <2>1, NextStepIs DEF PlaceInv, PromptInv, Live, TypesInv, Goes
    <2>. QED  BY <1>0, <2>1, <2>2 DEF Straight, Recorded, Live
  <1>2. CASE StartTools
    <2>1. pc = "step" /\ pc' = "tools" /\ UNCHANGED <<journal, stored, cur, open>> /\ NextStep(cur).type = "tool"
      BY <1>2 DEF StartTools, NewStep
    <2>2. Goes
      BY <2>1, NextStepIs DEF PlaceInv, PromptInv, Live, TypesInv, Goes
    <2>. QED  BY <1>0, <2>1, <2>2 DEF Straight, Recorded, Live
  <1>3. CASE SaveTools
    <2>1. /\ pc = "tools" /\ Advance(cur, work') /\ stored' = work' /\ UNCHANGED <<journal, cur, open, toolRun>>
          /\ pc' = "yield" => Waiting(stored', CallIds)
          /\ pc' # "yield" => pc' = "record"
      BY <1>3, SaveToolsIs
    <2>2. PastAll(journal, cur) /\ PastAll(journal, stored')
      BY <2>1, AdvanceAll DEF Straight, TypesInv, Live
    <2>3. pc' = "yield" => Waiting(stored, CallIds)'
      BY <2>1 DEF Waiting
    <2>. QED  BY <1>0, <2>1, <2>2, <2>3 DEF Straight, Recorded, Live
  <1>4. CASE CheckLimit
    <2>1. pc = "limit" /\ pc' \in {"stop", "step"} /\ UNCHANGED <<journal, stored, cur, open>>
      BY <1>4 DEF CheckLimit
    <2>. QED  BY <1>0, <2>1 DEF Straight, Recorded, Live
  <1>5. CASE StopAtLimit
    <2>1. pc = "stop" /\ pc' = "record_stop" /\ UNCHANGED <<journal, cur, open>>
      BY <1>5 DEF StopAtLimit
    <2>. QED  BY <1>0, <2>1 DEF Straight, Recorded, Live
  <1>6. ASSUME NEW c \in CallIds, BeginTool(c) \/ EndTool(c)
        PROVE  Straight'
    <2>1. pc = "tools" /\ pc' = "tools" /\ UNCHANGED <<journal, stored, cur, open>>
      BY <1>6 DEF BeginTool, EndTool
    <2>. QED  BY <1>0, <2>1 DEF Straight, Recorded, Live
  <1>. QED  BY <1>1, <1>2, <1>3, <1>4, <1>5, <1>6

LEMMA StraightRecord ==
    ASSUME TypesInv, PlaceInv, Straight,
           RecordStep \/ ReplayStep \/ RecordStop \/ ReplayStop
    PROVE  Straight'
  <1>0. pc # "off" => open
    BY DEF PlaceInv, PromptInv, TypesInv
  <1>1. CASE RecordStep
    <2>1. /\ pc = "record" /\ Goes /\ Begun(cur)
          /\ journal' = Added(journal, StepKey, work)
          /\ StepKey = Key("agent", index, NextStep(cur))
          /\ AgentKey(StepKey)
          /\ AgentKeys(journal') = AgentKeys(journal) \cup {StepKey}
          /\ cur' = work /\ stored' = work /\ pc' = "limit" /\ open' = open
      BY <1>1, RecordStepIs
    <2>2. StepKey.step = NextStep(cur)
      BY <2>1, KeysDiffer
    <2>3. ~ Past(cur, NextStep(cur)) /\ PastAll(journal, cur)
      BY <2>1, NextStepIs DEF TypesInv, Goes, Straight, Live
    <2>4. \A k \in AgentKeys(journal) : k.step # StepKey.step
      BY <2>2, <2>3 DEF PastAll
    <2>5. \A k, m \in AgentKeys(journal') : k.step = m.step => k = m
      BY <2>1, <2>4 DEF Straight
    <2>6. PastAll(journal, work) /\ Past(work, NextStep(cur))
      BY <2>1, <2>3, AdvanceAll DEF PlaceInv, RecordInv, TypesInv
    <2>7. PastAll(journal', cur')
      BY <2>1, <2>2, <2>6 DEF PastAll
    <2>8. ~ (open /\ Recorded(LimitKey))'
      <3>1. ~ (open /\ Recorded(LimitKey))
        BY <2>1 DEF Straight
      <3>2. StepKey # LimitKey
        BY <2>1, KeysDiffer DEF OtherKeys
      <3>. QED  BY <2>1, <3>1, <3>2 DEF Recorded, Added
    <2>. QED  BY <2>1, <2>5, <2>7, <2>8 DEF Straight, Live
  <1>2. CASE ReplayStep
    <2>1. /\ pc = "step" /\ Goes /\ Begun(cur) /\ StepKey \in AgentKeys(journal)
          /\ StepKey = Key("agent", index, NextStep(cur))
      BY <1>2, ReplayStepIs
    <2>2. Past(cur, NextStep(cur))
      BY <2>1, KeysDiffer DEF Straight, Live, PastAll
    <2>. QED  BY <2>1, <2>2, NextStepIs DEF TypesInv, Goes
  <1>3. CASE RecordStop
    <2>1. /\ pc = "record_stop"
          /\ AgentKeys(journal') = AgentKeys(journal)
          /\ work.status = "error" /\ Advance(cur, work)
          /\ cur' = work /\ stored' = work /\ pc' = "step"
      BY <1>3, RecordStopIs
    <2>2. PastAll(journal, work)
      BY <2>1, AdvanceAll DEF TypesInv, Straight, Live
    <2>3. PastAll(journal', cur')
      BY <2>1, <2>2 DEF PastAll
    <2>4. ~ Goes'
      BY <2>1, StepTypes DEF Goes
    <2>. QED  BY <2>1, <2>3, <2>4 DEF Straight, Live
  <1>4. CASE ReplayStop
    BY <1>0, <1>4, ReplayStopIs DEF Straight
  <1>. QED  BY <1>1, <1>2, <1>3, <1>4

LEMMA StraightEnd ==
    ASSUME TypesInv, PlaceInv, Straight,
           \/ Finalize \/ RecordFinal \/ ReplayFinal \/ Complete
           \/ Report \/ RecordReport \/ Fault \/ Yield
    PROVE  Straight'
  <1>. USE DEF tables, worker, outside
  <1>0. pc # "off" => open
    BY DEF PlaceInv, PromptInv, TypesInv
  <1>1. CASE Finalize
    <2>1. /\ pc = "step" /\ pc' = "record_final" /\ ~ Goes
          /\ UNCHANGED <<journal, stored, cur, open>>
      BY <1>1 DEF Finalize, AtEnd, Goes
    <2>. QED  BY <2>1 DEF Straight, Recorded, Live
  <1>2. ASSUME NEW key \in {FinalKey, ErrorKey}, journal' = Added(journal, key, cur),
               pc \in {"record_final", "record_report"}, pc' = "complete", open' = open
        PROVE  Straight'
    <2>1. AgentKeys(journal') = AgentKeys(journal)
      BY <1>2, AddedAgentKeys DEF OtherKeys
    <2>. QED  BY <1>2, <2>1 DEF Straight, Recorded, Live
  <1>3. CASE RecordFinal
    <2>1. journal' = Added(journal, FinalKey, cur)
      BY <1>3, RecordIs DEF RecordFinal
    <2>. QED  BY <1>2, <1>3, <2>1 DEF RecordFinal
  <1>4. CASE RecordReport
    <2>1. journal' = Added(journal, ErrorKey, cur)
      BY <1>4, RecordIs DEF RecordReport
    <2>. QED  BY <1>2, <1>4, <2>1 DEF RecordReport
  <1>5. CASE ReplayFinal
    <2>1. pc = "step" /\ pc' = "complete" /\ UNCHANGED <<journal, open>>
      BY <1>5 DEF ReplayFinal, AtEnd
    <2>. QED  BY <2>1 DEF Straight, Recorded, Live
  <1>6. CASE Complete
    <2>1. pc' = "off" /\ open' = FALSE /\ journal' = journal
      BY <1>6 DEF Complete, Leave
    <2>. QED  BY <2>1 DEF Straight, Live
  <1>7. CASE Report
    <2>1. /\ pc \in {"report", "report_row"} /\ pc' \in {"complete", "report_row", "record_report"}
          /\ UNCHANGED <<journal, open>>
      BY <1>7 DEF Report, SaveError, SaveErrorRow
    <2>. QED  BY <2>1 DEF Straight, Recorded, Live
  <1>8. CASE Fault
    <2>1. pc' = "report" /\ UNCHANGED <<journal, open>>
      BY <1>8 DEF Fault
    <2>. QED  BY <2>1 DEF Straight, Recorded, Live
  <1>9. CASE Yield
    <2>1. pc = "yield" /\ pc' = "off" /\ UNCHANGED <<journal, stored, toolRun, open>>
      BY <1>9 DEF Yield, Leave
    <2>2. ~ (open /\ Recorded(LimitKey))
      BY <2>1 DEF Straight
    <2>. QED  BY <2>1, <2>2 DEF Straight, Recorded, Waiting, Live
  <1>. QED  BY <1>1, <1>3, <1>4, <1>5, <1>6, <1>7, <1>8, <1>9

LEMMA StraightStep ==
    ASSUME TypesInv, PlaceInv, crashes = 0 => Straight, Next
    PROVE  (crashes = 0 => Straight)'
  <1>. SUFFICES ASSUME crashes' = 0
                PROVE  Straight'
    OBVIOUS
  <1>1. CASE Crash
    <2>1. crashes' = crashes + 1 /\ crashes \in Nat
      BY <1>1 DEF Crash, TypesInv
    <2>. QED  BY <2>1
  <1>2. CASE ~ Crash
    <2>1. crashes = 0
      BY <1>2 DEF Next, Progress, GivePrompt, Start, ReplayEnqueue, SavePrompt, FirstAnswer,
                  RecordPrompt, Resume, Ask, EndTurn, StartTools, BeginTool, EndTool, SaveTools,
                  Yield, RecordStep, ReplayStep, CheckLimit, StopAtLimit, RecordStop, ReplayStop,
                  Finalize, RecordFinal, ReplayFinal, Complete, Fault, Report,
                  SaveError, SaveErrorRow, RecordReport, outside
    <2>. QED
      BY <1>2, <2>1, StraightPrompt, StraightAgent, StraightRecord, StraightEnd DEF Next, Progress
  <1>. QED  BY <1>1, <1>2

-----------------------------------------------------------------------------
(* While no step waits                                                     *)

(* The entry a worker that has come to position i has its conversation     *)
(* from.                                                                   *)
Place(J, j, i) ==
    \/ j = EnqueueKey /\ i = 0
    \/ j \in AgentKeys(J) /\ i = j.index + 1

Stands(J, s, i) == \E j \in DOMAIN J : Place(J, j, i) /\ s = J[j]

First(J) == Len(J[EnqueueKey].turns)

(* k records the step that the conversation of j asks for.                 *)
Linked(J, j, k) ==
    /\ k.step = NextStep(J[j])
    /\ Longer(J[j], J[k], k.step)
    /\ Len(J[j].turns) < First(J) + MaxTurns

(* The steps in the journal are one chain, counted from zero.              *)
Links(J) ==
    /\ \A j \in DOMAIN J : NoneRuns(J[j])
    /\ \A k, m \in AgentKeys(J) : k.index = m.index => k = m
    /\ \A m \in AgentKeys(J) : \A i \in Nat :
          i < m.index => \E k \in AgentKeys(J) : k.index = i
    /\ \A j \in DOMAIN J : \A k \in AgentKeys(J) : Place(J, j, k.index) => Linked(J, j, k)
    /\ \A k, m \in AgentKeys(J) : k.index <= m.index => Past(J[m], k.step)

Tip(J, j) ==
    /\ j = EnqueueKey \/ j \in AgentKeys(J)
    /\ \A k \in AgentKeys(J) : ~ Place(J, j, k.index)

(* What the chain ends in, compared with the stored conversation s: it has *)
(* been saved, or its next step may have been; an error may have been      *)
(* reported since.                                                         *)
Ends(J, s) ==
    /\ NoneRuns(s)
    /\ LimitKey \notin DOMAIN J =>
          \A j \in DOMAIN J : Tip(J, j) => SameContext(s, J[j]) \/ NextStep(J[j]) # NoStep
    /\ LimitKey \in DOMAIN J =>
          /\ SameContext(s, J[LimitKey])
          /\ \A j \in DOMAIN J : Tip(J, j) => /\ NextStep(J[j]) # NoStep
                                              /\ Len(J[j].turns) >= First(J) + MaxTurns

LEMMA NoneAhead ==
    ASSUME NEW J, NEW n, Kept(J, n), Links(J),
           NEW j \in DOMAIN J, NEW i \in Nat, Place(J, j, i),
           Key("agent", i, NextStep(J[j])) \notin DOMAIN J
    PROVE  \A k \in AgentKeys(J) : k.index < i
  <1>. SUFFICES ASSUME NEW k \in AgentKeys(J), ~ (k.index < i)
                PROVE  FALSE
    OBVIOUS
  <1>1. k.index \in Nat
    BY AgentKeysAre DEF AgentKey
  <1>2. PICK m \in AgentKeys(J) : m.index = i
    BY <1>1 DEF Links
  <1>3. m.step = NextStep(J[j])
    BY <1>2 DEF Links, Linked
  <1>4. m = Key("agent", m.index, m.step) /\ m \in DOMAIN J
    BY AgentKeysAre DEF AgentKey
  <1>. QED  BY <1>2, <1>3, <1>4

LEMMA OnlyTip ==
    ASSUME NEW J, NEW n, Kept(J, n), Links(J),
           NEW j \in DOMAIN J, NEW i \in Nat, Place(J, j, i),
           \A k \in AgentKeys(J) : k.index < i
    PROVE  /\ Tip(J, j)
           /\ \A t \in DOMAIN J : Tip(J, t) => t = j
  <1>1. \A k \in AgentKeys(J) : k.index \in Nat /\ k # EnqueueKey
    BY AgentKeysAre DEF AgentKey, OtherKeys
  <1>2. Tip(J, j)
    BY <1>1 DEF Tip, Place
  <1>3. ASSUME NEW t \in DOMAIN J, Tip(J, t), t # j
        PROVE  FALSE
    <2>1. CASE t = EnqueueKey
      <3>1. j \in AgentKeys(J) /\ i = j.index + 1
        BY <1>3, <2>1 DEF Place
      <3>2. PICK k \in AgentKeys(J) : k.index = 0
        BY <1>1, <3>1 DEF Links
      <3>. QED  BY <1>3, <2>1, <3>2 DEF Tip, Place
    <2>2. CASE t \in AgentKeys(J)
      <3>1. t.index \in Nat /\ t.index < i
        BY <1>1, <2>2
      <3>2. j \in AgentKeys(J) /\ i = j.index + 1
        BY <3>1 DEF Place
      <3>3. t.index # j.index
        BY <1>3, <2>2, <3>2 DEF Links
      <3>4. t.index + 1 <= j.index /\ j.index \in Nat
        BY <1>1, <3>1, <3>2, <3>3
      <3>5. PICK k \in AgentKeys(J) : k.index = t.index + 1
        <4>1. CASE t.index + 1 = j.index
          BY <3>2, <4>1
        <4>2. CASE t.index + 1 < j.index
          BY <3>1, <3>2, <4>2 DEF Links
        <4>. QED  BY <3>1, <3>4, <4>1, <4>2
      <3>. QED  BY <1>3, <2>2, <3>5 DEF Tip, Place
    <2>. QED  BY <1>3, <2>1, <2>2 DEF Tip
  <1>. QED  BY <1>2, <1>3

(* The conversation may be saved while its step is on the way.             *)
LEMMA EndsSaved ==
    ASSUME NEW J, NEW n, Kept(J, n), Links(J),
           NEW j \in DOMAIN J, NEW i \in Nat, Place(J, j, i),
           \A k \in AgentKeys(J) : k.index < i,
           NextStep(J[j]) # NoStep, LimitKey \notin DOMAIN J,
           NEW s, NoneRuns(s)
    PROVE  Ends(J, s)
  <1>1. \A t \in DOMAIN J : Tip(J, t) => t = j
    BY OnlyTip
  <1>. QED  BY <1>1 DEF Ends

(* The conversation a worker goes on from is not at its limit.             *)
LEMMA LimitUnrecorded ==
    ASSUME NEW J, NEW n, Kept(J, n), Links(J), NEW s, Ends(J, s),
           NEW j \in DOMAIN J, NEW i \in Nat, Place(J, j, i),
           \A k \in AgentKeys(J) : k.index < i,
           ~ (Len(J[j].turns) >= First(J) + MaxTurns)
    PROVE  LimitKey \notin DOMAIN J
  BY OnlyTip DEF Ends

LEMMA LinksGrow ==
    ASSUME NEW J, NEW n, Kept(J, n), Links(J), EnqueueKey \in DOMAIN J,
           NEW j \in DOMAIN J, NEW i \in Nat, Place(J, j, i),
           \A k \in AgentKeys(J) : k.index < i,
           NEW step, step = NextStep(J[j]), AgentStep(step), Len(J[j].turns) < First(J) + MaxTurns,
           NEW s, NoneRuns(s), Advance(J[j], s), Past(s, step), Longer(J[j], s, step),
           NEW key, key = Key("agent", i, step),
           NEW K, K = Added(J, key, s)
    PROVE  /\ Links(K)
           /\ Place(K, key, i + 1) /\ key \in DOMAIN K /\ K[key] = s
           /\ First(K) = First(J)
           /\ \A k \in AgentKeys(K) : k.index < i + 1
  <1>1. key.name = "agent" /\ key.index = i /\ key.step = step /\ key \notin OtherKeys
    BY KeysDiffer
  <1>2. AgentKeys(K) = AgentKeys(J) \cup {key}
    BY <1>1, AddedAgentKeys
  <1>3. key \notin DOMAIN J
    BY <1>1 DEF AgentKeys
  <1>4. /\ DOMAIN K = DOMAIN J \cup {key}
        /\ \A k \in DOMAIN J : K[k] = J[k]
        /\ K[key] = s
    BY <1>3 DEF Added
  <1>5. \A k \in AgentKeys(J) : k \in DOMAIN J /\ k.index \in Nat /\ AgentStep(k.step) /\ k # EnqueueKey
    BY AgentKeysAre DEF AgentKey, OtherKeys
  <1>6. First(K) = First(J)
    BY <1>4 DEF First
  <1>7. Place(K, key, i + 1)
    BY <1>1, <1>2 DEF Place
  <1>8. \A k \in AgentKeys(K) : k.index < i + 1
    BY <1>1, <1>2, <1>5
  <1>9. \A m \in DOMAIN K : NoneRuns(K[m])
    BY <1>4 DEF Links
  <1>10. \A k, m \in AgentKeys(K) : k.index = m.index => k = m
    BY <1>1, <1>2 DEF Links
  <1>11. ASSUME NEW m \in AgentKeys(K), NEW h \in Nat, h < m.index
         PROVE  \E k \in AgentKeys(K) : k.index = h
    <2>1. CASE m \in AgentKeys(J)
      BY <1>2, <1>11, <2>1 DEF Links
    <2>2. CASE m = key
      <3>1. j \in AgentKeys(J) /\ i = j.index + 1
        BY <1>1, <1>11, <2>2 DEF Place
      <3>2. CASE h = j.index
        BY <1>2, <3>1, <3>2
      <3>3. CASE h < j.index
        BY <1>2, <3>1, <3>3 DEF Links
      <3>. QED  BY <1>1, <1>5, <1>11, <2>2, <3>1, <3>2, <3>3
    <2>. QED  BY <1>2, <2>1, <2>2
  <1>12. ASSUME NEW m \in DOMAIN K, NEW k \in AgentKeys(K), Place(K, m, k.index)
         PROVE  Linked(K, m, k)
    <2>1. m # key
      BY <1>1, <1>8, <1>12, KeysDiffer DEF Place, OtherKeys
    <2>2. m \in DOMAIN J /\ K[m] = J[m] /\ Place(J, m, k.index)
      BY <1>2, <1>4, <1>12, <2>1 DEF Place
    <2>3. CASE k \in AgentKeys(J)
      <3>1. Linked(J, m, k)
        BY <2>2, <2>3 DEF Links
      <3>. QED  BY <1>4, <1>5, <1>6, <2>2, <2>3, <3>1 DEF Linked
    <2>4. CASE k = key
      <3>1. m = j
        BY <1>1, <1>5, <2>2, <2>4 DEF Place, Links
      <3>. QED  BY <1>1, <1>4, <1>6, <2>2, <2>4, <3>1 DEF Linked
    <2>. QED  BY <1>2, <2>3, <2>4
  <1>13. ASSUME NEW k \in AgentKeys(K), NEW m \in AgentKeys(K), k.index <= m.index
         PROVE  Past(K[m], k.step)
    <2>1. CASE k = key
      <3>1. m = key
        BY <1>1, <1>2, <1>5, <1>13, <2>1
      <3>. QED  BY <1>1, <1>4, <2>1, <3>1
    <2>2. CASE k \in AgentKeys(J) /\ m \in AgentKeys(J)
      BY <1>4, <1>5, <1>13, <2>2 DEF Links
    <2>3. CASE k \in AgentKeys(J) /\ m = key
      <3>1. k.index < i /\ k.index \in Nat
        BY <1>5, <2>3
      <3>2. j \in AgentKeys(J) /\ i = j.index + 1
        BY <3>1 DEF Place
      <3>3. Past(J[j], k.step)
        BY <1>5, <2>3, <3>1, <3>2 DEF Links
      <3>. QED  BY <1>4, <1>5, <2>3, <3>3 DEF Advance
    <2>. QED  BY <1>2, <2>1, <2>2, <2>3
  <1>14. Links(K)
    BY <1>9, <1>10, <1>11, <1>12, <1>13 DEF Links
  <1>. QED  BY <1>4, <1>6, <1>7, <1>8, <1>14

LEMMA EndsGrow ==
    ASSUME NEW J, NEW n, Kept(J, n), Links(J),
           NEW key, AgentKey(key), NEW s, NoneRuns(s), LimitKey \notin DOMAIN J,
           NEW K, K = Added(J, key, s), Kept(K, n), Links(K),
           NEW i \in Nat, Place(K, key, i), key \in DOMAIN K, K[key] = s,
           \A k \in AgentKeys(K) : k.index < i
    PROVE  Ends(K, s)
  <1>1. \A t \in DOMAIN K : Tip(K, t) => t = key
    BY OnlyTip
  <1>2. key # LimitKey
    BY KeysDiffer DEF AgentKey, OtherKeys
  <1>3. LimitKey \notin DOMAIN K
    BY <1>2 DEF Added
  <1>4. SameContext(s, s)
    BY SameIs DEF Kept
  <1>. QED  BY <1>1, <1>3, <1>4 DEF Ends

(* An error that is reported changes the status alone.                     *)
LEMMA EndsError ==
    ASSUME NEW J, NEW s, NEW n \in Nat, Conversation(s, n), Ends(J, s),
           NEW r, r = [s EXCEPT !.status = "error"]
    PROVE  Ends(J, r)
  <1>1. NoneRuns(r) /\ \A t : SameContext(s, t) <=> SameContext(r, t)
    BY StatusIs DEF Ends, NoneRuns
  <1>. QED  BY <1>1 DEF Ends

(* An entry that is no step leaves the chain as it is.                     *)
LEMMA LinksNoted ==
    ASSUME NEW J, NEW n, Kept(J, n), Links(J),
           EnqueueKey \notin DOMAIN J => AgentKeys(J) = {},
           NEW key \in {LimitKey, FinalKey, ErrorKey}, NEW s, NoneRuns(s),
           NEW K, K = Added(J, key, s)
    PROVE  /\ Links(K)
           /\ AgentKeys(K) = AgentKeys(J)
           /\ \A k \in DOMAIN J : k \in DOMAIN K /\ K[k] = J[k]
           /\ \A k \in DOMAIN K : \A i : Place(K, k, i) => k \in DOMAIN J /\ Place(J, k, i)
           /\ \A k, i : Place(J, k, i) => Place(K, k, i)
           /\ \A k \in DOMAIN K : Tip(K, k) => k \in DOMAIN J /\ Tip(J, k)
           /\ EnqueueKey \in DOMAIN J => First(K) = First(J)
  <1>1. key \in OtherKeys /\ key # EnqueueKey
    BY KeysDiffer DEF OtherKeys
  <1>2. AgentKeys(K) = AgentKeys(J)
    BY <1>1, AddedAgentKeys
  <1>3. /\ DOMAIN K = DOMAIN J \cup {key}
        /\ \A k \in DOMAIN J : K[k] = J[k]
        /\ key \notin DOMAIN J => K[key] = s
    BY DEF Added
  <1>4. \A k \in AgentKeys(J) : k \in DOMAIN J /\ k # key
    BY <1>1, AgentKeysAre
  <1>5. \A k, i : Place(J, k, i) <=> Place(K, k, i)
    BY <1>2 DEF Place
  <1>6. \A k \in DOMAIN K : \A i : Place(K, k, i) => k \in DOMAIN J
    BY <1>1, <1>2, <1>3, <1>4 DEF Place
  <1>7. \A k \in DOMAIN K : Tip(K, k) => k \in DOMAIN J /\ Tip(J, k)
    BY <1>1, <1>2, <1>3, <1>4, <1>5 DEF Tip
  <1>8. EnqueueKey \in DOMAIN J => First(K) = First(J)
    BY <1>3 DEF First
  <1>9. \A j \in DOMAIN K : NoneRuns(K[j])
    BY <1>3 DEF Links
  <1>10. ASSUME NEW j \in DOMAIN K, NEW k \in AgentKeys(K), Place(K, j, k.index)
         PROVE  Linked(K, j, k)
    <2>1. j \in DOMAIN J /\ Place(J, j, k.index) /\ k \in AgentKeys(J)
      BY <1>2, <1>5, <1>6, <1>10
    <2>2. Linked(J, j, k)
      BY <2>1 DEF Links
    <2>. QED  BY <1>3, <1>4, <1>8, <2>1, <2>2 DEF Linked
  <1>11. \A k, m \in AgentKeys(K) : k.index <= m.index => Past(K[m], k.step)
    BY <1>2, <1>3, <1>4 DEF Links
  <1>12. Links(K)
    BY <1>2, <1>9, <1>10, <1>11 DEF Links
  <1>. QED  BY <1>2, <1>3, <1>5, <1>6, <1>7, <1>8, <1>12

-----------------------------------------------------------------------------

ChainInv ==
    /\ Links(journal)
    /\ Ends(journal, stored)
    /\ NoneRuns(cur) /\ NoneRuns(work)
    /\ pc \in Live =>
          \/ Stands(journal, cur, index)
          \/ pc \in {"step", "record_final"} /\ Recorded(LimitKey) /\ cur = journal[LimitKey]
    /\ pc \in {"tools", "record"} => \A k \in AgentKeys(journal) : k.index < index
    /\ pc \in Live /\ Stands(journal, cur, index) /\ cur.status = "running" =>
          turnsDone + First(journal) = Len(cur.turns)
    /\ pc = "record_final" => SameContext(stored, cur)

LEMMA ChainElsewhere ==
    ASSUME ChainInv, UNCHANGED <<stored, journal>>,
           NoneRuns(cur'), NoneRuns(work'), pc' \in Stages \ Live
    PROVE  ChainInv'
  BY DEF ChainInv, Live, Stages

LEMMA ChainAway ==
    ASSUME TypesInv, PlaceInv, ChainInv,
           \/ Start \/ ReplayEnqueue \/ Yield \/ Complete \/ ReplayFinal
           \/ Report \/ Fault \/ Crash
    PROVE  ChainInv'
  <1>. USE DEF tables, worker, outside, Live, Stages
  <1>0. NoneRuns(cur) /\ NoneRuns(work)
    BY DEF ChainInv
  <1>1. ASSUME Leave PROVE NoneRuns(cur') /\ NoneRuns(work') /\ pc' = "off"
    BY <1>1, EmptyIs DEF Leave
  <1>2. CASE Start
    BY <1>0, <1>2, ChainElsewhere DEF Start
  <1>3. CASE ReplayEnqueue
    <2>1. NoneRuns(cur')
      BY <1>3 DEF ReplayEnqueue, Recorded, ChainInv, Links
    <2>. QED  BY <1>0, <1>3, <2>1, ChainElsewhere DEF ReplayEnqueue
  <1>4. CASE Yield
    BY <1>1, <1>4, ChainElsewhere DEF Yield
  <1>5. CASE Complete
    BY <1>1, <1>5, ChainElsewhere DEF Complete
  <1>6. CASE ReplayFinal
    BY <1>0, <1>6, ChainElsewhere DEF ReplayFinal
  <1>7. CASE Report
    <2>1. pc' \in {"complete", "report_row", "record_report"} /\ UNCHANGED <<journal, cur, work>>
      BY <1>7 DEF Report, SaveError, SaveErrorRow
    <2>2. CASE stored' = stored
      BY <1>0, <2>1, <2>2, ChainElsewhere
    <2>3. CASE stored' = [stored EXCEPT !.status = "error"]
      <3>1. Ends(journal, stored')
        BY <2>3, EndsError DEF ChainInv, TypesInv
      <3>. QED  BY <2>1, <3>1 DEF ChainInv
    <2>. QED  BY <1>7, <2>2, <2>3 DEF Report, SaveError, SaveErrorRow
  <1>8. CASE Fault
    BY <1>0, <1>8, ChainElsewhere DEF Fault
  <1>9. CASE Crash
    BY <1>1, <1>9, ChainElsewhere DEF Crash
  <1>. QED  BY <1>2, <1>3, <1>4, <1>5, <1>6, <1>7, <1>8, <1>9

LEMMA ChainPrompt ==
    ASSUME TypesInv, PlaceInv, ChainInv,
           GivePrompt \/ SavePrompt \/ FirstAnswer \/ RecordPrompt \/ Resume
    PROVE  ChainInv'
  <1>. USE DEF tables, worker, outside, Live
  <1>1. CASE GivePrompt
    <2>1. DOMAIN journal' = {} /\ AgentKeys(journal') = {}
      BY <1>1 DEF GivePrompt, AgentKeys
    <2>2. Links(journal')
      BY <2>1 DEF Links
    <2>3. Ends(journal', stored)
      BY <2>1 DEF ChainInv, Ends
    <2>4. /\ pc' = "off" /\ UNCHANGED <<stored, cur, work>>
      BY <1>1 DEF GivePrompt
    <2>. QED  BY <2>2, <2>3, <2>4 DEF ChainInv
  <1>2. ASSUME stored' = work', NoneRuns(work'), UNCHANGED <<journal, cur>>,
               pc' \in {"first_answer", "record_prompt"}, ~ Recorded(EnqueueKey)
        PROVE  ChainInv'
    <2>1. AgentKeys(journal) = {} /\ LimitKey \notin DOMAIN journal /\ EnqueueKey \notin DOMAIN journal
      BY <1>2 DEF PlaceInv, PromptInv, Recorded
    <2>2. \A j \in DOMAIN journal : ~ Tip(journal, j)
      BY <2>1 DEF Tip
    <2>3. Ends(journal, work')
      BY <1>2, <2>1, <2>2 DEF Ends
    <2>. QED  BY <1>2, <2>3 DEF ChainInv
  <1>3. CASE SavePrompt
    <2>1. work'.calls = stored.calls /\ stored' = work'
      BY <1>3, EnqueueIs DEF SavePrompt, SaveWork, TypesInv
    <2>2. NoneRuns(work')
      BY <2>1 DEF ChainInv, Ends, NoneRuns
    <2>. QED  BY <1>2, <1>3, <2>1, <2>2 DEF SavePrompt
  <1>4. CASE FirstAnswer
    <2>1. stored' = work' /\ NoneRuns(work')
      BY <1>4, ModelAnswersIs DEF FirstAnswer, TypesInv, PlaceInv, PromptInv, ChainInv
    <2>2. ~ Recorded(EnqueueKey)
      BY <1>4 DEF FirstAnswer, PlaceInv, PromptInv
    <2>. QED  BY <1>2, <1>4, <2>1, <2>2 DEF FirstAnswer
  <1>5. CASE RecordPrompt
    <2>1. journal' = Added(journal, EnqueueKey, work)
      BY <1>5, RecordIs DEF RecordPrompt
    <2>2. /\ EnqueueKey \notin DOMAIN journal
          /\ LimitKey \notin DOMAIN journal /\ AgentKeys(journal) = {} /\ stored = work
      BY <1>5 DEF RecordPrompt, PlaceInv, PromptInv, Recorded
    <2>3. AgentKeys(journal') = {}
      BY <2>1, <2>2, AddedAgentKeys DEF OtherKeys
    <2>4. /\ LimitKey \notin DOMAIN journal'
          /\ journal'[EnqueueKey] = work
          /\ \A k \in DOMAIN journal' : k # EnqueueKey => k \in DOMAIN journal /\ journal'[k] = journal[k]
      BY <2>1, <2>2, KeysDiffer DEF Added
    <2>5. pc' = "resume" /\ cur' = work /\ work' = work /\ stored' = work
      BY <1>5, <2>2 DEF RecordPrompt
    <2>6. Links(journal')
      BY <2>3, <2>4 DEF Links, ChainInv
    <2>7. Ends(journal', work)
      <3>1. SameContext(work, work)
        BY SameIs DEF TypesInv
      <3>. QED  BY <2>3, <2>4, <3>1 DEF Ends, Tip, ChainInv
    <2>. QED  BY <2>5, <2>6, <2>7 DEF ChainInv
  <1>6. CASE Resume
    <2>1. ~ Waiting(stored, CallIds)
      BY DEF ChainInv, Ends, NoneRuns, Waiting
    <2>2. /\ pc = "resume" /\ pc' = "step" /\ cur' = cur
          /\ UNCHANGED <<journal, stored, work, index, turnsDone>>
      BY <1>6, <2>1 DEF Resume
    <2>3. /\ cur = journal[EnqueueKey] /\ EnqueueKey \in DOMAIN journal
          /\ index = 0 /\ turnsDone = 0
      BY <2>2 DEF PlaceInv, PromptInv, LimitInv, Recorded
    <2>4. Stands(journal, cur, index)
      BY <2>3 DEF Stands, Place
    <2>5. Conversation(cur, issued) /\ Begun(cur)
      BY <2>2 DEF TypesInv, PlaceInv, PromptInv
    <2>6. turnsDone + First(journal) = Len(cur.turns)
      BY <2>3, <2>5, LatestIs DEF First
    <2>. QED  BY <2>2, <2>4, <2>6 DEF ChainInv
  <1>. QED  BY <1>1, <1>3, <1>4, <1>5, <1>6

(* A worker with a step to take stands on an entry of the chain, and has   *)
(* counted the turns since the first.                                      *)
LEMMA LiveStands ==
    ASSUME TypesInv, PlaceInv, ChainInv, pc \in Live, Goes
    PROVE  /\ Begun(cur) /\ cur.status = "running" /\ AgentStep(NextStep(cur))
           /\ \E j \in DOMAIN journal : Place(journal, j, index) /\ cur = journal[j]
           /\ turnsDone + First(journal) = Len(cur.turns)
           /\ First(journal) \in Nat
  <1>1. Begun(cur) /\ EnqueueKey \in DOMAIN journal
    BY DEF PlaceInv, PromptInv, Recorded
  <1>2. cur.status = "running" /\ AgentStep(NextStep(cur))
    BY <1>1, NextStepIs DEF TypesInv, Goes
  <1>3. ~ (Recorded(LimitKey) /\ cur = journal[LimitKey])
    BY <1>2 DEF PlaceInv, PromptInv
  <1>4. Stands(journal, cur, index)
    BY <1>3 DEF ChainInv
  <1>5. First(journal) \in Nat
    <2>1. Conversation(journal[EnqueueKey], issued) /\ Begun(journal[EnqueueKey])
      BY <1>1, KeysDiffer DEF TypesInv, Kept
    <2>. QED  BY <2>1, LatestIs DEF First
  <1>. QED  BY <1>1, <1>2, <1>4, <1>5 DEF ChainInv, Stands

(* A step that is not in the journal comes after all that are.             *)
LEMMA NewStepAhead ==
    ASSUME TypesInv, PlaceInv, ChainInv, pc = "step", Goes, ~ Recorded(StepKey)
    PROVE  \A k \in AgentKeys(journal) : k.index < index
  <1>1. PICK j \in DOMAIN journal : Place(journal, j, index) /\ cur = journal[j]
    BY LiveStands DEF Live
  <1>2. Key("agent", index, NextStep(journal[j])) \notin DOMAIN journal
    BY <1>1 DEF Recorded, StepKey
  <1>. QED  BY <1>1, <1>2, NoneAhead DEF TypesInv, ChainInv

(* While such a step is on its way the limit has not been reached.         *)
LEMMA AheadUnlimited ==
    ASSUME TypesInv, PlaceInv, ChainInv, pc \in {"step", "tools", "record"}, Goes,
           \A k \in AgentKeys(journal) : k.index < index
    PROVE  /\ LimitKey \notin DOMAIN journal
           /\ Len(cur.turns) < First(journal) + MaxTurns
  <1>1. PICK j \in DOMAIN journal : Place(journal, j, index) /\ cur = journal[j]
    BY LiveStands DEF Live
  <1>2. /\ turnsDone + First(journal) = Len(cur.turns)
        /\ First(journal) \in Nat /\ turnsDone \in Nat /\ turnsDone < MaxTurns
    BY LiveStands DEF Live, PlaceInv, LimitInv, TypesInv
  <1>3. Len(cur.turns) < First(journal) + MaxTurns
    BY <1>2, ReplayAssumption
  <1>4. ~ (Len(cur.turns) >= First(journal) + MaxTurns)
    BY <1>2, ReplayAssumption
  <1>5. LimitKey \notin DOMAIN journal
    BY <1>1, <1>4, LimitUnrecorded DEF TypesInv, ChainInv
  <1>. QED  BY <1>3, <1>5

LEMMA ChainSaved ==
    ASSUME TypesInv, PlaceInv, ChainInv, pc \in {"step", "tools"}, Goes,
           \A k \in AgentKeys(journal) : k.index < index,
           pc' = "record", UNCHANGED <<journal, cur, index, turnsDone>>,
           stored' = work', NoneRuns(work')
    PROVE  ChainInv'
  <1>1. PICK j \in DOMAIN journal : Place(journal, j, index) /\ cur = journal[j]
    BY LiveStands DEF Live
  <1>2. LimitKey \notin DOMAIN journal
    BY AheadUnlimited
  <1>3. Ends(journal, work')
    BY <1>1, <1>2, EndsSaved DEF TypesInv, ChainInv, Goes
  <1>4. Stands(journal, cur, index)
    BY <1>1 DEF Stands
  <1>. QED  BY <1>3, <1>4 DEF ChainInv, Live

LEMMA ChainAgent ==
    ASSUME TypesInv, PlaceInv, ChainInv,
           \/ Ask \/ EndTurn \/ StartTools \/ (SaveTools /\ waits' = waits)
           \/ \E c \in CallIds : BeginTool(c) \/ EndTool(c)
    PROVE  ChainInv'
  <1>. USE DEF tables, worker, outside
  <1>1. ASSUME NEW type \in {"assistant", "tool", "complete"}, NewStep(type)
        PROVE  /\ pc = "step" /\ Goes /\ Begun(cur) /\ cur.status = "running"
               /\ NextStep(cur).type = type
               /\ \A k \in AgentKeys(journal) : k.index < index
    <2>1. pc = "step" /\ NextStep(cur).type = type /\ ~ Recorded(StepKey) /\ Begun(cur)
      BY <1>1 DEF NewStep, PlaceInv, PromptInv, Live
    <2>2. Goes
      BY <2>1, NextStepIs DEF TypesInv, Goes
    <2>. QED  BY <2>1, <2>2, NewStepAhead, LiveStands DEF Live
  <1>2. CASE Ask
    <2>1. stored' = work' /\ NoneRuns(work')
      BY <1>1, <1>2, ModelAnswersIs DEF Ask, TypesInv, ChainInv
    <2>. QED  BY <1>1, <1>2, <2>1, ChainSaved DEF Ask
  <1>3. CASE EndTurn
    <2>1. stored' = work' /\ work'.calls = cur.calls
      BY <1>1, <1>3, CompleteIs DEF EndTurn, SaveWork, TypesInv
    <2>2. NoneRuns(work')
      BY <2>1 DEF ChainInv, NoneRuns
    <2>. QED  BY <1>1, <1>3, <2>1, <2>2, ChainSaved DEF EndTurn
  <1>4. CASE StartTools
    <2>1. /\ pc = "step" /\ pc' = "tools" /\ \A k \in AgentKeys(journal) : k.index < index
          /\ Goes
          /\ UNCHANGED <<stored, journal, cur, work, index, turnsDone>>
      BY <1>1, <1>4 DEF StartTools
    <2>2. Stands(journal, cur, index)
      BY <2>1, LiveStands DEF Live, Stands
    <2>. QED  BY <2>1, <2>2 DEF ChainInv, Live
  <1>5. CASE SaveTools /\ waits' = waits
    <2>1. /\ pc = "tools" /\ Goes /\ stored' = work'
          /\ UNCHANGED <<journal, cur, index, turnsDone>>
          /\ pc' = "record" /\ (NoneRuns(cur) => NoneRuns(work'))
      BY <1>5, SaveToolsIs DEF TypesInv
    <2>2. NoneRuns(work') /\ \A k \in AgentKeys(journal) : k.index < index
      BY <2>1 DEF ChainInv
    <2>. QED  BY <2>1, <2>2, ChainSaved
  <1>6. ASSUME NEW c \in CallIds, BeginTool(c) \/ EndTool(c)
        PROVE  ChainInv'
    <2>1. pc = "tools" /\ UNCHANGED <<pc, journal, stored, cur, work, index, turnsDone>>
      BY <1>6 DEF BeginTool, EndTool
    <2>. QED  BY <2>1 DEF ChainInv
  <1>. QED  BY <1>2, <1>3, <1>4, <1>5, <1>6

LEMMA ChainRecordStep ==
    ASSUME TypesInv, PlaceInv, ChainInv, TypesInv', RecordStep
    PROVE  ChainInv'
  <1>. DEFINE step == NextStep(cur)
  <1>1. /\ pc = "record" /\ Goes /\ Begun(cur)
        /\ journal' = Added(journal, StepKey, work)
        /\ StepKey = Key("agent", index, step)
        /\ AgentKey(StepKey)
        /\ cur' = work /\ stored' = work /\ work' = work /\ pc' = "limit" /\ index' = index + 1
        /\ turnsDone' = turnsDone + (IF step.type = "complete" THEN 1 ELSE 0)
    BY RecordStepIs
  <1>2. PICK j \in DOMAIN journal : Place(journal, j, index) /\ cur = journal[j]
    BY <1>1, LiveStands DEF Live
  <1>3. \A k \in AgentKeys(journal) : k.index < index
    BY <1>1 DEF ChainInv
  <1>4. LimitKey \notin DOMAIN journal /\ Len(cur.turns) < First(journal) + MaxTurns
    BY <1>1, <1>3, AheadUnlimited
  <1>5. /\ AgentStep(step)
        /\ turnsDone + First(journal) = Len(cur.turns)
        /\ First(journal) \in Nat /\ turnsDone \in Nat
    BY <1>1, LiveStands DEF Live, TypesInv
  <1>6. NoneRuns(work) /\ Advance(cur, work) /\ Past(work, step) /\ Longer(cur, work, step)
    BY <1>1 DEF ChainInv, PlaceInv, RecordInv
  <1>7. EnqueueKey \in DOMAIN journal
    BY <1>1 DEF PlaceInv, PromptInv, Recorded, Live
  <1>8. Kept(journal, issued) /\ Links(journal) /\ index \in Nat
    BY DEF TypesInv, ChainInv
  <1>9. Kept(journal', issued)
    BY DEF TypesInv, RecordStep, outside
  <1>. HIDE DEF step
  <1>10. /\ Links(journal')
         /\ Place(journal', StepKey, index + 1)
         /\ StepKey \in DOMAIN journal' /\ journal'[StepKey] = work
         /\ First(journal') = First(journal)
         /\ \A k \in AgentKeys(journal') : k.index < index + 1
    <2>1. step = NextStep(journal[j])
      BY <1>2 DEF step
    <2>. QED  BY <1>1, <1>2, <1>3, <1>4, <1>5, <1>6, <1>7, <1>8, <2>1, LinksGrow
  <1>11. Ends(journal', work)
    BY <1>1, <1>4, <1>6, <1>8, <1>9, <1>10, EndsGrow
  <1>12. Stands(journal', work, index + 1)
    BY <1>10 DEF Stands
  <1>13. work.status = "running" => turnsDone' + First(journal') = Len(work.turns)
    <2>1. CASE step.type = "complete"
      BY <1>1, <1>5, <1>6, <1>10, <2>1 DEF Longer
    <2>2. CASE step.type # "complete"
      BY <1>1, <1>5, <1>6, <1>10, <2>2 DEF Longer
    <2>. QED  BY <2>1, <2>2
  <1>. QED  BY <1>1, <1>6, <1>10, <1>11, <1>12, <1>13 DEF ChainInv, Live

LEMMA ChainReplayStep ==
    ASSUME TypesInv, PlaceInv, ChainInv, ReplayStep
    PROVE  ChainInv'
  <1>. DEFINE step == NextStep(cur)
  <1>1. /\ pc = "step" /\ Goes /\ Begun(cur)
        /\ StepKey = Key("agent", index, step)
        /\ StepKey \in AgentKeys(journal)
        /\ cur' = journal[StepKey]
        /\ pc' = "limit" /\ index' = index + 1
        /\ turnsDone' = turnsDone + (IF step.type = "complete" THEN 1 ELSE 0)
        /\ UNCHANGED <<stored, journal, work>>
    BY ReplayStepIs
  <1>2. PICK j \in DOMAIN journal : Place(journal, j, index) /\ cur = journal[j]
    BY <1>1, LiveStands DEF Live
  <1>3. /\ turnsDone + First(journal) = Len(cur.turns)
        /\ First(journal) \in Nat /\ turnsDone \in Nat
    BY <1>1, LiveStands DEF Live, TypesInv
  <1>. HIDE DEF step
  <1>4. StepKey.index = index /\ StepKey.step = step /\ StepKey \in DOMAIN journal
    BY <1>1, KeysDiffer DEF AgentKeys
  <1>5. Longer(cur, cur', step)
    BY <1>1, <1>2, <1>4 DEF ChainInv, Links, Linked
  <1>6. Stands(journal, cur', index + 1)
    BY <1>1, <1>4 DEF Stands, Place
  <1>7. NoneRuns(cur')
    BY <1>1, <1>4 DEF ChainInv, Links
  <1>8. cur'.status = "running" => turnsDone' + First(journal) = Len(cur'.turns)
    <2>1. CASE step.type = "complete"
      BY <1>1, <1>3, <1>5, <2>1 DEF Longer
    <2>2. CASE step.type # "complete"
      BY <1>1, <1>3, <1>5, <2>2 DEF Longer
    <2>. QED  BY <2>1, <2>2
  <1>. QED  BY <1>1, <1>6, <1>7, <1>8 DEF ChainInv, Live

(* At the limit there is no step in the journal to go on with.             *)
LEMMA StopAhead ==
    ASSUME TypesInv, PlaceInv, ChainInv, pc \in {"stop", "record_stop"}
    PROVE  \E j \in DOMAIN journal :
              /\ Place(journal, j, index) /\ cur = journal[j]
              /\ \A k \in AgentKeys(journal) : k.index < index
              /\ NextStep(journal[j]) # NoStep
              /\ Len(journal[j].turns) >= First(journal) + MaxTurns
  <1>1. Goes /\ turnsDone >= MaxTurns
    BY DEF PlaceInv, LimitInv
  <1>2. PICK j \in DOMAIN journal : Place(journal, j, index) /\ cur = journal[j]
    BY <1>1, LiveStands DEF Live
  <1>3. /\ turnsDone + First(journal) = Len(cur.turns)
        /\ First(journal) \in Nat /\ turnsDone \in Nat
    BY <1>1, LiveStands DEF Live, TypesInv
  <1>4. /\ Len(journal[j].turns) >= First(journal) + MaxTurns
        /\ ~ (Len(journal[j].turns) < First(journal) + MaxTurns)
    BY <1>1, <1>2, <1>3, ReplayAssumption
  <1>5. \A k \in AgentKeys(journal) : k.index # index
    BY <1>2, <1>4 DEF ChainInv, Links, Linked
  <1>6. Key("agent", index, NextStep(journal[j])) \notin DOMAIN journal
    BY <1>5, KeysDiffer DEF AgentKeys
  <1>7. \A k \in AgentKeys(journal) : k.index < index
    BY <1>2, <1>6, NoneAhead DEF TypesInv, ChainInv
  <1>. QED  BY <1>1, <1>2, <1>4, <1>7 DEF Goes

LEMMA ChainLimit ==
    ASSUME TypesInv, PlaceInv, ChainInv,
           CheckLimit \/ StopAtLimit \/ RecordStop \/ ReplayStop
    PROVE  ChainInv'
  <1>. USE DEF tables, worker, outside
  <1>1. CASE CheckLimit
    <2>1. /\ pc = "limit" /\ pc' \in {"stop", "step"}
          /\ UNCHANGED <<journal, stored, cur, work, index, turnsDone>>
      BY <1>1 DEF CheckLimit
    <2>. QED  BY <2>1 DEF ChainInv, Live
  <1>2. CASE StopAtLimit
    <2>1. /\ pc = "stop" /\ pc' = "record_stop" /\ LimitKey \notin DOMAIN journal
          /\ work' = [cur EXCEPT !.status = "error"] /\ stored' = work'
          /\ UNCHANGED <<journal, cur, index, turnsDone>>
      BY <1>2 DEF StopAtLimit, SaveWork, Recorded
    <2>2. PICK j \in DOMAIN journal :
              /\ Place(journal, j, index) /\ cur = journal[j]
              /\ \A k \in AgentKeys(journal) : k.index < index
              /\ NextStep(journal[j]) # NoStep
      BY <2>1, StopAhead
    <2>3. work'.calls = cur.calls
      BY <2>1, ErrorIs DEF TypesInv, PlaceInv, PromptInv, Live
    <2>4. NoneRuns(work')
      BY <2>3 DEF ChainInv, NoneRuns
    <2>5. Ends(journal, work')
      BY <2>1, <2>2, <2>4, EndsSaved DEF TypesInv, ChainInv
    <2>. QED  BY <2>1, <2>4, <2>5 DEF ChainInv, Live
  <1>3. CASE RecordStop
    <2>1. /\ pc = "record_stop"
          /\ journal' = Added(journal, LimitKey, work)
          /\ LimitKey \notin DOMAIN journal /\ EnqueueKey \in DOMAIN journal
          /\ work.status = "error"
          /\ cur' = work /\ stored' = work /\ work' = work /\ pc' = "step"
      BY <1>3, RecordStopIs DEF Recorded
    <2>2. PICK j \in DOMAIN journal :
              /\ Place(journal, j, index) /\ cur = journal[j]
              /\ \A k \in AgentKeys(journal) : k.index < index
              /\ NextStep(journal[j]) # NoStep
              /\ Len(journal[j].turns) >= First(journal) + MaxTurns
      BY <2>1, StopAhead
    <2>3. \A t \in DOMAIN journal : Tip(journal, t) => t = j
      BY <2>2, OnlyTip DEF TypesInv, ChainInv
    <2>4. NoneRuns(work)
      BY DEF ChainInv
    <2>5. /\ Links(journal')
          /\ \A k \in DOMAIN journal : journal'[k] = journal[k]
          /\ \A k \in DOMAIN journal' : Tip(journal', k) => k \in DOMAIN journal /\ Tip(journal, k)
          /\ First(journal') = First(journal)
      BY <2>1, <2>4, LinksNoted DEF TypesInv, ChainInv
    <2>6. LimitKey \in DOMAIN journal' /\ journal'[LimitKey] = work
      BY <2>1 DEF Added
    <2>7. Ends(journal', work)
      <3>1. SameContext(work, work)
        BY SameIs DEF TypesInv
      <3>. QED  BY <2>2, <2>3, <2>4, <2>5, <2>6, <3>1 DEF Ends
    <2>8. ~ (cur'.status = "running")
      BY <2>1
    <2>. QED  BY <2>1, <2>4, <2>5, <2>6, <2>7, <2>8 DEF ChainInv, Recorded
  <1>4. CASE ReplayStop
    <2>1. /\ pc' = "step" /\ LimitKey \in DOMAIN journal
          /\ cur' = journal[LimitKey] /\ cur'.status = "error"
          /\ UNCHANGED <<stored, journal, work, index, turnsDone>>
      BY <1>4, ReplayStopIs DEF Recorded
    <2>2. NoneRuns(cur')
      BY <2>1 DEF ChainInv, Links
    <2>. QED  BY <2>1, <2>2 DEF ChainInv, Recorded
  <1>. QED  BY <1>1, <1>2, <1>3, <1>4

(* A prompt that ends has been saved as it was recorded.                   *)
LEMMA EndIsStored ==
    ASSUME TypesInv, PlaceInv, ChainInv, pc = "step", ~ Goes
    PROVE  SameContext(stored, cur)
  <1>1. CASE Recorded(LimitKey) /\ cur = journal[LimitKey]
    BY <1>1 DEF ChainInv, Ends, Recorded
  <1>2. CASE Stands(journal, cur, index)
    <2>1. PICK j \in DOMAIN journal : Place(journal, j, index) /\ cur = journal[j]
      BY <1>2 DEF Stands
    <2>2. ASSUME NEW k \in AgentKeys(journal), k.index = index
          PROVE  FALSE
      <3>1. k.step = NoStep
        BY <2>1, <2>2 DEF ChainInv, Links, Linked, Goes
      <3>2. AgentStep(k.step)
        BY AgentKeysAre DEF TypesInv, AgentKey
      <3>. QED  BY <3>1, <3>2 DEF AgentStep, NoStep
    <2>3. Key("agent", index, NextStep(journal[j])) \notin DOMAIN journal
      BY <2>2, KeysDiffer DEF AgentKeys
    <2>4. \A k \in AgentKeys(journal) : k.index < index
      BY <2>1, <2>3, NoneAhead DEF TypesInv, ChainInv
    <2>5. Tip(journal, j)
      BY <2>1, <2>4, OnlyTip DEF TypesInv, ChainInv
    <2>. QED  BY <2>1, <2>5 DEF ChainInv, Ends, Goes
  <1>. QED  BY <1>1, <1>2 DEF ChainInv, Live

LEMMA ChainEnd ==
    ASSUME TypesInv, PlaceInv, ChainInv, Finalize \/ RecordFinal \/ RecordReport
    PROVE  ChainInv'
  <1>1. CASE Finalize
    <2>1. /\ pc = "step" /\ pc' = "record_final" /\ ~ Goes
          /\ UNCHANGED <<journal, stored, cur, work, index, turnsDone>>
      BY <1>1 DEF Finalize, AtEnd, Goes, worker
    <2>2. SameContext(stored, cur)
      BY <2>1, EndIsStored
    <2>. QED  BY <2>1, <2>2 DEF ChainInv, Live, Recorded
  <1>2. ASSUME NEW key \in {FinalKey, ErrorKey}, journal' = Added(journal, key, cur),
               pc' = "complete", UNCHANGED <<stored, cur, work>>
        PROVE  ChainInv'
    <2>1. NoneRuns(cur)
      BY DEF ChainInv
    <2>2. EnqueueKey \notin DOMAIN journal => AgentKeys(journal) = {} /\ LimitKey \notin DOMAIN journal
      BY DEF PlaceInv, PromptInv, Recorded
    <2>3. /\ Links(journal')
          /\ \A k \in DOMAIN journal : k \in DOMAIN journal' /\ journal'[k] = journal[k]
          /\ \A k \in DOMAIN journal' : Tip(journal', k) => k \in DOMAIN journal /\ Tip(journal, k)
          /\ EnqueueKey \in DOMAIN journal => First(journal') = First(journal)
      BY <1>2, <2>1, <2>2, LinksNoted DEF TypesInv, ChainInv
    <2>4. LimitKey \in DOMAIN journal' <=> LimitKey \in DOMAIN journal
      BY <1>2, KeysDiffer DEF Added
    <2>5. Ends(journal', stored)
      BY <2>2, <2>3, <2>4 DEF ChainInv, Ends
    <2>. QED  BY <1>2, <2>3, <2>5 DEF ChainInv, Live
  <1>3. CASE RecordFinal
    <2>1. journal' = Added(journal, FinalKey, cur)
      BY <1>3, RecordIs DEF RecordFinal
    <2>. QED  BY <1>2, <1>3, <2>1 DEF RecordFinal, worker
  <1>4. CASE RecordReport
    <2>1. journal' = Added(journal, ErrorKey, cur)
      BY <1>4, RecordIs DEF RecordReport
    <2>. QED  BY <1>2, <1>4, <2>1 DEF RecordReport, worker
  <1>. QED  BY <1>1, <1>3, <1>4

LEMMA ChainStep ==
    ASSUME TypesInv, PlaceInv, TypesInv', waits = 0 => ChainInv, Next
    PROVE  (waits = 0 => ChainInv)'
  <1>. SUFFICES ASSUME waits' = 0
                PROVE  ChainInv'
    OBVIOUS
  <1>1. waits = 0
    <2>1. CASE SaveTools
      BY <2>1, SaveToolsIs DEF TypesInv
    <2>2. CASE ~ SaveTools
      BY <2>2 DEF Next, Progress, GivePrompt, Start, ReplayEnqueue, SavePrompt, FirstAnswer,
                  RecordPrompt, Resume, Ask, EndTurn, StartTools, BeginTool, EndTool,
                  Yield, RecordStep, ReplayStep, CheckLimit, StopAtLimit, RecordStop, ReplayStop,
                  Finalize, RecordFinal, ReplayFinal, Complete, Fault, Report,
                  SaveError, SaveErrorRow, RecordReport, Crash,
                  outside
    <2>. QED  BY <2>1, <2>2
  <1>. QED
    BY <1>1, ChainAway, ChainPrompt, ChainAgent, ChainRecordStep, ChainReplayStep, ChainLimit,
       ChainEnd DEF Next, Progress

-----------------------------------------------------------------------------

ReplayInv ==
    /\ TypesInv
    /\ PlaceInv
    /\ crashes = 0 => Straight
    /\ waits = 0 => ChainInv

(* The worker, what it has saved and what it has recorded keep step, with  *)
(* or without the workers that were lost and the tools that were waited    *)
(* for: processPrompt, runAgentLoop and the journal.                       *)
THEOREM ReplayInductive ==
    Spec => []ReplayInv
  <1>1. Init => ReplayInv
    <2>. SUFFICES ASSUME Init
                  PROVE  ReplayInv
      OBVIOUS
    <2>1. DOMAIN journal = {} /\ AgentKeys(journal) = {}
      BY DEF Init, AgentKeys
    <2>2. Conversation(EmptySession, 0) /\ NoneRuns(EmptySession)
      BY EmptyIs
    <2>3. TypesInv
      BY <2>1, <2>2 DEF Init, TypesInv, Kept, Stages
    <2>4. PlaceInv
      BY <2>1 DEF Init, PlaceInv, ToolsInv, RecordInv, PromptInv, LimitInv, YieldInv, Recorded, Live
    <2>5. Straight
      BY <2>1 DEF Init, Straight, Recorded, Live
    <2>6. Links(journal) /\ Ends(journal, EmptySession)
      BY <2>1, <2>2 DEF Links, Ends
    <2>7. ChainInv
      BY <2>2, <2>6 DEF Init, ChainInv, Live
    <2>. QED  BY <2>3, <2>4, <2>5, <2>7 DEF ReplayInv
  <1>2. ReplayInv /\ [Next]_vars => ReplayInv'
    <2>. SUFFICES ASSUME ReplayInv, [Next]_vars
                  PROVE  ReplayInv'
      OBVIOUS
    <2>1. CASE Next
      <3>1. TypesInv' /\ PlaceInv'
        BY <2>1, TypesStep, PlaceStep DEF ReplayInv
      <3>2. (crashes = 0 => Straight)' /\ (waits = 0 => ChainInv)'
        BY <2>1, <3>1, StraightStep, ChainStep DEF ReplayInv
      <3>. QED  BY <3>1, <3>2 DEF ReplayInv
    <2>2. CASE UNCHANGED vars
      BY <2>2 DEF vars, tables, worker, outside, ReplayInv, TypesInv, PlaceInv, ToolsInv, RecordInv,
                  PromptInv, LimitInv, YieldInv, Straight, ChainInv, Recorded, Waiting, Goes
    <2>. QED  BY <2>1, <2>2
  <1>. QED  BY <1>1, <1>2, PTL DEF Spec

(* The types of the worker and of the tables.                              *)
THEOREM ReplayTypeCorrect ==
    Spec => []TypesInv
  BY ReplayInductive, PTL DEF ReplayInv

(* No step is recorded under two names, whether workers are lost or tools  *)
(* are waited for, as long as it is not both (completeStep in              *)
(* processPrompt's loop).                                                  *)
THEOREM EachStepRecordedOnce ==
    Spec => []RecordedOnce
  <1>1. ReplayInv => RecordedOnce
    <2>. SUFFICES ASSUME ReplayInv, Undisturbed,
                         NEW k1 \in DOMAIN journal, NEW k2 \in DOMAIN journal,
                         k1.step = k2.step, k1.name = k2.name
                  PROVE  k1 = k2
      BY DEF RecordedOnce
    <2>1. \A k \in DOMAIN journal : k \in OtherKeys \/ AgentKey(k)
      BY DEF ReplayInv, TypesInv, Kept
    <2>2. \A k \in DOMAIN journal : AgentKey(k) => k.name = "agent"
      BY KeysDiffer DEF AgentKey
    <2>3. CASE k1 \in OtherKeys
      BY <2>1, <2>2, <2>3, KeysDiffer
    <2>4. CASE k1 \in AgentKeys(journal)
      <3>1. k2 \in AgentKeys(journal)
        BY <2>4 DEF AgentKeys
      <3>2. CASE crashes = 0
        BY <2>4, <3>1, <3>2 DEF ReplayInv, Straight
      <3>3. CASE waits = 0
        <4>1. ASSUME NEW k \in AgentKeys(journal), NEW m \in AgentKeys(journal),
                     k.step = m.step
              PROVE  ~ (k.index < m.index)
          <5>. SUFFICES ASSUME k.index < m.index
                        PROVE  FALSE
            OBVIOUS
          <5>1. /\ Kept(journal, issued) /\ Links(journal)
            BY <3>3 DEF ReplayInv, TypesInv, ChainInv
          <5>2. /\ k.index \in Nat /\ m.index \in Nat /\ AgentStep(m.step) /\ k \in DOMAIN journal
            BY <5>1, AgentKeysAre DEF AgentKey
          <5>3. PICK j \in AgentKeys(journal) : j.index = m.index - 1
            <6>1. m.index - 1 \in Nat /\ m.index - 1 < m.index
              BY <5>2
            <6>. QED  BY <5>1, <6>1 DEF Links
          <5>4. j \in DOMAIN journal /\ Place(journal, j, m.index)
            BY <5>1, <5>2, <5>3, AgentKeysAre DEF Place
          <5>5. m.step = NextStep(journal[j])
            BY <5>1, <5>4 DEF Links, Linked
          <5>6. Past(journal[j], m.step)
            BY <4>1, <5>1, <5>2, <5>3 DEF Links
          <5>7. Conversation(journal[j], issued) /\ Begun(journal[j])
            BY <5>1, <5>3, AgentKeysAre DEF Kept, OtherKeys
          <5>8. m.step # NoStep
            BY <5>2 DEF AgentStep, NoStep
          <5>. QED  BY <5>5, <5>6, <5>7, <5>8, NextStepIs
        <4>2. k1.index \in Nat /\ k2.index \in Nat
          BY <2>4, <3>1, AgentKeysAre DEF AgentKey, ReplayInv, TypesInv
        <4>3. k1.index = k2.index
          BY <2>4, <3>1, <4>1, <4>2
        <4>. QED  BY <2>4, <3>1, <3>3, <4>3 DEF ReplayInv, ChainInv, Links
      <3>. QED  BY <3>2, <3>3 DEF Undisturbed
    <2>. QED  BY <2>1, <2>2, <2>3, <2>4 DEF AgentKeys
  <1>. QED  BY <1>1, ReplayInductive, PTL

(* The turns, messages and tool calls a prompt leaves in the database are  *)
(* those its last worker came to, under the same condition, also when a    *)
(* report of an error was cut off before (finalize-prompt and              *)
(* markPromptError).                                                       *)
THEOREM ContextIsKept ==
    Spec => []ContextPersistsUndisturbed
  <1>1. ReplayInv => ContextPersistsUndisturbed
    BY SameIs DEF ContextPersistsUndisturbed, ContextPersists, Undisturbed, ReplayInv, Straight,
                  ChainInv, TypesInv
  <1>. QED  BY <1>1, ReplayInductive, PTL
-----------------------------------------------------------------------------
(* Numbers in order                                                        *)

(* A finite set of numbers has a least element: the sets of those below    *)
(* each of them have a smallest one.                                       *)
LEMMA FirstOf ==
    ASSUME NEW S \in SUBSET Nat, IsFiniteSet(S), S # {}
    PROVE  \E x \in S : \A y \in S : x <= y
  <1>. DEFINE Below(x) == {y \in S : y < x}
              Belows == {Below(x) : x \in S}
  <1>1. IsWellFoundedOn(StrictSubsetOrdering(S), FiniteSubsetsOf(S))
    BY FS_StrictSubsetOrderingWellFounded
  <1>2. Belows \subseteq FiniteSubsetsOf(S) /\ Belows # {}
    <2>1. \A x : Below(x) \in SUBSET S
      OBVIOUS
    <2>. HIDE DEF Below
    <2>2. \A x : Below(x) \in FiniteSubsetsOf(S)
      BY <2>1, FS_Subset DEF FiniteSubsetsOf
    <2>. QED  BY <2>2
  <1>3. PICK U \in Belows : \A V \in Belows : ~ (<<V, U>> \in StrictSubsetOrdering(S))
    BY <1>1, <1>2, WFMin
  <1>4. PICK x \in S : U = Below(x)
    OBVIOUS
  <1>5. ASSUME NEW y \in S, ~ (x <= y)
        PROVE  FALSE
    <2>. USE DEF Below
    <2>1. x \in Nat /\ y \in Nat /\ y < x /\ \A z \in S : z \in Nat
      BY <1>5
    <2>2. \A z \in S : z < y => z < x
      BY <2>1
    <2>3. ~ (y < y)
      BY <2>1
    <2>4. y \in Below(x) /\ y \notin Below(y) /\ Below(y) \subseteq Below(x)
      BY <2>1, <2>2, <2>3
    <2>5. <<Below(y), U>> \in StrictSubsetOrdering(S)
      BY <1>4, <2>4 DEF StrictSubsetOrdering
    <2>. QED  BY <1>3, <2>5
  <1>. QED  BY <1>5

(* ... and a greatest one, in the same way.                                *)
LEMMA LastOf ==
    ASSUME NEW S \in SUBSET Nat, IsFiniteSet(S), S # {}
    PROVE  \E x \in S : \A y \in S : y <= x
  <1>. DEFINE Above(x) == {y \in S : y > x}
              Aboves == {Above(x) : x \in S}
  <1>1. IsWellFoundedOn(StrictSubsetOrdering(S), FiniteSubsetsOf(S))
    BY FS_StrictSubsetOrderingWellFounded
  <1>2. Aboves \subseteq FiniteSubsetsOf(S) /\ Aboves # {}
    <2>1. \A x : Above(x) \in SUBSET S
      OBVIOUS
    <2>. HIDE DEF Above
    <2>2. \A x : Above(x) \in FiniteSubsetsOf(S)
      BY <2>1, FS_Subset DEF FiniteSubsetsOf
    <2>. QED  BY <2>2
  <1>3. PICK U \in Aboves : \A V \in Aboves : ~ (<<V, U>> \in StrictSubsetOrdering(S))
    BY <1>1, <1>2, WFMin
  <1>4. PICK x \in S : U = Above(x)
    OBVIOUS
  <1>5. ASSUME NEW y \in S, ~ (y <= x)
        PROVE  FALSE
    <2>. USE DEF Above
    <2>1. x \in Nat /\ y \in Nat /\ y > x /\ \A z \in S : z \in Nat
      BY <1>5
    <2>2. \A z \in S : z > y => z > x
      BY <2>1
    <2>3. ~ (y > y)
      BY <2>1
    <2>4. y \in Above(x) /\ y \notin Above(y) /\ Above(y) \subseteq Above(x)
      BY <2>1, <2>2, <2>3
    <2>5. <<Above(y), U>> \in StrictSubsetOrdering(S)
      BY <1>4, <2>4 DEF StrictSubsetOrdering
    <2>. QED  BY <1>3, <2>5
  <1>. QED  BY <1>5

Ordered(q) == \A i, j \in DOMAIN q : i < j => q[i] < q[j]

Orderings(S) == {q \in [1 .. Cardinality(S) -> S] : Ordered(q)}

(* The greatest element goes behind the others, in order.                  *)
LEMMA OneMoreOrdered ==
    ASSUME NEW S \in SUBSET Nat, IsFiniteSet(S), NEW g \in S, \A y \in S : y <= g,
           Orderings(S \ {g}) # {}
    PROVE  Orderings(S) # {}
  <1>. DEFINE n == Cardinality(S)
              V == S \ {g}
  <1>1. n \in Nat \ {0} /\ Cardinality(V) = n - 1
    <2>1. Cardinality(V) \in Nat /\ n \in Nat
      BY FS_CardinalityType, FS_RemoveElement
    <2>2. Cardinality(V) = n - 1
      BY FS_RemoveElement
    <2>. QED  BY <2>1, <2>2
  <1>2. PICK q \in [1 .. n - 1 -> V] : Ordered(q)
    BY <1>1 DEF Orderings
  <1>. HIDE DEF n
  <1>3. \A y \in V : y \in S /\ y \in Nat /\ y < g
    OBVIOUS
  <1>. DEFINE r == [i \in 1 .. n |-> IF i = n THEN g ELSE q[i]]
  <1>4. r \in [1 .. n -> S]
    <2>1. \A i \in 1 .. n : i # n => i \in 1 .. n - 1
      BY <1>1
    <2>. QED  BY <1>2, <2>1
  <1>5. ASSUME NEW i \in 1 .. n, NEW j \in 1 .. n, i < j
        PROVE  r[i] < r[j]
    <2>1. i \in 1 .. n - 1 /\ r[i] = q[i] /\ q[i] \in V
      BY <1>1, <1>2, <1>5
    <2>2. CASE j = n
      BY <1>3, <2>1, <2>2
    <2>3. CASE j # n
      <3>1. j \in 1 .. n - 1 /\ r[j] = q[j]
        BY <1>1, <2>3
      <3>. QED  BY <1>2, <1>5, <2>1, <3>1 DEF Ordered
    <2>. QED  BY <2>2, <2>3
  <1>6. Ordered(r)
    BY <1>5 DEF Ordered
  <1>. QED  BY <1>4, <1>6 DEF Orderings, n

LEMMA OrderingExists ==
    ASSUME NEW S \in SUBSET Nat, IsFiniteSet(S)
    PROVE  Orderings(S) # {}
  <1>. DEFINE Bad == {T \in SUBSET S : Orderings(T) = {}}
  <1>. SUFFICES ASSUME S \in Bad
                PROVE  FALSE
    OBVIOUS
  <1>1. IsWellFoundedOn(StrictSubsetOrdering(S), FiniteSubsetsOf(S))
    BY FS_StrictSubsetOrderingWellFounded
  <1>2. Bad \subseteq FiniteSubsetsOf(S) /\ Bad # {}
    BY FS_Subset DEF FiniteSubsetsOf
  <1>3. PICK U \in Bad : \A V \in Bad : ~ (<<V, U>> \in StrictSubsetOrdering(S))
    BY <1>1, <1>2, WFMin
  <1>4. U \in SUBSET Nat /\ IsFiniteSet(U) /\ U \in SUBSET S
    BY FS_Subset
  <1>5. U # {}
    <2>1. <<>> \in [1 .. 0 -> {}] /\ Ordered(<<>>)
      BY DEF Ordered
    <2>2. <<>> \in Orderings({})
      BY <2>1, FS_EmptySet DEF Orderings
    <2>. QED  BY <2>2
  <1>6. PICK g \in U : \A y \in U : y <= g
    BY <1>4, <1>5, LastOf
  <1>7. <<U \ {g}, U>> \in StrictSubsetOrdering(S)
    BY <1>4, <1>6 DEF StrictSubsetOrdering
  <1>8. Orderings(U \ {g}) # {}
    BY <1>3, <1>4, <1>7
  <1>. QED  BY <1>4, <1>6, <1>8, OneMoreOrdered

(* InOrder lists a set of numbers: each of them, once.                     *)
LEMMA InOrderIs ==
    ASSUME NEW S \in SUBSET Nat, IsFiniteSet(S), NEW q, q = InOrder(S)
    PROVE  /\ q \in Seq(S)
           /\ \A x \in S : \E i \in DOMAIN q : q[i] = x
  <1>1. q \in Orderings(S)
    BY OrderingExists DEF InOrder, Orderings, Ordered
  <1>. DEFINE n == Cardinality(S)
  <1>2. n \in Nat
    BY FS_CardinalityType
  <1>3. q \in [1 .. n -> S] /\ Ordered(q)
    BY <1>1 DEF Orderings
  <1>4. IsFiniteSet(1 .. n) /\ Cardinality(1 .. n) = n
    BY <1>2, FS_Interval
  <1>5. ASSUME NEW i \in 1 .. n, NEW j \in 1 .. n, q[i] = q[j]
        PROVE  i = j
    <2>1. q[i] \in Nat
      BY <1>3
    <2>2. ~ (i < j) /\ ~ (j < i)
      BY <1>3, <1>5, <2>1 DEF Ordered
    <2>. QED  BY <1>2, <2>2
  <1>6. q \in Injection(1 .. n, S)
    BY <1>3, <1>5 DEF Injection, IsInjective
  <1>7. q \in Surjection(1 .. n, S)
    BY <1>4, <1>6, FS_Injection
  <1>8. \A x \in S : \E i \in 1 .. n : q[i] = x
    BY <1>7 DEF Surjection
  <1>9. q \in Seq(S) /\ DOMAIN q = 1 .. n
    BY <1>2, <1>3
  <1>. QED  BY <1>8, <1>9
-----------------------------------------------------------------------------
(* What has been said                                                      *)

Messages == [role : {"user", "assistant", "toolResult"}, calls : SUBSET CallIds]

Spoken(h) ==
    /\ h \in Seq(Messages)
    /\ \A i \in DOMAIN h : h[i].role = "toolResult" => \E c \in CallIds : h[i].calls = {c}

(* The result of a call is among the messages.                             *)
Told(h, c) == \E j \in DOMAIN h : h[j].role = "toolResult" /\ h[j].calls = {c}

(* ... and right behind the answer that asked for it.                      *)
AnsweredAt(h, i, c) == \E j \in DOMAIN h : h[j].calls = {c} /\ Answers(h, i, j)

OnlyResultsAfter(h, i) == \A k \in (i + 1) .. Len(h) : h[k].role = "toolResult"

UsersOf(h) == {i \in DOMAIN h : h[i].role = "user"}

AllResults(u) == \A k \in DOMAIN u : u[k].role = "toolResult"

NoPrompt(u) == \A k \in DOMAIN u : u[k].role # "user"

(* g is h followed by u.                                                   *)
Extends(g, h, u) ==
    /\ Len(g) = Len(h) + Len(u)
    /\ \A k \in DOMAIN h : k \in DOMAIN g /\ g[k] = h[k]
    /\ \A k \in DOMAIN u : Len(h) + k \in DOMAIN g /\ g[Len(h) + k] = u[k]
    /\ \A j \in DOMAIN g : j \in DOMAIN h \/ j - Len(h) \in DOMAIN u

(* The calls whose results are still to be told.                           *)
Owed(s) == {c \in CallIds : s.calls[c] \in {"pending", "running"} /\ ~ Told(s.history, c)}

(* Every call that was made is answered in its place, or is about to be.   *)
InPlace(s) ==
    \A i \in DOMAIN s.history : s.history[i].role = "assistant" =>
        \A c \in s.history[i].calls :
            \/ AnsweredAt(s.history, i, c)
            \/ c \in Owed(s) /\ OnlyResultsAfter(s.history, i)

(* Only a prompt that goes on owes results, those of its latest turn.      *)
OwesNow(s) ==
    /\ Owed(s) # {} => s.status = "running" /\ Begun(s) /\ Owed(s) \subseteq LatestTurn(s).calls
    /\ Begun(s) /\ LatestTurn(s).status = "awaiting_assistant" => LatestTurn(s).calls = {}

(* A result is told only of a tool that has ended.                         *)
Heard(s, T) == \A c \in CallIds : Told(s.history, c) => T[c] = "finished"

Tidy(s, T) == InPlace(s) /\ OwesNow(s) /\ Heard(s, T)

Settled(s, T) == Tidy(s, T) /\ Owed(s) = {}

(* The tools of the calls have not been started.                           *)
Unused(calls, T) == \A c \in calls : T[c] = "none"

Untried(s, T) == Unused(Unsatisfied(s), T)

(* The model has answered a conversation that owed nothing.                *)
JustAnswered(s, T) ==
    /\ Tidy(s, T) /\ Untried(s, T)
    /\ NextStep(s).type = IF LatestTurn(s).calls = {} THEN "complete" ELSE "tool"

LEMMA MessageIs ==
    ASSUME NEW role \in {"user", "assistant", "toolResult"}, NEW calls \in SUBSET CallIds
    PROVE  /\ Message(role, calls) \in Messages
           /\ Message(role, calls).role = role
           /\ Message(role, calls).calls = calls
  BY DEF Message, Messages

LEMMA SpokenIs ==
    ASSUME NEW h, Spoken(h)
    PROVE  /\ Len(h) \in Nat /\ DOMAIN h = 1 .. Len(h)
           /\ IsFiniteSet(UsersOf(h)) /\ Cardinality(UsersOf(h)) \in Nat
  <1>1. Len(h) \in Nat /\ DOMAIN h = 1 .. Len(h)
    BY DEF Spoken
  <1>2. IsFiniteSet(DOMAIN h)
    BY <1>1, FS_Interval
  <1>3. IsFiniteSet(UsersOf(h))
    BY <1>2, FS_Subset DEF UsersOf
  <1>. QED  BY <1>1, <1>3, FS_CardinalityType

LEMMA CallsSpoken ==
    ASSUME NEW h, Spoken(h), NEW i \in DOMAIN h
    PROVE  h[i] \in Messages /\ h[i].calls \subseteq CallIds
  <1>1. h[i] \in Messages
    BY DEF Spoken
  <1>. QED  BY <1>1 DEF Messages

(* Messages that follow others change nothing in those before.             *)
LEMMA SaidMore ==
    ASSUME NEW h, Spoken(h), NEW u, Spoken(u), NEW g, g = h \o u
    PROVE  Spoken(g) /\ Extends(g, h, u)
  <1>1. Len(h) \in Nat /\ DOMAIN h = 1 .. Len(h) /\ Len(u) \in Nat /\ DOMAIN u = 1 .. Len(u)
    BY SpokenIs
  <1>2. /\ g \in Seq(Messages) /\ Len(g) = Len(h) + Len(u)
        /\ \A i \in 1 .. Len(h) : g[i] = h[i]
        /\ \A i \in 1 .. Len(u) : g[Len(h) + i] = u[i]
    BY <1>1 DEF Spoken
  <1>3. DOMAIN g = 1 .. Len(h) + Len(u)
    BY <1>2
  <1>4. \A i \in DOMAIN h : i \in DOMAIN g /\ g[i] = h[i]
    BY <1>1, <1>2, <1>3
  <1>5. \A i \in DOMAIN u : Len(h) + i \in DOMAIN g /\ g[Len(h) + i] = u[i]
    BY <1>1, <1>2, <1>3
  <1>6. ASSUME NEW j \in DOMAIN g
        PROVE  j \in DOMAIN h \/ j - Len(h) \in DOMAIN u
    BY <1>1, <1>3
  <1>7. ASSUME NEW j \in DOMAIN g, g[j].role = "toolResult"
        PROVE  \E c \in CallIds : g[j].calls = {c}
    <2>1. CASE j \in DOMAIN h
      BY <1>4, <1>7, <2>1 DEF Spoken
    <2>2. CASE j - Len(h) \in DOMAIN u
      <3>1. g[Len(h) + (j - Len(h))] = u[j - Len(h)] /\ Len(h) + (j - Len(h)) = j
        BY <1>1, <1>3, <1>5, <2>2
      <3>. QED  BY <1>7, <2>2, <3>1 DEF Spoken
    <2>. QED  BY <1>6, <2>1, <2>2
  <1>. QED  BY <1>2, <1>4, <1>5, <1>6, <1>7 DEF Spoken, Extends

LEMMA ToldMore ==
    ASSUME NEW h, Spoken(h), NEW u, Spoken(u), NEW g, g = h \o u, NEW c
    PROVE  Told(g, c) <=> Told(h, c) \/ Told(u, c)
  <1>0. Len(h) \in Nat /\ DOMAIN u = 1 .. Len(u) /\ Len(u) \in Nat
    BY SpokenIs
  <1>1. Extends(g, h, u)
    BY SaidMore
  <1>2. ASSUME Told(g, c)
        PROVE  Told(h, c) \/ Told(u, c)
    <2>1. PICK j \in DOMAIN g : g[j].role = "toolResult" /\ g[j].calls = {c}
      BY <1>2 DEF Told
    <2>2. CASE j \in DOMAIN h
      BY <1>1, <2>1, <2>2 DEF Told, Extends
    <2>3. CASE j - Len(h) \in DOMAIN u
      <3>1. DOMAIN g \subseteq Int
        BY SaidMore, SpokenIs
      <3>2. Len(h) + (j - Len(h)) = j
        BY <1>0, <3>1
      <3>3. g[j] = u[j - Len(h)]
        BY <1>1, <2>3, <3>2 DEF Extends
      <3>. QED  BY <2>1, <2>3, <3>3 DEF Told
    <2>. QED  BY <1>1, <2>2, <2>3 DEF Extends
  <1>. QED  BY <1>1, <1>2 DEF Told, Extends

LEMMA AnsweredMore ==
    ASSUME NEW h, Spoken(h), NEW u, Spoken(u), NEW g, g = h \o u,
           NEW i \in DOMAIN h, NEW c
    PROVE  /\ AnsweredAt(h, i, c) => AnsweredAt(g, i, c)
           /\ OnlyResultsAfter(h, i) /\ AllResults(u) => OnlyResultsAfter(g, i)
           /\ /\ OnlyResultsAfter(h, i) /\ AllResults(u) /\ Told(u, c)
              /\ h[i].role = "assistant" /\ c \in h[i].calls
              => AnsweredAt(g, i, c)
  <1>a. Spoken(g) /\ Extends(g, h, u)
    BY SaidMore
  <1>b. /\ Len(h) \in Nat /\ DOMAIN h = 1 .. Len(h) /\ Len(u) \in Nat /\ DOMAIN u = 1 .. Len(u)
        /\ DOMAIN g = 1 .. Len(g)
    BY <1>a, SpokenIs
  <1>1. ASSUME AnsweredAt(h, i, c)
        PROVE  AnsweredAt(g, i, c)
    <2>1. PICK j \in DOMAIN h : h[j].calls = {c} /\ Answers(h, i, j)
      BY <1>1 DEF AnsweredAt
    <2>2. \A k \in (i + 1) .. j : k \in DOMAIN h
      BY <1>a, <1>b, <2>1 DEF Extends, AllResults
    <2>3. Answers(g, i, j)
      BY <1>a, <1>b, <2>1, <2>2 DEF Answers, Extends, AllResults
    <2>. QED  BY <1>a, <1>b, <2>1, <2>3 DEF AnsweredAt, Extends, AllResults
  <1>2. ASSUME OnlyResultsAfter(h, i), AllResults(u)
        PROVE  OnlyResultsAfter(g, i)
    <2>1. ASSUME NEW k \in (i + 1) .. Len(g)
          PROVE  g[k].role = "toolResult"
      <3>1. k \in DOMAIN g
        BY <1>a, <1>b DEF Extends, AllResults
      <3>2. CASE k \in DOMAIN h
        <4>1. k \in (i + 1) .. Len(h)
          BY <1>a, <1>b, <3>2 DEF Extends, AllResults
        <4>. QED  BY <1>a, <1>b, <1>2, <3>2, <4>1 DEF OnlyResultsAfter, Extends, AllResults
      <3>3. CASE k - Len(h) \in DOMAIN u
        <4>1. Len(h) + (k - Len(h)) = k
          BY <1>a, <1>b DEF Extends, AllResults
        <4>2. g[k] = u[k - Len(h)]
          BY <1>a, <1>b, <3>3, <4>1 DEF Extends, AllResults
        <4>. QED  BY <1>2, <3>3, <4>2 DEF AllResults
      <3>. QED  BY <1>a, <1>b, <3>1, <3>2, <3>3 DEF Extends, AllResults
    <2>. QED  BY <2>1 DEF OnlyResultsAfter
  <1>3. ASSUME OnlyResultsAfter(h, i), AllResults(u),
               h[i].role = "assistant", c \in h[i].calls, Told(u, c)
        PROVE  AnsweredAt(g, i, c)
    <2>1. PICK j \in DOMAIN u : u[j].role = "toolResult" /\ u[j].calls = {c}
      BY <1>3 DEF Told
    <2>2. Len(h) + j \in DOMAIN g /\ g[Len(h) + j] = u[j]
      BY <1>a, <1>b DEF Extends, AllResults
    <2>3. i < Len(h) + j /\ (i + 1) .. (Len(h) + j) \subseteq (i + 1) .. Len(g)
      BY <1>a, <1>b DEF Extends, AllResults
    <2>4. Answers(g, i, Len(h) + j)
      BY <1>a, <1>b, <1>2, <1>3, <2>1, <2>2, <2>3 DEF Answers, OnlyResultsAfter, Extends, AllResults
    <2>. QED  BY <2>1, <2>2, <2>4 DEF AnsweredAt
  <1>. QED  BY <1>1, <1>2, <1>3

(* Only a prompt adds to the prompts.                                      *)
LEMMA UsersMore ==
    ASSUME NEW h, Spoken(h), NEW u, Spoken(u), NEW g, g = h \o u
    PROVE  /\ NoPrompt(u) => UsersOf(g) = UsersOf(h)
           /\ Len(u) = 1 /\ u[1].role = "user" =>
                 Cardinality(UsersOf(g)) = Cardinality(UsersOf(h)) + 1
  <1>a. Spoken(g) /\ Extends(g, h, u)
    BY SaidMore
  <1>b. /\ Len(h) \in Nat /\ DOMAIN h = 1 .. Len(h) /\ Len(u) \in Nat /\ DOMAIN u = 1 .. Len(u)
        /\ DOMAIN g = 1 .. Len(g)
    BY <1>a, SpokenIs
  <1>1. ASSUME NoPrompt(u)
        PROVE  UsersOf(g) = UsersOf(h)
    <2>1. ASSUME NEW j \in UsersOf(g)
          PROVE  j \in UsersOf(h)
      <3>1. j \in DOMAIN g /\ g[j].role = "user"
        BY DEF UsersOf
      <3>2. CASE j \in DOMAIN h
        BY <1>a, <1>b, <3>1, <3>2 DEF UsersOf, Extends, NoPrompt
      <3>3. CASE j - Len(h) \in DOMAIN u
        <4>1. Len(h) + (j - Len(h)) = j
          BY <1>a, <1>b, <3>1 DEF Extends, NoPrompt
        <4>. QED  BY <1>a, <1>b, <1>1, <3>1, <3>3, <4>1 DEF Extends, NoPrompt
      <3>. QED  BY <1>a, <1>b, <3>1, <3>2, <3>3 DEF Extends, NoPrompt
    <2>. QED  BY <1>a, <1>b, <2>1 DEF UsersOf, Extends, NoPrompt
  <1>2. ASSUME Len(u) = 1, u[1].role = "user"
        PROVE  Cardinality(UsersOf(g)) = Cardinality(UsersOf(h)) + 1
    <2>1. UsersOf(g) = UsersOf(h) \cup {Len(h) + 1}
      <3>1. Len(h) + 1 \in DOMAIN g /\ g[Len(h) + 1] = u[1]
        BY <1>a, <1>b, <1>2 DEF Extends, NoPrompt
      <3>2. \A j \in DOMAIN g : j \in DOMAIN h \/ j = Len(h) + 1
        BY <1>a, <1>b, <1>2 DEF Extends, NoPrompt
      <3>. QED  BY <1>a, <1>b, <1>2, <3>1, <3>2 DEF UsersOf, Extends, NoPrompt
    <2>2. Len(h) + 1 \notin UsersOf(h)
      BY <1>a, <1>b DEF UsersOf, Extends, NoPrompt
    <2>. QED  BY <2>1, <2>2, SpokenIs, FS_AddElement
  <1>. QED  BY <1>1, <1>2

(* One message more, which tells no result.                                *)
SaidNext(h, m, g) ==
    /\ Spoken(<<m>>) /\ g = h \o <<m>> /\ Spoken(g)
    /\ Len(g) = Len(h) + 1 /\ g[Len(h) + 1] = m
    /\ \A c : Told(g, c) <=> Told(h, c)

LEMMA OneMore ==
    ASSUME NEW h, Spoken(h), NEW m \in Messages, m.role # "toolResult", NEW g, g = Append(h, m)
    PROVE  SaidNext(h, m, g)
  <1>2. <<m>> \in Seq(Messages) /\ Len(<<m>>) = 1 /\ DOMAIN <<m>> = {1} /\ <<m>>[1] = m
    OBVIOUS
  <1>3. Spoken(<<m>>)
    BY <1>2 DEF Spoken
  <1>4. g = h \o <<m>> /\ Len(g) = Len(h) + 1 /\ g[Len(h) + 1] = m
    BY DEF Spoken
  <1>5. \A c : ~ Told(<<m>>, c)
    BY <1>2 DEF Told
  <1>6. \A c : Told(g, c) <=> Told(h, c)
    BY <1>3, <1>4, <1>5, ToldMore
  <1>. QED  BY <1>3, <1>4, <1>6, SaidMore DEF SaidNext

(* The results of calls, one message for each.                             *)
LEMMA TellsIs ==
    ASSUME NEW S \in SUBSET CallIds, IsFiniteSet(S), NEW u, u = TellsOf(S)
    PROVE  /\ Spoken(u)
           /\ AllResults(u)
           /\ \A c : Told(u, c) <=> c \in S
  <1>. DEFINE q == InOrder(S)
  <1>1. q \in Seq(S) /\ \A x \in S : \E i \in DOMAIN q : q[i] = x
    BY CallIdsAssumption, InOrderIs
  <1>. HIDE DEF q
  <1>2. u = [i \in 1 .. Len(q) |-> Message("toolResult", {q[i]})]
    BY DEF TellsOf, q
  <1>3. Len(q) \in Nat /\ DOMAIN q = 1 .. Len(q) /\ \A i \in 1 .. Len(q) : q[i] \in S
    BY <1>1
  <1>4. \A i \in 1 .. Len(q) : /\ u[i] \in Messages
                               /\ u[i].role = "toolResult"
                               /\ u[i].calls = {q[i]}
    BY <1>2, <1>3, MessageIs
  <1>5. u \in Seq(Messages) /\ DOMAIN u = 1 .. Len(q)
    BY <1>2, <1>3, <1>4
  <1>6. Spoken(u)
    BY <1>3, <1>4, <1>5 DEF Spoken
  <1>7. ASSUME NEW c
        PROVE  Told(u, c) <=> c \in S
    <2>1. ASSUME c \in S
          PROVE  Told(u, c)
      <3>1. PICK i \in 1 .. Len(q) : q[i] = c
        BY <1>1, <1>3, <2>1
      <3>. QED  BY <1>4, <1>5, <3>1 DEF Told
    <2>2. ASSUME Told(u, c)
          PROVE  c \in S
      <3>1. PICK i \in 1 .. Len(q) : u[i].calls = {c}
        BY <1>5, <2>2 DEF Told
      <3>. QED  BY <1>3, <1>4, <3>1
    <2>. QED  BY <2>1, <2>2
  <1>. QED  BY <1>4, <1>5, <1>6, <1>7 DEF AllResults
-----------------------------------------------------------------------------
(* What the steps say                                                      *)

LEMMA StepOf ==
    ASSUME NEW s, NEW n, Conversation(s, n), Begun(s),
           NEW k, k = NextStep(s), NEW status, status = LatestTurn(s).status
    PROVE  /\ k.type \in {"none", "tool", "assistant", "complete"}
           /\ k.type = "assistant" =>
                 Unsatisfied(s) = {} /\ status = "awaiting_assistant" /\ s.status = "running"
           /\ s.status = "running" /\ Unsatisfied(s) # {} => k.type = "tool" /\ k.calls = Unsatisfied(s)
           /\ s.status = "running" /\ Unsatisfied(s) = {} /\ status = "awaiting_assistant" =>
                 k.type = "assistant"
           /\ s.status = "running" /\ Unsatisfied(s) = {} /\ status \in {"awaiting_tools", "complete"} =>
                 k.type = "complete"
           /\ k.type = "none" <=> k = NoStep
  <1>1. Len(s.turns) \in Nat \ {0} /\ s.turns # <<>> /\ LatestTurn(s) \in Turns
    BY LatestIs DEF Begun
  <1>2. NoStep.type = "none"
    BY DEF NoStep
  <1>3. k.type = "none" <=> k = NoStep
    BY <1>2, NextStepIs
  <1>4. CASE s.status # "running"
    BY <1>2, <1>3, <1>4, StepTypes
  <1>5. CASE s.status = "running" /\ Unsatisfied(s) # {}
    <2>1. k = [type |-> "tool", turn |-> 0, calls |-> Unsatisfied(s)]
      BY <1>5 DEF NextStep
    <2>. QED  BY <1>3, <1>5, <2>1
  <1>6. CASE s.status = "running" /\ Unsatisfied(s) = {} /\ status = "awaiting_assistant"
    <2>1. k = [type |-> "assistant", turn |-> Len(s.turns), calls |-> {}]
      BY <1>6 DEF NextStep
    <2>. QED  BY <1>3, <1>6, <2>1
  <1>7. CASE s.status = "running" /\ Unsatisfied(s) = {} /\ status \in {"awaiting_tools", "complete"}
    <2>1. k = [type |-> "complete", turn |-> Len(s.turns), calls |-> {}]
      BY <1>1, <1>7 DEF NextStep
    <2>. QED  BY <1>3, <1>7, <2>1
  <1>8. CASE /\ s.status = "running" /\ Unsatisfied(s) = {}
             /\ status \notin {"awaiting_assistant", "awaiting_tools", "complete"}
    <2>1. k = NoStep
      BY <1>1, <1>8 DEF NextStep
    <2>. QED  BY <1>2, <1>3, <1>8, <2>1
  <1>. QED  BY <1>4, <1>5, <1>6, <1>7, <1>8

(* A prompt owes nothing but what its next step will get.                  *)
LEMMA OwedIs ==
    ASSUME NEW s, NEW n, Conversation(s, n), OwesNow(s)
    PROVE  /\ Begun(s) => Owed(s) \subseteq Unsatisfied(s)
           /\ Owed(s) # {} => Begun(s) /\ NextStep(s).type = "tool" /\ NextStep(s) # NoStep
  <1>1. Begun(s) => Owed(s) \subseteq Unsatisfied(s)
    BY DEF OwesNow, Owed, Unsatisfied, Begun
  <1>2. ASSUME Owed(s) # {}
        PROVE  Begun(s) /\ NextStep(s).type = "tool" /\ NextStep(s) # NoStep
    <2>1. Begun(s) /\ s.status = "running" /\ Unsatisfied(s) # {}
      BY <1>1, <1>2 DEF OwesNow
    <2>2. NextStep(s).type = "tool"
      BY <2>1, StepOf
    <2>. QED  BY <2>1, <2>2 DEF NoStep
  <1>. QED  BY <1>1, <1>2

LEMMA EnqueueSpeaks ==
    ASSUME NEW s, NEW n \in Nat, Conversation(s, n), Spoken(s.history),
           NEW r, r = EnqueuePrompt(s), NEW T
    PROVE  /\ Spoken(r.history)
           /\ PromptsIn(s) \in Nat /\ PromptsIn(r) = PromptsIn(s) + 1
           /\ Settled(s, T) => Settled(r, T)
  <1>. DEFINE h == s.history
              g == r.history
              m == Message("user", {})
  <1>1. /\ Begun(r) /\ r.status = "running" /\ r.calls = s.calls
        /\ LatestTurn(r) = EmptyTurn /\ g = Append(h, m)
    BY EnqueueIs
  <1>. HIDE DEF g, m
  <1>2. /\ Spoken(<<m>>) /\ g = h \o <<m>> /\ Spoken(g)
        /\ Len(g) = Len(h) + 1 /\ g[Len(h) + 1] = m
        /\ \A c : Told(g, c) <=> Told(h, c)
    <2>1. SaidNext(h, m, g)
      <3>1. m \in Messages /\ m.role # "toolResult"
        BY MessageIs DEF m
      <3>. QED  BY <1>1, <3>1, OneMore
    <2>. QED  BY <2>1 DEF SaidNext
  <1>3. m.role = "user" /\ Len(<<m>>) = 1 /\ <<m>>[1] = m
    BY MessageIs DEF m
  <1>4. Cardinality(UsersOf(g)) = Cardinality(UsersOf(h)) + 1 /\ Cardinality(UsersOf(h)) \in Nat
    BY <1>2, <1>3, UsersMore, SpokenIs
  <1>5. ASSUME Settled(s, T)
        PROVE  Settled(r, T)
    <2>1. Owed(r) = {}
      BY <1>1, <1>2, <1>5 DEF Settled, Owed, g, h
    <2>2. OwesNow(r)
      BY <1>1, <2>1 DEF OwesNow, EmptyTurn
    <2>3. Heard(r, T)
      BY <1>2, <1>5 DEF Heard, Settled, Tidy, g, h
    <2>4. ASSUME NEW i \in DOMAIN g, g[i].role = "assistant", NEW c \in g[i].calls
          PROVE  AnsweredAt(g, i, c)
      <3>1. i \in DOMAIN h
        <4>1. DOMAIN g = 1 .. Len(h) + 1 /\ DOMAIN h = 1 .. Len(h) /\ Len(h) \in Nat
          BY <1>2, SpokenIs DEF h
        <4>. QED  BY <1>2, <1>3, <2>4, <4>1
      <3>2. g[i] = h[i]
        BY <1>2, <3>1, SaidMore DEF h, Extends
      <3>3. c \in CallIds
        BY <2>4, <3>1, <3>2, CallsSpoken DEF h
      <3>4. AnsweredAt(h, i, c)
        BY <1>5, <2>4, <3>1, <3>2 DEF Settled, Tidy, InPlace, h
      <3>. QED  BY <1>2, <3>1, <3>3, <3>4, AnsweredMore DEF h
    <2>5. InPlace(r)
      BY <2>4 DEF InPlace, g
    <2>. QED  BY <2>1, <2>2, <2>3, <2>5 DEF Settled, Tidy
  <1>. QED  BY <1>2, <1>4, <1>5 DEF PromptsIn, UsersOf, g, h

LEMMA AnswerSpeaks ==
    ASSUME NEW s, NEW n \in Nat, Conversation(s, n), Begun(s), s.status = "running",
           Spoken(s.history), NEW m \in Nat, n <= m,
           NEW calls \in SUBSET CallIds, \A c \in calls : n < c /\ c <= m,
           NEW failed \in BOOLEAN,
           NEW r, r = Answer(s, calls, failed),
           NEW T, Unused(calls, T)
    PROVE  /\ Spoken(r.history)
           /\ PromptsIn(r) = PromptsIn(s)
           /\ ~ failed /\ Settled(s, T) => JustAnswered(r, T)
  <1>. DEFINE h == s.history
              g == r.history
              a == Message("assistant", calls)
  <1>1. /\ Conversation(r, m) /\ Begun(r) /\ g = Append(h, a)
        /\ \A c \in CallIds : r.calls[c] = IF c \in calls THEN "pending" ELSE s.calls[c]
        /\ LatestTurn(r).calls = calls
        /\ ~ failed => /\ r.status = "running"
                       /\ LatestTurn(r).status = IF calls = {} THEN "complete" ELSE "awaiting_tools"
    <2>1. Conversation(r, m) /\ Begun(r) /\ Answered(s, calls, failed, r)
      BY AnswerIs
    <2>. QED  BY <2>1 DEF Answered
  <1>2. a.role = "assistant" /\ a.calls = calls
    BY MessageIs
  <1>. HIDE DEF g, a
  <1>3. /\ Spoken(<<a>>) /\ g = h \o <<a>> /\ Spoken(g)
        /\ Len(g) = Len(h) + 1 /\ g[Len(h) + 1] = a
        /\ \A c : Told(g, c) <=> Told(h, c)
    <2>1. SaidNext(h, a, g)
      <3>1. a \in Messages /\ a.role # "toolResult"
        BY MessageIs DEF a
      <3>2. g = Append(h, a)
        BY <1>1
      <3>. QED  BY <3>1, <3>2, OneMore
    <2>. QED  BY <2>1 DEF SaidNext
  <1>4. UsersOf(g) = UsersOf(h)
    <2>1. DOMAIN <<a>> = {1} /\ <<a>>[1] = a
      OBVIOUS
    <2>2. NoPrompt(<<a>>)
      BY <1>2, <2>1 DEF NoPrompt
    <2>3. UsersOf(h \o <<a>>) = UsersOf(h)
      BY <1>3, <2>2, UsersMore
    <2>. QED  BY <1>3, <2>3
  <1>5. ASSUME ~ failed, Settled(s, T)
        PROVE  JustAnswered(r, T)
    <2>1. \A c \in CallIds : c \in calls => ~ Told(g, c)
      BY <1>3, <1>5 DEF Settled, Tidy, Heard, Unused, h
    <2>2. Owed(r) = calls
      <3>1. ASSUME NEW c \in calls
            PROVE  c \in Owed(r)
        BY <1>1, <2>1 DEF Owed, g
      <3>2. ASSUME NEW c \in Owed(r), c \notin calls
            PROVE  FALSE
        BY <1>1, <1>3, <1>5, <3>2 DEF Owed, Settled, g, h
      <3>. QED  BY <3>1, <3>2
    <2>3. Unsatisfied(r) = calls
      BY <1>1 DEF Unsatisfied, Begun
    <2>4. OwesNow(r)
      BY <1>1, <1>5, <2>2 DEF OwesNow
    <2>5. Heard(r, T)
      BY <1>3, <1>5 DEF Heard, Settled, Tidy, g, h
    <2>6. DOMAIN g = 1 .. Len(h) + 1 /\ DOMAIN h = 1 .. Len(h) /\ Len(h) \in Nat
      BY <1>3, SpokenIs DEF h
    <2>7. ASSUME NEW i \in DOMAIN g, g[i].role = "assistant", NEW c \in g[i].calls
          PROVE  AnsweredAt(g, i, c) \/ (c \in Owed(r) /\ OnlyResultsAfter(g, i))
      <3>1. CASE i \in DOMAIN h
        <4>1. g[i] = h[i]
          BY <1>3, <3>1, SaidMore DEF h, Extends
        <4>2. c \in CallIds
          BY <2>7, <3>1, <4>1, CallsSpoken DEF h
        <4>3. AnsweredAt(h, i, c)
          BY <1>5, <2>7, <3>1, <4>1 DEF Settled, Tidy, InPlace, h
        <4>4. Spoken(<<a>>) /\ g = h \o <<a>>
          BY <1>3
        <4>. QED  BY <3>1, <4>3, <4>4, AnsweredMore
      <3>2. CASE i \notin DOMAIN h
        <4>1. i = Len(h) + 1
          BY <2>6, <3>2
        <4>2. c \in Owed(r)
          BY <1>2, <1>3, <2>2, <2>7, <4>1
        <4>3. OnlyResultsAfter(g, i)
          BY <1>3, <2>6, <4>1 DEF OnlyResultsAfter
        <4>. QED  BY <4>2, <4>3
      <3>. QED  BY <3>1, <3>2
    <2>8. InPlace(r)
      BY <2>7 DEF InPlace, g
    <2>9. NextStep(r).type = IF calls = {} THEN "complete" ELSE "tool"
      BY <1>1, <1>5, <2>3, StepOf
    <2>. QED  BY <1>1, <2>3, <2>4, <2>5, <2>8, <2>9 DEF Tidy, JustAnswered, Untried
  <1>. QED  BY <1>3, <1>4, <1>5 DEF PromptsIn, UsersOf, g, h

LEMMA CompleteSpeaks ==
    ASSUME NEW s, NEW n \in Nat, Conversation(s, n), Begun(s), Spoken(s.history),
           NextStep(s).type = "complete",
           NEW r, r = CompleteTurn(s), NEW T
    PROVE  /\ r.history = s.history /\ PromptsIn(r) = PromptsIn(s)
           /\ Tidy(s, T) =>
                 /\ Settled(r, T)
                 /\ NextStep(r).type \in {"assistant", "none"}
                 /\ LatestTurn(s).calls = {} => NextStep(r).type = "none"
  <1>0. Conversation(r, n) /\ Begun(r) /\ r.calls = s.calls /\ Closed(s, r)
    BY CompleteIs
  <1>1. /\ Conversation(r, n) /\ Begun(r) /\ r.calls = s.calls /\ r.history = s.history
        /\ IF \E i \in DOMAIN s.history :
                 s.history[i].role = "toolResult" /\ s.history[i].calls \subseteq LatestTurn(s).calls
           THEN r.status = "running" /\ LatestTurn(r) = EmptyTurn
           ELSE r.status = "idle" /\ LatestTurn(r).status = "complete"
    BY <1>0 DEF Closed
  <1>2. PromptsIn(r) = PromptsIn(s)
    BY <1>1 DEF PromptsIn
  <1>3. Unsatisfied(s) = {}
    BY NextStepIs
  <1>4. ASSUME Tidy(s, T)
        PROVE  Settled(r, T)
    <2>1. Owed(r) = Owed(s)
      BY <1>1 DEF Owed
    <2>2. Owed(s) = {}
      BY <1>3, <1>4, OwedIs DEF Tidy
    <2>3. InPlace(r) /\ Heard(r, T)
      BY <1>1, <1>4, <2>1 DEF Tidy, InPlace, Heard
    <2>4. OwesNow(r)
      BY <1>1, <2>1, <2>2 DEF OwesNow, EmptyTurn
    <2>. QED  BY <2>1, <2>2, <2>3, <2>4 DEF Settled, Tidy
  <1>5. CASE r.status = "running"
    <2>1. LatestTurn(r) = EmptyTurn
      BY <1>1, <1>5
    <2>2. Unsatisfied(r) = {}
      BY <1>1, <2>1 DEF Unsatisfied, EmptyTurn
    <2>3. NextStep(r).type = "assistant"
      BY <1>1, <1>5, <2>1, <2>2, StepOf DEF EmptyTurn
    <2>4. LatestTurn(s).calls # {}
      BY <1>1, <1>5 DEF Spoken
    <2>. QED  BY <1>1, <1>2, <1>4, <2>3, <2>4
  <1>6. CASE r.status # "running"
    <2>1. NextStep(r).type = "none"
      BY <1>6, StepTypes DEF NoStep
    <2>. QED  BY <1>1, <1>2, <1>4, <2>1
  <1>. QED  BY <1>5, <1>6

LEMMA ErrorSpeaks ==
    ASSUME NEW s, NEW n \in Nat, Conversation(s, n), Begun(s),
           NEW r, r = [s EXCEPT !.status = "error"], NEW T
    PROVE  /\ r.history = s.history /\ PromptsIn(r) = PromptsIn(s)
           /\ Settled(s, T) => Settled(r, T)
  <1>1. r.calls = s.calls /\ r.history = s.history /\ r.turns = s.turns
    BY ErrorIs
  <1>2. Owed(r) = Owed(s) /\ PromptsIn(r) = PromptsIn(s)
    BY <1>1 DEF Owed, PromptsIn
  <1>3. ASSUME Settled(s, T)
        PROVE  Settled(r, T)
    <2>1. InPlace(r) /\ Heard(r, T)
      BY <1>1, <1>2, <1>3 DEF Settled, Tidy, InPlace, Heard
    <2>2. OwesNow(r)
      BY <1>1, <1>2, <1>3 DEF Settled, Tidy, OwesNow, Begun, LatestTurn
    <2>. QED  BY <1>2, <1>3, <2>1, <2>2 DEF Settled, Tidy
  <1>. QED  BY <1>1, <1>2, <1>3

LEMMA FinishSpeaks ==
    ASSUME NEW s, NEW n \in Nat, Conversation(s, n), Begun(s), Spoken(s.history),
           NextStep(s).type = "tool",
           NEW given, DOMAIN given = NextStep(s).calls,
           NEW r, r = FinishCalls(s, given), NEW T
    PROVE  /\ Spoken(r.history) /\ PromptsIn(r) = PromptsIn(s)
           /\ Tidy(s, T) /\ (\A c \in DOMAIN given : given[c] = "finished" => T[c] = "finished") =>
                 Tidy(r, T)
           /\ Tidy(s, T) /\ (\A c \in DOMAIN given : given[c] = "finished") =>
                 /\ Owed(r) = {}
                 /\ NextStep(r).type \in {"complete", "none"} /\ LatestTurn(r).calls # {}
  <1>. DEFINE h == s.history
              g == r.history
              ended == {c \in DOMAIN given : given[c] = "finished"}
              u == TellsOf(ended)
  <1>1. /\ Conversation(r, n) /\ Begun(r)
        /\ r.turns = s.turns /\ r.status = s.status /\ g = h \o u
        /\ \A c \in CallIds : c \notin DOMAIN given => r.calls[c] = s.calls[c]
        /\ \A c \in DOMAIN given :
              /\ r.calls[c] \in {"running", "finished"}
              /\ given[c] # "finished" => r.calls[c] = "running"
        /\ (\A c \in DOMAIN given : given[c] = "finished") =>
              \A c \in DOMAIN given : r.calls[c] = "finished"
    <2>1. Conversation(r, n) /\ Begun(r) /\ Finished(s, given, r)
      BY FinishIs
    <2>. QED  BY <2>1 DEF Finished
  <1>2. /\ s.status = "running" /\ DOMAIN given = Unsatisfied(s) /\ DOMAIN given # {}
        /\ DOMAIN given \in SUBSET CallIds
        /\ \A c \in DOMAIN given : s.calls[c] \in {"pending", "running"}
    BY NextStepIs, UnsatisfiedIs
  <1>3. ended \in SUBSET CallIds /\ IsFiniteSet(ended)
    <2>1. ended \in SUBSET Nat /\ \A c \in ended : c <= n
      BY <1>2, CallIdsAssumption DEF Conversation
    <2>. QED  BY <1>2, <2>1, FS_BoundedSetOfNaturals
  <1>4. LatestTurn(r) = LatestTurn(s) /\ LatestTurn(s) \in Turns
    BY <1>1, LatestIs DEF LatestTurn
  <1>. HIDE DEF g, u
  <1>5. /\ Spoken(u)
        /\ AllResults(u)
        /\ \A c : Told(u, c) <=> c \in ended
    BY <1>3, TellsIs DEF u
  <1>6. /\ Spoken(g)
        /\ \A c : Told(g, c) <=> Told(h, c) \/ c \in ended
    <2>1. Spoken(g)
      BY <1>1, <1>5, SaidMore
    <2>2. \A c : Told(g, c) <=> Told(h, c) \/ Told(u, c)
      BY <1>1, <1>5, ToldMore
    <2>3. \A c : Told(g, c) <=> Told(h, c) \/ c \in ended
      BY <1>5, <2>2
    <2>. QED  BY <2>1, <2>3
  <1>7. UsersOf(g) = UsersOf(h)
    <2>1. NoPrompt(u)
      BY <1>5 DEF AllResults, NoPrompt
    <2>2. UsersOf(h \o u) = UsersOf(h)
      BY <1>5, <2>1, UsersMore
    <2>. QED  BY <1>1, <2>2
  <1>8. Owed(r) \subseteq Owed(s) \ ended
    BY <1>1, <1>2, <1>6 DEF Owed, g, h
  <1>9. ASSUME Tidy(s, T), \A c \in DOMAIN given : given[c] = "finished" => T[c] = "finished"
        PROVE  Tidy(r, T)
    <2>1. Heard(r, T)
      BY <1>6, <1>9 DEF Heard, Tidy, g, h
    <2>2. OwesNow(r)
      BY <1>1, <1>4, <1>8, <1>9 DEF Tidy, OwesNow
    <2>3. ASSUME NEW c \in Owed(s), c \notin ended
          PROVE  c \in Owed(r)
      <3>1. c \in Unsatisfied(s)
        BY <1>9, OwedIs DEF Tidy
      <3>2. c \in CallIds /\ ~ Told(g, c)
        BY <1>6, <2>3 DEF Owed, h
      <3>3. c \in DOMAIN given /\ given[c] # "finished"
        BY <1>2, <2>3, <3>1
      <3>4. r.calls[c] = "running"
        BY <1>1, <3>3
      <3>. QED  BY <3>2, <3>4 DEF Owed, g
    <2>4. ASSUME NEW i \in DOMAIN g, g[i].role = "assistant", NEW c \in g[i].calls
          PROVE  AnsweredAt(g, i, c) \/ (c \in Owed(r) /\ OnlyResultsAfter(g, i))
      <3>1. i \in DOMAIN h
        <4>0. Extends(g, h, u)
          BY <1>1, <1>5, SaidMore
        <4>1. i \in DOMAIN h \/ i - Len(h) \in DOMAIN u
          BY <4>0 DEF Extends
        <4>2. ASSUME i - Len(h) \in DOMAIN u
              PROVE  FALSE
          <5>1. Len(h) \in Nat /\ DOMAIN g = 1 .. Len(g)
            BY <1>6, SpokenIs
          <5>a. \A k \in DOMAIN u : g[Len(h) + k] = u[k]
            BY <4>0 DEF Extends
          <5>2. g[Len(h) + (i - Len(h))] = u[i - Len(h)]
            BY <4>2, <5>a
          <5>3. Len(h) + (i - Len(h)) = i
            BY <5>1
          <5>. QED  BY <1>5, <2>4, <4>2, <5>2, <5>3 DEF AllResults
        <4>. QED  BY <4>1, <4>2
      <3>2. g[i] = h[i]
        BY <1>1, <1>5, <3>1, SaidMore DEF Extends
      <3>3. c \in CallIds
        BY <2>4, <3>1, <3>2, CallsSpoken
      <3>4. AnsweredAt(h, i, c) \/ (c \in Owed(s) /\ OnlyResultsAfter(h, i))
        BY <1>9, <2>4, <3>1, <3>2 DEF Tidy, InPlace
      <3>5. CASE AnsweredAt(h, i, c)
        BY <1>1, <1>5, <3>1, <3>3, <3>5, AnsweredMore
      <3>6. CASE c \in Owed(s) /\ OnlyResultsAfter(h, i)
        <4>1. OnlyResultsAfter(g, i)
          BY <1>1, <1>5, <3>1, <3>6, AnsweredMore
        <4>2. h[i].role = "assistant" /\ c \in h[i].calls
          BY <2>4, <3>2
        <4>3. CASE c \in ended
          <5>1. Told(u, c)
            BY <1>5, <4>3
          <5>. QED  BY <1>1, <1>5, <3>1, <3>6, <4>2, <5>1, AnsweredMore
        <4>. QED  BY <2>3, <3>6, <4>1, <4>3
      <3>. QED  BY <3>4, <3>5, <3>6
    <2>5. InPlace(r)
      BY <2>4 DEF InPlace, g
    <2>. QED  BY <2>1, <2>2, <2>5 DEF Tidy
  <1>10. ASSUME Tidy(s, T), \A c \in DOMAIN given : given[c] = "finished"
         PROVE  /\ Owed(r) = {}
                /\ NextStep(r).type \in {"complete", "none"} /\ LatestTurn(r).calls # {}
    <2>1. Owed(r) = {}
      BY <1>2, <1>8, <1>10, OwedIs DEF Tidy
    <2>2. LatestTurn(s).calls # {} /\ \A c \in LatestTurn(s).calls : c \in CallIds
      BY <1>2, <1>4 DEF Unsatisfied, Begun, Turns
    <2>3. Unsatisfied(r) = {}
      <3>1. ASSUME NEW c \in LatestTurn(s).calls, r.calls[c] \in {"pending", "running"}
            PROVE  FALSE
        <4>1. c \notin DOMAIN given
          BY <1>1, <1>10, <3>1
        <4>2. s.calls[c] \in {"pending", "running"}
          BY <1>1, <2>2, <3>1, <4>1
        <4>. QED  BY <1>2, <4>1, <4>2 DEF Unsatisfied, Begun
      <3>. QED  BY <1>4, <3>1 DEF Unsatisfied
    <2>4. LatestTurn(r).status # "awaiting_assistant"
      BY <1>4, <1>10, <2>2 DEF Tidy, OwesNow
    <2>5. NextStep(r).type \notin {"tool", "assistant"}
      BY <1>1, <2>3, <2>4, StepOf, NextStepIs
    <2>. QED  BY <1>1, <1>4, <2>1, <2>2, <2>5, StepOf
  <1>. QED  BY <1>6, <1>7, <1>9, <1>10 DEF PromptsIn, UsersOf, g

(* The answers right before a tool result are one and the same.            *)
LEMMA OneAnswer ==
    ASSUME NEW h, Spoken(h), NEW i \in DOMAIN h, NEW k \in DOMAIN h, NEW j \in DOMAIN h,
           Answers(h, i, j), Answers(h, k, j)
    PROVE  i = k
  <1>1. i \in Nat /\ k \in Nat /\ j \in Nat
    BY SpokenIs
  <1>2. ASSUME i < k
        PROVE  FALSE
    <2>1. k \in (i + 1) .. j
      BY <1>1, <1>2 DEF Answers
    <2>. QED  BY <2>1 DEF Answers
  <1>3. ASSUME k < i
        PROVE  FALSE
    <2>1. i \in (k + 1) .. j
      BY <1>1, <1>3 DEF Answers
    <2>. QED  BY <2>1 DEF Answers
  <1>. QED  BY <1>1, <1>2, <1>3

(* Of the results of a call in their place, the first one is sent and no   *)
(* other.                                                                  *)
LEMMA FirstIsSent ==
    ASSUME NEW h, Spoken(h), NEW i \in DOMAIN h, NEW c, AnsweredAt(h, i, c)
    PROVE  \E j \in Sanitize(h) :
              {k \in Sanitize(h) : Answers(h, i, k) /\ h[k].calls = {c}} = {j}
  <1>. DEFINE S == {j \in DOMAIN h : h[j].calls = {c} /\ Answers(h, i, j)}
  <1>1. DOMAIN h = 1 .. Len(h) /\ Len(h) \in Nat
    BY SpokenIs
  <1>2. S \in SUBSET Nat /\ IsFiniteSet(S) /\ S # {}
    <2>1. IsFiniteSet(DOMAIN h)
      BY <1>1, FS_Interval
    <2>2. IsFiniteSet(S)
      BY <2>1, FS_Subset
    <2>. QED  BY <1>1, <2>2 DEF AnsweredAt
  <1>3. PICK j \in S : \A y \in S : j <= y
    BY <1>2, FirstOf
  <1>4. j \in DOMAIN h /\ h[j].calls = {c} /\ Answers(h, i, j)
    BY <1>3
  <1>5. ASSUME NEW k \in (i + 1) .. (j - 1), h[k].calls = h[j].calls
        PROVE  FALSE
    <2>1. k \in DOMAIN h /\ i < k /\ (i + 1) .. k \subseteq (i + 1) .. j /\ ~ (j <= k)
      BY <1>1, <1>4
    <2>2. Answers(h, i, k)
      BY <1>4, <1>5, <2>1 DEF Answers
    <2>. QED  BY <1>3, <1>4, <1>5, <2>1, <2>2
  <1>6. j \in Sanitize(h)
    <2>1. i \in 1 .. (j - 1)
      BY <1>1, <1>4 DEF Answers
    <2>. QED  BY <1>4, <1>5, <2>1 DEF Sanitize
  <1>7. ASSUME NEW k \in Sanitize(h), Answers(h, i, k), h[k].calls = {c}
        PROVE  k = j
    <2>1. k \in DOMAIN h /\ k \in S
      BY <1>7 DEF Sanitize
    <2>2. h[k].role = "toolResult"
      <3>1. k \in (i + 1) .. k
        BY <1>1, <1>7, <2>1 DEF Answers
      <3>. QED  BY <1>7, <3>1 DEF Answers
    <2>3. PICK a \in 1 .. (k - 1) : /\ Answers(h, a, k)
                                    /\ \A b \in (a + 1) .. (k - 1) : h[b].calls # h[k].calls
      BY <1>7, <2>2 DEF Sanitize
    <2>4. a = i
      <3>1. a \in DOMAIN h
        BY <1>1, <2>1
      <3>. QED  BY <1>7, <2>1, <2>3, <3>1, OneAnswer
    <2>5. ~ (j \in (i + 1) .. (k - 1))
      BY <1>4, <1>7, <2>3, <2>4
    <2>. QED  BY <1>1, <1>3, <1>4, <2>1, <2>5 DEF Answers
  <1>. QED  BY <1>4, <1>6, <1>7

(* Where every call is answered in its place, the model is sent what it    *)
(* accepts.                                                                *)
LEMMA SettledIsWell ==
    ASSUME NEW s, Spoken(s.history), NEW T, Settled(s, T)
    PROVE  WellAnswered(s.history)
  <1>. DEFINE h == s.history
  <1>1. ASSUME NEW i \in Sanitize(h), h[i].role = "toolResult"
        PROVE  \E k \in Sanitize(h) : Answers(h, k, i)
    <2>1. PICK k \in 1 .. (i - 1) : Answers(h, k, i)
      BY <1>1 DEF Sanitize
    <2>2. k \in DOMAIN h
      <3>1. i \in DOMAIN h /\ DOMAIN h = 1 .. Len(h) /\ Len(h) \in Nat
        BY SpokenIs DEF Sanitize
      <3>. QED  BY <3>1
    <2>3. k \in Sanitize(h)
      BY <2>1, <2>2 DEF Sanitize, Answers
    <2>. QED  BY <2>1, <2>3
  <1>2. ASSUME NEW i \in Sanitize(h), h[i].role = "assistant", NEW c \in h[i].calls
        PROVE  \E j \in Sanitize(h) :
                  {k \in Sanitize(h) : Answers(h, i, k) /\ h[k].calls = {c}} = {j}
    <2>1. i \in DOMAIN h
      BY DEF Sanitize
    <2>2. AnsweredAt(h, i, c)
      BY <1>2, <2>1 DEF Settled, Tidy, InPlace
    <2>3. Spoken(h)
      OBVIOUS
    <2>. HIDE DEF h
    <2>. QED  BY <2>1, <2>2, <2>3, FirstIsSent
  <1>. QED  BY <1>1, <1>2 DEF WellAnswered

-----------------------------------------------------------------------------
(* Conversations in the tables and in the worker                           *)

Untouched == \A c \in CallIds : c > issued => toolRun[c] = "none"

SpeechInv ==
    /\ Spoken(stored.history) /\ Spoken(cur.history) /\ Spoken(work.history)
    /\ \A k \in DOMAIN journal : Spoken(journal[k].history)
    /\ Untouched
    /\ pc = "tools" => \A c \in DOMAIN results : results[c] = "finished" => toolRun[c] = "finished"
    /\ prompts \in Nat

LEMMA ModelAnswersSpeak ==
    ASSUME NEW s, Conversation(s, issued), Begun(s), s.status = "running", Spoken(s.history),
           TypesInv, Untouched, ModelAnswers(s)
    PROVE  /\ stored' = work' /\ issued' \in Nat /\ issued <= issued'
           /\ Spoken(work'.history)
           /\ PromptsIn(work') = PromptsIn(s)
           /\ faults' = 0 => faults = 0
           /\ faults' = 0 /\ Settled(s, toolRun) => JustAnswered(work', toolRun)
  <1>1. PICK n \in 0 .. MaxCalls, failed \in BOOLEAN :
           /\ issued + 1 .. issued + n \subseteq CallIds
           /\ issued' = issued + n
           /\ faults' = IF failed THEN faults + 1 ELSE faults
           /\ SaveWork(Answer(s, issued + 1 .. issued + n, failed))
    BY DEF ModelAnswers
  <1>. DEFINE calls == issued + 1 .. issued + n
              m == issued + n
  <1>2. n \in Nat /\ issued \in Nat /\ faults \in Nat
    BY DEF TypesInv
  <1>3. m \in Nat /\ issued <= m /\ calls \in SUBSET CallIds
    BY <1>1, <1>2
  <1>4. \A c \in calls : issued < c /\ c <= m
    BY <1>2
  <1>5. work' = Answer(s, calls, failed) /\ stored' = work' /\ issued' = m
    BY <1>1 DEF SaveWork
  <1>6. Unused(calls, toolRun)
    BY <1>2, <1>3, <1>4 DEF Untouched, Unused
  <1>. HIDE DEF calls, m
  <1>7. /\ Spoken(work'.history)
        /\ PromptsIn(work') = PromptsIn(s)
        /\ ~ failed /\ Settled(s, toolRun) => JustAnswered(work', toolRun)
    BY <1>2, <1>3, <1>4, <1>5, <1>6, AnswerSpeaks
  <1>8. faults' = 0 => faults = 0 /\ ~ failed
    BY <1>1, <1>2
  <1>. QED  BY <1>3, <1>5, <1>7, <1>8

LEMMA UntouchedKept ==
    ASSUME Untouched, issued \in Nat, issued' \in Nat, issued <= issued', toolRun' = toolRun
    PROVE  Untouched'
  <1>1. \A c \in CallIds : c > issued' => c > issued
    BY CallIdsAssumption
  <1>. QED  BY <1>1 DEF Untouched

LEMMA EmptySpeaks ==
    Spoken(EmptySession.history)
  BY DEF Spoken, EmptySession

(* What has been recorded has been said.                                   *)
LEMMA SpokenAdded ==
    ASSUME NEW J, \A k \in DOMAIN J : Spoken(J[k].history),
           NEW key, NEW s, Spoken(s.history), NEW K, K = Added(J, key, s)
    PROVE  \A k \in DOMAIN K : Spoken(K[k].history)
  BY DEF Added

(* Marking a call that runs leaves those that were never made.             *)
LEMMA SpeechTool ==
    ASSUME TypesInv, PlaceInv, SpeechInv, NEW c \in CallIds, BeginTool(c) \/ EndTool(c)
    PROVE  /\ SpeechInv'
           /\ \A d \in CallIds : toolRun[d] = "finished" => toolRun'[d] = "finished"
  <1>1. /\ pc = "tools" /\ pc' = "tools" /\ c \in DOMAIN results
        /\ UNCHANGED <<stored, journal, cur, work, issued, prompts>>
    BY DEF BeginTool, EndTool, outside
  <1>2. c <= issued /\ c \in Nat /\ issued \in Nat
    <2>1. c \in Unsatisfied(cur) /\ Begun(cur) /\ Conversation(cur, issued)
      BY <1>1, NextStepIs DEF PlaceInv, ToolsInv, PromptInv, Live, TypesInv
    <2>2. cur.calls[c] # "none"
      BY <2>1, UnsatisfiedIs
    <2>. QED  BY <2>1, <2>2, CallIdsAssumption DEF Conversation, TypesInv
  <1>3. /\ \A d \in CallIds : d # c => toolRun'[d] = toolRun[d]
        /\ toolRun[c] = "finished" => toolRun'[c] = "finished"
        /\ DOMAIN results' = DOMAIN results
        /\ \A d \in DOMAIN results : d # c => results'[d] = results[d]
        /\ results'[c] = "finished" => toolRun'[c] = "finished"
    <2>1. toolRun \in [CallIds -> {"none", "running", "finished"}]
      BY DEF TypesInv
    <2>2. CASE BeginTool(c)
      <3>1. CASE toolRun[c] = "finished"
        BY <2>1, <2>2, <3>1 DEF BeginTool
      <3>2. CASE toolRun[c] # "finished"
        BY <2>1, <2>2, <3>2 DEF BeginTool
      <3>. QED  BY <3>1, <3>2
    <2>3. CASE EndTool(c)
      <3>1. results[c] = "executing" /\ toolRun[c] = "running"
        BY <1>1, <2>3 DEF EndTool, PlaceInv, ToolsInv
      <3>2. CASE /\ results' = [results EXCEPT ![c] = "finished"]
                 /\ toolRun' = [toolRun EXCEPT ![c] = "finished"]
        BY <1>1, <2>1, <3>2
      <3>3. CASE results' = [results EXCEPT ![c] = "running"] /\ UNCHANGED toolRun
        BY <1>1, <3>1, <3>3
      <3>. QED  BY <2>3, <3>2, <3>3 DEF EndTool
    <2>. QED  BY <2>2, <2>3
  <1>4. Untouched'
    <2>1. ASSUME NEW d \in CallIds, d > issued
          PROVE  toolRun'[d] = "none"
      <3>1. d # c
        BY <1>2, <2>1
      <3>. QED  BY <1>3, <2>1, <3>1 DEF SpeechInv, Untouched
    <2>. QED  BY <1>1, <2>1 DEF Untouched
  <1>5. \A d \in DOMAIN results' : results'[d] = "finished" => toolRun'[d] = "finished"
    <2>1. DOMAIN results \subseteq CallIds
      BY <1>1, NextStepIs, UnsatisfiedIs DEF PlaceInv, ToolsInv, PromptInv, Live, TypesInv
    <2>. QED  BY <1>1, <1>3, <2>1 DEF SpeechInv
  <1>. QED  BY <1>1, <1>3, <1>4, <1>5 DEF SpeechInv

LEMMA SpeechFrame ==
    ASSUME SpeechInv, UNCHANGED <<toolRun, issued>>, pc' # "tools",
           Spoken(stored'.history), Spoken(cur'.history), Spoken(work'.history),
           \A k \in DOMAIN journal' : Spoken(journal'[k].history),
           prompts' \in Nat
    PROVE  SpeechInv'
  BY DEF SpeechInv, Untouched

LEMMA SpeechStep ==
    ASSUME TypesInv, PlaceInv, SpeechInv, Next
    PROVE  SpeechInv'
  <1>. USE DEF tables, worker, outside
  <1>0. pc \in Live => Begun(cur)
    BY DEF PlaceInv, PromptInv
  <1>1. CASE GivePrompt
    BY <1>1 DEF GivePrompt, SpeechInv, Untouched
  <1>2. CASE Start \/ Fault \/ Report \/ CheckLimit \/ Finalize \/ ReplayFinal
    <2>1. CASE Report
      <3>1. Spoken(stored'.history)
        BY <2>1, StatusIs DEF Report, SaveError, SaveErrorRow, SpeechInv, TypesInv
      <3>. QED  BY <2>1, <3>1, SpeechFrame DEF Report, SaveError, SaveErrorRow, SpeechInv
    <2>2. CASE ~ Report
      BY <1>2, <2>2 DEF Start, Fault, CheckLimit, Finalize, ReplayFinal, SpeechInv, Untouched
    <2>. QED  BY <2>1, <2>2
  <1>3. CASE Yield \/ Complete \/ Crash
    <2>1. /\ Leave /\ UNCHANGED <<stored, journal, toolRun, issued, prompts>>
      BY <1>3 DEF Yield, Complete, Crash
    <2>2. pc' # "tools" /\ cur' = EmptySession /\ work' = EmptySession
      BY <2>1 DEF Leave
    <2>. QED  BY <2>1, <2>2, EmptySpeaks, SpeechFrame DEF SpeechInv
  <1>4. CASE ReplayEnqueue
    BY <1>4, SpeechFrame DEF ReplayEnqueue, SpeechInv, Recorded
  <1>5. CASE SavePrompt
    <2>1. Spoken(work'.history) /\ stored' = work'
      BY <1>5, EnqueueSpeaks DEF SavePrompt, SaveWork, SpeechInv, TypesInv
    <2>. QED  BY <1>5, <2>1, SpeechFrame DEF SavePrompt, SpeechInv
  <1>6. CASE FirstAnswer
    <2>1. stored' = work' /\ issued' \in Nat /\ issued <= issued' /\ Spoken(work'.history)
      BY <1>6, ModelAnswersSpeak DEF FirstAnswer, SpeechInv, TypesInv, PlaceInv, PromptInv
    <2>2. Untouched'
      BY <1>6, <2>1, UntouchedKept DEF FirstAnswer, SpeechInv, TypesInv
    <2>. QED  BY <1>6, <2>1, <2>2 DEF FirstAnswer, SpeechInv
  <1>7. CASE RecordPrompt
    <2>1. journal' = Added(journal, EnqueueKey, work)
      BY <1>7, RecordIs DEF RecordPrompt
    <2>2. \A k \in DOMAIN journal' : Spoken(journal'[k].history)
      BY <2>1, SpokenAdded DEF SpeechInv
    <2>. QED  BY <1>7, <2>2, SpeechFrame DEF RecordPrompt, SpeechInv
  <1>8. CASE Resume
    BY <1>8, SpeechFrame DEF Resume, SpeechInv
  <1>9. CASE Ask
    <2>1. Begun(cur) /\ cur.status = "running"
      BY <1>0, <1>9, NextStepIs DEF Ask, NewStep, TypesInv, Live
    <2>2. stored' = work' /\ issued' \in Nat /\ issued <= issued' /\ Spoken(work'.history)
      BY <1>9, <2>1, ModelAnswersSpeak DEF Ask, SpeechInv, TypesInv
    <2>3. Untouched'
      BY <1>9, <2>2, UntouchedKept DEF Ask, SpeechInv, TypesInv
    <2>. QED  BY <1>9, <2>2, <2>3 DEF Ask, SpeechInv
  <1>10. CASE EndTurn
    <2>1. Spoken(work'.history) /\ stored' = work'
      BY <1>0, <1>10, CompleteSpeaks DEF EndTurn, NewStep, SaveWork, SpeechInv, TypesInv, Live
    <2>. QED  BY <1>10, <2>1, SpeechFrame DEF EndTurn, SpeechInv
  <1>11. CASE StartTools
    BY <1>11 DEF StartTools, SpeechInv, Untouched
  <1>12. CASE SaveTools
    <2>1. Spoken(work'.history) /\ stored' = work'
      BY <1>0, <1>12, FinishSpeaks
         DEF SaveTools, SaveWork, SpeechInv, TypesInv, PlaceInv, ToolsInv, Live
    <2>2. pc' # "tools" /\ UNCHANGED <<toolRun, issued, cur, journal, prompts>>
      BY <1>12 DEF SaveTools
    <2>. QED  BY <2>1, <2>2, SpeechFrame DEF SpeechInv
  <1>13. ASSUME NEW c \in CallIds, BeginTool(c) \/ EndTool(c)
         PROVE  SpeechInv'
    BY <1>13, SpeechTool
  <1>14. CASE RecordStep
    <2>1. /\ journal' = Added(journal, StepKey, work) /\ cur' = work /\ pc' = "limit"
          /\ UNCHANGED <<stored, work, toolRun>>
      BY <1>14, RecordStepIs
    <2>2. \A k \in DOMAIN journal' : Spoken(journal'[k].history)
      BY <2>1, SpokenAdded DEF SpeechInv
    <2>. QED  BY <1>14, <2>1, <2>2, SpeechFrame DEF RecordStep, SpeechInv
  <1>15. CASE ReplayStep
    BY <1>15, SpeechFrame DEF ReplayStep, Proceed, Recorded, SpeechInv
  <1>16. CASE StopAtLimit
    <2>1. Spoken(work'.history) /\ stored' = work'
      BY <1>0, <1>16, ErrorSpeaks DEF StopAtLimit, SaveWork, SpeechInv, TypesInv, Live
    <2>. QED  BY <1>16, <2>1, SpeechFrame DEF StopAtLimit, SpeechInv
  <1>17. CASE RecordStop
    <2>1. journal' = Added(journal, LimitKey, work) /\ cur' = work
      BY <1>17, RecordStopIs
    <2>2. \A k \in DOMAIN journal' : Spoken(journal'[k].history)
      BY <2>1, SpokenAdded DEF SpeechInv
    <2>. QED  BY <1>17, <2>1, <2>2, SpeechFrame DEF RecordStop, SpeechInv
  <1>18. CASE ReplayStop
    BY <1>18, SpeechFrame DEF ReplayStop, Recorded, SpeechInv
  <1>19. CASE RecordFinal
    <2>1. journal' = Added(journal, FinalKey, cur)
      BY <1>19, RecordIs DEF RecordFinal
    <2>2. \A k \in DOMAIN journal' : Spoken(journal'[k].history)
      BY <2>1, SpokenAdded DEF SpeechInv
    <2>. QED  BY <1>19, <2>2, SpeechFrame DEF RecordFinal, SpeechInv
  <1>20. CASE RecordReport
    <2>1. journal' = Added(journal, ErrorKey, cur)
      BY <1>20, RecordIs DEF RecordReport
    <2>2. \A k \in DOMAIN journal' : Spoken(journal'[k].history)
      BY <2>1, SpokenAdded DEF SpeechInv
    <2>. QED  BY <1>20, <2>2, SpeechFrame DEF RecordReport, SpeechInv
  <1>. QED
    BY <1>1, <1>2, <1>3, <1>4, <1>5, <1>6, <1>7, <1>8, <1>9, <1>10, <1>11, <1>12, <1>13, <1>14,
       <1>15, <1>16, <1>17, <1>18, <1>19, <1>20 DEF Next, Progress

-----------------------------------------------------------------------------
(* How many prompts the conversations hold                                 *)

(* The prompt that was given is not yet in the stored conversation.        *)
Pending == open /\ ~ Recorded(EnqueueKey) /\ pc \notin {"first_answer", "record_prompt"}

(* Without faults, the stored conversation holds every prompt at least     *)
(* once, and the worker's and the recorded ones hold as many.              *)
CountInv ==
    faults = 0 =>
        /\ pc \notin {"report", "report_row", "record_report"}
        /\ pc = "complete" => Recorded(EnqueueKey)
        /\ ~ Recorded(EnqueueKey) => DOMAIN journal = {}
        /\ Recorded(EnqueueKey) =>
              \A k \in DOMAIN journal : PromptsIn(journal[k]) = PromptsIn(stored)
        /\ pc \in Live \cup {"resume"} => PromptsIn(cur) = PromptsIn(stored)
        /\ prompts <= PromptsIn(stored) + (IF Pending THEN 1 ELSE 0)

LEMMA PromptsIs ==
    ASSUME NEW s, Spoken(s.history)
    PROVE  PromptsIn(s) \in Nat
  BY SpokenIs DEF PromptsIn, UsersOf

LEMMA CountFrame ==
    ASSUME CountInv, SpeechInv, faults = 0, UNCHANGED <<stored, journal, prompts>>,
           open' = open \/ Recorded(EnqueueKey),
           pc' \notin {"first_answer", "record_prompt", "report", "report_row", "record_report"},
           pc' = "complete" => Recorded(EnqueueKey),
           pc' \in Live \cup {"resume"} => PromptsIn(cur') = PromptsIn(stored)
    PROVE  CountInv'
  <1>1. PromptsIn(stored) \in Nat /\ prompts \in Nat
    BY PromptsIs DEF SpeechInv
  <1>2. Recorded(EnqueueKey)' = Recorded(EnqueueKey) /\ PromptsIn(stored)' = PromptsIn(stored)
    BY DEF Recorded
  <1>3. prompts' <= PromptsIn(stored') + (IF Pending' THEN 1 ELSE 0)
    BY <1>1, <1>2 DEF CountInv, Pending
  <1>. QED  BY <1>2, <1>3 DEF CountInv, Live

LEMMA CountSaved ==
    ASSUME CountInv, faults = 0, UNCHANGED <<journal, prompts, open, cur>>,
           pc \in Live, pc' \in Live \cup {"yield"}, Recorded(EnqueueKey),
           PromptsIn(stored') = PromptsIn(cur)
    PROVE  CountInv'
  <1>1. Recorded(EnqueueKey)' /\ PromptsIn(stored') = PromptsIn(stored)
    BY DEF Recorded, CountInv
  <1>2. ~ Pending /\ ~ Pending'
    BY <1>1 DEF Pending
  <1>. QED  BY <1>1, <1>2 DEF CountInv, Live

LEMMA CountNoted ==
    ASSUME CountInv, faults = 0, UNCHANGED <<stored, prompts>>,
           NEW key, NEW s, journal' = Added(journal, key, s), PromptsIn(s) = PromptsIn(stored),
           Recorded(EnqueueKey),
           pc' \in Live => cur' = s, pc' \in Live \cup {"complete"}
    PROVE  CountInv'
  <1>1. Recorded(EnqueueKey)' /\ \A k \in DOMAIN journal' : PromptsIn(journal'[k]) = PromptsIn(stored)
    BY DEF Recorded, CountInv, Added
  <1>2. ~ Pending /\ ~ Pending'
    BY <1>1 DEF Pending
  <1>. QED  BY <1>1, <1>2 DEF CountInv, Live

LEMMA FaultsGrow ==
    ASSUME TypesInv, PlaceInv, SpeechInv, Next, faults' = 0
    PROVE  faults = 0 /\ ~ Fault
  <1>1. CASE FirstAnswer
    BY <1>1, ModelAnswersSpeak DEF FirstAnswer, Fault, SpeechInv, TypesInv, PlaceInv, PromptInv
  <1>2. CASE Ask
    <2>1. Begun(cur) /\ cur.status = "running"
      BY <1>2, NextStepIs DEF Ask, NewStep, TypesInv, Live, PlaceInv, PromptInv
    <2>2. faults = 0
      BY <1>2, <2>1, ModelAnswersSpeak DEF Ask, SpeechInv, TypesInv
    <2>. QED  BY <1>2, <2>2 DEF Ask, Fault
  <1>3. CASE Fault
    BY <1>3 DEF Fault, TypesInv
  <1>4. CASE ~ (FirstAnswer \/ Ask \/ Fault)
    BY <1>4 DEF Next, Progress, GivePrompt, Start, ReplayEnqueue, SavePrompt,
                RecordPrompt, Resume, EndTurn, StartTools, BeginTool, EndTool, SaveTools,
                Yield, RecordStep, ReplayStep, CheckLimit, StopAtLimit, RecordStop, ReplayStop,
                Finalize, RecordFinal, ReplayFinal, Complete, Report,
                SaveError, SaveErrorRow, RecordReport, Crash, outside
  <1>. QED  BY <1>1, <1>2, <1>3, <1>4

(* The worker has a conversation, and the enqueueing is recorded.          *)
LEMMA LiveIs ==
    ASSUME PlaceInv, pc \in Live \cup {"resume"}
    PROVE  Recorded(EnqueueKey) /\ Begun(cur)
  BY DEF PlaceInv, PromptInv

LEMMA CountStep ==
    ASSUME TypesInv, PlaceInv, SpeechInv, CountInv, Next
    PROVE  CountInv'
  <1>. SUFFICES ASSUME faults' = 0
                PROVE  CountInv'
    BY DEF CountInv
  <1>0. faults = 0 /\ ~ Fault
    BY FaultsGrow
  <1>. USE <1>0 DEF tables, worker, outside
  <1>1. CASE GivePrompt
    <2>1. DOMAIN journal' = {} /\ ~ Pending
      BY <1>1 DEF GivePrompt, Pending
    <2>2. PromptsIn(stored) \in Nat /\ prompts \in Nat /\ prompts <= PromptsIn(stored)
      BY <2>1, PromptsIs DEF SpeechInv, CountInv
    <2>3. Pending'
      BY <1>1, <2>1 DEF GivePrompt, Pending, Recorded
    <2>. QED  BY <1>1, <2>1, <2>2, <2>3 DEF GivePrompt, CountInv, Recorded, Live
  <1>2. CASE Start
    BY <1>2, CountFrame DEF Start, Live
  <1>3. CASE Yield \/ Crash
    <2>1. UNCHANGED <<stored, journal, prompts, open>> /\ pc' = "off"
      BY <1>3 DEF Yield, Crash, Leave
    <2>. QED  BY <2>1, CountFrame DEF Live
  <1>4. CASE Complete
    <2>1. UNCHANGED <<stored, journal, prompts>> /\ pc' = "off" /\ Recorded(EnqueueKey)
      BY <1>4 DEF Complete, Leave, CountInv
    <2>. QED  BY <2>1, CountFrame DEF Live
  <1>5. CASE ReplayEnqueue
    <2>1. PromptsIn(cur') = PromptsIn(stored)
      BY <1>5 DEF ReplayEnqueue, CountInv, Recorded
    <2>. QED  BY <1>5, <2>1, CountFrame DEF ReplayEnqueue
  <1>6. CASE SavePrompt
    <2>1. /\ stored' = work' /\ PromptsIn(stored) \in Nat
          /\ PromptsIn(work') = PromptsIn(stored) + 1
      BY <1>6, EnqueueSpeaks DEF SavePrompt, SaveWork, SpeechInv, TypesInv
    <2>2. prompts \in Nat /\ prompts <= PromptsIn(stored) + 1
      BY <2>1 DEF CountInv, SpeechInv
    <2>3. ~ Recorded(EnqueueKey)' /\ ~ Pending' /\ prompts' = prompts /\ pc' = "first_answer"
          /\ DOMAIN journal' = {}
      BY <1>6 DEF SavePrompt, Recorded, Pending, CountInv
    <2>. QED  BY <2>1, <2>2, <2>3 DEF CountInv, Live
  <1>7. CASE FirstAnswer
    <2>1. stored' = work' /\ PromptsIn(work') = PromptsIn(work) /\ stored = work
      BY <1>7, ModelAnswersSpeak DEF FirstAnswer, SpeechInv, TypesInv, PlaceInv, PromptInv
    <2>2. ~ Recorded(EnqueueKey)' /\ ~ Pending /\ ~ Pending' /\ prompts' = prompts /\ pc' = "record_prompt"
          /\ DOMAIN journal' = {}
      BY <1>7 DEF FirstAnswer, Recorded, Pending, CountInv, PlaceInv, PromptInv
    <2>. QED  BY <2>1, <2>2 DEF CountInv, Live
  <1>8. CASE RecordPrompt
    <2>1. /\ journal' = Added(journal, EnqueueKey, work) /\ cur' = work /\ stored = work
          /\ pc' = "resume" /\ UNCHANGED <<stored, prompts>> /\ pc = "record_prompt"
          /\ ~ Recorded(EnqueueKey)
      BY <1>8, RecordIs DEF RecordPrompt, PlaceInv, PromptInv
    <2>b. DOMAIN journal = {} /\ EnqueueKey \notin DOMAIN journal
      BY <2>1 DEF CountInv, Recorded
    <2>2. /\ DOMAIN journal' = {EnqueueKey} /\ journal'[EnqueueKey] = work
      <3>1. journal' = Added(journal, EnqueueKey, work)
        BY <2>1
      <3>. QED  BY <3>1, <2>b DEF Added
    <2>a. prompts <= PromptsIn(stored)
      <3>1. PromptsIn(stored) \in Nat /\ prompts \in Nat /\ ~ Pending
        BY <2>1, PromptsIs DEF SpeechInv, Pending
      <3>. QED  BY <3>1 DEF CountInv
    <2>3. Recorded(EnqueueKey)' /\ ~ Pending'
      BY <2>2 DEF Recorded, Pending
    <2>c. PromptsIn(stored) \in Nat
      BY PromptsIs DEF SpeechInv
    <2>d. \A k \in DOMAIN journal' : PromptsIn(journal'[k]) = PromptsIn(stored')
      BY <2>1, <2>2
    <2>e. prompts' <= PromptsIn(stored') + (IF Pending' THEN 1 ELSE 0)
      BY <2>1, <2>a, <2>c, <2>3
    <2>f. PromptsIn(cur') = PromptsIn(stored')
      BY <2>1
    <2>. QED  BY <2>1, <2>3, <2>d, <2>e, <2>f DEF CountInv, Live
  <1>9. CASE Resume
    <2>1. Recorded(EnqueueKey) /\ PromptsIn(cur') = PromptsIn(stored) /\ pc' = "step"
      BY <1>9, LiveIs DEF Resume, CountInv
    <2>. QED  BY <1>9, <2>1, CountFrame DEF Resume
  <1>10. CASE Ask
    <2>1. Recorded(EnqueueKey) /\ Begun(cur) /\ cur.status = "running" /\ pc \in Live
      BY <1>10, LiveIs, NextStepIs DEF Ask, NewStep, TypesInv, Live
    <2>2. stored' = work' /\ PromptsIn(work') = PromptsIn(cur)
      BY <1>10, <2>1, ModelAnswersSpeak DEF Ask, SpeechInv, TypesInv
    <2>. QED  BY <1>10, <2>1, <2>2, CountSaved DEF Ask, Live
  <1>11. CASE EndTurn
    <2>1. Recorded(EnqueueKey) /\ Begun(cur) /\ pc \in Live
      BY <1>11, LiveIs DEF EndTurn, NewStep, Live
    <2>2. stored' = work' /\ PromptsIn(work') = PromptsIn(cur)
      BY <1>11, <2>1, CompleteSpeaks DEF EndTurn, NewStep, SaveWork, SpeechInv, TypesInv
    <2>. QED  BY <1>11, <2>1, <2>2, CountSaved DEF EndTurn, Live
  <1>12. CASE SaveTools
    <2>1. Recorded(EnqueueKey) /\ Begun(cur) /\ pc \in Live
      BY <1>12, LiveIs DEF SaveTools, Live
    <2>2. stored' = work' /\ PromptsIn(work') = PromptsIn(cur)
      BY <1>12, <2>1, FinishSpeaks DEF SaveTools, SaveWork, SpeechInv, TypesInv, PlaceInv, ToolsInv
    <2>. QED  BY <1>12, <2>1, <2>2, CountSaved DEF SaveTools, Live
  <1>13. CASE StopAtLimit
    <2>1. Recorded(EnqueueKey) /\ Begun(cur) /\ pc \in Live
      BY <1>13, LiveIs DEF StopAtLimit, Live
    <2>2. stored' = work' /\ PromptsIn(work') = PromptsIn(cur)
      BY <1>13, <2>1, ErrorSpeaks DEF StopAtLimit, SaveWork, TypesInv
    <2>. QED  BY <1>13, <2>1, <2>2, CountSaved DEF StopAtLimit, Live
  <1>14. ASSUME \/ StartTools \/ CheckLimit \/ Finalize \/ ReplayFinal
                \/ \E c \in CallIds : BeginTool(c) \/ EndTool(c)
         PROVE  CountInv'
    <2>1. /\ UNCHANGED <<stored, journal, prompts, open, cur>> /\ pc \in Live
          /\ pc' \in Live \cup {"complete"}
      BY <1>14 DEF StartTools, CheckLimit, Finalize, ReplayFinal, BeginTool, EndTool,
                   NewStep, AtEnd, Live
    <2>2. Recorded(EnqueueKey) /\ PromptsIn(cur) = PromptsIn(stored)
      BY <2>1, LiveIs DEF CountInv
    <2>. QED  BY <2>1, <2>2, CountFrame DEF Live
  <1>15. CASE ReplayStep \/ ReplayStop
    <2>1. /\ UNCHANGED <<stored, journal, prompts, open>> /\ pc \in Live /\ pc' \in {"step", "limit"}
          /\ \E k \in DOMAIN journal : cur' = journal[k]
      BY <1>15 DEF ReplayStep, ReplayStop, Proceed, Recorded, Live
    <2>2. Recorded(EnqueueKey) /\ PromptsIn(cur') = PromptsIn(stored)
      BY <2>1, LiveIs DEF CountInv
    <2>. QED  BY <2>1, <2>2, CountFrame DEF Live
  <1>16. CASE RecordStep
    <2>1. /\ journal' = Added(journal, StepKey, work) /\ cur' = work /\ pc' = "limit"
          /\ UNCHANGED stored /\ pc = "record"
      BY <1>16, RecordStepIs DEF RecordStep
    <2>2. Recorded(EnqueueKey) /\ stored = work /\ UNCHANGED prompts
      BY <1>16, <2>1, LiveIs DEF RecordStep, PlaceInv, RecordInv, Live
    <2>. QED  BY <2>1, <2>2, CountNoted DEF Live
  <1>17. CASE RecordStop
    <2>1. /\ journal' = Added(journal, LimitKey, work) /\ cur' = work
      BY <1>17, RecordStopIs
    <2>2. /\ Recorded(EnqueueKey) /\ stored = work /\ UNCHANGED <<stored, prompts>>
          /\ pc' = "step"
      BY <1>17, LiveIs DEF RecordStop, PlaceInv, RecordInv, Live
    <2>. QED  BY <2>1, <2>2, CountNoted DEF Live
  <1>18. CASE RecordFinal
    <2>1. journal' = Added(journal, FinalKey, cur)
      BY <1>18, RecordIs DEF RecordFinal
    <2>2. /\ Recorded(EnqueueKey) /\ PromptsIn(cur) = PromptsIn(stored)
          /\ UNCHANGED <<stored, prompts>> /\ pc' = "complete"
      BY <1>18, LiveIs DEF RecordFinal, CountInv, Live
    <2>. QED  BY <2>1, <2>2, CountNoted DEF Live
  <1>19. CASE Report \/ RecordReport
    BY <1>19 DEF Report, SaveError, SaveErrorRow, RecordReport, CountInv
  <1>. QED
    BY <1>1, <1>2, <1>3, <1>4, <1>5, <1>6, <1>7, <1>8, <1>9, <1>10, <1>11, <1>12, <1>13,
       <1>14, <1>15, <1>16, <1>17, <1>18, <1>19 DEF Next, Progress

-----------------------------------------------------------------------------
(* At which position a step is taken                                       *)

(* A turn takes three positions: the tools, the end of it and the answer   *)
(* that begins the next; t turns have ended.                               *)
Paced(i, t, s) ==
    /\ NextStep(s).type = "tool" => i = 3 * t
    /\ NextStep(s).type = "assistant" => i + 1 = 3 * t
    /\ NextStep(s).type = "complete" => i = IF LatestTurn(s).calls = {} THEN 3 * t ELSE 3 * t + 1

(* When a turn has ended, the model is asked or the prompt is over.        *)
Onward(y, type) == type = "complete" => NextStep(y).type \in {"assistant", "none"}

Ended(calls, T) == \A c \in calls : T[c] = "finished"

(* What holds of an entry of the journal.                                  *)
Entry(k, y, T) ==
    /\ Tidy(y, T)
    /\ k = EnqueueKey => Paced(0, 0, y)
    /\ k.name = "agent" =>
          /\ \E t \in Nat : Paced(k.index + 1, t, y)
          /\ Onward(y, k.step.type)
          /\ k.step.type = "tool" => Ended(k.step.calls, T)

(* A step taken from x at i after t turns has come to y.                   *)
Taken(x, i, t, y, T) ==
    /\ Paced(i + 1, t + (IF NextStep(x).type = "complete" THEN 1 ELSE 0), y)
    /\ Onward(y, NextStep(x).type)
    /\ NextStep(x).type # "assistant" => Owed(y) = {}
    /\ NextStep(x).type = "assistant" => Untried(y, T)
    /\ NextStep(x).type = "tool" => Ended(NextStep(x).calls, T)

(* Tools that have ended stay so.                                          *)
StillEnded(T, U) == \A c \in CallIds : T[c] = "finished" => U[c] = "finished"

LEMMA TidyKeeps ==
    ASSUME NEW s, NEW T, NEW U, StillEnded(T, U), Tidy(s, T)
    PROVE  Tidy(s, U)
  BY DEF Tidy, Heard, StillEnded

LEMMA EntryKeeps ==
    ASSUME NEW J, NEW n, Kept(J, n), NEW k \in DOMAIN J, NEW T, NEW U, StillEnded(T, U),
           Entry(k, J[k], T)
    PROVE  Entry(k, J[k], U)
  <1>1. Tidy(J[k], U)
    BY TidyKeeps DEF Entry
  <1>2. k.name = "agent" => k.step.calls \subseteq CallIds
    <2>1. SUFFICES ASSUME k.name = "agent"
                   PROVE  k.step.calls \subseteq CallIds
      OBVIOUS
    <2>2. AgentKey(k)
      BY <2>1, AgentKeysAre DEF AgentKeys
    <2>. QED  BY <2>2 DEF AgentKey, AgentStep
  <1>3. k.name = "agent" /\ k.step.type = "tool" => Ended(k.step.calls, U)
    BY <1>2 DEF Ended, StillEnded, Entry
  <1>. QED  BY <1>1, <1>3 DEF Entry

LEMMA PacedNext ==
    ASSUME NEW i \in Nat, NEW t \in Nat, NEW x, Paced(i, t, x),
           NextStep(x).type \in {"tool", "assistant", "complete"},
           NEW u \in Nat, NEW y, Paced(i + 1, u, y), Onward(y, NextStep(x).type)
    PROVE  Paced(i + 1, t + (IF NextStep(x).type = "complete" THEN 1 ELSE 0), y)
  <1>1. CASE NextStep(x).type = "tool"
    BY <1>1 DEF Paced
  <1>2. CASE NextStep(x).type = "assistant"
    BY <1>2 DEF Paced
  <1>3. CASE NextStep(x).type = "complete"
    BY <1>3 DEF Paced, Onward
  <1>. QED  BY <1>1, <1>2, <1>3

LEMMA PacedRoom ==
    ASSUME NEW i \in Nat, NEW t \in Nat, NEW x, Paced(i, t, x),
           NextStep(x).type \in {"tool", "assistant", "complete"}, t < MaxTurns
    PROVE  /\ i + 1 < 3 * MaxTurns
           /\ NextStep(x).type = "assistant" => i + 2 < 3 * MaxTurns
  <1>1. MaxTurns \in Nat /\ t + 1 <= MaxTurns
    BY ReplayAssumption
  <1>2. 3 * t + 3 <= 3 * MaxTurns
    BY <1>1
  <1>3. i <= 3 * t + 1 /\ (NextStep(x).type = "assistant" => i + 1 = 3 * t)
    BY DEF Paced
  <1>. QED  BY <1>1, <1>2, <1>3

(* Within a prompt the journal only grows.                                 *)
LEMMA JournalGrows ==
    ASSUME Next, ~ GivePrompt
    PROVE  /\ \A k \in DOMAIN journal : k \in DOMAIN journal' /\ journal'[k] = journal[k]
           /\ EnqueueKey \in DOMAIN journal' => Recorded(EnqueueKey) \/ RecordPrompt
           /\ prompts' = prompts
  <1>0. \A key, s : Record(key, s) =>
           /\ \A k \in DOMAIN journal : k \in DOMAIN journal' /\ journal'[k] = journal[k]
           /\ EnqueueKey \in DOMAIN journal' => Recorded(EnqueueKey) \/ key = EnqueueKey
    <2>1. SUFFICES ASSUME NEW key, NEW s, Record(key, s)
                   PROVE  /\ \A k \in DOMAIN journal : k \in DOMAIN journal' /\ journal'[k] = journal[k]
                          /\ EnqueueKey \in DOMAIN journal' => Recorded(EnqueueKey) \/ key = EnqueueKey
      OBVIOUS
    <2>2. journal' = Added(journal, key, s)
      BY <2>1, RecordIs
    <2>3. DOMAIN journal' = DOMAIN journal \cup {key} /\ \A k \in DOMAIN journal : journal'[k] = journal[k]
      BY <2>2 DEF Added
    <2>. HIDE DEF EnqueueKey
    <2>. QED  BY <2>3 DEF Recorded
  <1>a. \A i, step : Key("agent", i, step) # EnqueueKey
    BY KeysDiffer DEF OtherKeys
  <1>1. CASE RecordPrompt
    BY <1>0, <1>1 DEF RecordPrompt, outside
  <1>2. CASE RecordStep
    BY <1>0, <1>2, <1>a DEF RecordStep, StepKey, outside
  <1>3. CASE RecordStop
    BY <1>0, <1>3, KeysDiffer DEF RecordStop, outside
  <1>4. CASE RecordFinal
    BY <1>0, <1>4, KeysDiffer DEF RecordFinal, outside
  <1>5. CASE RecordReport
    BY <1>0, <1>5, KeysDiffer DEF RecordReport, outside
  <1>6. CASE ~ (RecordPrompt \/ RecordStep \/ RecordStop \/ RecordFinal \/ RecordReport)
    <2>1. UNCHANGED <<journal, prompts>>
      BY <1>6 DEF Next, Progress, Start, ReplayEnqueue, SavePrompt, FirstAnswer,
                  Resume, Ask, EndTurn, StartTools, BeginTool, EndTool, SaveTools,
                  Yield, ReplayStep, CheckLimit, StopAtLimit, ReplayStop,
                  Finalize, ReplayFinal, Complete, Fault, Report, SaveError, SaveErrorRow, Crash, tables, outside
    <2>. QED  BY <2>1 DEF Recorded
  <1>. QED  BY <1>1, <1>2, <1>3, <1>4, <1>5, <1>6

(* The stored conversation holds every prompt once, and the last of them   *)
(* has been recorded.                                                      *)
Good == faults = 0 /\ Recorded(EnqueueKey) /\ PromptsIn(stored) = prompts

LEMMA GoodBack ==
    ASSUME TypesInv, PlaceInv, SpeechInv, CountInv, CountInv', Next, Good'
    PROVE  /\ faults = 0 /\ ~ Fault
           /\ ~ GivePrompt /\ ~ SavePrompt /\ ~ FirstAnswer /\ ~ Report /\ ~ RecordReport
           /\ Good \/ RecordPrompt
  <1>1. faults = 0 /\ ~ Fault
    BY FaultsGrow DEF Good
  <1>2. ~ GivePrompt
    BY DEF Good, GivePrompt, Recorded
  <1>3. ~ SavePrompt /\ ~ FirstAnswer
    BY DEF Good, SavePrompt, FirstAnswer, Recorded, PlaceInv, PromptInv
  <1>4. ~ Report /\ ~ RecordReport
    BY <1>1 DEF CountInv, Report, SaveError, SaveErrorRow, RecordReport
  <1>5. ASSUME Recorded(EnqueueKey)
        PROVE  Good
    <2>1. PromptsIn(stored) = PromptsIn(journal[EnqueueKey])
      BY <1>1, <1>5 DEF CountInv, Recorded
    <2>2. EnqueueKey \in DOMAIN journal' /\ journal'[EnqueueKey] = journal[EnqueueKey] /\ prompts' = prompts
      BY <1>2, <1>5, JournalGrows DEF Recorded
    <2>3. PromptsIn(stored)' = PromptsIn(journal'[EnqueueKey])
      BY <2>2 DEF CountInv, Good, Recorded
    <2>. QED  BY <1>1, <1>5, <2>1, <2>2, <2>3 DEF Good
  <1>6. Recorded(EnqueueKey) \/ RecordPrompt
    BY <1>2, JournalGrows DEF Good, Recorded
  <1>. QED  BY <1>1, <1>2, <1>3, <1>4, <1>5, <1>6

-----------------------------------------------------------------------------
(* What the conversations owe                                              *)

(* Between prompts, and until the next has been recorded.                  *)
BetweenInv ==
    faults = 0 =>
        /\ ~ open /\ PromptsIn(stored) = prompts => Settled(stored, toolRun)
        /\ /\ open /\ ~ Recorded(EnqueueKey) /\ pc \in {"off", "enqueue"}
           /\ PromptsIn(stored) + 1 = prompts
           => Settled(stored, toolRun)
        /\ pc = "first_answer" /\ PromptsIn(stored) = prompts => Settled(stored, toolRun)
        /\ pc = "record_prompt" /\ PromptsIn(stored) = prompts =>
              Tidy(stored, toolRun) /\ Paced(0, 0, stored)

JournalInv == Good => \A k \in DOMAIN journal : Entry(k, journal[k], toolRun)

WorkerFits ==
    /\ Tidy(stored, toolRun)
    /\ pc \in Live \cup {"resume"} => Tidy(cur, toolRun)
    /\ pc \in Live => Paced(index, turnsDone, cur)
    /\ pc \in {"tools", "record"} => ~ Recorded(StepKey)
    /\ pc = "record" => Taken(cur, index, turnsDone, work, toolRun)
    /\ pc = "limit" /\ Goes /\ LimitReached => NextStep(cur).type = "assistant"
    /\ pc \in {"stop", "record_stop"} => NextStep(cur).type = "assistant"

WorkerInv == Good => WorkerFits

(* Where results are owed, the worker has a step to take.                  *)
On == pc \in {"tools", "record", "limit"} \/ (pc = "step" /\ Goes)

Over == pc \in {"stop", "record_stop", "record_final", "complete"} \/ (pc = "step" /\ ~ Goes)

(* From the conversation x at position i the journal leads on, or not yet. *)
Free(P, J, i, x) ==
    /\ NextStep(x) # NoStep
    /\ i + 1 < 3 * MaxTurns
    /\ Key("agent", i, NextStep(x)) \in DOMAIN J => <<i + 1, J[Key("agent", i, NextStep(x))]>> \in P

(* The positions that a worker may come to, walking through the journal.   *)
Walk(P) ==
    /\ <<0, journal[EnqueueKey]>> \in P
    /\ On => <<index, cur>> \in P
    /\ \A i \in Nat : \A x :
          <<i, x>> \in P =>
              \/ Free(P, journal, i, x)
              \/ Owed(stored) = {} /\ On /\ i = index /\ x = cur

(* While results are owed, no walk through the journal ends the prompt or  *)
(* comes to the limit; only the step at hand may do that.                  *)
WalkFits ==
    /\ Owed(stored) # {} \/ On => \E P : Walk(P)
    /\ Over => Owed(stored) = {}

WalkInv == Good => WalkFits

OwedInv == SpeechInv /\ CountInv /\ BetweenInv /\ JournalInv /\ WorkerInv /\ WalkInv

-----------------------------------------------------------------------------
(* Between prompts                                                         *)

LEMMA EmptySettled ==
    ASSUME NEW T
    PROVE  Settled(EmptySession, T)
  BY DEF Settled, Tidy, InPlace, OwesNow, Heard, Owed, Told, EmptySession, Begun

(* The prompt has been recorded, and it is not the end of it.              *)
LEMMA BetweenElsewhere ==
    ASSUME faults = 0 => open' /\ Recorded(EnqueueKey)',
           pc' \notin {"first_answer", "record_prompt"},
           faults' = 0 => faults = 0
    PROVE  BetweenInv'
  BY DEF BetweenInv

LEMMA BetweenStep ==
    ASSUME TypesInv, PlaceInv, OwedInv, Next
    PROVE  BetweenInv'
  <1>. SUFFICES ASSUME faults' = 0
                PROVE  BetweenInv'
    BY DEF BetweenInv
  <1>0. faults = 0 /\ ~ Fault /\ pc \notin {"report", "report_row", "record_report"}
    BY FaultsGrow DEF OwedInv, CountInv
  <1>a. PromptsIn(stored) \in Nat /\ prompts \in Nat
    BY PromptsIs DEF OwedInv, SpeechInv
  <1>. USE <1>0 DEF tables, worker, outside
  <1>1. CASE GivePrompt
    <2>1. /\ open' /\ pc' = "off" /\ prompts' = prompts + 1 /\ UNCHANGED <<stored, toolRun>> /\ ~ open
      BY <1>1 DEF GivePrompt
    <2>2. PromptsIn(stored) + 1 = prompts' => Settled(stored, toolRun)
      BY <1>a, <2>1 DEF OwedInv, BetweenInv
    <2>. QED  BY <2>1, <2>2 DEF BetweenInv
  <1>2. CASE Start
    <2>1. /\ open /\ open' /\ pc = "off" /\ pc' = "enqueue" /\ UNCHANGED <<stored, toolRun, journal, prompts>>
      BY <1>2 DEF Start
    <2>2. Recorded(EnqueueKey)' = Recorded(EnqueueKey)
      BY <2>1 DEF Recorded
    <2>. QED  BY <2>1, <2>2 DEF OwedInv, BetweenInv
  <1>3. CASE SavePrompt
    <2>1. /\ open /\ ~ Recorded(EnqueueKey) /\ pc = "enqueue" /\ pc' = "first_answer"
          /\ UNCHANGED <<toolRun, prompts, open>> /\ stored' = work' /\ work' = EnqueuePrompt(stored)
      BY <1>3 DEF SavePrompt, SaveWork, PlaceInv, PromptInv
    <2>2. /\ PromptsIn(stored') = PromptsIn(stored) + 1
          /\ Settled(stored, toolRun) => Settled(stored', toolRun)
      BY <2>1, EnqueueSpeaks DEF OwedInv, SpeechInv, TypesInv
    <2>3. PromptsIn(stored') = prompts' => Settled(stored', toolRun')
      BY <2>1, <2>2 DEF OwedInv, BetweenInv
    <2>. QED  BY <2>1, <2>3 DEF BetweenInv
  <1>4. CASE FirstAnswer
    <2>1. /\ open /\ ~ Recorded(EnqueueKey) /\ pc = "first_answer" /\ pc' = "record_prompt"
          /\ UNCHANGED <<toolRun, prompts, open>> /\ stored = work
      BY <1>4 DEF FirstAnswer, PlaceInv, PromptInv
    <2>2. /\ stored' = work' /\ PromptsIn(work') = PromptsIn(work)
          /\ Settled(work, toolRun) => JustAnswered(work', toolRun)
      BY <1>4, <2>1, ModelAnswersSpeak DEF FirstAnswer, OwedInv, SpeechInv, TypesInv, PlaceInv, PromptInv
    <2>3. PromptsIn(stored') = prompts' => JustAnswered(stored', toolRun')
      BY <2>1, <2>2 DEF OwedInv, BetweenInv
    <2>4. JustAnswered(stored', toolRun') => Tidy(stored', toolRun') /\ Paced(0, 0, stored')
      BY DEF JustAnswered, Paced
    <2>. QED  BY <2>1, <2>3, <2>4 DEF BetweenInv
  <1>5. CASE Complete
    <2>1. /\ pc = "complete" /\ pc' = "off" /\ ~ open' /\ UNCHANGED <<stored, toolRun, prompts>>
      BY <1>5 DEF Complete, Leave
    <2>2. PromptsIn(stored) = prompts => Good
      BY <2>1 DEF OwedInv, CountInv, Good
    <2>3. Good => Settled(stored, toolRun)
      BY <2>1 DEF OwedInv, WorkerInv, WorkerFits, WalkInv, WalkFits, Over, Settled
    <2>. QED  BY <2>1, <2>2, <2>3 DEF BetweenInv
  <1>6. CASE Yield \/ Crash
    <2>1. /\ pc # "off" /\ pc' = "off" /\ UNCHANGED <<stored, toolRun, journal, prompts, open>>
          /\ Yield => Recorded(EnqueueKey)
      BY <1>6 DEF Yield, Crash, Leave, PlaceInv, YieldInv
    <2>2. open /\ open' /\ Recorded(EnqueueKey)' = Recorded(EnqueueKey)
      BY <2>1 DEF PlaceInv, PromptInv, Recorded, TypesInv
    <2>3. ~ Recorded(EnqueueKey) /\ PromptsIn(stored) + 1 = prompts =>
             pc \in {"enqueue"}
      <3>1. pc \notin {"first_answer", "record_prompt"} \/ prompts <= PromptsIn(stored)
        BY <1>a DEF OwedInv, CountInv, Pending
      <3>2. pc \in Live \cup {"resume", "complete", "yield"} => Recorded(EnqueueKey)
        BY DEF OwedInv, CountInv, PlaceInv, PromptInv, YieldInv
      <3>. QED  BY <1>a, <2>1, <3>1, <3>2 DEF Live, TypesInv, Stages
    <2>. QED  BY <2>1, <2>2, <2>3 DEF OwedInv, BetweenInv
  <1>7. CASE RecordPrompt
    <2>1. /\ EnqueueKey \in DOMAIN journal' /\ pc' = "resume" /\ open'
      <3>1. journal' = Added(journal, EnqueueKey, work)
        BY <1>7, RecordIs DEF RecordPrompt
      <3>2. EnqueueKey \in DOMAIN journal'
        BY <3>1 DEF Added
      <3>. QED  BY <1>7, <3>2 DEF RecordPrompt, PlaceInv, PromptInv
    <2>. QED  BY <2>1 DEF BetweenInv, Recorded
  <1>8. CASE ReplayEnqueue
    BY <1>8, BetweenElsewhere DEF ReplayEnqueue, PlaceInv, PromptInv, Recorded
  <1>9. CASE /\ pc \in Live \cup {"resume"} /\ ~ Crash
    <2>1. Recorded(EnqueueKey) /\ open
      BY <1>9, LiveIs DEF PlaceInv, PromptInv, Live
    <2>2. Recorded(EnqueueKey)'
      BY <2>1, JournalGrows, <1>9 DEF Recorded, GivePrompt, Live
    <2>3. open' /\ pc' \notin {"first_answer", "record_prompt"}
      BY <1>9, <2>1 DEF Next, Progress, GivePrompt, Start, ReplayEnqueue, SavePrompt,
                FirstAnswer, RecordPrompt, Resume, Ask, EndTurn, StartTools, BeginTool, EndTool,
                SaveTools, Yield, RecordStep, ReplayStep, CheckLimit, StopAtLimit, RecordStop,
                ReplayStop, Finalize, RecordFinal, ReplayFinal, Complete, Report,
                SaveError, SaveErrorRow, RecordReport, Proceed, Live
    <2>. QED  BY <2>1, <2>2, <2>3, BetweenElsewhere
  <1>10. \/ GivePrompt \/ Start \/ SavePrompt \/ FirstAnswer \/ Complete \/ Yield \/ Crash
         \/ RecordPrompt \/ ReplayEnqueue
         \/ pc \in Live \cup {"resume"} /\ ~ Crash
    BY DEF Next, Progress, Resume, Ask, EndTurn, NewStep, StartTools, BeginTool, EndTool,
           SaveTools, RecordStep, ReplayStep, CheckLimit, StopAtLimit, RecordStop, ReplayStop,
           Finalize, RecordFinal, ReplayFinal, AtEnd, Report, SaveError, SaveErrorRow, RecordReport, Live
  <1>. QED  BY <1>1, <1>2, <1>3, <1>4, <1>5, <1>6, <1>7, <1>8, <1>9, <1>10

-----------------------------------------------------------------------------
(* What is recorded                                                        *)

LEMMA EntriesAdded ==
    ASSUME NEW J, NEW T, \A k \in DOMAIN J : Entry(k, J[k], T),
           NEW key, NEW s, Entry(key, s, T), NEW K, K = Added(J, key, s)
    PROVE  \A k \in DOMAIN K : Entry(k, K[k], T)
  BY DEF Added

LEMMA EntryNoted ==
    ASSUME NEW key \in {LimitKey, FinalKey}, NEW s, NEW T, Tidy(s, T)
    PROVE  Entry(key, s, T)
  <1>1. key # EnqueueKey /\ key.name # "agent"
    BY KeysDiffer DEF OtherKeys
  <1>. QED  BY <1>1 DEF Entry

LEMMA JournalStep ==
    ASSUME TypesInv, PlaceInv, OwedInv, CountInv', Next
    PROVE  JournalInv'
  <1>. SUFFICES ASSUME Good'
                PROVE  \A k \in DOMAIN journal' : Entry(k, journal'[k], toolRun')
    BY DEF JournalInv
  <1>0. /\ faults = 0 /\ ~ Fault
        /\ ~ GivePrompt /\ ~ SavePrompt /\ ~ FirstAnswer /\ ~ Report /\ ~ RecordReport
        /\ Good \/ RecordPrompt
    BY GoodBack DEF OwedInv
  <1>a. Good => \A k \in DOMAIN journal : Entry(k, journal[k], toolRun)
    BY DEF OwedInv, JournalInv
  <1>1. CASE RecordPrompt
    <2>1. /\ journal' = Added(journal, EnqueueKey, work) /\ stored = work
          /\ UNCHANGED <<stored, prompts, toolRun>> /\ pc = "record_prompt"
          /\ ~ Recorded(EnqueueKey)
      BY <1>1, RecordIs DEF RecordPrompt, PlaceInv, PromptInv, outside
    <2>2. DOMAIN journal' = {EnqueueKey} /\ journal'[EnqueueKey] = work
      <3>1. DOMAIN journal = {}
        BY <1>0, <2>1 DEF OwedInv, CountInv
      <3>. QED  BY <2>1, <3>1 DEF Added
    <2>3. Tidy(work, toolRun) /\ Paced(0, 0, work)
      BY <1>0, <2>1 DEF OwedInv, BetweenInv, Good
    <2>4. Entry(EnqueueKey, work, toolRun)
      <3>1. EnqueueKey.name # "agent"
        BY KeysDiffer DEF OtherKeys
      <3>. QED  BY <2>3, <3>1 DEF Entry
    <2>. QED  BY <2>1, <2>2, <2>4
  <1>2. CASE RecordStep
    <2>1. /\ journal' = Added(journal, StepKey, work) /\ stored = work /\ UNCHANGED toolRun
          /\ pc = "record" /\ Good
      BY <1>0, <1>2, RecordStepIs DEF RecordStep, RecordPrompt
    <2>2. /\ StepKey # EnqueueKey /\ StepKey.name = "agent"
          /\ StepKey.index = index /\ StepKey.step = NextStep(cur)
      BY KeysDiffer DEF OtherKeys, StepKey
    <2>3. Tidy(work, toolRun) /\ Taken(cur, index, turnsDone, work, toolRun)
      BY <2>1 DEF OwedInv, WorkerInv, WorkerFits
    <2>4. turnsDone + (IF NextStep(cur).type = "complete" THEN 1 ELSE 0) \in Nat
      BY DEF TypesInv
    <2>5. Entry(StepKey, work, toolRun)
      BY <2>2, <2>3, <2>4 DEF Entry, Taken
    <2>. QED  BY <1>a, <2>1, <2>5, EntriesAdded
  <1>3. CASE RecordStop
    <2>1. /\ journal' = Added(journal, LimitKey, work) /\ stored = work /\ UNCHANGED toolRun /\ Good
      BY <1>0, <1>3, RecordStopIs DEF RecordStop, RecordPrompt
    <2>2. Entry(LimitKey, work, toolRun)
      BY <2>1, EntryNoted DEF OwedInv, WorkerInv, WorkerFits
    <2>. QED  BY <1>a, <2>1, <2>2, EntriesAdded
  <1>4. CASE RecordFinal
    <2>1. /\ journal' = Added(journal, FinalKey, cur) /\ UNCHANGED toolRun /\ Good
          /\ pc = "record_final"
      BY <1>0, <1>4, RecordIs DEF RecordFinal, RecordPrompt
    <2>2. Entry(FinalKey, cur, toolRun)
      BY <2>1, EntryNoted DEF OwedInv, WorkerInv, WorkerFits, Live
    <2>. QED  BY <1>a, <2>1, <2>2, EntriesAdded
  <1>5. ASSUME NEW c \in CallIds, BeginTool(c) \/ EndTool(c)
        PROVE  \A k \in DOMAIN journal' : Entry(k, journal'[k], toolRun')
    <2>1. UNCHANGED journal /\ Good
      BY <1>0, <1>5 DEF BeginTool, EndTool, RecordPrompt
    <2>2. StillEnded(toolRun, toolRun')
      BY <1>5, SpeechTool DEF OwedInv, StillEnded
    <2>3. Kept(journal, issued)
      BY DEF TypesInv
    <2>4. ASSUME NEW k \in DOMAIN journal
          PROVE  Entry(k, journal[k], toolRun')
      BY <1>a, <2>1, <2>2, <2>3, EntryKeeps
    <2>. QED  BY <2>1, <2>4
  <1>6. CASE ~ (RecordPrompt \/ RecordStep \/ RecordStop \/ RecordFinal
                  \/ \E c \in CallIds : BeginTool(c) \/ EndTool(c))
    <2>1. UNCHANGED <<journal, toolRun>>
      BY <1>0, <1>6 DEF Next, Progress, Start, ReplayEnqueue,
                  Resume, Ask, EndTurn, StartTools, SaveTools,
                  Yield, ReplayStep, CheckLimit, StopAtLimit, ReplayStop,
                  Finalize, ReplayFinal, Complete, Crash, tables, outside
    <2>. QED  BY <1>0, <1>6, <1>a, <2>1
  <1>. QED  BY <1>1, <1>2, <1>3, <1>4, <1>5, <1>6

-----------------------------------------------------------------------------
(* What the worker holds                                                   *)

LEMMA WorkerAway ==
    ASSUME WorkerFits, UNCHANGED <<stored, toolRun>>, pc' \notin Live \cup {"resume"}
    PROVE  WorkerFits'
  BY DEF WorkerFits, Live

(* A tool that is waited for has not answered.                             *)
LEMMA WaitingOwes ==
    ASSUME TypesInv, Tidy(stored, toolRun), Waiting(stored, CallIds)
    PROVE  /\ Owed(stored) # {} /\ Begun(stored)
           /\ NextStep(stored) # NoStep /\ NextStep(stored).type = "tool"
           /\ \E c \in NextStep(stored).calls : toolRun[c] = "running"
  <1>1. PICK c \in CallIds : stored.calls[c] = "running" /\ toolRun[c] = "running"
    BY DEF Waiting
  <1>2. c \in Owed(stored)
    BY <1>1 DEF Tidy, Heard, Owed
  <1>3. /\ Begun(stored) /\ NextStep(stored) # NoStep /\ NextStep(stored).type = "tool"
        /\ Owed(stored) \subseteq Unsatisfied(stored)
    BY <1>2, OwedIs DEF Tidy, TypesInv
  <1>4. NextStep(stored).calls = Unsatisfied(stored)
    BY <1>3, NextStepIs DEF TypesInv
  <1>. QED  BY <1>1, <1>2, <1>3, <1>4

(* A worker with an answer to ask for owes nothing.                        *)
LEMMA AskingIs ==
    ASSUME NEW s, NEW n, Conversation(s, n), Begun(s), NEW T, Tidy(s, T),
           NextStep(s).type = "assistant"
    PROVE  Settled(s, T) /\ s.status = "running"
  <1>1. Unsatisfied(s) = {} /\ s.status = "running"
    BY StepOf
  <1>. QED  BY <1>1, OwedIs DEF Settled, Tidy

LEMMA GoesIs ==
    ASSUME TypesInv, PlaceInv, pc \in Live
    PROVE  /\ Begun(cur)
           /\ Goes => NextStep(cur).type \in {"tool", "assistant", "complete"}
           /\ NextStep(cur).type \in {"tool", "assistant", "complete"} => Goes
  <1>1. Begun(cur) /\ Conversation(cur, issued)
    BY DEF PlaceInv, PromptInv, TypesInv
  <1>2. NextStep(cur).type \in {"none", "tool", "assistant", "complete"}
    BY <1>1, StepOf
  <1>. QED  BY <1>1, <1>2, NextStepIs DEF Goes

LEMMA WorkerResume ==
    ASSUME TypesInv, PlaceInv, WorkerFits, JournalInv, Good, Resume
    PROVE  WorkerFits'
  <1>1. /\ pc = "resume" /\ pc' = "step" /\ cur = journal[EnqueueKey] /\ index = 0 /\ turnsDone = 0
        /\ UNCHANGED <<stored, toolRun, index, turnsDone>>
    BY DEF Resume, PlaceInv, PromptInv, LimitInv, tables
  <1>2. Tidy(cur, toolRun) /\ Paced(0, 0, cur)
    BY <1>1 DEF JournalInv, Entry, Good, Recorded
  <1>3. Waiting(stored, CallIds) => Paced(0, 0, stored)
    <2>1. SUFFICES ASSUME Waiting(stored, CallIds)
                   PROVE  NextStep(stored).type = "tool"
      BY DEF Paced
    <2>. QED  BY <2>1, WaitingOwes DEF WorkerFits
  <1>4. Tidy(cur', toolRun) /\ Paced(0, 0, cur')
    BY <1>2, <1>3 DEF Resume, WorkerFits
  <1>. QED  BY <1>1, <1>4 DEF WorkerFits, Live

(* The model has been asked, or a turn has ended.                          *)
LEMMA WorkerSaved ==
    ASSUME WorkerFits, pc \in Live, pc' = "record", ~ Recorded(StepKey),
           UNCHANGED <<journal, toolRun, cur, index, turnsDone>>,
           stored' = work', Tidy(work', toolRun), Taken(cur, index, turnsDone, work', toolRun)
    PROVE  WorkerFits'
  BY DEF WorkerFits, Live, Recorded, StepKey

LEMMA WorkerAsk ==
    ASSUME TypesInv, PlaceInv, SpeechInv, WorkerFits, Good, faults' = 0, Ask
    PROVE  WorkerFits'
  <1>1. /\ pc = "step" /\ pc \in Live /\ NextStep(cur).type = "assistant" /\ ~ Recorded(StepKey)
        /\ pc' = "record" /\ UNCHANGED <<journal, toolRun, cur, index, turnsDone>>
        /\ ModelAnswers(cur)
    BY DEF Ask, NewStep, Live
  <1>2. Begun(cur) /\ Conversation(cur, issued) /\ Tidy(cur, toolRun) /\ Paced(index, turnsDone, cur)
    BY <1>1, GoesIs DEF WorkerFits, TypesInv
  <1>3. Settled(cur, toolRun) /\ cur.status = "running"
    BY <1>1, <1>2, AskingIs
  <1>4. stored' = work' /\ JustAnswered(work', toolRun)
    BY <1>1, <1>2, <1>3, ModelAnswersSpeak DEF SpeechInv
  <1>5. index \in Nat /\ turnsDone \in Nat
    BY DEF TypesInv
  <1>6. index + 1 = 3 * turnsDone
    BY <1>1, <1>2 DEF Paced
  <1>7. Paced(index + 1, turnsDone, work')
    BY <1>4, <1>5, <1>6 DEF Paced, JustAnswered
  <1>8. Taken(cur, index, turnsDone, work', toolRun)
    BY <1>1, <1>4, <1>5, <1>7 DEF Taken, JustAnswered, Onward
  <1>. QED  BY <1>1, <1>4, <1>8, WorkerSaved DEF JustAnswered

LEMMA WorkerEndTurn ==
    ASSUME TypesInv, PlaceInv, SpeechInv, WorkerFits, Good, EndTurn
    PROVE  WorkerFits'
  <1>1. /\ pc = "step" /\ pc \in Live /\ NextStep(cur).type = "complete" /\ ~ Recorded(StepKey)
        /\ pc' = "record" /\ UNCHANGED <<journal, toolRun, cur, index, turnsDone>>
        /\ work' = CompleteTurn(cur) /\ stored' = work'
    BY DEF EndTurn, NewStep, SaveWork, Live
  <1>2. Begun(cur) /\ Conversation(cur, issued) /\ Tidy(cur, toolRun) /\ Paced(index, turnsDone, cur)
    BY <1>1, GoesIs DEF WorkerFits, TypesInv
  <1>3. /\ Settled(work', toolRun)
        /\ NextStep(work').type \in {"assistant", "none"}
        /\ LatestTurn(cur).calls = {} => NextStep(work').type = "none"
    BY <1>1, <1>2, CompleteSpeaks DEF SpeechInv, TypesInv
  <1>5. index \in Nat /\ turnsDone \in Nat
    BY DEF TypesInv
  <1>6. index = IF LatestTurn(cur).calls = {} THEN 3 * turnsDone ELSE 3 * turnsDone + 1
    BY <1>1, <1>2 DEF Paced
  <1>7. Paced(index + 1, turnsDone + 1, work')
    BY <1>3, <1>5, <1>6 DEF Paced
  <1>8. Taken(cur, index, turnsDone, work', toolRun)
    BY <1>1, <1>3, <1>7 DEF Taken, Settled, Onward
  <1>. QED  BY <1>1, <1>3, <1>8, WorkerSaved DEF Settled

(* The calls of a step that have all ended, and what they come to.         *)
LEMMA SavedTools ==
    ASSUME TypesInv, PlaceInv, SpeechInv, Tidy(cur, toolRun), SaveTools
    PROVE  /\ Tidy(work', toolRun)
           /\ pc' = "record" =>
                 /\ Ended(NextStep(cur).calls, toolRun)
                 /\ Owed(work') = {}
                 /\ NextStep(work').type \in {"complete", "none"} /\ LatestTurn(work').calls # {}
  <1>1. /\ pc = "tools" /\ NextStep(cur).type = "tool" /\ DOMAIN results = NextStep(cur).calls
        /\ Begun(cur) /\ Conversation(cur, issued) /\ Spoken(cur.history) /\ issued \in Nat
        /\ \A c \in DOMAIN results : results[c] = "running" => toolRun[c] = "running"
        /\ \A c \in DOMAIN results : results[c] = "finished" => toolRun[c] = "finished"
    BY DEF SaveTools, PlaceInv, ToolsInv, PromptInv, SpeechInv, TypesInv, Live
  <1>2. work' = FinishCalls(cur, results)
    BY DEF SaveTools, SaveWork
  <1>3. Tidy(work', toolRun)
    BY <1>1, <1>2, FinishSpeaks
  <1>4. ASSUME pc' = "record"
        PROVE  \A c \in DOMAIN results : results[c] = "finished"
    <2>1. SUFFICES ASSUME NEW c \in DOMAIN results, results[c] # "finished"
                   PROVE  FALSE
      OBVIOUS
    <2>2. results[c] = "running" /\ toolRun[c] = "running"
      BY <1>1, <2>1 DEF SaveTools
    <2>3. work'.calls[c] = "running"
      BY <1>1, <1>2, <2>1, FinishIs
    <2>. QED  BY <1>4, <2>2, <2>3 DEF SaveTools, Waiting
  <1>5. ASSUME pc' = "record"
        PROVE  /\ Owed(work') = {}
               /\ NextStep(work').type \in {"complete", "none"} /\ LatestTurn(work').calls # {}
    BY <1>1, <1>2, <1>4, <1>5, FinishSpeaks
  <1>6. pc' = "record" => Ended(NextStep(cur).calls, toolRun)
    BY <1>1, <1>4 DEF Ended
  <1>. QED  BY <1>3, <1>5, <1>6

LEMMA WorkerSaveTools ==
    ASSUME TypesInv, PlaceInv, SpeechInv, WorkerFits, Good, SaveTools
    PROVE  WorkerFits'
  <1>1. /\ pc = "tools" /\ pc \in Live /\ NextStep(cur).type = "tool" /\ ~ Recorded(StepKey)
        /\ UNCHANGED <<journal, toolRun, cur, index, turnsDone>>
        /\ stored' = work' /\ pc' \in {"record", "yield"}
    BY DEF SaveTools, SaveWork, Live, PlaceInv, ToolsInv, WorkerFits
  <1>2. Tidy(cur, toolRun) /\ Paced(index, turnsDone, cur)
    BY <1>1 DEF WorkerFits
  <1>3. Tidy(work', toolRun)
    BY <1>2, SavedTools
  <1>4. CASE pc' = "yield"
    BY <1>1, <1>3, <1>4 DEF WorkerFits, Live
  <1>5. CASE pc' = "record"
    <2>1. /\ Ended(NextStep(cur).calls, toolRun)
          /\ Owed(work') = {}
          /\ NextStep(work').type \in {"complete", "none"} /\ LatestTurn(work').calls # {}
      BY <1>2, <1>5, SavedTools
    <2>2. index \in Nat /\ turnsDone \in Nat /\ index = 3 * turnsDone
      BY <1>1, <1>2 DEF TypesInv, Paced
    <2>3. Paced(index + 1, turnsDone, work')
      BY <2>1, <2>2 DEF Paced
    <2>4. Taken(cur, index, turnsDone, work', toolRun)
      BY <1>1, <2>1, <2>2, <2>3 DEF Taken, Onward
    <2>. QED  BY <1>1, <1>3, <1>5, <2>4, WorkerSaved
  <1>. QED  BY <1>1, <1>4, <1>5

LEMMA WorkerTool ==
    ASSUME TypesInv, PlaceInv, SpeechInv, WorkerFits, NEW c \in CallIds, BeginTool(c) \/ EndTool(c)
    PROVE  WorkerFits'
  <1>1. /\ pc = "tools" /\ pc' = "tools"
        /\ UNCHANGED <<stored, journal, cur, work, index, turnsDone>>
    BY DEF BeginTool, EndTool
  <1>2. StillEnded(toolRun, toolRun')
    BY SpeechTool DEF StillEnded
  <1>3. Tidy(stored, toolRun') /\ Tidy(cur, toolRun')
    BY <1>1, <1>2, TidyKeeps DEF WorkerFits, Live
  <1>. QED  BY <1>1, <1>3 DEF WorkerFits, Live, Recorded, StepKey

(* A step comes to its end, in the journal or just recorded.               *)
LEMMA WorkerProceeds ==
    ASSUME TypesInv, PlaceInv, WorkerFits, pc \in Live, Goes, turnsDone < MaxTurns,
           UNCHANGED <<stored, toolRun>>, pc' = "limit", Tidy(cur', toolRun),
           index' = index + 1,
           turnsDone' = turnsDone + (IF NextStep(cur).type = "complete" THEN 1 ELSE 0),
           Paced(index', turnsDone', cur'), Onward(cur', NextStep(cur).type),
           TypesInv', PlaceInv'
    PROVE  WorkerFits'
  <1>1. ASSUME Goes', LimitReached'
        PROVE  NextStep(cur').type = "assistant"
    <2>1. NextStep(cur).type = "complete"
      <3>1. turnsDone \in Nat /\ MaxTurns \in Nat
        BY ReplayAssumption DEF TypesInv
      <3>. QED  BY <1>1, <3>1 DEF LimitReached
    <2>2. NextStep(cur').type \in {"assistant", "none"}
      BY <2>1 DEF Onward
    <2>3. Conversation(cur', issued') /\ Begun(cur')
      BY DEF TypesInv, PlaceInv, PromptInv, Live
    <2>4. NextStep(cur').type = "none" => NextStep(cur') = NoStep
      BY <2>3, NextStepIs
    <2>. QED  BY <1>1, <2>2, <2>4 DEF Goes
  <1>. QED  BY <1>1 DEF WorkerFits, Live

LEMMA WorkerStep ==
    ASSUME TypesInv, PlaceInv, TypesInv', PlaceInv', OwedInv, CountInv', Next
    PROVE  WorkerInv'
  <1>. SUFFICES ASSUME Good'
                PROVE  WorkerFits'
    BY DEF WorkerInv
  <1>0. /\ faults = 0 /\ ~ Fault
        /\ ~ GivePrompt /\ ~ SavePrompt /\ ~ FirstAnswer /\ ~ Report /\ ~ RecordReport
        /\ Good \/ RecordPrompt
    BY GoodBack DEF OwedInv
  <1>a. faults' = 0
    BY DEF Good
  <1>1. CASE RecordPrompt
    <2>1. /\ stored = work /\ UNCHANGED <<stored, prompts, toolRun>> /\ pc = "record_prompt"
          /\ pc' = "resume" /\ cur' = work
      BY <1>1 DEF RecordPrompt, PlaceInv, PromptInv, outside
    <2>2. Tidy(work, toolRun)
      BY <1>0, <2>1 DEF OwedInv, BetweenInv, Good
    <2>. QED  BY <2>1, <2>2 DEF WorkerFits, Live
  <1>. SUFFICES ASSUME ~ RecordPrompt
                PROVE  WorkerFits'
    BY <1>1
  <1>2. Good /\ WorkerFits /\ JournalInv /\ SpeechInv
    BY <1>0 DEF OwedInv, WorkerInv
  <1>3. CASE Start \/ Yield \/ Complete \/ ReplayFinal \/ RecordFinal \/ Crash
    <2>1. UNCHANGED <<stored, toolRun>> /\ pc' \in {"enqueue", "off", "complete"}
      BY <1>3 DEF Start, Yield, Complete, ReplayFinal, RecordFinal, Crash, Leave, tables
    <2>. QED  BY <1>2, <2>1, WorkerAway DEF Live
  <1>4. CASE ReplayEnqueue
    <2>1. /\ UNCHANGED <<stored, toolRun>> /\ pc' = "resume" /\ cur' = journal[EnqueueKey]
          /\ Recorded(EnqueueKey)
      BY <1>4 DEF ReplayEnqueue, tables
    <2>2. Tidy(cur', toolRun)
      BY <1>2, <2>1 DEF JournalInv, Entry, Recorded
    <2>. QED  BY <1>2, <2>1, <2>2 DEF WorkerFits, Live
  <1>5. CASE Resume
    BY <1>2, <1>5, WorkerResume
  <1>6. CASE Ask
    BY <1>2, <1>6, <1>a, WorkerAsk
  <1>7. CASE EndTurn
    BY <1>2, <1>7, WorkerEndTurn
  <1>8. CASE StartTools
    <2>1. /\ pc = "step" /\ pc' = "tools" /\ ~ Recorded(StepKey)
          /\ UNCHANGED <<stored, toolRun, journal, cur, index, turnsDone>>
      BY <1>8 DEF StartTools, NewStep, tables
    <2>. QED  BY <1>2, <2>1 DEF WorkerFits, Live, Recorded, StepKey
  <1>9. ASSUME NEW c \in CallIds, BeginTool(c) \/ EndTool(c)
        PROVE  WorkerFits'
    BY <1>2, <1>9, WorkerTool
  <1>10. CASE SaveTools
    BY <1>2, <1>10, WorkerSaveTools
  <1>11. CASE RecordStep
    <2>1. /\ pc = "record" /\ pc \in Live /\ Goes /\ stored = work /\ cur' = work /\ pc' = "limit"
          /\ index' = index + 1 /\ UNCHANGED <<stored, toolRun>>
          /\ turnsDone' = turnsDone + (IF NextStep(cur).type = "complete" THEN 1 ELSE 0)
      BY <1>11, RecordStepIs DEF PlaceInv, RecordInv, Live
    <2>2. Tidy(work, toolRun) /\ Taken(cur, index, turnsDone, work, toolRun) /\ turnsDone < MaxTurns
      BY <1>2, <2>1 DEF WorkerFits, PlaceInv, LimitInv
    <2>3. Paced(index', turnsDone', cur') /\ Onward(cur', NextStep(cur).type)
      BY <2>1, <2>2 DEF Taken
    <2>. QED  BY <1>2, <2>1, <2>2, <2>3, WorkerProceeds
  <1>12. CASE ReplayStep
    <2>1. /\ pc = "step" /\ pc \in Live /\ Goes /\ Recorded(StepKey) /\ cur' = journal[StepKey] /\ pc' = "limit"
          /\ index' = index + 1 /\ UNCHANGED <<stored, toolRun>> /\ turnsDone \in Nat
          /\ turnsDone' = turnsDone + (IF NextStep(cur).type = "complete" THEN 1 ELSE 0)
      BY <1>12 DEF ReplayStep, Proceed, Goes, Live, tables, TypesInv
    <2>2. /\ StepKey.name = "agent" /\ StepKey.index = index /\ StepKey.step = NextStep(cur)
      BY KeysDiffer DEF StepKey
    <2>3. Entry(StepKey, cur', toolRun)
      BY <1>2, <2>1 DEF JournalInv, Recorded
    <2>4. Tidy(cur', toolRun) /\ Onward(cur', NextStep(cur).type) /\ turnsDone < MaxTurns
      BY <2>1, <2>2, <2>3 DEF Entry, PlaceInv, LimitInv
    <2>5. PICK u \in Nat : Paced(index + 1, u, cur')
      BY <2>2, <2>3 DEF Entry
    <2>6. Paced(index', turnsDone', cur')
      <3>1. Paced(index, turnsDone, cur) /\ index \in Nat
        BY <1>2, <2>1 DEF WorkerFits, TypesInv
      <3>2. NextStep(cur).type \in {"tool", "assistant", "complete"}
        BY <2>1, GoesIs
      <3>. QED  BY <2>1, <2>4, <2>5, <3>1, <3>2, PacedNext
    <2>. QED  BY <1>2, <2>1, <2>4, <2>6, WorkerProceeds
  <1>13. CASE CheckLimit
    <2>1. /\ pc = "limit" /\ UNCHANGED <<stored, toolRun, journal, cur, index, turnsDone>>
          /\ \/ pc' = "step"
             \/ pc' = "stop" /\ Goes /\ LimitReached
      BY <1>13 DEF CheckLimit, tables, worker, Goes
    <2>. QED  BY <1>2, <2>1 DEF WorkerFits, Live
  <1>14. CASE StopAtLimit
    <2>1. /\ pc = "stop" /\ pc' = "record_stop" /\ UNCHANGED <<toolRun, cur, index, turnsDone>>
          /\ stored' = [cur EXCEPT !.status = "error"]
      BY <1>14 DEF StopAtLimit, SaveWork
    <2>2. Begun(cur) /\ Conversation(cur, issued) /\ Tidy(cur, toolRun) /\ NextStep(cur).type = "assistant"
      BY <1>2, <2>1, GoesIs DEF WorkerFits, TypesInv, Live
    <2>3. Tidy(stored', toolRun)
      BY <2>1, <2>2, AskingIs, ErrorSpeaks DEF Settled, TypesInv
    <2>. QED  BY <1>2, <2>1, <2>2, <2>3 DEF WorkerFits, Live
  <1>15. CASE RecordStop
    <2>1. /\ cur' = work /\ stored = work /\ pc' = "step" /\ work.status = "error"
          /\ UNCHANGED <<stored, toolRun>>
      BY <1>15, RecordStopIs
    <2>2. Paced(index', turnsDone', cur')
      BY <2>1, StepTypes DEF Paced, NoStep
    <2>. QED  BY <1>2, <2>1, <2>2 DEF WorkerFits, Live
  <1>16. CASE ReplayStop
    <2>1. /\ cur' = journal[LimitKey] /\ Recorded(LimitKey) /\ pc' = "step" /\ cur'.status = "error"
          /\ UNCHANGED <<stored, toolRun>>
      BY <1>16 DEF ReplayStop, PlaceInv, PromptInv, tables
    <2>2. Paced(index', turnsDone', cur')
      BY <2>1, StepTypes DEF Paced, NoStep
    <2>3. Tidy(cur', toolRun)
      BY <1>2, <2>1 DEF JournalInv, Entry, Recorded
    <2>. QED  BY <1>2, <2>1, <2>2, <2>3 DEF WorkerFits, Live
  <1>17. CASE Finalize
    <2>1. /\ pc = "step" /\ pc' = "record_final" /\ UNCHANGED <<stored, toolRun, cur, index, turnsDone>>
      BY <1>17 DEF Finalize, AtEnd, worker
    <2>. QED  BY <1>2, <2>1 DEF WorkerFits, Live
  <1>. QED
    BY <1>0, <1>3, <1>4, <1>5, <1>6, <1>7, <1>8, <1>9, <1>10, <1>11, <1>12, <1>13, <1>14,
       <1>15, <1>16, <1>17 DEF Next, Progress

-----------------------------------------------------------------------------
(* Where a worker may come to                                              *)

(* A step that has not been recorded leaves the way open.                  *)
LEMMA StepFree ==
    ASSUME TypesInv, PlaceInv, WorkerFits, pc \in {"step", "tools", "record"}, Goes,
           ~ Recorded(StepKey), NEW P
    PROVE  Free(P, journal, index, cur)
  <1>1. /\ index \in Nat /\ turnsDone \in Nat /\ Paced(index, turnsDone, cur) /\ turnsDone < MaxTurns
        /\ NextStep(cur).type \in {"tool", "assistant", "complete"}
    BY GoesIs DEF TypesInv, WorkerFits, PlaceInv, LimitInv, Live
  <1>2. index + 1 < 3 * MaxTurns
    BY <1>1, PacedRoom
  <1>. QED  BY <1>2 DEF Free, Goes, Recorded, StepKey

(* The worker stays where it is, or goes.                                  *)
LEMMA WalkKept ==
    ASSUME NEW P, Walk(P), UNCHANGED journal, On' => On /\ UNCHANGED <<index, cur>>,
           \/ Owed(stored) # {}
           \/ Free(P, journal, index, cur)
           \/ UNCHANGED stored /\ On' /\ UNCHANGED <<index, cur>>
    PROVE  Walk(P)'
  <1>1. <<0, journal'[EnqueueKey]>> \in P /\ (On' => <<index', cur'>> \in P)
    BY DEF Walk
  <1>2. ASSUME NEW i \in Nat, NEW x, <<i, x>> \in P
        PROVE  \/ Free(P, journal', i, x)
               \/ Owed(stored') = {} /\ On' /\ i = index' /\ x = cur'
    <2>1. \/ Free(P, journal, i, x)
          \/ Owed(stored) = {} /\ On /\ i = index /\ x = cur
      BY <1>2 DEF Walk
    <2>2. CASE Free(P, journal, i, x)
      BY <2>2
    <2>3. CASE Owed(stored) = {} /\ i = index /\ x = cur
      BY <2>3
    <2>. QED  BY <2>1, <2>2, <2>3
  <1>. QED  BY <1>1, <1>2 DEF Walk

(* The journal has been given the step from position n, which came to y.   *)
LEMMA FreeAfter ==
    ASSUME NEW P, NEW J, NEW i \in Nat, NEW x, Free(P, J, i, x),
           NEW n \in Nat, NEW step, NEW key, key = Key("agent", n, step), key \notin DOMAIN J,
           NEW y, NEW K, K = Added(J, key, y),
           NEW Q, Q = P \cup {<<n + 1, y>>}
    PROVE  Free(Q, K, i, x)
  <1>. DEFINE next == Key("agent", i, NextStep(x))
  <1>1. next.index = i /\ key.index = n
    BY KeysDiffer
  <1>2. CASE next \in DOMAIN J
    <2>1. K[next] = J[next] /\ next \in DOMAIN K
      BY <1>2 DEF Added
    <2>. QED  BY <1>2, <2>1 DEF Free
  <1>3. CASE next = key
    <2>1. K[next] = y /\ i = n
      BY <1>1, <1>3 DEF Added
    <2>. QED  BY <2>1 DEF Free
  <1>4. CASE next \notin DOMAIN J /\ next # key
    <2>1. next \notin DOMAIN K
      BY <1>4 DEF Added
    <2>. QED  BY <2>1 DEF Free
  <1>. QED  BY <1>2, <1>3, <1>4

LEMMA WalkRecordStep ==
    ASSUME TypesInv, PlaceInv, WorkerFits, JournalInv, Good, RecordStep, NEW P, Walk(P)
    PROVE  \E Q : Walk(Q)'
  <1>1. /\ pc = "record" /\ Goes /\ journal' = Added(journal, StepKey, work)
        /\ StepKey \notin DOMAIN journal
        /\ stored = work /\ stored' = work /\ cur' = work /\ index' = index + 1 /\ pc' = "limit"
        /\ Begun(work) /\ Conversation(work, issued)
    <2>1. pc = "record"
      BY DEF RecordStep
    <2>. QED  BY <2>1, RecordStepIs DEF PlaceInv, RecordInv, WorkerFits, Recorded, TypesInv
  <1>2. /\ index \in Nat /\ turnsDone \in Nat /\ turnsDone < MaxTurns
        /\ Paced(index, turnsDone, cur) /\ Taken(cur, index, turnsDone, work, toolRun)
        /\ Tidy(work, toolRun)
        /\ NextStep(cur).type \in {"tool", "assistant", "complete"}
    BY <1>1, GoesIs DEF TypesInv, WorkerFits, PlaceInv, LimitInv, Live
  <1>3. PICK Q : Q = P \cup {<<index + 1, work>>}
    OBVIOUS
  <1>4. On' /\ <<index', cur'>> \in Q
    BY <1>1, <1>3 DEF On
  <1>5. <<0, journal'[EnqueueKey]>> \in Q
    <2>1. journal'[EnqueueKey] = journal[EnqueueKey]
      BY <1>1 DEF Added, Good, Recorded
    <2>. QED  BY <1>3, <2>1 DEF Walk
  <1>6. Owed(work) # {} => Free(Q, journal', index + 1, work)
    <2>1. SUFFICES ASSUME Owed(work) # {}
                   PROVE  Free(Q, journal', index + 1, work)
      OBVIOUS
    <2>2. NextStep(cur).type = "assistant" /\ Untried(work, toolRun)
      BY <1>2, <2>1 DEF Taken
    <2>3. (index + 1) + 1 < 3 * MaxTurns
      <3>1. index + 2 < 3 * MaxTurns
        BY <1>2, <2>2, PacedRoom
      <3>. QED  BY <1>2, <3>1
    <2>4. /\ NextStep(work) # NoStep /\ NextStep(work).type = "tool"
          /\ NextStep(work).calls = Unsatisfied(work) /\ Unsatisfied(work) # {}
      BY <1>1, <1>2, <2>1, OwedIs, NextStepIs DEF Tidy
    <2>. DEFINE key == Key("agent", index + 1, NextStep(work))
    <2>5. key.name = "agent" /\ key.step = NextStep(work) /\ key.index = index + 1 /\ StepKey.index = index
      BY KeysDiffer DEF StepKey
    <2>6. key \notin DOMAIN journal
      <3>1. SUFFICES ASSUME key \in DOMAIN journal
                     PROVE  FALSE
        OBVIOUS
      <3>2. Entry(key, journal[key], toolRun)
        BY <3>1 DEF JournalInv
      <3>3. Ended(NextStep(work).calls, toolRun)
        BY <2>4, <2>5, <3>2 DEF Entry
      <3>. QED  BY <2>2, <2>4, <3>3 DEF Ended, Untried, Unused
    <2>7. key # StepKey
      BY <1>2, <2>5
    <2>8. key \notin DOMAIN journal'
      BY <1>1, <2>6, <2>7 DEF Added
    <2>. QED  BY <2>3, <2>4, <2>8 DEF Free
  <1>7. Free(Q, journal', index, cur)
    <2>1. Free(P, journal, index, cur)
      BY <1>1, StepFree DEF Recorded
    <2>2. StepKey = Key("agent", index, NextStep(cur))
      BY DEF StepKey
    <2>. HIDE DEF StepKey
    <2>. QED  BY <1>1, <1>2, <1>3, <2>1, <2>2, FreeAfter
  <1>8. ASSUME NEW i \in Nat, NEW x, <<i, x>> \in Q
        PROVE  \/ Free(Q, journal', i, x)
               \/ Owed(stored') = {} /\ On' /\ i = index' /\ x = cur'
    <2>1. CASE i = index + 1 /\ x = work
      BY <1>1, <1>4, <1>6, <2>1
    <2>2. CASE i = index /\ x = cur
      BY <1>7, <2>2
    <2>3. CASE <<i, x>> \in P /\ ~ (i = index /\ x = cur)
      <3>1. Free(P, journal, i, x)
        BY <2>3 DEF Walk
      <3>2. StepKey = Key("agent", index, NextStep(cur))
        BY DEF StepKey
      <3>. HIDE DEF StepKey
      <3>. QED  BY <1>1, <1>2, <1>3, <3>1, <3>2, FreeAfter
    <2>. QED  BY <1>3, <1>8, <2>1, <2>2, <2>3
  <1>9. Walk(Q)'
    BY <1>4, <1>5, <1>8 DEF Walk
  <1>. QED  BY <1>9

LEMMA WalkReplayStep ==
    ASSUME TypesInv, PlaceInv, WorkerFits, Good, ReplayStep, NEW P, Walk(P)
    PROVE  \E Q : Walk(Q)'
  <1>1. /\ pc = "step" /\ Goes /\ StepKey \in DOMAIN journal /\ cur' = journal[StepKey]
        /\ UNCHANGED <<journal, stored>> /\ index' = index + 1 /\ pc' = "limit"
    BY DEF ReplayStep, Proceed, Goes, Recorded, tables
  <1>2. /\ index \in Nat /\ turnsDone \in Nat /\ turnsDone < MaxTurns
        /\ Paced(index, turnsDone, cur)
        /\ NextStep(cur).type \in {"tool", "assistant", "complete"}
    BY <1>1, GoesIs DEF TypesInv, WorkerFits, PlaceInv, LimitInv, Live
  <1>3. CASE Owed(stored) # {}
    <2>1. <<index, cur>> \in P
      BY <1>1 DEF Walk, On
    <2>2. Free(P, journal, index, cur)
      BY <1>2, <1>3, <2>1 DEF Walk
    <2>3. <<index', cur'>> \in P
      BY <1>1, <2>2 DEF Free, StepKey
    <2>4. \A i \in Nat : \A x : <<i, x>> \in P => Free(P, journal', i, x)
      BY <1>1, <1>3 DEF Walk
    <2>5. <<0, journal'[EnqueueKey]>> \in P
      BY <1>1 DEF Walk
    <2>6. Walk(P)'
      BY <2>3, <2>4, <2>5 DEF Walk
    <2>. QED  BY <2>6
  <1>4. CASE Owed(stored) = {}
    <2>1. PICK Q : Q = P \cup {<<index + 1, cur'>>}
      OBVIOUS
    <2>2. On' /\ <<index', cur'>> \in Q
      BY <1>1, <2>1 DEF On
    <2>3. <<0, journal'[EnqueueKey]>> \in Q
      BY <1>1, <2>1 DEF Walk
    <2>4. Free(Q, journal, index, cur)
      <3>1. index + 1 < 3 * MaxTurns
        BY <1>2, PacedRoom
      <3>. QED  BY <1>1, <2>1, <3>1 DEF Free, Goes, StepKey
    <2>5. ASSUME NEW i \in Nat, NEW x, <<i, x>> \in Q
          PROVE  \/ Free(Q, journal', i, x)
                 \/ Owed(stored') = {} /\ On' /\ i = index' /\ x = cur'
      <3>1. CASE i = index + 1 /\ x = cur'
        BY <1>1, <1>4, <2>2, <3>1
      <3>2. CASE i = index /\ x = cur
        BY <1>1, <2>4, <3>2
      <3>3. CASE <<i, x>> \in P /\ ~ (i = index /\ x = cur)
        <4>1. Free(P, journal, i, x)
          BY <3>3 DEF Walk
        <4>. QED  BY <1>1, <2>1, <4>1 DEF Free
      <3>. QED  BY <2>1, <2>5, <3>1, <3>2, <3>3
    <2>6. Walk(Q)'
      BY <2>2, <2>3, <2>5 DEF Walk
    <2>. QED  BY <2>6
  <1>. QED  BY <1>3, <1>4

LEMMA WalkResume ==
    ASSUME TypesInv, PlaceInv, WorkerFits, JournalInv, WalkFits, Good, Resume
    PROVE  /\ Owed(stored') # {} \/ On' => \E Q : Walk(Q)'
           /\ Owed(stored') # {} => Goes'
  <1>1. /\ pc = "resume" /\ pc' = "step" /\ cur = journal[EnqueueKey] /\ index = 0
        /\ UNCHANGED <<stored, journal, index>>
    BY DEF Resume, PlaceInv, PromptInv, LimitInv, tables
  <1>2. Tidy(stored, toolRun) /\ ~ On
    BY <1>1 DEF WorkerFits, On
  <1>3. CASE Owed(stored) = {}
    <2>1. ~ Waiting(stored, CallIds)
      BY <1>2, <1>3, WaitingOwes
    <2>2. cur' = cur
      BY <2>1 DEF Resume
    <2>3. CASE Goes'
      <3>1. PICK Q : Q = {<<0, cur>>}
        OBVIOUS
      <3>2. On' /\ <<index', cur'>> \in Q /\ <<0, journal'[EnqueueKey]>> \in Q
        BY <1>1, <2>2, <2>3, <3>1 DEF On
      <3>3. \A i \in Nat : \A x : <<i, x>> \in Q => i = index' /\ x = cur'
        BY <1>1, <2>2, <3>1
      <3>4. Walk(Q)'
        BY <1>1, <1>3, <3>2, <3>3 DEF Walk
      <3>. QED  BY <1>1, <1>3, <3>4
    <2>4. CASE ~ Goes'
      BY <1>1, <1>3, <2>4 DEF On
    <2>. QED  BY <1>1, <1>3, <2>3, <2>4
  <1>4. CASE Owed(stored) # {}
    <2>1. PICK P : Walk(P)
      BY <1>4 DEF WalkFits
    <2>2. \A i \in Nat : \A x : <<i, x>> \in P => Free(P, journal, i, x)
      BY <1>4, <2>1 DEF Walk
    <2>3. <<0, journal[EnqueueKey]>> \in P
      BY <2>1 DEF Walk
    <2>4. CASE Waiting(stored, CallIds)
      <3>1. cur' = stored /\ Begun(stored)
        BY <1>2, <2>4, WaitingOwes DEF Resume
      <3>2. /\ NextStep(stored) # NoStep /\ NextStep(stored).type = "tool"
            /\ \E c \in NextStep(stored).calls : toolRun[c] = "running"
        BY <1>2, <2>4, WaitingOwes
      <3>. DEFINE key == Key("agent", 0, NextStep(stored))
      <3>3. key \notin DOMAIN journal
        <4>1. SUFFICES ASSUME key \in DOMAIN journal
                       PROVE  FALSE
          OBVIOUS
        <4>2. Entry(key, journal[key], toolRun)
          BY <4>1 DEF JournalInv
        <4>3. key.name = "agent" /\ key.step = NextStep(stored)
          BY KeysDiffer
        <4>4. Ended(NextStep(stored).calls, toolRun)
          BY <3>2, <4>2, <4>3 DEF Entry
        <4>. QED  BY <3>2, <4>4 DEF Ended
      <3>4. PICK Q : Q = P \cup {<<0, stored>>}
        OBVIOUS
      <3>5. Free(Q, journal, 0, stored)
        <4>1. 0 + 1 < 3 * MaxTurns
          BY ReplayAssumption
        <4>. QED  BY <3>2, <3>3, <4>1 DEF Free
      <3>6. \A i \in Nat : \A x : <<i, x>> \in Q => Free(Q, journal', i, x)
        <4>1. SUFFICES ASSUME NEW i \in Nat, NEW x, <<i, x>> \in Q
                       PROVE  Free(Q, journal', i, x)
          OBVIOUS
        <4>2. CASE <<i, x>> \in P
          <5>1. Free(P, journal, i, x)
            BY <2>2, <4>2
          <5>. QED  BY <1>1, <3>4, <5>1 DEF Free
        <4>3. CASE i = 0 /\ x = stored
          BY <1>1, <3>5, <4>3
        <4>. QED  BY <3>4, <4>1, <4>2, <4>3
      <3>7. <<0, journal'[EnqueueKey]>> \in Q /\ <<index', cur'>> \in Q
        BY <1>1, <2>3, <3>1, <3>4
      <3>8. Walk(Q)'
        BY <3>6, <3>7 DEF Walk
      <3>9. Goes'
        BY <3>1, <3>2 DEF Goes
      <3>. QED  BY <3>8, <3>9
    <2>5. CASE ~ Waiting(stored, CallIds)
      <3>1. cur' = cur
        BY <2>5 DEF Resume
      <3>2. <<0, journal'[EnqueueKey]>> \in P /\ <<index', cur'>> \in P
        BY <1>1, <2>3, <3>1
      <3>3. \A i \in Nat : \A x : <<i, x>> \in P => Free(P, journal', i, x)
        BY <1>1, <2>2
      <3>4. Walk(P)'
        BY <3>2, <3>3 DEF Walk
      <3>5. Free(P, journal, 0, cur)
        BY <1>1, <2>2, <2>3
      <3>6. Goes'
        BY <3>1, <3>5 DEF Free, Goes
      <3>. QED  BY <3>4, <3>6
    <2>. QED  BY <2>4, <2>5
  <1>. QED  BY <1>3, <1>4

LEMMA WalkGone ==
    ASSUME WalkFits, UNCHANGED <<journal, stored>>, ~ On', Over' => Over
    PROVE  WalkFits'
  <1>1. CASE Owed(stored) = {}
    BY <1>1 DEF WalkFits
  <1>2. CASE Owed(stored) # {}
    <2>1. PICK P : Walk(P)
      BY <1>2 DEF WalkFits
    <2>2. Walk(P)'
      BY <1>2, <2>1, WalkKept
    <2>3. ~ Over'
      BY <1>2 DEF WalkFits
    <2>. QED  BY <2>2, <2>3 DEF WalkFits
  <1>. QED  BY <1>1, <1>2

LEMMA OnIs ==
    /\ On => ~ Over
    /\ On' => ~ Over'
  BY DEF On, Over

(* The worker stays at its step, which has not been recorded or has not    *)
(* been saved either.                                                      *)
LEMMA WalkStays ==
    ASSUME WalkFits, On, UNCHANGED <<journal, index, cur>>,
           \/ UNCHANGED stored /\ On'
           \/ /\ \A P : Free(P, journal, index, cur)
              /\ ~ Over'
    PROVE  WalkFits'
  <1>1. PICK P : Walk(P)
    BY DEF WalkFits
  <1>2. Walk(P)'
    <2>1. CASE UNCHANGED stored /\ On'
      BY <1>1, <2>1, WalkKept
    <2>2. CASE \A Q : Free(Q, journal, index, cur)
      <3>1. Free(P, journal, index, cur)
        BY <2>2
      <3>. QED  BY <1>1, <3>1, WalkKept
    <2>. QED  BY <2>1, <2>2
  <1>3. ~ Over'
    BY OnIs
  <1>. QED  BY <1>2, <1>3 DEF WalkFits

(* At the limit nothing is owed: the walk would have had to go on.         *)
LEMMA WalkLimit ==
    ASSUME TypesInv, PlaceInv, WorkerFits, WalkFits, CheckLimit
    PROVE  WalkFits'
  <1>1. pc = "limit" /\ On /\ UNCHANGED <<journal, index, cur, stored>>
    BY DEF CheckLimit, On, tables, worker
  <1>2. CASE Goes /\ ~ LimitReached
    <2>1. On'
      BY <1>1, <1>2 DEF CheckLimit, On, Goes
    <2>. QED  BY <1>1, <2>1, WalkStays
  <1>3. CASE ~ (Goes /\ ~ LimitReached)
    <2>1. ~ On'
      BY <1>1, <1>3 DEF CheckLimit, On, Goes
    <2>2. PICK P : Walk(P)
      BY <1>1 DEF WalkFits
    <2>3. Owed(stored) = {}
      <3>1. SUFFICES ASSUME Owed(stored) # {}
                     PROVE  FALSE
        OBVIOUS
      <3>2. index \in Nat /\ turnsDone \in Nat /\ Paced(index, turnsDone, cur)
        BY <1>1 DEF TypesInv, WorkerFits, Live
      <3>3. Free(P, journal, index, cur)
        BY <1>1, <2>2, <3>1, <3>2 DEF Walk
      <3>4. Goes /\ index + 1 < 3 * MaxTurns
        BY <3>3 DEF Free, Goes
      <3>5. LimitReached /\ NextStep(cur).type = "assistant"
        BY <1>1, <1>3, <3>4 DEF WorkerFits
      <3>6. turnsDone >= MaxTurns /\ index + 1 = 3 * turnsDone /\ MaxTurns \in Nat
        BY <3>2, <3>5, ReplayAssumption DEF Paced, LimitReached
      <3>. QED  BY <3>2, <3>4, <3>6
    <2>. QED  BY <1>1, <2>1, <2>3 DEF WalkFits
  <1>. QED  BY <1>2, <1>3

LEMMA WalkStep ==
    ASSUME TypesInv, PlaceInv, OwedInv, CountInv', Next
    PROVE  WalkInv'
  <1>. SUFFICES ASSUME Good'
                PROVE  WalkFits'
    BY DEF WalkInv
  <1>0. /\ faults = 0 /\ ~ Fault
        /\ ~ GivePrompt /\ ~ SavePrompt /\ ~ FirstAnswer /\ ~ Report /\ ~ RecordReport
        /\ Good \/ RecordPrompt
    BY GoodBack DEF OwedInv
  <1>1. CASE RecordPrompt
    <2>1. /\ journal' = Added(journal, EnqueueKey, work) /\ stored = work /\ pc' = "resume"
          /\ UNCHANGED <<stored, prompts, toolRun>> /\ pc = "record_prompt"
          /\ ~ Recorded(EnqueueKey)
      BY <1>1, RecordIs DEF RecordPrompt, PlaceInv, PromptInv, outside
    <2>2. DOMAIN journal' = {EnqueueKey} /\ journal'[EnqueueKey] = work
      <3>1. DOMAIN journal = {}
        BY <1>0, <2>1 DEF OwedInv, CountInv
      <3>. QED  BY <2>1, <3>1 DEF Added
    <2>3. Tidy(work, toolRun)
      BY <1>0, <2>1 DEF OwedInv, BetweenInv, Good
    <2>4. ~ On' /\ ~ Over'
      BY <2>1 DEF On, Over
    <2>5. ASSUME Owed(work) # {}
          PROVE  \E P : Walk(P)'
      <3>1. PICK P : P = {<<0, work>>}
        OBVIOUS
      <3>2. NextStep(work) # NoStep
        BY <2>3, <2>5, OwedIs DEF Tidy, TypesInv
      <3>3. 0 + 1 < 3 * MaxTurns
        BY ReplayAssumption
      <3>4. \A i, step : Key("agent", i, step) \notin DOMAIN journal'
        BY <2>2, KeysDiffer DEF OtherKeys
      <3>5. Free(P, journal', 0, work)
        BY <3>2, <3>3, <3>4 DEF Free
      <3>6. \A i \in Nat : \A x : <<i, x>> \in P => Free(P, journal', i, x)
        BY <3>1, <3>5
      <3>7. <<0, journal'[EnqueueKey]>> \in P
        BY <2>2, <3>1
      <3>8. Walk(P)'
        BY <2>4, <3>6, <3>7 DEF Walk
      <3>. QED  BY <3>8
    <2>. QED  BY <2>1, <2>4, <2>5 DEF WalkFits
  <1>. SUFFICES ASSUME ~ RecordPrompt
                PROVE  WalkFits'
    BY <1>1
  <1>2. Good /\ WorkerFits /\ JournalInv /\ SpeechInv /\ WalkFits
    BY <1>0 DEF OwedInv, WorkerInv, WalkInv
  <1>3. CASE Start \/ ReplayEnqueue \/ Yield \/ Complete \/ Crash
    <2>1. UNCHANGED <<journal, stored>> /\ pc' \in {"enqueue", "off", "resume"}
      BY <1>3 DEF Start, ReplayEnqueue, Yield, Complete, Crash, Leave, tables
    <2>. QED  BY <1>2, <2>1, WalkGone DEF On, Over
  <1>4. CASE ReplayFinal \/ Finalize
    <2>1. /\ UNCHANGED <<journal, stored>> /\ pc' \in {"complete", "record_final"}
          /\ pc = "step" /\ ~ Goes
      BY <1>4 DEF ReplayFinal, Finalize, AtEnd, Goes, tables
    <2>. QED  BY <1>2, <2>1, WalkGone DEF On, Over
  <1>5. CASE Resume
    <2>1. /\ Owed(stored') # {} \/ On' => \E Q : Walk(Q)'
          /\ Owed(stored') # {} => Goes'
      BY <1>2, <1>5, WalkResume
    <2>2. pc' = "step"
      BY <1>5 DEF Resume
    <2>. QED  BY <2>1, <2>2 DEF WalkFits, Over
  <1>6. CASE Ask \/ EndTurn \/ SaveTools
    <2>1. /\ pc \in {"step", "tools"} /\ Goes /\ On /\ ~ Recorded(StepKey)
          /\ UNCHANGED <<journal, index, cur>> /\ pc' \in {"record", "yield"}
      BY <1>2, <1>6, GoesIs
         DEF Ask, EndTurn, SaveTools, NewStep, PlaceInv, ToolsInv, WorkerFits, On, Live
    <2>2. \A P : Free(P, journal, index, cur)
      BY <1>2, <2>1, StepFree
    <2>3. ~ Over'
      BY <2>1 DEF Over
    <2>. QED  BY <1>2, <2>1, <2>2, <2>3, WalkStays
  <1>7. CASE StartTools
    <2>1. /\ On /\ On' /\ UNCHANGED <<journal, index, cur, stored>>
      BY <1>7, GoesIs DEF StartTools, NewStep, On, Live, tables
    <2>. QED  BY <1>2, <2>1, WalkStays
  <1>8. ASSUME NEW c \in CallIds, BeginTool(c) \/ EndTool(c)
        PROVE  WalkFits'
    <2>1. /\ On /\ On' /\ UNCHANGED <<journal, index, cur, stored>>
      BY <1>8 DEF BeginTool, EndTool, On
    <2>. QED  BY <1>2, <2>1, WalkStays
  <1>9. CASE RecordStep
    <2>1. pc = "record" /\ pc' = "limit"
      BY <1>9 DEF RecordStep, Proceed
    <2>2. PICK P : Walk(P)
      BY <1>2, <2>1 DEF WalkFits, On
    <2>3. \E Q : Walk(Q)'
      BY <1>2, <1>9, <2>2, WalkRecordStep
    <2>. QED  BY <2>1, <2>3 DEF WalkFits, Over
  <1>10. CASE ReplayStep
    <2>1. pc = "step" /\ Goes /\ pc' = "limit"
      BY <1>10 DEF ReplayStep, Proceed, Goes
    <2>2. PICK P : Walk(P)
      BY <1>2, <2>1 DEF WalkFits, On
    <2>3. \E Q : Walk(Q)'
      BY <1>2, <1>10, <2>2, WalkReplayStep
    <2>. QED  BY <2>1, <2>3 DEF WalkFits, Over
  <1>11. CASE CheckLimit
    BY <1>2, <1>11, WalkLimit
  <1>12. CASE StopAtLimit
    <2>1. /\ pc = "stop" /\ pc' = "record_stop"
          /\ stored' = [cur EXCEPT !.status = "error"]
      BY <1>12 DEF StopAtLimit, SaveWork
    <2>2. Begun(cur) /\ Conversation(cur, issued) /\ Tidy(cur, toolRun) /\ NextStep(cur).type = "assistant"
      BY <1>2, <2>1, GoesIs DEF WorkerFits, TypesInv, Live
    <2>3. Owed(stored') = {}
      BY <2>1, <2>2, AskingIs, ErrorSpeaks DEF Settled, TypesInv
    <2>. QED  BY <2>1, <2>3 DEF WalkFits, On
  <1>13. CASE RecordStop \/ ReplayStop
    <2>1. /\ pc \in {"stop", "record_stop"} /\ pc' = "step" /\ cur'.status = "error" /\ UNCHANGED stored
      <3>1. CASE RecordStop
        BY <3>1, RecordStopIs
      <3>2. CASE ReplayStop
        BY <3>2 DEF ReplayStop, PlaceInv, PromptInv, tables
      <3>. QED  BY <1>13, <3>1, <3>2
    <2>2. ~ Goes'
      BY <2>1, StepTypes DEF Goes
    <2>3. Owed(stored') = {} /\ ~ On'
      BY <1>2, <2>1, <2>2 DEF WalkFits, Over, On
    <2>. QED  BY <2>3 DEF WalkFits
  <1>14. CASE RecordFinal
    <2>1. pc = "record_final" /\ pc' = "complete" /\ UNCHANGED stored
      BY <1>14 DEF RecordFinal
    <2>2. Owed(stored') = {} /\ ~ On'
      BY <1>2, <2>1 DEF WalkFits, Over, On
    <2>. QED  BY <2>2 DEF WalkFits
  <1>. QED
    BY <1>0, <1>3, <1>4, <1>5, <1>6, <1>7, <1>8, <1>9, <1>10, <1>11, <1>12, <1>13, <1>14
       DEF Next, Progress

-----------------------------------------------------------------------------
(* What the model is asked with                                            *)

LEMMA OwedInit ==
    ASSUME Init
    PROVE  OwedInv
  <1>1. stored = EmptySession /\ cur = EmptySession /\ work = EmptySession
    BY DEF Init
  <1>2. DOMAIN journal = {} /\ ~ Recorded(EnqueueKey)
    BY DEF Init, Recorded
  <1>3. SpeechInv
    BY <1>1, <1>2, EmptySpeaks DEF Init, SpeechInv, Untouched
  <1>4. CountInv
    <2>1. PromptsIn(stored) \in Nat /\ prompts = 0
      BY <1>3, PromptsIs DEF SpeechInv, Init
    <2>. QED  BY <1>2, <2>1 DEF Init, CountInv, Pending, Live
  <1>5. BetweenInv
    BY <1>1, EmptySettled DEF Init, BetweenInv
  <1>6. ~ Good
    BY <1>2 DEF Good
  <1>. QED  BY <1>3, <1>4, <1>5, <1>6 DEF OwedInv, JournalInv, WorkerInv, WalkInv

LEMMA OwedStep ==
    ASSUME TypesInv, PlaceInv, TypesInv', PlaceInv', OwedInv, Next
    PROVE  OwedInv'
  <1>1. SpeechInv'
    BY SpeechStep DEF OwedInv
  <1>2. CountInv'
    BY CountStep DEF OwedInv
  <1>3. BetweenInv'
    BY BetweenStep
  <1>4. JournalInv'
    BY <1>2, JournalStep
  <1>5. WorkerInv'
    BY <1>2, WorkerStep
  <1>6. WalkInv'
    BY <1>2, WalkStep
  <1>. QED  BY <1>1, <1>2, <1>3, <1>4, <1>5, <1>6 DEF OwedInv

LEMMA OwedStutter ==
    ASSUME OwedInv, UNCHANGED vars
    PROVE  OwedInv'
  <1>. USE DEF vars, tables, worker, outside
  <1>1. SpeechInv'
    BY DEF OwedInv, SpeechInv, Untouched
  <1>2. CountInv'
    BY DEF OwedInv, CountInv, Pending, Recorded
  <1>3. BetweenInv'
    BY DEF OwedInv, BetweenInv, Recorded
  <1>4. Good' = Good
    BY DEF Good, Recorded
  <1>5. JournalInv'
    BY <1>4 DEF OwedInv, JournalInv
  <1>6. WorkerInv'
    BY <1>4 DEF OwedInv, WorkerInv, WorkerFits, Recorded, StepKey, Goes, LimitReached
  <1>7. On' = On /\ Over' = Over
    BY DEF On, Over, Goes
  <1>8. WalkInv'
    BY <1>4, <1>7 DEF OwedInv, WalkInv, WalkFits, Walk
  <1>. QED  BY <1>1, <1>2, <1>3, <1>5, <1>6, <1>8 DEF OwedInv

(* What the conversations owe, and that a worker always comes to a step    *)
(* that pays it: enqueue-prompt, the steps of the agent and the replay of  *)
(* them, from the top or from the tool that is waited for.                 *)
THEOREM OwedInductive ==
    Spec => []OwedInv
  <1>1. Init => OwedInv
    BY OwedInit
  <1>2. OwedInv /\ ReplayInv /\ ReplayInv' /\ [Next]_vars => OwedInv'
    BY OwedStep, OwedStutter DEF ReplayInv
  <1>. QED  BY <1>1, <1>2, ReplayInductive, PTL DEF Spec

LEMMA AnsweredNow ==
    ASSUME TypesInv, PlaceInv, OwedInv
    PROVE  CallsAnswered
  <1>. SUFFICES ASSUME faults = 0, NEW s \in {cur, work}, AsksWith(s), PromptsIn(s) = prompts
                PROVE  WellAnswered(s.history)
    BY DEF CallsAnswered
  <1>1. CASE pc = "first_answer" /\ s = work
    <2>1. stored = work
      BY <1>1 DEF PlaceInv, PromptInv
    <2>2. Settled(s, toolRun) /\ Spoken(s.history)
      BY <1>1, <2>1 DEF OwedInv, BetweenInv, SpeechInv
    <2>. QED  BY <2>2, SettledIsWell
  <1>2. CASE NewStep("assistant") /\ s = cur
    <2>1. pc = "step" /\ pc \in Live /\ NextStep(cur).type = "assistant"
      BY <1>2 DEF NewStep, Live
    <2>2. Good
      BY <1>2, <2>1, LiveIs DEF OwedInv, CountInv, Good
    <2>3. Begun(cur) /\ Conversation(cur, issued) /\ Tidy(cur, toolRun) /\ Spoken(cur.history)
      BY <2>1, <2>2, LiveIs DEF OwedInv, WorkerInv, WorkerFits, SpeechInv, TypesInv
    <2>4. Settled(s, toolRun) /\ Spoken(s.history)
      BY <1>2, <2>1, <2>3, AskingIs
    <2>. QED  BY <2>4, SettledIsWell
  <1>. QED  BY <1>1, <1>2 DEF AsksWith

(* The model is asked with a history in which every tool call has exactly  *)
(* one result, in its place, however many workers are lost or wait for a   *)
(* tool on the way; unless a step threw, or a worker was lost inside       *)
(* enqueue-prompt (sanitizeToolResultHistory, processPrompt).              *)
THEOREM CallsAreAnswered ==
    Spec => []CallsAnswered
  <1>1. ReplayInv /\ OwedInv => CallsAnswered
    BY AnsweredNow DEF ReplayInv
  <1>. QED  BY <1>1, ReplayInductive, OwedInductive, PTL

=============================================================================
