----------------------------- MODULE AgentTurns -----------------------------
(***************************************************************************)
(* The agent's conversation and the functions that move it on: what        *)
(* runtime/agent.ts computes, without anything it waits for.               *)
(*                                                                         *)
(* A conversation has a status, its turns, the status of every tool call   *)
(* and the messages.  A turn is one answer of the model with the tool      *)
(* calls in it; its index is its position.  Tool calls are numbers, in the *)
(* order in which the model makes them; complete, error and aborted calls  *)
(* are all "finished", since no guard tells them apart.  The steering and  *)
(* follow-up queues are left out: no caller fills them.                    *)
(***************************************************************************)
EXTENDS Naturals, FiniteSets, Sequences, SequencesExt

CONSTANT CallIds      \* the tool calls the model may make

ASSUME CallIdsAssumption == CallIds \subseteq Nat

CallStatuses == {"none", "pending", "running", "finished"}
TurnStatuses == {"awaiting_assistant", "awaiting_tools", "complete", "error"}

(* One shape for every message: the calls an assistant makes, or the call  *)
(* a tool result answers.                                                  *)
Message(role, calls) == [role |-> role, calls |-> calls]

EmptyTurn == [status |-> "awaiting_assistant", calls |-> {}]

EmptySession ==
    [status |-> "idle", turns |-> <<>>, history |-> <<>>,
     calls |-> [c \in CallIds |-> "none"]]

LatestTurn(s) == Last(s.turns)

WithLatestTurn(s, turn) == [s EXCEPT !.turns = Front(@) \o <<turn>>]

-----------------------------------------------------------------------------
(* Faulty variants, as in SessionRuns. *)

UnsatisfiedUnlessStarted(s) ==
    IF s.turns = <<>> THEN {} ELSE {c \in LatestTurn(s).calls : s.calls[c] = "pending"}

-----------------------------------------------------------------------------

(* The calls of the latest turn that have no result yet. *)
Unsatisfied(s) ==
    IF s.turns = <<>> THEN {}
    ELSE {c \in LatestTurn(s).calls : s.calls[c] \in {"pending", "running"}}

EnqueuePrompt(s) ==
    [s EXCEPT !.status = "running",
              !.history = Append(@, Message("user", {})),
              !.turns = Append(@, EmptyTurn)]

(* The model answers, with or without tool calls, or ends in an error. *)
Answer(s, calls, failed) ==
    LET turn == [status |-> IF failed THEN "error"
                            ELSE IF calls = {} THEN "complete" ELSE "awaiting_tools",
                 calls |-> calls]
    IN  [WithLatestTurn(s, turn) EXCEPT
            !.status = IF failed THEN "error" ELSE "running",
            !.history = Append(@, Message("assistant", calls)),
            !.calls = [c \in CallIds |-> IF c \in calls THEN "pending" ELSE @[c]]]

(* A turn whose tools have answered is followed by another, any other turn *)
(* ends the prompt.                                                        *)
CompleteTurn(s) ==
    LET turn == LatestTurn(s)
        closed == WithLatestTurn(s,
                      [turn EXCEPT !.status = IF @ = "error" THEN "error" ELSE "complete"])
        hasResults == \E i \in DOMAIN s.history :
                         s.history[i].role = "toolResult" /\ s.history[i].calls \subseteq turn.calls
    IN  IF Unsatisfied(s) # {} THEN s
        ELSE IF turn.status = "error" \/ s.status = "error" THEN closed
        ELSE IF hasResults THEN [closed EXCEPT !.turns = Append(@, EmptyTurn)]
        ELSE [closed EXCEPT !.status = "idle"]

(* Calls one after the other, as the answer asked for them. *)
InOrder(calls) ==
    CHOOSE q \in [1 .. Cardinality(calls) -> calls] :
        \A i, j \in DOMAIN q : i < j => q[i] < q[j]

(* The tool calls of a step have run, together: results says which ended   *)
(* and which are still running in the background.  When the results are    *)
(* merged, a call that is still running also copies the status of every    *)
(* other call from its own view of the conversation: one that was running  *)
(* when the step began, and comes before it, is running again although its *)
(* result has been added to the messages.                                  *)
FinishCalls(s, results) ==
    LET batch == DOMAIN results
        ended == {c \in batch : results[c] = "finished"}
        putBack(c) == /\ s.calls[c] = "running"
                      /\ \E later \in batch \ ended : later > c
        order == InOrder(ended)
    IN  [s EXCEPT
            !.history = @ \o [i \in 1 .. Len(order) |-> Message("toolResult", {order[i]})],
            !.calls = [c \in CallIds |->
                          IF c \notin batch THEN @[c]
                          ELSE IF c \in ended /\ ~ putBack(c) THEN "finished"
                          ELSE "running"]]

NoStep == [type |-> "none", turn |-> 0, calls |-> {}]

(* determineNextStep; the fields are what the name of the step is made of. *)
NextStep(s) ==
    LET turn == LatestTurn(s)
        step(type, calls) ==
            [type |-> type, turn |-> IF calls = {} THEN Len(s.turns) ELSE 0, calls |-> calls]
    IN  IF s.status # "running" THEN NoStep
        ELSE IF Unsatisfied(s) # {} THEN step("tool", Unsatisfied(s))
        ELSE IF s.turns = <<>> \/ turn.status = "awaiting_assistant" THEN step("assistant", {})
        ELSE IF turn.status \in {"awaiting_tools", "complete"} THEN step("complete", {})
        ELSE NoStep

(* The tool result at j is one of those that come right after the answer   *)
(* at i, and answers a call of it.                                         *)
Answers(history, i, j) ==
    /\ i < j
    /\ history[i].role = "assistant"
    /\ \A k \in (i + 1) .. j : history[k].role = "toolResult"
    /\ history[j].calls \subseteq history[i].calls

(* sanitizeToolResultHistory, as the positions of the messages that go to  *)
(* the model: a tool result does only if it comes right after the answer   *)
(* that asked for it, and only once.                                       *)
Sanitize(history) ==
    {j \in DOMAIN history :
        history[j].role = "toolResult" =>
            \E i \in 1 .. (j - 1) :
                /\ Answers(history, i, j)
                /\ \A k \in (i + 1) .. (j - 1) : history[k].calls # history[j].calls}

=============================================================================
