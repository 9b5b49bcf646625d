--------------------------- MODULE MCPromptReplay ---------------------------
(* Instances of PromptReplay for TLC, and what its Sanitize stands for. *)
EXTENDS PromptReplay

TwoCalls == 1 .. 2
ThreeCalls == 1 .. 3

(* sanitizeToolResultHistory as it is written, message after message: open *)
(* holds the calls of the latest answer that have no result yet.           *)
SanitizeLoop(history) ==
    LET take(acc, m) ==
            IF m.role = "toolResult"
            THEN IF m.calls \subseteq acc.open
                 THEN [acc EXCEPT !.kept = Append(@, m), !.open = @ \ m.calls]
                 ELSE acc
            ELSE [kept |-> Append(acc.kept, m), open |-> m.calls]
    IN  FoldLeft(take, [kept |-> <<>>, open |-> {}], history).kept

(* The messages at the positions that Sanitize keeps.                      *)
Sent(history) ==
    LET at == InOrder(Sanitize(history))
    IN  [n \in DOMAIN at |-> history[at[n]]]

(* Histories of up to MaxLength messages, with two calls.                  *)
MaxLength == 5
SomeMessages ==
    {Message("user", {})}
    \cup {Message("assistant", calls) : calls \in SUBSET TwoCalls}
    \cup {Message("toolResult", {c}) : c \in TwoCalls}

(* Sanitize keeps what the loop keeps.                                     *)
ASSUME SanitizeAssumption ==
    \A n \in 0 .. MaxLength : \A history \in [1 .. n -> SomeMessages] :
        Sent(history) = SanitizeLoop(history)

=============================================================================
