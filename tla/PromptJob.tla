------------------------------ MODULE PromptJob ------------------------------
(***************************************************************************)
(* What a durable prompt run promises its session, with no workers, no     *)
(* leases and no retries in it.  A prompt is accepted once; the results of *)
(* its steps are recorded one after the other, in program order, and a     *)
(* recorded result is never taken back; the prompt may be called completed *)
(* only when its last step, or the step that reports an error, has been    *)
(* recorded; and a prompt that has settled is never open again.            *)
(*                                                                         *)
(* SessionRuns implements this with any number of workers that crash,      *)
(* overrun their leases and replay each other's steps.                     *)
(***************************************************************************)
EXTENDS Naturals

CONSTANTS
    Runs,        \* the prompts a session may be given
    FinalStep,   \* steps 0..FinalStep answer a prompt
    ErrorStep    \* the step that reports a failure instead

VARIABLES
    outcome,     \* what has become of each prompt
    recorded     \* the steps whose results are kept, for each prompt

jobVars == <<outcome, recorded>>

Outcomes == {"none", "open", "completed", "error", "cancelled"}

(* A step may be recorded when every step before it has been. *)
InOrder(done, s) == s = ErrorStep \/ 0 .. (s - 1) \subseteq done

Answered(done) == FinalStep \in done \/ ErrorStep \in done

-----------------------------------------------------------------------------

Init ==
    /\ outcome = [r \in Runs |-> "none"]
    /\ recorded = [r \in Runs |-> {}]

Accept(r) ==
    /\ outcome[r] = "none"
    /\ outcome' = [outcome EXCEPT ![r] = "open"]
    /\ UNCHANGED recorded

(* A slow worker may still record a step of a prompt that has settled. *)
Record(r, s) ==
    /\ outcome[r] # "none"
    /\ InOrder(recorded[r], s)
    /\ recorded' = [recorded EXCEPT ![r] = @ \cup {s}]
    /\ UNCHANGED outcome

Complete(r) ==
    /\ outcome[r] = "open"
    /\ Answered(recorded[r])
    /\ outcome' = [outcome EXCEPT ![r] = "completed"]
    /\ UNCHANGED recorded

Fail(r) ==
    /\ outcome[r] = "open"
    /\ outcome' = [outcome EXCEPT ![r] = "error"]
    /\ UNCHANGED recorded

(* The user's abort wins over any outcome, even one reached a moment before. *)
Cancel(r) ==
    /\ outcome[r] # "none"
    /\ outcome' = [outcome EXCEPT ![r] = "cancelled"]
    /\ UNCHANGED recorded

Next ==
    \E r \in Runs :
        \/ Accept(r)
        \/ \E s \in 0 .. FinalStep \cup {ErrorStep} : Record(r, s)
        \/ Complete(r)
        \/ Fail(r)
        \/ Cancel(r)

Spec == Init /\ [][Next]_jobVars

=============================================================================
