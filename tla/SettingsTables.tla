--------------------------- MODULE SettingsTables ---------------------------
(***************************************************************************)
(* The tables that hold the settings of a workspace, the secrets the       *)
(* broker keeps for it, and the requests that read and change them.        *)
(*                                                                         *)
(* A secret is stored under the provider or the egress handler it belongs  *)
(* to; the row of its owner says which of them there are.  Secrets and     *)
(* rows are written one after the other by requests that overlap and that  *)
(* may fail or be lost at any await.                                       *)
(***************************************************************************)
EXTENDS Naturals, FiniteSets

CONSTANTS
    Providers,
    Models,
    NoModel,
    Sessions,
    Handlers,    \* of outgoing requests
    Needy,       \* those of them that cannot do without their secret
    Nobody,
    Slots,       \* requests under way at once
    MaxRequests, \* in all (bound)
    MaxMishaps   \* failures of the broker or the cache, requests lost (bound)

ASSUME SettingsAssumption ==
    /\ NoModel \notin Models
    /\ Providers \cap Handlers = {}
    /\ Nobody \notin Providers \cup Handlers \cup Sessions
    /\ Needy \subseteq Handlers

VARIABLES
    provider,    \* at, and the references to its secrets
    model,       \* at, and its provider
    default,     \* the default model of the workspace
    session,     \* status, model, hot context; used: the models its runs
                 \* have had, left: its model was deleted when it had failed
                 \* or was closed (both history)
    handler,     \* the rows of the egress handlers
    secrets,     \* the owners and keys of the secrets stored
    task,        \* requests under way
    requests,
    mishaps,
    disturbed    \* what has run side by side or was cut off (history)

modelTables == <<provider, model, default, session>>
vars == <<provider, model, default, session, handler, secrets, task, requests, mishaps, disturbed>>

(* A provider needs the first key and may have the second; a handler has   *)
(* only the first.                                                         *)
Keys == {"required", "optional"}

NoProvider == [at |-> "none", refs |-> {}]
NoSuchModel == [at |-> "none", of |-> Nobody]
NoSession == [status |-> "none", model |-> NoModel, hot |-> <<>>, used |-> {}, left |-> FALSE]
NoRow == [at |-> "none", enabled |-> FALSE, keyed |-> FALSE]

Free == [kind |-> "none", at |-> "free", owner |-> Nobody, model |-> NoModel,
         session |-> Nobody, keys |-> {}, todo |-> {}, models |-> {}, flag |-> FALSE]

At(i, kinds, place) == task[i].kind \in kinds /\ task[i].at = place

Beside(i) == {j \in Slots \ {i} : task[j].at # "free"}

Goes(i, place) == task' = [task EXCEPT ![i].at = place]
Ends(i) == task' = [task EXCEPT ![i] = Free]

Starts(i, what) ==
    /\ task[i].at = "free" /\ requests < MaxRequests
    /\ requests' = requests + 1
    /\ task' = [task EXCEPT ![i] = what]
    /\ UNCHANGED <<secrets, mishaps>>

Mishap ==
    /\ mishaps < MaxMishaps
    /\ mishaps' = mishaps + 1
    /\ UNCHANGED requests

RequiredGiven(keys) == "required" \in keys

(* The broker answers for sessions that are not closed.                    *)
Authorized(s) == session[s].status # "closed"

Holds(owner, k) == <<owner, k>> \in secrets

(* One secret after the other; what is stored already stays if a later one *)
(* fails.                                                                  *)
Stored(owner, k) == secrets \cup {<<owner, k>>}
Forgotten(owner) == {x \in secrets : x[1] # owner}

PutSecret(i) ==
    /\ task[i].at = "put"
    /\ \E k \in task[i].todo :
         /\ secrets' = Stored(task[i].owner, k)
         /\ task' = [task EXCEPT ![i].todo = @ \ {k},
                                 ![i].at = IF task[i].todo = {k} THEN "record" ELSE @]
    /\ UNCHANGED <<modelTables, handler, requests, mishaps, disturbed>>

=============================================================================
