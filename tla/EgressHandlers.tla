--------------------------- MODULE EgressHandlers ---------------------------
(***************************************************************************)
(* Egress handlers: configured, switched on and off and deleted by         *)
(* requests, and read by each outgoing request of a container, which they  *)
(* give the token of the workspace.                                        *)
(*                                                                         *)
(* A write reads the row, stores or forgets the secret through the broker  *)
(* and writes the row whole; a deletion goes on when the broker fails.     *)
(***************************************************************************)
EXTENDS SettingsTables

Writing == {"configure", "toggle", "remove"}

AtRest(h) == \A j \in Slots : ~(task[j].kind \in Writing /\ task[j].owner = h)

BeginsOn(i, what) ==
    /\ Starts(i, what)
    /\ disturbed' = disturbed \cup (IF what.kind \in Writing /\ ~AtRest(what.owner) THEN {"handler"} ELSE {})
    /\ UNCHANGED <<modelTables, handler>>

HandlersSame == UNCHANGED <<modelTables, requests, mishaps, disturbed>>

-----------------------------------------------------------------------------
(* A faulty variant of KeptKeys: switching writes a fresh row.             *)
KeptKeysNone(h) == {}

-----------------------------------------------------------------------------
KeptKeys(h) == IF handler[h].keyed THEN {"required"} ELSE {}

SecretsSuffice(h, given) == h \in Needy => RequiredGiven(given) \/ handler[h].keyed

(* With a secret or without, switched on unless asked otherwise.           *)
ConfigureRequest(h, given, enabled) ==
    [Free EXCEPT !.kind = "configure", !.owner = h, !.todo = given, !.flag = enabled,
                 !.keys = given \cup (IF handler[h].keyed THEN {"required"} ELSE {}),
                 !.at = IF given = {} THEN "record" ELSE "put"]

ToggleRequest(h, enabled) ==
    [Free EXCEPT !.kind = "toggle", !.at = "record", !.owner = h, !.flag = enabled, !.keys = KeptKeys(h)]

RemovalRequest(h) ==
    [Free EXCEPT !.kind = "remove", !.owner = h, !.at = IF handler[h].keyed THEN "forget" ELSE "remove"]

ConfigureEgressHandler(i) ==
    \E h \in Handlers, given \in SUBSET {"required"}, enabled \in BOOLEAN :
      SecretsSuffice(h, given) /\ BeginsOn(i, ConfigureRequest(h, given, enabled))

(* Any handler of the catalogue, configured or not.                        *)
SetEgressHandlerEnabled(i) ==
    \E h \in Handlers, enabled \in BOOLEAN :
      BeginsOn(i, ToggleRequest(h, enabled))

UpsertHandler(i) ==
    /\ At(i, {"configure", "toggle"}, "record")
    /\ handler' = [handler EXCEPT ![task[i].owner] =
                     [at |-> "configured", enabled |-> task[i].flag, keyed |-> task[i].keys # {}]]
    /\ Ends(i)
    /\ HandlersSame /\ UNCHANGED secrets

DeleteEgressHandler(i) ==
    \E h \in Handlers :
      /\ handler[h].at = "configured"
      /\ BeginsOn(i, RemovalRequest(h))

DeleteSecret(i) ==
    /\ At(i, {"remove"}, "forget")
    /\ secrets' = Forgotten(task[i].owner)
    /\ Goes(i, "remove")
    /\ HandlersSame /\ UNCHANGED handler

RemoveHandler(i) ==
    /\ At(i, {"remove"}, "remove")
    /\ handler' = [handler EXCEPT ![task[i].owner] = NoRow]
    /\ Ends(i)
    /\ HandlersSame /\ UNCHANGED secrets

-----------------------------------------------------------------------------
Listed(h) == handler[h].enabled

(* The handler of the host is looked for among those listed first; one     *)
(* that is not is used all the same, without a secret.  flag: it was       *)
(* switched on (history).                                                  *)
RouteOutboundRequest(i) ==
    \E h \in Handlers :
      LET refs == IF Listed(h) THEN KeptKeys(h) ELSE {}
      IN  BeginsOn(i, [Free EXCEPT !.kind = "outbound", !.owner = h, !.keys = refs,
                                   !.flag = handler[h].enabled,
                                   !.at = IF \E g \in Handlers : Listed(g) /\ handler[g].keyed
                                            THEN "resolve" ELSE "send"])

(* The secrets of every handler listed up to this one; a secret that is    *)
(* not found is left out.                                                  *)
ResolveEgressHandler(i) ==
    /\ At(i, {"outbound"}, "resolve")
    /\ task' = [task EXCEPT ![i].at = "send",
                            ![i].keys = {k \in @ : Holds(task[i].owner, k)}]
    /\ HandlersSame /\ UNCHANGED <<handler, secrets>>

(* The handler adds the token to the headers.                              *)
Carries(i) == RequiredGiven(task[i].keys)

SendOutbound(i) ==
    /\ At(i, {"outbound"}, "send")
    /\ Ends(i)
    /\ HandlersSame /\ UNCHANGED <<handler, secrets>>

-----------------------------------------------------------------------------
(* A request that stores ends, and so does an outgoing one; a deletion     *)
(* goes on, and leaves the secret.                                         *)
BrokerFailsHandler(i) ==
    /\ At(i, {"configure"}, "put") \/ At(i, {"remove"}, "forget") \/ At(i, {"outbound"}, "resolve")
    /\ Mishap
    /\ IF task[i].kind = "remove"
         THEN Goes(i, "remove") /\ disturbed' = disturbed \cup {"handler"}
         ELSE Ends(i) /\ UNCHANGED disturbed
    /\ UNCHANGED <<modelTables, handler, secrets>>

HandlerRequestLost(i) ==
    /\ task[i].kind \in Writing \cup {"outbound"}
    /\ Mishap
    /\ Ends(i)
    /\ disturbed' = disturbed \cup (IF task[i].kind \in Writing THEN {"handler"} ELSE {})
    /\ UNCHANGED <<modelTables, handler, secrets>>

-----------------------------------------------------------------------------
SecretsMatchRows ==
    \A h \in Handlers : AtRest(h) => (Holds(h, "required") <=> handler[h].keyed)

TokensOnlyOfEnabled ==
    \A i \in Slots : At(i, {"outbound"}, "send") /\ Carries(i) => task[i].flag

(* The secret of a handler is stored as long as its row refers to it and   *)
(* no longer, however often it is configured, switched and deleted, and an *)
(* outgoing request carries it only if the handler was on when the request *)
(* began.  The former cannot be had if two requests write one handler at   *)
(* once, one is cut off, or the broker fails a deletion.                   *)
TokensFollowHandlersUndisturbed ==
    /\ "handler" \in disturbed \/ SecretsMatchRows
    /\ TokensOnlyOfEnabled

=============================================================================
