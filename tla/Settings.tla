------------------------------ MODULE Settings ------------------------------
(***************************************************************************)
(* The settings of a workspace: its providers and models with the sessions *)
(* that use them, and its egress handlers.  They share the secret broker.  *)
(***************************************************************************)
EXTENDS ModelSettings, EgressHandlers

HandlerRows == {NoRow} \cup [at : {"configured"}, enabled : BOOLEAN, keyed : {TRUE}]

(* A workspace without a provider, whose handlers are unknown or           *)
(* configured; or one with a provider, its model, and that as the default  *)
(* or not.  A session is not there yet or was made while there was no      *)
(* default.                                                                *)
Init ==
    /\ \E p \in Providers, m \in Models, made, chosen \in BOOLEAN :
         /\ provider = [q \in Providers |-> IF made /\ q = p THEN [at |-> "live", refs |-> {"required"}]
                                                             ELSE NoProvider]
         /\ model = [n \in Models |-> IF made /\ n = m THEN [at |-> "live", of |-> p] ELSE NoSuchModel]
         /\ chosen => made
         /\ default = IF chosen THEN m ELSE NoModel
         /\ handler \in [Handlers -> IF made THEN {NoRow} ELSE HandlerRows]
         /\ session \in [Sessions -> {NoSession} \cup
                            IF made /\ ~chosen THEN {[NoSession EXCEPT !.status = "idle"]} ELSE {}]
         /\ secrets = {<<h, "required">> : h \in {g \in Handlers : handler[g].keyed}}
                        \cup (IF made THEN {<<p, "required">>} ELSE {})
    /\ task = [i \in Slots |-> Free]
    /\ requests = 0 /\ mishaps = 0 /\ disturbed = {}

Next ==
    \/ \E i \in Slots :
         \/ PutSecret(i)
         \/ CreateProvider(i) \/ CreateModel(i) \/ CreateModelAndProvider(i) \/ UpdateModel(i)
         \/ RecordRefs(i) \/ Refused(i) \/ InsertModel(i)
         \/ SetWorkspaceDefault(i) \/ ChooseDefault(i) \/ WriteDefault(i)
         \/ DeleteProvider(i) \/ CountSessions(i) \/ ListModels(i) \/ ReadDefault(i)
         \/ DropModels(i) \/ ClearDefault(i) \/ DropProvider(i)
         \/ DeleteModel(i) \/ CountActiveSessionReferences(i) \/ FindModel(i) \/ DropModel(i)
         \/ CreateSession(i) \/ HandleNewSession(i) \/ ResolveModelForNewSession(i) \/ SaveSession(i)
         \/ HandleExistingSession(i) \/ GetHotContext(i) \/ ResolveModelForSession(i)
         \/ SaveHotContext(i) \/ EndRun(i)
         \/ BrokerFails(i) \/ CacheUnavailable(i) \/ RequestLost(i)
         \/ ConfigureEgressHandler(i) \/ SetEgressHandlerEnabled(i) \/ UpsertHandler(i)
         \/ DeleteEgressHandler(i) \/ DeleteSecret(i) \/ RemoveHandler(i)
         \/ RouteOutboundRequest(i) \/ ResolveEgressHandler(i) \/ SendOutbound(i)
         \/ BrokerFailsHandler(i) \/ HandlerRequestLost(i)
    \/ \E s \in Sessions : CloseSession(s)

Spec == Init /\ [][Next]_vars

-----------------------------------------------------------------------------
Kinds == Others \cup Writing \cup {"none", "outbound"}

Places == {"free", "put", "record", "check", "choose", "write", "count", "models", "default",
           "dropModels", "clear", "drop", "find", "resolve", "save", "hot", "load", "cache", "run",
           "fail", "forget", "remove", "send"}

Stages == {"none", "live", "deleted"}
Statuses == {"none", "idle", "processing", "error", "closed"}

SomeModel == Models \cup {NoModel}
HotContexts == {<<>>} \cup {<<m>> : m \in SomeModel}

ProviderRows == [at : Stages, refs : SUBSET Keys]
ModelRows == [at : Stages, of : Providers \cup {Nobody}]
SessionRows == [status : Statuses, model : SomeModel, hot : HotContexts, used : SUBSET SomeModel,
                left : BOOLEAN]
Rows == [at : {"none", "configured"}, enabled : BOOLEAN, keyed : BOOLEAN]
Tasks == [kind : Kinds, at : Places, owner : Providers \cup Handlers \cup {Nobody},
          model : SomeModel, session : Sessions \cup {Nobody}, keys : SUBSET Keys,
          todo : SUBSET Keys, models : SUBSET Models, flag : BOOLEAN]

(* Types of the tables, the broker and the requests under way. *)
TypeOK ==
    /\ provider \in [Providers -> ProviderRows] /\ model \in [Models -> ModelRows]
    /\ default \in SomeModel /\ session \in [Sessions -> SessionRows]
    /\ handler \in [Handlers -> Rows]
    /\ secrets \subseteq (Providers \cup Handlers) \X Keys
    /\ task \in [Slots -> Tasks]
    /\ requests \in Nat /\ mishaps \in Nat
    /\ disturbed \subseteq {"deletion", "refs", "cache", "handler"}

=============================================================================
