--------------------------- MODULE ModelSettings ----------------------------
(***************************************************************************)
(* Providers, their models, the default model of the workspace, and the    *)
(* sessions that use them.                                                 *)
(*                                                                         *)
(* Every statement on the database is a step.  A deletion looks for        *)
(* sessions first and deletes later; a session or a default may come to    *)
(* the model in between.  A session keeps the model it has used first in   *)
(* its hot context.                                                        *)
(***************************************************************************)
EXTENDS SettingsTables

LiveProvider(p) == p \in Providers /\ provider[p].at = "live"

(* A model is found if neither it nor its provider has been deleted.       *)
LiveModel(m) == m \in Models /\ model[m].at = "live" /\ LiveProvider(model[m].of)

Using(ms, statuses) ==
    {s \in Sessions : session[s].model \in ms /\ session[s].status \in statuses}

ModelsOf(p) == {m \in Models : model[m].at = "live" /\ model[m].of = p}

(* Sessions that keep their model from being deleted.                      *)
ActiveSessions(ms) == Using(ms, {"idle", "processing"})

Deletions == {"dropProvider", "dropModel"}
Writers == {"provider", "model", "update"}
Others == Writers \cup Deletions \cup {"default", "session", "run"}

(* What a request that starts has been disturbed by.                       *)
Disturbs(i, kind, p) ==
    LET beside == {task[j].kind : j \in Beside(i)} \cap Others
        same   == {j \in Beside(i) : task[j].kind \in Writers /\ task[j].owner = p}
    IN  (IF beside # {} /\ (beside \cup {kind}) \cap Deletions # {} THEN {"deletion"} ELSE {})
          \cup (IF kind \in Writers /\ same # {} THEN {"refs"} ELSE {})

Begins(i, what) ==
    /\ Starts(i, what)
    /\ disturbed' = disturbed \cup Disturbs(i, what.kind, what.owner)
    /\ UNCHANGED handler

Same == UNCHANGED <<requests, mishaps, secrets, handler, disturbed>>

-----------------------------------------------------------------------------
(* Faulty variants, each of which breaks a property when it stands in the  *)
(* place of the definition named.                                          *)

(* DefaultGoes: the deleted models are listed after they are deleted.      *)
DefaultGoesUnlessDeleted(i) == default \in ModelsOf(task[i].owner)

(* HasKey: a provider given is taken to be complete.                       *)
HasKeyIfLive(i) == LiveProvider(task[i].owner)

(* Cached: a hot context without a model counts as none.                   *)
CachedWithModel(s) == session[s].hot # <<>> /\ session[s].hot # <<NoModel>>

-----------------------------------------------------------------------------
(* Providers and models are made and changed.                              *)

(* Identifiers are random.                                                 *)
Unused(m) == model[m] = NoSuchModel /\ \A j \in Slots : task[j].model # m

InsertProvider(p) == provider' = [provider EXCEPT ![p] = [at |-> "live", refs |-> {}]]

(* The secrets are stored one by one, then recorded, then a model is made, *)
(* which may be the new default.                                           *)
ProviderRequest(p, m, keys, flag) ==
    [Free EXCEPT !.kind = "provider", !.at = "put", !.owner = p, !.model = m,
                 !.todo = keys, !.keys = keys, !.flag = flag]

ModelRequest(p, m, keys, refs, flag) ==
    [Free EXCEPT !.kind = "model", !.at = IF keys = {} THEN "check" ELSE "put", !.owner = p,
                 !.model = m, !.todo = keys, !.keys = keys \cup refs, !.flag = flag]

UpdateRequest(p, keys) ==
    [Free EXCEPT !.kind = "update", !.at = "put", !.owner = p, !.todo = keys,
                 !.keys = keys \cup provider[p].refs]

CreateProvider(i) ==
    \E p \in Providers, m \in Models \cup {NoModel}, keys \in SUBSET Keys, flag \in BOOLEAN :
      /\ provider[p] = NoProvider /\ RequiredGiven(keys)
      /\ m \in Models => Unused(m)
      /\ flag => m \in Models
      /\ Begins(i, ProviderRequest(p, m, keys, flag))
      /\ InsertProvider(p)
      /\ UNCHANGED <<model, default, session>>

(* On a provider there is, with or without further keys.                   *)
CreateModel(i) ==
    \E p \in Providers, m \in Models, keys \in SUBSET Keys, flag \in BOOLEAN :
      /\ LiveProvider(p) /\ Unused(m)
      /\ Begins(i, ModelRequest(p, m, keys, provider[p].refs, flag))
      /\ UNCHANGED modelTables

(* With a provider of its own.                                             *)
CreateModelAndProvider(i) ==
    \E p \in Providers, m \in Models, keys \in SUBSET Keys, flag \in BOOLEAN :
      /\ provider[p] = NoProvider /\ RequiredGiven(keys) /\ Unused(m)
      /\ Begins(i, ModelRequest(p, m, keys, {}, flag))
      /\ InsertProvider(p)
      /\ UNCHANGED <<model, default, session>>

(* New keys for the provider of a model.                                   *)
UpdateModel(i) ==
    \E m \in Models, keys \in SUBSET Keys \ {{}} :
      /\ LiveModel(m) /\ RequiredGiven(keys \cup provider[model[m].of].refs)
      /\ Begins(i, UpdateRequest(model[m].of, keys))
      /\ UNCHANGED modelTables

(* The references as the request knows them replace those of the row.      *)
RecordRefs(i) ==
    LET p == task[i].owner
    IN  /\ At(i, Writers, "record")
        /\ IF LiveProvider(p)
             THEN /\ provider' = [provider EXCEPT ![p].refs = task[i].keys]
                  /\ IF task[i].kind = "update" \/ task[i].model = NoModel
                       THEN Ends(i) ELSE Goes(i, "check")
             ELSE Ends(i) /\ UNCHANGED provider
        /\ Same /\ UNCHANGED <<model, default, session>>

(* A model that is asked for with a provider, or a provider with no key    *)
(* for it: the first is not in the catalogue or the second has not all     *)
(* that is required.                                                       *)
HasKey(i) == RequiredGiven(provider[task[i].owner].refs)

Refused(i) ==
    /\ At(i, {"provider", "model"}, "check")
    /\ task[i].kind = "provider" \/ ~HasKey(i)
    /\ Ends(i)
    /\ Same /\ UNCHANGED modelTables

InsertModel(i) ==
    LET m == task[i].model
    IN  /\ At(i, {"provider", "model"}, "check")
        /\ task[i].kind = "model" => HasKey(i)
        /\ model' = [model EXCEPT ![m] = [at |-> "live", of |-> task[i].owner]]
        /\ IF task[i].flag /\ LiveProvider(task[i].owner)
             THEN Goes(i, "choose") ELSE Ends(i)
        /\ Same /\ UNCHANGED <<provider, default, session>>

MayBeDefault(m) == m \in Models => LiveModel(m)

SetWorkspaceDefault(i) ==
    \E m \in Models \cup {NoModel} :
      /\ MayBeDefault(m)
      /\ Begins(i, [Free EXCEPT !.kind = "default", !.at = "write", !.model = m])
      /\ UNCHANGED modelTables

(* The model just made is looked for like any other.                       *)
ChooseDefault(i) ==
    /\ At(i, {"provider", "model"}, "choose")
    /\ IF MayBeDefault(task[i].model) THEN Goes(i, "write") ELSE Ends(i)
    /\ Same /\ UNCHANGED modelTables

WriteDefault(i) ==
    /\ At(i, {"provider", "model", "default"}, "write")
    /\ default' = task[i].model
    /\ Ends(i)
    /\ Same /\ UNCHANGED <<provider, model, session>>

-----------------------------------------------------------------------------
(* Deletions.                                                              *)

DeleteProvider(i) ==
    \E p \in Providers :
      /\ LiveProvider(p)
      /\ Begins(i, [Free EXCEPT !.kind = "dropProvider", !.at = "count", !.owner = p])
      /\ UNCHANGED modelTables

CountSessions(i) ==
    /\ At(i, {"dropProvider"}, "count")
    /\ IF ActiveSessions(ModelsOf(task[i].owner)) = {} THEN Goes(i, "models") ELSE Ends(i)
    /\ Same /\ UNCHANGED modelTables

ListModels(i) ==
    /\ At(i, {"dropProvider"}, "models")
    /\ task' = [task EXCEPT ![i].models = ModelsOf(task[i].owner), ![i].at = "default"]
    /\ Same /\ UNCHANGED modelTables

ReadDefault(i) ==
    /\ At(i, {"dropProvider"}, "default")
    /\ task' = [task EXCEPT ![i].model = default, ![i].at = "dropModels"]
    /\ Same /\ UNCHANGED modelTables

(* Sessions that have failed or were closed do not keep their model.       *)
LeftBehind(ms) ==
    session' = [s \in Sessions |->
                  IF s \in Using(ms, {"error", "closed"}) THEN [session[s] EXCEPT !.left = TRUE] ELSE session[s]]

DropModels(i) ==
    LET gone == ModelsOf(task[i].owner)
    IN  /\ At(i, {"dropProvider"}, "dropModels")
        /\ model' = [m \in Models |-> IF m \in gone THEN [model[m] EXCEPT !.at = "deleted"] ELSE model[m]]
        /\ LeftBehind(gone)
        /\ Goes(i, "clear")
        /\ Same /\ UNCHANGED <<provider, default>>

DefaultGoes(i) == task[i].model \in task[i].models

ClearDefault(i) ==
    /\ At(i, {"dropProvider"}, "clear")
    /\ default' = IF DefaultGoes(i) THEN NoModel ELSE default
    /\ Goes(i, "drop")
    /\ Same /\ UNCHANGED <<provider, model, session>>

DropProvider(i) ==
    /\ At(i, {"dropProvider"}, "drop")
    /\ provider' = [provider EXCEPT ![task[i].owner].at = "deleted"]
    /\ Ends(i)
    /\ Same /\ UNCHANGED <<model, default, session>>

Deletable(m) == m # default

DeleteModel(i) ==
    \E m \in Models :
      /\ model[m].at # "none" /\ Deletable(m)
      /\ Begins(i, [Free EXCEPT !.kind = "dropModel", !.at = "count", !.model = m])
      /\ UNCHANGED modelTables

CountActiveSessionReferences(i) ==
    /\ At(i, {"dropModel"}, "count")
    /\ IF ActiveSessions({task[i].model}) = {} THEN Goes(i, "find") ELSE Ends(i)
    /\ Same /\ UNCHANGED modelTables

FindModel(i) ==
    /\ At(i, {"dropModel"}, "find")
    /\ IF LiveModel(task[i].model) THEN Goes(i, "drop") ELSE Ends(i)
    /\ Same /\ UNCHANGED modelTables

DropModel(i) ==
    LET m == task[i].model
    IN  /\ At(i, {"dropModel"}, "drop")
        /\ model' = [model EXCEPT ![m].at = "deleted"]
        /\ LeftBehind({m})
        /\ Ends(i)
        /\ Same /\ UNCHANGED <<provider, default>>

-----------------------------------------------------------------------------
(* Sessions.                                                               *)

(* The model asked for, or the default as it is read.                      *)
Asked(m) == IF m \in Models THEN m ELSE default

SessionRequest(s, m, prompt) ==
    [Free EXCEPT !.kind = "session", !.at = "resolve", !.session = s, !.flag = prompt,
                 !.model = Asked(m), !.models = {m} \cap Models]

AsksForSession(i, prompt) ==
    \E s \in Sessions, m \in Models \cup {NoModel} :
      /\ session[s].status = "none" /\ \A j \in Slots : task[j].session # s
      /\ m \in Models => LiveModel(m)
      /\ Begins(i, SessionRequest(s, m, prompt))
      /\ UNCHANGED modelTables

CreateSession(i) == AsksForSession(i, FALSE)

(* A prompt for no session makes one.                                      *)
HandleNewSession(i) == AsksForSession(i, TRUE)

Resolves(m) ==
    /\ LiveModel(m)
    /\ RequiredGiven(provider[model[m].of].refs)
    /\ Holds(model[m].of, "required")

(* A default that is not found is no model: that will do for a session     *)
(* without a prompt.  It is looked for twice, and may be gone the second   *)
(* time only.                                                              *)
ResolveModelForNewSession(i) ==
    LET m == task[i].model
        byDefault == task[i].models = {}
    IN  /\ At(i, {"session"}, "resolve")
        /\ \/ Resolves(m) /\ Goes(i, "save")
           \/ ~LiveModel(m) /\ byDefault /\ ~task[i].flag
                /\ task' = [task EXCEPT ![i].model = NoModel, ![i].at = "save"]
           \/ ~Resolves(m) /\ (m = NoModel => task[i].flag) /\ Ends(i)
        /\ Same /\ UNCHANGED modelTables

SaveSession(i) ==
    LET s == task[i].session
    IN  /\ At(i, {"session"}, "save")
        /\ session' = [session EXCEPT ![s].model = task[i].model,
                                      ![s].status = IF task[i].flag THEN "processing" ELSE "idle"]
        /\ task' = [task EXCEPT ![i] = IF task[i].flag
                                         THEN [Free EXCEPT !.kind = "run", !.at = "hot", !.session = s]
                                         ELSE Free]
        /\ Same /\ UNCHANGED <<provider, model, default>>

(* A prompt to a session that is neither closed nor busy.                  *)
HandleExistingSession(i) ==
    \E s \in Sessions :
      /\ session[s].status \in {"idle", "error"}
      /\ Begins(i, [Free EXCEPT !.kind = "run", !.at = "hot", !.session = s])
      /\ session' = [session EXCEPT ![s].status = "processing"]
      /\ UNCHANGED <<provider, model, default>>

Cached(s) == session[s].hot # <<>>

GetHotContext(i) ==
    LET s == task[i].session
    IN  /\ At(i, {"run"}, "hot")
        /\ task' = IF Cached(s) THEN [task EXCEPT ![i].at = "run", ![i].model = session[s].hot[1]]
                                ELSE [task EXCEPT ![i].at = "load"]
        /\ Same /\ UNCHANGED modelTables

(* The model of the session, or else the default.                          *)
ModelOf(s) ==
    IF session[s].model \in Models THEN session[s].model
      ELSE IF LiveModel(default) THEN default ELSE NoModel

ResolveModelForSession(i) ==
    LET s == task[i].session
        m == ModelOf(s)
    IN  /\ At(i, {"run"}, "load")
        /\ IF m = NoModel \/ (Resolves(m) /\ Authorized(s))
             THEN task' = [task EXCEPT ![i].model = m, ![i].at = "cache"]
             ELSE Goes(i, "fail")
        /\ Same /\ UNCHANGED modelTables

SaveHotContext(i) ==
    /\ At(i, {"run"}, "cache")
    /\ session' = [session EXCEPT ![task[i].session].hot = <<task[i].model>>]
    /\ Goes(i, "run")
    /\ Same /\ UNCHANGED <<provider, model, default>>

(* A worker that finds itself cancelled may set a closed session idle.     *)
EndRun(i) ==
    LET s    == task[i].session
        ends == IF task[i].at = "run" THEN {"idle", "error"} ELSE {"error"}
    IN  /\ task[i].kind = "run" /\ task[i].at \in {"run", "fail"}
        /\ \E status \in ends \cup ({session[s].status} \cap {"closed"}) :
             session' = [session EXCEPT ![s].status = status,
                                        ![s].used = IF task[i].at = "run" THEN @ \cup {task[i].model} ELSE @]
        /\ Ends(i)
        /\ Same /\ UNCHANGED <<provider, model, default>>

CloseSession(s) ==
    /\ session[s].status \in {"idle", "processing", "error"}
    /\ session' = [session EXCEPT ![s].status = "closed"]
    /\ UNCHANGED <<task, provider, model, default>>
    /\ Same

-----------------------------------------------------------------------------
(* The broker refuses, and the request with it; a run reports the error.   *)
BrokerFails(i) ==
    /\ At(i, Writers, "put") \/ At(i, {"session"}, "resolve") \/ At(i, {"run"}, "load")
    /\ Mishap
    /\ IF task[i].kind = "run" THEN Goes(i, "fail") ELSE Ends(i)
    /\ UNCHANGED <<secrets, modelTables, handler, disturbed>>

CacheUnavailable(i) ==
    /\ task[i].kind = "run" /\ task[i].at \in {"hot", "cache"}
    /\ Mishap
    /\ Goes(i, IF task[i].at = "hot" THEN "load" ELSE "run")
    /\ disturbed' = disturbed \cup {"cache"}
    /\ UNCHANGED <<secrets, modelTables, handler>>

(* The worker is lost with the request; a run is taken up again.           *)
RequestLost(i) ==
    /\ task[i].kind \in Others
    /\ Mishap
    /\ task' = [task EXCEPT ![i] = IF @.kind = "run" THEN [@ EXCEPT !.at = "hot", !.model = NoModel] ELSE Free]
    /\ disturbed' = disturbed \cup (IF task[i].kind \in Deletions THEN {"deletion"} ELSE {})
    /\ UNCHANGED <<secrets, modelTables, handler>>

-----------------------------------------------------------------------------
(* The default model, and the model of a session that has not ended, can   *)
(* be found whenever no provider is being deleted, whatever was made and   *)
(* deleted in whatever order and whatever failed, unless a deletion ran    *)
(* beside another request or was cut off, or the session had failed or was *)
(* closed when its model was deleted.                                      *)
ModelsInUseAreLiveUndisturbed ==
    \/ "deletion" \in disturbed \/ \E i \in Slots : task[i].kind = "dropProvider"
    \/ /\ default \in Models => LiveModel(default)
       /\ \A s \in Sessions :
            session[s].status \in {"idle", "processing"} /\ session[s].model \in Models /\ ~session[s].left
              => LiveModel(session[s].model)

(* A model that can be chosen can be used: the key its provider requires   *)
(* is recorded and stored, though providers are recorded before their keys *)
(* and either may fail, unless two requests wrote the references of one    *)
(* provider at once.                                                       *)
LiveModelsHaveTheirKeyUndisturbed ==
    "refs" \in disturbed \/ \A m \in Models : LiveModel(m) => Resolves(m)

(* All runs of a session have the same model, or all have none, whatever   *)
(* becomes of the model and of the default meanwhile, as long as the hot   *)
(* context can be read and written.                                        *)
OneModelPerSessionUndisturbed ==
    "cache" \in disturbed \/ \A s \in Sessions : Cardinality(session[s].used) <= 1

=============================================================================
