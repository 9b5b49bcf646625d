--------------------------- MODULE SettingsProofs ---------------------------
(***************************************************************************)
(* Proofs about the settings: their types, the secrets of the handlers,    *)
(* the keys of the providers, the models of the sessions.                  *)
(*                                                                         *)
(* Each invariant speaks of the tables and of what the requests under way  *)
(* have read of them.  A first part shows, for every action, what becomes  *)
(* of the request that takes it (lemmas ...Moves); the invariants follow   *)
(* one by one from these.                                                  *)
(***************************************************************************)
EXTENDS Settings, FiniteSetTheorems, TLAPS

-----------------------------------------------------------------------------
(* Types.                                                                  *)

(* What a request of each kind is about, and the statements it comes to.   *)
TaskOk(q) ==
    /\ q.kind = "none" <=> q.at = "free"
    /\ q.kind \in Writers => q.owner \in Providers /\ q.at \in {"put", "record", "check", "choose", "write"}
    /\ q.kind \in {"provider", "model"} /\ q.at # "put" /\ q.at # "record" => q.model \in Models
    /\ q.kind = "update" => q.at \in {"put", "record"}
    /\ q.kind = "default" => q.at = "write"
    /\ q.kind = "dropProvider" =>
          q.owner \in Providers /\ q.at \in {"count", "models", "default", "dropModels", "clear", "drop"}
    /\ q.kind = "dropModel" => q.model \in Models /\ q.at \in {"count", "find", "drop"}
    /\ q.kind = "session" => q.session \in Sessions /\ q.at \in {"resolve", "save"}
    /\ q.kind = "run" => q.session \in Sessions /\ q.at \in {"hot", "load", "cache", "run", "fail"}
    /\ q.kind = "configure" => q.owner \in Handlers /\ q.at \in {"put", "record"}
    /\ q.kind = "toggle" => q.owner \in Handlers /\ q.at = "record"
    /\ q.kind = "remove" => q.owner \in Handlers /\ q.at \in {"forget", "remove"}
    /\ q.kind = "outbound" => q.owner \in Handlers /\ q.at \in {"resolve", "send"}

ShapeInv == TypeOK /\ \A i \in Slots : TaskOk(task[i])

(* One request takes a step.                                               *)
Only(i) == \A j \in Slots \ {i} : task'[j] = task[j]

(* Which request it is, whatever statement it has come to.                 *)
Went(i, place) ==
    /\ task'[i].at = place
    /\ task'[i].kind = task[i].kind /\ task'[i].owner = task[i].owner
    /\ task'[i].model = task[i].model /\ task'[i].session = task[i].session
    /\ task'[i].keys = task[i].keys /\ task'[i].todo = task[i].todo
    /\ task'[i].models = task[i].models /\ task'[i].flag = task[i].flag

LEMMA FreeFacts ==
    /\ Free \in Tasks /\ TaskOk(Free)
    /\ Free.kind = "none" /\ Free.at = "free" /\ Free.session = Nobody
  BY DEF Free, Tasks, TaskOk, Kinds, Places, SomeModel, Others, Writers, Deletions, Writing, Keys

LEMMA EndsMoves ==
    ASSUME task \in [Slots -> Tasks], NEW i \in Slots, Ends(i)
    PROVE  task' \in [Slots -> Tasks] /\ Only(i) /\ task'[i] = Free
  BY FreeFacts DEF Ends, Only

LEMMA GoesMoves ==
    ASSUME task \in [Slots -> Tasks], NEW i \in Slots, NEW place \in Places, Goes(i, place)
    PROVE  task' \in [Slots -> Tasks] /\ Only(i) /\ Went(i, place)
  <1>1. task' = [task EXCEPT ![i] = [task[i] EXCEPT !.at = place]]  BY DEF Goes
  <1>2. task[i] \in Tasks  OBVIOUS
  <1>3. [task[i] EXCEPT !.at = place] \in Tasks  BY <1>2 DEF Tasks
  <1>4. task' \in [Slots -> Tasks] /\ Only(i) /\ task'[i] = [task[i] EXCEPT !.at = place]
    BY <1>1, <1>3 DEF Only
  <1>5. Went(i, place)  BY <1>4, <1>2 DEF Went, Tasks
  <1> QED  BY <1>4, <1>5

LEMMA ChangeMoves ==
    ASSUME task \in [Slots -> Tasks], NEW i \in Slots, NEW q \in Tasks, task' = [task EXCEPT ![i] = q]
    PROVE  task' \in [Slots -> Tasks] /\ Only(i) /\ task'[i] = q
  BY DEF Only

LEMMA StartsMoves ==
    ASSUME ShapeInv, NEW i \in Slots, NEW q \in Tasks, Starts(i, q)
    PROVE  /\ task' \in [Slots -> Tasks] /\ Only(i) /\ task'[i] = q
           /\ task[i].at = "free" /\ task[i].kind = "none"
           /\ requests' \in Nat /\ UNCHANGED <<secrets, mishaps>>
  BY DEF Starts, Only, ShapeInv, TypeOK, TaskOk

(* The shape is kept if the tables stay what they are and the request that *)
(* takes the step is one again.                                            *)
LEMMA ShapeKept ==
    ASSUME ShapeInv, NEW i \in Slots, Only(i), task' \in [Slots -> Tasks], TaskOk(task'[i]),
           provider' \in [Providers -> ProviderRows], model' \in [Models -> ModelRows],
           default' \in SomeModel, session' \in [Sessions -> SessionRows],
           handler' \in [Handlers -> Rows], secrets' \subseteq (Providers \cup Handlers) \X Keys,
           requests' \in Nat, mishaps' \in Nat,
           disturbed' \subseteq {"deletion", "refs", "cache", "handler"}
    PROVE  ShapeInv'
  <1>1. TypeOK'  BY DEF TypeOK
  <1>2. ASSUME NEW j \in Slots PROVE TaskOk(task'[j])
    <2>1. CASE j = i  BY <2>1
    <2>2. CASE j # i  BY <2>2 DEF Only, ShapeInv
    <2> QED  BY <2>1, <2>2
  <1> QED  BY <1>1, <1>2 DEF ShapeInv

(* The tables a request leaves alone.                                      *)
LEMMA TablesKept ==
    ASSUME ShapeInv, NEW i \in Slots, Only(i), task' \in [Slots -> Tasks], TaskOk(task'[i]),
           UNCHANGED <<modelTables, handler, secrets>>, requests' \in Nat, mishaps' \in Nat,
           disturbed' \subseteq {"deletion", "refs", "cache", "handler"}
    PROVE  ShapeInv'
  BY ShapeKept DEF ShapeInv, TypeOK, modelTables

LEMMA MishapCounts == ASSUME ShapeInv, Mishap PROVE mishaps' \in Nat /\ requests' = requests
  BY DEF Mishap, ShapeInv, TypeOK

(* What a request is that has begun.                                       *)
Began(i, kind, place) ==
    /\ Only(i) /\ task[i].at = "free" /\ task[i].kind = "none"
    /\ task'[i].kind = kind /\ task'[i].at = place

LEMMA BeginsMoves ==
    ASSUME ShapeInv, NEW i \in Slots, NEW q \in Tasks, Begins(i, q)
    PROVE  /\ task' \in [Slots -> Tasks] /\ task'[i] = q /\ Began(i, q.kind, q.at)
           /\ UNCHANGED <<secrets, handler, mishaps>> /\ requests' \in Nat
           /\ disturbed' = disturbed \cup Disturbs(i, q.kind, q.owner)
           /\ disturbed' \subseteq {"deletion", "refs", "cache", "handler"}
  <1>1. Starts(i, q) /\ disturbed' = disturbed \cup Disturbs(i, q.kind, q.owner) /\ UNCHANGED handler
    BY DEF Begins
  <1>2. Disturbs(i, q.kind, q.owner) \subseteq {"deletion", "refs"}  BY DEF Disturbs
  <1> QED  BY <1>1, <1>2, StartsMoves DEF Began, ShapeInv, TypeOK

LEMMA BeginsOnMoves ==
    ASSUME ShapeInv, NEW i \in Slots, NEW q \in Tasks, BeginsOn(i, q)
    PROVE  /\ task' \in [Slots -> Tasks] /\ task'[i] = q /\ Began(i, q.kind, q.at)
           /\ UNCHANGED <<secrets, handler, modelTables, mishaps>> /\ requests' \in Nat
           /\ disturbed' = disturbed \cup (IF q.kind \in Writing /\ ~AtRest(q.owner) THEN {"handler"} ELSE {})
           /\ disturbed' \subseteq {"deletion", "refs", "cache", "handler"}
  BY StartsMoves DEF BeginsOn, Began, ShapeInv, TypeOK

-----------------------------------------------------------------------------
(* What each action does to the request that takes it: providers and       *)
(* models.                                                                 *)

LEMMA InsertProviderMoves ==
    ASSUME ShapeInv, NEW p \in Providers, InsertProvider(p)
    PROVE  /\ provider' \in [Providers -> ProviderRows]
           /\ provider'[p] = [at |-> "live", refs |-> {}]
           /\ \A q \in Providers \ {p} : provider'[q] = provider[q]
  BY DEF InsertProvider, ShapeInv, TypeOK, ProviderRows, Stages

LEMMA CreateProviderMoves ==
    ASSUME ShapeInv, NEW i \in Slots, CreateProvider(i)
    PROVE  /\ ShapeInv' /\ Began(i, "provider", "put")
           /\ \E p \in Providers, keys \in SUBSET Keys :
                 /\ task'[i].owner = p /\ task'[i].keys = keys /\ task'[i].todo = keys
                 /\ task'[i].session = Nobody
                 /\ "required" \in keys /\ provider[p] = NoProvider
                 /\ provider'[p] = [at |-> "live", refs |-> {}]
                 /\ \A q \in Providers \ {p} : provider'[q] = provider[q]
                 /\ disturbed' = disturbed \cup Disturbs(i, "provider", p)
           /\ UNCHANGED <<model, default, session, handler, secrets>>
  <1>1. PICK p \in Providers, m \in SomeModel, keys \in SUBSET Keys, flag \in BOOLEAN :
          /\ provider[p] = NoProvider /\ RequiredGiven(keys)
          /\ Begins(i, ProviderRequest(p, m, keys, flag)) /\ InsertProvider(p)
          /\ UNCHANGED <<model, default, session>>
    BY DEF CreateProvider, SomeModel
  <1> DEFINE q == ProviderRequest(p, m, keys, flag)
  <1>2. /\ q \in Tasks /\ TaskOk(q) /\ q.kind = "provider" /\ q.at = "put" /\ q.owner = p
        /\ q.keys = keys /\ q.todo = keys /\ q.session = Nobody
    BY DEF ProviderRequest, Free, Tasks, TaskOk, Kinds, Places, Others, Writers, Deletions, Writing
  <1> HIDE DEF q
  <1>3. /\ task' \in [Slots -> Tasks] /\ task'[i] = q /\ Began(i, "provider", "put")
        /\ UNCHANGED <<secrets, handler, mishaps>> /\ requests' \in Nat
        /\ disturbed' = disturbed \cup Disturbs(i, "provider", p)
        /\ disturbed' \subseteq {"deletion", "refs", "cache", "handler"}
    BY <1>1, <1>2, BeginsMoves DEF q
  <1>4. ShapeInv'  BY <1>1, <1>2, <1>3, InsertProviderMoves, ShapeKept DEF ShapeInv, TypeOK, Began
  <1> QED  BY <1>1, <1>2, <1>3, <1>4, InsertProviderMoves DEF RequiredGiven

LEMMA CreateModelMoves ==
    ASSUME ShapeInv, NEW i \in Slots, CreateModel(i)
    PROVE  /\ ShapeInv' /\ Only(i) /\ task[i].at = "free" /\ task[i].kind = "none"
           /\ task'[i].kind = "model" /\ task'[i].session = Nobody /\ task'[i].at \in {"put", "check"}
           /\ LiveProvider(task'[i].owner)
           /\ task'[i].keys = task'[i].todo \cup provider[task'[i].owner].refs
           /\ disturbed' = disturbed \cup Disturbs(i, "model", task'[i].owner)
           /\ UNCHANGED <<modelTables, handler, secrets>>
  <1>1. PICK p \in Providers, m \in Models, keys \in SUBSET Keys, flag \in BOOLEAN :
          /\ LiveProvider(p) /\ Begins(i, ModelRequest(p, m, keys, provider[p].refs, flag))
          /\ UNCHANGED modelTables
    BY DEF CreateModel
  <1> DEFINE refs == provider[p].refs  q == ModelRequest(p, m, keys, refs, flag)
  <1>2. refs \in SUBSET Keys  BY DEF ShapeInv, TypeOK, ProviderRows
  <1> HIDE DEF refs
  <1>3. /\ q \in Tasks /\ q.kind = "model" /\ q.at \in {"put", "check"} /\ q.owner = p /\ q.model = m
        /\ q.keys = keys \cup refs /\ q.todo = keys /\ q.session = Nobody
    BY <1>2 DEF ModelRequest, Free, Tasks, Kinds, Places, Others, Writers, SomeModel
  <1>4. Begins(i, q)  BY <1>1 DEF refs
  <1> HIDE DEF q
  <1>5. TaskOk(q)  BY <1>3 DEF TaskOk, Writers
  <1>6. /\ task' \in [Slots -> Tasks] /\ task'[i] = q /\ Began(i, q.kind, q.at)
        /\ UNCHANGED <<secrets, handler, mishaps>> /\ requests' \in Nat
        /\ disturbed' = disturbed \cup Disturbs(i, q.kind, q.owner)
        /\ disturbed' \subseteq {"deletion", "refs", "cache", "handler"}
    BY <1>3, <1>4, BeginsMoves
  <1>7. ShapeInv'  BY <1>1, <1>5, <1>6, TablesKept DEF ShapeInv, TypeOK, Began
  <1> QED  BY <1>1, <1>3, <1>6, <1>7 DEF refs, Began

LEMMA CreateModelAndProviderMoves ==
    ASSUME ShapeInv, NEW i \in Slots, CreateModelAndProvider(i)
    PROVE  /\ ShapeInv' /\ Only(i) /\ task[i].at = "free" /\ task[i].kind = "none"
           /\ task'[i].kind = "model" /\ task'[i].session = Nobody /\ task'[i].at \in {"put", "check"}
           /\ \E p \in Providers :
                 /\ task'[i].owner = p /\ task'[i].keys = task'[i].todo
                 /\ provider[p] = NoProvider
                 /\ provider'[p] = [at |-> "live", refs |-> {}]
                 /\ \A q \in Providers \ {p} : provider'[q] = provider[q]
                 /\ disturbed' = disturbed \cup Disturbs(i, "model", p)
           /\ UNCHANGED <<model, default, session, handler, secrets>>
  <1>1. PICK p \in Providers, m \in Models, keys \in SUBSET Keys, flag \in BOOLEAN :
          /\ provider[p] = NoProvider /\ Begins(i, ModelRequest(p, m, keys, {}, flag))
          /\ InsertProvider(p) /\ UNCHANGED <<model, default, session>>
    BY DEF CreateModelAndProvider
  <1> DEFINE q == ModelRequest(p, m, keys, {}, flag)
  <1>2. /\ q \in Tasks /\ q.kind = "model" /\ q.at \in {"put", "check"} /\ q.owner = p /\ q.model = m
        /\ q.keys = keys /\ q.todo = keys /\ q.session = Nobody
    BY DEF ModelRequest, Free, Tasks, Kinds, Places, Others, Writers, SomeModel
  <1>3. Begins(i, q)  BY <1>1
  <1> HIDE DEF q
  <1>4. TaskOk(q)  BY <1>2 DEF TaskOk, Writers
  <1>5. /\ task' \in [Slots -> Tasks] /\ task'[i] = q /\ Began(i, q.kind, q.at)
        /\ UNCHANGED <<secrets, handler, mishaps>> /\ requests' \in Nat
        /\ disturbed' = disturbed \cup Disturbs(i, q.kind, q.owner)
        /\ disturbed' \subseteq {"deletion", "refs", "cache", "handler"}
    BY <1>2, <1>3, BeginsMoves
  <1>6. ShapeInv'  BY <1>1, <1>4, <1>5, InsertProviderMoves, ShapeKept DEF ShapeInv, TypeOK, Began
  <1> QED  BY <1>1, <1>2, <1>5, <1>6, InsertProviderMoves DEF Began

LEMMA UpdateModelMoves ==
    ASSUME ShapeInv, NEW i \in Slots, UpdateModel(i)
    PROVE  /\ ShapeInv' /\ Began(i, "update", "put") /\ task'[i].session = Nobody
           /\ LiveProvider(task'[i].owner)
           /\ task'[i].keys = task'[i].todo \cup provider[task'[i].owner].refs
           /\ disturbed' = disturbed \cup Disturbs(i, "update", task'[i].owner)
           /\ UNCHANGED <<modelTables, handler, secrets>>
  <1>1. PICK m \in Models, keys \in SUBSET Keys :
          /\ LiveModel(m) /\ Begins(i, UpdateRequest(model[m].of, keys)) /\ UNCHANGED modelTables
    BY DEF UpdateModel
  <1> DEFINE p == model[m].of  q == UpdateRequest(p, keys)
  <1>2. p \in Providers /\ LiveProvider(p)  BY <1>1 DEF LiveModel, LiveProvider
  <1>3. provider[p].refs \in SUBSET Keys  BY <1>2 DEF ShapeInv, TypeOK, ProviderRows
  <1> HIDE DEF p
  <1>4. /\ q \in Tasks /\ TaskOk(q) /\ q.kind = "update" /\ q.at = "put" /\ q.owner = p
        /\ q.keys = keys \cup provider[p].refs /\ q.todo = keys /\ q.session = Nobody
    BY <1>2, <1>3
       DEF UpdateRequest, Free, Tasks, TaskOk, Kinds, Places, Others, Writers, Deletions, Writing, SomeModel
  <1> HIDE DEF q
  <1>5. /\ task' \in [Slots -> Tasks] /\ task'[i] = q /\ Began(i, "update", "put")
        /\ UNCHANGED <<secrets, handler, mishaps>> /\ requests' \in Nat
        /\ disturbed' = disturbed \cup Disturbs(i, "update", p)
        /\ disturbed' \subseteq {"deletion", "refs", "cache", "handler"}
    BY <1>1, <1>4, BeginsMoves DEF q, p
  <1>6. ShapeInv'  BY <1>1, <1>4, <1>5, TablesKept DEF ShapeInv, TypeOK, Began
  <1> QED  BY <1>1, <1>2, <1>4, <1>5, <1>6

(* An action of a request that has stored what it had to store.            *)
LEMMA RecordRefsMoves ==
    ASSUME ShapeInv, NEW i \in Slots, RecordRefs(i)
    PROVE  /\ ShapeInv' /\ Only(i) /\ task[i].kind \in Writers /\ task[i].at = "record"
           /\ \/ /\ LiveProvider(task[i].owner)
                 /\ provider' = [provider EXCEPT ![task[i].owner].refs = task[i].keys]
                 /\ \/ task'[i] = Free
                    \/ task[i].kind # "update" /\ Went(i, "check")
              \/ provider' = provider /\ task'[i] = Free
           /\ UNCHANGED <<model, default, session, handler, secrets, disturbed>>
  <1>1. task[i] \in Tasks /\ TaskOk(task[i]) /\ task \in [Slots -> Tasks]  BY DEF ShapeInv, TypeOK
  <1>2. task[i].kind \in Writers /\ task[i].at = "record" /\ task[i].owner \in Providers
    BY <1>1 DEF RecordRefs, At, TaskOk
  <1>3. /\ UNCHANGED <<model, default, session, handler, secrets, disturbed, requests, mishaps>>
    BY DEF RecordRefs, Same
  <1>4. CASE LiveProvider(task[i].owner)
    <2>1. provider' = [provider EXCEPT ![task[i].owner].refs = task[i].keys]  BY <1>4 DEF RecordRefs
    <2>2. provider' \in [Providers -> ProviderRows]
      BY <2>1, <1>1, <1>2 DEF ShapeInv, TypeOK, ProviderRows, Tasks
    <2>3. CASE task[i].kind = "update" \/ task[i].model = NoModel
      <3>1. Ends(i)  BY <1>4, <2>3 DEF RecordRefs
      <3>2. ShapeInv'
        BY <3>1, <2>2, <1>3, EndsMoves, FreeFacts, ShapeKept DEF ShapeInv, TypeOK
      <3> QED  BY <3>1, <3>2, <1>1, <1>2, <1>3, <1>4, <2>1, EndsMoves
    <2>4. CASE ~ (task[i].kind = "update" \/ task[i].model = NoModel)
      <3>1. Goes(i, "check")  BY <1>4, <2>4 DEF RecordRefs
      <3>2. task' \in [Slots -> Tasks] /\ Only(i) /\ Went(i, "check")
        BY <3>1, <1>1, GoesMoves DEF Places
      <3>3. TaskOk(task'[i])
        BY <3>2, <2>4, <1>1, <1>2 DEF Went, TaskOk, Tasks, Writers, SomeModel
      <3>4. ShapeInv'  BY <3>2, <3>3, <2>2, <1>3, ShapeKept DEF ShapeInv, TypeOK
      <3> QED  BY <3>2, <3>4, <1>2, <1>3, <1>4, <2>1, <2>4
    <2> QED  BY <2>3, <2>4
  <1>5. CASE ~ LiveProvider(task[i].owner)
    <2>1. Ends(i) /\ UNCHANGED provider  BY <1>5 DEF RecordRefs
    <2>2. ShapeInv'
      BY <2>1, <1>3, EndsMoves, FreeFacts, ShapeKept DEF ShapeInv, TypeOK
    <2> QED  BY <2>1, <2>2, <1>1, <1>2, <1>3, EndsMoves
  <1> QED  BY <1>4, <1>5

LEMMA TaskFacts ==
    ASSUME ShapeInv, NEW i \in Slots
    PROVE  task[i] \in Tasks /\ TaskOk(task[i]) /\ task \in [Slots -> Tasks]
  BY DEF ShapeInv, TypeOK

LEMMA EndsQuietly ==
    ASSUME ShapeInv, NEW i \in Slots, Ends(i), UNCHANGED <<modelTables, handler, secrets>>,
           requests' \in Nat, mishaps' \in Nat,
           disturbed' \subseteq {"deletion", "refs", "cache", "handler"}
    PROVE  ShapeInv' /\ Only(i) /\ task'[i] = Free
  BY TaskFacts, EndsMoves, FreeFacts, TablesKept

LEMMA GoesQuietly ==
    ASSUME ShapeInv, NEW i \in Slots, NEW place \in Places, Goes(i, place),
           Went(i, place) => TaskOk(task'[i]), UNCHANGED <<modelTables, handler, secrets>>,
           requests' \in Nat, mishaps' \in Nat,
           disturbed' \subseteq {"deletion", "refs", "cache", "handler"}
    PROVE  ShapeInv' /\ Only(i) /\ Went(i, place)
  BY TaskFacts, GoesMoves, TablesKept

LEMMA SameFacts ==
    ASSUME ShapeInv, Same
    PROVE  /\ UNCHANGED <<requests, mishaps, secrets, handler, disturbed>>
           /\ requests' \in Nat /\ mishaps' \in Nat
           /\ disturbed' \subseteq {"deletion", "refs", "cache", "handler"}
  BY DEF Same, ShapeInv, TypeOK

LEMMA PutSecretMoves ==
    ASSUME ShapeInv, NEW i \in Slots, PutSecret(i)
    PROVE  /\ ShapeInv' /\ Only(i) /\ task[i].at = "put"
           /\ task[i].kind \in Writers \cup {"configure"}
           /\ task'[i].kind = task[i].kind /\ task'[i].owner = task[i].owner
           /\ task'[i].session = task[i].session /\ task'[i].keys = task[i].keys
           /\ \E k \in task[i].todo :
                 /\ secrets' = secrets \cup {<<task[i].owner, k>>}
                 /\ task'[i].todo = task[i].todo \ {k}
                 /\ task'[i].at = IF task[i].todo = {k} THEN "record" ELSE "put"
           /\ UNCHANGED <<modelTables, handler, disturbed>>
  <1>1. PICK k \in task[i].todo :
          /\ secrets' = secrets \cup {<<task[i].owner, k>>}
          /\ task' = [task EXCEPT ![i].todo = @ \ {k},
                                  ![i].at = IF task[i].todo = {k} THEN "record" ELSE @]
    BY DEF PutSecret, Stored
  <1>2. task[i] \in Tasks /\ TaskOk(task[i]) /\ task \in [Slots -> Tasks] /\ task[i].at = "put"
    BY TaskFacts DEF PutSecret
  <1>3. task[i].kind \in Writers \cup {"configure"}
    BY <1>2 DEF TaskOk, Tasks, Kinds, Others, Writers, Deletions, Writing
  <1> DEFINE place == IF task[i].todo = {k} THEN "record" ELSE "put"
             q == [task[i] EXCEPT !.todo = task[i].todo \ {k}, !.at = place]
  <1>4. task' = [task EXCEPT ![i] = q]  BY <1>1, <1>2 DEF Tasks
  <1>5. place \in {"record", "put"} /\ place \in Places  BY DEF Places
  <1> HIDE DEF place
  <1>6. /\ q \in Tasks /\ q.kind = task[i].kind /\ q.owner = task[i].owner
        /\ q.keys = task[i].keys /\ q.at = place /\ q.todo = task[i].todo \ {k} /\ q.model = task[i].model
        /\ q.session = task[i].session
    BY <1>2, <1>5 DEF Tasks
  <1> HIDE DEF q
  <1>7. TaskOk(q)  BY <1>2, <1>3, <1>5, <1>6 DEF TaskOk, Writers
  <1>8. task' \in [Slots -> Tasks] /\ Only(i) /\ task'[i] = q  BY <1>2, <1>4, <1>6, ChangeMoves
  <1>9. task[i].owner \in Providers \cup Handlers /\ k \in Keys
    BY <1>2, <1>3 DEF TaskOk, Tasks
  <1>10. secrets' \subseteq (Providers \cup Handlers) \X Keys
    BY <1>1, <1>9 DEF ShapeInv, TypeOK
  <1>11. UNCHANGED <<modelTables, handler, requests, mishaps, disturbed>>  BY DEF PutSecret
  <1>12. ShapeInv'
    BY <1>7, <1>8, <1>10, <1>11, ShapeKept DEF ShapeInv, TypeOK, modelTables
  <1> QED  BY <1>1, <1>2, <1>3, <1>6, <1>8, <1>11, <1>12 DEF place

(* A step of a writer that leaves the tables alone: it ends or goes on to  *)
(* its next statement.                                                     *)
LEMMA RefusedMoves ==
    ASSUME ShapeInv, NEW i \in Slots, Refused(i)
    PROVE  /\ ShapeInv' /\ Only(i) /\ task'[i] = Free /\ task[i].kind \in {"provider", "model"}
           /\ UNCHANGED <<modelTables, handler, secrets, disturbed>>
  BY SameFacts, EndsQuietly DEF Refused, At

LEMMA InsertModelMoves ==
    ASSUME ShapeInv, NEW i \in Slots, InsertModel(i)
    PROVE  /\ ShapeInv' /\ Only(i) /\ task[i].kind \in {"provider", "model"} /\ task[i].at = "check"
           /\ task[i].owner \in Providers /\ task[i].model \in Models
           /\ task[i].kind = "model" => HasKey(i)
           /\ model' = [model EXCEPT ![task[i].model] = [at |-> "live", of |-> task[i].owner]]
           /\ task'[i] = Free \/ Went(i, "choose")
           /\ UNCHANGED <<provider, default, session, handler, secrets, disturbed>>
  <1>1. /\ task[i].kind \in {"provider", "model"} /\ task[i].at = "check" /\ Same
        /\ task[i].kind = "model" => HasKey(i)
        /\ model' = [model EXCEPT ![task[i].model] = [at |-> "live", of |-> task[i].owner]]
        /\ Ends(i) \/ Goes(i, "choose")
        /\ UNCHANGED <<provider, default, session>>
    BY DEF InsertModel, At
  <1>2. task[i].owner \in Providers /\ task[i].model \in Models /\ TaskOk(task[i])
    BY <1>1, TaskFacts DEF TaskOk, Writers
  <1>3. model' \in [Models -> ModelRows]
    BY <1>1, <1>2 DEF ShapeInv, TypeOK, ModelRows, Stages
  <1>4. CASE Ends(i)
    <2>1. task' \in [Slots -> Tasks] /\ Only(i) /\ task'[i] = Free  BY <1>4, TaskFacts, EndsMoves
    <2>2. ShapeInv'  BY <1>1, <1>3, <2>1, SameFacts, FreeFacts, ShapeKept DEF ShapeInv, TypeOK
    <2> QED  BY <1>1, <1>2, <2>1, <2>2, SameFacts
  <1>5. CASE Goes(i, "choose")
    <2>1. task' \in [Slots -> Tasks] /\ Only(i) /\ Went(i, "choose")
      BY <1>5, TaskFacts, GoesMoves DEF Places
    <2>2. TaskOk(task'[i])  BY <1>1, <1>2, <2>1 DEF Went, TaskOk, Writers
    <2>3. ShapeInv'  BY <1>1, <1>3, <2>1, <2>2, SameFacts, ShapeKept DEF ShapeInv, TypeOK
    <2> QED  BY <1>1, <1>2, <2>1, <2>3, SameFacts
  <1> QED  BY <1>1, <1>4, <1>5

LEMMA SetWorkspaceDefaultMoves ==
    ASSUME ShapeInv, NEW i \in Slots, SetWorkspaceDefault(i)
    PROVE  /\ ShapeInv' /\ Began(i, "default", "write") /\ task'[i].session = Nobody
           /\ MayBeDefault(task'[i].model)
           /\ disturbed' = disturbed \cup Disturbs(i, "default", Nobody)
           /\ UNCHANGED <<modelTables, handler, secrets>>
  <1>1. PICK m \in SomeModel :
          /\ MayBeDefault(m) /\ Begins(i, [Free EXCEPT !.kind = "default", !.at = "write", !.model = m])
          /\ UNCHANGED modelTables
    BY DEF SetWorkspaceDefault, SomeModel
  <1> DEFINE q == [Free EXCEPT !.kind = "default", !.at = "write", !.model = m]
  <1>2. /\ q \in Tasks /\ TaskOk(q) /\ q.kind = "default" /\ q.at = "write" /\ q.owner = Nobody
        /\ q.session = Nobody /\ q.model = m
    BY DEF Free, Tasks, TaskOk, Kinds, Places, Others, Writers, Deletions, Writing
  <1>5. Begins(i, q)  BY <1>1
  <1> HIDE DEF q
  <1>3. /\ task' \in [Slots -> Tasks] /\ task'[i] = q /\ Began(i, "default", "write")
        /\ UNCHANGED <<secrets, handler, mishaps>> /\ requests' \in Nat
        /\ disturbed' = disturbed \cup Disturbs(i, "default", Nobody)
        /\ disturbed' \subseteq {"deletion", "refs", "cache", "handler"}
    BY <1>5, <1>2, BeginsMoves
  <1>4. ShapeInv'  BY <1>1, <1>2, <1>3, TablesKept DEF ShapeInv, TypeOK, Began
  <1> QED  BY <1>1, <1>2, <1>3, <1>4

LEMMA ChooseDefaultMoves ==
    ASSUME ShapeInv, NEW i \in Slots, ChooseDefault(i)
    PROVE  /\ ShapeInv' /\ Only(i) /\ task[i].kind \in {"provider", "model"} /\ task[i].at = "choose"
           /\ task'[i] = Free \/ (MayBeDefault(task[i].model) /\ Went(i, "write"))
           /\ UNCHANGED <<modelTables, handler, secrets, disturbed>>
  <1>1. /\ task[i].kind \in {"provider", "model"} /\ task[i].at = "choose" /\ Same
        /\ UNCHANGED modelTables
        /\ Ends(i) \/ (MayBeDefault(task[i].model) /\ Goes(i, "write"))
    BY DEF ChooseDefault, At
  <1>2. CASE Ends(i)  BY <1>1, <1>2, SameFacts, EndsQuietly
  <1>3. CASE MayBeDefault(task[i].model) /\ Goes(i, "write")
    <2>1. Went(i, "write") => TaskOk(task'[i])  BY <1>1, TaskFacts DEF Went, TaskOk, Writers
    <2>2. "write" \in Places  BY DEF Places
    <2> QED  BY <1>1, <1>3, <2>1, <2>2, SameFacts, GoesQuietly
  <1> QED  BY <1>1, <1>2, <1>3

LEMMA WriteDefaultMoves ==
    ASSUME ShapeInv, NEW i \in Slots, WriteDefault(i)
    PROVE  /\ ShapeInv' /\ Only(i) /\ task'[i] = Free /\ task[i].at = "write"
           /\ task[i].kind \in {"provider", "model", "default"}
           /\ default' = task[i].model
           /\ UNCHANGED <<provider, model, session, handler, secrets, disturbed>>
  <1>1. /\ task[i].kind \in {"provider", "model", "default"} /\ task[i].at = "write" /\ Same
        /\ default' = task[i].model /\ Ends(i)
        /\ UNCHANGED <<provider, model, session>>
    BY DEF WriteDefault, At
  <1>2. default' \in SomeModel  BY <1>1, TaskFacts DEF Tasks
  <1>3. ShapeInv'
    BY <1>1, <1>2, TaskFacts, EndsMoves, FreeFacts, SameFacts, ShapeKept DEF ShapeInv, TypeOK
  <1> QED  BY <1>1, <1>3, SameFacts, TaskFacts, EndsMoves

(* Deletions.                                                              *)

LEMMA DeleteProviderMoves ==
    ASSUME ShapeInv, NEW i \in Slots, DeleteProvider(i)
    PROVE  /\ ShapeInv' /\ Began(i, "dropProvider", "count") /\ task'[i].session = Nobody
           /\ disturbed' = disturbed \cup Disturbs(i, "dropProvider", task'[i].owner)
           /\ UNCHANGED <<modelTables, handler, secrets>>
  <1>1. PICK p \in Providers :
          /\ Begins(i, [Free EXCEPT !.kind = "dropProvider", !.at = "count", !.owner = p])
          /\ UNCHANGED modelTables
    BY DEF DeleteProvider
  <1> DEFINE q == [Free EXCEPT !.kind = "dropProvider", !.at = "count", !.owner = p]
  <1>2. /\ q \in Tasks /\ TaskOk(q) /\ q.kind = "dropProvider" /\ q.at = "count" /\ q.owner = p
        /\ q.session = Nobody
    BY DEF Free, Tasks, TaskOk, Kinds, Places, Others, Writers, Deletions, Writing, SomeModel
  <1>3. Begins(i, q)  BY <1>1
  <1> HIDE DEF q
  <1>4. /\ task' \in [Slots -> Tasks] /\ task'[i] = q /\ Began(i, "dropProvider", "count")
        /\ UNCHANGED <<secrets, handler, mishaps>> /\ requests' \in Nat
        /\ disturbed' = disturbed \cup Disturbs(i, "dropProvider", p)
        /\ disturbed' \subseteq {"deletion", "refs", "cache", "handler"}
    BY <1>2, <1>3, BeginsMoves
  <1>5. ShapeInv'  BY <1>1, <1>2, <1>4, TablesKept DEF ShapeInv, TypeOK, Began
  <1> QED  BY <1>1, <1>2, <1>4, <1>5

LEMMA CountSessionsMoves ==
    ASSUME ShapeInv, NEW i \in Slots, CountSessions(i)
    PROVE  /\ ShapeInv' /\ Only(i) /\ task[i].kind = "dropProvider" /\ task[i].at = "count"
           /\ task'[i] = Free \/ (ActiveSessions(ModelsOf(task[i].owner)) = {} /\ Went(i, "models"))
           /\ UNCHANGED <<modelTables, handler, secrets, disturbed>>
  <1>1. /\ task[i].kind = "dropProvider" /\ task[i].at = "count" /\ Same /\ UNCHANGED modelTables
        /\ Ends(i) \/ (ActiveSessions(ModelsOf(task[i].owner)) = {} /\ Goes(i, "models"))
    BY DEF CountSessions, At
  <1>2. CASE Ends(i)  BY <1>1, <1>2, SameFacts, EndsQuietly
  <1>3. CASE ActiveSessions(ModelsOf(task[i].owner)) = {} /\ Goes(i, "models")
    <2>1. Went(i, "models") => TaskOk(task'[i])  BY <1>1, TaskFacts DEF Went, TaskOk, Writers
    <2>2. "models" \in Places  BY DEF Places
    <2> QED  BY <1>1, <1>3, <2>1, <2>2, SameFacts, GoesQuietly
  <1> QED  BY <1>1, <1>2, <1>3

(* A deletion goes on, knowing what it has read.                           *)
LEMMA ListModelsMoves ==
    ASSUME ShapeInv, NEW i \in Slots, ListModels(i)
    PROVE  /\ ShapeInv' /\ Only(i) /\ task[i].kind = "dropProvider" /\ task[i].at = "models"
           /\ task'[i].kind = "dropProvider" /\ task'[i].at = "default" /\ task'[i].owner = task[i].owner
           /\ task'[i].models = ModelsOf(task[i].owner) /\ task'[i].session = task[i].session
           /\ UNCHANGED <<modelTables, handler, secrets, disturbed>>
  <1> DEFINE ms == ModelsOf(task[i].owner)
             q == [task[i] EXCEPT !.models = ms, !.at = "default"]
  <1>1. /\ task[i].kind = "dropProvider" /\ task[i].at = "models" /\ Same /\ UNCHANGED modelTables
        /\ task' = [task EXCEPT ![i].models = ms, ![i].at = "default"]
    BY DEF ListModels, At
  <1>2. ms \subseteq Models  BY DEF ModelsOf
  <1> HIDE DEF ms
  <1>3. task' = [task EXCEPT ![i] = q]  BY <1>1, TaskFacts DEF Tasks
  <1>4. /\ q \in Tasks /\ q.kind = "dropProvider" /\ q.owner = task[i].owner
        /\ q.at = "default" /\ q.models = ms /\ q.model = task[i].model /\ q.session = task[i].session
    BY <1>1, <1>2, TaskFacts DEF Tasks, Places
  <1> HIDE DEF q
  <1>5. TaskOk(q)  BY <1>1, <1>4, TaskFacts DEF TaskOk, Writers
  <1>6. task' \in [Slots -> Tasks] /\ Only(i) /\ task'[i] = q  BY <1>3, <1>4, TaskFacts, ChangeMoves
  <1>7. ShapeInv'  BY <1>1, <1>5, <1>6, SameFacts, TablesKept
  <1> QED  BY <1>1, <1>4, <1>6, <1>7, SameFacts DEF ms

LEMMA ReadDefaultMoves ==
    ASSUME ShapeInv, NEW i \in Slots, ReadDefault(i)
    PROVE  /\ ShapeInv' /\ Only(i) /\ task[i].kind = "dropProvider" /\ task[i].at = "default"
           /\ task'[i].kind = "dropProvider" /\ task'[i].at = "dropModels" /\ task'[i].owner = task[i].owner
           /\ task'[i].model = default /\ task'[i].models = task[i].models
           /\ task'[i].session = task[i].session
           /\ UNCHANGED <<modelTables, handler, secrets, disturbed>>
  <1> DEFINE q == [task[i] EXCEPT !.model = default, !.at = "dropModels"]
  <1>1. /\ task[i].kind = "dropProvider" /\ task[i].at = "default" /\ Same /\ UNCHANGED modelTables
        /\ task' = [task EXCEPT ![i].model = default, ![i].at = "dropModels"]
    BY DEF ReadDefault, At
  <1>2. default \in SomeModel  BY DEF ShapeInv, TypeOK
  <1>3. task' = [task EXCEPT ![i] = q]  BY <1>1, TaskFacts DEF Tasks
  <1>4. /\ q \in Tasks /\ q.kind = "dropProvider" /\ q.owner = task[i].owner
        /\ q.at = "dropModels" /\ q.models = task[i].models /\ q.model = default
        /\ q.session = task[i].session
    BY <1>1, <1>2, TaskFacts DEF Tasks, Places
  <1> HIDE DEF q
  <1>5. TaskOk(q)  BY <1>1, <1>4, TaskFacts DEF TaskOk, Writers
  <1>6. task' \in [Slots -> Tasks] /\ Only(i) /\ task'[i] = q  BY <1>3, <1>4, TaskFacts, ChangeMoves
  <1>7. ShapeInv'  BY <1>1, <1>5, <1>6, SameFacts, TablesKept
  <1> QED  BY <1>1, <1>4, <1>6, <1>7, SameFacts

(* The sessions left behind are those that have failed or are closed.      *)
LEMMA LeftBehindMoves ==
    ASSUME ShapeInv, NEW ms, LeftBehind(ms)
    PROVE  /\ session' \in [Sessions -> SessionRows]
           /\ \A s \in Sessions :
                 /\ session'[s].status = session[s].status /\ session'[s].model = session[s].model
                 /\ session'[s].hot = session[s].hot /\ session'[s].used = session[s].used
                 /\ session[s].left => session'[s].left
                 /\ session[s].model \in ms /\ session[s].status \in {"error", "closed"} => session'[s].left
                 /\ session[s].status = "none" => session'[s] = session[s]
  <1>1. session \in [Sessions -> SessionRows]  BY DEF ShapeInv, TypeOK
  <1>2. ASSUME NEW s \in Sessions
        PROVE  /\ session'[s] \in SessionRows
               /\ session'[s].status = session[s].status /\ session'[s].model = session[s].model
               /\ session'[s].hot = session[s].hot /\ session'[s].used = session[s].used
               /\ session[s].left => session'[s].left
               /\ session[s].model \in ms /\ session[s].status \in {"error", "closed"} => session'[s].left
               /\ session[s].status = "none" => session'[s] = session[s]
    <2>1. session[s] \in SessionRows  BY <1>1
    <2>2. session'[s] = IF s \in Using(ms, {"error", "closed"}) THEN [session[s] EXCEPT !.left = TRUE] ELSE session[s]
      BY DEF LeftBehind
    <2>3. s \in Using(ms, {"error", "closed"}) <=> session[s].model \in ms /\ session[s].status \in {"error", "closed"}
      BY DEF Using
    <2>4. CASE s \in Using(ms, {"error", "closed"})
      <3>1. session'[s] = [session[s] EXCEPT !.left = TRUE]  BY <2>2, <2>4
      <3> QED  BY <2>1, <2>3, <2>4, <3>1 DEF SessionRows
    <2>5. CASE s \notin Using(ms, {"error", "closed"})
      <3>1. session'[s] = session[s]  BY <2>2, <2>5
      <3> QED  BY <2>1, <2>3, <2>5, <3>1
    <2> QED  BY <2>4, <2>5
  <1>3. session' = [s \in Sessions |-> session'[s]]  BY DEF LeftBehind
  <1> QED  BY <1>2, <1>3

LEMMA DropModelsMoves ==
    ASSUME ShapeInv, NEW i \in Slots, DropModels(i)
    PROVE  /\ ShapeInv' /\ Only(i) /\ task[i].kind = "dropProvider" /\ task[i].at = "dropModels"
           /\ Went(i, "clear") /\ LeftBehind(ModelsOf(task[i].owner))
           /\ \A m \in Models : model'[m].of = model[m].of
                  /\ model'[m].at = IF m \in ModelsOf(task[i].owner) THEN "deleted" ELSE model[m].at
           /\ UNCHANGED <<provider, default, handler, secrets, disturbed>>
  <1> DEFINE gone == ModelsOf(task[i].owner)
  <1>1. /\ task[i].kind = "dropProvider" /\ task[i].at = "dropModels" /\ Same /\ Goes(i, "clear")
        /\ model' = [m \in Models |-> IF m \in gone THEN [model[m] EXCEPT !.at = "deleted"] ELSE model[m]]
        /\ LeftBehind(gone)
        /\ UNCHANGED <<provider, default>>
    BY DEF DropModels, At
  <1> HIDE DEF gone
  <1>2. model \in [Models -> ModelRows]  BY DEF ShapeInv, TypeOK
  <1>3. ASSUME NEW m \in Models
        PROVE  model'[m] \in ModelRows /\ model'[m].of = model[m].of
                 /\ model'[m].at = IF m \in gone THEN "deleted" ELSE model[m].at
    BY <1>1, <1>2 DEF ModelRows, Stages
  <1>4. model' \in [Models -> ModelRows]  BY <1>1, <1>3
  <1>5. task' \in [Slots -> Tasks] /\ Only(i) /\ Went(i, "clear")
    BY <1>1, TaskFacts, GoesMoves DEF Places
  <1>6. TaskOk(task'[i])  BY <1>1, <1>5, TaskFacts DEF Went, TaskOk, Writers
  <1>7. session' \in [Sessions -> SessionRows]  BY <1>1, LeftBehindMoves
  <1>8. ShapeInv'  BY <1>1, <1>4, <1>5, <1>6, <1>7, SameFacts, ShapeKept DEF ShapeInv, TypeOK
  <1> QED  BY <1>1, <1>3, <1>5, <1>8, SameFacts DEF gone

LEMMA ClearDefaultMoves ==
    ASSUME ShapeInv, NEW i \in Slots, ClearDefault(i)
    PROVE  /\ ShapeInv' /\ Only(i) /\ task[i].kind = "dropProvider" /\ task[i].at = "clear"
           /\ Went(i, "drop")
           /\ default' = IF task[i].model \in task[i].models THEN NoModel ELSE default
           /\ UNCHANGED <<provider, model, session, handler, secrets, disturbed>>
  <1>1. /\ task[i].kind = "dropProvider" /\ task[i].at = "clear" /\ Same /\ Goes(i, "drop")
        /\ default' = IF task[i].model \in task[i].models THEN NoModel ELSE default
        /\ UNCHANGED <<provider, model, session>>
    BY DEF ClearDefault, DefaultGoes, At
  <1>2. default' \in SomeModel  BY <1>1 DEF ShapeInv, TypeOK, SomeModel
  <1>3. task' \in [Slots -> Tasks] /\ Only(i) /\ Went(i, "drop")
    BY <1>1, TaskFacts, GoesMoves DEF Places
  <1>4. TaskOk(task'[i])  BY <1>1, <1>3, TaskFacts DEF Went, TaskOk, Writers
  <1>5. ShapeInv'  BY <1>1, <1>2, <1>3, <1>4, SameFacts, ShapeKept DEF ShapeInv, TypeOK
  <1> QED  BY <1>1, <1>3, <1>5, SameFacts

LEMMA DropProviderMoves ==
    ASSUME ShapeInv, NEW i \in Slots, DropProvider(i)
    PROVE  /\ ShapeInv' /\ Only(i) /\ task[i].kind = "dropProvider" /\ task[i].at = "drop"
           /\ task'[i] = Free /\ task[i].owner \in Providers
           /\ provider' = [provider EXCEPT ![task[i].owner].at = "deleted"]
           /\ UNCHANGED <<model, default, session, handler, secrets, disturbed>>
  <1>1. /\ task[i].kind = "dropProvider" /\ task[i].at = "drop" /\ Same /\ Ends(i)
        /\ provider' = [provider EXCEPT ![task[i].owner].at = "deleted"]
        /\ UNCHANGED <<model, default, session>>
    BY DEF DropProvider, At
  <1>2. provider' \in [Providers -> ProviderRows]
    BY <1>1, TaskFacts DEF ShapeInv, TypeOK, ProviderRows, Stages
  <1>3. task' \in [Slots -> Tasks] /\ Only(i) /\ task'[i] = Free  BY <1>1, TaskFacts, EndsMoves
  <1>4. ShapeInv'  BY <1>1, <1>2, <1>3, FreeFacts, SameFacts, ShapeKept DEF ShapeInv, TypeOK
  <1>5. task[i].owner \in Providers  BY <1>1, TaskFacts DEF TaskOk
  <1> QED  BY <1>1, <1>3, <1>4, <1>5, SameFacts

LEMMA DeleteModelMoves ==
    ASSUME ShapeInv, NEW i \in Slots, DeleteModel(i)
    PROVE  /\ ShapeInv' /\ Began(i, "dropModel", "count") /\ task'[i].session = Nobody
           /\ task'[i].model # default /\ model[task'[i].model].at # "none"
           /\ disturbed' = disturbed \cup Disturbs(i, "dropModel", Nobody)
           /\ UNCHANGED <<modelTables, handler, secrets>>
  <1>1. PICK m \in Models :
          /\ m # default /\ model[m].at # "none"
          /\ Begins(i, [Free EXCEPT !.kind = "dropModel", !.at = "count", !.model = m])
          /\ UNCHANGED modelTables
    BY DEF DeleteModel, Deletable
  <1> DEFINE q == [Free EXCEPT !.kind = "dropModel", !.at = "count", !.model = m]
  <1>2. /\ q \in Tasks /\ TaskOk(q) /\ q.kind = "dropModel" /\ q.at = "count" /\ q.owner = Nobody
        /\ q.session = Nobody /\ q.model = m
    BY DEF Free, Tasks, TaskOk, Kinds, Places, Others, Writers, Deletions, Writing, SomeModel
  <1>3. Begins(i, q)  BY <1>1
  <1> HIDE DEF q
  <1>4. /\ task' \in [Slots -> Tasks] /\ task'[i] = q /\ Began(i, "dropModel", "count")
        /\ UNCHANGED <<secrets, handler, mishaps>> /\ requests' \in Nat
        /\ disturbed' = disturbed \cup Disturbs(i, "dropModel", Nobody)
        /\ disturbed' \subseteq {"deletion", "refs", "cache", "handler"}
    BY <1>2, <1>3, BeginsMoves
  <1>5. ShapeInv'  BY <1>1, <1>2, <1>4, TablesKept DEF ShapeInv, TypeOK, Began
  <1> QED  BY <1>1, <1>2, <1>4, <1>5

LEMMA CountActiveSessionReferencesMoves ==
    ASSUME ShapeInv, NEW i \in Slots, CountActiveSessionReferences(i)
    PROVE  /\ ShapeInv' /\ Only(i) /\ task[i].kind = "dropModel" /\ task[i].at = "count"
           /\ task'[i] = Free \/ (ActiveSessions({task[i].model}) = {} /\ Went(i, "find"))
           /\ UNCHANGED <<modelTables, handler, secrets, disturbed>>
  <1>1. /\ task[i].kind = "dropModel" /\ task[i].at = "count" /\ Same /\ UNCHANGED modelTables
        /\ Ends(i) \/ (ActiveSessions({task[i].model}) = {} /\ Goes(i, "find"))
    BY DEF CountActiveSessionReferences, At
  <1>2. CASE Ends(i)  BY <1>1, <1>2, SameFacts, EndsQuietly
  <1>3. CASE ActiveSessions({task[i].model}) = {} /\ Goes(i, "find")
    <2>1. Went(i, "find") => TaskOk(task'[i])  BY <1>1, TaskFacts DEF Went, TaskOk, Writers
    <2>2. "find" \in Places  BY DEF Places
    <2> QED  BY <1>1, <1>3, <2>1, <2>2, SameFacts, GoesQuietly
  <1> QED  BY <1>1, <1>2, <1>3

LEMMA FindModelMoves ==
    ASSUME ShapeInv, NEW i \in Slots, FindModel(i)
    PROVE  /\ ShapeInv' /\ Only(i) /\ task[i].kind = "dropModel" /\ task[i].at = "find"
           /\ task'[i] = Free \/ Went(i, "drop")
           /\ UNCHANGED <<modelTables, handler, secrets, disturbed>>
  <1>1. /\ task[i].kind = "dropModel" /\ task[i].at = "find" /\ Same /\ UNCHANGED modelTables
        /\ Ends(i) \/ Goes(i, "drop")
    BY DEF FindModel, At
  <1>2. CASE Ends(i)  BY <1>1, <1>2, SameFacts, EndsQuietly
  <1>3. CASE Goes(i, "drop")
    <2>1. Went(i, "drop") => TaskOk(task'[i])  BY <1>1, TaskFacts DEF Went, TaskOk, Writers
    <2>2. "drop" \in Places  BY DEF Places
    <2> QED  BY <1>1, <1>3, <2>1, <2>2, SameFacts, GoesQuietly
  <1> QED  BY <1>1, <1>2, <1>3

LEMMA DropModelMoves ==
    ASSUME ShapeInv, NEW i \in Slots, DropModel(i)
    PROVE  /\ ShapeInv' /\ Only(i) /\ task[i].kind = "dropModel" /\ task[i].at = "drop"
           /\ task'[i] = Free /\ task[i].model \in Models /\ LeftBehind({task[i].model})
           /\ model' = [model EXCEPT ![task[i].model].at = "deleted"]
           /\ UNCHANGED <<provider, default, handler, secrets, disturbed>>
  <1>1. /\ task[i].kind = "dropModel" /\ task[i].at = "drop" /\ Same /\ Ends(i)
        /\ model' = [model EXCEPT ![task[i].model].at = "deleted"] /\ LeftBehind({task[i].model})
        /\ UNCHANGED <<provider, default>>
    BY DEF DropModel, At
  <1>2. model' \in [Models -> ModelRows]
    BY <1>1 DEF ShapeInv, TypeOK, ModelRows, Stages
  <1>3. task' \in [Slots -> Tasks] /\ Only(i) /\ task'[i] = Free  BY <1>1, TaskFacts, EndsMoves
  <1>4. session' \in [Sessions -> SessionRows]  BY <1>1, LeftBehindMoves
  <1>5. ShapeInv'  BY <1>1, <1>2, <1>3, <1>4, FreeFacts, SameFacts, ShapeKept DEF ShapeInv, TypeOK
  <1>6. task[i].model \in Models  BY <1>1, TaskFacts DEF TaskOk
  <1> QED  BY <1>1, <1>3, <1>5, <1>6, SameFacts

(* Sessions.                                                               *)

LEMMA AsksForSessionMoves ==
    ASSUME ShapeInv, NEW i \in Slots, NEW prompt \in BOOLEAN, AsksForSession(i, prompt)
    PROVE  /\ ShapeInv' /\ Began(i, "session", "resolve")
           /\ task'[i].session \in Sessions /\ session[task'[i].session].status = "none"
           /\ \A j \in Slots : task[j].session # task'[i].session
           /\ disturbed' = disturbed \cup Disturbs(i, "session", Nobody)
           /\ UNCHANGED <<modelTables, handler, secrets>>
  <1>1. PICK s \in Sessions, m \in SomeModel :
          /\ session[s].status = "none" /\ \A j \in Slots : task[j].session # s
          /\ Begins(i, SessionRequest(s, m, prompt)) /\ UNCHANGED modelTables
    BY DEF AsksForSession, SomeModel
  <1>2. Asked(m) \in SomeModel  BY DEF Asked, ShapeInv, TypeOK, SomeModel
  <1> DEFINE q == SessionRequest(s, m, prompt)
  <1>3. /\ q \in Tasks /\ q.kind = "session" /\ q.at = "resolve" /\ q.owner = Nobody
        /\ q.session = s
    BY <1>2 DEF SessionRequest, Free, Tasks, Kinds, Places, Others
  <1>4. Begins(i, q)  BY <1>1
  <1> HIDE DEF q
  <1>5. TaskOk(q)  BY <1>3 DEF TaskOk, Writers
  <1>6. /\ task' \in [Slots -> Tasks] /\ task'[i] = q /\ Began(i, "session", "resolve")
        /\ UNCHANGED <<secrets, handler, mishaps>> /\ requests' \in Nat
        /\ disturbed' = disturbed \cup Disturbs(i, "session", Nobody)
        /\ disturbed' \subseteq {"deletion", "refs", "cache", "handler"}
    BY <1>3, <1>4, BeginsMoves
  <1>7. ShapeInv'  BY <1>1, <1>5, <1>6, TablesKept DEF ShapeInv, TypeOK, Began
  <1> QED  BY <1>1, <1>3, <1>6, <1>7

LEMMA ResolveModelForNewSessionMoves ==
    ASSUME ShapeInv, NEW i \in Slots, ResolveModelForNewSession(i)
    PROVE  /\ ShapeInv' /\ Only(i) /\ task[i].kind = "session" /\ task[i].at = "resolve"
           /\ \/ task'[i] = Free
              \/ /\ task'[i].kind = "session" /\ task'[i].at = "save"
                 /\ task'[i].session = task[i].session
                 /\ task'[i].model = NoModel \/ LiveModel(task'[i].model)
           /\ UNCHANGED <<modelTables, handler, secrets, disturbed>>
  <1>1. /\ task[i].kind = "session" /\ task[i].at = "resolve" /\ Same /\ UNCHANGED modelTables
        /\ \/ Resolves(task[i].model) /\ Goes(i, "save")
           \/ task' = [task EXCEPT ![i].model = NoModel, ![i].at = "save"]
           \/ Ends(i)
    BY DEF ResolveModelForNewSession, At
  <1>2. CASE Ends(i)  BY <1>1, <1>2, SameFacts, EndsQuietly
  <1>3. CASE Resolves(task[i].model) /\ Goes(i, "save")
    <2>1. Went(i, "save") => TaskOk(task'[i])  BY <1>1, TaskFacts DEF Went, TaskOk, Writers
    <2>2. "save" \in Places  BY DEF Places
    <2>3. ShapeInv' /\ Only(i) /\ Went(i, "save")
      BY <1>1, <1>3, <2>1, <2>2, SameFacts, GoesQuietly
    <2> QED  BY <1>1, <1>3, <2>3, SameFacts DEF Resolves, Went
  <1>4. CASE task' = [task EXCEPT ![i].model = NoModel, ![i].at = "save"]
    <2> DEFINE q == [task[i] EXCEPT !.model = NoModel, !.at = "save"]
    <2>1. task' = [task EXCEPT ![i] = q]  BY <1>4, TaskFacts DEF Tasks
    <2>2. /\ q \in Tasks /\ q.kind = "session" /\ q.at = "save" /\ q.session = task[i].session
          /\ q.model = NoModel
      BY <1>1, TaskFacts DEF Tasks, Places, SomeModel
    <2> HIDE DEF q
    <2>3. TaskOk(q)  BY <1>1, <2>2, TaskFacts DEF TaskOk, Writers
    <2>4. task' \in [Slots -> Tasks] /\ Only(i) /\ task'[i] = q  BY <2>1, <2>2, TaskFacts, ChangeMoves
    <2>5. ShapeInv'  BY <1>1, <2>3, <2>4, SameFacts, TablesKept
    <2> QED  BY <1>1, <2>2, <2>4, <2>5, SameFacts
  <1> QED  BY <1>1, <1>2, <1>3, <1>4

(* A session that is changed in some fields.                               *)
SessionChanges(s) ==
    /\ session' \in [Sessions -> SessionRows]
    /\ \A r \in Sessions \ {s} : session'[r] = session[r]

LEMMA RunTask ==
    ASSUME NEW s \in Sessions
    PROVE  LET q == [Free EXCEPT !.kind = "run", !.at = "hot", !.session = s]
           IN  q \in Tasks /\ TaskOk(q) /\ q.kind = "run" /\ q.at = "hot" /\ q.session = s /\ q.owner = Nobody
  BY DEF Free, Tasks, TaskOk, Kinds, Places, Others, Writers, Deletions, Writing, SomeModel

LEMMA SaveSessionMoves ==
    ASSUME ShapeInv, NEW i \in Slots, SaveSession(i)
    PROVE  LET s == task[i].session IN
           /\ ShapeInv' /\ Only(i) /\ task[i].kind = "session" /\ task[i].at = "save" /\ s \in Sessions
           /\ SessionChanges(s)
           /\ session'[s].model = task[i].model /\ session'[s].hot = session[s].hot
           /\ session'[s].used = session[s].used /\ session'[s].left = session[s].left
           /\ \/ task'[i] = Free /\ session'[s].status = "idle"
              \/ /\ task'[i].kind = "run" /\ task'[i].at = "hot" /\ task'[i].session = s
                 /\ session'[s].status = "processing"
           /\ UNCHANGED <<provider, model, default, handler, secrets, disturbed>>
  <1> DEFINE s == task[i].session
             q == [Free EXCEPT !.kind = "run", !.at = "hot", !.session = s]
             next == IF task[i].flag THEN q ELSE Free
             status == IF task[i].flag THEN "processing" ELSE "idle"
  <1>1. /\ task[i].kind = "session" /\ task[i].at = "save" /\ Same
        /\ session' = [session EXCEPT ![s].model = task[i].model, ![s].status = status]
        /\ task' = [task EXCEPT ![i] = next]
        /\ UNCHANGED <<provider, model, default>>
    BY DEF SaveSession, At
  <1>2. s \in Sessions /\ task[i].model \in SomeModel  BY <1>1, TaskFacts DEF TaskOk, Tasks
  <1>3. q \in Tasks /\ TaskOk(q) /\ q.kind = "run" /\ q.at = "hot" /\ q.session = s  BY <1>2, RunTask
  <1>4. status \in Statuses  BY DEF Statuses
  <1>5. \/ next = Free /\ status = "idle"
        \/ next = q /\ status = "processing"
    OBVIOUS
  <1> HIDE DEF q, next, status, s
  <1>6. next \in Tasks /\ TaskOk(next)  BY <1>3, <1>5, FreeFacts
  <1>7. /\ SessionChanges(s) /\ session'[s].status = status
        /\ session'[s].model = task[i].model /\ session'[s].hot = session[s].hot
        /\ session'[s].used = session[s].used /\ session'[s].left = session[s].left
    BY <1>1, <1>2, <1>4 DEF SessionChanges, SessionRows, ShapeInv, TypeOK
  <1>8. task' \in [Slots -> Tasks] /\ Only(i) /\ task'[i] = next  BY <1>1, <1>6, TaskFacts, ChangeMoves
  <1>9. ShapeInv'
    BY <1>1, <1>6, <1>7, <1>8, SameFacts, ShapeKept DEF ShapeInv, TypeOK, SessionChanges
  <1> QED  BY <1>1, <1>2, <1>3, <1>5, <1>7, <1>8, <1>9, SameFacts DEF s

LEMMA HandleExistingSessionMoves ==
    ASSUME ShapeInv, NEW i \in Slots, HandleExistingSession(i)
    PROVE  LET s == task'[i].session IN
           /\ ShapeInv' /\ Began(i, "run", "hot") /\ s \in Sessions
           /\ session[s].status \in {"idle", "error"} /\ SessionChanges(s)
           /\ session'[s].status = "processing"
           /\ session'[s].model = session[s].model /\ session'[s].hot = session[s].hot
           /\ session'[s].used = session[s].used /\ session'[s].left = session[s].left
           /\ disturbed' = disturbed \cup Disturbs(i, "run", Nobody)
           /\ UNCHANGED <<provider, model, default, handler, secrets>>
  <1>1. PICK s \in Sessions :
          /\ session[s].status \in {"idle", "error"}
          /\ Begins(i, [Free EXCEPT !.kind = "run", !.at = "hot", !.session = s])
          /\ session' = [session EXCEPT ![s].status = "processing"]
          /\ UNCHANGED <<provider, model, default>>
    BY DEF HandleExistingSession
  <1> DEFINE q == [Free EXCEPT !.kind = "run", !.at = "hot", !.session = s]
  <1>2. /\ q \in Tasks /\ TaskOk(q) /\ q.kind = "run" /\ q.at = "hot" /\ q.session = s
        /\ q.owner = Nobody
    BY RunTask
  <1>3. Begins(i, q)  BY <1>1
  <1> HIDE DEF q
  <1>4. /\ SessionChanges(s) /\ session'[s].status = "processing"
        /\ session'[s].model = session[s].model /\ session'[s].hot = session[s].hot
        /\ session'[s].used = session[s].used /\ session'[s].left = session[s].left
    BY <1>1 DEF SessionChanges, SessionRows, Statuses, ShapeInv, TypeOK
  <1>5. /\ task' \in [Slots -> Tasks] /\ task'[i] = q /\ Began(i, "run", "hot")
        /\ UNCHANGED <<secrets, handler, mishaps>> /\ requests' \in Nat
        /\ disturbed' = disturbed \cup Disturbs(i, "run", Nobody)
        /\ disturbed' \subseteq {"deletion", "refs", "cache", "handler"}
    BY <1>2, <1>3, BeginsMoves
  <1>6. ShapeInv'
    BY <1>1, <1>2, <1>4, <1>5, ShapeKept DEF ShapeInv, TypeOK, Began, SessionChanges
  <1> QED  BY <1>1, <1>2, <1>4, <1>5, <1>6

LEMMA GetHotContextMoves ==
    ASSUME ShapeInv, NEW i \in Slots, GetHotContext(i)
    PROVE  LET s == task[i].session IN
           /\ ShapeInv' /\ Only(i) /\ task[i].kind = "run" /\ s \in Sessions
           /\ task'[i].kind = "run" /\ task'[i].session = s
           /\ \/ task'[i].at = "run" /\ session[s].hot = <<task'[i].model>>
              \/ task'[i].at = "load" /\ session[s].hot = <<>>
           /\ UNCHANGED <<modelTables, handler, secrets, disturbed>>
  <1> DEFINE s == task[i].session
  <1>1. /\ task[i].kind = "run" /\ Same /\ UNCHANGED modelTables
        /\ task' = IF Cached(s) THEN [task EXCEPT ![i].at = "run", ![i].model = session[s].hot[1]]
                                ELSE [task EXCEPT ![i].at = "load"]
    BY DEF GetHotContext, At
  <1>2. s \in Sessions  BY <1>1, TaskFacts DEF TaskOk
  <1>3. session[s].hot \in HotContexts  BY <1>2 DEF ShapeInv, TypeOK, SessionRows
  <1>4. CASE session[s].hot # <<>>
    <2>1. PICK m \in SomeModel : session[s].hot = <<m>>  BY <1>3, <1>4 DEF HotContexts
    <2> DEFINE q == [task[i] EXCEPT !.at = "run", !.model = m]
    <2>2. session[s].hot[1] = m  BY <2>1
    <2>3. task' = [task EXCEPT ![i].at = "run", ![i].model = m]  BY <1>1, <1>4, <2>2 DEF Cached
    <2>4. task' = [task EXCEPT ![i] = q]  BY <2>3, TaskFacts DEF Tasks
    <2>5. q \in Tasks /\ q.kind = "run" /\ q.at = "run" /\ q.session = s /\ q.model = m
      BY <1>1, TaskFacts DEF Tasks, Places
    <2> HIDE DEF q
    <2>6. TaskOk(q)  BY <1>1, <1>2, <2>5, TaskFacts DEF TaskOk, Writers
    <2>7. task' \in [Slots -> Tasks] /\ Only(i) /\ task'[i] = q  BY <2>4, <2>5, TaskFacts, ChangeMoves
    <2>8. ShapeInv'  BY <1>1, <2>6, <2>7, SameFacts, TablesKept
    <2> QED  BY <1>1, <1>2, <2>1, <2>5, <2>7, <2>8, SameFacts
  <1>5. CASE session[s].hot = <<>>
    <2>1. Goes(i, "load")  BY <1>1, <1>5 DEF Cached, Goes
    <2>2. Went(i, "load") => TaskOk(task'[i])  BY <1>1, TaskFacts DEF Went, TaskOk, Writers
    <2>3. "load" \in Places  BY DEF Places
    <2>4. ShapeInv' /\ Only(i) /\ Went(i, "load")
      BY <1>1, <2>1, <2>2, <2>3, SameFacts, GoesQuietly
    <2> QED  BY <1>1, <1>2, <1>5, <2>4, SameFacts DEF Went
  <1> QED  BY <1>4, <1>5

LEMMA ResolveModelForSessionMoves ==
    ASSUME ShapeInv, NEW i \in Slots, ResolveModelForSession(i)
    PROVE  /\ ShapeInv' /\ Only(i) /\ task[i].kind = "run" /\ task[i].at = "load"
           /\ task'[i].kind = "run" /\ task'[i].session = task[i].session
           /\ task'[i].at \in {"cache", "fail"}
           /\ UNCHANGED <<modelTables, handler, secrets, disturbed>>
  <1> DEFINE m == ModelOf(task[i].session)
  <1>1. /\ task[i].kind = "run" /\ task[i].at = "load" /\ Same /\ UNCHANGED modelTables
        /\ Goes(i, "fail") \/ task' = [task EXCEPT ![i].model = m, ![i].at = "cache"]
    BY DEF ResolveModelForSession, At
  <1>2. m \in SomeModel  BY DEF ModelOf, ShapeInv, TypeOK, SomeModel
  <1> HIDE DEF m
  <1>3. CASE Goes(i, "fail")
    <2>1. Went(i, "fail") => TaskOk(task'[i])  BY <1>1, TaskFacts DEF Went, TaskOk, Writers
    <2>2. "fail" \in Places  BY DEF Places
    <2>3. ShapeInv' /\ Only(i) /\ Went(i, "fail")
      BY <1>1, <1>3, <2>1, <2>2, SameFacts, GoesQuietly
    <2> QED  BY <1>1, <2>3, SameFacts DEF Went
  <1>4. CASE task' = [task EXCEPT ![i].model = m, ![i].at = "cache"]
    <2> DEFINE q == [task[i] EXCEPT !.model = m, !.at = "cache"]
    <2>1. task' = [task EXCEPT ![i] = q]  BY <1>4, TaskFacts DEF Tasks
    <2>2. q \in Tasks /\ q.kind = "run" /\ q.at = "cache" /\ q.session = task[i].session
      <3>1. task[i] \in Tasks  BY TaskFacts
      <3>2. "cache" \in Places  BY DEF Places
      <3>3. q \in Tasks  BY <1>2, <3>1, <3>2 DEF Tasks
      <3>4. q.kind = task[i].kind /\ q.at = "cache" /\ q.session = task[i].session
        BY <3>1 DEF Tasks
      <3> QED  BY <1>1, <3>3, <3>4
    <2> HIDE DEF q
    <2>3. TaskOk(q)  BY <1>1, <2>2, TaskFacts DEF TaskOk, Writers
    <2>4. task' \in [Slots -> Tasks] /\ Only(i) /\ task'[i] = q  BY <2>1, <2>2, TaskFacts, ChangeMoves
    <2>5. ShapeInv'  BY <1>1, <2>3, <2>4, SameFacts, TablesKept
    <2> QED  BY <1>1, <2>2, <2>4, <2>5, SameFacts
  <1> QED  BY <1>1, <1>3, <1>4

LEMMA SaveHotContextMoves ==
    ASSUME ShapeInv, NEW i \in Slots, SaveHotContext(i)
    PROVE  LET s == task[i].session IN
           /\ ShapeInv' /\ Only(i) /\ task[i].kind = "run" /\ task[i].at = "cache" /\ s \in Sessions
           /\ Went(i, "run") /\ SessionChanges(s) /\ session'[s].hot = <<task[i].model>>
           /\ session'[s].status = session[s].status /\ session'[s].model = session[s].model
           /\ session'[s].used = session[s].used /\ session'[s].left = session[s].left
           /\ UNCHANGED <<provider, model, default, handler, secrets, disturbed>>
  <1> DEFINE s == task[i].session  hot == <<task[i].model>>
  <1>1. /\ task[i].kind = "run" /\ task[i].at = "cache" /\ Same /\ Goes(i, "run")
        /\ session' = [session EXCEPT ![s].hot = hot]
        /\ UNCHANGED <<provider, model, default>>
    BY DEF SaveHotContext, At
  <1>2. s \in Sessions  BY <1>1, TaskFacts DEF TaskOk
  <1>3. hot \in HotContexts  BY TaskFacts DEF Tasks, HotContexts
  <1> HIDE DEF hot, s
  <1>4. /\ SessionChanges(s) /\ session'[s].hot = hot
        /\ session'[s].status = session[s].status /\ session'[s].model = session[s].model
        /\ session'[s].used = session[s].used /\ session'[s].left = session[s].left
    BY <1>1, <1>2, <1>3 DEF SessionChanges, SessionRows, ShapeInv, TypeOK
  <1>5. task' \in [Slots -> Tasks] /\ Only(i) /\ Went(i, "run")
    BY <1>1, TaskFacts, GoesMoves DEF Places
  <1>6. TaskOk(task'[i])  BY <1>1, <1>5, TaskFacts DEF Went, TaskOk, Writers
  <1>7. ShapeInv'
    BY <1>1, <1>4, <1>5, <1>6, SameFacts, ShapeKept DEF ShapeInv, TypeOK, SessionChanges
  <1> QED  BY <1>1, <1>2, <1>4, <1>5, <1>7, SameFacts DEF hot, s

LEMMA EndRunMoves ==
    ASSUME ShapeInv, NEW i \in Slots, EndRun(i)
    PROVE  LET s == task[i].session IN
           /\ ShapeInv' /\ Only(i) /\ task[i].kind = "run" /\ task'[i] = Free /\ s \in Sessions
           /\ SessionChanges(s) /\ session'[s].status \in {"idle", "error", "closed"}
           /\ session'[s].hot = session[s].hot /\ session'[s].model = session[s].model
           /\ session'[s].left = session[s].left
           /\ \/ session'[s].used = session[s].used
              \/ task[i].at = "run" /\ session'[s].used = session[s].used \cup {task[i].model}
           /\ UNCHANGED <<provider, model, default, handler, secrets, disturbed>>
  <1> DEFINE s == task[i].session
             used == IF task[i].at = "run" THEN session[s].used \cup {task[i].model} ELSE session[s].used
  <1>1. task[i].kind = "run" /\ Same /\ Ends(i) /\ UNCHANGED <<provider, model, default>>
    BY DEF EndRun
  <1>2. PICK status \in {"idle", "error", "closed"} :
          session' = [session EXCEPT ![s].status = status, ![s].used = used]
    <2>1. PICK status \in (IF task[i].at = "run" THEN {"idle", "error"} ELSE {"error"})
                            \cup ({session[s].status} \cap {"closed"}) :
            session' = [session EXCEPT ![s].status = status,
                                       ![s].used = IF task[i].at = "run" THEN @ \cup {task[i].model} ELSE @]
      BY DEF EndRun
    <2>2. status \in {"idle", "error", "closed"}  OBVIOUS
    <2>3. session \in [Sessions -> SessionRows] /\ s \in Sessions
      BY <1>1, TaskFacts DEF TaskOk, ShapeInv, TypeOK
    <2>4. session' = [session EXCEPT ![s].status = status, ![s].used = used]
      BY <2>1, <2>3 DEF SessionRows
    <2> QED  BY <2>2, <2>4
  <1>3. s \in Sessions /\ task[i].model \in SomeModel  BY <1>1, TaskFacts DEF TaskOk, Tasks
  <1>4. session[s].used \subseteq SomeModel  BY <1>3 DEF ShapeInv, TypeOK, SessionRows
  <1>5. used \subseteq SomeModel  BY <1>3, <1>4
  <1>6. \/ used = session[s].used
        \/ task[i].at = "run" /\ used = session[s].used \cup {task[i].model}
    OBVIOUS
  <1> HIDE DEF used, s
  <1>7. /\ SessionChanges(s) /\ session'[s].status = status /\ session'[s].used = used
        /\ session'[s].hot = session[s].hot /\ session'[s].model = session[s].model
        /\ session'[s].left = session[s].left
    BY <1>2, <1>3, <1>5 DEF SessionChanges, SessionRows, Statuses, ShapeInv, TypeOK
  <1>8. task' \in [Slots -> Tasks] /\ Only(i) /\ task'[i] = Free  BY <1>1, TaskFacts, EndsMoves
  <1>9. ShapeInv'
    BY <1>1, <1>7, <1>8, FreeFacts, SameFacts, ShapeKept DEF ShapeInv, TypeOK, SessionChanges
  <1> QED  BY <1>1, <1>3, <1>6, <1>7, <1>8, <1>9, SameFacts DEF s

LEMMA CloseSessionMoves ==
    ASSUME ShapeInv, NEW s \in Sessions, CloseSession(s)
    PROVE  /\ ShapeInv' /\ session[s].status \in {"idle", "processing", "error"}
           /\ SessionChanges(s) /\ session'[s].status = "closed"
           /\ session'[s].hot = session[s].hot /\ session'[s].model = session[s].model
           /\ session'[s].used = session[s].used /\ session'[s].left = session[s].left
           /\ UNCHANGED <<task, provider, model, default, handler, secrets, disturbed>>
  <1>1. /\ session[s].status \in {"idle", "processing", "error"} /\ Same
        /\ session' = [session EXCEPT ![s].status = "closed"]
        /\ UNCHANGED <<task, provider, model, default>>
    BY DEF CloseSession
  <1>2. /\ SessionChanges(s) /\ session'[s].status = "closed"
        /\ session'[s].hot = session[s].hot /\ session'[s].model = session[s].model
        /\ session'[s].used = session[s].used /\ session'[s].left = session[s].left
    BY <1>1 DEF SessionChanges, SessionRows, Statuses, ShapeInv, TypeOK
  <1>3. ShapeInv'  BY <1>1, <1>2, SameFacts DEF ShapeInv, TypeOK, SessionChanges
  <1> QED  BY <1>1, <1>2, <1>3, SameFacts

(* Mishaps.                                                                *)

LEMMA BrokerFailsMoves ==
    ASSUME ShapeInv, NEW i \in Slots, BrokerFails(i)
    PROVE  /\ ShapeInv' /\ Only(i) /\ task[i].kind \in Writers \cup {"session", "run"}
           /\ \/ task'[i] = Free /\ task[i].kind # "run"
              \/ task[i].kind = "run" /\ Went(i, "fail")
           /\ UNCHANGED <<modelTables, handler, secrets, disturbed>>
  <1>1. /\ task[i].kind \in Writers \cup {"session", "run"} /\ Mishap
        /\ UNCHANGED <<secrets, modelTables, handler, disturbed>>
        /\ \/ Ends(i) /\ task[i].kind # "run"
           \/ task[i].kind = "run" /\ Goes(i, "fail")
    BY DEF BrokerFails, At
  <1>2. disturbed' \subseteq {"deletion", "refs", "cache", "handler"}
    BY <1>1 DEF ShapeInv, TypeOK
  <1>3. requests' \in Nat /\ mishaps' \in Nat  BY <1>1, MishapCounts DEF ShapeInv, TypeOK
  <1>4. CASE Ends(i) /\ task[i].kind # "run"  BY <1>1, <1>2, <1>3, <1>4, EndsQuietly
  <1>5. CASE task[i].kind = "run" /\ Goes(i, "fail")
    <2>1. Went(i, "fail") => TaskOk(task'[i])  BY <1>5, TaskFacts DEF Went, TaskOk, Writers
    <2>2. "fail" \in Places  BY DEF Places
    <2> QED  BY <1>1, <1>2, <1>3, <1>5, <2>1, <2>2, GoesQuietly
  <1> QED  BY <1>1, <1>4, <1>5

LEMMA CacheUnavailableMoves ==
    ASSUME ShapeInv, NEW i \in Slots, CacheUnavailable(i)
    PROVE  /\ ShapeInv' /\ Only(i) /\ task[i].kind = "run"
           /\ task'[i].kind = "run" /\ task'[i].session = task[i].session
           /\ disturbed' = disturbed \cup {"cache"}
           /\ UNCHANGED <<modelTables, handler, secrets>>
  <1> DEFINE place == IF task[i].at = "hot" THEN "load" ELSE "run"
  <1>1. /\ task[i].kind = "run" /\ Mishap /\ Goes(i, place)
        /\ disturbed' = disturbed \cup {"cache"}
        /\ UNCHANGED <<secrets, modelTables, handler>>
    BY DEF CacheUnavailable
  <1>2. disturbed' \subseteq {"deletion", "refs", "cache", "handler"}
    BY <1>1 DEF ShapeInv, TypeOK
  <1>3. requests' \in Nat /\ mishaps' \in Nat  BY <1>1, MishapCounts DEF ShapeInv, TypeOK
  <1>4. place \in {"load", "run"} /\ place \in Places  BY DEF Places
  <1> HIDE DEF place
  <1>5. Went(i, place) => TaskOk(task'[i])  BY <1>1, <1>4, TaskFacts DEF Went, TaskOk, Writers
  <1>6. ShapeInv' /\ Only(i) /\ Went(i, place)
    BY <1>1, <1>2, <1>3, <1>4, <1>5, GoesQuietly
  <1> QED  BY <1>1, <1>6 DEF Went

LEMMA RequestLostMoves ==
    ASSUME ShapeInv, NEW i \in Slots, RequestLost(i)
    PROVE  /\ ShapeInv' /\ Only(i) /\ task[i].kind \in Others
           /\ \/ task'[i] = Free /\ task[i].kind # "run"
              \/ /\ task[i].kind = "run" /\ task'[i].kind = "run" /\ task'[i].at = "hot"
                 /\ task'[i].session = task[i].session
           /\ disturbed' = disturbed \cup (IF task[i].kind \in Deletions THEN {"deletion"} ELSE {})
           /\ UNCHANGED <<modelTables, handler, secrets>>
  <1>1. /\ task[i].kind \in Others /\ Mishap
        /\ disturbed' = disturbed \cup (IF task[i].kind \in Deletions THEN {"deletion"} ELSE {})
        /\ UNCHANGED <<secrets, modelTables, handler>>
        /\ task' = [task EXCEPT ![i] = IF @.kind = "run" THEN [@ EXCEPT !.at = "hot", !.model = NoModel]
                                                         ELSE Free]
    BY DEF RequestLost
  <1>2. disturbed' \subseteq {"deletion", "refs", "cache", "handler"}
    BY <1>1 DEF ShapeInv, TypeOK
  <1>3. requests' \in Nat /\ mishaps' \in Nat  BY <1>1, MishapCounts DEF ShapeInv, TypeOK
  <1>4. CASE task[i].kind # "run"
    <2>1. Ends(i)  BY <1>1, <1>4 DEF Ends
    <2> QED  BY <1>1, <1>2, <1>3, <1>4, <2>1, EndsQuietly
  <1>5. CASE task[i].kind = "run"
    <2> DEFINE q == [task[i] EXCEPT !.at = "hot", !.model = NoModel]
    <2>1. task' = [task EXCEPT ![i] = q]  BY <1>1, <1>5
    <2>2. q \in Tasks /\ q.kind = "run" /\ q.at = "hot" /\ q.session = task[i].session
      BY <1>5, TaskFacts DEF Tasks, Places, SomeModel
    <2> HIDE DEF q
    <2>3. TaskOk(q)  BY <1>5, <2>2, TaskFacts DEF TaskOk, Writers
    <2>4. task' \in [Slots -> Tasks] /\ Only(i) /\ task'[i] = q  BY <2>1, <2>2, TaskFacts, ChangeMoves
    <2>5. ShapeInv'  BY <1>1, <1>2, <1>3, <2>3, <2>4, TablesKept
    <2> QED  BY <1>1, <1>5, <2>2, <2>4, <2>5
  <1> QED  BY <1>4, <1>5

(* Egress handlers.                                                        *)

LEMMA HandlersSameFacts ==
    ASSUME ShapeInv, HandlersSame
    PROVE  /\ UNCHANGED <<modelTables, requests, mishaps, disturbed>>
           /\ requests' \in Nat /\ mishaps' \in Nat
           /\ disturbed' \subseteq {"deletion", "refs", "cache", "handler"}
  BY DEF HandlersSame, ShapeInv, TypeOK

LEMMA ConfigureEgressHandlerMoves ==
    ASSUME ShapeInv, NEW i \in Slots, ConfigureEgressHandler(i)
    PROVE  LET h == task'[i].owner IN
           /\ ShapeInv' /\ Only(i) /\ task[i].kind = "none" /\ task[i].at = "free"
           /\ h \in Handlers /\ task'[i].kind = "configure" /\ task'[i].session = Nobody
           /\ \/ /\ task'[i].at = "put" /\ task'[i].todo = {"required"} /\ task'[i].keys = {"required"}
              \/ task'[i].at = "record" /\ (task'[i].keys # {} <=> handler[h].keyed)
           /\ disturbed' = disturbed \cup (IF ~AtRest(h) THEN {"handler"} ELSE {})
           /\ UNCHANGED <<modelTables, handler, secrets>>
  <1>1. PICK h \in Handlers, given \in SUBSET {"required"}, enabled \in BOOLEAN :
          BeginsOn(i, ConfigureRequest(h, given, enabled))
    BY DEF ConfigureEgressHandler
  <1> DEFINE q == ConfigureRequest(h, given, enabled)
  <1>2. /\ q \in Tasks /\ q.kind = "configure" /\ q.owner = h /\ q.session = Nobody
        /\ q.todo = given /\ q.keys = given \cup (IF handler[h].keyed THEN {"required"} ELSE {})
        /\ q.at = IF given = {} THEN "record" ELSE "put"
    BY DEF ConfigureRequest, Free, Tasks, Kinds, Places, Keys, Writing, SomeModel
  <1>3. BeginsOn(i, q)  BY <1>1
  <1> HIDE DEF q
  <1>4. TaskOk(q)  BY <1>2 DEF TaskOk, Writers
  <1>5. /\ task' \in [Slots -> Tasks] /\ task'[i] = q /\ Began(i, q.kind, q.at)
        /\ UNCHANGED <<secrets, handler, modelTables, mishaps>> /\ requests' \in Nat
        /\ disturbed' = disturbed \cup (IF q.kind \in Writing /\ ~AtRest(q.owner) THEN {"handler"} ELSE {})
        /\ disturbed' \subseteq {"deletion", "refs", "cache", "handler"}
    BY <1>2, <1>3, BeginsOnMoves
  <1>6. ShapeInv'  BY <1>4, <1>5, TablesKept DEF ShapeInv, TypeOK, Began
  <1>7. q.kind \in Writing  BY <1>2 DEF Writing
  <1>8. handler[h].keyed \in BOOLEAN  BY DEF ShapeInv, TypeOK, Rows
  <1>9. \/ q.at = "put" /\ q.todo = {"required"} /\ q.keys = {"required"}
        \/ q.at = "record" /\ (q.keys # {} <=> handler[h].keyed)
    BY <1>2, <1>8
  <1> QED  BY <1>2, <1>5, <1>6, <1>7, <1>9 DEF Began

LEMMA SetEgressHandlerEnabledMoves ==
    ASSUME ShapeInv, NEW i \in Slots, SetEgressHandlerEnabled(i)
    PROVE  LET h == task'[i].owner IN
           /\ ShapeInv' /\ Only(i) /\ task[i].kind = "none" /\ task[i].at = "free"
           /\ h \in Handlers /\ task'[i].kind = "toggle" /\ task'[i].session = Nobody
           /\ task'[i].at = "record" /\ (task'[i].keys # {} <=> handler[h].keyed)
           /\ disturbed' = disturbed \cup (IF ~AtRest(h) THEN {"handler"} ELSE {})
           /\ UNCHANGED <<modelTables, handler, secrets>>
  <1>1. PICK h \in Handlers, enabled \in BOOLEAN : BeginsOn(i, ToggleRequest(h, enabled))
    BY DEF SetEgressHandlerEnabled
  <1> DEFINE q == ToggleRequest(h, enabled)
  <1>2. /\ q \in Tasks /\ q.kind = "toggle" /\ q.owner = h /\ q.session = Nobody /\ q.at = "record"
        /\ q.keys = IF handler[h].keyed THEN {"required"} ELSE {}
    BY DEF ToggleRequest, KeptKeys, Free, Tasks, Kinds, Places, Keys, Writing, SomeModel
  <1>3. BeginsOn(i, q)  BY <1>1
  <1> HIDE DEF q
  <1>4. TaskOk(q)  BY <1>2 DEF TaskOk, Writers
  <1>5. /\ task' \in [Slots -> Tasks] /\ task'[i] = q /\ Began(i, q.kind, q.at)
        /\ UNCHANGED <<secrets, handler, modelTables, mishaps>> /\ requests' \in Nat
        /\ disturbed' = disturbed \cup (IF q.kind \in Writing /\ ~AtRest(q.owner) THEN {"handler"} ELSE {})
        /\ disturbed' \subseteq {"deletion", "refs", "cache", "handler"}
    BY <1>2, <1>3, BeginsOnMoves
  <1>6. ShapeInv'  BY <1>4, <1>5, TablesKept DEF ShapeInv, TypeOK, Began
  <1>7. q.kind \in Writing  BY <1>2 DEF Writing
  <1>8. handler[h].keyed \in BOOLEAN  BY DEF ShapeInv, TypeOK, Rows
  <1> QED  BY <1>2, <1>5, <1>6, <1>7, <1>8 DEF Began

LEMMA UpsertHandlerMoves ==
    ASSUME ShapeInv, NEW i \in Slots, UpsertHandler(i)
    PROVE  LET h == task[i].owner IN
           /\ ShapeInv' /\ Only(i) /\ task'[i] = Free /\ task[i].at = "record"
           /\ task[i].kind \in {"configure", "toggle"} /\ h \in Handlers
           /\ handler'[h].keyed <=> task[i].keys # {}
           /\ \A g \in Handlers \ {h} : handler'[g] = handler[g]
           /\ UNCHANGED <<modelTables, secrets, disturbed>>
  <1> DEFINE h == task[i].owner
             row == [at |-> "configured", enabled |-> task[i].flag, keyed |-> task[i].keys # {}]
  <1>1. /\ task[i].kind \in {"configure", "toggle"} /\ task[i].at = "record"
        /\ handler' = [handler EXCEPT ![h] = row]
        /\ Ends(i) /\ HandlersSame /\ UNCHANGED secrets
    BY DEF UpsertHandler, At
  <1>2. h \in Handlers  BY <1>1, TaskFacts DEF TaskOk
  <1>3. row \in Rows /\ (row.keyed <=> task[i].keys # {})  BY TaskFacts DEF Tasks, Rows
  <1> HIDE DEF row, h
  <1>4. handler' \in [Handlers -> Rows]  BY <1>1, <1>3 DEF ShapeInv, TypeOK
  <1>5. handler'[h] = row /\ \A g \in Handlers \ {h} : handler'[g] = handler[g]
    BY <1>1, <1>2 DEF ShapeInv, TypeOK
  <1>6. task' \in [Slots -> Tasks] /\ Only(i) /\ task'[i] = Free  BY <1>1, TaskFacts, EndsMoves
  <1>7. ShapeInv'
    BY <1>1, <1>4, <1>6, FreeFacts, HandlersSameFacts, ShapeKept DEF ShapeInv, TypeOK, modelTables
  <1> QED  BY <1>1, <1>2, <1>3, <1>5, <1>6, <1>7, HandlersSameFacts DEF h

LEMMA DeleteEgressHandlerMoves ==
    ASSUME ShapeInv, NEW i \in Slots, DeleteEgressHandler(i)
    PROVE  LET h == task'[i].owner IN
           /\ ShapeInv' /\ Only(i) /\ task[i].kind = "none" /\ task[i].at = "free"
           /\ h \in Handlers /\ task'[i].kind = "remove" /\ task'[i].session = Nobody
           /\ \/ task'[i].at = "forget" /\ handler[h].keyed
              \/ task'[i].at = "remove" /\ ~ handler[h].keyed
           /\ disturbed' = disturbed \cup (IF ~AtRest(h) THEN {"handler"} ELSE {})
           /\ UNCHANGED <<modelTables, handler, secrets>>
  <1>1. PICK h \in Handlers : BeginsOn(i, RemovalRequest(h))
    BY DEF DeleteEgressHandler
  <1> DEFINE q == RemovalRequest(h)
  <1>2. /\ q \in Tasks /\ q.kind = "remove" /\ q.owner = h /\ q.session = Nobody
        /\ q.at = IF handler[h].keyed THEN "forget" ELSE "remove"
    BY DEF RemovalRequest, Free, Tasks, Kinds, Places, Keys, Writing, SomeModel
  <1>3. BeginsOn(i, q)  BY <1>1
  <1> HIDE DEF q
  <1>4. TaskOk(q)  BY <1>2 DEF TaskOk, Writers
  <1>5. /\ task' \in [Slots -> Tasks] /\ task'[i] = q /\ Began(i, q.kind, q.at)
        /\ UNCHANGED <<secrets, handler, modelTables, mishaps>> /\ requests' \in Nat
        /\ disturbed' = disturbed \cup (IF q.kind \in Writing /\ ~AtRest(q.owner) THEN {"handler"} ELSE {})
        /\ disturbed' \subseteq {"deletion", "refs", "cache", "handler"}
    BY <1>2, <1>3, BeginsOnMoves
  <1>6. ShapeInv'  BY <1>4, <1>5, TablesKept DEF ShapeInv, TypeOK, Began
  <1>7. q.kind \in Writing  BY <1>2 DEF Writing
  <1>8. handler[h].keyed \in BOOLEAN  BY DEF ShapeInv, TypeOK, Rows
  <1> QED  BY <1>2, <1>5, <1>6, <1>7, <1>8 DEF Began

LEMMA DeleteSecretMoves ==
    ASSUME ShapeInv, NEW i \in Slots, DeleteSecret(i)
    PROVE  LET h == task[i].owner IN
           /\ ShapeInv' /\ Only(i) /\ Went(i, "remove") /\ task[i].kind = "remove" /\ h \in Handlers
           /\ task[i].at = "forget"
           /\ secrets' = {x \in secrets : x[1] # h}
           /\ UNCHANGED <<modelTables, handler, disturbed>>
  <1>1. /\ task[i].kind = "remove" /\ task[i].at = "forget" /\ Goes(i, "remove")
        /\ secrets' = {x \in secrets : x[1] # task[i].owner}
        /\ HandlersSame /\ UNCHANGED handler
    BY DEF DeleteSecret, Forgotten, At
  <1>2. task[i].owner \in Handlers  BY <1>1, TaskFacts DEF TaskOk
  <1>3. task' \in [Slots -> Tasks] /\ Only(i) /\ Went(i, "remove")
    BY <1>1, TaskFacts, GoesMoves DEF Places
  <1>4. TaskOk(task'[i])  BY <1>1, <1>3, TaskFacts DEF Went, TaskOk, Writers
  <1>5. secrets' \subseteq (Providers \cup Handlers) \X Keys  BY <1>1 DEF ShapeInv, TypeOK
  <1>6. ShapeInv'
    BY <1>1, <1>3, <1>4, <1>5, HandlersSameFacts, ShapeKept DEF ShapeInv, TypeOK, modelTables
  <1> QED  BY <1>1, <1>2, <1>3, <1>6, HandlersSameFacts

LEMMA RemoveHandlerMoves ==
    ASSUME ShapeInv, NEW i \in Slots, RemoveHandler(i)
    PROVE  LET h == task[i].owner IN
           /\ ShapeInv' /\ Only(i) /\ task'[i] = Free /\ task[i].at = "remove"
           /\ task[i].kind = "remove" /\ h \in Handlers /\ ~ handler'[h].keyed
           /\ \A g \in Handlers \ {h} : handler'[g] = handler[g]
           /\ UNCHANGED <<modelTables, secrets, disturbed>>
  <1> DEFINE h == task[i].owner
  <1>1. /\ task[i].kind = "remove" /\ task[i].at = "remove"
        /\ handler' = [handler EXCEPT ![h] = NoRow]
        /\ Ends(i) /\ HandlersSame /\ UNCHANGED secrets
    BY DEF RemoveHandler, At
  <1>2. h \in Handlers  BY <1>1, TaskFacts DEF TaskOk
  <1>3. NoRow \in Rows /\ ~ NoRow.keyed  BY DEF NoRow, Rows
  <1> HIDE DEF h
  <1>4. handler' \in [Handlers -> Rows]  BY <1>1, <1>3 DEF ShapeInv, TypeOK
  <1>5. handler'[h] = NoRow /\ \A g \in Handlers \ {h} : handler'[g] = handler[g]
    BY <1>1, <1>2 DEF ShapeInv, TypeOK
  <1>6. task' \in [Slots -> Tasks] /\ Only(i) /\ task'[i] = Free  BY <1>1, TaskFacts, EndsMoves
  <1>7. ShapeInv'
    BY <1>1, <1>4, <1>6, FreeFacts, HandlersSameFacts, ShapeKept DEF ShapeInv, TypeOK, modelTables
  <1> QED  BY <1>1, <1>2, <1>3, <1>5, <1>6, <1>7, HandlersSameFacts DEF h

LEMMA RouteOutboundRequestMoves ==
    ASSUME ShapeInv, NEW i \in Slots, RouteOutboundRequest(i)
    PROVE  /\ ShapeInv' /\ Only(i) /\ task[i].kind = "none" /\ task[i].at = "free"
           /\ task'[i].kind = "outbound" /\ task'[i].session = Nobody
           /\ "required" \in task'[i].keys => task'[i].flag
           /\ disturbed' = disturbed
           /\ UNCHANGED <<modelTables, handler, secrets>>
  <1>1. PICK h \in Handlers, place \in {"resolve", "send"} :
          BeginsOn(i, [Free EXCEPT !.kind = "outbound", !.owner = h,
                                   !.keys = IF Listed(h) THEN KeptKeys(h) ELSE {},
                                   !.flag = handler[h].enabled, !.at = place])
    BY DEF RouteOutboundRequest
  <1> DEFINE refs == IF Listed(h) THEN KeptKeys(h) ELSE {}
             q == [Free EXCEPT !.kind = "outbound", !.owner = h, !.keys = refs,
                               !.flag = handler[h].enabled, !.at = place]
  <1>2. handler[h].enabled \in BOOLEAN  BY DEF ShapeInv, TypeOK, Rows
  <1>3. refs \subseteq Keys /\ ("required" \in refs => handler[h].enabled)
    BY DEF Listed, KeptKeys, Keys
  <1>4. BeginsOn(i, q)  BY <1>1
  <1> HIDE DEF refs
  <1>5. /\ q \in Tasks /\ q.kind = "outbound" /\ q.owner = h /\ q.session = Nobody /\ q.at = place
        /\ q.keys = refs /\ q.flag = handler[h].enabled
    BY <1>2, <1>3 DEF Free, Tasks, Kinds, Places, SomeModel
  <1> HIDE DEF q
  <1>6. TaskOk(q)  BY <1>5 DEF TaskOk, Writers
  <1>7. /\ task' \in [Slots -> Tasks] /\ task'[i] = q /\ Began(i, q.kind, q.at)
        /\ UNCHANGED <<secrets, handler, modelTables, mishaps>> /\ requests' \in Nat
        /\ disturbed' = disturbed \cup (IF q.kind \in Writing /\ ~AtRest(q.owner) THEN {"handler"} ELSE {})
        /\ disturbed' \subseteq {"deletion", "refs", "cache", "handler"}
    BY <1>4, <1>5, BeginsOnMoves
  <1>8. ShapeInv'  BY <1>6, <1>7, TablesKept DEF ShapeInv, TypeOK, Began
  <1>9. q.kind \notin Writing  BY <1>5 DEF Writing
  <1> QED  BY <1>3, <1>5, <1>7, <1>8, <1>9 DEF Began

LEMMA ResolveEgressHandlerMoves ==
    ASSUME ShapeInv, NEW i \in Slots, ResolveEgressHandler(i)
    PROVE  /\ ShapeInv' /\ Only(i) /\ task[i].kind = "outbound"
           /\ task'[i].kind = "outbound" /\ task'[i].session = task[i].session
           /\ task'[i].keys \subseteq task[i].keys /\ task'[i].flag = task[i].flag
           /\ UNCHANGED <<modelTables, handler, secrets, disturbed>>
  <1> DEFINE found == {k \in task[i].keys : Holds(task[i].owner, k)}
             q == [task[i] EXCEPT !.at = "send", !.keys = found]
  <1>1. /\ task[i].kind = "outbound" /\ HandlersSame /\ UNCHANGED <<handler, secrets>>
        /\ task' = [task EXCEPT ![i].at = "send", ![i].keys = {k \in @ : Holds(task[i].owner, k)}]
    BY DEF ResolveEgressHandler, At
  <1>2. task' = [task EXCEPT ![i] = q]  BY <1>1, TaskFacts DEF Tasks
  <1>3. found \subseteq task[i].keys  OBVIOUS
  <1> HIDE DEF found
  <1>4. /\ q \in Tasks /\ q.kind = "outbound" /\ q.at = "send" /\ q.session = task[i].session
        /\ q.owner = task[i].owner /\ q.keys = found /\ q.flag = task[i].flag
    BY <1>1, <1>3, TaskFacts DEF Tasks, Places
  <1> HIDE DEF q
  <1>5. TaskOk(q)  BY <1>1, <1>4, TaskFacts DEF TaskOk, Writers
  <1>6. task' \in [Slots -> Tasks] /\ Only(i) /\ task'[i] = q  BY <1>2, <1>4, TaskFacts, ChangeMoves
  <1>7. ShapeInv'  BY <1>1, <1>5, <1>6, HandlersSameFacts, TablesKept
  <1> QED  BY <1>1, <1>3, <1>4, <1>6, <1>7, HandlersSameFacts

LEMMA SendOutboundMoves ==
    ASSUME ShapeInv, NEW i \in Slots, SendOutbound(i)
    PROVE  /\ ShapeInv' /\ Only(i) /\ task[i].kind = "outbound" /\ task'[i] = Free
           /\ UNCHANGED <<modelTables, handler, secrets, disturbed>>
  BY HandlersSameFacts, EndsQuietly DEF SendOutbound, At

LEMMA BrokerFailsHandlerMoves ==
    ASSUME ShapeInv, NEW i \in Slots, BrokerFailsHandler(i)
    PROVE  /\ ShapeInv' /\ Only(i) /\ task[i].kind \in {"configure", "remove", "outbound"}
           /\ \/ /\ task[i].kind = "remove" /\ task'[i].kind = "remove" /\ task'[i].session = task[i].session
                 /\ disturbed' = disturbed \cup {"handler"}
              \/ /\ task'[i] = Free /\ disturbed' = disturbed
                 /\ (task[i].kind = "configure" /\ task[i].at = "put") \/ task[i].kind = "outbound"
           /\ UNCHANGED <<modelTables, handler, secrets>>
  <1>1. /\ Mishap /\ UNCHANGED <<modelTables, handler, secrets>>
        /\ \/ /\ task[i].kind = "remove" /\ Goes(i, "remove")
              /\ disturbed' = disturbed \cup {"handler"}
           \/ /\ Ends(i) /\ UNCHANGED disturbed
              /\ (task[i].kind = "configure" /\ task[i].at = "put") \/ task[i].kind = "outbound"
    BY DEF BrokerFailsHandler, At
  <1>2. disturbed' \subseteq {"deletion", "refs", "cache", "handler"}
    BY <1>1 DEF ShapeInv, TypeOK
  <1>3. requests' \in Nat /\ mishaps' \in Nat  BY <1>1, MishapCounts DEF ShapeInv, TypeOK
  <1>4. CASE Ends(i) /\ UNCHANGED disturbed
             /\ ((task[i].kind = "configure" /\ task[i].at = "put") \/ task[i].kind = "outbound")
    BY <1>1, <1>2, <1>3, <1>4, EndsQuietly
  <1>5. CASE task[i].kind = "remove" /\ Goes(i, "remove") /\ disturbed' = disturbed \cup {"handler"}
    <2>1. Went(i, "remove") => TaskOk(task'[i])  BY <1>5, TaskFacts DEF Went, TaskOk, Writers
    <2>2. "remove" \in Places  BY DEF Places
    <2>3. ShapeInv' /\ Only(i) /\ Went(i, "remove")
      BY <1>1, <1>2, <1>3, <1>5, <2>1, <2>2, GoesQuietly
    <2> QED  BY <1>1, <1>5, <2>3 DEF Went
  <1> QED  BY <1>1, <1>4, <1>5

LEMMA HandlerRequestLostMoves ==
    ASSUME ShapeInv, NEW i \in Slots, HandlerRequestLost(i)
    PROVE  /\ ShapeInv' /\ Only(i) /\ task'[i] = Free
           /\ \/ task[i].kind \in Writing /\ disturbed' = disturbed \cup {"handler"}
              \/ task[i].kind = "outbound" /\ disturbed' = disturbed
           /\ UNCHANGED <<modelTables, handler, secrets>>
  <1>1. /\ Mishap /\ Ends(i) /\ UNCHANGED <<modelTables, handler, secrets>>
        /\ \/ task[i].kind \in Writing /\ disturbed' = disturbed \cup {"handler"}
           \/ task[i].kind = "outbound" /\ disturbed' = disturbed
    BY DEF HandlerRequestLost, Writing
  <1>2. disturbed' \subseteq {"deletion", "refs", "cache", "handler"}
    BY <1>1 DEF ShapeInv, TypeOK
  <1>3. requests' \in Nat /\ mishaps' \in Nat  BY <1>1, MishapCounts DEF ShapeInv, TypeOK
  <1> QED  BY <1>1, <1>2, <1>3, EndsQuietly

-----------------------------------------------------------------------------
(* The steps together, and what they leave alone.                          *)

ModelStep(i) ==
    \/ CreateProvider(i) \/ CreateModel(i) \/ CreateModelAndProvider(i)
    \/ UpdateModel(i) \/ RecordRefs(i) \/ Refused(i)
    \/ InsertModel(i) \/ SetWorkspaceDefault(i) \/ ChooseDefault(i)
    \/ WriteDefault(i) \/ DeleteProvider(i) \/ CountSessions(i)
    \/ ListModels(i) \/ ReadDefault(i) \/ DropModels(i)
    \/ ClearDefault(i) \/ DropProvider(i) \/ DeleteModel(i)
    \/ CountActiveSessionReferences(i) \/ FindModel(i) \/ DropModel(i)
    \/ CreateSession(i) \/ HandleNewSession(i) \/ ResolveModelForNewSession(i)
    \/ SaveSession(i) \/ HandleExistingSession(i) \/ GetHotContext(i)
    \/ ResolveModelForSession(i) \/ SaveHotContext(i) \/ EndRun(i)
    \/ BrokerFails(i) \/ CacheUnavailable(i) \/ RequestLost(i)

HandlerStep(i) ==
    \/ ConfigureEgressHandler(i) \/ SetEgressHandlerEnabled(i) \/ UpsertHandler(i)
    \/ DeleteEgressHandler(i) \/ DeleteSecret(i) \/ RemoveHandler(i)
    \/ RouteOutboundRequest(i) \/ ResolveEgressHandler(i) \/ SendOutbound(i)
    \/ BrokerFailsHandler(i) \/ HandlerRequestLost(i)

LEMMA NextCases ==
    ASSUME Next
    PROVE  \/ \E i \in Slots : PutSecret(i) \/ ModelStep(i) \/ HandlerStep(i)
           \/ \E s \in Sessions : CloseSession(s)
  BY Zenon DEF Next, ModelStep, HandlerStep

(* Requests about the models do not touch the handlers.                    *)
LEMMA ModelSteps ==
    ASSUME ShapeInv, NEW i \in Slots, ModelStep(i)
    PROVE  /\ ShapeInv' /\ Only(i) /\ UNCHANGED <<handler, secrets>>
           /\ task[i].kind \in Others \cup {"none"} /\ task'[i].kind \in Others \cup {"none"}
           /\ disturbed \subseteq disturbed'
           /\ \A m \in Models : model[m].at # "none" => model'[m].at # "none"
           /\ task'[i].kind = "dropModel" =>
                 \/ model[task'[i].model].at # "none"
                 \/ task[i].kind = "dropModel" /\ task'[i].model = task[i].model
  <1>1. CASE CreateProvider(i)
    BY <1>1, CreateProviderMoves, FreeFacts DEF modelTables, Began, Went, Others, Writers, Deletions
  <1>2. CASE CreateModel(i)
    BY <1>2, CreateModelMoves, FreeFacts DEF modelTables, Began, Went, Others, Writers, Deletions
  <1>3. CASE CreateModelAndProvider(i)
    BY <1>3, CreateModelAndProviderMoves, FreeFacts DEF modelTables, Began, Went, Others, Writers, Deletions
  <1>4. CASE UpdateModel(i)
    BY <1>4, UpdateModelMoves, FreeFacts DEF modelTables, Began, Went, Others, Writers, Deletions
  <1>5. CASE RecordRefs(i)
    BY <1>5, RecordRefsMoves, FreeFacts DEF modelTables, Began, Went, Others, Writers, Deletions
  <1>6. CASE Refused(i)
    BY <1>6, RefusedMoves, FreeFacts DEF modelTables, Began, Went, Others, Writers, Deletions
  <1>7. CASE InsertModel(i)
    <2>1. \A m \in Models : model[m].at # "none" => model'[m].at # "none"
      <3>1. model \in [Models -> ModelRows]  BY DEF ShapeInv, TypeOK
      <3>2. model' = [model EXCEPT ![task[i].model] = [at |-> "live", of |-> task[i].owner]]
        BY <1>7, InsertModelMoves
      <3> QED  BY <3>1, <3>2 DEF ModelRows
    <2> QED  BY <1>7, <2>1, InsertModelMoves, FreeFacts DEF modelTables, Began, Went, Others, Writers, Deletions
  <1>8. CASE SetWorkspaceDefault(i)
    BY <1>8, SetWorkspaceDefaultMoves, FreeFacts DEF modelTables, Began, Went, Others, Writers, Deletions
  <1>9. CASE ChooseDefault(i)
    BY <1>9, ChooseDefaultMoves, FreeFacts DEF modelTables, Began, Went, Others, Writers, Deletions
  <1>10. CASE WriteDefault(i)
    BY <1>10, WriteDefaultMoves, FreeFacts DEF modelTables, Began, Went, Others, Writers, Deletions
  <1>11. CASE DeleteProvider(i)
    BY <1>11, DeleteProviderMoves, FreeFacts DEF modelTables, Began, Went, Others, Writers, Deletions
  <1>12. CASE CountSessions(i)
    BY <1>12, CountSessionsMoves, FreeFacts DEF modelTables, Began, Went, Others, Writers, Deletions
  <1>13. CASE ListModels(i)
    BY <1>13, ListModelsMoves, FreeFacts DEF modelTables, Began, Went, Others, Writers, Deletions
  <1>14. CASE ReadDefault(i)
    BY <1>14, ReadDefaultMoves, FreeFacts DEF modelTables, Began, Went, Others, Writers, Deletions
  <1>15. CASE DropModels(i)
    BY <1>15, DropModelsMoves, FreeFacts DEF modelTables, Began, Went, Others, Writers, Deletions
  <1>16. CASE ClearDefault(i)
    BY <1>16, ClearDefaultMoves, FreeFacts DEF modelTables, Began, Went, Others, Writers, Deletions
  <1>17. CASE DropProvider(i)
    BY <1>17, DropProviderMoves, FreeFacts DEF modelTables, Began, Went, Others, Writers, Deletions
  <1>18. CASE DeleteModel(i)
    BY <1>18, DeleteModelMoves, FreeFacts DEF modelTables, Began, Went, Others, Writers, Deletions
  <1>19. CASE CountActiveSessionReferences(i)
    BY <1>19, CountActiveSessionReferencesMoves, FreeFacts DEF modelTables, Began, Went, Others, Writers, Deletions
  <1>20. CASE FindModel(i)
    BY <1>20, FindModelMoves, FreeFacts DEF modelTables, Began, Went, Others, Writers, Deletions
  <1>21. CASE DropModel(i)
    <2>1. \A m \in Models : model[m].at # "none" => model'[m].at # "none"
      <3>1. model \in [Models -> ModelRows]  BY DEF ShapeInv, TypeOK
      <3>2. model' = [model EXCEPT ![task[i].model].at = "deleted"]
        BY <1>21, DropModelMoves
      <3> QED  BY <3>1, <3>2 DEF ModelRows
    <2> QED  BY <1>21, <2>1, DropModelMoves, FreeFacts DEF modelTables, Began, Went, Others, Writers, Deletions
  <1>22. CASE CreateSession(i)
    BY <1>22, AsksForSessionMoves, FreeFacts DEF modelTables, Began, Went, Others, Writers, Deletions, CreateSession
  <1>23. CASE HandleNewSession(i)
    BY <1>23, AsksForSessionMoves, FreeFacts DEF modelTables, Began, Went, Others, Writers, Deletions, HandleNewSession
  <1>24. CASE ResolveModelForNewSession(i)
    BY <1>24, ResolveModelForNewSessionMoves, FreeFacts DEF modelTables, Began, Went, Others, Writers, Deletions
  <1>25. CASE SaveSession(i)
    BY <1>25, SaveSessionMoves, FreeFacts DEF modelTables, Began, Went, Others, Writers, Deletions
  <1>26. CASE HandleExistingSession(i)
    BY <1>26, HandleExistingSessionMoves, FreeFacts DEF modelTables, Began, Went, Others, Writers, Deletions
  <1>27. CASE GetHotContext(i)
    BY <1>27, GetHotContextMoves, FreeFacts DEF modelTables, Began, Went, Others, Writers, Deletions
  <1>28. CASE ResolveModelForSession(i)
    BY <1>28, ResolveModelForSessionMoves, FreeFacts DEF modelTables, Began, Went, Others, Writers, Deletions
  <1>29. CASE SaveHotContext(i)
    BY <1>29, SaveHotContextMoves, FreeFacts DEF modelTables, Began, Went, Others, Writers, Deletions
  <1>30. CASE EndRun(i)
    BY <1>30, EndRunMoves, FreeFacts DEF modelTables, Began, Went, Others, Writers, Deletions
  <1>31. CASE BrokerFails(i)
    BY <1>31, BrokerFailsMoves, FreeFacts DEF modelTables, Began, Went, Others, Writers, Deletions
  <1>32. CASE CacheUnavailable(i)
    BY <1>32, CacheUnavailableMoves, FreeFacts DEF modelTables, Began, Went, Others, Writers, Deletions
  <1>33. CASE RequestLost(i)
    BY <1>33, RequestLostMoves, FreeFacts DEF modelTables, Began, Went, Others, Writers, Deletions
  <1> QED
    BY <1>1, <1>2, <1>3, <1>4, <1>5, <1>6, <1>7, <1>8, <1>9, <1>10, <1>11, <1>12, <1>13,
       <1>14, <1>15, <1>16, <1>17, <1>18, <1>19, <1>20, <1>21, <1>22, <1>23, <1>24, <1>25,
       <1>26, <1>27, <1>28, <1>29, <1>30, <1>31, <1>32, <1>33 DEF ModelStep

(* Nor do requests about the handlers touch the models, the sessions or    *)
(* the secrets of the providers.                                           *)
LEMMA HandlerSteps ==
    ASSUME ShapeInv, NEW i \in Slots, HandlerStep(i)
    PROVE  /\ ShapeInv' /\ Only(i) /\ UNCHANGED modelTables
           /\ task[i].kind \in Writing \cup {"none", "outbound"}
           /\ task'[i].kind \in Writing \cup {"none", "outbound"}
           /\ task'[i].session = Nobody \/ task'[i].session = task[i].session
           /\ \A p \in Providers, k \in Keys : <<p, k>> \in secrets' <=> <<p, k>> \in secrets
           /\ disturbed \subseteq disturbed' /\ disturbed' \subseteq disturbed \cup {"handler"}
  <1>1. CASE ConfigureEgressHandler(i)
    BY <1>1, ConfigureEgressHandlerMoves, FreeFacts DEF Went, Writing
  <1>2. CASE SetEgressHandlerEnabled(i)
    BY <1>2, SetEgressHandlerEnabledMoves, FreeFacts DEF Went, Writing
  <1>3. CASE UpsertHandler(i)
    BY <1>3, UpsertHandlerMoves, FreeFacts DEF Went, Writing
  <1>4. CASE DeleteEgressHandler(i)
    BY <1>4, DeleteEgressHandlerMoves, FreeFacts DEF Went, Writing
  <1>5. CASE DeleteSecret(i)
    BY <1>5, DeleteSecretMoves, FreeFacts, SettingsAssumption DEF Went, Writing
  <1>6. CASE RemoveHandler(i)
    BY <1>6, RemoveHandlerMoves, FreeFacts DEF Went, Writing
  <1>7. CASE RouteOutboundRequest(i)
    BY <1>7, RouteOutboundRequestMoves, FreeFacts DEF Went, Writing
  <1>8. CASE ResolveEgressHandler(i)
    BY <1>8, ResolveEgressHandlerMoves, FreeFacts DEF Went, Writing
  <1>9. CASE SendOutbound(i)
    BY <1>9, SendOutboundMoves, FreeFacts DEF Went, Writing
  <1>10. CASE BrokerFailsHandler(i)
    BY <1>10, BrokerFailsHandlerMoves, FreeFacts DEF Went, Writing
  <1>11. CASE HandlerRequestLost(i)
    BY <1>11, HandlerRequestLostMoves, FreeFacts DEF Went, Writing
  <1> QED
    BY <1>1, <1>2, <1>3, <1>4, <1>5, <1>6, <1>7, <1>8, <1>9, <1>10, <1>11 DEF HandlerStep

LEMMA InitShape == Init => ShapeInv
  <1> SUFFICES ASSUME Init PROVE ShapeInv  OBVIOUS
  <1>1. PICK p \in Providers, m \in Models, made, chosen \in BOOLEAN :
          /\ provider = [q \in Providers |-> IF made /\ q = p THEN [at |-> "live", refs |-> {"required"}]
                                                              ELSE NoProvider]
          /\ model = [n \in Models |-> IF made /\ n = m THEN [at |-> "live", of |-> p] ELSE NoSuchModel]
          /\ chosen => made
          /\ default = IF chosen THEN m ELSE NoModel
          /\ handler \in [Handlers -> IF made THEN {NoRow} ELSE HandlerRows]
          /\ session \in [Sessions -> {NoSession} \cup
                             IF made /\ ~chosen THEN {[NoSession EXCEPT !.status = "idle"]} ELSE {}]
          /\ secrets = {<<h, "required">> : h \in {g \in Handlers : handler[g].keyed}}
                         \cup (IF made THEN {<<p, "required">>} ELSE {})
    BY Zenon DEF Init
  <1>2. task = [i \in Slots |-> Free] /\ requests = 0 /\ mishaps = 0 /\ disturbed = {}  BY DEF Init
  <1>3. provider \in [Providers -> ProviderRows]
    BY <1>1 DEF ProviderRows, Stages, NoProvider, Keys
  <1>4. model \in [Models -> ModelRows]  BY <1>1 DEF ModelRows, Stages, NoSuchModel
  <1>5. default \in SomeModel  BY <1>1 DEF SomeModel
  <1>6. session \in [Sessions -> SessionRows]
    <2>1. NoSession \in SessionRows /\ [NoSession EXCEPT !.status = "idle"] \in SessionRows
      BY DEF NoSession, SessionRows, Statuses, SomeModel, HotContexts
    <2> QED  BY <1>1, <2>1
  <1>7. handler \in [Handlers -> Rows]
    <2>1. NoRow \in Rows  BY DEF NoRow, Rows
    <2>2. HandlerRows \subseteq Rows
      <3>1. ASSUME NEW r \in [at : {"configured"}, enabled : BOOLEAN, keyed : {TRUE}] PROVE r \in Rows
        BY DEF Rows
      <3> QED  BY <2>1, <3>1 DEF HandlerRows
    <2> QED  BY <1>1, <2>1, <2>2
  <1>8. secrets \subseteq (Providers \cup Handlers) \X Keys  BY <1>1 DEF Keys
  <1>9. task \in [Slots -> Tasks] /\ \A i \in Slots : TaskOk(task[i])  BY <1>2, FreeFacts
  <1> QED  BY <1>2, <1>3, <1>4, <1>5, <1>6, <1>7, <1>8, <1>9 DEF ShapeInv, TypeOK

LEMMA NextShape == ShapeInv /\ [Next]_vars => ShapeInv'
  <1> SUFFICES ASSUME ShapeInv, [Next]_vars PROVE ShapeInv'  OBVIOUS
  <1>1. CASE UNCHANGED vars  BY <1>1 DEF vars, ShapeInv, TypeOK
  <1>2. ASSUME NEW i \in Slots, PutSecret(i) PROVE ShapeInv'  BY <1>2, PutSecretMoves
  <1>3. ASSUME NEW i \in Slots, ModelStep(i) PROVE ShapeInv'  BY <1>3, ModelSteps
  <1>4. ASSUME NEW i \in Slots, HandlerStep(i) PROVE ShapeInv'  BY <1>4, HandlerSteps
  <1>5. ASSUME NEW s \in Sessions, CloseSession(s) PROVE ShapeInv'  BY <1>5, CloseSessionMoves
  <1> QED  BY <1>1, <1>2, <1>3, <1>4, <1>5, NextCases

LEMMA ShapeCorrect == Spec => []ShapeInv
  BY InitShape, NextShape, PTL DEF Spec

(* A model that is deleted has been made.                                  *)
DropsMade == \A i \in Slots : task[i].kind = "dropModel" => model[task[i].model].at # "none"

LEMMA NextDrops == ShapeInv /\ DropsMade /\ [Next]_vars => DropsMade'
  <1> SUFFICES ASSUME ShapeInv, DropsMade, [Next]_vars PROVE DropsMade'  OBVIOUS
  <1>1. CASE UNCHANGED vars  BY <1>1 DEF vars, DropsMade
  <1>2. ASSUME NEW i \in Slots, PutSecret(i) PROVE DropsMade'
    <2>1. Only(i) /\ UNCHANGED model /\ task'[i].kind # "dropModel"
      BY <1>2, PutSecretMoves DEF modelTables, Writers
    <2> QED  BY <2>1 DEF DropsMade, Only
  <1>3. ASSUME NEW i \in Slots, ModelStep(i) PROVE DropsMade'
    <2>1. ASSUME NEW j \in Slots, task'[j].kind = "dropModel" PROVE model'[task'[j].model].at # "none"
      <3>1. \/ model[task'[j].model].at # "none"
            \/ task[j].kind = "dropModel" /\ task'[j].model = task[j].model
        BY <1>3, <2>1, ModelSteps DEF Only
      <3>2. model[task'[j].model].at # "none"  BY <3>1 DEF DropsMade
      <3>3. task'[j].model \in Models
        BY <1>3, <2>1, ModelSteps DEF ShapeInv, TaskOk
      <3> QED  BY <1>3, <3>2, <3>3, ModelSteps
    <2> QED  BY <2>1 DEF DropsMade
  <1>4. ASSUME NEW i \in Slots, HandlerStep(i) PROVE DropsMade'
    <2>1. Only(i) /\ UNCHANGED model /\ task'[i].kind # "dropModel"
      BY <1>4, HandlerSteps DEF modelTables, Writing
    <2> QED  BY <2>1 DEF DropsMade, Only
  <1>5. ASSUME NEW s \in Sessions, CloseSession(s) PROVE DropsMade'
    BY <1>5, CloseSessionMoves DEF DropsMade
  <1> QED  BY <1>1, <1>2, <1>3, <1>4, <1>5, NextCases

LEMMA InitDrops == Init => DropsMade
  BY FreeFacts DEF Init, DropsMade

LEMMA DropsCorrect == Spec => []DropsMade
  BY InitDrops, NextDrops, ShapeCorrect, PTL DEF Spec

(* The tables and the requests under way have the types they are said to   *)
(* have, whatever the requests do in whatever order (TypeOK).              *)
THEOREM SettingsTypeCorrect == Spec => []TypeOK
  <1>1. ShapeInv => TypeOK  BY DEF ShapeInv
  <1> QED  BY <1>1, ShapeCorrect, PTL

-----------------------------------------------------------------------------
(* The secrets of the handlers.                                            *)

(* What a write of a handler knows of its secret, as long as it is alone.  *)
WriteOk(q) ==
    LET stored == Holds(q.owner, "required") IN
    /\ q.at = "put" => q.todo = {"required"} /\ q.keys = {"required"}
                       /\ (stored <=> handler[q.owner].keyed)
    /\ q.at = "record" => (stored <=> q.keys # {})
    /\ q.at = "forget" => stored /\ handler[q.owner].keyed
    /\ q.at = "remove" => ~ stored

WritesApart ==
    \A i, j \in Slots :
        task[i].kind \in Writing /\ task[j].kind \in Writing /\ task[i].owner = task[j].owner => i = j

Undisturbed(what) == what \notin disturbed

EgressInv ==
    /\ Undisturbed("handler") =>
          /\ SecretsMatchRows /\ WritesApart
          /\ \A i \in Slots : task[i].kind \in Writing => WriteOk(task[i])
    /\ \A i \in Slots : task[i].kind = "outbound" /\ "required" \in task[i].keys => task[i].flag

(* A step about one handler: nobody else writes it, and the step leaves    *)
(* its secret as its row or the request says.                              *)
LEMMA OneHandlerStep ==
    ASSUME ShapeInv, EgressInv, NEW i \in Slots, NEW h \in Handlers, Only(i), disturbed \subseteq disturbed',
           ShapeInv',
           \A g \in Handlers \ {h} : handler'[g] = handler[g]
                                       /\ (<<g, "required">> \in secrets' <=> <<g, "required">> \in secrets),
           task[i].kind \in Writing => task[i].owner = h,
           task'[i].kind \in Writing => task'[i].owner = h,
           Undisturbed("handler")' =>
              /\ task[i].kind \in Writing \/ AtRest(h)
              /\ task'[i].kind \in Writing => WriteOk(task[i])'
              /\ task'[i].kind \notin Writing => (<<h, "required">> \in secrets' <=> handler'[h].keyed),
           task'[i].kind = "outbound" /\ "required" \in task'[i].keys => task'[i].flag
    PROVE  EgressInv'
  <1>1. ASSUME Undisturbed("handler")'
        PROVE  SecretsMatchRows' /\ WritesApart' /\ \A j \in Slots : task'[j].kind \in Writing => WriteOk(task[j])'
    <2>1. /\ SecretsMatchRows /\ WritesApart
          /\ \A j \in Slots : task[j].kind \in Writing => WriteOk(task[j])
      BY <1>1 DEF EgressInv, Undisturbed
    <2>2. ASSUME NEW j \in Slots \ {i}, task'[j].kind \in Writing
          PROVE  task'[j] = task[j] /\ task[j].owner # h /\ task[j].owner \in Handlers
      <3>1. task'[j] = task[j] /\ task[j].kind \in Writing  BY <2>2 DEF Only
      <3>2. task[j].owner \in Handlers  BY <3>1, TaskFacts DEF TaskOk, Writing
      <3>3. CASE task[i].kind \in Writing  BY <3>1, <3>2, <3>3, <2>1 DEF WritesApart
      <3>4. CASE AtRest(h)  BY <3>1, <3>2, <3>4 DEF AtRest
      <3> QED  BY <1>1, <3>1, <3>2, <3>3, <3>4
    <2>3. ASSUME NEW j \in Slots, task'[j].kind \in Writing PROVE WriteOk(task[j])'
      <3>1. CASE j = i  BY <1>1, <2>3, <3>1
      <3>2. CASE j # i
        <4>1. task'[j] = task[j] /\ task[j].owner \in Handlers \ {h}  BY <2>2, <2>3, <3>2
        <4>2. WriteOk(task[j])  BY <2>1, <2>3, <4>1
        <4> QED  BY <4>1, <4>2 DEF WriteOk, Holds
      <3> QED  BY <3>1, <3>2
    <2>4. WritesApart'
      <3> SUFFICES ASSUME NEW j \in Slots, NEW k \in Slots, task'[j].kind \in Writing,
                          task'[k].kind \in Writing, task'[j].owner = task'[k].owner, j # k
                   PROVE  FALSE
        BY DEF WritesApart
      <3>1. CASE j = i \/ k = i  BY <2>2, <3>1
      <3>2. CASE j # i /\ k # i  BY <2>1, <2>2, <3>2 DEF WritesApart
      <3> QED  BY <3>1, <3>2
    <2>5. ASSUME NEW g \in Handlers, AtRest(g)' PROVE <<g, "required">> \in secrets' <=> handler'[g].keyed
      <3>1. CASE g = h
        <4>1. task'[i].kind \notin Writing  BY <2>5, <3>1 DEF AtRest
        <4> QED  BY <1>1, <3>1, <4>1
      <3>2. CASE g # h
        <4>1. AtRest(g)  BY <2>5, <3>2 DEF AtRest, Only
        <4>2. <<g, "required">> \in secrets <=> handler[g].keyed
          BY <2>1, <4>1 DEF SecretsMatchRows, Holds
        <4> QED  BY <3>2, <4>2
      <3> QED  BY <3>1, <3>2
    <2>6. SecretsMatchRows'  BY <2>5 DEF SecretsMatchRows, Holds
    <2> QED  BY <2>3, <2>4, <2>6
  <1>2. ASSUME NEW j \in Slots, task'[j].kind = "outbound", "required" \in task'[j].keys PROVE task'[j].flag
    BY <1>2 DEF Only, EgressInv
  <1> QED  BY <1>1, <1>2 DEF EgressInv

(* A step that is not about the handlers.                                  *)
LEMMA NoHandlerStep ==
    ASSUME ShapeInv, EgressInv, NEW i \in Slots, Only(i), disturbed \subseteq disturbed', UNCHANGED handler,
           \A g \in Handlers : <<g, "required">> \in secrets' <=> <<g, "required">> \in secrets,
           task[i].kind \notin Writing, task'[i].kind \notin Writing,
           task'[i].kind = "outbound" /\ "required" \in task'[i].keys => task'[i].flag
    PROVE  EgressInv'
  <1>1. ASSUME Undisturbed("handler")'
        PROVE  SecretsMatchRows' /\ WritesApart' /\ \A j \in Slots : task'[j].kind \in Writing => WriteOk(task[j])'
    <2>1. /\ SecretsMatchRows /\ WritesApart
          /\ \A j \in Slots : task[j].kind \in Writing => WriteOk(task[j])
      BY <1>1 DEF EgressInv, Undisturbed
    <2>2. ASSUME NEW j \in Slots, task'[j].kind \in Writing
          PROVE  task'[j] = task[j] /\ j # i /\ task[j].owner \in Handlers
      <3>1. task'[j] = task[j] /\ j # i /\ task[j].kind \in Writing  BY <2>2 DEF Only
      <3> QED  BY <3>1, TaskFacts DEF TaskOk, Writing
    <2>3. ASSUME NEW j \in Slots, task'[j].kind \in Writing PROVE WriteOk(task[j])'
      <3>1. task'[j] = task[j] /\ task[j].owner \in Handlers  BY <2>2, <2>3
      <3>2. WriteOk(task[j])  BY <2>1, <2>3, <3>1
      <3> QED  BY <3>1, <3>2 DEF WriteOk, Holds
    <2>4. WritesApart'  BY <2>1, <2>2 DEF WritesApart
    <2>5. ASSUME NEW g \in Handlers, AtRest(g)' PROVE <<g, "required">> \in secrets' <=> handler'[g].keyed
      <3>1. AtRest(g)  BY <2>5 DEF AtRest, Only
      <3> QED  BY <2>1, <3>1 DEF SecretsMatchRows, Holds
    <2>6. SecretsMatchRows'  BY <2>5 DEF SecretsMatchRows, Holds
    <2> QED  BY <2>3, <2>4, <2>6
  <1>2. ASSUME NEW j \in Slots, task'[j].kind = "outbound", "required" \in task'[j].keys PROVE task'[j].flag
    BY <1>2 DEF Only, EgressInv
  <1> QED  BY <1>1, <1>2 DEF EgressInv

LEMMA PutSecretEgress == ASSUME ShapeInv, EgressInv, NEW i \in Slots, PutSecret(i) PROVE EgressInv'
  <1>1. PICK k \in task[i].todo :
          /\ secrets' = secrets \cup {<<task[i].owner, k>>}
          /\ task'[i].todo = task[i].todo \ {k}
          /\ task'[i].at = IF task[i].todo = {k} THEN "record" ELSE "put"
    BY PutSecretMoves
  <1>2. /\ ShapeInv' /\ Only(i) /\ task[i].at = "put" /\ task[i].kind \in Writers \cup {"configure"}
        /\ task'[i].kind = task[i].kind /\ task'[i].owner = task[i].owner
        /\ task'[i].keys = task[i].keys /\ UNCHANGED <<handler, disturbed>>
    BY PutSecretMoves
  <1>3. CASE task[i].kind \in Writers
    <2>1. task[i].owner \in Providers  BY <1>3, TaskFacts DEF TaskOk
    <2>2. \A g \in Handlers : <<g, "required">> \in secrets' <=> <<g, "required">> \in secrets
      BY <1>1, <2>1, SettingsAssumption
    <2> QED  BY <1>2, <1>3, <2>2, NoHandlerStep DEF Writing, Writers
  <1>4. CASE task[i].kind = "configure"
    <2> DEFINE h == task[i].owner
    <2>1. h \in Handlers  BY <1>4, TaskFacts DEF TaskOk
    <2>2. ASSUME Undisturbed("handler") PROVE WriteOk(task[i])'
      <3>1. WriteOk(task[i])  BY <1>4, <2>2 DEF EgressInv, Writing
      <3>2. task[i].todo = {"required"} /\ task[i].keys = {"required"}  BY <1>2, <3>1 DEF WriteOk
      <3>3. k = "required" /\ task'[i].at = "record"  BY <1>1, <3>2
      <3>4. <<task'[i].owner, "required">> \in secrets'  BY <1>1, <1>2, <3>3
      <3> QED  BY <1>2, <3>2, <3>3, <3>4 DEF WriteOk, Holds
    <2>3. \A g \in Handlers \ {h} : <<g, "required">> \in secrets' <=> <<g, "required">> \in secrets
      BY <1>1
    <2>4. task[i].kind \in Writing /\ task'[i].kind \in Writing /\ task'[i].kind # "outbound"
      BY <1>2, <1>4 DEF Writing
    <2>5. Undisturbed("handler")' = Undisturbed("handler")  BY <1>2 DEF Undisturbed
    <2> HIDE DEF h
    <2>6. task[i].owner = h /\ task'[i].owner = h  BY <1>2 DEF h
    <2> QED  BY <1>2, <2>1, <2>2, <2>3, <2>4, <2>5, <2>6, OneHandlerStep
  <1> QED  BY <1>2, <1>3, <1>4

LEMMA ModelStepEgress == ASSUME ShapeInv, EgressInv, NEW i \in Slots, ModelStep(i) PROVE EgressInv'
  <1>1. /\ Only(i) /\ UNCHANGED <<handler, secrets>> /\ disturbed \subseteq disturbed'
        /\ task[i].kind \in Others \cup {"none"} /\ task'[i].kind \in Others \cup {"none"}
    BY ModelSteps
  <1>2. task[i].kind \notin Writing /\ task'[i].kind \notin Writing /\ task'[i].kind # "outbound"
    BY <1>1 DEF Others, Writers, Deletions, Writing
  <1> QED  BY <1>1, <1>2, NoHandlerStep

(* A request that writes a handler begins.                                 *)
LEMMA WriteBegins ==
    ASSUME ShapeInv, EgressInv, NEW i \in Slots, Only(i), task[i].kind = "none", ShapeInv',
           task'[i].owner \in Handlers, task'[i].kind \in Writing,
           disturbed' = disturbed \cup (IF ~AtRest(task'[i].owner) THEN {"handler"} ELSE {}),
           UNCHANGED <<handler, secrets>>,
           (<<task'[i].owner, "required">> \in secrets <=> handler[task'[i].owner].keyed) => WriteOk(task[i])'
    PROVE  EgressInv'
  <1>1. PICK h \in Handlers : h = task'[i].owner  OBVIOUS
  <1>2. ASSUME Undisturbed("handler")' PROVE AtRest(h) /\ WriteOk(task[i])'
    <2>1. AtRest(h) /\ Undisturbed("handler")  BY <1>1, <1>2 DEF Undisturbed
    <2>2. <<h, "required">> \in secrets <=> handler[h].keyed
      BY <2>1 DEF EgressInv, SecretsMatchRows, Holds
    <2> QED  BY <1>1, <2>1, <2>2
  <1>3. task[i].kind \notin Writing /\ task'[i].kind # "outbound"  BY DEF Writing
  <1> QED  BY <1>1, <1>2, <1>3, OneHandlerStep

LEMMA ConfigureEgress ==
    ASSUME ShapeInv, EgressInv, NEW i \in Slots, ConfigureEgressHandler(i) PROVE EgressInv'
  <1>1. PICK h \in Handlers : h = task'[i].owner  BY ConfigureEgressHandlerMoves
  <1>2. /\ ShapeInv' /\ Only(i) /\ task[i].kind = "none" /\ task'[i].kind = "configure"
        /\ \/ /\ task'[i].at = "put" /\ task'[i].todo = {"required"} /\ task'[i].keys = {"required"}
           \/ task'[i].at = "record" /\ (task'[i].keys # {} <=> handler[h].keyed)
        /\ disturbed' = disturbed \cup (IF ~AtRest(h) THEN {"handler"} ELSE {})
        /\ UNCHANGED <<handler, secrets>>
    BY <1>1, ConfigureEgressHandlerMoves
  <1>3. (<<h, "required">> \in secrets <=> handler[h].keyed) => WriteOk(task[i])'
    BY <1>1, <1>2 DEF WriteOk, Holds
  <1>4. task'[i].kind \in Writing  BY <1>2 DEF Writing
  <1> QED  BY <1>1, <1>2, <1>3, <1>4, WriteBegins

LEMMA SetEnabledEgress ==
    ASSUME ShapeInv, EgressInv, NEW i \in Slots, SetEgressHandlerEnabled(i) PROVE EgressInv'
  <1>1. PICK h \in Handlers : h = task'[i].owner  BY SetEgressHandlerEnabledMoves
  <1>2. /\ ShapeInv' /\ Only(i) /\ task[i].kind = "none" /\ task'[i].kind = "toggle"
        /\ task'[i].at = "record" /\ (task'[i].keys # {} <=> handler[h].keyed)
        /\ disturbed' = disturbed \cup (IF ~AtRest(h) THEN {"handler"} ELSE {})
        /\ UNCHANGED <<handler, secrets>>
    BY <1>1, SetEgressHandlerEnabledMoves
  <1>3. (<<h, "required">> \in secrets <=> handler[h].keyed) => WriteOk(task[i])'
    BY <1>1, <1>2 DEF WriteOk, Holds
  <1>4. task'[i].kind \in Writing  BY <1>2 DEF Writing
  <1> QED  BY <1>1, <1>2, <1>3, <1>4, WriteBegins

LEMMA DeleteHandlerEgress ==
    ASSUME ShapeInv, EgressInv, NEW i \in Slots, DeleteEgressHandler(i) PROVE EgressInv'
  <1>1. PICK h \in Handlers : h = task'[i].owner  BY DeleteEgressHandlerMoves
  <1>2. /\ ShapeInv' /\ Only(i) /\ task[i].kind = "none" /\ task'[i].kind = "remove"
        /\ \/ task'[i].at = "forget" /\ handler[h].keyed
           \/ task'[i].at = "remove" /\ ~ handler[h].keyed
        /\ disturbed' = disturbed \cup (IF ~AtRest(h) THEN {"handler"} ELSE {})
        /\ UNCHANGED <<handler, secrets>>
    BY <1>1, DeleteEgressHandlerMoves
  <1>3. (<<h, "required">> \in secrets <=> handler[h].keyed) => WriteOk(task[i])'
    BY <1>1, <1>2 DEF WriteOk, Holds
  <1>4. task'[i].kind \in Writing  BY <1>2 DEF Writing
  <1> QED  BY <1>1, <1>2, <1>3, <1>4, WriteBegins

LEMMA UpsertEgress ==
    ASSUME ShapeInv, EgressInv, NEW i \in Slots, UpsertHandler(i) PROVE EgressInv'
  <1>1. PICK h \in Handlers : h = task[i].owner  BY UpsertHandlerMoves
  <1>2. (handler'[h].keyed <=> task[i].keys # {})
        /\ (\A g \in Handlers \ {h} : handler'[g] = handler[g]) /\ UNCHANGED <<secrets, disturbed>>
    BY <1>1, UpsertHandlerMoves
  <1>3. task[i].kind \in Writing /\ task[i].at = "record" /\ Only(i) /\ ShapeInv' /\ task'[i] = Free
    BY <1>1, UpsertHandlerMoves DEF Writing
  <1>4. task'[i].kind \notin Writing /\ task'[i].kind # "outbound"  BY <1>3, FreeFacts DEF Writing
  <1>5. ASSUME Undisturbed("handler") PROVE <<h, "required">> \in secrets' <=> handler'[h].keyed
    <2>1. WriteOk(task[i])  BY <1>3, <1>5 DEF EgressInv
    <2> QED  BY <1>1, <1>2, <1>3, <2>1 DEF WriteOk, Holds
  <1>6. Undisturbed("handler")' = Undisturbed("handler")  BY <1>2 DEF Undisturbed
  <1> QED  BY <1>1, <1>2, <1>3, <1>4, <1>5, <1>6, OneHandlerStep

LEMMA DeleteSecretEgress ==
    ASSUME ShapeInv, EgressInv, NEW i \in Slots, DeleteSecret(i) PROVE EgressInv'
  <1>1. PICK h \in Handlers : h = task[i].owner  BY DeleteSecretMoves
  <1>2. /\ ShapeInv' /\ Only(i) /\ Went(i, "remove") /\ task[i].kind = "remove"
        /\ secrets' = {x \in secrets : x[1] # h} /\ UNCHANGED <<handler, disturbed>>
    BY <1>1, DeleteSecretMoves
  <1>3. task'[i].owner = h /\ task'[i].kind = "remove" /\ task'[i].at = "remove"
    BY <1>1, <1>2 DEF Went
  <1>4. <<h, "required">> \notin secrets'  BY <1>2
  <1>5. WriteOk(task[i])'  BY <1>3, <1>4 DEF WriteOk, Holds
  <1>6. \A g \in Handlers \ {h} : <<g, "required">> \in secrets' <=> <<g, "required">> \in secrets
    BY <1>2
  <1>7. task[i].kind \in Writing /\ task'[i].kind \in Writing /\ task'[i].kind # "outbound"
    BY <1>2, <1>3 DEF Writing
  <1> QED  BY <1>1, <1>2, <1>3, <1>5, <1>6, <1>7, OneHandlerStep

LEMMA RemoveHandlerEgress ==
    ASSUME ShapeInv, EgressInv, NEW i \in Slots, RemoveHandler(i) PROVE EgressInv'
  <1>1. PICK h \in Handlers : h = task[i].owner  BY RemoveHandlerMoves
  <1>2. /\ ShapeInv' /\ Only(i) /\ task'[i] = Free /\ task[i].at = "remove" /\ task[i].kind = "remove"
        /\ ~ handler'[h].keyed
        /\ \A g \in Handlers \ {h} : handler'[g] = handler[g]
        /\ UNCHANGED <<secrets, disturbed>>
    BY <1>1, RemoveHandlerMoves
  <1>3. task[i].kind \in Writing /\ task'[i].kind \notin Writing /\ task'[i].kind # "outbound"
    BY <1>2, FreeFacts DEF Writing
  <1>4. ASSUME Undisturbed("handler") PROVE <<h, "required">> \in secrets' <=> handler'[h].keyed
    <2>1. WriteOk(task[i])  BY <1>3, <1>4 DEF EgressInv
    <2> QED  BY <1>1, <1>2, <2>1 DEF WriteOk, Holds
  <1>5. Undisturbed("handler")' = Undisturbed("handler")  BY <1>2 DEF Undisturbed
  <1> QED  BY <1>1, <1>2, <1>3, <1>4, <1>5, OneHandlerStep

(* A write that is cut off leaves whatever it has done; the broker that    *)
(* refuses a secret has not stored it.                                     *)
LEMMA BrokerFailsEgress ==
    ASSUME ShapeInv, EgressInv, NEW i \in Slots, BrokerFailsHandler(i) PROVE EgressInv'
  <1>1. /\ ShapeInv' /\ Only(i) /\ UNCHANGED <<handler, secrets>>
        /\ \/ task'[i].kind = "remove" /\ disturbed' = disturbed \cup {"handler"}
           \/ /\ task'[i] = Free /\ disturbed' = disturbed
              /\ task[i].kind = "configure" /\ task[i].at = "put"
           \/ task'[i] = Free /\ disturbed' = disturbed /\ task[i].kind = "outbound"
    BY BrokerFailsHandlerMoves
  <1>2. CASE task'[i].kind = "remove" /\ disturbed' = disturbed \cup {"handler"}
    <2>1. ASSUME NEW j \in Slots, task'[j].kind = "outbound", "required" \in task'[j].keys
          PROVE  task'[j].flag
      BY <1>1, <1>2, <2>1 DEF Only, EgressInv
    <2> QED  BY <1>2, <2>1 DEF EgressInv, Undisturbed
  <1>3. CASE task'[i] = Free /\ disturbed' = disturbed /\ task[i].kind = "configure" /\ task[i].at = "put"
    <2>1. PICK h \in Handlers : h = task[i].owner  BY <1>3, TaskFacts DEF TaskOk
    <2>2. task[i].kind \in Writing /\ task'[i].kind \notin Writing /\ task'[i].kind # "outbound"
      BY <1>3, FreeFacts DEF Writing
    <2>3. ASSUME Undisturbed("handler") PROVE <<h, "required">> \in secrets' <=> handler'[h].keyed
      <3>1. WriteOk(task[i])  BY <2>2, <2>3 DEF EgressInv
      <3> QED  BY <1>1, <1>3, <2>1, <3>1 DEF WriteOk, Holds
    <2>4. Undisturbed("handler")' = Undisturbed("handler")  BY <1>3 DEF Undisturbed
    <2> QED  BY <1>1, <1>3, <2>1, <2>2, <2>3, <2>4, OneHandlerStep
  <1>4. CASE task'[i] = Free /\ disturbed' = disturbed /\ task[i].kind = "outbound"
    <2>1. task[i].kind \notin Writing /\ task'[i].kind \notin Writing /\ task'[i].kind # "outbound"
      BY <1>4, FreeFacts DEF Writing
    <2> QED  BY <1>1, <1>4, <2>1, NoHandlerStep
  <1> QED  BY <1>1, <1>2, <1>3, <1>4

LEMMA HandlerRequestLostEgress ==
    ASSUME ShapeInv, EgressInv, NEW i \in Slots, HandlerRequestLost(i) PROVE EgressInv'
  <1>1. /\ ShapeInv' /\ Only(i) /\ task'[i] = Free /\ UNCHANGED <<handler, secrets>>
        /\ \/ task[i].kind \in Writing /\ disturbed' = disturbed \cup {"handler"}
           \/ task[i].kind = "outbound" /\ disturbed' = disturbed
    BY HandlerRequestLostMoves
  <1>2. task'[i].kind \notin Writing /\ task'[i].kind # "outbound"  BY <1>1, FreeFacts DEF Writing
  <1>3. CASE disturbed' = disturbed \cup {"handler"}
    <2>1. ASSUME NEW j \in Slots, task'[j].kind = "outbound", "required" \in task'[j].keys
          PROVE  task'[j].flag
      BY <1>1, <1>2, <2>1 DEF Only, EgressInv
    <2> QED  BY <1>3, <2>1 DEF EgressInv, Undisturbed
  <1>4. CASE task[i].kind = "outbound" /\ disturbed' = disturbed
    <2>1. task[i].kind \notin Writing  BY <1>4 DEF Writing
    <2> QED  BY <1>1, <1>2, <1>4, <2>1, NoHandlerStep
  <1> QED  BY <1>1, <1>3, <1>4

(* An outgoing request only reads.                                         *)
LEMMA OutboundEgress ==
    ASSUME ShapeInv, EgressInv, NEW i \in Slots,
           RouteOutboundRequest(i) \/ ResolveEgressHandler(i) \/ SendOutbound(i)
    PROVE  EgressInv'
  <1>1. /\ Only(i) /\ UNCHANGED <<handler, secrets, disturbed>>
        /\ task[i].kind \in {"none", "outbound"} /\ task'[i].kind \in {"none", "outbound"}
        /\ task'[i].kind = "outbound" =>
              ("required" \in task'[i].keys => task'[i].flag)
              \/ (task[i].kind = "outbound" /\ task'[i].keys \subseteq task[i].keys /\ task'[i].flag = task[i].flag)
    BY RouteOutboundRequestMoves, ResolveEgressHandlerMoves, SendOutboundMoves, FreeFacts
  <1>2. task'[i].kind = "outbound" /\ "required" \in task'[i].keys => task'[i].flag
    BY <1>1 DEF EgressInv
  <1>3. task[i].kind \notin Writing /\ task'[i].kind \notin Writing  BY <1>1 DEF Writing
  <1> QED  BY <1>1, <1>2, <1>3, NoHandlerStep

LEMMA HandlerStepEgress == ASSUME ShapeInv, EgressInv, NEW i \in Slots, HandlerStep(i) PROVE EgressInv'
  BY ConfigureEgress, SetEnabledEgress, DeleteHandlerEgress, UpsertEgress, DeleteSecretEgress,
     RemoveHandlerEgress, BrokerFailsEgress, HandlerRequestLostEgress, OutboundEgress DEF HandlerStep

LEMMA InitEgress == Init => EgressInv
  <1> SUFFICES ASSUME Init PROVE EgressInv  OBVIOUS
  <1>1. PICK p \in Providers, made \in BOOLEAN :
          secrets = {<<h, "required">> : h \in {g \in Handlers : handler[g].keyed}}
                      \cup (IF made THEN {<<p, "required">>} ELSE {})
    BY Zenon DEF Init
  <1>2. task = [i \in Slots |-> Free]  BY DEF Init
  <1>3. \A i \in Slots : task[i].kind = "none"  BY <1>2, FreeFacts
  <1>4. ASSUME NEW h \in Handlers PROVE <<h, "required">> \in secrets <=> handler[h].keyed
    BY <1>1, SettingsAssumption
  <1> QED  BY <1>3, <1>4 DEF EgressInv, SecretsMatchRows, WritesApart, Writing, Holds

LEMMA NextEgress == ShapeInv /\ EgressInv /\ [Next]_vars => EgressInv'
  <1> SUFFICES ASSUME ShapeInv, EgressInv, [Next]_vars PROVE EgressInv'  OBVIOUS
  <1>1. CASE UNCHANGED vars
    BY <1>1 DEF vars, EgressInv, Undisturbed, SecretsMatchRows, AtRest, WritesApart, WriteOk, Holds
  <1>2. ASSUME NEW i \in Slots, PutSecret(i) PROVE EgressInv'  BY <1>2, PutSecretEgress
  <1>3. ASSUME NEW i \in Slots, ModelStep(i) PROVE EgressInv'  BY <1>3, ModelStepEgress
  <1>4. ASSUME NEW i \in Slots, HandlerStep(i) PROVE EgressInv'  BY <1>4, HandlerStepEgress
  <1>5. ASSUME NEW s \in Sessions, CloseSession(s) PROVE EgressInv'
    BY <1>5, CloseSessionMoves
       DEF EgressInv, Undisturbed, SecretsMatchRows, AtRest, WritesApart, WriteOk, Holds
  <1> QED  BY <1>1, <1>2, <1>3, <1>4, <1>5, NextCases

(* The secret of a handler is stored as long as its row refers to it and   *)
(* no longer, however often it is configured, switched and deleted, unless *)
(* two requests wrote it at once or one was cut off; and an outgoing       *)
(* request carries it only if the handler was on when the request began    *)
(* (TokensFollowHandlersUndisturbed).                                      *)
THEOREM TokensFollowHandlers == Spec => []TokensFollowHandlersUndisturbed
  <1>1. EgressInv => TokensFollowHandlersUndisturbed
    BY DEF EgressInv, Undisturbed, TokensFollowHandlersUndisturbed, TokensOnlyOfEnabled, At, Carries,
           RequiredGiven
  <1>2. Spec => []EgressInv
    BY InitEgress, NextEgress, ShapeCorrect, PTL DEF Spec
  <1> QED  BY <1>1, <1>2, PTL

-----------------------------------------------------------------------------
(* The keys of the providers.                                              *)

(* Whoever is about to write the references of a provider.                 *)
Recording(q) == q.kind \in Writers /\ q.at \in {"put", "record"}

(* A request that writes references has stored what it will record.        *)
KeyOk(q) ==
    /\ provider[q.owner].at # "none"
    /\ Recording(q) => \A k \in q.keys : k \in q.todo \/ Holds(q.owner, k)
    /\ q.at = "record" => q.todo = {}

(* It records no less than there is, as long as it is alone.               *)
Grows(q) ==
    /\ Recording(q) => provider[q.owner].refs \subseteq q.keys
    /\ q.kind = "provider" /\ Recording(q) => "required" \in q.keys
    /\ q.kind = "provider" /\ q.at = "check" => "required" \in provider[q.owner].refs

WritersApart ==
    \A i, j \in Slots :
        task[i].kind \in Writers /\ task[j].kind \in Writers /\ task[i].owner = task[j].owner => i = j

KeysInv ==
    /\ \A p \in Providers : \A k \in provider[p].refs : Holds(p, k)
    /\ \A p \in Providers : provider[p].at = "none" => provider[p].refs = {}
    /\ \A m \in Models : model[m].at # "none" => model[m].of \in Providers /\ provider[model[m].of].at # "none"
    /\ \A i \in Slots : task[i].kind \in Writers => KeyOk(task[i])
    /\ Undisturbed("refs") =>
          /\ WritersApart
          /\ \A i \in Slots : task[i].kind \in Writers => Grows(task[i])
          /\ \A m \in Models : LiveModel(m) => "required" \in provider[model[m].of].refs

(* What is to be shown of a step; the other requests know what they knew.  *)
LEMMA KeyStep ==
    ASSUME ShapeInv, KeysInv, ShapeInv', NEW i \in Slots, Only(i), disturbed \subseteq disturbed',
           \A p \in Providers : \A k \in provider'[p].refs : Holds(p, k)',
           \A p \in Providers : /\ provider'[p].at = "none" => provider'[p].refs = {}
                                /\ provider[p].at # "none" => provider'[p].at # "none",
           \A p \in Providers, k \in Keys : Holds(p, k) => Holds(p, k)',
           \A m \in Models : model'[m].at # "none" =>
                                model'[m].of \in Providers /\ provider'[model'[m].of].at # "none",
           task'[i].kind \in Writers => KeyOk(task[i])',
           Undisturbed("refs")' =>
              /\ \A j \in Slots \ {i} : task[j].kind \in Writers =>
                    /\ provider'[task[j].owner].refs = provider[task[j].owner].refs
                    /\ task'[i].kind \in Writers => task[j].owner # task'[i].owner
              /\ task'[i].kind \in Writers => Grows(task[i])'
              /\ \A m \in Models : LiveModel(m)' => "required" \in provider'[model'[m].of].refs
    PROVE  KeysInv'
  <1>1. ASSUME NEW j \in Slots, task'[j].kind \in Writers PROVE KeyOk(task[j])'
    <2>1. CASE j = i  BY <1>1, <2>1
    <2>2. CASE j # i
      <3>1. task'[j] = task[j] /\ task[j].kind \in Writers  BY <1>1, <2>2 DEF Only
      <3>2. task[j].owner \in Providers /\ task[j].keys \subseteq Keys
        BY <3>1, TaskFacts DEF TaskOk, Tasks
      <3>3. KeyOk(task[j])  BY <3>1 DEF KeysInv
      <3>4. Recording(task[j])' => \A k \in task'[j].keys : k \in task'[j].todo \/ Holds(task[j].owner, k)'
        BY <3>1, <3>2, <3>3 DEF KeyOk, Recording
      <3> QED  BY <3>1, <3>2, <3>3, <3>4 DEF KeyOk
    <2> QED  BY <2>1, <2>2
  <1>2. ASSUME Undisturbed("refs")'
        PROVE  WritersApart' /\ \A j \in Slots : task'[j].kind \in Writers => Grows(task[j])'
    <2>1. WritersApart /\ \A j \in Slots : task[j].kind \in Writers => Grows(task[j])
      BY <1>2 DEF KeysInv, Undisturbed
    <2>2. WritersApart'  BY <1>2, <2>1 DEF WritersApart, Only
    <2>3. ASSUME NEW j \in Slots, task'[j].kind \in Writers PROVE Grows(task[j])'
      <3>1. CASE j = i  BY <1>2, <2>3, <3>1
      <3>2. CASE j # i
        <4>1. task'[j] = task[j] /\ task[j].kind \in Writers  BY <2>3, <3>2 DEF Only
        <4>2. Grows(task[j]) /\ provider'[task[j].owner].refs = provider[task[j].owner].refs
          BY <1>2, <2>1, <3>2, <4>1
        <4> QED  BY <4>1, <4>2 DEF Grows, Recording
      <3> QED  BY <3>1, <3>2
    <2> QED  BY <2>2, <2>3
  <1> QED  BY <1>1, <1>2 DEF KeysInv

(* A step that adds nothing to the tables but secrets, by a request that   *)
(* writes no references any more.                                          *)
LEMMA NoKeyStep ==
    ASSUME ShapeInv, KeysInv, ShapeInv', NEW i \in Slots, Only(i), disturbed \subseteq disturbed',
           UNCHANGED provider, \A p \in Providers, k \in Keys : Holds(p, k) => Holds(p, k)',
           \A m \in Models : /\ model'[m].of = model[m].of
                             /\ model'[m].at = model[m].at \/ (model[m].at # "none" /\ model'[m].at = "deleted"),
           task'[i].kind \in Writers =>
              /\ task[i].kind \in Writers /\ task'[i].owner = task[i].owner
              /\ ~ Recording(task'[i]) /\ task'[i].at # "check"
    PROVE  KeysInv'
  <1>1. \A p \in Providers : \A k \in provider'[p].refs : Holds(p, k)'
    BY DEF KeysInv, ShapeInv, TypeOK, ProviderRows
  <1>2. \A m \in Models : model'[m].at # "none" =>
             model'[m].of \in Providers /\ provider'[model'[m].of].at # "none"
    BY DEF KeysInv
  <1>3. ASSUME task'[i].kind \in Writers PROVE KeyOk(task[i])'
    <2>1. KeyOk(task[i]) /\ task'[i].at # "record"  BY <1>3 DEF KeysInv, Recording
    <2> QED  BY <1>3, <2>1 DEF KeyOk, Recording
  <1>4. ASSUME Undisturbed("refs")'
        PROVE  /\ \A j \in Slots \ {i} : task[j].kind \in Writers /\ task'[i].kind \in Writers =>
                                           task[j].owner # task'[i].owner
               /\ task'[i].kind \in Writers => Grows(task[i])'
               /\ \A m \in Models : LiveModel(m)' => "required" \in provider'[model'[m].of].refs
    <2>1. WritersApart /\ \A m \in Models : LiveModel(m) => "required" \in provider[model[m].of].refs
      BY <1>4 DEF KeysInv, Undisturbed
    <2>2. \A m \in Models : LiveModel(m)' => LiveModel(m)  BY DEF LiveModel, LiveProvider
    <2>3. task'[i].kind \in Writers => Grows(task[i])'  BY DEF Grows, Recording
    <2> QED  BY <2>1, <2>2, <2>3 DEF WritersApart
  <1> QED  BY <1>1, <1>2, <1>3, <1>4, KeyStep DEF KeysInv

LEMMA PutSecretKeys == ASSUME ShapeInv, KeysInv, NEW i \in Slots, PutSecret(i) PROVE KeysInv'
  <1>1. PICK k \in task[i].todo :
          /\ secrets' = secrets \cup {<<task[i].owner, k>>}
          /\ task'[i].todo = task[i].todo \ {k}
          /\ task'[i].at = IF task[i].todo = {k} THEN "record" ELSE "put"
    BY PutSecretMoves
  <1>2. /\ ShapeInv' /\ Only(i) /\ task[i].at = "put" /\ task[i].kind \in Writers \cup {"configure"}
        /\ task'[i].kind = task[i].kind /\ task'[i].owner = task[i].owner
        /\ task'[i].keys = task[i].keys /\ UNCHANGED <<provider, model, disturbed>>
    BY PutSecretMoves DEF modelTables
  <1>3. \A p \in Providers, l \in Keys : Holds(p, l) => Holds(p, l)'  BY <1>1 DEF Holds
  <1>4. CASE task[i].kind \notin Writers  BY <1>2, <1>3, <1>4, NoKeyStep
  <1>5. CASE task[i].kind \in Writers
    <2>1. KeyOk(task[i]) /\ Recording(task[i])  BY <1>2, <1>5 DEF KeysInv, Recording
    <2>2. \A l \in task'[i].keys : l \in task'[i].todo \/ <<task'[i].owner, l>> \in secrets'
      BY <1>1, <1>2, <2>1 DEF KeyOk, Holds
    <2>3. KeyOk(task[i])'  BY <1>1, <1>2, <2>1, <2>2 DEF KeyOk, Holds
    <2>4. Undisturbed("refs")' = Undisturbed("refs")  BY <1>2 DEF Undisturbed
    <2>5. ASSUME Undisturbed("refs")
          PROVE  /\ \A j \in Slots \ {i} : task[j].kind \in Writers => task[j].owner # task'[i].owner
                 /\ Grows(task[i])'
                 /\ \A m \in Models : LiveModel(m)' => "required" \in provider'[model'[m].of].refs
      <3>1. /\ WritersApart /\ Grows(task[i])
            /\ \A m \in Models : LiveModel(m) => "required" \in provider[model[m].of].refs
        BY <1>5, <2>5 DEF KeysInv
      <3>2. Grows(task[i])'  BY <1>1, <1>2, <2>1, <3>1 DEF Grows, Recording
      <3>3. \A m \in Models : LiveModel(m)' <=> LiveModel(m)  BY <1>2 DEF LiveModel, LiveProvider
      <3> QED  BY <1>2, <1>5, <3>1, <3>2, <3>3 DEF WritersApart
    <2>6. \A p \in Providers : \A l \in provider'[p].refs : Holds(p, l)'
      BY <1>2, <1>3 DEF KeysInv, ShapeInv, TypeOK, ProviderRows
    <2> QED  BY <1>2, <1>3, <2>3, <2>4, <2>5, <2>6, KeyStep DEF KeysInv
  <1> QED  BY <1>2, <1>4, <1>5

(* A writer begins: nobody else writes the provider, or that is noted.     *)
LEMMA WriterAlone ==
    ASSUME ShapeInv, NEW i \in Slots, NEW kind \in Writers, NEW p, task[i].kind = "none",
           disturbed' = disturbed \cup Disturbs(i, kind, p), Undisturbed("refs")'
    PROVE  \A j \in Slots \ {i} : task[j].kind \in Writers => task[j].owner # p
  <1> SUFFICES ASSUME NEW j \in Slots \ {i}, task[j].kind \in Writers, task[j].owner = p PROVE FALSE
    OBVIOUS
  <1>1. j \in Beside(i)  BY TaskFacts DEF Beside, TaskOk, Writers
  <1>2. "refs" \in Disturbs(i, kind, p)  BY <1>1 DEF Disturbs
  <1> QED  BY <1>2 DEF Undisturbed

LEMMA WriterBegins ==
    ASSUME ShapeInv, KeysInv, ShapeInv', NEW i \in Slots, Only(i), task[i].kind = "none",
           task'[i].kind \in {"model", "update"}, task'[i].at \in {"put", "check"},
           LiveProvider(task'[i].owner),
           task'[i].keys = task'[i].todo \cup provider[task'[i].owner].refs,
           disturbed' = disturbed \cup Disturbs(i, task'[i].kind, task'[i].owner),
           UNCHANGED <<provider, model, secrets>>
    PROVE  KeysInv'
  <1>1. PICK p \in Providers : p = task'[i].owner  BY DEF LiveProvider
  <1>2. task'[i].kind \in Writers  BY DEF Writers
  <1>3. \A q \in Providers, l \in Keys : Holds(q, l) <=> Holds(q, l)'  BY DEF Holds
  <1>4. \A l \in provider[p].refs : Holds(p, l)'  BY DEF KeysInv, Holds
  <1>5. KeyOk(task[i])'  BY <1>1, <1>4 DEF KeyOk, LiveProvider
  <1>6. Grows(task[i])'  BY <1>1 DEF Grows, Recording
  <1>7. ASSUME Undisturbed("refs")'
        PROVE  /\ \A j \in Slots \ {i} : task[j].kind \in Writers => task[j].owner # p
               /\ \A m \in Models : LiveModel(m)' => "required" \in provider'[model'[m].of].refs
    <2>1. \A j \in Slots \ {i} : task[j].kind \in Writers => task[j].owner # p
      BY <1>1, <1>2, <1>7, WriterAlone
    <2>2. \A m \in Models : LiveModel(m) => "required" \in provider[model[m].of].refs
      BY <1>7 DEF KeysInv, Undisturbed
    <2>3. \A m \in Models : LiveModel(m)' <=> LiveModel(m)  BY DEF LiveModel, LiveProvider
    <2> QED  BY <2>1, <2>2, <2>3
  <1>8. \A q \in Providers : \A l \in provider'[q].refs : Holds(q, l)'  BY DEF KeysInv, Holds
  <1>9. disturbed \subseteq disturbed'  OBVIOUS
  <1> QED  BY <1>1, <1>3, <1>5, <1>6, <1>7, <1>8, <1>9, KeyStep DEF KeysInv

(* A provider is made, with no references yet.                             *)
LEMMA ProviderBegins ==
    ASSUME ShapeInv, KeysInv, ShapeInv', NEW i \in Slots, NEW p \in Providers, Only(i), task[i].kind = "none",
           task'[i].kind \in {"provider", "model"}, task'[i].at \in {"put", "check"}, task'[i].owner = p,
           task'[i].keys = task'[i].todo,
           task'[i].kind = "provider" => "required" \in task'[i].keys /\ task'[i].at = "put",
           provider[p] = NoProvider, provider'[p] = [at |-> "live", refs |-> {}],
           \A q \in Providers \ {p} : provider'[q] = provider[q],
           disturbed \subseteq disturbed', UNCHANGED <<model, secrets>>
    PROVE  KeysInv'
  <1>1. task'[i].kind \in Writers /\ task'[i].at # "record"  BY DEF Writers
  <1>2. /\ provider'[p].at = "live" /\ provider'[p].refs = {}
        /\ provider[p].at = "none" /\ provider[p].refs = {}
    BY DEF NoProvider
  <1>3. \A q \in Providers : provider'[q].refs = provider[q].refs
    BY <1>2
  <1>4. \A q \in Providers, l \in Keys : Holds(q, l) <=> Holds(q, l)'  BY DEF Holds
  <1>5. KeyOk(task[i])'  BY <1>1, <1>2 DEF KeyOk
  <1>6. Grows(task[i])'  BY <1>1, <1>2 DEF Grows, Recording
  <1>7. ASSUME NEW j \in Slots \ {i}, task[j].kind \in Writers
        PROVE  task[j].owner # p /\ task[j].owner \in Providers
    <2>1. KeyOk(task[j])  BY <1>7 DEF KeysInv
    <2> QED  BY <1>2, <1>7, <2>1, TaskFacts DEF KeyOk, TaskOk
  <1>8. ASSUME Undisturbed("refs")', NEW m \in Models, LiveModel(m)'
        PROVE  "required" \in provider'[model'[m].of].refs
    <2>1. model[m].at = "live" /\ model[m].of \in Providers /\ provider[model[m].of].at # "none"
      BY <1>8 DEF LiveModel, KeysInv
    <2>2. LiveModel(m)  BY <1>2, <1>8, <2>1 DEF LiveModel, LiveProvider
    <2> QED  BY <1>3, <1>8, <2>1, <2>2 DEF KeysInv, Undisturbed
  <1>9. \A q \in Providers : \A l \in provider'[q].refs : Holds(q, l)'  BY <1>3 DEF KeysInv, Holds
  <1>10. \A q \in Providers : /\ provider'[q].at = "none" => provider'[q].refs = {}
                              /\ provider[q].at # "none" => provider'[q].at # "none"
    BY <1>2 DEF KeysInv
  <1>11. \A m \in Models : model'[m].at # "none" =>
             model'[m].of \in Providers /\ provider'[model'[m].of].at # "none"
    BY <1>10 DEF KeysInv
  <1>12. \A j \in Slots \ {i} : task[j].kind \in Writers =>
            /\ provider'[task[j].owner].refs = provider[task[j].owner].refs
            /\ task[j].owner # task'[i].owner
    BY <1>3, <1>7
  <1> QED  BY <1>4, <1>5, <1>6, <1>8, <1>9, <1>10, <1>11, <1>12, KeyStep

LEMMA RecordRefsKeys == ASSUME ShapeInv, KeysInv, NEW i \in Slots, RecordRefs(i) PROVE KeysInv'
  <1>1. /\ ShapeInv' /\ Only(i) /\ task[i].kind \in Writers /\ task[i].at = "record"
        /\ UNCHANGED <<model, secrets, disturbed>>
    BY RecordRefsMoves
  <1>2. CASE provider' = provider /\ task'[i] = Free
    <2>1. task'[i].kind \notin Writers  BY <1>2, FreeFacts DEF Writers
    <2> QED  BY <1>1, <1>2, <2>1, NoKeyStep DEF Holds
  <1>3. ASSUME /\ LiveProvider(task[i].owner)
               /\ provider' = [provider EXCEPT ![task[i].owner].refs = task[i].keys]
               /\ \/ task'[i] = Free
                  \/ task[i].kind # "update" /\ Went(i, "check")
        PROVE  KeysInv'
    <2>1. PICK p \in Providers : p = task[i].owner  BY <1>3 DEF LiveProvider
    <2>2. KeyOk(task[i]) /\ Recording(task[i])  BY <1>1 DEF KeysInv, Recording
    <2>3. /\ provider'[p].refs = task[i].keys /\ provider'[p].at = "live" /\ provider[p].at = "live"
          /\ \A q \in Providers \ {p} : provider'[q] = provider[q]
      BY <1>3, <2>1 DEF LiveProvider, ShapeInv, TypeOK, ProviderRows
    <2>4. \A q \in Providers, l \in Keys : Holds(q, l) <=> Holds(q, l)'  BY <1>1 DEF Holds
    <2>5. \A q \in Providers : \A l \in provider'[q].refs : Holds(q, l)'
      <3>1. \A l \in task[i].keys : Holds(p, l)'  BY <1>1, <2>1, <2>2 DEF KeyOk, Holds
      <3> QED  BY <1>1, <2>3, <3>1 DEF KeysInv, Holds
    <2>6. \A q \in Providers : /\ provider'[q].at = "none" => provider'[q].refs = {}
                               /\ provider[q].at # "none" => provider'[q].at # "none"
      BY <2>3 DEF KeysInv
    <2>7. \A m \in Models : model'[m].at # "none" =>
              model'[m].of \in Providers /\ provider'[model'[m].of].at # "none"
      BY <1>1, <2>6 DEF KeysInv
    <2>8. CASE task'[i] = Free
      <3>1. task'[i].kind \notin Writers  BY <2>8, FreeFacts DEF Writers
      <3>2. ASSUME Undisturbed("refs")'
            PROVE  /\ \A j \in Slots \ {i} : task[j].kind \in Writers =>
                         provider'[task[j].owner].refs = provider[task[j].owner].refs
                   /\ \A m \in Models : LiveModel(m)' => "required" \in provider'[model'[m].of].refs
        <4>1. /\ WritersApart /\ Grows(task[i])
              /\ \A m \in Models : LiveModel(m) => "required" \in provider[model[m].of].refs
          BY <1>1, <3>2 DEF KeysInv, Undisturbed
        <4>2. provider[p].refs \subseteq provider'[p].refs  BY <2>1, <2>2, <2>3, <4>1 DEF Grows
        <4>3. \A m \in Models : LiveModel(m)' => LiveModel(m)
          BY <1>1, <2>3 DEF LiveModel, LiveProvider
        <4>4. ASSUME NEW m \in Models, LiveModel(m)' PROVE "required" \in provider'[model'[m].of].refs
          <5>1. LiveModel(m) /\ model[m].of \in Providers /\ model'[m].of = model[m].of
            BY <1>1, <4>3, <4>4 DEF LiveModel, LiveProvider
          <5> QED  BY <2>3, <4>1, <4>2, <5>1
        <4>5. ASSUME NEW j \in Slots \ {i}, task[j].kind \in Writers
              PROVE  provider'[task[j].owner].refs = provider[task[j].owner].refs
          <5>1. task[j].owner \in Providers \ {p}
            BY <1>1, <2>1, <4>1, <4>5, TaskFacts DEF WritersApart, TaskOk
          <5> QED  BY <2>3, <5>1
        <4> QED  BY <4>4, <4>5
      <3> QED  BY <1>1, <2>4, <2>5, <2>6, <2>7, <3>1, <3>2, KeyStep
    <2>9. CASE task[i].kind # "update" /\ Went(i, "check")
      <3>1. /\ task'[i].at = "check" /\ task'[i].kind = task[i].kind /\ task'[i].owner = p
        BY <2>1, <2>9 DEF Went
      <3>2. KeyOk(task[i])'  BY <2>3, <3>1 DEF KeyOk, Recording
      <3>3. ASSUME Undisturbed("refs")'
            PROVE  /\ \A j \in Slots \ {i} : task[j].kind \in Writers =>
                         provider'[task[j].owner].refs = provider[task[j].owner].refs /\ task[j].owner # p
                   /\ Grows(task[i])'
                   /\ \A m \in Models : LiveModel(m)' => "required" \in provider'[model'[m].of].refs
        <4>1. /\ WritersApart /\ Grows(task[i])
              /\ \A m \in Models : LiveModel(m) => "required" \in provider[model[m].of].refs
          BY <1>1, <3>3 DEF KeysInv, Undisturbed
        <4>2. provider[p].refs \subseteq provider'[p].refs  BY <2>1, <2>2, <2>3, <4>1 DEF Grows
        <4>3. \A m \in Models : LiveModel(m)' => LiveModel(m)
          BY <1>1, <2>3 DEF LiveModel, LiveProvider
        <4>4. ASSUME NEW m \in Models, LiveModel(m)' PROVE "required" \in provider'[model'[m].of].refs
          <5>1. LiveModel(m) /\ model[m].of \in Providers /\ model'[m].of = model[m].of
            BY <1>1, <4>3, <4>4 DEF LiveModel, LiveProvider
          <5> QED  BY <2>3, <4>1, <4>2, <5>1
        <4>5. ASSUME NEW j \in Slots \ {i}, task[j].kind \in Writers
              PROVE  provider'[task[j].owner].refs = provider[task[j].owner].refs /\ task[j].owner # p
          <5>1. task[j].owner \in Providers \ {p}
            BY <1>1, <2>1, <4>1, <4>5, TaskFacts DEF WritersApart, TaskOk
          <5> QED  BY <2>3, <5>1
        <4>6. Grows(task[i])'
          BY <2>1, <2>2, <2>3, <3>1, <4>1 DEF Grows, Recording
        <4> QED  BY <4>4, <4>5, <4>6
      <3> QED  BY <1>1, <2>4, <2>5, <2>6, <2>7, <3>1, <3>2, <3>3, KeyStep
    <2> QED  BY <1>3, <2>8, <2>9
  <1> QED  BY <1>2, <1>3, RecordRefsMoves

LEMMA InsertModelKeys == ASSUME ShapeInv, KeysInv, NEW i \in Slots, InsertModel(i) PROVE KeysInv'
  <1>1. /\ ShapeInv' /\ Only(i) /\ task[i].kind \in {"provider", "model"} /\ task[i].at = "check"
        /\ task[i].kind = "model" => HasKey(i)
        /\ model' = [model EXCEPT ![task[i].model] = [at |-> "live", of |-> task[i].owner]]
        /\ task'[i] = Free \/ Went(i, "choose")
        /\ UNCHANGED <<provider, secrets, disturbed>>
    BY InsertModelMoves
  <1>2. task[i].kind \in Writers  BY <1>1 DEF Writers
  <1>3. PICK p \in Providers, m \in Models : p = task[i].owner /\ m = task[i].model
    BY InsertModelMoves
  <1>4. KeyOk(task[i])  BY <1>2 DEF KeysInv
  <1>5. /\ model'[m].at = "live" /\ model'[m].of = p
        /\ \A n \in Models \ {m} : model'[n] = model[n]
    BY <1>1, <1>3 DEF ShapeInv, TypeOK
  <1>6. \A n \in Models : model'[n].at # "none" =>
            model'[n].of \in Providers /\ provider'[model'[n].of].at # "none"
    BY <1>1, <1>3, <1>4, <1>5 DEF KeysInv, KeyOk
  <1>7. task'[i].kind \in Writers => task'[i].owner = p /\ task'[i].at = "choose"
    BY <1>1, <1>3, FreeFacts DEF Went, Writers
  <1>8. task'[i].kind \in Writers => KeyOk(task[i])'
    BY <1>1, <1>3, <1>4, <1>7 DEF KeyOk, Recording
  <1>9. ASSUME Undisturbed("refs")'
        PROVE  /\ \A j \in Slots \ {i} : task[j].kind \in Writers /\ task'[i].kind \in Writers =>
                                           task[j].owner # task'[i].owner
               /\ task'[i].kind \in Writers => Grows(task[i])'
               /\ \A n \in Models : LiveModel(n)' => "required" \in provider'[model'[n].of].refs
    <2>1. /\ WritersApart /\ Grows(task[i])
          /\ \A n \in Models : LiveModel(n) => "required" \in provider[model[n].of].refs
      BY <1>1, <1>2, <1>9 DEF KeysInv, Undisturbed
    <2>2. "required" \in provider[p].refs
      BY <1>1, <1>3, <2>1 DEF Grows, HasKey, RequiredGiven
    <2>3. \A n \in Models \ {m} : LiveModel(n)' <=> LiveModel(n)
      BY <1>1, <1>5 DEF LiveModel, LiveProvider
    <2>4. task'[i].kind \in Writers => Grows(task[i])'  BY <1>7 DEF Grows, Recording
    <2>5. \A j \in Slots \ {i} : task[j].kind \in Writers => task[j].owner # p
      BY <1>2, <1>3, <2>1 DEF WritersApart
    <2> QED  BY <1>1, <1>5, <1>7, <2>1, <2>2, <2>3, <2>4, <2>5
  <1>10. \A q \in Providers : \A l \in provider'[q].refs : Holds(q, l)'  BY <1>1 DEF KeysInv, Holds
  <1>11. \A q \in Providers, l \in Keys : Holds(q, l) <=> Holds(q, l)'  BY <1>1 DEF Holds
  <1> QED  BY <1>1, <1>6, <1>8, <1>9, <1>10, <1>11, KeyStep DEF KeysInv

LEMMA DropProviderKeys == ASSUME ShapeInv, KeysInv, NEW i \in Slots, DropProvider(i) PROVE KeysInv'
  <1>1. /\ ShapeInv' /\ Only(i) /\ task'[i] = Free /\ UNCHANGED <<model, secrets, disturbed>>
        /\ provider' = [provider EXCEPT ![task[i].owner].at = "deleted"]
    BY DropProviderMoves
  <1>2. PICK p \in Providers : p = task[i].owner  BY DropProviderMoves
  <1>3. /\ provider'[p].at = "deleted" /\ provider'[p].refs = provider[p].refs
        /\ \A q \in Providers \ {p} : provider'[q] = provider[q]
    BY <1>1, <1>2 DEF ShapeInv, TypeOK, ProviderRows
  <1>4. \A q \in Providers : provider'[q].refs = provider[q].refs  BY <1>3
  <1>5. task'[i].kind \notin Writers  BY <1>1, FreeFacts DEF Writers
  <1>6. \A q \in Providers, l \in Keys : Holds(q, l) <=> Holds(q, l)'  BY <1>1 DEF Holds
  <1>7. \A q \in Providers : \A l \in provider'[q].refs : Holds(q, l)'
    BY <1>1, <1>4 DEF KeysInv, Holds
  <1>8. \A q \in Providers : /\ provider'[q].at = "none" => provider'[q].refs = {}
                             /\ provider[q].at # "none" => provider'[q].at # "none"
    BY <1>3 DEF KeysInv
  <1>9. \A m \in Models : model'[m].at # "none" =>
            model'[m].of \in Providers /\ provider'[model'[m].of].at # "none"
    BY <1>1, <1>8 DEF KeysInv
  <1>10. ASSUME Undisturbed("refs")', NEW m \in Models, LiveModel(m)'
         PROVE  "required" \in provider'[model'[m].of].refs
    <2>1. LiveModel(m) /\ model[m].of \in Providers
      BY <1>1, <1>3, <1>10 DEF LiveModel, LiveProvider
    <2> QED  BY <1>1, <1>4, <1>10, <2>1 DEF KeysInv, Undisturbed
  <1>11. \A j \in Slots : task[j].kind \in Writers =>
             provider'[task[j].owner].refs = provider[task[j].owner].refs
    BY <1>4, TaskFacts DEF TaskOk
  <1> QED  BY <1>1, <1>5, <1>6, <1>7, <1>8, <1>9, <1>10, <1>11, KeyStep

(* The remaining steps write no references and make nothing.               *)
KeylessStep(i) ==
    /\ UNCHANGED <<provider, secrets>>
    /\ \A m \in Models : /\ model'[m].of = model[m].of
                         /\ model'[m].at = model[m].at \/ (model[m].at # "none" /\ model'[m].at = "deleted")
    /\ task'[i].kind \in Writers =>
          /\ task[i].kind \in Writers /\ task'[i].owner = task[i].owner
          /\ task'[i].at \in {"choose", "write"}

LEMMA KeylessKeys ==
    ASSUME ShapeInv, KeysInv, ShapeInv', NEW i \in Slots, Only(i), disturbed \subseteq disturbed', KeylessStep(i)
    PROVE  KeysInv'
  <1>1. \A p \in Providers, l \in Keys : Holds(p, l) => Holds(p, l)'  BY DEF KeylessStep, Holds
  <1> QED  BY <1>1, NoKeyStep DEF KeylessStep, Recording

LEMMA DropModelsKeyless == ASSUME ShapeInv, NEW i \in Slots, DropModels(i) PROVE KeylessStep(i)
  <1>1. /\ task[i].kind = "dropProvider" /\ Went(i, "clear") /\ UNCHANGED <<provider, secrets>>
        /\ \A m \in Models : model'[m].of = model[m].of
               /\ model'[m].at = IF m \in ModelsOf(task[i].owner) THEN "deleted" ELSE model[m].at
    BY DropModelsMoves
  <1>2. \A m \in Models : model'[m].of = model[m].of
             /\ (model'[m].at = model[m].at \/ (model[m].at # "none" /\ model'[m].at = "deleted"))
    BY <1>1 DEF ModelsOf
  <1>3. task'[i].kind \notin Writers  BY <1>1 DEF Went, Writers
  <1> QED  BY <1>1, <1>2, <1>3 DEF KeylessStep

(* The model has been found by the time it is deleted.                     *)
LEMMA DropModelKeyless ==
    ASSUME ShapeInv, NEW i \in Slots, DropModel(i), model[task[i].model].at # "none" PROVE KeylessStep(i)
  <1>1. /\ task'[i] = Free /\ task[i].model \in Models /\ UNCHANGED <<provider, secrets>>
        /\ model' = [model EXCEPT ![task[i].model].at = "deleted"]
    BY DropModelMoves
  <1>2. \A m \in Models : model'[m].of = model[m].of
             /\ (model'[m].at = model[m].at \/ (model[m].at # "none" /\ model'[m].at = "deleted"))
    BY <1>1 DEF ShapeInv, TypeOK, ModelRows
  <1>3. task'[i].kind \notin Writers  BY <1>1, FreeFacts DEF Writers
  <1> QED  BY <1>1, <1>2, <1>3 DEF KeylessStep

LEMMA ModelStepKeys ==
    ASSUME ShapeInv, DropsMade, KeysInv, NEW i \in Slots, ModelStep(i) PROVE KeysInv'
  <1>0. ShapeInv' /\ Only(i) /\ disturbed \subseteq disturbed'  BY ModelSteps
  <1>1. CASE CreateProvider(i)
    <2>1. /\ Began(i, "provider", "put") /\ UNCHANGED <<model, secrets>>
          /\ \E p \in Providers, keys \in SUBSET Keys :
                 /\ task'[i].owner = p /\ task'[i].keys = keys /\ task'[i].todo = keys
                 /\ "required" \in keys /\ provider[p] = NoProvider
                 /\ provider'[p] = [at |-> "live", refs |-> {}]
                 /\ \A q \in Providers \ {p} : provider'[q] = provider[q]
      BY <1>1, CreateProviderMoves
    <2>2. PICK p \in Providers :
                 /\ task'[i].owner = p /\ task'[i].keys = task'[i].todo
                 /\ "required" \in task'[i].keys /\ provider[p] = NoProvider
                 /\ provider'[p] = [at |-> "live", refs |-> {}]
                 /\ \A q \in Providers \ {p} : provider'[q] = provider[q]
      BY <2>1
    <2> QED  BY <1>0, <2>1, <2>2, ProviderBegins DEF Began
  <1>2. CASE CreateModel(i)
    BY <1>0, <1>2, CreateModelMoves, WriterBegins DEF modelTables
  <1>3. CASE CreateModelAndProvider(i)
    <2>1. /\ task[i].kind = "none" /\ task'[i].kind = "model" /\ task'[i].at \in {"put", "check"}
          /\ UNCHANGED <<model, secrets>>
      BY <1>3, CreateModelAndProviderMoves
    <2>2. PICK p \in Providers :
                 /\ task'[i].owner = p /\ task'[i].keys = task'[i].todo
                 /\ provider[p] = NoProvider
                 /\ provider'[p] = [at |-> "live", refs |-> {}]
                 /\ \A q \in Providers \ {p} : provider'[q] = provider[q]
      BY <1>3, CreateModelAndProviderMoves
    <2> QED  BY <1>0, <2>1, <2>2, ProviderBegins
  <1>4. CASE UpdateModel(i)
    BY <1>0, <1>4, UpdateModelMoves, WriterBegins DEF modelTables, Began
  <1>5. CASE RecordRefs(i)
    BY <1>5, RecordRefsKeys
  <1>6. CASE Refused(i)
    <2>1. KeylessStep(i)
      BY <1>6, RefusedMoves, FreeFacts DEF modelTables, Began, Went, Writers, KeylessStep
    <2> QED  BY <1>0, <2>1, KeylessKeys
  <1>7. CASE InsertModel(i)
    BY <1>7, InsertModelKeys
  <1>8. CASE SetWorkspaceDefault(i)
    <2>1. KeylessStep(i)
      BY <1>8, SetWorkspaceDefaultMoves, FreeFacts DEF modelTables, Began, Went, Writers, KeylessStep
    <2> QED  BY <1>0, <2>1, KeylessKeys
  <1>9. CASE ChooseDefault(i)
    <2>1. KeylessStep(i)
      BY <1>9, ChooseDefaultMoves, FreeFacts DEF modelTables, Began, Went, Writers, KeylessStep
    <2> QED  BY <1>0, <2>1, KeylessKeys
  <1>10. CASE WriteDefault(i)
    <2>1. KeylessStep(i)
      BY <1>10, WriteDefaultMoves, FreeFacts DEF modelTables, Began, Went, Writers, KeylessStep
    <2> QED  BY <1>0, <2>1, KeylessKeys
  <1>11. CASE DeleteProvider(i)
    <2>1. KeylessStep(i)
      BY <1>11, DeleteProviderMoves, FreeFacts DEF modelTables, Began, Went, Writers, KeylessStep
    <2> QED  BY <1>0, <2>1, KeylessKeys
  <1>12. CASE CountSessions(i)
    <2>1. KeylessStep(i)
      BY <1>12, CountSessionsMoves, FreeFacts DEF modelTables, Began, Went, Writers, KeylessStep
    <2> QED  BY <1>0, <2>1, KeylessKeys
  <1>13. CASE ListModels(i)
    <2>1. KeylessStep(i)
      BY <1>13, ListModelsMoves, FreeFacts DEF modelTables, Began, Went, Writers, KeylessStep
    <2> QED  BY <1>0, <2>1, KeylessKeys
  <1>14. CASE ReadDefault(i)
    <2>1. KeylessStep(i)
      BY <1>14, ReadDefaultMoves, FreeFacts DEF modelTables, Began, Went, Writers, KeylessStep
    <2> QED  BY <1>0, <2>1, KeylessKeys
  <1>15. CASE DropModels(i)
    BY <1>0, <1>15, DropModelsKeyless, KeylessKeys
  <1>16. CASE ClearDefault(i)
    <2>1. KeylessStep(i)
      BY <1>16, ClearDefaultMoves, FreeFacts DEF modelTables, Began, Went, Writers, KeylessStep
    <2> QED  BY <1>0, <2>1, KeylessKeys
  <1>17. CASE DropProvider(i)
    BY <1>17, DropProviderKeys
  <1>18. CASE DeleteModel(i)
    <2>1. KeylessStep(i)
      BY <1>18, DeleteModelMoves, FreeFacts DEF modelTables, Began, Went, Writers, KeylessStep
    <2> QED  BY <1>0, <2>1, KeylessKeys
  <1>19. CASE CountActiveSessionReferences(i)
    <2>1. KeylessStep(i)
      BY <1>19, CountActiveSessionReferencesMoves, FreeFacts DEF modelTables, Began, Went, Writers, KeylessStep
    <2> QED  BY <1>0, <2>1, KeylessKeys
  <1>20. CASE FindModel(i)
    <2>1. KeylessStep(i)
      BY <1>20, FindModelMoves, FreeFacts DEF modelTables, Began, Went, Writers, KeylessStep
    <2> QED  BY <1>0, <2>1, KeylessKeys
  <1>21. CASE DropModel(i)
    <2>1. task[i].kind = "dropModel"  BY <1>21, DropModelMoves
    <2>2. KeylessStep(i)  BY <1>21, <2>1, DropModelKeyless DEF DropsMade
    <2> QED  BY <1>0, <2>2, KeylessKeys
  <1>22. CASE CreateSession(i)
    <2>1. KeylessStep(i)
      BY <1>22, AsksForSessionMoves, FreeFacts DEF modelTables, Began, Went, Writers, KeylessStep, CreateSession
    <2> QED  BY <1>0, <2>1, KeylessKeys
  <1>23. CASE HandleNewSession(i)
    <2>1. KeylessStep(i)
      BY <1>23, AsksForSessionMoves, FreeFacts DEF modelTables, Began, Went, Writers, KeylessStep, HandleNewSession
    <2> QED  BY <1>0, <2>1, KeylessKeys
  <1>24. CASE ResolveModelForNewSession(i)
    <2>1. KeylessStep(i)
      BY <1>24, ResolveModelForNewSessionMoves, FreeFacts DEF modelTables, Began, Went, Writers, KeylessStep
    <2> QED  BY <1>0, <2>1, KeylessKeys
  <1>25. CASE SaveSession(i)
    <2>1. KeylessStep(i)
      BY <1>25, SaveSessionMoves, FreeFacts DEF modelTables, Began, Went, Writers, KeylessStep
    <2> QED  BY <1>0, <2>1, KeylessKeys
  <1>26. CASE HandleExistingSession(i)
    <2>1. KeylessStep(i)
      BY <1>26, HandleExistingSessionMoves, FreeFacts DEF modelTables, Began, Went, Writers, KeylessStep
    <2> QED  BY <1>0, <2>1, KeylessKeys
  <1>27. CASE GetHotContext(i)
    <2>1. KeylessStep(i)
      BY <1>27, GetHotContextMoves, FreeFacts DEF modelTables, Began, Went, Writers, KeylessStep
    <2> QED  BY <1>0, <2>1, KeylessKeys
  <1>28. CASE ResolveModelForSession(i)
    <2>1. KeylessStep(i)
      BY <1>28, ResolveModelForSessionMoves, FreeFacts DEF modelTables, Began, Went, Writers, KeylessStep
    <2> QED  BY <1>0, <2>1, KeylessKeys
  <1>29. CASE SaveHotContext(i)
    <2>1. KeylessStep(i)
      BY <1>29, SaveHotContextMoves, FreeFacts DEF modelTables, Began, Went, Writers, KeylessStep
    <2> QED  BY <1>0, <2>1, KeylessKeys
  <1>30. CASE EndRun(i)
    <2>1. KeylessStep(i)
      BY <1>30, EndRunMoves, FreeFacts DEF modelTables, Began, Went, Writers, KeylessStep
    <2> QED  BY <1>0, <2>1, KeylessKeys
  <1>31. CASE BrokerFails(i)
    <2>1. KeylessStep(i)
      BY <1>31, BrokerFailsMoves, FreeFacts DEF modelTables, Began, Went, Writers, KeylessStep
    <2> QED  BY <1>0, <2>1, KeylessKeys
  <1>32. CASE CacheUnavailable(i)
    <2>1. KeylessStep(i)
      BY <1>32, CacheUnavailableMoves, FreeFacts DEF modelTables, Began, Went, Writers, KeylessStep
    <2> QED  BY <1>0, <2>1, KeylessKeys
  <1>33. CASE RequestLost(i)
    <2>1. KeylessStep(i)
      BY <1>33, RequestLostMoves, FreeFacts DEF modelTables, Began, Went, Writers, KeylessStep
    <2> QED  BY <1>0, <2>1, KeylessKeys
  <1> QED
    BY <1>1, <1>2, <1>3, <1>4, <1>5, <1>6, <1>7, <1>8, <1>9, <1>10, <1>11, <1>12, <1>13,
       <1>14, <1>15, <1>16, <1>17, <1>18, <1>19, <1>20, <1>21, <1>22, <1>23, <1>24, <1>25,
       <1>26, <1>27, <1>28, <1>29, <1>30, <1>31, <1>32, <1>33 DEF ModelStep

LEMMA HandlerStepKeys == ASSUME ShapeInv, KeysInv, NEW i \in Slots, HandlerStep(i) PROVE KeysInv'
  <1>1. /\ ShapeInv' /\ Only(i) /\ UNCHANGED modelTables /\ disturbed \subseteq disturbed'
        /\ task'[i].kind \in Writing \cup {"none", "outbound"}
        /\ \A p \in Providers, k \in Keys : <<p, k>> \in secrets' <=> <<p, k>> \in secrets
    BY HandlerSteps
  <1>2. task'[i].kind \notin Writers  BY <1>1 DEF Writers, Writing
  <1>3. \A p \in Providers, k \in Keys : Holds(p, k) => Holds(p, k)'  BY <1>1 DEF Holds
  <1> QED  BY <1>1, <1>2, <1>3, NoKeyStep DEF modelTables

LEMMA InitKeys == Init => KeysInv
  <1> SUFFICES ASSUME Init PROVE KeysInv  OBVIOUS
  <1>1. PICK p \in Providers, m \in Models, made \in BOOLEAN :
          /\ provider = [q \in Providers |-> IF made /\ q = p THEN [at |-> "live", refs |-> {"required"}]
                                                              ELSE NoProvider]
          /\ model = [n \in Models |-> IF made /\ n = m THEN [at |-> "live", of |-> p] ELSE NoSuchModel]
          /\ secrets = {<<h, "required">> : h \in {g \in Handlers : handler[g].keyed}}
                         \cup (IF made THEN {<<p, "required">>} ELSE {})
    BY Zenon DEF Init
  <1>2. \A i \in Slots : task[i].kind \notin Writers  BY FreeFacts DEF Init, Writers
  <1>3. \A q \in Providers : \/ provider[q].at = "none" /\ provider[q].refs = {}
                             \/ made /\ q = p /\ provider[q].at = "live" /\ provider[q].refs = {"required"}
    BY <1>1 DEF NoProvider
  <1>4. \A n \in Models : model[n].at # "none" => made /\ model[n].of = p
    BY <1>1 DEF NoSuchModel
  <1>5. made => Holds(p, "required")  BY <1>1 DEF Holds
  <1>6. made => provider[p].at = "live" /\ provider[p].refs = {"required"}  BY <1>1
  <1>7. \A n \in Models : LiveModel(n) => "required" \in provider[model[n].of].refs
    BY <1>4, <1>6 DEF LiveModel
  <1>8. WritersApart  BY <1>2 DEF WritersApart
  <1> QED  BY <1>2, <1>3, <1>4, <1>5, <1>6, <1>7, <1>8 DEF KeysInv

LEMMA NextKeys == ShapeInv /\ DropsMade /\ KeysInv /\ [Next]_vars => KeysInv'
  <1> SUFFICES ASSUME ShapeInv, DropsMade, KeysInv, [Next]_vars PROVE KeysInv'  OBVIOUS
  <1>1. CASE UNCHANGED vars
    BY <1>1 DEF vars, KeysInv, Undisturbed, WritersApart, KeyOk, Grows, Recording, Holds,
                LiveModel, LiveProvider
  <1>2. ASSUME NEW i \in Slots, PutSecret(i) PROVE KeysInv'  BY <1>2, PutSecretKeys
  <1>3. ASSUME NEW i \in Slots, ModelStep(i) PROVE KeysInv'  BY <1>3, ModelStepKeys
  <1>4. ASSUME NEW i \in Slots, HandlerStep(i) PROVE KeysInv'  BY <1>4, HandlerStepKeys
  <1>5. ASSUME NEW s \in Sessions, CloseSession(s) PROVE KeysInv'
    BY <1>5, CloseSessionMoves
       DEF KeysInv, Undisturbed, WritersApart, KeyOk, Grows, Recording, Holds, LiveModel, LiveProvider
  <1> QED  BY <1>1, <1>2, <1>3, <1>4, <1>5, NextCases

LEMMA KeysCorrect == Spec => []KeysInv
  BY InitKeys, NextKeys, ShapeCorrect, DropsCorrect, PTL DEF Spec

(* A model that can be chosen can be used: the key its provider requires   *)
(* is recorded and stored, though providers are recorded before their keys *)
(* and any of the statements may fail, unless two requests wrote the       *)
(* references of one provider at once (LiveModelsHaveTheirKeyUndisturbed). *)
THEOREM LiveModelsHaveTheirKey == Spec => []LiveModelsHaveTheirKeyUndisturbed
  <1>1. KeysInv => LiveModelsHaveTheirKeyUndisturbed
    BY DEF KeysInv, Undisturbed, LiveModelsHaveTheirKeyUndisturbed, Resolves, RequiredGiven, LiveModel,
           LiveProvider
  <1> QED  BY <1>1, KeysCorrect, PTL

-----------------------------------------------------------------------------
(* The models of the sessions.                                             *)

Works(q) == q.kind \in {"session", "run"}

(* What a request knows of the session it works on.                        *)
RunOk(q) ==
    LET s == session[q.session] IN
    /\ q.kind = "session" => s.status = "none"
    /\ q.kind = "run" => s.status \in {"processing", "closed"}
    /\ q.kind = "run" /\ Undisturbed("cache") =>
          /\ q.at = "run" => s.hot = <<q.model>>
          /\ q.at \in {"load", "cache"} => s.hot = <<>>

(* All runs of a session had the model of its hot context.                 *)
UsedIsHot(s) ==
    session[s].used # {} =>
        \E m \in SomeModel : session[s].hot = <<m>> /\ session[s].used = {m}

(* A session is worked on by one request at a time.                        *)
WorkApart ==
    \A i, j \in Slots :
        Works(task[i]) /\ Works(task[j]) /\ task[i].session = task[j].session => i = j

RunsInv ==
    /\ WorkApart
    /\ \A i \in Slots : Works(task[i]) => RunOk(task[i])
    /\ \A i \in Slots : ~ Works(task[i]) => task[i].session = Nobody
    /\ \A s \in Sessions : session[s].status = "none" => session[s] = NoSession
    /\ Undisturbed("cache") => \A s \in Sessions : UsedIsHot(s)

(* A session of which nothing changes that a run could see.                *)
Unseen(s) ==
    /\ session'[s].status = session[s].status /\ session'[s].hot = session[s].hot
    /\ session'[s].used = session[s].used
    /\ session[s].status = "none" => session'[s] = session[s]

LEMMA RunStep ==
    ASSUME ShapeInv, RunsInv, NEW i \in Slots, Only(i), disturbed \subseteq disturbed', NEW s \in Sessions,
           \A r \in Sessions \ {s} : Unseen(r),
           \A j \in Slots \ {i} : task[j].session # s,
           Works(task'[i]) => task'[i].session = s /\ RunOk(task[i])',
           ~ Works(task'[i]) => task'[i].session = Nobody,
           session'[s].status = "none" => session'[s] = NoSession,
           Undisturbed("cache")' => UsedIsHot(s)'
    PROVE  RunsInv'
  <1>1. WorkApart'
    <2> SUFFICES ASSUME NEW j \in Slots, NEW k \in Slots, Works(task'[j]), Works(task'[k]),
                        task'[j].session = task'[k].session, j # k
                 PROVE  FALSE
      BY DEF WorkApart
    <2>1. CASE j = i \/ k = i  BY <2>1 DEF Only
    <2>2. CASE j # i /\ k # i  BY <2>2 DEF Only, RunsInv, WorkApart
    <2> QED  BY <2>1, <2>2
  <1>2. ASSUME NEW j \in Slots, Works(task'[j]) PROVE RunOk(task[j])'
    <2>1. CASE j = i  BY <1>2, <2>1
    <2>2. CASE j # i
      <3>1. task'[j] = task[j] /\ Works(task[j]) /\ task[j].session # s  BY <1>2, <2>2 DEF Only
      <3>2. task[j].session \in Sessions  BY <3>1, TaskFacts DEF TaskOk, Works
      <3>3. RunOk(task[j]) /\ Unseen(task[j].session)  BY <3>1, <3>2 DEF RunsInv
      <3> QED  BY <3>1, <3>3 DEF RunOk, Unseen, Undisturbed
    <2> QED  BY <2>1, <2>2
  <1>3. \A j \in Slots : ~ Works(task'[j]) => task'[j].session = Nobody  BY DEF Only, RunsInv
  <1>4. \A r \in Sessions : session'[r].status = "none" => session'[r] = NoSession
    BY DEF RunsInv, Unseen
  <1>5. ASSUME Undisturbed("cache")', NEW r \in Sessions PROVE UsedIsHot(r)'
    <2>1. Undisturbed("cache")  BY <1>5 DEF Undisturbed
    <2>2. CASE r # s  BY <2>1, <2>2 DEF RunsInv, Unseen, UsedIsHot
    <2> QED  BY <1>5, <2>2
  <1> QED  BY <1>1, <1>2, <1>3, <1>4, <1>5 DEF RunsInv

(* A step that is not about a session.                                     *)
LEMMA NoRunStep ==
    ASSUME ShapeInv, RunsInv, NEW i \in Slots, Only(i), disturbed \subseteq disturbed',
           \A r \in Sessions : Unseen(r), ~ Works(task'[i]), task'[i].session = Nobody
    PROVE  RunsInv'
  <1>1. WorkApart'  BY DEF RunsInv, WorkApart, Only
  <1>2. ASSUME NEW j \in Slots, Works(task'[j]) PROVE RunOk(task[j])'
    <2>1. task'[j] = task[j] /\ Works(task[j])  BY <1>2 DEF Only
    <2>2. task[j].session \in Sessions  BY <2>1, TaskFacts DEF TaskOk, Works
    <2>3. RunOk(task[j]) /\ Unseen(task[j].session)  BY <2>1, <2>2 DEF RunsInv
    <2> QED  BY <2>1, <2>3 DEF RunOk, Unseen, Undisturbed
  <1>3. \A j \in Slots : ~ Works(task'[j]) => task'[j].session = Nobody  BY DEF Only, RunsInv
  <1>4. \A r \in Sessions : session'[r].status = "none" => session'[r] = NoSession
    BY DEF RunsInv, Unseen
  <1>5. ASSUME Undisturbed("cache")', NEW r \in Sessions PROVE UsedIsHot(r)'
    <2>1. Undisturbed("cache")  BY <1>5 DEF Undisturbed
    <2> QED  BY <2>1 DEF RunsInv, Unseen, UsedIsHot
  <1> QED  BY <1>1, <1>2, <1>3, <1>4, <1>5 DEF RunsInv

(* The one that works on a session knows that nobody else does.            *)
LEMMA WorksAlone ==
    ASSUME ShapeInv, RunsInv, NEW i \in Slots, Works(task[i])
    PROVE  /\ task[i].session \in Sessions
           /\ \A j \in Slots \ {i} : task[j].session # task[i].session
           /\ RunOk(task[i])
  <1>1. task[i].session \in Sessions  BY TaskFacts DEF TaskOk, Works
  <1>2. task[i].session # Nobody  BY <1>1, SettingsAssumption
  <1> QED  BY <1>1, <1>2 DEF RunsInv, WorkApart

LEMMA UnseenFacts == ASSUME UNCHANGED session PROVE \A r \in Sessions : Unseen(r)
  BY DEF Unseen

(* It goes on and leaves the session alone.                                *)
LEMMA WorkGoesOn ==
    ASSUME ShapeInv, RunsInv, NEW i \in Slots, Only(i), disturbed \subseteq disturbed', UNCHANGED session,
           Works(task[i]), task'[i].kind = task[i].kind, task'[i].session = task[i].session,
           task'[i].kind = "run" /\ Undisturbed("cache")' =>
              /\ task'[i].at = "run" => session[task[i].session].hot = <<task'[i].model>>
              /\ task'[i].at \in {"load", "cache"} => session[task[i].session].hot = <<>>
    PROVE  RunsInv'
  <1>1. PICK s \in Sessions : s = task[i].session  BY WorksAlone
  <1>2. RunOk(task[i])'  BY WorksAlone DEF RunOk
  <1>3. Works(task'[i])  BY DEF Works
  <1>4. session'[s].status = "none" => session'[s] = NoSession  BY DEF RunsInv
  <1>5. Undisturbed("cache")' => UsedIsHot(s)'  BY DEF RunsInv, Undisturbed, UsedIsHot
  <1> QED  BY <1>1, <1>2, <1>3, <1>4, <1>5, WorksAlone, UnseenFacts, RunStep

LEMMA AsksForSessionRuns ==
    ASSUME ShapeInv, RunsInv, NEW i \in Slots, NEW prompt \in BOOLEAN, AsksForSession(i, prompt)
    PROVE  RunsInv'
  <1>1. /\ Began(i, "session", "resolve") /\ UNCHANGED session /\ disturbed \subseteq disturbed'
        /\ task'[i].session \in Sessions /\ session[task'[i].session].status = "none"
        /\ \A j \in Slots : task[j].session # task'[i].session
    BY AsksForSessionMoves DEF modelTables
  <1>2. PICK s \in Sessions : s = task'[i].session  BY <1>1
  <1>3. RunOk(task[i])'  BY <1>1 DEF RunOk, Began
  <1>4. Works(task'[i])  BY <1>1 DEF Works, Began
  <1>5. session'[s].status = "none" => session'[s] = NoSession  BY <1>1 DEF RunsInv
  <1>6. Undisturbed("cache")' => UsedIsHot(s)'  BY <1>1 DEF RunsInv, Undisturbed, UsedIsHot
  <1> QED  BY <1>1, <1>2, <1>3, <1>4, <1>5, <1>6, UnseenFacts, RunStep DEF Began

LEMMA ResolveNewRuns ==
    ASSUME ShapeInv, RunsInv, NEW i \in Slots, ResolveModelForNewSession(i) PROVE RunsInv'
  <1>1. /\ Only(i) /\ task[i].kind = "session" /\ UNCHANGED <<session, disturbed>>
        /\ \/ task'[i] = Free
           \/ task'[i].kind = "session" /\ task'[i].session = task[i].session
    BY ResolveModelForNewSessionMoves DEF modelTables
  <1>2. CASE task'[i] = Free  BY <1>1, <1>2, FreeFacts, UnseenFacts, NoRunStep DEF Works
  <1>3. CASE task'[i].kind = "session" /\ task'[i].session = task[i].session
    BY <1>1, <1>3, WorkGoesOn DEF Works
  <1> QED  BY <1>1, <1>2, <1>3

LEMMA SaveSessionRuns == ASSUME ShapeInv, RunsInv, NEW i \in Slots, SaveSession(i) PROVE RunsInv'
  <1>1. PICK s \in Sessions : s = task[i].session  BY SaveSessionMoves
  <1>2. /\ Only(i) /\ task[i].kind = "session" /\ SessionChanges(s) /\ UNCHANGED disturbed
        /\ session'[s].hot = session[s].hot /\ session'[s].used = session[s].used
        /\ \/ task'[i] = Free /\ session'[s].status = "idle"
           \/ /\ task'[i].kind = "run" /\ task'[i].at = "hot" /\ task'[i].session = s
              /\ session'[s].status = "processing"
    BY <1>1, SaveSessionMoves
  <1>3. \A j \in Slots \ {i} : task[j].session # s  BY <1>1, <1>2, WorksAlone DEF Works
  <1>4. \A r \in Sessions \ {s} : Unseen(r)  BY <1>2 DEF SessionChanges, Unseen
  <1>5. Works(task'[i]) => task'[i].session = s /\ RunOk(task[i])'
    BY <1>2, FreeFacts DEF Works, RunOk
  <1>6. ~ Works(task'[i]) => task'[i].session = Nobody  BY <1>2, FreeFacts DEF Works
  <1>7. Undisturbed("cache")' => UsedIsHot(s)'  BY <1>2 DEF RunsInv, Undisturbed, UsedIsHot
  <1>8. session'[s].status # "none"  BY <1>2
  <1> QED  BY <1>2, <1>3, <1>4, <1>5, <1>6, <1>7, <1>8, RunStep

LEMMA HandleExistingRuns ==
    ASSUME ShapeInv, RunsInv, NEW i \in Slots, HandleExistingSession(i) PROVE RunsInv'
  <1>1. PICK s \in Sessions : s = task'[i].session  BY HandleExistingSessionMoves
  <1>2. /\ Began(i, "run", "hot") /\ SessionChanges(s) /\ disturbed \subseteq disturbed'
        /\ session[s].status \in {"idle", "error"} /\ session'[s].status = "processing"
        /\ session'[s].hot = session[s].hot /\ session'[s].used = session[s].used
    BY <1>1, HandleExistingSessionMoves
  <1>3. ASSUME NEW j \in Slots \ {i}, task[j].session = s PROVE FALSE
    <2>1. Works(task[j])  BY <1>3, SettingsAssumption DEF RunsInv
    <2>2. RunOk(task[j])  BY <2>1 DEF RunsInv
    <2> QED  BY <1>2, <1>3, <2>1, <2>2 DEF RunOk, Works
  <1>4. \A r \in Sessions \ {s} : Unseen(r)  BY <1>2 DEF SessionChanges, Unseen
  <1>5. Works(task'[i]) /\ RunOk(task[i])'  BY <1>1, <1>2 DEF Works, RunOk, Began
  <1>6. Undisturbed("cache")' => UsedIsHot(s)'  BY <1>2 DEF RunsInv, Undisturbed, UsedIsHot
  <1>7. session'[s].status # "none"  BY <1>2
  <1> QED  BY <1>1, <1>2, <1>3, <1>4, <1>5, <1>6, <1>7, RunStep DEF Began

LEMMA GetHotRuns == ASSUME ShapeInv, RunsInv, NEW i \in Slots, GetHotContext(i) PROVE RunsInv'
  <1>1. /\ Only(i) /\ task[i].kind = "run" /\ UNCHANGED <<session, disturbed>>
        /\ task'[i].kind = "run" /\ task'[i].session = task[i].session
        /\ \/ task'[i].at = "run" /\ session[task[i].session].hot = <<task'[i].model>>
           \/ task'[i].at = "load" /\ session[task[i].session].hot = <<>>
    BY GetHotContextMoves DEF modelTables
  <1> QED  BY <1>1, WorkGoesOn DEF Works

LEMMA ResolveRuns == ASSUME ShapeInv, RunsInv, NEW i \in Slots, ResolveModelForSession(i) PROVE RunsInv'
  <1>1. /\ Only(i) /\ task[i].kind = "run" /\ task[i].at = "load" /\ UNCHANGED <<session, disturbed>>
        /\ task'[i].kind = "run" /\ task'[i].session = task[i].session /\ task'[i].at \in {"cache", "fail"}
    BY ResolveModelForSessionMoves DEF modelTables
  <1>2. RunOk(task[i])  BY <1>1 DEF RunsInv, Works
  <1>3. Undisturbed("cache")' => session[task[i].session].hot = <<>>
    BY <1>1, <1>2 DEF RunOk, Undisturbed
  <1> QED  BY <1>1, <1>3, WorkGoesOn DEF Works

LEMMA SaveHotRuns == ASSUME ShapeInv, RunsInv, NEW i \in Slots, SaveHotContext(i) PROVE RunsInv'
  <1>1. PICK s \in Sessions : s = task[i].session  BY SaveHotContextMoves
  <1>2. /\ Only(i) /\ task[i].kind = "run" /\ task[i].at = "cache" /\ Went(i, "run") /\ SessionChanges(s)
        /\ session'[s].hot = <<task[i].model>> /\ session'[s].status = session[s].status
        /\ session'[s].used = session[s].used /\ UNCHANGED disturbed
    BY <1>1, SaveHotContextMoves
  <1>3. RunOk(task[i]) /\ \A j \in Slots \ {i} : task[j].session # s
    BY <1>1, <1>2, WorksAlone DEF Works
  <1>4. \A r \in Sessions \ {s} : Unseen(r)  BY <1>2 DEF SessionChanges, Unseen
  <1>5. task'[i].kind = "run" /\ task'[i].at = "run" /\ task'[i].session = s /\ task'[i].model = task[i].model
    BY <1>1, <1>2 DEF Went
  <1>6. RunOk(task[i])'  BY <1>1, <1>2, <1>3, <1>5 DEF RunOk
  <1>7. Works(task'[i])  BY <1>5 DEF Works
  <1>8. Undisturbed("cache")' => UsedIsHot(s)'
    <2>1. ASSUME Undisturbed("cache")' PROVE session[s].used = {}
      <3>1. Undisturbed("cache")  BY <1>2, <2>1 DEF Undisturbed
      <3>2. session[s].hot = <<>> /\ UsedIsHot(s)  BY <1>1, <1>2, <1>3, <3>1 DEF RunOk, RunsInv
      <3>3. \A m \in SomeModel : <<m>> # <<>>  OBVIOUS
      <3> QED  BY <3>2, <3>3 DEF UsedIsHot
    <2> QED  BY <1>2, <2>1 DEF UsedIsHot
  <1>9. session'[s].status # "none"  BY <1>1, <1>2, <1>3 DEF RunOk
  <1> QED  BY <1>2, <1>3, <1>4, <1>5, <1>6, <1>7, <1>8, <1>9, RunStep

LEMMA EndRunRuns == ASSUME ShapeInv, RunsInv, NEW i \in Slots, EndRun(i) PROVE RunsInv'
  <1>1. PICK s \in Sessions : s = task[i].session  BY EndRunMoves
  <1>2. /\ Only(i) /\ task[i].kind = "run" /\ task'[i] = Free /\ SessionChanges(s) /\ UNCHANGED disturbed
        /\ session'[s].status \in {"idle", "error", "closed"} /\ session'[s].hot = session[s].hot
        /\ \/ session'[s].used = session[s].used
           \/ task[i].at = "run" /\ session'[s].used = session[s].used \cup {task[i].model}
    BY <1>1, EndRunMoves
  <1>3. RunOk(task[i]) /\ \A j \in Slots \ {i} : task[j].session # s
    BY <1>1, <1>2, WorksAlone DEF Works
  <1>4. \A r \in Sessions \ {s} : Unseen(r)  BY <1>2 DEF SessionChanges, Unseen
  <1>5. ~ Works(task'[i]) /\ task'[i].session = Nobody  BY <1>2, FreeFacts DEF Works
  <1>6. ASSUME Undisturbed("cache")' PROVE UsedIsHot(s)'
    <2>1. Undisturbed("cache") /\ UsedIsHot(s)  BY <1>2, <1>6 DEF Undisturbed, RunsInv
    <2>2. CASE session'[s].used = session[s].used  BY <1>2, <2>1, <2>2 DEF UsedIsHot
    <2>3. CASE task[i].at = "run" /\ session'[s].used = session[s].used \cup {task[i].model}
      <3>1. session[s].hot = <<task[i].model>>  BY <1>1, <1>2, <1>3, <2>1, <2>3 DEF RunOk
      <3>2. task[i].model \in SomeModel  BY TaskFacts DEF Tasks
      <3>3. \A m \in SomeModel : <<m>> = <<task[i].model>> => m = task[i].model  OBVIOUS
      <3>4. session[s].used = {} \/ session[s].used = {task[i].model}
        BY <2>1, <3>1, <3>3 DEF UsedIsHot
      <3>5. session'[s].used = {task[i].model}  BY <2>3, <3>4
      <3> QED  BY <1>2, <3>1, <3>2, <3>5 DEF UsedIsHot
    <2> QED  BY <1>2, <2>2, <2>3
  <1>7. session'[s].status # "none"  BY <1>2
  <1> QED  BY <1>2, <1>3, <1>4, <1>5, <1>6, <1>7, RunStep

LEMMA CloseRuns == ASSUME ShapeInv, RunsInv, NEW s \in Sessions, CloseSession(s) PROVE RunsInv'
  <1>1. /\ session[s].status \in {"idle", "processing", "error"} /\ session'[s].status = "closed"
        /\ SessionChanges(s) /\ session'[s].hot = session[s].hot /\ session'[s].used = session[s].used
        /\ UNCHANGED <<task, disturbed>>
    BY CloseSessionMoves
  <1>2. ASSUME NEW j \in Slots, Works(task'[j]) PROVE RunOk(task[j])'
    <2>1. task'[j] = task[j] /\ RunOk(task[j]) /\ task[j].session \in Sessions
      BY <1>1, <1>2, WorksAlone DEF RunsInv
    <2>2. CASE task[j].session = s  BY <1>1, <2>1, <2>2 DEF RunOk, Undisturbed
    <2>3. CASE task[j].session # s  BY <1>1, <2>1, <2>3 DEF RunOk, Undisturbed, SessionChanges
    <2> QED  BY <2>2, <2>3
  <1>3. WorkApart' /\ \A j \in Slots : ~ Works(task'[j]) => task'[j].session = Nobody
    BY <1>1 DEF RunsInv, WorkApart
  <1>4. \A r \in Sessions : session'[r].status = "none" => session'[r] = NoSession
    BY <1>1 DEF RunsInv, SessionChanges
  <1>5. ASSUME Undisturbed("cache")', NEW r \in Sessions PROVE UsedIsHot(r)'
    <2>1. UsedIsHot(r) /\ session'[r].hot = session[r].hot /\ session'[r].used = session[r].used
      BY <1>1, <1>5 DEF RunsInv, Undisturbed, SessionChanges
    <2> QED  BY <2>1 DEF UsedIsHot
  <1> QED  BY <1>2, <1>3, <1>4, <1>5 DEF RunsInv

(* Mishaps on the way.                                                     *)
LEMMA MishapRuns ==
    ASSUME ShapeInv, RunsInv, NEW i \in Slots, BrokerFails(i) \/ CacheUnavailable(i) \/ RequestLost(i)
    PROVE  RunsInv'
  <1>1. /\ Only(i) /\ UNCHANGED session /\ disturbed \subseteq disturbed'
        /\ \/ task'[i] = Free
           \/ /\ task[i].kind = "run" /\ task'[i].kind = "run" /\ task'[i].session = task[i].session
              /\ task'[i].at \in {"fail", "hot"} \/ ~ Undisturbed("cache")'
    BY BrokerFailsMoves, CacheUnavailableMoves, RequestLostMoves DEF modelTables, Went, Undisturbed
  <1>2. CASE task'[i] = Free  BY <1>1, <1>2, FreeFacts, UnseenFacts, NoRunStep DEF Works
  <1>3. CASE task'[i] # Free
    BY <1>1, <1>3, WorkGoesOn DEF Works
  <1> QED  BY <1>2, <1>3

(* The other requests know no session.                                     *)
LEMMA ModelStepRuns == ASSUME ShapeInv, RunsInv, NEW i \in Slots, ModelStep(i) PROVE RunsInv'
  <1>0. Only(i) /\ disturbed \subseteq disturbed' /\ (~ Works(task[i]) => task[i].session = Nobody)
    BY ModelSteps DEF RunsInv
  <1>1. CASE CreateProvider(i)
    <2>1. \A r \in Sessions : Unseen(r)
      BY <1>1, CreateProviderMoves, UnseenFacts DEF modelTables
    <2>2. ~ Works(task'[i]) /\ task'[i].session = Nobody
      BY <1>0, <1>1, CreateProviderMoves, FreeFacts DEF Began, Went, Works, Writers
    <2> QED  BY <1>0, <2>1, <2>2, NoRunStep
  <1>2. CASE CreateModel(i)
    <2>1. \A r \in Sessions : Unseen(r)
      BY <1>2, CreateModelMoves, UnseenFacts DEF modelTables
    <2>2. ~ Works(task'[i]) /\ task'[i].session = Nobody
      BY <1>0, <1>2, CreateModelMoves, FreeFacts DEF Began, Went, Works, Writers
    <2> QED  BY <1>0, <2>1, <2>2, NoRunStep
  <1>3. CASE CreateModelAndProvider(i)
    <2>1. \A r \in Sessions : Unseen(r)
      BY <1>3, CreateModelAndProviderMoves, UnseenFacts DEF modelTables
    <2>2. ~ Works(task'[i]) /\ task'[i].session = Nobody
      BY <1>0, <1>3, CreateModelAndProviderMoves, FreeFacts DEF Began, Went, Works, Writers
    <2> QED  BY <1>0, <2>1, <2>2, NoRunStep
  <1>4. CASE UpdateModel(i)
    <2>1. \A r \in Sessions : Unseen(r)
      BY <1>4, UpdateModelMoves, UnseenFacts DEF modelTables
    <2>2. ~ Works(task'[i]) /\ task'[i].session = Nobody
      BY <1>0, <1>4, UpdateModelMoves, FreeFacts DEF Began, Went, Works, Writers
    <2> QED  BY <1>0, <2>1, <2>2, NoRunStep
  <1>5. CASE RecordRefs(i)
    <2>1. \A r \in Sessions : Unseen(r)
      BY <1>5, RecordRefsMoves, UnseenFacts DEF modelTables
    <2>2. ~ Works(task'[i]) /\ task'[i].session = Nobody
      BY <1>0, <1>5, RecordRefsMoves, FreeFacts DEF Began, Went, Works, Writers
    <2> QED  BY <1>0, <2>1, <2>2, NoRunStep
  <1>6. CASE Refused(i)
    <2>1. \A r \in Sessions : Unseen(r)
      BY <1>6, RefusedMoves, UnseenFacts DEF modelTables
    <2>2. ~ Works(task'[i]) /\ task'[i].session = Nobody
      BY <1>0, <1>6, RefusedMoves, FreeFacts DEF Began, Went, Works, Writers
    <2> QED  BY <1>0, <2>1, <2>2, NoRunStep
  <1>7. CASE InsertModel(i)
    <2>1. \A r \in Sessions : Unseen(r)
      BY <1>7, InsertModelMoves, UnseenFacts DEF modelTables
    <2>2. ~ Works(task'[i]) /\ task'[i].session = Nobody
      BY <1>0, <1>7, InsertModelMoves, FreeFacts DEF Began, Went, Works, Writers
    <2> QED  BY <1>0, <2>1, <2>2, NoRunStep
  <1>8. CASE SetWorkspaceDefault(i)
    <2>1. \A r \in Sessions : Unseen(r)
      BY <1>8, SetWorkspaceDefaultMoves, UnseenFacts DEF modelTables
    <2>2. ~ Works(task'[i]) /\ task'[i].session = Nobody
      BY <1>0, <1>8, SetWorkspaceDefaultMoves, FreeFacts DEF Began, Went, Works, Writers
    <2> QED  BY <1>0, <2>1, <2>2, NoRunStep
  <1>9. CASE ChooseDefault(i)
    <2>1. \A r \in Sessions : Unseen(r)
      BY <1>9, ChooseDefaultMoves, UnseenFacts DEF modelTables
    <2>2. ~ Works(task'[i]) /\ task'[i].session = Nobody
      BY <1>0, <1>9, ChooseDefaultMoves, FreeFacts DEF Began, Went, Works, Writers
    <2> QED  BY <1>0, <2>1, <2>2, NoRunStep
  <1>10. CASE WriteDefault(i)
    <2>1. \A r \in Sessions : Unseen(r)
      BY <1>10, WriteDefaultMoves, UnseenFacts DEF modelTables
    <2>2. ~ Works(task'[i]) /\ task'[i].session = Nobody
      BY <1>0, <1>10, WriteDefaultMoves, FreeFacts DEF Began, Went, Works, Writers
    <2> QED  BY <1>0, <2>1, <2>2, NoRunStep
  <1>11. CASE DeleteProvider(i)
    <2>1. \A r \in Sessions : Unseen(r)
      BY <1>11, DeleteProviderMoves, UnseenFacts DEF modelTables
    <2>2. ~ Works(task'[i]) /\ task'[i].session = Nobody
      BY <1>0, <1>11, DeleteProviderMoves, FreeFacts DEF Began, Went, Works, Writers
    <2> QED  BY <1>0, <2>1, <2>2, NoRunStep
  <1>12. CASE CountSessions(i)
    <2>1. \A r \in Sessions : Unseen(r)
      BY <1>12, CountSessionsMoves, UnseenFacts DEF modelTables
    <2>2. ~ Works(task'[i]) /\ task'[i].session = Nobody
      BY <1>0, <1>12, CountSessionsMoves, FreeFacts DEF Began, Went, Works, Writers
    <2> QED  BY <1>0, <2>1, <2>2, NoRunStep
  <1>13. CASE ListModels(i)
    <2>1. \A r \in Sessions : Unseen(r)
      BY <1>13, ListModelsMoves, UnseenFacts DEF modelTables
    <2>2. ~ Works(task'[i]) /\ task'[i].session = Nobody
      BY <1>0, <1>13, ListModelsMoves, FreeFacts DEF Began, Went, Works, Writers
    <2> QED  BY <1>0, <2>1, <2>2, NoRunStep
  <1>14. CASE ReadDefault(i)
    <2>1. \A r \in Sessions : Unseen(r)
      BY <1>14, ReadDefaultMoves, UnseenFacts DEF modelTables
    <2>2. ~ Works(task'[i]) /\ task'[i].session = Nobody
      BY <1>0, <1>14, ReadDefaultMoves, FreeFacts DEF Began, Went, Works, Writers
    <2> QED  BY <1>0, <2>1, <2>2, NoRunStep
  <1>15. CASE DropModels(i)
    <2>1. \A r \in Sessions : Unseen(r)
      BY <1>15, DropModelsMoves, LeftBehindMoves DEF Unseen
    <2>2. ~ Works(task'[i]) /\ task'[i].session = Nobody
      BY <1>0, <1>15, DropModelsMoves, FreeFacts DEF Began, Went, Works, Writers
    <2> QED  BY <1>0, <2>1, <2>2, NoRunStep
  <1>16. CASE ClearDefault(i)
    <2>1. \A r \in Sessions : Unseen(r)
      BY <1>16, ClearDefaultMoves, UnseenFacts DEF modelTables
    <2>2. ~ Works(task'[i]) /\ task'[i].session = Nobody
      BY <1>0, <1>16, ClearDefaultMoves, FreeFacts DEF Began, Went, Works, Writers
    <2> QED  BY <1>0, <2>1, <2>2, NoRunStep
  <1>17. CASE DropProvider(i)
    <2>1. \A r \in Sessions : Unseen(r)
      BY <1>17, DropProviderMoves, UnseenFacts DEF modelTables
    <2>2. ~ Works(task'[i]) /\ task'[i].session = Nobody
      BY <1>0, <1>17, DropProviderMoves, FreeFacts DEF Began, Went, Works, Writers
    <2> QED  BY <1>0, <2>1, <2>2, NoRunStep
  <1>18. CASE DeleteModel(i)
    <2>1. \A r \in Sessions : Unseen(r)
      BY <1>18, DeleteModelMoves, UnseenFacts DEF modelTables
    <2>2. ~ Works(task'[i]) /\ task'[i].session = Nobody
      BY <1>0, <1>18, DeleteModelMoves, FreeFacts DEF Began, Went, Works, Writers
    <2> QED  BY <1>0, <2>1, <2>2, NoRunStep
  <1>19. CASE CountActiveSessionReferences(i)
    <2>1. \A r \in Sessions : Unseen(r)
      BY <1>19, CountActiveSessionReferencesMoves, UnseenFacts DEF modelTables
    <2>2. ~ Works(task'[i]) /\ task'[i].session = Nobody
      BY <1>0, <1>19, CountActiveSessionReferencesMoves, FreeFacts DEF Began, Went, Works, Writers
    <2> QED  BY <1>0, <2>1, <2>2, NoRunStep
  <1>20. CASE FindModel(i)
    <2>1. \A r \in Sessions : Unseen(r)
      BY <1>20, FindModelMoves, UnseenFacts DEF modelTables
    <2>2. ~ Works(task'[i]) /\ task'[i].session = Nobody
      BY <1>0, <1>20, FindModelMoves, FreeFacts DEF Began, Went, Works, Writers
    <2> QED  BY <1>0, <2>1, <2>2, NoRunStep
  <1>21. CASE DropModel(i)
    <2>1. \A r \in Sessions : Unseen(r)
      BY <1>21, DropModelMoves, LeftBehindMoves DEF Unseen
    <2>2. ~ Works(task'[i]) /\ task'[i].session = Nobody
      BY <1>0, <1>21, DropModelMoves, FreeFacts DEF Began, Went, Works, Writers
    <2> QED  BY <1>0, <2>1, <2>2, NoRunStep
  <1>22. CASE CreateSession(i)
    BY <1>22, AsksForSessionRuns DEF CreateSession
  <1>23. CASE HandleNewSession(i)
    BY <1>23, AsksForSessionRuns DEF HandleNewSession
  <1>24. CASE ResolveModelForNewSession(i)
    BY <1>24, ResolveNewRuns
  <1>25. CASE SaveSession(i)
    BY <1>25, SaveSessionRuns
  <1>26. CASE HandleExistingSession(i)
    BY <1>26, HandleExistingRuns
  <1>27. CASE GetHotContext(i)
    BY <1>27, GetHotRuns
  <1>28. CASE ResolveModelForSession(i)
    BY <1>28, ResolveRuns
  <1>29. CASE SaveHotContext(i)
    BY <1>29, SaveHotRuns
  <1>30. CASE EndRun(i)
    BY <1>30, EndRunRuns
  <1>31. CASE BrokerFails(i)
    BY <1>31, MishapRuns
  <1>32. CASE CacheUnavailable(i)
    BY <1>32, MishapRuns
  <1>33. CASE RequestLost(i)
    BY <1>33, MishapRuns
  <1> QED
    BY <1>1, <1>2, <1>3, <1>4, <1>5, <1>6, <1>7, <1>8, <1>9, <1>10, <1>11, <1>12, <1>13,
       <1>14, <1>15, <1>16, <1>17, <1>18, <1>19, <1>20, <1>21, <1>22, <1>23, <1>24, <1>25,
       <1>26, <1>27, <1>28, <1>29, <1>30, <1>31, <1>32, <1>33 DEF ModelStep

LEMMA PutSecretRuns == ASSUME ShapeInv, RunsInv, NEW i \in Slots, PutSecret(i) PROVE RunsInv'
  <1>1. /\ Only(i) /\ UNCHANGED <<session, disturbed>> /\ task[i].kind \in Writers \cup {"configure"}
        /\ task'[i].kind = task[i].kind /\ task'[i].session = task[i].session
    BY PutSecretMoves DEF modelTables
  <1>2. ~ Works(task[i]) /\ ~ Works(task'[i])  BY <1>1 DEF Works, Writers
  <1> QED  BY <1>1, <1>2, UnseenFacts, NoRunStep DEF RunsInv

LEMMA HandlerStepRuns == ASSUME ShapeInv, RunsInv, NEW i \in Slots, HandlerStep(i) PROVE RunsInv'
  <1>1. /\ Only(i) /\ UNCHANGED modelTables /\ disturbed \subseteq disturbed'
        /\ task[i].kind \in Writing \cup {"none", "outbound"}
        /\ task'[i].kind \in Writing \cup {"none", "outbound"}
        /\ task'[i].session = Nobody \/ task'[i].session = task[i].session
    BY HandlerSteps
  <1>2. ~ Works(task[i]) /\ ~ Works(task'[i])  BY <1>1 DEF Works, Writing
  <1> QED  BY <1>1, <1>2, UnseenFacts, NoRunStep DEF RunsInv, modelTables

LEMMA InitRuns == Init => RunsInv
  <1> SUFFICES ASSUME Init PROVE RunsInv  OBVIOUS
  <1>1. PICK made, chosen \in BOOLEAN :
          session \in [Sessions -> {NoSession} \cup
                           IF made /\ ~chosen THEN {[NoSession EXCEPT !.status = "idle"]} ELSE {}]
    BY Zenon DEF Init
  <1>2. \A i \in Slots : task[i] = Free  BY DEF Init
  <1>3. \A s \in Sessions : session[s] = NoSession \/ session[s] = [NoSession EXCEPT !.status = "idle"]
    BY <1>1
  <1>4. \A s \in Sessions : /\ session[s].status = "none" => session[s] = NoSession
                            /\ session[s].used = {}
    <2>1. NoSession.used = {}  BY DEF NoSession
    <2>2. [NoSession EXCEPT !.status = "idle"].used = {}  BY DEF NoSession
    <2>3. [NoSession EXCEPT !.status = "idle"].status = "idle"  BY DEF NoSession
    <2> QED  BY <1>3, <2>1, <2>2, <2>3
  <1> QED  BY <1>2, <1>4, FreeFacts DEF RunsInv, WorkApart, Works, UsedIsHot

LEMMA NextRuns == ShapeInv /\ RunsInv /\ [Next]_vars => RunsInv'
  <1> SUFFICES ASSUME ShapeInv, RunsInv, [Next]_vars PROVE RunsInv'  OBVIOUS
  <1>1. CASE UNCHANGED vars
    BY <1>1 DEF vars, RunsInv, Undisturbed, WorkApart, RunOk, UsedIsHot
  <1>2. ASSUME NEW i \in Slots, PutSecret(i) PROVE RunsInv'  BY <1>2, PutSecretRuns
  <1>3. ASSUME NEW i \in Slots, ModelStep(i) PROVE RunsInv'  BY <1>3, ModelStepRuns
  <1>4. ASSUME NEW i \in Slots, HandlerStep(i) PROVE RunsInv'  BY <1>4, HandlerStepRuns
  <1>5. ASSUME NEW s \in Sessions, CloseSession(s) PROVE RunsInv'  BY <1>5, CloseRuns
  <1> QED  BY <1>1, <1>2, <1>3, <1>4, <1>5, NextCases

LEMMA RunsCorrect == Spec => []RunsInv
  BY InitRuns, NextRuns, ShapeCorrect, PTL DEF Spec

(* All runs of a session have the same model, or all have none, whatever   *)
(* becomes of the model and of the default meanwhile, as long as the hot   *)
(* context can be read and written (OneModelPerSessionUndisturbed).        *)
THEOREM OneModelPerSession == Spec => []OneModelPerSessionUndisturbed
  <1>1. ASSUME RunsInv PROVE OneModelPerSessionUndisturbed
    <2>1. ASSUME Undisturbed("cache"), NEW s \in Sessions PROVE Cardinality(session[s].used) <= 1
      <3>1. session[s].used = {} \/ \E m \in SomeModel : session[s].used = {m}
        BY <1>1, <2>1 DEF RunsInv, UsedIsHot
      <3>2. CASE session[s].used = {}
        <4>1. Cardinality(session[s].used) = 0  BY <3>2, FS_EmptySet
        <4> QED  BY <4>1
      <3>3. CASE \E m \in SomeModel : session[s].used = {m}
        <4>1. PICK m \in SomeModel : session[s].used = {m}  BY <3>3
        <4>2. Cardinality(session[s].used) = 1  BY <4>1, FS_Singleton
        <4> QED  BY <4>2
      <3> QED  BY <3>1, <3>2, <3>3
    <2> QED  BY <2>1 DEF OneModelPerSessionUndisturbed, Undisturbed
  <1> QED  BY <1>1, RunsCorrect, PTL

-----------------------------------------------------------------------------
(* The models in use.                                                      *)

(* Nothing else goes on beside a deletion.                                 *)
DeletesAlone ==
    \A i, j \in Slots : task[i].kind \in Deletions /\ task[j].kind \in Others => i = j

DefaultLive == default \in Models => LiveModel(default)

SessionsLive ==
    \A s \in Sessions :
        session[s].model \in Models /\ ~ session[s].left => LiveModel(session[s].model)

(* What a request has checked of a model stays so.                         *)
CheckedOk(q) ==
    /\ q.kind \in Writers => LiveProvider(q.owner)
    /\ q.kind \in {"provider", "model", "default"} /\ q.at = "write" => (q.model \in Models => LiveModel(q.model))
    /\ q.kind = "session" /\ q.at = "save" => (q.model \in Models => LiveModel(q.model))

NoneActive(ms) ==
    \A s \in Sessions : session[s].model \in ms => session[s].status \notin {"idle", "processing"}

DropModelOk(q) ==
    /\ q.model # default
    /\ q.at \in {"find", "drop"} => NoneActive({q.model})

(* The models are deleted before the default is cleared: only then may it  *)
(* be one that is not there.                                               *)
DropProviderOk(q) ==
    /\ q.at \in {"models", "default", "dropModels"} => NoneActive(ModelsOf(q.owner))
    /\ q.at \in {"default", "dropModels"} => q.models = ModelsOf(q.owner)
    /\ q.at \in {"dropModels", "clear"} => q.model = default
    /\ q.at \in {"clear", "drop"} => ModelsOf(q.owner) = {}
    /\ q.at = "clear" => (default \in Models => LiveModel(default) \/ default \in q.models)
    /\ q.at # "clear" => DefaultLive

LiveInv ==
    Undisturbed("deletion") =>
        /\ DeletesAlone /\ SessionsLive
        /\ (\A i \in Slots : task[i].kind # "dropProvider") => DefaultLive
        /\ \A i \in Slots : /\ CheckedOk(task[i])
                            /\ task[i].kind = "dropModel" => DropModelOk(task[i])
                            /\ task[i].kind = "dropProvider" => DropProviderOk(task[i])

LEMMA NoneActiveFacts == ASSUME NEW ms PROVE ActiveSessions(ms) = {} <=> NoneActive(ms)
  BY DEF ActiveSessions, Using, NoneActive

(* A step while nothing is deleted: what was live stays live.              *)
LEMMA NoDeletionStep ==
    ASSUME ShapeInv, LiveInv, NEW i \in Slots, Only(i), disturbed \subseteq disturbed',
           Undisturbed("deletion")' =>
              /\ \A j \in Slots : task[j].kind \notin Deletions
              /\ task'[i].kind \notin Deletions /\ CheckedOk(task[i])'
              /\ \A p \in Providers : LiveProvider(p) => LiveProvider(p)'
              /\ \A m \in Models : LiveModel(m) => LiveModel(m)'
              /\ SessionsLive' /\ DefaultLive'
    PROVE  LiveInv'
  <1> SUFFICES ASSUME Undisturbed("deletion")' PROVE LiveInv'  BY DEF LiveInv
  <1>1. \A j \in Slots : CheckedOk(task[j])  BY DEF LiveInv, Undisturbed
  <1>2. \A j \in Slots : task'[j].kind \notin Deletions  BY DEF Only
  <1>3. ASSUME NEW j \in Slots PROVE CheckedOk(task[j])'
    <2>1. CASE j = i  BY <2>1
    <2>2. CASE j # i
      <3>1. task'[j] = task[j] /\ CheckedOk(task[j])  BY <1>1, <2>2 DEF Only
      <3>2. task[j].kind \in Writers => task[j].owner \in Providers  BY TaskFacts DEF TaskOk
      <3> QED  BY <3>1, <3>2 DEF CheckedOk
    <2> QED  BY <2>1, <2>2
  <1>4. DeletesAlone'  BY <1>2 DEF DeletesAlone
  <1> QED  BY <1>2, <1>3, <1>4 DEF LiveInv, Deletions

(* A step of a deletion, which is alone.                                   *)
LEMMA DeletionStep ==
    ASSUME ShapeInv, LiveInv, NEW i \in Slots, Only(i), disturbed \subseteq disturbed',
           Undisturbed("deletion")' =>
              /\ \A j \in Slots \ {i} : task[j].kind \notin Others
              /\ task'[i].kind \in Deletions \cup {"none"}
              /\ SessionsLive'
              /\ task'[i].kind # "dropProvider" => DefaultLive'
              /\ task'[i].kind = "dropModel" => DropModelOk(task[i])'
              /\ task'[i].kind = "dropProvider" => DropProviderOk(task[i])'
    PROVE  LiveInv'
  <1> SUFFICES ASSUME Undisturbed("deletion")' PROVE LiveInv'  BY DEF LiveInv
  <1>1. \A j \in Slots \ {i} : task'[j].kind \notin Others  BY DEF Only
  <1>2. DeletesAlone'  BY <1>1 DEF DeletesAlone, Others
  <1>3. \A j \in Slots : CheckedOk(task[j])'
    BY <1>1 DEF CheckedOk, Others, Writers, Deletions
  <1>4. \A j \in Slots : /\ task'[j].kind = "dropModel" => DropModelOk(task[j])'
                         /\ task'[j].kind = "dropProvider" => DropProviderOk(task[j])'
    BY <1>1 DEF Others, Deletions
  <1>5. (\A j \in Slots : task'[j].kind # "dropProvider") => DefaultLive'  OBVIOUS
  <1> QED  BY <1>2, <1>3, <1>4, <1>5 DEF LiveInv

(* A step that is not about the models.                                    *)
LEMMA ElsewhereStep ==
    ASSUME ShapeInv, LiveInv, NEW i \in Slots, Only(i), disturbed \subseteq disturbed', UNCHANGED modelTables,
           task[i].kind \notin Others, task'[i].kind \notin Others
    PROVE  LiveInv'
  <1> SUFFICES ASSUME Undisturbed("deletion")' PROVE LiveInv'  BY DEF LiveInv
  <1>1. /\ DeletesAlone /\ SessionsLive
        /\ (\A j \in Slots : task[j].kind # "dropProvider") => DefaultLive
        /\ \A j \in Slots : /\ CheckedOk(task[j])
                            /\ task[j].kind = "dropModel" => DropModelOk(task[j])
                            /\ task[j].kind = "dropProvider" => DropProviderOk(task[j])
    BY DEF LiveInv, Undisturbed
  <1>2. task'[i].kind \notin Deletions /\ task[i].kind \notin Deletions  BY DEF Others
  <1>3. DeletesAlone'  BY <1>1, <1>2 DEF DeletesAlone, Only
  <1>4. SessionsLive' /\ (DefaultLive' <=> DefaultLive)
    BY <1>1 DEF SessionsLive, DefaultLive, LiveModel, LiveProvider, modelTables
  <1>5. (\A j \in Slots : task'[j].kind # "dropProvider") => DefaultLive'
    BY <1>1, <1>2, <1>4 DEF Only, Deletions
  <1>6. ASSUME NEW j \in Slots
        PROVE  /\ CheckedOk(task[j])'
               /\ task'[j].kind = "dropModel" => DropModelOk(task[j])'
               /\ task'[j].kind = "dropProvider" => DropProviderOk(task[j])'
    <2>1. CASE j = i  BY <1>2, <2>1 DEF CheckedOk, Others, Writers, Deletions
    <2>2. CASE j # i
      <3>1. task'[j] = task[j]  BY <2>2 DEF Only
      <3>2. CheckedOk(task[j])'
        BY <1>1, <3>1 DEF CheckedOk, LiveModel, LiveProvider, modelTables
      <3>3. task'[j].kind = "dropModel" => DropModelOk(task[j])'
        BY <1>1, <3>1 DEF DropModelOk, NoneActive, modelTables
      <3>4. task'[j].kind = "dropProvider" => DropProviderOk(task[j])'
        BY <1>1, <3>1
           DEF DropProviderOk, NoneActive, ModelsOf, DefaultLive, LiveModel, LiveProvider, modelTables
      <3> QED  BY <3>2, <3>3, <3>4
    <2> QED  BY <2>1, <2>2
  <1> QED  BY <1>3, <1>4, <1>5, <1>6 DEF LiveInv

(* Who takes part in a step says who else may be there.                    *)
LEMMA NoDeletionBeside ==
    ASSUME LiveInv, NEW i \in Slots, task[i].kind \in Others, task[i].kind \notin Deletions,
           Undisturbed("deletion")
    PROVE  \A j \in Slots : task[j].kind \notin Deletions
  BY DEF LiveInv, DeletesAlone

LEMMA BeginsUndisturbed ==
    ASSUME ShapeInv, NEW i \in Slots, NEW kind \in Others, NEW p, task[i].kind = "none",
           disturbed' = disturbed \cup Disturbs(i, kind, p), Undisturbed("deletion")'
    PROVE  /\ kind \notin Deletions => \A j \in Slots : task[j].kind \notin Deletions
           /\ kind \in Deletions => \A j \in Slots \ {i} : task[j].kind \notin Others
  <1> SUFFICES ASSUME NEW j \in Slots \ {i}, task[j].kind \in Others,
                      task[j].kind \in Deletions \/ kind \in Deletions
               PROVE  FALSE
    BY DEF Others, Deletions
  <1>1. task[j].kind # "none"  BY DEF Others, Writers, Deletions
  <1>2. j \in Beside(i)  BY <1>1, TaskFacts DEF Beside, TaskOk
  <1> DEFINE beside == {task[k].kind : k \in Beside(i)} \cap Others
  <1>3. beside # {} /\ (beside \cup {kind}) \cap Deletions # {}  BY <1>2
  <1>4. "deletion" \in Disturbs(i, kind, p)  BY <1>3 DEF Disturbs
  <1> QED  BY <1>4 DEF Undisturbed

(* A request that deletes nothing and changes no model, provider or        *)
(* default, nor the model of a session.                                    *)
LEMMA HarmlessStep ==
    ASSUME ShapeInv, LiveInv, NEW i \in Slots, Only(i), disturbed \subseteq disturbed',
           Undisturbed("deletion")' => \A j \in Slots : task[j].kind \notin Deletions,
           task'[i].kind \notin Deletions, UNCHANGED <<model, default>>,
           \A p \in Providers : LiveProvider(p) => LiveProvider(p)',
           \A s \in Sessions : session'[s].model = session[s].model /\ session'[s].left = session[s].left,
           Undisturbed("deletion")' => CheckedOk(task[i])'
    PROVE  LiveInv'
  <1>1. \A m \in Models : LiveModel(m) => LiveModel(m)'  BY DEF LiveModel, LiveProvider
  <1>2. ASSUME Undisturbed("deletion")' PROVE SessionsLive' /\ DefaultLive'
    <2>1. SessionsLive /\ DefaultLive  BY <1>2 DEF LiveInv, Undisturbed, Deletions
    <2>2. SessionsLive'  BY <1>1, <2>1 DEF SessionsLive
    <2> QED  BY <1>1, <2>1, <2>2 DEF DefaultLive
  <1> QED  BY <1>1, <1>2, NoDeletionStep

LEMMA FreeChecked == CheckedOk(Free)'
  BY FreeFacts DEF CheckedOk, Writers

(* What a deletion under way can rely on.                                  *)
LEMMA DeletionAlone ==
    ASSUME LiveInv, NEW i \in Slots, task[i].kind \in Deletions, Undisturbed("deletion")
    PROVE  /\ SessionsLive /\ \A j \in Slots \ {i} : task[j].kind \notin Others
           /\ task[i].kind = "dropModel" => DropModelOk(task[i]) /\ DefaultLive
           /\ task[i].kind = "dropProvider" => DropProviderOk(task[i])
  <1>1. \A j \in Slots \ {i} : task[j].kind \notin Others  BY DEF LiveInv, DeletesAlone
  <1>2. task[i].kind = "dropModel" => \A j \in Slots : task[j].kind # "dropProvider"
    BY <1>1 DEF Others, Deletions
  <1> QED  BY <1>1, <1>2 DEF LiveInv

(* While no model, provider, default or session changes.                   *)
LEMMA TablesStay ==
    ASSUME UNCHANGED modelTables
    PROVE  /\ SessionsLive' <=> SessionsLive
           /\ DefaultLive' <=> DefaultLive
           /\ \A m \in Models : LiveModel(m)' <=> LiveModel(m)
           /\ \A p \in Providers : LiveProvider(p)' <=> LiveProvider(p)
           /\ \A p : ModelsOf(p)' = ModelsOf(p)
           /\ \A ms : NoneActive(ms)' <=> NoneActive(ms)
  BY DEF SessionsLive, DefaultLive, LiveModel, LiveProvider, ModelsOf, NoneActive, modelTables

LEMMA WentIs ==
    ASSUME NEW i \in Slots, NEW place, Went(i, place)
    PROVE  /\ task'[i].at = place /\ task'[i].kind = task[i].kind /\ task'[i].owner = task[i].owner
           /\ task'[i].model = task[i].model /\ task'[i].models = task[i].models
  BY DEF Went

-----------------------------------------------------------------------------
(* Models are made and chosen.                                             *)

(* A request to write begins, on a provider there is.                      *)
LEMMA WriterBeginsLive ==
    ASSUME ShapeInv, LiveInv, NEW i \in Slots, Only(i), task[i].kind = "none", task'[i].kind \in Writers,
           task'[i].at \in {"put", "check"}, task'[i].owner \in Providers,
           disturbed' = disturbed \cup Disturbs(i, task'[i].kind, task'[i].owner),
           LiveProvider(task[i].owner)',
           \A p \in Providers : LiveProvider(p) => LiveProvider(p)',
           UNCHANGED <<model, default, session>>
    PROVE  LiveInv'
  <1>1. task'[i].kind \in Others /\ task'[i].kind \notin Deletions  BY DEF Others, Writers, Deletions
  <1>2. Undisturbed("deletion")' => \A j \in Slots : task[j].kind \notin Deletions
    BY <1>1, BeginsUndisturbed
  <1>3. CheckedOk(task[i])'  BY DEF CheckedOk, Writers
  <1> QED  BY <1>1, <1>2, <1>3, HarmlessStep

LEMMA CreateProviderLive ==
    ASSUME ShapeInv, LiveInv, NEW i \in Slots, CreateProvider(i) PROVE LiveInv'
  <1>1. /\ Only(i) /\ task[i].kind = "none" /\ task'[i].kind = "provider" /\ task'[i].at = "put"
        /\ UNCHANGED <<model, default, session>>
    BY CreateProviderMoves DEF Began
  <1>2. PICK p \in Providers : /\ task'[i].owner = p /\ provider'[p] = [at |-> "live", refs |-> {}]
                               /\ \A q \in Providers \ {p} : provider'[q] = provider[q]
                               /\ disturbed' = disturbed \cup Disturbs(i, "provider", p)
    BY CreateProviderMoves
  <1>3. LiveProvider(p)' /\ \A q \in Providers : LiveProvider(q) => LiveProvider(q)'
    BY <1>2 DEF LiveProvider
  <1>4. task'[i].kind \in Writers  BY <1>1 DEF Writers
  <1> QED  BY <1>1, <1>2, <1>3, <1>4, WriterBeginsLive

LEMMA CreateModelAndProviderLive ==
    ASSUME ShapeInv, LiveInv, NEW i \in Slots, CreateModelAndProvider(i) PROVE LiveInv'
  <1>1. /\ Only(i) /\ task[i].kind = "none" /\ task'[i].kind = "model" /\ task'[i].at \in {"put", "check"}
        /\ UNCHANGED <<model, default, session>>
    BY CreateModelAndProviderMoves
  <1>2. PICK p \in Providers : /\ task'[i].owner = p /\ provider'[p] = [at |-> "live", refs |-> {}]
                               /\ \A q \in Providers \ {p} : provider'[q] = provider[q]
                               /\ disturbed' = disturbed \cup Disturbs(i, "model", p)
    BY CreateModelAndProviderMoves
  <1>3. LiveProvider(p)' /\ \A q \in Providers : LiveProvider(q) => LiveProvider(q)'
    BY <1>2 DEF LiveProvider
  <1>4. task'[i].kind \in Writers  BY <1>1 DEF Writers
  <1> QED  BY <1>1, <1>2, <1>3, <1>4, WriterBeginsLive

LEMMA ChangesBeginLive ==
    ASSUME ShapeInv, LiveInv, NEW i \in Slots, CreateModel(i) \/ UpdateModel(i) PROVE LiveInv'
  <1>1. /\ Only(i) /\ task[i].kind = "none" /\ task'[i].kind \in {"model", "update"}
        /\ task'[i].at \in {"put", "check"} /\ LiveProvider(task'[i].owner)
        /\ disturbed' = disturbed \cup Disturbs(i, task'[i].kind, task'[i].owner)
        /\ UNCHANGED modelTables
    BY CreateModelMoves, UpdateModelMoves DEF Began
  <1>2. task'[i].owner \in Providers  BY <1>1 DEF LiveProvider
  <1>3. /\ LiveProvider(task[i].owner)' /\ \A q \in Providers : LiveProvider(q) => LiveProvider(q)'
        /\ UNCHANGED <<model, default, session>>
    BY <1>1, <1>2 DEF LiveProvider, modelTables
  <1>4. task'[i].kind \in Writers  BY <1>1 DEF Writers
  <1> QED  BY <1>1, <1>2, <1>3, <1>4, WriterBeginsLive

LEMMA RecordRefsLive ==
    ASSUME ShapeInv, LiveInv, NEW i \in Slots, RecordRefs(i) PROVE LiveInv'
  <1>1. /\ Only(i) /\ task[i].kind \in Writers
        /\ \/ /\ LiveProvider(task[i].owner)
              /\ provider' = [provider EXCEPT ![task[i].owner].refs = task[i].keys]
              /\ task'[i] = Free \/ Went(i, "check")
           \/ provider' = provider /\ task'[i] = Free
        /\ UNCHANGED <<model, default, session, disturbed>>
    BY RecordRefsMoves
  <1>2. \A p \in Providers : provider'[p].at = provider[p].at
    BY <1>1 DEF ShapeInv, TypeOK, ProviderRows
  <1>3. \A p \in Providers : LiveProvider(p)' <=> LiveProvider(p)  BY <1>2 DEF LiveProvider
  <1>4. task[i].kind \in Others /\ task[i].kind \notin Deletions  BY <1>1 DEF Others, Writers, Deletions
  <1>5. Undisturbed("deletion")' => \A j \in Slots : task[j].kind \notin Deletions
    BY <1>1, <1>4, NoDeletionBeside DEF Undisturbed
  <1>6. CheckedOk(task[i])'
    <2>1. CASE task'[i] = Free  BY <2>1, FreeFacts DEF CheckedOk, Writers
    <2>2. CASE task'[i] # Free
      <3>1. LiveProvider(task[i].owner) /\ Went(i, "check")  BY <1>1, <2>2
      <3>2. LiveProvider(task[i].owner)' /\ task'[i].at = "check" /\ task'[i].kind \in Writers
        BY <1>1, <1>3, <3>1, WentIs DEF LiveProvider
      <3> QED  BY <3>2 DEF CheckedOk, Writers
    <2> QED  BY <2>1, <2>2
  <1>7. task'[i].kind \notin Deletions
    BY <1>1, <1>4, WentIs, FreeFacts DEF Deletions
  <1> QED  BY <1>1, <1>3, <1>5, <1>6, <1>7, HarmlessStep

(* A request goes on or ends, and leaves the tables alone.                 *)
LEMMA GoesOnLive ==
    ASSUME ShapeInv, LiveInv, NEW i \in Slots, Only(i), disturbed \subseteq disturbed',
           task[i].kind \in Others, task[i].kind \notin Deletions, task'[i].kind \notin Deletions,
           UNCHANGED modelTables,
           Undisturbed("deletion") /\ CheckedOk(task[i]) => CheckedOk(task[i])'
    PROVE  LiveInv'
  <1>1. Undisturbed("deletion")' =>
            (\A j \in Slots : task[j].kind \notin Deletions) /\ CheckedOk(task[i])'
    BY NoDeletionBeside DEF Undisturbed, LiveInv
  <1>2. /\ \A p \in Providers : LiveProvider(p) => LiveProvider(p)'
        /\ UNCHANGED <<model, default, session>>
    BY DEF LiveProvider, modelTables
  <1> QED  BY <1>1, <1>2, HarmlessStep

LEMMA PutSecretLive ==
    ASSUME ShapeInv, LiveInv, NEW i \in Slots, PutSecret(i) PROVE LiveInv'
  <1>1. /\ Only(i) /\ task[i].kind \in Writers \cup {"configure"}
        /\ task'[i].kind = task[i].kind /\ task'[i].owner = task[i].owner
        /\ task'[i].at \in {"record", "put"}
        /\ UNCHANGED <<modelTables, disturbed>>
    BY PutSecretMoves
  <1>2. CASE task[i].kind = "configure"
    BY <1>1, <1>2, ElsewhereStep DEF Others, Writers, Deletions
  <1>3. CASE task[i].kind \in Writers
    <2>1. task[i].kind \in Others /\ task[i].kind \notin Deletions  BY <1>3 DEF Others, Writers, Deletions
    <2>2. CheckedOk(task[i]) => CheckedOk(task[i])'
      BY <1>1, <1>3 DEF CheckedOk, Writers, LiveProvider, modelTables
    <2> QED  BY <1>1, <2>1, <2>2, GoesOnLive
  <1> QED  BY <1>1, <1>2, <1>3

LEMMA EndsLive ==
    ASSUME ShapeInv, LiveInv, NEW i \in Slots, Only(i), task'[i] = Free, UNCHANGED modelTables,
           disturbed \subseteq disturbed', task[i].kind \in Others, task[i].kind \notin Deletions
    PROVE  LiveInv'
  <1>1. CheckedOk(task[i])' /\ task'[i].kind \notin Deletions
    BY FreeFacts DEF CheckedOk, Writers, Deletions
  <1> QED  BY <1>1, GoesOnLive

LEMMA RefusedLive ==
    ASSUME ShapeInv, LiveInv, NEW i \in Slots, Refused(i) PROVE LiveInv'
  BY RefusedMoves, EndsLive DEF Others, Writers, Deletions

LEMMA InsertModelLive ==
    ASSUME ShapeInv, LiveInv, NEW i \in Slots, InsertModel(i) PROVE LiveInv'
  <1>1. /\ Only(i) /\ task[i].kind \in {"provider", "model"} /\ task[i].at = "check"
        /\ task[i].owner \in Providers /\ task[i].model \in Models
        /\ model' = [model EXCEPT ![task[i].model] = [at |-> "live", of |-> task[i].owner]]
        /\ task'[i] = Free \/ Went(i, "choose")
        /\ UNCHANGED <<provider, default, session, disturbed>>
    BY InsertModelMoves
  <1>2. task[i].kind \in Others /\ task[i].kind \notin Deletions /\ task[i].kind \in Writers
    BY <1>1 DEF Others, Writers, Deletions
  <1>3. ASSUME Undisturbed("deletion")'
        PROVE  /\ \A j \in Slots : task[j].kind \notin Deletions
               /\ task'[i].kind \notin Deletions /\ CheckedOk(task[i])'
               /\ \A p \in Providers : LiveProvider(p) => LiveProvider(p)'
               /\ \A m \in Models : LiveModel(m) => LiveModel(m)'
               /\ SessionsLive' /\ DefaultLive'
    <2>1. Undisturbed("deletion")  BY <1>1, <1>3 DEF Undisturbed
    <2>2. \A j \in Slots : task[j].kind \notin Deletions  BY <1>2, <2>1, NoDeletionBeside
    <2>3. SessionsLive /\ DefaultLive /\ LiveProvider(task[i].owner)
      BY <1>2, <2>1, <2>2 DEF LiveInv, Deletions, CheckedOk
    <2>4. \A p \in Providers : LiveProvider(p)' <=> LiveProvider(p)  BY <1>1 DEF LiveProvider
    <2>5. ASSUME NEW m \in Models, LiveModel(m) PROVE LiveModel(m)'
      <3>1. CASE m = task[i].model
        <4>1. model'[m].at = "live" /\ model'[m].of = task[i].owner
          BY <1>1, <3>1 DEF ShapeInv, TypeOK
        <4> QED  BY <1>1, <2>3, <2>4, <4>1 DEF LiveModel
      <3>2. CASE m # task[i].model
        <4>1. model'[m] = model[m]  BY <1>1, <3>2 DEF ShapeInv, TypeOK
        <4> QED  BY <1>1, <2>5, <4>1 DEF LiveModel, LiveProvider
      <3> QED  BY <3>1, <3>2
    <2>6. SessionsLive' /\ DefaultLive'  BY <1>1, <2>3, <2>5 DEF SessionsLive, DefaultLive
    <2>7. CheckedOk(task[i])' /\ task'[i].kind \notin Deletions
      <3>1. CASE task'[i] = Free  BY <3>1, FreeFacts DEF CheckedOk, Writers, Deletions
      <3>2. CASE Went(i, "choose")
        <4>1. LiveProvider(task[i].owner)'  BY <1>1, <2>3, <2>4, <3>2, WentIs
        <4> QED  BY <1>1, <1>2, <3>2, <4>1, WentIs DEF CheckedOk, Deletions
      <3> QED  BY <1>1, <3>1, <3>2
    <2> QED  BY <2>2, <2>4, <2>5, <2>6, <2>7
  <1> QED  BY <1>1, <1>3, NoDeletionStep

LEMMA SetWorkspaceDefaultLive ==
    ASSUME ShapeInv, LiveInv, NEW i \in Slots, SetWorkspaceDefault(i) PROVE LiveInv'
  <1>1. /\ Only(i) /\ task[i].kind = "none" /\ task'[i].kind = "default" /\ task'[i].at = "write"
        /\ MayBeDefault(task'[i].model)
        /\ disturbed' = disturbed \cup Disturbs(i, "default", Nobody)
        /\ UNCHANGED modelTables
    BY SetWorkspaceDefaultMoves DEF Began
  <1>2. "default" \in Others /\ "default" \notin Deletions  BY DEF Others, Deletions
  <1>3. Undisturbed("deletion")' => \A j \in Slots : task[j].kind \notin Deletions
    BY <1>1, <1>2, BeginsUndisturbed
  <1>4. task'[i].model \in Models => LiveModel(task[i].model)'
    BY <1>1 DEF MayBeDefault, LiveModel, LiveProvider, modelTables
  <1>5. CheckedOk(task[i])'  BY <1>1, <1>4 DEF CheckedOk, Writers
  <1>6. /\ \A p \in Providers : LiveProvider(p) => LiveProvider(p)'
        /\ UNCHANGED <<model, default, session>>
    BY <1>1 DEF LiveProvider, modelTables
  <1> QED  BY <1>1, <1>2, <1>3, <1>5, <1>6, HarmlessStep

LEMMA ChooseDefaultLive ==
    ASSUME ShapeInv, LiveInv, NEW i \in Slots, ChooseDefault(i) PROVE LiveInv'
  <1>1. /\ Only(i) /\ task[i].kind \in {"provider", "model"}
        /\ task'[i] = Free \/ (MayBeDefault(task[i].model) /\ Went(i, "write"))
        /\ UNCHANGED <<modelTables, disturbed>>
    BY ChooseDefaultMoves
  <1>2. task[i].kind \in Others /\ task[i].kind \notin Deletions /\ task[i].kind \in Writers
    BY <1>1 DEF Others, Writers, Deletions
  <1>3. CASE task'[i] = Free  BY <1>1, <1>2, <1>3, EndsLive
  <1>4. CASE MayBeDefault(task[i].model) /\ Went(i, "write")
    <2>1. /\ task'[i].kind = task[i].kind /\ task'[i].owner = task[i].owner
          /\ task'[i].model = task[i].model /\ task'[i].at = "write"
      BY <1>4, WentIs
    <2>2. task'[i].model \in Models => LiveModel(task[i].model)'
      BY <1>1, <1>4, <2>1 DEF MayBeDefault, LiveModel, LiveProvider, modelTables
    <2>3. ASSUME CheckedOk(task[i]) PROVE CheckedOk(task[i])'
      <3>1. LiveProvider(task[i].owner)'
        BY <1>1, <1>2, <2>1, <2>3 DEF CheckedOk, LiveProvider, modelTables
      <3> QED  BY <2>1, <2>2, <3>1, <1>2 DEF CheckedOk, Writers
    <2> QED  BY <1>1, <1>2, <2>1, <2>3, GoesOnLive
  <1> QED  BY <1>1, <1>3, <1>4

LEMMA WriteDefaultLive ==
    ASSUME ShapeInv, LiveInv, NEW i \in Slots, WriteDefault(i) PROVE LiveInv'
  <1>1. /\ Only(i) /\ task'[i] = Free /\ task[i].at = "write"
        /\ task[i].kind \in {"provider", "model", "default"}
        /\ default' = task[i].model
        /\ UNCHANGED <<provider, model, session, disturbed>>
    BY WriteDefaultMoves
  <1>2. task[i].kind \in Others /\ task[i].kind \notin Deletions
    BY <1>1 DEF Others, Writers, Deletions
  <1>3. ASSUME Undisturbed("deletion")'
        PROVE  (\A j \in Slots : task[j].kind \notin Deletions) /\ SessionsLive' /\ DefaultLive'
    <2>1. Undisturbed("deletion")  BY <1>1, <1>3 DEF Undisturbed
    <2>2. SessionsLive /\ CheckedOk(task[i])  BY <2>1 DEF LiveInv
    <2>3. task[i].model \in Models => LiveModel(task[i].model)  BY <1>1, <2>2 DEF CheckedOk
    <2>4. \A m : LiveModel(m)' <=> LiveModel(m)  BY <1>1 DEF LiveModel, LiveProvider
    <2>5. SessionsLive'  BY <1>1, <2>2, <2>4 DEF SessionsLive
    <2>6. DefaultLive'  BY <1>1, <2>3, <2>4 DEF DefaultLive
    <2> QED  BY <1>2, <2>1, <2>5, <2>6, NoDeletionBeside
  <1>4. CheckedOk(task[i])' /\ task'[i].kind \notin Deletions
    BY <1>1, FreeFacts DEF CheckedOk, Writers, Deletions
  <1>5. /\ \A p \in Providers : LiveProvider(p) => LiveProvider(p)'
        /\ \A m \in Models : LiveModel(m) => LiveModel(m)'
    BY <1>1 DEF LiveModel, LiveProvider
  <1> QED  BY <1>1, <1>3, <1>4, <1>5, NoDeletionStep

-----------------------------------------------------------------------------
(* Sessions begin and run.                                                 *)

LEMMA AsksForSessionLive ==
    ASSUME ShapeInv, LiveInv, NEW i \in Slots, NEW prompt \in BOOLEAN, AsksForSession(i, prompt)
    PROVE  LiveInv'
  <1>1. /\ Only(i) /\ task[i].kind = "none" /\ task'[i].kind = "session" /\ task'[i].at = "resolve"
        /\ disturbed' = disturbed \cup Disturbs(i, "session", Nobody)
        /\ UNCHANGED modelTables
    BY AsksForSessionMoves DEF Began
  <1>2. "session" \in Others /\ "session" \notin Deletions  BY DEF Others, Deletions
  <1>3. Undisturbed("deletion")' => \A j \in Slots : task[j].kind \notin Deletions
    BY <1>1, <1>2, BeginsUndisturbed
  <1>4. CheckedOk(task[i])'  BY <1>1 DEF CheckedOk, Writers
  <1>5. /\ \A p \in Providers : LiveProvider(p) => LiveProvider(p)'
        /\ UNCHANGED <<model, default, session>>
    BY <1>1 DEF LiveProvider, modelTables
  <1> QED  BY <1>1, <1>2, <1>3, <1>4, <1>5, HarmlessStep

LEMMA ResolveNewLive ==
    ASSUME ShapeInv, LiveInv, NEW i \in Slots, ResolveModelForNewSession(i) PROVE LiveInv'
  <1>1. /\ Only(i) /\ task[i].kind = "session"
        /\ \/ task'[i] = Free
           \/ /\ task'[i].kind = "session" /\ task'[i].at = "save"
              /\ task'[i].model = NoModel \/ LiveModel(task'[i].model)
        /\ UNCHANGED <<modelTables, disturbed>>
    BY ResolveModelForNewSessionMoves
  <1>2. task[i].kind \in Others /\ task[i].kind \notin Deletions  BY <1>1 DEF Others, Deletions
  <1>3. CASE task'[i] = Free  BY <1>1, <1>2, <1>3, EndsLive
  <1>4. CASE task'[i].kind = "session" /\ task'[i].at = "save"
             /\ (task'[i].model = NoModel \/ LiveModel(task'[i].model))
    <2>1. task'[i].model \in Models => LiveModel(task[i].model)'
      BY <1>1, <1>4, SettingsAssumption DEF LiveModel, LiveProvider, modelTables
    <2>2. CheckedOk(task[i])' /\ task'[i].kind \notin Deletions
      BY <1>4, <2>1 DEF CheckedOk, Writers, Deletions
    <2> QED  BY <1>1, <1>2, <2>2, GoesOnLive
  <1> QED  BY <1>1, <1>3, <1>4

LEMMA SaveSessionLive ==
    ASSUME ShapeInv, LiveInv, NEW i \in Slots, SaveSession(i) PROVE LiveInv'
  <1> DEFINE s == task[i].session
  <1>1. /\ Only(i) /\ task[i].kind = "session" /\ task[i].at = "save" /\ s \in Sessions
        /\ SessionChanges(s) /\ session'[s].model = task[i].model
        /\ task'[i] = Free \/ (task'[i].kind = "run" /\ task'[i].at = "hot")
        /\ UNCHANGED <<provider, model, default, disturbed>>
    BY SaveSessionMoves
  <1> HIDE DEF s
  <1>2. task[i].kind \in Others /\ task[i].kind \notin Deletions  BY <1>1 DEF Others, Deletions
  <1>3. \A m : LiveModel(m)' <=> LiveModel(m)  BY <1>1 DEF LiveModel, LiveProvider
  <1>4. ASSUME Undisturbed("deletion")'
        PROVE  (\A j \in Slots : task[j].kind \notin Deletions) /\ SessionsLive' /\ DefaultLive'
    <2>1. Undisturbed("deletion")  BY <1>1, <1>4 DEF Undisturbed
    <2>2. \A j \in Slots : task[j].kind \notin Deletions  BY <1>2, <2>1, NoDeletionBeside
    <2>3. SessionsLive /\ DefaultLive /\ CheckedOk(task[i])  BY <2>1, <2>2 DEF LiveInv, Deletions
    <2>4. task[i].model \in Models => LiveModel(task[i].model)  BY <1>1, <2>3 DEF CheckedOk
    <2>5. ASSUME NEW r \in Sessions, session'[r].model \in Models, ~ session'[r].left
          PROVE  LiveModel(session[r].model)'
      <3>1. CASE r = s  BY <1>1, <1>3, <2>4, <2>5, <3>1
      <3>2. CASE r # s  BY <1>1, <1>3, <2>3, <2>5, <3>2 DEF SessionChanges, SessionsLive
      <3> QED  BY <3>1, <3>2
    <2>6. SessionsLive' /\ DefaultLive'  BY <1>1, <1>3, <2>3, <2>5 DEF SessionsLive, DefaultLive
    <2> QED  BY <2>2, <2>6
  <1>5. CheckedOk(task[i])' /\ task'[i].kind \notin Deletions
    BY <1>1, FreeFacts DEF CheckedOk, Writers, Deletions
  <1>6. \A p \in Providers : LiveProvider(p) => LiveProvider(p)'  BY <1>1 DEF LiveProvider
  <1> QED  BY <1>1, <1>3, <1>4, <1>5, <1>6, NoDeletionStep

LEMMA HandleExistingLive ==
    ASSUME ShapeInv, LiveInv, NEW i \in Slots, HandleExistingSession(i) PROVE LiveInv'
  <1> DEFINE s == task'[i].session
  <1>1. /\ Only(i) /\ task[i].kind = "none" /\ task'[i].kind = "run" /\ task'[i].at = "hot"
        /\ s \in Sessions /\ SessionChanges(s)
        /\ session'[s].model = session[s].model /\ session'[s].left = session[s].left
        /\ disturbed' = disturbed \cup Disturbs(i, "run", Nobody)
        /\ UNCHANGED <<provider, model, default>>
    BY HandleExistingSessionMoves DEF Began
  <1>2. "run" \in Others /\ "run" \notin Deletions  BY DEF Others, Deletions
  <1>3. Undisturbed("deletion")' => \A j \in Slots : task[j].kind \notin Deletions
    BY <1>1, <1>2, BeginsUndisturbed
  <1>4. CheckedOk(task[i])'  BY <1>1 DEF CheckedOk, Writers
  <1>5. \A r \in Sessions : session'[r].model = session[r].model /\ session'[r].left = session[r].left
    BY <1>1 DEF SessionChanges
  <1>6. \A p \in Providers : LiveProvider(p) => LiveProvider(p)'  BY <1>1 DEF LiveProvider
  <1> QED  BY <1>1, <1>2, <1>3, <1>4, <1>5, <1>6, HarmlessStep

(* The steps of a run that has begun, and the mishaps of every request.    *)
LEMMA RunLive ==
    ASSUME ShapeInv, LiveInv, NEW i \in Slots,
           GetHotContext(i) \/ ResolveModelForSession(i) \/ CacheUnavailable(i)
    PROVE  LiveInv'
  <1>1. /\ Only(i) /\ task[i].kind = "run" /\ task'[i].kind = "run" /\ UNCHANGED modelTables
        /\ disturbed \subseteq disturbed'
    BY GetHotContextMoves, ResolveModelForSessionMoves, CacheUnavailableMoves
  <1>2. CheckedOk(task[i])'  BY <1>1 DEF CheckedOk, Writers
  <1> QED  BY <1>1, <1>2, GoesOnLive DEF Others, Deletions

LEMMA RunWritesLive ==
    ASSUME ShapeInv, LiveInv, NEW i \in Slots, SaveHotContext(i) \/ EndRun(i) PROVE LiveInv'
  <1> DEFINE s == task[i].session
  <1>1. /\ Only(i) /\ task[i].kind = "run" /\ task'[i].kind \in {"none", "run"}
        /\ s \in Sessions /\ SessionChanges(s)
        /\ session'[s].model = session[s].model /\ session'[s].left = session[s].left
        /\ UNCHANGED <<provider, model, default, disturbed>>
    BY SaveHotContextMoves, EndRunMoves, FreeFacts DEF Went
  <1> HIDE DEF s
  <1>2. task[i].kind \in Others /\ task[i].kind \notin Deletions /\ task'[i].kind \notin Deletions
    BY <1>1 DEF Others, Deletions
  <1>3. Undisturbed("deletion")' => \A j \in Slots : task[j].kind \notin Deletions
    BY <1>1, <1>2, NoDeletionBeside DEF Undisturbed
  <1>4. CheckedOk(task[i])'  BY <1>1 DEF CheckedOk, Writers
  <1>5. \A r \in Sessions : session'[r].model = session[r].model /\ session'[r].left = session[r].left
    BY <1>1 DEF SessionChanges
  <1>6. \A p \in Providers : LiveProvider(p) => LiveProvider(p)'  BY <1>1 DEF LiveProvider
  <1> QED  BY <1>1, <1>2, <1>3, <1>4, <1>5, <1>6, HarmlessStep

LEMMA BrokerFailsLive ==
    ASSUME ShapeInv, LiveInv, NEW i \in Slots, BrokerFails(i) PROVE LiveInv'
  <1>1. /\ Only(i) /\ task[i].kind \in Writers \cup {"session", "run"}
        /\ task'[i] = Free \/ task'[i].kind = "run"
        /\ UNCHANGED <<modelTables, disturbed>>
    BY BrokerFailsMoves DEF Went
  <1>2. task[i].kind \in Others /\ task[i].kind \notin Deletions  BY <1>1 DEF Others, Writers, Deletions
  <1>3. CheckedOk(task[i])' /\ task'[i].kind \notin Deletions
    BY <1>1, FreeFacts DEF CheckedOk, Writers, Deletions
  <1> QED  BY <1>1, <1>2, <1>3, GoesOnLive

LEMMA RequestLostLive ==
    ASSUME ShapeInv, LiveInv, NEW i \in Slots, RequestLost(i) PROVE LiveInv'
  <1>1. /\ Only(i) /\ task[i].kind \in Others
        /\ task'[i] = Free \/ task'[i].kind = "run"
        /\ disturbed' = disturbed \cup (IF task[i].kind \in Deletions THEN {"deletion"} ELSE {})
        /\ UNCHANGED modelTables
    BY RequestLostMoves
  <1>2. CASE task[i].kind \in Deletions  BY <1>1, <1>2 DEF LiveInv, Undisturbed
  <1>3. CASE task[i].kind \notin Deletions
    <2>1. CheckedOk(task[i])' /\ task'[i].kind \notin Deletions
      BY <1>1, FreeFacts DEF CheckedOk, Writers, Deletions
    <2> QED  BY <1>1, <1>3, <2>1, GoesOnLive
  <1> QED  BY <1>2, <1>3

(* A session that is closed keeps its model from nothing.                  *)
LEMMA CloseLive == ASSUME ShapeInv, LiveInv, NEW s \in Sessions, CloseSession(s) PROVE LiveInv'
  <1>1. /\ SessionChanges(s) /\ session'[s].status = "closed"
        /\ session'[s].model = session[s].model /\ session'[s].left = session[s].left
        /\ UNCHANGED <<task, provider, model, default, disturbed>>
    BY CloseSessionMoves
  <1>2. \A m : LiveModel(m)' <=> LiveModel(m)  BY <1>1 DEF LiveModel, LiveProvider
  <1>3. \A r \in Sessions : session'[r].model = session[r].model /\ session'[r].left = session[r].left
                               /\ session'[r].status \in {session[r].status, "closed"}
    BY <1>1 DEF SessionChanges
  <1>4. SessionsLive => SessionsLive'  BY <1>2, <1>3 DEF SessionsLive
  <1>5. DefaultLive' <=> DefaultLive  BY <1>1, <1>2 DEF DefaultLive
  <1>6. \A ms : NoneActive(ms) => NoneActive(ms)'  BY <1>3 DEF NoneActive
  <1>7. \A p : ModelsOf(p)' = ModelsOf(p)  BY <1>1 DEF ModelsOf
  <1>8. ASSUME NEW j \in Slots PROVE CheckedOk(task[j]) => CheckedOk(task[j])'
    BY <1>1, <1>2 DEF CheckedOk, LiveProvider
  <1>9. ASSUME NEW j \in Slots PROVE DropModelOk(task[j]) => DropModelOk(task[j])'
    BY <1>1, <1>6 DEF DropModelOk
  <1>10. ASSUME NEW j \in Slots PROVE DropProviderOk(task[j]) => DropProviderOk(task[j])'
    BY <1>1, <1>2, <1>5, <1>6, <1>7 DEF DropProviderOk
  <1>11. DeletesAlone => DeletesAlone'  BY <1>1 DEF DeletesAlone
  <1> QED  BY <1>1, <1>4, <1>5, <1>8, <1>9, <1>10, <1>11 DEF LiveInv, Undisturbed

-----------------------------------------------------------------------------
(* Deletions.                                                              *)

LEMMA DeletionBegins ==
    ASSUME ShapeInv, LiveInv, NEW i \in Slots, NEW kind \in Deletions, NEW p, Only(i),
           task[i].kind = "none", disturbed' = disturbed \cup Disturbs(i, kind, p),
           UNCHANGED modelTables, Undisturbed("deletion")'
    PROVE  /\ \A j \in Slots \ {i} : task[j].kind \notin Others
           /\ SessionsLive' /\ DefaultLive'
  <1>1. kind \in Others  BY DEF Others
  <1>2. \A j \in Slots \ {i} : task[j].kind \notin Others  BY <1>1, BeginsUndisturbed
  <1>3. \A j \in Slots : task[j].kind # "dropProvider"  BY <1>2 DEF Others, Deletions
  <1>4. SessionsLive /\ DefaultLive  BY <1>3 DEF LiveInv, Undisturbed
  <1> QED  BY <1>2, <1>4, TablesStay

LEMMA DeleteProviderLive ==
    ASSUME ShapeInv, LiveInv, NEW i \in Slots, DeleteProvider(i) PROVE LiveInv'
  <1>1. /\ Only(i) /\ task[i].kind = "none" /\ task'[i].kind = "dropProvider" /\ task'[i].at = "count"
        /\ UNCHANGED modelTables
    BY DeleteProviderMoves DEF Began
  <1>2. disturbed' = disturbed \cup Disturbs(i, "dropProvider", task'[i].owner)
    BY DeleteProviderMoves
  <1>3. ASSUME Undisturbed("deletion")'
        PROVE  /\ \A j \in Slots \ {i} : task[j].kind \notin Others
               /\ SessionsLive' /\ DefaultLive'
    <2>1. "dropProvider" \in Deletions  BY DEF Deletions
    <2> QED  BY <1>1, <1>2, <1>3, <2>1, DeletionBegins
  <1>4. DefaultLive' => DropProviderOk(task[i])'  BY <1>1 DEF DropProviderOk
  <1>5. task'[i].kind \in Deletions  BY <1>1 DEF Deletions
  <1>6. disturbed \subseteq disturbed'  BY <1>2
  <1> QED  BY <1>1, <1>3, <1>4, <1>5, <1>6, DeletionStep

LEMMA DeleteModelLive ==
    ASSUME ShapeInv, LiveInv, NEW i \in Slots, DeleteModel(i) PROVE LiveInv'
  <1>1. /\ Only(i) /\ task[i].kind = "none" /\ task'[i].kind = "dropModel" /\ task'[i].at = "count"
        /\ task'[i].model # default
        /\ UNCHANGED modelTables
    BY DeleteModelMoves DEF Began
  <1>2. disturbed' = disturbed \cup Disturbs(i, "dropModel", Nobody)
    BY DeleteModelMoves
  <1>3. ASSUME Undisturbed("deletion")'
        PROVE  /\ \A j \in Slots \ {i} : task[j].kind \notin Others
               /\ SessionsLive' /\ DefaultLive'
    <2>1. "dropModel" \in Deletions  BY DEF Deletions
    <2> QED  BY <1>1, <1>2, <1>3, <2>1, DeletionBegins
  <1>4. DropModelOk(task[i])'  BY <1>1 DEF DropModelOk, modelTables
  <1>5. task'[i].kind \in Deletions  BY <1>1 DEF Deletions
  <1>6. disturbed \subseteq disturbed'  BY <1>2
  <1> QED  BY <1>1, <1>3, <1>4, <1>5, <1>6, DeletionStep

LEMMA CountSessionsLive ==
    ASSUME ShapeInv, LiveInv, NEW i \in Slots, CountSessions(i) PROVE LiveInv'
  <1>1. /\ Only(i) /\ task[i].kind = "dropProvider" /\ task[i].at = "count"
        /\ task'[i] = Free \/ (ActiveSessions(ModelsOf(task[i].owner)) = {} /\ Went(i, "models"))
        /\ UNCHANGED <<modelTables, disturbed>>
    BY CountSessionsMoves
  <1>2. task[i].kind \in Deletions  BY <1>1 DEF Deletions
  <1>3. ASSUME Undisturbed("deletion")'
        PROVE  /\ \A j \in Slots \ {i} : task[j].kind \notin Others
               /\ SessionsLive' /\ DefaultLive'
    <2>1. Undisturbed("deletion")  BY <1>1, <1>3 DEF Undisturbed
    <2>2. DefaultLive  BY <1>1, <1>2, <2>1, DeletionAlone DEF DropProviderOk
    <2> QED  BY <1>1, <1>2, <2>1, <2>2, DeletionAlone, TablesStay
  <1>4. ASSUME DefaultLive', task'[i].kind = "dropProvider" PROVE DropProviderOk(task[i])'
    <2>1. Went(i, "models") /\ NoneActive(ModelsOf(task[i].owner))
      BY <1>1, <1>4, FreeFacts, NoneActiveFacts
    <2>2. task'[i].at = "models" /\ task'[i].owner = task[i].owner  BY <2>1, WentIs
    <2>3. NoneActive(ModelsOf(task[i].owner))'
      BY <1>1, <2>1, <2>2 DEF NoneActive, ModelsOf, modelTables
    <2> QED  BY <1>4, <2>2, <2>3 DEF DropProviderOk
  <1>5. task'[i].kind \in {"none", "dropProvider"}  BY <1>1, WentIs, FreeFacts
  <1> QED  BY <1>1, <1>3, <1>4, <1>5, DeletionStep DEF Deletions

LEMMA ListModelsLive ==
    ASSUME ShapeInv, LiveInv, NEW i \in Slots, ListModels(i) PROVE LiveInv'
  <1>1. /\ Only(i) /\ task[i].kind = "dropProvider" /\ task[i].at = "models"
        /\ task'[i].kind = "dropProvider" /\ task'[i].at = "default" /\ task'[i].owner = task[i].owner
        /\ task'[i].models = ModelsOf(task[i].owner)
        /\ UNCHANGED <<modelTables, disturbed>>
    BY ListModelsMoves
  <1>2. task[i].kind \in Deletions  BY <1>1 DEF Deletions
  <1>3. ASSUME Undisturbed("deletion")'
        PROVE  /\ \A j \in Slots \ {i} : task[j].kind \notin Others
               /\ SessionsLive' /\ DropProviderOk(task[i])'
    <2>1. Undisturbed("deletion")  BY <1>1, <1>3 DEF Undisturbed
    <2>2. DefaultLive /\ NoneActive(ModelsOf(task[i].owner))
      BY <1>1, <1>2, <2>1, DeletionAlone DEF DropProviderOk
    <2>3. NoneActive(ModelsOf(task[i].owner))' /\ task'[i].models = ModelsOf(task[i].owner)'
      BY <1>1, <2>2 DEF NoneActive, ModelsOf, modelTables
    <2>4. DefaultLive'  BY <1>1, <2>2, TablesStay
    <2>5. DropProviderOk(task[i])'  BY <1>1, <2>3, <2>4 DEF DropProviderOk
    <2> QED  BY <1>1, <1>2, <2>1, <2>5, DeletionAlone, TablesStay
  <1> QED  BY <1>1, <1>2, <1>3, DeletionStep DEF Deletions

LEMMA ReadDefaultLive ==
    ASSUME ShapeInv, LiveInv, NEW i \in Slots, ReadDefault(i) PROVE LiveInv'
  <1>1. /\ Only(i) /\ task[i].kind = "dropProvider" /\ task[i].at = "default"
        /\ task'[i].kind = "dropProvider" /\ task'[i].at = "dropModels" /\ task'[i].owner = task[i].owner
        /\ task'[i].model = default /\ task'[i].models = task[i].models
        /\ UNCHANGED <<modelTables, disturbed>>
    BY ReadDefaultMoves
  <1>2. task[i].kind \in Deletions  BY <1>1 DEF Deletions
  <1>3. ASSUME Undisturbed("deletion")'
        PROVE  /\ \A j \in Slots \ {i} : task[j].kind \notin Others
               /\ SessionsLive' /\ DropProviderOk(task[i])'
    <2>1. Undisturbed("deletion")  BY <1>1, <1>3 DEF Undisturbed
    <2>2. DefaultLive /\ NoneActive(ModelsOf(task[i].owner)) /\ task[i].models = ModelsOf(task[i].owner)
      BY <1>1, <1>2, <2>1, DeletionAlone DEF DropProviderOk
    <2>3. NoneActive(ModelsOf(task[i].owner))' /\ task'[i].models = ModelsOf(task[i].owner)'
      BY <1>1, <2>2 DEF NoneActive, ModelsOf, modelTables
    <2>4. DefaultLive' /\ task'[i].model = default'  BY <1>1, <2>2, TablesStay DEF modelTables
    <2>5. DropProviderOk(task[i])'  BY <1>1, <2>3, <2>4 DEF DropProviderOk
    <2> QED  BY <1>1, <1>2, <2>1, <2>5, DeletionAlone, TablesStay
  <1> QED  BY <1>1, <1>2, <1>3, DeletionStep DEF Deletions

(* The sessions of models that no session works with keep them or are left *)
(* behind.                                                                 *)
LEMMA SessionsLeft ==
    ASSUME ShapeInv, RunsInv, SessionsLive, NEW ms, NoneActive(ms), LeftBehind(ms),
           \A m \in Models : LiveModel(m) /\ m \notin ms => LiveModel(m)'
    PROVE  SessionsLive'
  <1>1. SUFFICES ASSUME NEW s \in Sessions, session'[s].model \in Models, ~ session'[s].left
                 PROVE  LiveModel(session[s].model)'
    BY DEF SessionsLive
  <1>2. /\ session'[s].model = session[s].model /\ ~ session[s].left
        /\ session[s].model \in ms => session[s].status \notin {"error", "closed"}
    BY <1>1, LeftBehindMoves
  <1>3. LiveModel(session[s].model)  BY <1>1, <1>2 DEF SessionsLive
  <1>4. session[s].status # "none"
    BY <1>1, <1>2, SettingsAssumption DEF RunsInv, NoSession
  <1>5. session[s].status \in Statuses  BY DEF ShapeInv, TypeOK, SessionRows
  <1>6. session[s].model \notin ms  BY <1>2, <1>4, <1>5 DEF NoneActive, Statuses
  <1>7. LiveModel(session[s].model)'  BY <1>1, <1>2, <1>3, <1>6
  <1> QED  BY <1>7

LEMMA DropModelsLive ==
    ASSUME ShapeInv, RunsInv, LiveInv, NEW i \in Slots, DropModels(i) PROVE LiveInv'
  <1> DEFINE p == task[i].owner  gone == ModelsOf(p)
  <1>1. /\ Only(i) /\ task[i].kind = "dropProvider" /\ task[i].at = "dropModels"
        /\ Went(i, "clear") /\ LeftBehind(gone)
        /\ \A m \in Models : model'[m].of = model[m].of
               /\ model'[m].at = IF m \in gone THEN "deleted" ELSE model[m].at
        /\ UNCHANGED <<provider, default, disturbed>>
    BY DropModelsMoves
  <1>2. task[i].kind \in Deletions  BY <1>1 DEF Deletions
  <1>3. /\ task'[i].kind = "dropProvider" /\ task'[i].at = "clear" /\ task'[i].owner = p
        /\ task'[i].model = task[i].model /\ task'[i].models = task[i].models
    BY <1>1, WentIs
  <1>4. ASSUME Undisturbed("deletion")'
        PROVE  /\ \A j \in Slots \ {i} : task[j].kind \notin Others
               /\ SessionsLive' /\ DropProviderOk(task[i])'
    <2>1. Undisturbed("deletion")  BY <1>1, <1>4 DEF Undisturbed
    <2>2. /\ DefaultLive /\ NoneActive(gone) /\ task[i].models = gone /\ task[i].model = default
          /\ SessionsLive /\ \A j \in Slots \ {i} : task[j].kind \notin Others
      BY <1>1, <1>2, <2>1, DeletionAlone DEF DropProviderOk
    <2>3. \A m \in Models : LiveModel(m) /\ m \notin gone => LiveModel(m)'
      BY <1>1 DEF LiveModel, LiveProvider
    <2> HIDE DEF gone
    <2>4. SessionsLive'  BY <1>1, <2>2, <2>3, SessionsLeft
    <2>5. default' \in Models => LiveModel(default)' \/ default' \in task'[i].models
      BY <1>1, <1>3, <2>2, <2>3 DEF DefaultLive
    <2>6. ModelsOf(task[i].owner)' = {}
      BY <1>1, <1>3 DEF ModelsOf, gone
    <2>7. DropProviderOk(task[i])'  BY <1>1, <1>3, <2>2, <2>5, <2>6 DEF DropProviderOk
    <2> QED  BY <2>2, <2>4, <2>7
  <1> QED  BY <1>1, <1>2, <1>3, <1>4, DeletionStep DEF Deletions

LEMMA ClearDefaultLive ==
    ASSUME ShapeInv, LiveInv, NEW i \in Slots, ClearDefault(i) PROVE LiveInv'
  <1>1. /\ Only(i) /\ task[i].kind = "dropProvider" /\ task[i].at = "clear" /\ Went(i, "drop")
        /\ default' = IF task[i].model \in task[i].models THEN NoModel ELSE default
        /\ UNCHANGED <<provider, model, session, disturbed>>
    BY ClearDefaultMoves
  <1>2. task[i].kind \in Deletions  BY <1>1 DEF Deletions
  <1>3. task'[i].kind = "dropProvider" /\ task'[i].at = "drop" /\ task'[i].owner = task[i].owner
    BY <1>1, WentIs
  <1>4. \A m : LiveModel(m)' <=> LiveModel(m)  BY <1>1 DEF LiveModel, LiveProvider
  <1>5. ASSUME Undisturbed("deletion")'
        PROVE  /\ \A j \in Slots \ {i} : task[j].kind \notin Others
               /\ SessionsLive' /\ DropProviderOk(task[i])'
    <2>1. Undisturbed("deletion")  BY <1>1, <1>5 DEF Undisturbed
    <2>2. /\ SessionsLive /\ \A j \in Slots \ {i} : task[j].kind \notin Others
          /\ task[i].model = default /\ ModelsOf(task[i].owner) = {}
          /\ default \in Models => LiveModel(default) \/ default \in task[i].models
      BY <1>1, <1>2, <2>1, DeletionAlone DEF DropProviderOk
    <2>3. DefaultLive'  BY <1>1, <1>4, <2>2, SettingsAssumption DEF DefaultLive
    <2>4. SessionsLive'  BY <1>1, <1>4, <2>2 DEF SessionsLive
    <2>5. ModelsOf(task[i].owner)' = {}  BY <1>1, <1>3, <2>2 DEF ModelsOf
    <2>6. DropProviderOk(task[i])'  BY <1>3, <2>3, <2>5 DEF DropProviderOk
    <2> QED  BY <2>2, <2>4, <2>6
  <1> QED  BY <1>1, <1>2, <1>3, <1>5, DeletionStep DEF Deletions

LEMMA DropProviderLive ==
    ASSUME ShapeInv, LiveInv, NEW i \in Slots, DropProvider(i) PROVE LiveInv'
  <1> DEFINE p == task[i].owner
  <1>1. /\ Only(i) /\ task[i].kind = "dropProvider" /\ task[i].at = "drop"
        /\ task'[i] = Free /\ p \in Providers
        /\ provider' = [provider EXCEPT ![p].at = "deleted"]
        /\ UNCHANGED <<model, default, session, disturbed>>
    BY DropProviderMoves
  <1>2. task[i].kind \in Deletions  BY <1>1 DEF Deletions
  <1>3. ASSUME Undisturbed("deletion")'
        PROVE  /\ \A j \in Slots \ {i} : task[j].kind \notin Others
               /\ SessionsLive' /\ DefaultLive'
    <2>1. Undisturbed("deletion")  BY <1>1, <1>3 DEF Undisturbed
    <2>2. /\ SessionsLive /\ \A j \in Slots \ {i} : task[j].kind \notin Others
          /\ ModelsOf(p) = {} /\ DefaultLive
      BY <1>1, <1>2, <2>1, DeletionAlone DEF DropProviderOk
    <2>3. \A q \in Providers \ {p} : provider'[q] = provider[q]  BY <1>1 DEF ShapeInv, TypeOK
    <2>4. \A m \in Models : LiveModel(m) => LiveModel(m)'
      BY <1>1, <2>2, <2>3 DEF LiveModel, LiveProvider, ModelsOf
    <2>5. SessionsLive' /\ DefaultLive'  BY <1>1, <2>2, <2>4 DEF SessionsLive, DefaultLive
    <2> QED  BY <2>2, <2>5
  <1>4. task'[i].kind = "none"  BY <1>1, FreeFacts
  <1> QED  BY <1>1, <1>3, <1>4, DeletionStep DEF Deletions

LEMMA ModelDeletionGoesOnLive ==
    ASSUME ShapeInv, LiveInv, NEW i \in Slots, CountActiveSessionReferences(i) \/ FindModel(i)
    PROVE  LiveInv'
  <1>1. /\ Only(i) /\ task[i].kind = "dropModel" /\ UNCHANGED <<modelTables, disturbed>>
        /\ \/ task'[i] = Free
           \/ ActiveSessions({task[i].model}) = {} /\ Went(i, "find")
           \/ task[i].at = "find" /\ Went(i, "drop")
    BY CountActiveSessionReferencesMoves, FindModelMoves
  <1>2. task[i].kind \in Deletions  BY <1>1 DEF Deletions
  <1>3. task'[i].kind \in {"none", "dropModel"}  BY <1>1, FreeFacts, WentIs
  <1>4. ASSUME Undisturbed("deletion")'
        PROVE  /\ \A j \in Slots \ {i} : task[j].kind \notin Others
               /\ SessionsLive' /\ DefaultLive'
               /\ task'[i].kind = "dropModel" => DropModelOk(task[i])'
    <2>1. Undisturbed("deletion")  BY <1>1, <1>4 DEF Undisturbed
    <2>2. /\ SessionsLive /\ \A j \in Slots \ {i} : task[j].kind \notin Others
          /\ DropModelOk(task[i]) /\ DefaultLive
      BY <1>1, <1>2, <2>1, DeletionAlone
    <2>3. ASSUME task'[i].kind = "dropModel" PROVE DropModelOk(task[i])'
      <3>1. task'[i].model = task[i].model /\ NoneActive({task[i].model})
        BY <1>1, <2>2, <2>3, FreeFacts, WentIs, NoneActiveFacts DEF DropModelOk
      <3> QED  BY <1>1, <2>2, <3>1 DEF DropModelOk, NoneActive, modelTables
    <2> QED  BY <1>1, <2>2, <2>3, TablesStay
  <1> QED  BY <1>1, <1>3, <1>4, DeletionStep DEF Deletions

LEMMA DropModelLive ==
    ASSUME ShapeInv, RunsInv, LiveInv, NEW i \in Slots, DropModel(i) PROVE LiveInv'
  <1> DEFINE m == task[i].model
  <1>1. /\ Only(i) /\ task[i].kind = "dropModel" /\ task[i].at = "drop"
        /\ task'[i] = Free /\ m \in Models /\ LeftBehind({m})
        /\ model' = [model EXCEPT ![m].at = "deleted"]
        /\ UNCHANGED <<provider, default, disturbed>>
    BY DropModelMoves
  <1>2. task[i].kind \in Deletions  BY <1>1 DEF Deletions
  <1>3. ASSUME Undisturbed("deletion")'
        PROVE  /\ \A j \in Slots \ {i} : task[j].kind \notin Others
               /\ SessionsLive' /\ DefaultLive'
    <2>1. Undisturbed("deletion")  BY <1>1, <1>3 DEF Undisturbed
    <2>2. /\ SessionsLive /\ \A j \in Slots \ {i} : task[j].kind \notin Others
          /\ m # default /\ NoneActive({m}) /\ DefaultLive
      BY <1>1, <1>2, <2>1, DeletionAlone DEF DropModelOk
    <2> HIDE DEF m
    <2>3. \A n \in Models \ {m} : model'[n] = model[n]  BY <1>1 DEF ShapeInv, TypeOK
    <2>4. \A n \in Models : LiveModel(n) /\ n \notin {m} => LiveModel(n)'
      BY <1>1, <2>3 DEF LiveModel, LiveProvider
    <2>5. SessionsLive'  BY <1>1, <2>2, <2>4, SessionsLeft
    <2>6. DefaultLive'  BY <1>1, <2>2, <2>4 DEF DefaultLive
    <2> QED  BY <2>2, <2>5, <2>6
  <1>4. task'[i].kind = "none"  BY <1>1, FreeFacts
  <1> QED  BY <1>1, <1>3, <1>4, DeletionStep DEF Deletions

LEMMA ModelStepLive ==
    ASSUME ShapeInv, RunsInv, LiveInv, NEW i \in Slots, ModelStep(i) PROVE LiveInv'
  <1>1. CASE CreateProvider(i)
    BY <1>1, CreateProviderLive
  <1>2. CASE CreateModel(i) \/ UpdateModel(i)
    BY <1>2, ChangesBeginLive
  <1>3. CASE CreateModelAndProvider(i)
    BY <1>3, CreateModelAndProviderLive
  <1>4. CASE RecordRefs(i)
    BY <1>4, RecordRefsLive
  <1>5. CASE Refused(i)
    BY <1>5, RefusedLive
  <1>6. CASE InsertModel(i)
    BY <1>6, InsertModelLive
  <1>7. CASE SetWorkspaceDefault(i)
    BY <1>7, SetWorkspaceDefaultLive
  <1>8. CASE ChooseDefault(i)
    BY <1>8, ChooseDefaultLive
  <1>9. CASE WriteDefault(i)
    BY <1>9, WriteDefaultLive
  <1>10. CASE DeleteProvider(i)
    BY <1>10, DeleteProviderLive
  <1>11. CASE CountSessions(i)
    BY <1>11, CountSessionsLive
  <1>12. CASE ListModels(i)
    BY <1>12, ListModelsLive
  <1>13. CASE ReadDefault(i)
    BY <1>13, ReadDefaultLive
  <1>14. CASE DropModels(i)
    BY <1>14, DropModelsLive
  <1>15. CASE ClearDefault(i)
    BY <1>15, ClearDefaultLive
  <1>16. CASE DropProvider(i)
    BY <1>16, DropProviderLive
  <1>17. CASE DeleteModel(i)
    BY <1>17, DeleteModelLive
  <1>18. CASE CountActiveSessionReferences(i) \/ FindModel(i)
    BY <1>18, ModelDeletionGoesOnLive
  <1>19. CASE DropModel(i)
    BY <1>19, DropModelLive
  <1>20. CASE CreateSession(i) \/ HandleNewSession(i)
    BY <1>20, AsksForSessionLive DEF CreateSession, HandleNewSession
  <1>21. CASE ResolveModelForNewSession(i)
    BY <1>21, ResolveNewLive
  <1>22. CASE SaveSession(i)
    BY <1>22, SaveSessionLive
  <1>23. CASE HandleExistingSession(i)
    BY <1>23, HandleExistingLive
  <1>24. CASE GetHotContext(i) \/ ResolveModelForSession(i) \/ CacheUnavailable(i)
    BY <1>24, RunLive
  <1>25. CASE SaveHotContext(i) \/ EndRun(i)
    BY <1>25, RunWritesLive
  <1>26. CASE BrokerFails(i)
    BY <1>26, BrokerFailsLive
  <1>27. CASE RequestLost(i)
    BY <1>27, RequestLostLive
  <1> QED
    BY <1>1, <1>2, <1>3, <1>4, <1>5, <1>6, <1>7, <1>8, <1>9, <1>10, <1>11, <1>12, <1>13,
       <1>14, <1>15, <1>16, <1>17, <1>18, <1>19, <1>20, <1>21, <1>22, <1>23, <1>24, <1>25,
       <1>26, <1>27 DEF ModelStep

LEMMA InitLive == Init => LiveInv
  <1> SUFFICES ASSUME Init PROVE LiveInv  OBVIOUS
  <1>1. PICK p \in Providers, m \in Models, made, chosen \in BOOLEAN :
          /\ provider = [q \in Providers |-> IF made /\ q = p THEN [at |-> "live", refs |-> {"required"}]
                                                              ELSE NoProvider]
          /\ model = [n \in Models |-> IF made /\ n = m THEN [at |-> "live", of |-> p] ELSE NoSuchModel]
          /\ chosen => made
          /\ default = IF chosen THEN m ELSE NoModel
          /\ handler \in [Handlers -> IF made THEN {NoRow} ELSE HandlerRows]
          /\ session \in [Sessions -> {NoSession} \cup
                             IF made /\ ~chosen THEN {[NoSession EXCEPT !.status = "idle"]} ELSE {}]
          /\ secrets = {<<h, "required">> : h \in {g \in Handlers : handler[g].keyed}}
                         \cup (IF made THEN {<<p, "required">>} ELSE {})
    BY Zenon DEF Init
  <1>2. \A i \in Slots : task[i].kind = "none"  BY FreeFacts DEF Init
  <1>3. made => LiveModel(m)  BY <1>1 DEF LiveModel, LiveProvider
  <1>4. DefaultLive  BY <1>1, <1>3, SettingsAssumption DEF DefaultLive
  <1>5. \A s \in Sessions : session[s].model = NoModel
    <2>1. \A s \in Sessions : session[s] = NoSession \/ session[s] = [NoSession EXCEPT !.status = "idle"]
      BY <1>1
    <2>2. NoSession.model = NoModel /\ [NoSession EXCEPT !.status = "idle"].model = NoModel
      BY DEF NoSession
    <2> QED  BY <2>1, <2>2
  <1>6. SessionsLive  BY <1>5, SettingsAssumption DEF SessionsLive
  <1>7. DeletesAlone  BY <1>2 DEF DeletesAlone, Deletions
  <1>8. \A i \in Slots : CheckedOk(task[i])  BY <1>2 DEF CheckedOk, Writers
  <1> QED  BY <1>2, <1>4, <1>6, <1>7, <1>8 DEF LiveInv

LEMMA NextLive == ShapeInv /\ RunsInv /\ LiveInv /\ [Next]_vars => LiveInv'
  <1> SUFFICES ASSUME ShapeInv, RunsInv, LiveInv, [Next]_vars PROVE LiveInv'  OBVIOUS
  <1>1. CASE UNCHANGED vars
    BY <1>1
       DEF vars, LiveInv, Undisturbed, DeletesAlone, SessionsLive, DefaultLive, CheckedOk, DropModelOk,
           DropProviderOk, NoneActive, ModelsOf, LiveModel, LiveProvider
  <1>2. ASSUME NEW i \in Slots, PutSecret(i) PROVE LiveInv'  BY <1>2, PutSecretLive
  <1>3. ASSUME NEW i \in Slots, ModelStep(i) PROVE LiveInv'  BY <1>3, ModelStepLive
  <1>4. ASSUME NEW i \in Slots, HandlerStep(i) PROVE LiveInv'
    <2>1. /\ Only(i) /\ UNCHANGED modelTables /\ disturbed \subseteq disturbed'
          /\ task[i].kind \in Writing \cup {"none", "outbound"}
          /\ task'[i].kind \in Writing \cup {"none", "outbound"}
      BY <1>4, HandlerSteps
    <2>2. task[i].kind \notin Others /\ task'[i].kind \notin Others
      BY <2>1 DEF Writing, Others, Writers, Deletions
    <2> QED  BY <2>1, <2>2, ElsewhereStep
  <1>5. ASSUME NEW s \in Sessions, CloseSession(s) PROVE LiveInv'  BY <1>5, CloseLive
  <1> QED  BY <1>1, <1>2, <1>3, <1>4, <1>5, NextCases

LEMMA LiveCorrect == Spec => []LiveInv
  BY InitLive, NextLive, ShapeCorrect, RunsCorrect, PTL DEF Spec

(* The default model, and the model of a session that has not ended, can   *)
(* be found whenever no provider is being deleted, whatever was made and   *)
(* deleted in whatever order and whatever failed, unless a deletion ran    *)
(* beside another request or was cut off, or the session had failed or was *)
(* closed when its model was deleted (ModelsInUseAreLiveUndisturbed).      *)
THEOREM ModelsInUseAreLive == Spec => []ModelsInUseAreLiveUndisturbed
  <1>1. LiveInv => ModelsInUseAreLiveUndisturbed
    BY DEF LiveInv, Undisturbed, ModelsInUseAreLiveUndisturbed, SessionsLive, DefaultLive
  <1> QED  BY <1>1, LiveCorrect, PTL

=============================================================================
