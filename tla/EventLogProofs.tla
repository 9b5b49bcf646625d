--------------------------- MODULE EventLogProofs ---------------------------
(***************************************************************************)
(* What EventLog guarantees for any tools, pages of any size, any number   *)
(* of prompts and of mishaps.                                              *)
(***************************************************************************)
EXTENDS EventLog, TLAPS, FiniteSetTheorems, SequenceTheorems

-----------------------------------------------------------------------------
(* Sets of sequence numbers                                                *)

(* A finite set of numbers that is not empty has a greatest element: the   *)
(* sets of those above each of them have a smallest one.                   *)
LEMMA Greatest ==
    ASSUME NEW S \in SUBSET Nat, IsFiniteSet(S), S # {}
    PROVE  Max(S) \in S /\ \A y \in S : y <= Max(S)
<1> DEFINE Above(x) == {y \in S : y > x}
           Aboves   == {Above(x) : x \in S}
<1>1. IsWellFoundedOn(StrictSubsetOrdering(S), FiniteSubsetsOf(S))
  BY FS_StrictSubsetOrderingWellFounded
<1>2. Aboves \subseteq FiniteSubsetsOf(S) /\ Aboves # {}
  <2>1. \A x : Above(x) \in SUBSET S
    OBVIOUS
  <2> HIDE DEF Above
  <2>2. \A x : Above(x) \in FiniteSubsetsOf(S)
    BY <2>1, FS_Subset DEF FiniteSubsetsOf
  <2> QED  BY <2>2
<1>3. PICK U \in Aboves : \A V \in Aboves : ~ (<<V, U>> \in StrictSubsetOrdering(S))
  BY <1>1, <1>2, WFMin
<1>4. PICK x \in S : U = Above(x)
  OBVIOUS
<1>5. ASSUME NEW y \in S, ~ (y <= x)
      PROVE  FALSE
  <2> USE DEF Above
  <2>0. x \in Nat /\ y \in Nat /\ y > x /\ \A z \in S : z \in Nat
    BY <1>5
  <2>1. y \in Above(x) /\ y \notin Above(y) /\ Above(y) \subseteq Above(x)
    <3>1. ASSUME NEW r \in S, r > y
          PROVE  r > x
      BY <2>0, <3>1
    <3>2. ~ (y > y)
      BY <2>0
    <3>3. y \in Above(x) /\ y \notin Above(y)
      BY <2>0, <3>2
    <3> QED  BY <3>1, <3>3
  <2>2. <<Above(y), U>> \in StrictSubsetOrdering(S)
    BY <1>4, <2>1 DEF StrictSubsetOrdering
  <2> QED  BY <1>3, <2>2
<1>6. \E z \in S : \A y \in S : z >= y
  BY <1>5
<1> QED  BY <1>6 DEF Max

LEMMA Least ==
    ASSUME NEW S \in SUBSET Nat, IsFiniteSet(S), S # {}
    PROVE  Min(S) \in S /\ \A y \in S : Min(S) <= y
<1> DEFINE Below(x) == {y \in S : y < x}
           Belows   == {Below(x) : x \in S}
<1>1. IsWellFoundedOn(StrictSubsetOrdering(S), FiniteSubsetsOf(S))
  BY FS_StrictSubsetOrderingWellFounded
<1>2. Belows \subseteq FiniteSubsetsOf(S) /\ Belows # {}
  <2>1. \A x : Below(x) \in SUBSET S
    OBVIOUS
  <2> HIDE DEF Below
  <2>2. \A x : Below(x) \in FiniteSubsetsOf(S)
    BY <2>1, FS_Subset DEF FiniteSubsetsOf
  <2> QED  BY <2>2
<1>3. PICK U \in Belows : \A V \in Belows : ~ (<<V, U>> \in StrictSubsetOrdering(S))
  BY <1>1, <1>2, WFMin
<1>4. PICK x \in S : U = Below(x)
  OBVIOUS
<1>5. ASSUME NEW y \in S, ~ (x <= y)
      PROVE  FALSE
  <2> USE DEF Below
  <2>0. x \in Nat /\ y \in Nat /\ y < x /\ \A z \in S : z \in Nat
    BY <1>5
  <2>1. y \in Below(x) /\ y \notin Below(y) /\ Below(y) \subseteq Below(x)
    <3>1. ASSUME NEW r \in S, r < y
          PROVE  r < x
      BY <2>0, <3>1
    <3>2. ~ (y < y)
      BY <2>0
    <3>3. y \in Below(x) /\ y \notin Below(y)
      BY <2>0, <3>2
    <3> QED  BY <3>1, <3>3
  <2>2. <<Below(y), U>> \in StrictSubsetOrdering(S)
    BY <1>4, <2>1 DEF StrictSubsetOrdering
  <2> QED  BY <1>3, <2>2
<1>6. \E z \in S : \A y \in S : z =< y
  BY <1>5
<1> QED  BY <1>6 DEF Min

(* The greatest element is the only one that is.                           *)
LEMMA GreatestIs ==
    ASSUME NEW S \in SUBSET Nat, NEW x \in S, \A y \in S : y <= x
    PROVE  Max(S) = x
<1>1. Max(S) \in S /\ \A y \in S : Max(S) >= y
  BY DEF Max
<1>2. x \in Nat /\ Max(S) \in Nat /\ x <= Max(S) /\ Max(S) <= x
  BY <1>1
<1> QED  BY <1>2

LEMMA LatestIs ==
    ASSUME NEW S \in SUBSET (Nat \ {0}), IsFiniteSet(S)
    PROVE  /\ Latest(S) \in Nat
           /\ S = {} => Latest(S) = NoMessage
           /\ S # {} => Latest(S) \in S /\ Latest(S) # NoMessage
BY Greatest DEF Latest, NoMessage

(* A page of the lowest numbers leaves none out below its last, and all of *)
(* them are on it when it is not full.                                     *)
LEMMA LowestPage ==
    ASSUME NEW S \in SUBSET Nat, IsFiniteSet(S), NEW n \in Nat
    PROVE  /\ Lowest(n, S) \subseteq S /\ IsFiniteSet(Lowest(n, S))
           /\ \A x \in Lowest(n, S), y \in S : y <= x => y \in Lowest(n, S)
           /\ Cardinality(Lowest(n, S)) < n => Lowest(n, S) = S
<1> DEFINE Below(x) == {r \in S : r < x}
<1>1. /\ Lowest(n, S) = {s \in S : Cardinality(Below(s)) < n}
      /\ \A x : IsFiniteSet(Below(x)) /\ Cardinality(Below(x)) \in Nat
  BY FS_Subset, FS_CardinalityType DEF Lowest
<1>2. Lowest(n, S) \subseteq S /\ IsFiniteSet(Lowest(n, S))
      /\ Cardinality(Lowest(n, S)) \in Nat
  BY <1>1, FS_Subset, FS_CardinalityType
<1>3. ASSUME NEW x \in Lowest(n, S), NEW y \in S, y <= x
      PROVE  y \in Lowest(n, S)
  <2>1. Below(y) \subseteq Below(x)
    <3>1. x \in Nat /\ y \in Nat /\ y <= x /\ \A z \in S : z \in Nat
      BY <1>2, <1>3
    <3>2. ASSUME NEW r \in S, r < y
          PROVE  r < x
      BY <3>1, <3>2
    <3> QED  BY <3>2
  <2>2. Cardinality(Below(y)) <= Cardinality(Below(x))
    BY <1>1, <2>1, FS_Subset
  <2>3. Cardinality(Below(x)) < n
    BY <1>1, <1>3
  <2>4. Cardinality(Below(y)) < n
    <3> HIDE DEF Below
    <3>1. Cardinality(Below(x)) \in Nat /\ Cardinality(Below(y)) \in Nat
      BY <1>1
    <3> QED  BY <2>2, <2>3, <3>1
  <2> QED  BY <1>1, <2>4
<1>4. ASSUME Cardinality(Lowest(n, S)) < n, Lowest(n, S) # S
      PROVE  FALSE
  <2> DEFINE rest == S \ Lowest(n, S)
             x    == Min(rest)
  <2>1. rest # {} /\ rest \in SUBSET Nat /\ IsFiniteSet(rest)
    BY <1>2, <1>4, FS_Subset
  <2>2. x \in rest /\ \A y \in rest : x <= y
    BY <2>1, Least
  <2> HIDE DEF x
  <2>3. Below(x) \subseteq Lowest(n, S)
    <3>1. x \in Nat /\ \A z \in S : z \in Nat /\ (z \in rest => x <= z)
      BY <2>2
    <3>2. ASSUME NEW r \in S, r < x
          PROVE  r \in Lowest(n, S)
      BY <3>1, <3>2
    <3> QED  BY <3>2
  <2>4. Cardinality(Below(x)) <= Cardinality(Lowest(n, S))
    BY <1>2, <2>3, FS_Subset
  <2>5. Cardinality(Below(x)) < n
    <3> HIDE DEF Below
    <3>1. Cardinality(Below(x)) \in Nat
      BY <1>1
    <3> QED  BY <1>2, <1>4, <2>4, <3>1
  <2> QED  BY <1>1, <2>2, <2>5
<1> QED  BY <1>2, <1>3, <1>4

(* A page of the highest numbers leaves none out above its first, and is   *)
(* empty only if there are none.                                           *)
LEMMA HighestPage ==
    ASSUME NEW S \in SUBSET Nat, IsFiniteSet(S), NEW n \in Nat \ {0}
    PROVE  /\ Highest(n, S) \subseteq S /\ IsFiniteSet(Highest(n, S))
           /\ \A x \in Highest(n, S), y \in S : x <= y => y \in Highest(n, S)
           /\ Highest(n, S) = {} => S = {}
<1> DEFINE Above(x) == {r \in S : r > x}
<1>1. /\ Highest(n, S) = {s \in S : Cardinality(Above(s)) < n}
      /\ \A x : IsFiniteSet(Above(x)) /\ Cardinality(Above(x)) \in Nat
  BY FS_Subset, FS_CardinalityType DEF Highest
<1>2. Highest(n, S) \subseteq S /\ IsFiniteSet(Highest(n, S))
  BY <1>1, FS_Subset
<1>3. ASSUME NEW x \in Highest(n, S), NEW y \in S, x <= y
      PROVE  y \in Highest(n, S)
  <2>1. Above(y) \subseteq Above(x)
    <3>1. x \in Nat /\ y \in Nat /\ x <= y /\ \A z \in S : z \in Nat
      BY <1>2, <1>3
    <3>2. ASSUME NEW r \in S, r > y
          PROVE  r > x
      BY <3>1, <3>2
    <3> QED  BY <3>2
  <2>2. Cardinality(Above(y)) <= Cardinality(Above(x))
    BY <1>1, <2>1, FS_Subset
  <2>3. Cardinality(Above(x)) < n
    BY <1>1, <1>3
  <2>4. Cardinality(Above(y)) < n
    <3> HIDE DEF Above
    <3>1. Cardinality(Above(x)) \in Nat /\ Cardinality(Above(y)) \in Nat
      BY <1>1
    <3> QED  BY <2>2, <2>3, <3>1
  <2> QED  BY <1>1, <2>4
<1>4. ASSUME S # {}
      PROVE  Highest(n, S) # {}
  <2>1. Max(S) \in S /\ \A y \in S : y <= Max(S)
    BY <1>4, Greatest
  <2>2. Above(Max(S)) = {}
    <3>1. Max(S) \in Nat /\ \A z \in S : z \in Nat /\ z <= Max(S)
      BY <2>1
    <3>2. ASSUME NEW r \in S, r > Max(S)
          PROVE  FALSE
      BY <3>1, <3>2
    <3> QED  BY <3>2
  <2>3. Cardinality(Above(Max(S))) < n
    BY <2>2, FS_EmptySet
  <2> QED  BY <1>1, <2>1, <2>3
<1> QED  BY <1>2, <1>3, <1>4

-----------------------------------------------------------------------------
(* The inductive invariant *)

(* An append is under way, or its message is in the table and its events   *)
(* are not in the log.                                                     *)
Appends(w) == lane[w].at \in {"noticed", "found", "written", "reserved"}
Pending(w) == lane[w].at \in {"written", "reserved"}

(* The prompts, the session and its worker.                                *)
Smooth == ~ Happened("cut") /\ ~ Happened("stop") /\ ~ Happened("stuck")

PlaceOk ==
    /\ Smooth => (status # "processing" <=> at \in {"rest", "settled", "failed"})
    /\ at # "rest" => prompts > 0
    /\ at = "tools" => prompts = 1
    /\ at \in {"cancels", "idles"} => cancelled
    /\ client.at = "off" => prompts = 0
    /\ prompts = 0 => /\ at = "rest" /\ table = <<>> /\ Sequences = {} /\ column = 0
                      /\ status # "processing" /\ stop.at = "none"
                      /\ \A w \in Lanes : lane[w] = Free

(* The worker takes over the one message that streams, which nobody else   *)
(* writes, or makes one when none does.                                    *)
Found(l) ==
    /\ at = l.does /\ at \in {"asks", "starts", "updates", "ends"}
    /\ l.id = NoMessage => l.copy = {} /\ at # "updates" /\ (at # "asks" => Streaming = {})
    /\ l.id # NoMessage => l.id \in Streaming /\ l.copy = {table[l.id]} /\ at # "asks"

WorkerOk ==
    /\ lane[Worker].at # "noticed"
    /\ lane[Worker].at = "found" => Found(lane[Worker])
    /\ Pending(Worker) => /\ at = lane[Worker].does
                          /\ at \in {"asks", "starts", "updates", "ends", "fails", "cancels"}
    /\ lane[Worker].at = "cursor" => at \in {"settles", "errs", "idles"}
    /\ lane[Worker].at # "stuck"

(* What becomes of a call changes nothing else of its message.             *)
SameBut(m, n) ==
    /\ m.role = n.role /\ m.prompt = n.prompt /\ m.text = n.text /\ m.status = n.status
    /\ DOMAIN m.calls = DOMAIN n.calls

Reports(l, t) ==
    /\ l.id \in Answers /\ t \in DOMAIN table[l.id].calls
    /\ l.at = "found" => \E m \in l.copy : l.copy = {m} /\ SameBut(m, table[l.id])

ToolOk(t) ==
    /\ lane[t].at \in {"free", "found", "written", "reserved"}
    /\ lane[t].at # "free" => /\ at = "tools" /\ lane[t].does = call[t]
                              /\ call[t] \in {"runs", "returns"} /\ Reports(lane[t], t)

PollOk ==
    /\ lane[Poll].at # "cursor"
    /\ lane[Poll].at = "stuck" => Happened("stuck")
    /\ Appends(Poll) => /\ Happened("silence") /\ lane[Poll].does \in CodeTools
                        /\ Reports(lane[Poll], lane[Poll].does)

(* The request to stop: its calls are those of a message in the table.     *)
StopOk ==
    /\ lane[Stop].at \in {"free", "found", "written", "reserved"}
    /\ lane[Stop].at # "free" => /\ stop.at = "calls" /\ lane[Stop].does \in Tools
                                 /\ Reports(lane[Stop], lane[Stop].does)
    /\ \A t \in stop.calls : Calling(t) # {}
    /\ cancelled => stop.at \in {"saves", "over"}
    /\ stop.at # "none" => Happened("stop")

(* What is on its way to the log, and only that, is in a lane.             *)
DeltaOk(w) ==
    /\ Pending(w) => Len(lane[w].deltas) > 0
    /\ lane[w].at \in {"written", "reserved"} \/ (w = Stop /\ lane[w].at = "found")
         \/ lane[w].deltas = <<>>
    /\ lane[w].at = "reserved" => lane[w].first > 0

HasCalls(m) == DOMAIN table[m].calls # {}

Ended == \/ at \in {"noted", "tools", "settles", "settled"}
         \/ at = "rest" /\ ~ cancelled
         \/ at = "ends" /\ Pending(Worker)

MessagesOk ==
    /\ \A m \in Messages : HasCalls(m) => table[m].role = "assistant" /\ table[m].status = "complete"
    /\ \A m, n \in Streaming : m = n
    /\ prompts = 1 /\ at \notin {"settles", "settled", "rest"} /\ Ended
          => \E m \in Answers : DOMAIN table[m].calls = Tools

OneAppend == ~ overlapped => \A v, w \in Lanes : Appends(v) /\ Appends(w) => v = w

LogInv ==
    /\ TypeOK /\ PlaceOk /\ MessagesOk /\ OneAppend
    /\ WorkerOk /\ PollOk /\ StopOk /\ \A t \in Tools : ToolOk(t)
    /\ IsFiniteSet(Sequences) /\ \A w \in Lanes : DeltaOk(w)

(* What a request began with.                                              *)
RowOk ==
    client.at \in {"opening", "asked"} =>
        \E r \in [status : Statuses, column : Nat] : client.row = {r}

(* Every answer is below its prompt, and every prompt but one under way    *)
(* has its answer, as long as the model breaks none off.                   *)
Asked == \E u \in Messages : table[u].role = "user" /\ table[u].prompt = prompts

Answered(p) == \E m \in Answers : table[m].prompt = p /\ table[m].text = "whole"

HasPrompt(m) == \E u \in 1 .. (m - 1) : table[u].role = "user" /\ table[u].prompt = table[m].prompt

AnswersOk ==
    ~ Happened("fault") =>
        /\ at \notin {"fails", "errs", "failed"}
        /\ Ended => Streaming = {}
        /\ \A m \in Streaming : table[m].prompt = prompts
        /\ \A p \in 1 .. prompts : p < prompts \/ Ended => Answered(p)
        /\ at \in {"starts", "updates", "ends"} \/ (at = "asks" /\ Pending(Worker)) => Asked
        /\ \A m \in Answers : HasPrompt(m)

(* Numbers are given out once; without overlaps, those on their way are    *)
(* above all that are in the log.                                          *)
NumbersOk ==
    /\ \A s \in Sequences : s < counter
    /\ {column, client.cursor, stop.column} \subseteq {0} \cup Sequences
    /\ client.at = "opening" => \A r \in client.row : r.column \in {0} \cup Sequences
    /\ \A w \in Lanes : lane[w].at \in {"cursor", "stuck"} =>
                            lane[w].first \in {0} \cup Sequences
    /\ \A w \in Lanes :
          lane[w].at = "reserved" =>
              /\ lane[w].first + Len(lane[w].deltas) <= counter
              /\ ~ overlapped => \A s \in Sequences : s < lane[w].first

(* A message is what the log says, or what is on its way to the log.       *)
About(deltas, m) == {i \in 1 .. Len(deltas) : deltas[i].id = m}

Told(w, m) == About(lane[w].deltas, m)

Fresh(w, m) == Told(w, m) # {} => lane[w].deltas[Max(Told(w, m))].is = {table[m]}

ReplayOk ==
    ~ overlapped /\ ~ Happened("cut") =>
        \A m \in Messages :
            /\ \A w \in Lanes : Fresh(w, m)
            /\ Replayed(m) = {table[m]} \/ \E w \in Lanes : Told(w, m) # {}

(* Unless something interferes, a call is silent while its prompt runs     *)
(* only.                                                                   *)
Unsettled(t) == call[t] # "over" /\ (call[t] = "returns" => ~ Pending(t))

SilentNow(t) == /\ prompts = 1 /\ Ended /\ at \notin {"settles", "settled", "rest"}
                /\ at = "tools" => Unsettled(t)

PollNow == lane[Poll].at # "free" =>
               prompts = 1 /\ (at = "noted" \/ (at = "tools" /\ call[lane[Poll].does] # "over"))

SilenceOk ==
    ~ overlapped /\ Smooth =>
        /\ \A m, n \in Messages : HasCalls(m) /\ HasCalls(n) => m = n
        /\ \A m \in Messages : HasCalls(m) => prompts > 1 \/ Ended
        /\ \A m \in Answers, t \in CodeTools : Silent(m, t) => SilentNow(t)
        /\ \A w \in Tools \cup {Poll} : lane[w].at = "found" => lane[w].copy = {table[lane[w].id]}
        /\ PollNow

(* A client that has finished, or is about to, does so after its prompt.   *)
ClientOk ==
    /\ client.at = "done" => status # "processing"
    /\ client.at \in {"opening", "asked"} =>
          \A r \in client.row : r.status # "processing" => status # "processing"
    /\ FinishedHasAll /\ NothingSkippedUnlessOverlapping

-----------------------------------------------------------------------------
(* Records                                                                 *)

LEMMA MessageFields ==
    ASSUME NEW m \in MessageStates
    PROVE  /\ m.role \in {"user", "assistant"} /\ m.prompt \in Nat
           /\ m.text \in {"none", "part", "whole"} /\ m.status \in {"streaming", "complete"}
           /\ m.calls \in CallTables
  BY DEF MessageStates

LEMMA LaneFields ==
    ASSUME NEW l \in LaneStates
    PROVE  /\ l.at \in {"free", "noticed", "found", "written", "reserved", "cursor", "stuck"}
           /\ l.does \in {"nothing", "asks", "starts", "updates", "ends", "fails", "cancels", "runs",
                           "returns"} \cup Tools
           /\ l.id \in Nat /\ l.copy \subseteq MessageStates
           /\ l.deltas \in Seq(Events) /\ Len(l.deltas) \in Nat /\ l.first \in Nat
<1>1. l.deltas \in Seq(Events) /\ l.copy \in SUBSET MessageStates
  BY DEF LaneStates
<1>2. Len(l.deltas) \in Nat
  BY <1>1
<1> QED  BY <1>1, <1>2 DEF LaneStates

LEMMA FreeLane ==
    /\ Free \in LaneStates /\ Free.at = "free" /\ Free.id = NoMessage /\ Free.copy = {}
    /\ Free.does = "nothing" /\ Free.deltas = <<>>
<1> DEFINE none == <<>>
           set  == {}
<1>1. none \in Seq(Events) /\ set \in SUBSET MessageStates /\ NoMessage \in Nat
  BY DEF NoMessage
<1>2. Free = [at |-> "free", does |-> "nothing", id |-> NoMessage, copy |-> set,
              deltas |-> none, first |-> 0]
  BY DEF Free
<1> HIDE DEF none, set
<1>3. /\ Free \in LaneStates /\ Free.at = "free" /\ Free.id = NoMessage /\ Free.copy = set
      /\ Free.does = "nothing" /\ Free.deltas = none
  BY <1>1, <1>2 DEF LaneStates
<1> QED  BY <1>3 DEF none, set

LEMMA LanesAre ==
    /\ Worker \in Lanes /\ Poll \in Lanes /\ Stop \in Lanes /\ Tools \subseteq Lanes
    /\ Worker # Poll /\ Worker # Stop /\ Poll # Stop
    /\ Worker \notin Tools /\ Poll \notin Tools /\ Stop \notin Tools /\ CodeTools \subseteq Tools
    /\ \A w \in Lanes : w = Worker \/ w = Poll \/ w = Stop \/ w \in Tools
  BY LanesApart, CodeToolsAreTools DEF Lanes, Worker, Poll, Stop

LEMMA TableIs ==
    ASSUME TypeOK
    PROVE  /\ Len(table) \in Nat /\ Messages = 1 .. Len(table) /\ Messages \subseteq Nat \ {0}
           /\ \A m \in Messages : table[m] \in MessageStates
           /\ Answers \subseteq Messages /\ Streaming \subseteq Answers
           /\ IsFiniteSet(Messages)
           /\ \A w \in Lanes : lane[w] \in LaneStates
<1>1. Len(table) \in Nat /\ Messages = 1 .. Len(table) /\ \A m \in Messages : table[m] \in MessageStates
  <2>1. table \in Seq(MessageStates)
    BY DEF TypeOK
  <2>2. Len(table) \in Nat /\ Messages = 1 .. Len(table)
    BY <2>1 DEF Messages
  <2> QED  BY <2>1, <2>2, ElementOfSeq
<1>2. Messages \subseteq Nat \ {0} /\ IsFiniteSet(Messages)
  <2>1. IsFiniteSet(1 .. Len(table))
    BY <1>1, FS_Interval
  <2> QED  BY <1>1, <2>1
<1> QED  BY <1>1, <1>2 DEF Answers, Streaming, TypeOK

LEMMA LatestMessage ==
    ASSUME TypeOK, NEW S, S \subseteq Messages
    PROVE  /\ Latest(S) \in {NoMessage} \cup S
           /\ Latest(S) = NoMessage <=> S = {}
<1>1. S \in SUBSET (Nat \ {0}) /\ IsFiniteSet(S)
  BY TableIs, FS_Subset
<1> QED  BY <1>1, LatestIs DEF NoMessage

LEMMA MishapAdds ==
    ASSUME TypeOK, NEW kind \in {"fault", "silence", "cut", "drop", "stop", "stuck"}, Mishap(kind)
    PROVE  /\ mishaps' \in Seq({"fault", "silence", "cut", "drop", "stop", "stuck"})
           /\ \A k : Happened(k)' <=> Happened(k) \/ k = kind
<1> DEFINE K == {"fault", "silence", "cut", "drop", "stop", "stuck"}
<1>1. mishaps \in Seq(K) /\ mishaps' = Append(mishaps, kind)
  BY DEF TypeOK, Mishap
<1> HIDE DEF K
<1>2. /\ mishaps' \in Seq(K) /\ Len(mishaps') = Len(mishaps) + 1 /\ Len(mishaps) \in Nat
      /\ \A i \in 1 .. Len(mishaps) : mishaps'[i] = mishaps[i]
      /\ mishaps'[Len(mishaps) + 1] = kind
  BY <1>1, AppendProperties DEF K
<1>3. ASSUME NEW k
      PROVE  Happened(k)' <=> Happened(k) \/ k = kind
  <2>1. ASSUME Happened(k)'
        PROVE  Happened(k) \/ k = kind
    <3>1. PICK i \in 1 .. Len(mishaps') : mishaps'[i] = k
      BY <2>1 DEF Happened
    <3>2. i \in 1 .. Len(mishaps) \/ i = Len(mishaps) + 1
      BY <1>2
    <3> QED  BY <1>2, <3>1, <3>2 DEF Happened
  <2>2. ASSUME Happened(k)
        PROVE  Happened(k)'
    <3>1. PICK i \in 1 .. Len(mishaps) : mishaps[i] = k
      BY <2>2 DEF Happened
    <3>2. i \in 1 .. Len(mishaps') /\ mishaps'[i] = k
      BY <1>2, <3>1
    <3> QED  BY <3>2 DEF Happened
  <2>3. ASSUME k = kind
        PROVE  Happened(k)'
    <3>1. Len(mishaps) + 1 \in 1 .. Len(mishaps') /\ mishaps'[Len(mishaps) + 1] = k
      BY <1>2, <2>3
    <3> QED  BY <3>1 DEF Happened
  <2> QED  BY <2>1, <2>2, <2>3
<1> QED  BY <1>2, <1>3 DEF K

LEMMA MishapsStay ==
    ASSUME UNCHANGED mishaps
    PROVE  \A k : Happened(k)' <=> Happened(k)
  BY DEF Happened

LEMMA TableStays ==
    ASSUME UNCHANGED table
    PROVE  /\ Messages' = Messages /\ Answers' = Answers /\ Streaming' = Streaming
           /\ \A m : HasCalls(m)' <=> HasCalls(m)
           /\ \A m, t : Silent(m, t)' <=> Silent(m, t)
           /\ \A l, t : Reports(l, t)' <=> Reports(l, t)
           /\ \A t : Calling(t)' = Calling(t)
  BY DEF Messages, Answers, Streaming, HasCalls, Silent, Reports, Calling

-----------------------------------------------------------------------------
(* What is written in a message                                            *)

LEMMA BlankIs ==
    ASSUME TypeOK
    PROVE  /\ Blank \in MessageStates /\ Blank.role = "assistant" /\ Blank.prompt = prompts
           /\ Blank.calls = NoCalls /\ Blank.status = "streaming" /\ DOMAIN NoCalls = {}
<1>1. prompts \in Nat /\ NoCalls \in CallTables /\ DOMAIN NoCalls = {}
  BY DEF TypeOK, CallTables, NoCalls
<1> QED  BY <1>1 DEF Blank, MessageStates

LEMMA MergedCalls ==
    ASSUME NEW p \in Nat, NEW calls \in CallTables
    PROVE  /\ MergeCalls(CallsOf(p), calls) \in CallTables
           /\ DOMAIN MergeCalls(CallsOf(p), calls) = IF p = 1 THEN Tools ELSE {}
<1> DEFINE K == {"queued", "running", "done", "stale", "aborted"}
<1>1. \A t \in DOMAIN calls : calls[t] \in K
  BY DEF CallTables, NoCalls
<1>2. CASE p = 1
  <2>1. DOMAIN CallsOf(p) = Tools /\ \A t \in Tools : CallsOf(p)[t] = "queued"
    BY <1>2 DEF CallsOf
  <2>2. MergeCalls(CallsOf(p), calls)
          = [t \in Tools |-> IF t \in DOMAIN calls THEN calls[t] ELSE CallsOf(p)[t]]
    BY <2>1 DEF MergeCalls
  <2>3. MergeCalls(CallsOf(p), calls) \in [Tools -> K]
    BY <1>1, <2>1, <2>2
  <2> QED  BY <1>2, <2>2, <2>3 DEF CallTables
<1>3. CASE p # 1
  <2>1. CallsOf(p) = NoCalls /\ DOMAIN NoCalls = {}
    BY <1>3 DEF CallsOf, NoCalls
  <2>2. MergeCalls(CallsOf(p), calls) = NoCalls
    BY <2>1 DEF MergeCalls, NoCalls
  <2> QED  BY <1>3, <2>1, <2>2 DEF CallTables
<1> QED  BY <1>2, <1>3

LEMMA WithTextIs ==
    ASSUME TypeOK, NEW does \in {"asks", "starts", "updates", "ends"}, NEW old \in MessageStates
    PROVE  LET new == WithText(does, old) IN
           /\ new \in MessageStates
           /\ does = "asks" => new.role = "user" /\ new.prompt = prompts /\ DOMAIN new.calls = {}
           /\ does # "asks" => new.role = old.role
           /\ does = "starts" => new.prompt = prompts /\ new.status = old.status
                                 /\ new.calls = old.calls
           /\ does \in {"updates", "ends"} => new.prompt = old.prompt
           /\ does = "updates" => new.status = old.status /\ new.calls = old.calls
           /\ does = "ends" => /\ new.status = "complete" /\ new.text = "whole"
                               /\ DOMAIN new.calls = IF prompts = 1 THEN Tools ELSE {}
<1> DEFINE merged == MergeCalls(CallsOf(prompts), old.calls)
<1>1. /\ prompts \in Nat /\ old.calls \in CallTables /\ merged \in CallTables
      /\ DOMAIN merged = IF prompts = 1 THEN Tools ELSE {}
  BY MessageFields, MergedCalls DEF TypeOK
<1>2. Blank \in MessageStates /\ Blank.prompt = prompts /\ DOMAIN Blank.calls = {}
  BY BlankIs
<1> HIDE DEF merged
<1>3. CASE does = "asks"
  <2>1. WithText(does, old) = [Blank EXCEPT !.role = "user", !.text = "whole", !.status = "complete"]
    BY <1>3 DEF WithText
  <2> QED  BY <1>2, <1>3, <2>1 DEF MessageStates
<1>4. CASE does = "starts"
  <2>1. WithText(does, old) = [old EXCEPT !.prompt = prompts, !.text = "none"]
    BY <1>4 DEF WithText
  <2> QED  BY <1>1, <1>4, <2>1 DEF MessageStates
<1>5. CASE does = "updates"
  <2>1. WithText(does, old) = [old EXCEPT !.text = "part"]
    BY <1>5 DEF WithText
  <2> QED  BY <1>1, <1>5, <2>1 DEF MessageStates
<1>6. CASE does = "ends"
  <2>1. WithText(does, old) = [old EXCEPT !.text = "whole", !.status = "complete", !.calls = merged]
    BY <1>6 DEF WithText, merged
  <2> QED  BY <1>1, <1>6, <2>1 DEF MessageStates
<1> QED  BY <1>3, <1>4, <1>5, <1>6

LEMMA WithCallIs ==
    ASSUME NEW old \in MessageStates, NEW t \in DOMAIN old.calls,
           NEW does \in {"runs", "returns", "abandons", "stops"}
    PROVE  LET new == WithCall(t, does, old) IN
           /\ new \in MessageStates /\ SameBut(new, old) /\ t \in Tools
           /\ \A u \in DOMAIN old.calls \ {t} : new.calls[u] = old.calls[u]
           /\ does # "runs" => new.calls[t] \in {"done", "stale", "aborted"}
<1> DEFINE K == {"queued", "running", "done", "stale", "aborted"}
           state == CASE does = "runs" -> "running" [] does = "returns" -> "done"
                      [] does = "abandons" -> "stale" [] does = "stops" -> "aborted"
           calls == [old.calls EXCEPT ![t] = state]
<1>1. state \in K /\ (does # "runs" => state \in {"done", "stale", "aborted"})
  OBVIOUS
<1>2. old.calls \in CallTables
  BY MessageFields
<1>3. old.calls \in [Tools -> K]
  BY <1>2 DEF CallTables, NoCalls
<1> HIDE DEF state
<1>4. /\ calls \in [Tools -> K] /\ calls[t] = state /\ DOMAIN calls = DOMAIN old.calls
      /\ \A u \in DOMAIN old.calls \ {t} : calls[u] = old.calls[u]
  BY <1>1, <1>3
<1>5. calls \in CallTables /\ t \in Tools
  BY <1>3, <1>4 DEF CallTables
<1>6. WithCall(t, does, old) = [old EXCEPT !.calls = calls]
  BY DEF WithCall, calls, state, MessageStates
<1> HIDE DEF calls, K
<1>7. /\ [old EXCEPT !.calls = calls] \in MessageStates
      /\ [old EXCEPT !.calls = calls].calls = calls
      /\ SameBut([old EXCEPT !.calls = calls], old)
  BY <1>4, <1>5 DEF MessageStates, SameBut
<1> QED  BY <1>1, <1>4, <1>5, <1>6, <1>7

-----------------------------------------------------------------------------
(* What each statement does                                                *)

Elsewhere(w) == \A v \in Lanes \ {w} : lane'[v] = lane[v]

LEMMA LaneSet ==
    ASSUME TypeOK, NEW w \in Lanes, NEW l \in LaneStates, lane' = [lane EXCEPT ![w] = l]
    PROVE  lane' \in [Lanes -> LaneStates] /\ Elsewhere(w) /\ lane'[w] = l
  BY DEF TypeOK, Elsewhere

(* Whether appends overlap is seen when one begins.                        *)
Alone(w) ==
    /\ overlapped' \in BOOLEAN
    /\ ~ overlapped' => ~ overlapped /\ \A v \in Lanes \ {w} : lane[v].at \in {"free", "stuck"}

LEMMA NoOverlap ==
    ASSUME TypeOK, NEW w \in Lanes, overlapped' = (overlapped \/ Others(w) # {})
    PROVE  Alone(w)
  BY DEF TypeOK, Others, Alone

LEMMA BeginMoves ==
    ASSUME TypeOK, NEW w \in Lanes, NEW m \in {NoMessage} \cup Messages,
           NEW does \in {"asks", "starts", "updates", "ends", "runs", "returns"} \cup Tools,
           Begin(w, does, m)
    PROVE  /\ lane' \in [Lanes -> LaneStates] /\ Elsewhere(w)
           /\ lane'[w].at = "found" /\ lane'[w].does = does /\ lane'[w].id = m
           /\ m = NoMessage => lane'[w].copy = {}
           /\ m # NoMessage => lane'[w].copy = {table[m]}
           /\ lane'[w].deltas = lane[w].deltas
           /\ Alone(w)
<1> DEFINE copy == IF m = NoMessage THEN {} ELSE {table[m]}
           l    == [lane[w] EXCEPT !.at = "found", !.does = does, !.id = m, !.copy = copy]
<1>1. copy \in SUBSET MessageStates /\ m \in Nat /\ lane[w] \in LaneStates
  <2>1. /\ \A n \in Messages : table[n] \in MessageStates /\ n \in Nat /\ n # NoMessage
        /\ lane[w] \in LaneStates /\ NoMessage \in Nat
    BY TableIs DEF NoMessage
  <2>2. CASE m = NoMessage
    BY <2>1, <2>2
  <2>3. CASE m \in Messages
    BY <2>1, <2>3
  <2> QED  BY <2>2, <2>3
<1>2. lane' = [lane EXCEPT ![w] = l]
  BY DEF Begin
<1> HIDE DEF copy
<1>3. l \in LaneStates /\ l.at = "found" /\ l.does = does /\ l.id = m /\ l.copy = copy
      /\ l.deltas = lane[w].deltas
  BY <1>1 DEF LaneStates
<1> HIDE DEF l
<1>4. lane' \in [Lanes -> LaneStates] /\ Elsewhere(w) /\ lane'[w] = l
  BY <1>2, <1>3, LaneSet
<1>5. /\ Alone(w)
  BY NoOverlap DEF Begin
<1> QED  BY <1>3, <1>4, <1>5 DEF copy

LEMMA FindsMoves ==
    ASSUME TypeOK, NEW does \in {"asks", "starts", "updates", "ends"}, WorkerFinds(does)
    PROVE  /\ at = does /\ lane[Worker].at = "free"
           /\ UNCHANGED <<table, log, counter, column, status, prompts, call, client, mishaps, stop, cancelled, late>>
           /\ \/ at = "updates" /\ at' = "ends" /\ UNCHANGED <<lane, overlapped>>
              \/ /\ UNCHANGED at
                 /\ lane' \in [Lanes -> LaneStates] /\ Elsewhere(Worker)
                 /\ lane'[Worker].at = "found" /\ Found(lane'[Worker])
                 /\ lane'[Worker].deltas = lane[Worker].deltas
                 /\ Alone(Worker)
<1> DEFINE m == Target(Worker, does)
<1>1. /\ at = does /\ lane[Worker].at = "free"
      /\ UNCHANGED <<table, log, counter, column, status, prompts, call, client, mishaps, stop, cancelled, late>>
      /\ \/ does = "updates" /\ at' = "ends" /\ UNCHANGED <<lane, overlapped>>
         \/ /\ UNCHANGED at /\ Begin(Worker, does, m)
            /\ does = "updates" => m # NoMessage
  BY DEF WorkerFinds, Keep
<1>2. /\ m \in {NoMessage} \cup Streaming
      /\ does = "asks" => m = NoMessage
      /\ does # "asks" /\ m = NoMessage => Streaming = {}
  <2>1. CASE does = "asks"
    BY <2>1 DEF Target
  <2>2. CASE does # "asks"
    <3>1. m = Latest(Streaming)
      BY <2>2 DEF Target
    <3>2. Streaming \subseteq Messages
      BY TableIs
    <3>3. /\ Latest(Streaming) \in {NoMessage} \cup Streaming
          /\ Latest(Streaming) = NoMessage <=> Streaming = {}
      BY <3>2, LatestMessage
    <3> QED  BY <2>2, <3>1, <3>3
  <2> QED  BY <2>1, <2>2
<1> HIDE DEF m
<1>3. CASE UNCHANGED at /\ Begin(Worker, does, m) /\ (does = "updates" => m # NoMessage)
  <2>1. /\ m \in {NoMessage} \cup Messages /\ Worker \in Lanes
        /\ does \in {"asks", "starts", "updates", "ends", "runs", "returns"} \cup Tools
        /\ Begin(Worker, does, m)
    BY <1>2, <1>3, TableIs, LanesAre
  <2>2. /\ lane' \in [Lanes -> LaneStates] /\ Elsewhere(Worker)
        /\ lane'[Worker].at = "found" /\ lane'[Worker].does = does /\ lane'[Worker].id = m
        /\ m = NoMessage => lane'[Worker].copy = {}
        /\ m # NoMessage => lane'[Worker].copy = {table[m]}
        /\ lane'[Worker].deltas = lane[Worker].deltas
        /\ Alone(Worker)
    BY <2>1, BeginMoves
  <2>3. Found(lane'[Worker])
    BY <1>1, <1>2, <1>3, <2>2 DEF Found
  <2> QED  BY <1>1, <1>3, <2>2, <2>3
<1> QED  BY <1>1, <1>3

LEMMA ToolFindsMoves ==
    ASSUME LogInv, NEW t \in Tools, ToolFinds(t)
    PROVE  /\ at = "tools" /\ lane[t].at = "free" /\ call[t] \in {"runs", "returns"}
           /\ UNCHANGED <<table, log, counter, column, status, prompts, at, call, client, mishaps, stop, cancelled, late>>
           /\ lane' \in [Lanes -> LaneStates] /\ Elsewhere(t)
           /\ lane'[t].at = "found" /\ lane'[t].does = call[t]
           /\ lane'[t].id \in Messages /\ lane'[t].copy = {table[lane'[t].id]}
           /\ Reports(lane'[t], t) /\ lane'[t].deltas = lane[t].deltas
           /\ Alone(t)
<1> DEFINE m == Latest(Calling(t))
<1>1. /\ at = "tools" /\ lane[t].at = "free" /\ call[t] \in {"runs", "returns"}
      /\ UNCHANGED <<table, log, counter, column, status, prompts, at, call, client, mishaps, stop, cancelled, late>>
      /\ Begin(t, call[t], m)
  BY DEF ToolFinds, Keep, Target
<1>2. TypeOK /\ t \in Lanes
  BY LanesAre DEF LogInv
<1>3. Calling(t) # {}
  <2>1. \E n \in Answers : DOMAIN table[n].calls = Tools
    BY <1>1 DEF LogInv, PlaceOk, MessagesOk, Ended
  <2> QED  BY <2>1 DEF Calling
<1>4. m \in Calling(t) /\ Calling(t) \subseteq Answers /\ Answers \subseteq Messages /\ m # NoMessage
  <2>1. Calling(t) \subseteq Answers /\ Answers \subseteq Messages /\ Messages \subseteq Nat \ {0}
    BY <1>2, TableIs DEF Calling
  <2>2. Calling(t) \subseteq Messages
    BY <2>1
  <2>3. m \in {NoMessage} \cup Calling(t) /\ (m = NoMessage <=> Calling(t) = {})
    BY <1>2, <2>2, LatestMessage
  <2> QED  BY <1>3, <2>1, <2>3
<1> HIDE DEF m
<1> DEFINE does == call[t]
<1>7. /\ does \in {"asks", "starts", "updates", "ends", "runs", "returns"} \cup Tools
      /\ m \in {NoMessage} \cup Messages /\ Begin(t, does, m)
  BY <1>1, <1>4
<1> HIDE DEF does
<1>8. /\ lane' \in [Lanes -> LaneStates] /\ Elsewhere(t)
      /\ lane'[t].at = "found" /\ lane'[t].does = does /\ lane'[t].id = m
      /\ m # NoMessage => lane'[t].copy = {table[m]}
      /\ lane'[t].deltas = lane[t].deltas
      /\ Alone(t)
  BY <1>2, <1>7, BeginMoves
<1>5. /\ lane' \in [Lanes -> LaneStates] /\ Elsewhere(t)
      /\ lane'[t].at = "found" /\ lane'[t].does = call[t] /\ lane'[t].id = m
      /\ lane'[t].copy = {table[m]} /\ lane'[t].deltas = lane[t].deltas
      /\ Alone(t)
  BY <1>4, <1>8 DEF does
<1>6. Reports(lane'[t], t)
  BY <1>4, <1>5 DEF Reports, SameBut, Calling
<1> QED  BY <1>1, <1>4, <1>5, <1>6

LEMMA NoticeMoves ==
    ASSUME TypeOK, NoticeSilence
    PROVE  /\ lane[Poll].at = "free"
           /\ UNCHANGED <<table, log, counter, column, status, prompts, at, call, client, stop, cancelled, late>>
           /\ lane' \in [Lanes -> LaneStates] /\ Elsewhere(Poll)
           /\ lane'[Poll].at = "noticed" /\ lane'[Poll].does \in CodeTools
           /\ lane'[Poll].id \in Answers /\ Silent(lane'[Poll].id, lane'[Poll].does)
           /\ Reports(lane'[Poll], lane'[Poll].does) /\ lane'[Poll].deltas = <<>>
           /\ mishaps' \in Seq({"fault", "silence", "cut", "drop", "stop", "stuck"})
           /\ \A k : Happened(k)' <=> Happened(k) \/ k = "silence"
           /\ Alone(Poll)
<1>1. PICK m \in Answers, t \in CodeTools :
          /\ Silent(m, t)
          /\ lane' = [lane EXCEPT ![Poll] = [Free EXCEPT !.at = "noticed", !.does = t, !.id = m]]
  BY DEF NoticeSilence
<1> DEFINE l == [Free EXCEPT !.at = "noticed", !.does = t, !.id = m]
<1>2. Poll \in Lanes /\ t \in Tools /\ m \in Nat
  BY LanesAre, TableIs
<1>3. l \in LaneStates /\ l.at = "noticed" /\ l.does = t /\ l.id = m /\ l.deltas = <<>>
  BY <1>2, FreeLane DEF LaneStates
<1>4. lane' \in [Lanes -> LaneStates] /\ Elsewhere(Poll) /\ lane'[Poll] = l
  BY <1>1, <1>2, <1>3, LaneSet
<1> HIDE DEF l
<1>5. Reports(l, t)
  BY <1>1, <1>3 DEF Reports, Silent
<1>6. /\ mishaps' \in Seq({"fault", "silence", "cut", "drop", "stop", "stuck"})
      /\ \A k : Happened(k)' <=> Happened(k) \/ k = "silence"
  BY MishapAdds DEF NoticeSilence
<1>7. /\ Alone(Poll)
  BY <1>2, NoOverlap DEF NoticeSilence
<1>8. /\ lane[Poll].at = "free"
      /\ UNCHANGED <<table, log, counter, column, status, prompts, at, call, client, stop, cancelled, late>>
  BY DEF NoticeSilence
<1> QED  BY <1>1, <1>3, <1>4, <1>5, <1>6, <1>7, <1>8

LEMMA PollFindsMoves ==
    ASSUME LogInv, PollFinds
    PROVE  /\ lane[Poll].at = "noticed"
           /\ UNCHANGED <<table, log, counter, column, status, prompts, at, call, client, mishaps,
                          overlapped, stop, cancelled, late>>
           /\ lane' \in [Lanes -> LaneStates] /\ Elsewhere(Poll)
           /\ lane'[Poll].at = "found" /\ lane'[Poll].does = lane[Poll].does
           /\ lane'[Poll].id = lane[Poll].id /\ lane'[Poll].copy = {table[lane[Poll].id]}
           /\ Reports(lane'[Poll], lane[Poll].does) /\ lane'[Poll].deltas = lane[Poll].deltas
<1> DEFINE copy == {table[lane[Poll].id]}
           l    == [lane[Poll] EXCEPT !.at = "found", !.copy = copy]
<1>1. TypeOK /\ Poll \in Lanes /\ lane[Poll] \in LaneStates /\ lane[Poll].at = "noticed"
  BY LanesAre, TableIs DEF LogInv, PollFinds
<1>2. Reports(lane[Poll], lane[Poll].does)
  BY <1>1 DEF LogInv, PollOk, Appends
<1>3. copy \in SUBSET MessageStates
  BY <1>1, <1>2, TableIs DEF Reports
<1>4. lane' = [lane EXCEPT ![Poll] = l]
  BY <1>1 DEF PollFinds, TypeOK
<1>5. /\ UNCHANGED <<table, log, counter, column, status, prompts, at, call, client, mishaps,
                     overlapped, stop, cancelled, late>>
  BY DEF PollFinds, Keep
<1>6. Reports([lane[Poll] EXCEPT !.at = "found", !.copy = copy], lane[Poll].does)
  BY <1>1, <1>2 DEF Reports, SameBut, LaneStates
<1> HIDE DEF copy
<1>7. /\ l \in LaneStates /\ l.at = "found" /\ l.does = lane[Poll].does /\ l.id = lane[Poll].id
      /\ l.copy = copy /\ l.deltas = lane[Poll].deltas
  BY <1>1, <1>3 DEF LaneStates
<1>8. lane' \in [Lanes -> LaneStates] /\ Elsewhere(Poll) /\ lane'[Poll] = l
  BY <1>1, <1>4, <1>7, LaneSet
<1>9. Reports(lane'[Poll], lane[Poll].does)
  BY <1>6, <1>8
<1> QED  BY <1>1, <1>5, <1>7, <1>8, <1>9 DEF copy

(* A session that is found stuck.                                          *)
LEMMA NoticeStuckMoves ==
    ASSUME TypeOK, NoticeStuck
    PROVE  /\ lane[Poll].at = "free" /\ status = "processing"
           /\ UNCHANGED <<table, log, counter, column, status, prompts, at, call, client,
                          overlapped, stop, cancelled, late>>
           /\ lane' \in [Lanes -> LaneStates] /\ Elsewhere(Poll)
           /\ lane'[Poll].at = "stuck" /\ lane'[Poll].first = column /\ lane'[Poll].deltas = <<>>
           /\ mishaps' \in Seq({"fault", "silence", "cut", "drop", "stop", "stuck"})
           /\ \A k : Happened(k)' <=> Happened(k) \/ k = "stuck"
<1> DEFINE l == [Free EXCEPT !.at = "stuck", !.first = column]
<1>1. lane' = [lane EXCEPT ![Poll] = l] /\ Poll \in Lanes /\ column \in Nat
  BY LanesAre DEF NoticeStuck, TypeOK
<1>2. l \in LaneStates /\ l.at = "stuck" /\ l.first = column /\ l.deltas = <<>>
  BY <1>1, FreeLane DEF LaneStates
<1> HIDE DEF l
<1>3. lane' \in [Lanes -> LaneStates] /\ Elsewhere(Poll) /\ lane'[Poll] = l
  BY <1>1, <1>2, LaneSet
<1>4. /\ mishaps' \in Seq({"fault", "silence", "cut", "drop", "stop", "stuck"})
      /\ \A k : Happened(k)' <=> Happened(k) \/ k = "stuck"
  BY MishapAdds DEF NoticeStuck
<1> QED  BY <1>2, <1>3, <1>4 DEF NoticeStuck

LEMMA SaveStuckMoves ==
    ASSUME TypeOK, SaveStuck
    PROVE  /\ lane[Poll].at = "stuck" /\ status' = "error"
           /\ column' = lane[Poll].first /\ column' \in Nat
           /\ UNCHANGED <<table, log, counter, prompts, at, call, client, mishaps, overlapped,
                          stop, cancelled, late>>
           /\ lane' \in [Lanes -> LaneStates] /\ Elsewhere(Poll) /\ lane'[Poll] = Free
<1>1. /\ Poll \in Lanes /\ Free \in LaneStates /\ lane[Poll] \in LaneStates
      /\ lane[Poll].first \in Nat
  BY LanesAre, FreeLane, TableIs, LaneFields
<1>2. lane' = [lane EXCEPT ![Poll] = Free]
  BY DEF SaveStuck
<1>3. lane' \in [Lanes -> LaneStates] /\ Elsewhere(Poll) /\ lane'[Poll] = Free
  BY <1>1, <1>2, LaneSet
<1> QED  BY <1>1, <1>3 DEF SaveStuck, Keep

LEMMA ReportStatusMoves ==
    ASSUME TypeOK, ReportStatus
    PROVE  /\ at \in {"fails", "cancels"} /\ lane[Worker].at = "free"
           /\ UNCHANGED <<table, log, counter, column, status, prompts, at, call, client, mishaps,
                          stop, cancelled, late>>
           /\ lane' \in [Lanes -> LaneStates] /\ Elsewhere(Worker)
           /\ lane'[Worker].at = "written" /\ lane'[Worker].does = at
           /\ lane'[Worker].id = NoMessage /\ Len(lane'[Worker].deltas) = 1
           /\ lane'[Worker].deltas[1].id = NoMessage
           /\ Alone(Worker)
<1> DEFINE d == [id |-> NoMessage, is |-> {}]
           s == <<d>>
           l == [Free EXCEPT !.at = "written", !.does = at, !.deltas = s]
<1>1. d \in Events /\ d.id = NoMessage
  BY DEF Events, NoMessage
<1>2. s \in Seq(Events) /\ Len(s) = 1 /\ s[1] = d
  BY <1>1
<1>3. /\ lane' = [lane EXCEPT ![Worker] = l] /\ Worker \in Lanes
      /\ at \in {"fails", "cancels"} /\ lane[Worker].at = "free"
      /\ UNCHANGED <<table, log, counter, column, status, prompts, at, call, client, mishaps,
                     stop, cancelled, late>>
  BY LanesAre DEF ReportStatus, Keep
<1> HIDE DEF d, s
<1>4. l \in LaneStates /\ l.at = "written" /\ l.does = at /\ l.id = NoMessage /\ l.deltas = s
  BY <1>2, <1>3, FreeLane DEF LaneStates
<1>5. lane' \in [Lanes -> LaneStates] /\ Elsewhere(Worker) /\ lane'[Worker] = l
  BY <1>3, <1>4, LaneSet
<1> HIDE DEF l
<1>6. Alone(Worker)
  BY <1>3, NoOverlap DEF ReportStatus
<1> QED  BY <1>1, <1>2, <1>3, <1>4, <1>5, <1>6

LEMMA ReserveMoves ==
    ASSUME TypeOK, NEW w \in Lanes, ReserveSequences(w)
    PROVE  /\ lane[w].at = "written"
           /\ UNCHANGED <<table, log, column, status, prompts, at, call, client, mishaps, overlapped, stop, cancelled, late>>
           /\ lane' \in [Lanes -> LaneStates] /\ Elsewhere(w)
           /\ lane'[w].at = "reserved" /\ lane'[w].does = lane[w].does /\ lane'[w].id = lane[w].id
           /\ lane'[w].copy = lane[w].copy /\ lane'[w].deltas = lane[w].deltas
           /\ lane'[w].first = counter /\ counter' = counter + Len(lane[w].deltas)
           /\ counter' \in Nat \ {0}
<1> DEFINE l == [lane[w] EXCEPT !.at = "reserved", !.first = counter]
<1>1. /\ lane[w] \in LaneStates /\ counter \in Nat \ {0} /\ Len(lane[w].deltas) \in Nat
  BY TableIs, LaneFields DEF TypeOK
<1>2. /\ lane[w].at = "written" /\ lane' = [lane EXCEPT ![w] = l]
      /\ counter' = counter + Len(lane[w].deltas)
      /\ UNCHANGED <<table, log, column, status, prompts, at, call, client, mishaps, overlapped, stop, cancelled, late>>
  BY DEF ReserveSequences, Reserved, Keep, TypeOK
<1>3. /\ l \in LaneStates /\ l.at = "reserved" /\ l.does = lane[w].does /\ l.id = lane[w].id
      /\ l.copy = lane[w].copy /\ l.deltas = lane[w].deltas /\ l.first = counter
  BY <1>1 DEF LaneStates
<1> HIDE DEF l
<1>4. lane' \in [Lanes -> LaneStates] /\ Elsewhere(w) /\ lane'[w] = l
  BY <1>2, <1>3, LaneSet
<1>5. counter' \in Nat \ {0}
  BY <1>1, <1>2
<1> QED  BY <1>2, <1>3, <1>4, <1>5

LEMMA ReadCursorMoves ==
    ASSUME TypeOK, IsFiniteSet(Sequences), ReadCursor
    PROVE  /\ at \in {"settles", "errs", "idles"} /\ lane[Worker].at = "free"
           /\ UNCHANGED <<table, log, counter, column, status, prompts, at, call, client, mishaps,
                          overlapped, stop, cancelled, late>>
           /\ lane' \in [Lanes -> LaneStates] /\ Elsewhere(Worker)
           /\ lane'[Worker].at = "cursor" /\ lane'[Worker].first \in {0} \cup Sequences
           /\ lane'[Worker].deltas = <<>>
           /\ \A s \in Sequences : s <= lane'[Worker].first
<1> DEFINE first == Latest(Sequences)
           l     == [Free EXCEPT !.at = "cursor", !.first = first]
<1>1. Sequences \in SUBSET (Nat \ {0})
  BY DEF TypeOK
<1>2. /\ first \in Nat /\ first \in {0} \cup Sequences
      /\ \A s \in Sequences : s <= first
  <2>1. first \in Nat /\ (Sequences = {} => first = 0) /\ (Sequences # {} => first \in Sequences)
    BY <1>1, LatestIs DEF NoMessage
  <2>2. \A s \in Sequences : s <= first
    BY <1>1, Greatest DEF Latest
  <2> QED  BY <2>1, <2>2
<1> HIDE DEF first
<1>3. lane' = [lane EXCEPT ![Worker] = l] /\ Worker \in Lanes
  BY LanesAre DEF ReadCursor, first
<1>4. l \in LaneStates /\ l.at = "cursor" /\ l.first = first /\ l.deltas = <<>>
  BY <1>2, FreeLane DEF LaneStates
<1> HIDE DEF l
<1>5. lane' \in [Lanes -> LaneStates] /\ Elsewhere(Worker) /\ lane'[Worker] = l
  BY <1>3, <1>4, LaneSet
<1>6. /\ at \in {"settles", "errs", "idles"} /\ lane[Worker].at = "free"
      /\ UNCHANGED <<table, log, counter, column, status, prompts, at, call, client, mishaps,
                     overlapped, stop, cancelled, late>>
  BY DEF ReadCursor, Keep
<1> QED  BY <1>2, <1>4, <1>5, <1>6

LEMMA SettleMoves ==
    ASSUME TypeOK, WorkerOk, Settle
    PROVE  /\ lane[Worker].at = "cursor"
           /\ \/ at = "settles" /\ at' = "settled"
              \/ at = "errs" /\ at' = "failed"
              \/ at = "idles" /\ at' = "rest"
           /\ status' \in {"idle", "error"} /\ column' = lane[Worker].first /\ column' \in Nat
           /\ UNCHANGED <<table, log, counter, prompts, call, client, mishaps, overlapped, stop, cancelled, late>>
           /\ lane' \in [Lanes -> LaneStates] /\ Elsewhere(Worker) /\ lane'[Worker] = Free
<1>1. /\ Worker \in Lanes /\ Free \in LaneStates /\ lane[Worker] \in LaneStates
      /\ lane[Worker].first \in Nat
  BY LanesAre, FreeLane, TableIs, LaneFields
<1>2. lane' = [lane EXCEPT ![Worker] = Free]
  BY DEF Settle
<1>3. lane' \in [Lanes -> LaneStates] /\ Elsewhere(Worker) /\ lane'[Worker] = Free
  BY <1>1, <1>2, LaneSet
<1>4. at \in {"settles", "errs", "idles"}
  BY DEF Settle, WorkerOk
<1> QED  BY <1>1, <1>3, <1>4 DEF Settle, Keep

LEMMA CutMoves ==
    ASSUME TypeOK, PlaceOk, Cut
    PROVE  /\ at # "rest" /\ lane' \in [Lanes -> LaneStates]
           /\ \A w \in {Poll, Stop} : lane'[w] = lane[w]
           /\ \A w \in Lanes \ {Poll, Stop} : lane'[w] = Free
           /\ UNCHANGED <<table, log, counter, column, status, prompts, client, overlapped,
                          stop, cancelled, late>>
           /\ mishaps' \in Seq({"fault", "silence", "cut", "drop", "stop", "stuck"})
           /\ \A k : Happened(k)' <=> Happened(k) \/ k = "cut"
           /\ at' \in {"asks", "tools", "settles", "rest"}
           /\ at' = "tools" => at = "tools"
           /\ at' = "settles" => at \in {"settles", "settled"}
           /\ at' = "rest" <=> cancelled
           /\ call' \in [Tools -> {"nothing", "runs", "returns", "over"}]
<1>1. /\ at # "rest" /\ Mishap("cut")
      /\ lane' = [w \in Lanes |-> IF w \in {Poll, Stop} THEN lane[w] ELSE Free]
      /\ at' = IF cancelled THEN "rest" ELSE FirstStepNotNoted
      /\ call' = [t \in Tools |-> IF at = "tools" THEN "runs" ELSE call[t]]
      /\ UNCHANGED <<table, log, counter, column, status, prompts, client, overlapped,
                     stop, cancelled, late>>
  BY DEF Cut
<1>2. /\ \A w \in Lanes : lane[w] \in LaneStates
      /\ Free \in LaneStates /\ Poll \in Lanes /\ Stop \in Lanes
  BY LanesAre, FreeLane, TableIs
<1>3. /\ lane' \in [Lanes -> LaneStates] /\ \A w \in {Poll, Stop} : lane'[w] = lane[w]
      /\ \A w \in Lanes \ {Poll, Stop} : lane'[w] = Free
  BY <1>1, <1>2
<1>4. /\ mishaps' \in Seq({"fault", "silence", "cut", "drop", "stop", "stuck"})
      /\ \A k : Happened(k)' <=> Happened(k) \/ k = "cut"
  BY <1>1, MishapAdds
<1>5. ASSUME ~ cancelled
      PROVE  /\ at' \in {"asks", "tools", "settles"}
             /\ at' = "tools" => at = "tools"
             /\ at' = "settles" => at \in {"settles", "settled"}
  <2>1. at \in {"asks", "starts", "updates", "ends", "noted", "tools", "settles", "settled",
                "fails", "errs", "failed"}
    BY <1>1, <1>5 DEF TypeOK, PlaceOk
  <2> QED  BY <1>1, <1>5, <2>1 DEF FirstStepNotNoted
<1>6. call' \in [Tools -> {"nothing", "runs", "returns", "over"}]
  BY <1>1 DEF TypeOK
<1> QED  BY <1>1, <1>3, <1>4, <1>5, <1>6

(* What an append writes: the deltas carry it as it stands in the table.   *)
LEMMA DeltasAre ==
    ASSUME TypeOK, NEW w \in Lanes, NEW m \in Nat, Result(w) \in MessageStates
    PROVE  /\ Deltas(w, m) \in Seq(Events) /\ Len(Deltas(w, m)) \in {1, 2}
           /\ \A i \in 1 .. Len(Deltas(w, m)) :
                 Deltas(w, m)[i].id = m /\ Deltas(w, m)[i].is = {Result(w)}
<1> DEFINE r == Result(w)
           delta == [id |-> m, is |-> {r}]
<1>1. r \in MessageStates
  OBVIOUS
<1> HIDE DEF r
<1>2. delta \in Events /\ delta.id = m /\ delta.is = {r}
  BY <1>1 DEF Events
<1>3. Deltas(w, m) = IF lane[w].does = "asks" THEN <<delta, delta>> ELSE <<delta>>
  BY DEF Deltas, r
<1> HIDE DEF delta
<1>4. /\ <<delta, delta>> \in Seq(Events) /\ <<delta>> \in Seq(Events)
      /\ Len(<<delta, delta>>) = 2 /\ Len(<<delta>>) = 1
      /\ \A i \in 1 .. 2 : <<delta, delta>>[i] = delta
      /\ \A i \in 1 .. 1 : <<delta>>[i] = delta
  BY <1>2
<1> QED  BY <1>2, <1>3, <1>4 DEF r

(* What is told of a message with the deltas a write adds.                 *)
Tells(old, new, m, r) ==
    /\ About(new, m) # {} /\ new[Max(About(new, m))].is = {r}
    /\ \A n : n # m => About(new, n) = About(old, n)
    /\ \A i \in 1 .. Len(old) : new[i] = old[i]

LEMMA TellsMore ==
    ASSUME NEW m, NEW r, NEW old \in Seq(Events), NEW ds \in Seq(Events), Len(ds) \in {1, 2},
           \A i \in 1 .. Len(ds) : ds[i].id = m /\ ds[i].is = {r}
    PROVE  Tells(old, old \o ds, m, r) /\ Len(old \o ds) > 0
<1> DEFINE new == old \o ds
           a   == Len(old)
           b   == Len(ds)
<1>1. /\ new \in Seq(Events) /\ Len(new) = a + b /\ a \in Nat
      /\ \A i \in 1 .. a + b : new[i] = IF i <= a THEN old[i] ELSE ds[i - a]
  BY ConcatProperties
<1>2. b \in Nat /\ b > 0 /\ Len(ds) = b
  <2>1. \A n \in {1, 2} : n \in Nat /\ n > 0
    OBVIOUS
  <2> QED  BY <2>1
<1>3. Len(old) = a
  OBVIOUS
<1> HIDE DEF new, a, b
<1>4. /\ \A i \in 1 .. a : new[i] = old[i] /\ i \in 1 .. a + b
      /\ \A i \in 1 .. a + b : i \notin 1 .. a => new[i].id = m /\ new[i].is = {r}
  <2>1. ASSUME NEW i \in 1 .. a + b, i \notin 1 .. a
        PROVE  i - a \in 1 .. b /\ new[i] = ds[i - a]
    BY <1>1, <1>2, <2>1
  <2> QED  BY <1>1, <1>2, <2>1
<1>5. /\ \A n : About(new, n) = {i \in 1 .. a + b : new[i].id = n}
      /\ \A n : About(old, n) = {i \in 1 .. a : old[i].id = n}
  BY <1>1, <1>3 DEF About
<1>6. ASSUME NEW n, n # m
      PROVE  About(new, n) = About(old, n)
  <2>1. \A i \in 1 .. a + b : i \notin 1 .. a => new[i].id # n
    BY <1>4, <1>6
  <2>2. \A i \in 1 .. a : new[i].id = old[i].id /\ i \in 1 .. a + b
    BY <1>4
  <2>3. \A i : i \in About(new, n) <=> i \in About(old, n)
    BY <1>5, <2>1, <2>2
  <2> QED  BY <1>5, <2>3
<1>7. a + b \in About(new, m) /\ About(new, m) \in SUBSET Nat /\ \A i \in About(new, m) : i <= a + b
  <2>1. a + b \in 1 .. a + b /\ a + b \notin 1 .. a
    BY <1>1, <1>2
  <2>2. 1 .. a + b \in SUBSET Nat /\ \A i \in 1 .. a + b : i <= a + b
    BY <1>1, <1>2
  <2>3. About(new, m) \subseteq 1 .. a + b /\ new[a + b].id = m
    BY <1>4, <1>5, <2>1
  <2> QED  BY <1>5, <2>1, <2>2, <2>3
<1>8. Max(About(new, m)) = a + b
  BY <1>7, GreatestIs
<1>9. new[a + b].is = {r} /\ a + b > 0
  <2>1. a + b \in 1 .. a + b /\ a + b \notin 1 .. a /\ a + b > 0
    BY <1>1, <1>2
  <2> QED  BY <1>4, <2>1
<1>10. Tells(old, new, m, r)
  BY <1>3, <1>4, <1>6, <1>7, <1>8, <1>9 DEF Tells
<1> QED  BY <1>1, <1>9, <1>10 DEF new

(* A message is written, with the others a stop has called.                *)
Writes(w) == IF w = Stop THEN StopWrites ELSE WriteMessage(w)

StopStates == [at : {"none", "reads", "calls", "looks", "cancels", "saves", "over"},
               column : Nat, calls : SUBSET Tools]

StopGoesOn ==
    /\ stop' \in StopStates /\ stop'.at = stop.at /\ stop'.column = stop.column
    /\ stop'.calls \subseteq stop.calls

LEMMA WriteMoves ==
    ASSUME LogInv, NEW w \in Lanes, Writes(w), NEW r, r = Result(w), r \in MessageStates,
           lane[w].id \in Messages \/ (lane[w].id = NoMessage /\ w # Stop)
    PROVE  LET m == lane'[w].id IN
           /\ lane[w].at = "found"
           /\ UNCHANGED <<log, counter, column, status, prompts, at, call, client, mishaps, overlapped,
                          cancelled, late>>
           /\ StopGoesOn
           /\ lane' \in [Lanes -> LaneStates] /\ Elsewhere(w)
           /\ lane'[w].at = "written" /\ lane'[w].does = lane[w].does
           /\ Len(lane'[w].deltas) > 0 /\ Tells(lane[w].deltas, lane'[w].deltas, m, r)
           /\ lane[w].id = NoMessage => m = Len(table) + 1 /\ m \notin Messages
           /\ lane[w].id # NoMessage => m = lane[w].id
           /\ table' \in Seq(MessageStates) /\ m \in Nat \ {0}
           /\ Messages' = Messages \cup {m} /\ table'[m] = r
           /\ \A n \in Messages \ {m} : table'[n] = table[n]
<1> DEFINE m   == IF lane[w].id = NoMessage THEN Len(table) + 1 ELSE lane[w].id
           old == lane[w].deltas
           ds  == Deltas(w, m)
           all == old \o ds
           l   == [lane[w] EXCEPT !.at = "written", !.id = m, !.deltas = all]
<1>1. /\ TypeOK /\ lane[w] \in LaneStates /\ table \in Seq(MessageStates) /\ DeltaOk(w)
      /\ Len(table) \in Nat /\ Messages = 1 .. Len(table) /\ old \in Seq(Events)
      /\ stop \in StopStates
  BY TableIs, LaneFields DEF LogInv, TypeOK, StopStates
<1>2. /\ m \in Nat \ {0}
      /\ lane[w].id = NoMessage => m = Len(table) + 1 /\ m \notin Messages
      /\ lane[w].id # NoMessage => m = lane[w].id /\ m \in Messages
  BY <1>1 DEF NoMessage
<1>4. ds \in Seq(Events) /\ Len(ds) \in {1, 2} /\ \A i \in 1 .. Len(ds) : ds[i].id = m /\ ds[i].is = {r}
  <2>1. m \in Nat
    BY <1>2
  <2> HIDE DEF m
  <2>2. /\ ds \in Seq(Events) /\ Len(ds) \in {1, 2}
        /\ \A i \in 1 .. Len(ds) : ds[i].id = m /\ ds[i].is = {Result(w)}
    BY <1>1, <2>1, DeltasAre
  <2> QED  BY <2>2
<1>3. /\ lane[w].at = "found"
      /\ table' = IF m > Len(table) THEN Append(table, r) ELSE [table EXCEPT ![m] = r]
      /\ UNCHANGED <<log, counter, column, status, prompts, at, call, client, mishaps, overlapped,
                     cancelled, late>>
      /\ lane' = [lane EXCEPT ![w] = l]
      /\ StopGoesOn
  <2>1. CASE w = Stop
    <3>1. StopWrites
      BY <2>1 DEF Writes
    <3>2. lane[Stop].id \in Messages /\ m = lane[Stop].id /\ ~ (m > Len(table))
      <4>1. lane[Stop].id \in Messages /\ lane[Stop].id # NoMessage /\ lane[Stop].id \in 1 .. Len(table)
        BY <1>1, <2>1 DEF NoMessage
      <4>2. m = lane[Stop].id
        BY <1>2, <2>1, <4>1
      <4> HIDE DEF m
      <4> QED  BY <1>1, <4>1, <4>2
    <3>3. /\ lane[Stop].at = "found" /\ table' = [table EXCEPT ![m] = r]
          /\ lane' = [lane EXCEPT ![Stop].at = "written", ![Stop].deltas = @ \o Deltas(Stop, m)]
          /\ UNCHANGED <<log, counter, column, status, prompts, at, call, cancelled, overlapped, late,
                         client, mishaps>>
      <4> HIDE DEF m
      <4> QED  BY <2>1, <3>1, <3>2 DEF StopWrites
    <3>4. stop' = [stop EXCEPT !.calls = @ \ {lane[Stop].does}]
      BY <3>1 DEF StopWrites
    <3>5. StopGoesOn
      BY <1>1, <3>4 DEF StopGoesOn, StopStates
    <3>6. lane' = [lane EXCEPT ![Stop] = [lane[Stop] EXCEPT !.at = "written", !.deltas = all]]
      <4>1. all = lane[Stop].deltas \o Deltas(Stop, m)
        BY <2>1
      <4> HIDE DEF all, m
      <4> QED  BY <1>1, <2>1, <3>3, <4>1 DEF TypeOK
    <3>7. [lane[Stop] EXCEPT !.at = "written", !.deltas = all] = l
      <4> HIDE DEF all
      <4> QED  BY <1>1, <2>1, <3>2 DEF LaneStates
    <3> QED  BY <2>1, <3>2, <3>3, <3>5, <3>6, <3>7
  <2>2. CASE w # Stop
    <3>1. WriteMessage(w)
      BY <2>2 DEF Writes
    <3>2. old = <<>> /\ all = ds
      <4>1. lane[w].at = "found"
        BY <3>1 DEF WriteMessage
      <4>2. old = <<>>
        BY <1>1, <2>2, <4>1 DEF DeltaOk
      <4> HIDE DEF ds, old
      <4> QED  BY <1>4, <4>2
    <3>3. StopGoesOn
      BY <1>1, <3>1 DEF WriteMessage, Keep, StopGoesOn
    <3>4. /\ lane[w].at = "found"
          /\ table' = IF m > Len(table) THEN Append(table, r) ELSE [table EXCEPT ![m] = r]
          /\ UNCHANGED <<log, counter, column, status, prompts, at, call, client, mishaps, overlapped,
                         cancelled, late>>
          /\ lane' = [lane EXCEPT ![w] = [lane[w] EXCEPT !.at = "written", !.id = m, !.deltas = ds]]
      BY <1>1, <3>1 DEF WriteMessage, Keep, TypeOK
    <3> QED  BY <3>2, <3>3, <3>4
  <2> QED  BY <2>1, <2>2
<1> HIDE DEF m, ds
<1>5. all \in Seq(Events)
  BY <1>1, <1>4
<1> HIDE DEF all
<1>6. l \in LaneStates /\ l.at = "written" /\ l.does = lane[w].does /\ l.id = m /\ l.deltas = all
  BY <1>1, <1>2, <1>5 DEF LaneStates
<1> HIDE DEF l
<1>7. lane' \in [Lanes -> LaneStates] /\ Elsewhere(w) /\ lane'[w] = l
  BY <1>1, <1>3, <1>6, LaneSet
<1>8. Tells(lane[w].deltas, lane'[w].deltas, m, r) /\ Len(lane'[w].deltas) > 0
  <2>1. lane'[w].deltas = old \o ds
    BY <1>6, <1>7 DEF all
  <2>2. lane[w].deltas = old
    OBVIOUS
  <2> HIDE DEF old
  <2>3. Tells(old, old \o ds, m, r) /\ Len(old \o ds) > 0
    BY <1>1, <1>4, TellsMore
  <2> QED  BY <2>1, <2>2, <2>3
<1>9. /\ table' \in Seq(MessageStates) /\ Messages' = Messages \cup {m} /\ table'[m] = r
      /\ \A n \in Messages \ {m} : table'[n] = table[n]
  <2>1. CASE lane[w].id = NoMessage
    <3>1. m = Len(table) + 1 /\ m > Len(table)
      BY <1>1, <1>2, <2>1
    <3>2. table' = Append(table, r)
      BY <1>3, <3>1
    <3>3. /\ table' \in Seq(MessageStates) /\ Len(table') = Len(table) + 1
          /\ \A n \in 1 .. Len(table) : table'[n] = table[n]
          /\ table'[Len(table) + 1] = r
      BY <1>1, <3>2, AppendProperties
    <3>4. Messages' = 1 .. Len(table) + 1
      BY <1>1, <3>3 DEF Messages
    <3>5. 1 .. Len(table) + 1 = (1 .. Len(table)) \cup {Len(table) + 1}
      BY <1>1
    <3> QED  BY <1>1, <3>1, <3>3, <3>4, <3>5
  <2>2. CASE lane[w].id # NoMessage
    <3>1. m \in Messages /\ ~ (m > Len(table))
      BY <1>1, <1>2, <2>2
    <3>2. table' = [table EXCEPT ![m] = r]
      BY <1>3, <3>1
    <3>3. /\ table' \in Seq(MessageStates) /\ Len(table') = Len(table)
          /\ table'[m] = r /\ \A n \in Messages \ {m} : table'[n] = table[n]
      BY <1>1, <3>1, <3>2
    <3>4. Messages' = 1 .. Len(table)
      BY <3>3 DEF Messages
    <3> QED  BY <1>1, <3>1, <3>3, <3>4
  <2> QED  BY <2>1, <2>2
<1> QED  BY <1>2, <1>3, <1>6, <1>7, <1>8, <1>9

(* The worker's message, and what has become of it.                        *)
LEMMA WorkerWrites ==
    ASSUME LogInv, WriteMessage(Worker)
    PROVE  LET m == lane'[Worker].id
               new == table'[m]
           IN
           /\ lane[Worker].at = "found" /\ lane[Worker].does = at
           /\ UNCHANGED <<log, counter, column, status, prompts, at, call, client, mishaps, overlapped,
                          cancelled, late>>
           /\ StopGoesOn
           /\ lane' \in [Lanes -> LaneStates] /\ Elsewhere(Worker)
           /\ lane'[Worker].at = "written" /\ lane'[Worker].does = at
           /\ Len(lane'[Worker].deltas) > 0 /\ Tells(lane[Worker].deltas, lane'[Worker].deltas, m, new)
           /\ table' \in Seq(MessageStates) /\ m \in Nat \ {0}
           /\ Messages' = Messages \cup {m}
           /\ \A n \in Messages \ {m} : table'[n] = table[n]
           /\ at \in {"asks", "starts", "updates", "ends"}
           /\ m \in Messages => at # "asks" /\ m \in Streaming /\ new.role = "assistant"
           /\ m \notin Messages => /\ m = Len(table) + 1 /\ at # "updates" /\ new.prompt = prompts
                                   /\ at # "asks" => Streaming = {} /\ new.role = "assistant"
           /\ at = "asks" => new.role = "user" /\ new.prompt = prompts /\ DOMAIN new.calls = {}
           /\ at = "starts" => /\ new.status = "streaming" /\ new.prompt = prompts
                               /\ DOMAIN new.calls = IF m \in Messages THEN DOMAIN table[m].calls ELSE {}
           /\ at = "updates" => /\ new.status = "streaming" /\ new.prompt = table[m].prompt
                                /\ DOMAIN new.calls = DOMAIN table[m].calls
           /\ at = "ends" => /\ new.status = "complete" /\ new.text = "whole"
                             /\ DOMAIN new.calls = IF prompts = 1 THEN Tools ELSE {}
                             /\ m \in Messages => new.prompt = table[m].prompt
<1> DEFINE l   == lane[Worker]
           old == IF l.copy = {} THEN Blank ELSE CHOOSE x \in l.copy : TRUE
           r   == WithText(l.does, old)
<1>1. TypeOK /\ Worker \in Lanes /\ l.at = "found" /\ Worker # Stop /\ Writes(Worker)
  BY LanesAre DEF LogInv, WriteMessage, Writes
<1>2. /\ at = l.does /\ at \in {"asks", "starts", "updates", "ends"}
      /\ l.id = NoMessage => l.copy = {} /\ at # "updates" /\ (at # "asks" => Streaming = {})
      /\ l.id # NoMessage => l.id \in Streaming /\ l.copy = {table[l.id]} /\ at # "asks"
  BY <1>1 DEF LogInv, WorkerOk, Found
<1>3. /\ Streaming \subseteq Messages /\ NoMessage \notin Messages
      /\ \A n \in Messages : table[n] \in MessageStates
      /\ \A n \in Streaming : table[n].role = "assistant" /\ table[n].status = "streaming"
  <2>1. /\ Answers \subseteq Messages /\ Streaming \subseteq Answers /\ Messages \subseteq Nat \ {0}
        /\ \A n \in Messages : table[n] \in MessageStates
    BY <1>1, TableIs
  <2>2. \A n \in Streaming : table[n].role = "assistant" /\ table[n].status = "streaming"
    BY DEF Streaming, Answers
  <2> QED  BY <2>1, <2>2 DEF NoMessage
<1>4. /\ Blank \in MessageStates /\ Blank.role = "assistant" /\ Blank.prompt = prompts
      /\ Blank.status = "streaming" /\ DOMAIN Blank.calls = {}
  BY <1>1, BlankIs
<1>5. /\ old \in MessageStates
      /\ l.id = NoMessage => old = Blank
      /\ l.id # NoMessage => old = table[l.id]
  BY <1>2, <1>3, <1>4
<1>6. Result(Worker) = r
  BY DEF Result
<1> HIDE DEF old
<1>7. /\ r \in MessageStates
      /\ at = "asks" => r.role = "user" /\ r.prompt = prompts /\ DOMAIN r.calls = {}
      /\ at # "asks" => r.role = old.role
      /\ at = "starts" => r.prompt = prompts /\ r.status = old.status /\ r.calls = old.calls
      /\ at \in {"updates", "ends"} => r.prompt = old.prompt
      /\ at = "updates" => r.status = old.status /\ r.calls = old.calls
      /\ at = "ends" => /\ r.status = "complete" /\ r.text = "whole"
                        /\ DOMAIN r.calls = IF prompts = 1 THEN Tools ELSE {}
  <2>1. l.does \in {"asks", "starts", "updates", "ends"} /\ l.does = at
    BY <1>2
  <2> HIDE DEF l
  <2> QED  BY <1>1, <1>5, <2>1, WithTextIs
<1> HIDE DEF r
<1> DEFINE m == lane'[Worker].id
<1>8. /\ lane[Worker].at = "found"
      /\ UNCHANGED <<log, counter, column, status, prompts, at, call, client, mishaps, overlapped,
                          cancelled, late>>
           /\ StopGoesOn
      /\ lane' \in [Lanes -> LaneStates] /\ Elsewhere(Worker)
      /\ lane'[Worker].at = "written" /\ lane'[Worker].does = lane[Worker].does
      /\ Len(lane'[Worker].deltas) > 0 /\ Tells(lane[Worker].deltas, lane'[Worker].deltas, m, r)
      /\ lane[Worker].id = NoMessage => m = Len(table) + 1 /\ m \notin Messages
      /\ lane[Worker].id # NoMessage => m = lane[Worker].id
      /\ table' \in Seq(MessageStates) /\ m \in Nat \ {0}
      /\ Messages' = Messages \cup {m} /\ table'[m] = r
      /\ \A n \in Messages \ {m} : table'[n] = table[n]
  <2>1. lane[Worker].id \in Messages \/ lane[Worker].id = NoMessage
    BY <1>2, <1>3
  <2> QED  BY <1>1, <1>6, <1>7, <2>1, WriteMoves
<1> HIDE DEF m
<1>9. /\ m \in Messages => l.id # NoMessage /\ m = l.id /\ old = table[m] /\ m \in Streaming /\ at # "asks"
      /\ m \notin Messages => /\ l.id = NoMessage /\ old = Blank /\ m = Len(table) + 1
                              /\ at # "updates" /\ (at # "asks" => Streaming = {})
  BY <1>2, <1>3, <1>5, <1>8
<1>10. /\ m \in Messages => r.role = "assistant"
       /\ m \notin Messages => r.prompt = prompts /\ (at # "asks" => r.role = "assistant")
       /\ at = "starts" => /\ r.status = "streaming"
                           /\ DOMAIN r.calls = IF m \in Messages THEN DOMAIN table[m].calls ELSE {}
       /\ at = "updates" => /\ r.status = "streaming" /\ r.prompt = table[m].prompt
                            /\ DOMAIN r.calls = DOMAIN table[m].calls
       /\ at = "ends" /\ m \in Messages => r.prompt = table[m].prompt
  BY <1>2, <1>3, <1>4, <1>7, <1>9
<1> QED  BY <1>2, <1>7, <1>8, <1>9, <1>10 DEF m

(* What a tool, the poll or the stop makes of its call.                    *)
Reported(w) == IF w \in {Poll, Stop} THEN lane[w].does ELSE w

LEMMA ReporterWrites ==
    ASSUME LogInv, NEW w \in Lanes, w # Worker, Writes(w)
    PROVE  LET m   == lane[w].id
               new == table'[m]
               t   == Reported(w)
           IN
           /\ lane[w].at = "found"
           /\ UNCHANGED <<log, counter, column, status, prompts, at, call, client, mishaps, overlapped,
                          cancelled, late>>
           /\ StopGoesOn
           /\ lane' \in [Lanes -> LaneStates] /\ Elsewhere(w)
           /\ lane'[w].at = "written" /\ lane'[w].does = lane[w].does /\ lane'[w].id = m
           /\ Len(lane'[w].deltas) > 0 /\ Tells(lane[w].deltas, lane'[w].deltas, m, new)
           /\ table' \in Seq(MessageStates) /\ m \in Answers /\ Messages' = Messages
           /\ \A n \in Messages \ {m} : table'[n] = table[n]
           /\ SameBut(new, table[m]) /\ t \in Tools /\ t \in DOMAIN table[m].calls
           /\ \E old \in lane[w].copy :
                 /\ lane[w].copy = {old}
                 /\ \A u \in DOMAIN old.calls \ {t} : new.calls[u] = old.calls[u]
           /\ w \in {Poll, Stop} \/ lane[w].does # "runs" => new.calls[t] \in {"done", "stale", "aborted"}
<1> DEFINE l == lane[w]
           t == Reported(w)
<1>1. /\ TypeOK /\ l.at = "found" /\ l \in LaneStates /\ (w = Poll \/ w = Stop \/ w \in Tools)
      /\ Poll \notin Tools /\ Stop \notin Tools /\ Answers \subseteq Messages /\ NoMessage \notin Messages
      /\ \A m \in Messages : table[m] \in MessageStates
  <2>1. TypeOK /\ l.at = "found"
    BY DEF LogInv, Writes, WriteMessage, StopWrites
  <2>2. l \in LaneStates /\ Answers \subseteq Messages /\ Messages \subseteq Nat \ {0}
        /\ \A m \in Messages : table[m] \in MessageStates
    BY <2>1, TableIs
  <2> QED  BY <2>1, <2>2, LanesAre DEF NoMessage
<1>2. /\ t \in Tools /\ Reports(l, t)
      /\ w \in Tools => l.does \in {"runs", "returns"}
  <2>1. CASE w = Poll
    <3>1. l.does \in CodeTools /\ Reports(l, l.does) /\ t = l.does
      BY <1>1, <2>1 DEF LogInv, PollOk, Appends, Reported
    <3> QED  BY <1>1, <2>1, <3>1, CodeToolsAreTools
  <2>3. CASE w = Stop
    <3>1. l.does \in Tools /\ Reports(l, l.does) /\ t = l.does
      BY <1>1, <2>3 DEF LogInv, StopOk, Reported
    <3> QED  BY <1>1, <2>3, <3>1
  <2>2. CASE w \in Tools
    <3>1. w \in Tools /\ t = w
      BY <1>1, <2>2 DEF Reported
    <3>2. ToolOk(w)
      BY <3>1 DEF LogInv
    <3> QED  BY <1>1, <3>1, <3>2 DEF ToolOk
  <2> QED  BY <1>1, <2>1, <2>2, <2>3
<1>3. /\ l.id \in Answers /\ t \in DOMAIN table[l.id].calls
      /\ \E m \in l.copy : l.copy = {m} /\ SameBut(m, table[l.id])
  BY <1>1, <1>2 DEF Reports
<1>4. PICK old \in l.copy : l.copy = {old} /\ SameBut(old, table[l.id])
  BY <1>3
<1>5. /\ old \in MessageStates /\ t \in DOMAIN old.calls
      /\ (CHOOSE m \in l.copy : TRUE) = old
  <2>1. old \in MessageStates
    BY <1>1, <1>4, LaneFields
  <2> QED  BY <1>3, <1>4, <2>1 DEF SameBut
<1> DEFINE does == IF w = Poll THEN "abandons" ELSE IF w = Stop THEN "stops" ELSE l.does
           r    == WithCall(t, does, old)
<1>6. Result(w) = r
  BY <1>1, <1>5, LanesAre DEF Result, Reported
<1>7. does \in {"runs", "returns", "abandons", "stops"}
      /\ (w \in {Poll, Stop} \/ l.does # "runs" => does # "runs")
  BY <1>1, <1>2
<1> HIDE DEF does
<1>8. /\ r \in MessageStates /\ SameBut(r, old)
      /\ \A u \in DOMAIN old.calls \ {t} : r.calls[u] = old.calls[u]
      /\ does # "runs" => r.calls[t] \in {"done", "stale", "aborted"}
  BY <1>5, <1>7, WithCallIs
<1> HIDE DEF r, t
<1>9. SameBut(r, table[l.id])
  BY <1>4, <1>8 DEF SameBut
<1> DEFINE m == lane'[w].id
<1>10. /\ UNCHANGED <<log, counter, column, status, prompts, at, call, client, mishaps, overlapped,
                          cancelled, late>>
           /\ StopGoesOn
       /\ lane' \in [Lanes -> LaneStates] /\ Elsewhere(w)
       /\ lane'[w].at = "written" /\ lane'[w].does = lane[w].does
       /\ Len(lane'[w].deltas) > 0 /\ Tells(lane[w].deltas, lane'[w].deltas, m, r)
       /\ lane[w].id # NoMessage => m = lane[w].id
       /\ table' \in Seq(MessageStates) /\ m \in Nat \ {0}
       /\ Messages' = Messages \cup {m} /\ table'[m] = r
       /\ \A n \in Messages \ {m} : table'[n] = table[n]
  <2>1. lane[w].id \in Messages
    BY <1>1, <1>3
  <2> QED  BY <1>6, <1>8, <2>1, WriteMoves
<1>11. m = l.id /\ l.id \in Messages
  BY <1>1, <1>3, <1>10
<1> QED  BY <1>1, <1>2, <1>3, <1>4, <1>7, <1>8, <1>9, <1>10, <1>11 DEF t

(* Of the messages, a report changes nothing but the state of a call.      *)
LEMMA ReporterKeeps ==
    ASSUME LogInv, NEW w \in Lanes, w # Worker, Writes(w)
    PROVE  /\ Messages' = Messages /\ Answers' = Answers /\ Streaming' = Streaming
           /\ \A n \in Messages : SameBut(table'[n], table[n])
           /\ \A n \in Streaming : n # lane[w].id => table'[n] = table[n]
<1>1. /\ Messages' = Messages /\ lane[w].id \in Answers
      /\ \A n \in Messages \ {lane[w].id} : table'[n] = table[n]
      /\ SameBut(table'[lane[w].id], table[lane[w].id])
  BY ReporterWrites
<1>2. \A n \in Messages : SameBut(table'[n], table[n])
  <2>1. ASSUME NEW n \in Messages
        PROVE  SameBut(table'[n], table[n])
    <3>1. CASE n = lane[w].id
      BY <1>1, <3>1
    <3>2. CASE n # lane[w].id
      BY <1>1, <3>2 DEF SameBut
    <3> QED  BY <3>1, <3>2
  <2> QED  BY <2>1
<1>3. Answers' = Answers
  BY <1>1, <1>2 DEF Answers, SameBut
<1>4. Streaming' = Streaming /\ Streaming \subseteq Messages
  BY <1>2, <1>3 DEF Streaming, Answers, SameBut
<1> QED  BY <1>1, <1>2, <1>3, <1>4

-----------------------------------------------------------------------------

New(w) == lane[w].first .. (lane[w].first + Len(lane[w].deltas) - 1)

LEMMA InsertMoves ==
    ASSUME LogInv, NEW w \in Lanes, InsertEvents(w)
    PROVE  /\ lane[w].at = "reserved"
           /\ UNCHANGED <<table, counter, status, prompts, client, mishaps, overlapped, stop, cancelled>>
           /\ late' = (late \/ status # "processing")
           /\ lane' \in [Lanes -> LaneStates] /\ Elsewhere(w) /\ lane'[w] = Free
           /\ New(w) \subseteq Nat \ {0} /\ New(w) # {} /\ IsFiniteSet(New(w))
           /\ Sequences' = Sequences \cup New(w)
           /\ \A s \in Sequences \ New(w) : log'[s] = log[s]
           /\ \A s \in New(w) : /\ log'[s] \in Events
                                /\ \E i \in 1 .. Len(lane[w].deltas) : log'[s] = lane[w].deltas[i]
           /\ column' \in New(w) /\ \A s \in New(w) : s <= column'
           /\ w = Worker => \/ at = "asks" /\ at' = "starts"
                            \/ at = "starts" /\ at' = "updates"
                            \/ at = "updates" /\ at' = "ends"
                            \/ at = "ends" /\ at' = "noted"
                            \/ at = "fails" /\ at' = "errs"
                            \/ at = "cancels" /\ at' = "idles"
           /\ w # Worker => at' = at
           /\ w \notin Tools => call' = call
           /\ w \in Tools => call' = [call EXCEPT ![w] = IF @ = "runs" THEN "returns" ELSE "over"]
<1> DEFINE l     == lane[w]
           n     == Len(l.deltas)
           first == l.first
           last  == first + n - 1
<1>1. /\ l.at = "reserved"
      /\ log' = [s \in Sequences \cup first .. last |->
                    IF s \in first .. last THEN l.deltas[s - first + 1] ELSE log[s]]
      /\ column' = last
      /\ lane' = [lane EXCEPT ![w] = Free]
      /\ at' = IF w = Worker THEN AfterReport(l.does) ELSE at
      /\ call' = IF w \in Tools
                 THEN [call EXCEPT ![w] = IF @ = "runs" THEN "returns" ELSE "over"]
                 ELSE call
      /\ UNCHANGED <<table, counter, status, prompts, client, mishaps, overlapped, stop, cancelled>>
           /\ late' = (late \/ status # "processing")
  BY DEF InsertEvents, Keep
<1>2. /\ TypeOK /\ l \in LaneStates /\ l.deltas \in Seq(Events) /\ n \in Nat /\ first \in Nat
      /\ n > 0 /\ first > 0
  <2>1. TypeOK /\ DeltaOk(w) /\ Pending(w)
    BY <1>1 DEF LogInv, Pending
  <2>2. l \in LaneStates /\ l.deltas \in Seq(Events) /\ n \in Nat /\ first \in Nat
    BY <2>1, TableIs, LaneFields
  <2> QED  BY <1>1, <2>1, <2>2 DEF DeltaOk
<1>3. lane' \in [Lanes -> LaneStates] /\ Elsewhere(w) /\ lane'[w] = Free
  BY <1>1, <1>2, FreeLane, LaneSet
<1>4. New(w) = first .. last
  BY DEF New
<1>5. \A i \in 1 .. n : l.deltas[i] \in Events
  BY <1>2, ElementOfSeq
<1> HIDE DEF n, l, first
<1>6. /\ first .. last \subseteq Nat \ {0} /\ last \in first .. last
      /\ \A s \in first .. last : s <= last /\ s - first + 1 \in 1 .. n
  BY <1>2
<1>7. IsFiniteSet(first .. last)
  BY <1>2, <1>6, FS_Interval
<1>8. /\ Sequences' = Sequences \cup (first .. last)
      /\ \A s \in Sequences \ (first .. last) : log'[s] = log[s]
      /\ \A s \in first .. last : log'[s] = l.deltas[s - first + 1]
  BY <1>1 DEF Sequences
<1> HIDE DEF last
<1>9. \A s \in first .. last : /\ log'[s] \in Events
                               /\ \E i \in 1 .. n : log'[s] = l.deltas[i]
  BY <1>5, <1>6, <1>8
<1>10. ASSUME w = Worker
       PROVE  \/ at = "asks" /\ at' = "starts"
              \/ at = "starts" /\ at' = "updates"
              \/ at = "updates" /\ at' = "ends"
              \/ at = "ends" /\ at' = "noted"
              \/ at = "fails" /\ at' = "errs"
              \/ at = "cancels" /\ at' = "idles"
  <2>1. at = l.does /\ at \in {"asks", "starts", "updates", "ends", "fails", "cancels"}
    BY <1>1, <1>10 DEF LogInv, WorkerOk, Pending, l
  <2> QED  BY <1>1, <1>10, <2>1 DEF AfterReport
<1> QED  BY <1>1, <1>3, <1>4, <1>6, <1>7, <1>8, <1>9, <1>10 DEF n, l

-----------------------------------------------------------------------------
(* The inductive invariant is kept *)

LEMMA InitLog == Init => LogInv
<1> SUFFICES ASSUME Init
             PROVE  LogInv
  OBVIOUS
<1>1. /\ table = <<>> /\ log = <<>> /\ counter = 1 /\ column = 0
      /\ status = "idle" /\ prompts = 0 /\ at = "rest"
      /\ call = [t \in Tools |-> "nothing"] /\ lane = [w \in Lanes |-> Free]
      /\ client = [at |-> "off", row |-> {}, cursor |-> 0, oldest |-> 1, got |-> {}]
      /\ mishaps = <<>> /\ overlapped = FALSE /\ late = FALSE /\ cancelled = FALSE
      /\ stop = [at |-> "none", column |-> 0, calls |-> {}]
  BY DEF Init
<1>2. /\ Messages = {} /\ Answers = {} /\ Streaming = {} /\ Sequences = {}
  BY <1>1 DEF Messages, Answers, Streaming, Sequences
<1>3. /\ lane \in [Lanes -> LaneStates] /\ \A w \in Lanes : lane[w] = Free /\ lane[w].at = "free"
      /\ Worker \in Lanes /\ Poll \in Lanes /\ Stop \in Lanes /\ Tools \subseteq Lanes
  BY <1>1, FreeLane, LanesAre
<1>4. TypeOK
  <2>1. client \in ClientStates
    BY <1>1 DEF ClientStates
  <2>2. table \in Seq(MessageStates) /\ mishaps \in Seq({"fault", "silence", "cut", "drop", "stop", "stuck"})
    BY <1>1
  <2>3. call \in [Tools -> {"nothing", "runs", "returns", "over"}]
    BY <1>1
  <2>4. /\ counter \in Nat \ {0} /\ column \in Nat /\ status \in Statuses /\ prompts \in Nat
    BY <1>1 DEF Statuses
  <2>6. overlapped \in BOOLEAN /\ late \in BOOLEAN /\ cancelled \in BOOLEAN
    BY <1>1
  <2>5. /\ Sequences \subseteq Nat \ {0} /\ \A s \in Sequences : log[s] \in Events
    BY <1>2
  <2>7. stop \in StopStates
    BY <1>1 DEF StopStates
  <2> QED  BY <1>1, <1>3, <2>1, <2>2, <2>3, <2>4, <2>5, <2>6, <2>7 DEF TypeOK, StopStates
<1>5. PlaceOk /\ MessagesOk
  BY <1>1, <1>2, <1>3 DEF PlaceOk, MessagesOk
<1>6. OneAppend /\ WorkerOk /\ PollOk /\ (\A t \in Tools : ToolOk(t)) /\ (\A w \in Lanes : DeltaOk(w))
  BY <1>3, FreeLane DEF OneAppend, Appends, WorkerOk, Pending, PollOk, ToolOk, DeltaOk
<1>7. StopOk
  BY <1>1, <1>3 DEF StopOk
<1> QED  BY <1>2, <1>4, <1>5, <1>6, <1>7, FS_EmptySet DEF LogInv

LEMMA OneAppendKept ==
    ASSUME LogInv, NEW w \in Lanes, Elsewhere(w),
           Alone(w) \/ (overlapped' = overlapped /\ (Appends(w)' => Appends(w)))
    PROVE  OneAppend'
<1> SUFFICES ASSUME ~ overlapped', NEW v \in Lanes, NEW u \in Lanes, Appends(v)', Appends(u)'
             PROVE  v = u
  BY DEF OneAppend
<1>1. ~ overlapped => \A x, y \in Lanes : Appends(x) /\ Appends(y) => x = y
  BY DEF LogInv, OneAppend
<1>2. \A x \in Lanes \ {w} : Appends(x)' => Appends(x)
  BY DEF Elsewhere, Appends
<1>3. CASE Alone(w)
  <2>1. \A x \in Lanes \ {w} : ~ Appends(x)
    BY <1>3 DEF Alone, Appends
  <2> QED  BY <1>2, <2>1
<1>4. CASE overlapped' = overlapped /\ (Appends(w)' => Appends(w))
  BY <1>1, <1>2, <1>4
<1> QED  BY <1>3, <1>4

(* A step of one append that touches neither the messages nor the log.     *)
LEMMA LaneStep ==
    ASSUME LogInv, NEW w \in Lanes,
           UNCHANGED <<table, log, column, status, prompts, at, call, client,
                       stop, cancelled, late>>,
           counter' \in Nat \ {0}, overlapped' \in BOOLEAN, prompts > 0,
           mishaps' \in Seq({"fault", "silence", "cut", "drop", "stop", "stuck"}),
           \A k : Happened(k) => Happened(k)',
           lane' \in [Lanes -> LaneStates], Elsewhere(w),
           Alone(w) \/ (overlapped' = overlapped /\ (Appends(w)' => Appends(w))),
           w = Worker => WorkerOk' /\ (Ended' => Ended), w = Poll => PollOk',
           w = Stop => StopOk', w \in Tools => ToolOk(w)', DeltaOk(w)'
    PROVE  LogInv'
<1>1. /\ Messages' = Messages /\ Answers' = Answers /\ Streaming' = Streaming
      /\ \A m : HasCalls(m)' <=> HasCalls(m)
      /\ \A t : Calling(t)' = Calling(t)
      /\ Smooth' => Smooth
  BY TableStays DEF Smooth
<1>2. /\ TypeOK /\ PlaceOk /\ MessagesOk /\ WorkerOk /\ PollOk /\ StopOk /\ (\A t \in Tools : ToolOk(t))
      /\ IsFiniteSet(Sequences) /\ (\A v \in Lanes : DeltaOk(v))
  BY DEF LogInv
<1>3. TypeOK' /\ Sequences' = Sequences
  BY <1>2 DEF TypeOK, Sequences
<1>4. PlaceOk'
  BY <1>1, <1>2, <1>3 DEF PlaceOk, TypeOK
<1>5. ASSUME w # Worker
      PROVE  WorkerOk'
  <2>1. lane'[Worker] = lane[Worker]
    BY <1>5, LanesAre DEF Elsewhere
  <2> QED  BY <1>1, <1>2, <2>1 DEF WorkerOk, Found, Pending
<1>6. ASSUME w # Poll
      PROVE  PollOk'
  <2>1. lane'[Poll] = lane[Poll]
    BY <1>6, LanesAre DEF Elsewhere
  <2> QED  BY <1>1, <1>2, <2>1 DEF PollOk, Appends, Reports
<1>11. ASSUME w # Stop
       PROVE  StopOk'
  <2>1. lane'[Stop] = lane[Stop]
    BY <1>11, LanesAre DEF Elsewhere
  <2> QED  BY <1>1, <1>2, <2>1 DEF StopOk, Reports
<1>7. \A t \in Tools : ToolOk(t)'
  <2>1. ASSUME NEW t \in Tools, t # w
        PROVE  ToolOk(t)'
    <3>1. lane'[t] = lane[t]
      BY <2>1, LanesAre DEF Elsewhere
    <3> QED  BY <1>1, <1>2, <3>1 DEF ToolOk, Reports
  <2> QED  BY <2>1
<1>8. \A v \in Lanes : DeltaOk(v)'
  <2>1. ASSUME NEW v \in Lanes, v # w
        PROVE  DeltaOk(v)'
    <3>1. lane'[v] = lane[v]
      BY <2>1 DEF Elsewhere
    <3> QED  BY <1>1, <1>2, <3>1 DEF DeltaOk, Pending
  <2> QED  BY <2>1
<1>9. MessagesOk'
  <2>1. Ended' => Ended
    <3>1. w # Worker => lane'[Worker] = lane[Worker]
      BY LanesAre DEF Elsewhere
    <3> QED  BY <3>1 DEF Ended, Pending
  <2> QED  BY <1>1, <1>2, <2>1 DEF MessagesOk
<1>10. OneAppend'
  BY OneAppendKept
<1> QED  BY <1>2, <1>3, <1>4, <1>5, <1>6, <1>7, <1>8, <1>9, <1>10, <1>11 DEF LogInv

LEMMA Parts ==
    ASSUME LogInv
    PROVE  /\ TypeOK /\ PlaceOk /\ MessagesOk /\ OneAppend /\ WorkerOk /\ PollOk /\ StopOk
           /\ IsFiniteSet(Sequences) /\ (\A t \in Tools : ToolOk(t)) /\ (\A w \in Lanes : DeltaOk(w))
           /\ prompts \in Nat /\ (at # "rest" => prompts > 0)
           /\ \A w \in Lanes : lane[w].at # "free" => prompts > 0
           /\ Answers # {} => prompts > 0
<1>1. /\ TypeOK /\ PlaceOk /\ MessagesOk /\ OneAppend /\ WorkerOk /\ PollOk /\ StopOk
      /\ IsFiniteSet(Sequences) /\ (\A t \in Tools : ToolOk(t)) /\ (\A w \in Lanes : DeltaOk(w))
  BY DEF LogInv
<1>2. prompts \in Nat /\ (at # "rest" => prompts > 0) /\ (prompts > 0 <=> prompts # 0)
  BY <1>1 DEF TypeOK, PlaceOk
<1>3. \A w \in Lanes : lane[w].at # "free" => prompts # 0
  BY <1>1, FreeLane DEF PlaceOk
<1>4. Answers # {} => prompts # 0
  <2>1. table = <<>> => Answers = {}
    BY DEF Answers, Messages
  <2> QED  BY <1>1, <2>1 DEF PlaceOk
<1> QED  BY <1>1, <1>2, <1>3, <1>4

LEMMA WorkerStarts ==
    ASSUME LogInv, UNCHANGED <<table, log, counter, column, status, prompts, at, call, client, mishaps, stop, cancelled, late>>,
           at # "rest", lane' \in [Lanes -> LaneStates], Elsewhere(Worker),
           \/ lane'[Worker].at = "found" /\ Found(lane'[Worker])
           \/ lane'[Worker].at = "written" /\ lane'[Worker].does = at /\ at \in {"fails", "cancels"}
           \/ lane'[Worker].at = "cursor" /\ at \in {"settles", "errs", "idles"},
           DeltaOk(Worker)',
           Alone(Worker) \/ (overlapped' = overlapped /\ lane'[Worker].at = "cursor")
    PROVE  LogInv'
<1>1. TypeOK /\ prompts > 0 /\ Worker \in Lanes /\ Worker # Poll /\ Worker # Stop /\ Worker \notin Tools
  BY Parts, LanesAre
<1>2. overlapped' \in BOOLEAN
  BY <1>1 DEF TypeOK, Alone
<1>3. counter' \in Nat \ {0} /\ mishaps' \in Seq({"fault", "silence", "cut", "drop", "stop", "stuck"})
  BY <1>1 DEF TypeOK
<1>4. \A k : Happened(k) => Happened(k)'
  BY MishapsStay
<1>5. Streaming' = Streaming
  BY TableStays
<1>6. WorkerOk' /\ (Ended' => Ended)
  BY <1>5 DEF WorkerOk, Ended, Found, Pending
<1>7. Alone(Worker) \/ (overlapped' = overlapped /\ (Appends(Worker)' => Appends(Worker)))
  BY DEF Appends
<1> QED  BY <1>1, <1>2, <1>3, <1>4, <1>6, <1>7, LaneStep

LEMMA FindsKeeps ==
    ASSUME LogInv, NEW does \in {"asks", "starts", "updates", "ends"}, WorkerFinds(does), UNCHANGED at
    PROVE  LogInv'
<1>1. TypeOK
  BY Parts
<1>2. /\ at = does
      /\ UNCHANGED <<table, log, counter, column, status, prompts, call, client, mishaps, stop, cancelled, late>>
      /\ lane' \in [Lanes -> LaneStates] /\ Elsewhere(Worker)
      /\ lane'[Worker].at = "found" /\ Found(lane'[Worker]) /\ Alone(Worker)
      /\ lane[Worker].at = "free" /\ lane'[Worker].deltas = lane[Worker].deltas
  BY <1>1, FindsMoves
<1>3. DeltaOk(Worker)'
  BY <1>2, Parts, LanesAre DEF DeltaOk, Pending
<1> QED  BY <1>2, <1>3, WorkerStarts

LEMMA ReportStatusKeeps == ASSUME LogInv, ReportStatus PROVE LogInv'
<1>1. TypeOK
  BY Parts
<1>2. /\ at \in {"fails", "cancels"}
      /\ UNCHANGED <<table, log, counter, column, status, prompts, at, call, client, mishaps, stop, cancelled, late>>
      /\ lane' \in [Lanes -> LaneStates] /\ Elsewhere(Worker)
      /\ lane'[Worker].at = "written" /\ lane'[Worker].does = at
      /\ lane'[Worker].id = NoMessage /\ Len(lane'[Worker].deltas) = 1
      /\ lane'[Worker].deltas[1].id = NoMessage /\ Alone(Worker)
  BY <1>1, ReportStatusMoves
<1>3. DeltaOk(Worker)'
  BY <1>2 DEF DeltaOk, Pending
<1>4. at # "rest" /\ lane'[Worker].at = "written" /\ lane'[Worker].does = at /\ at \in {"fails", "cancels"}
  BY <1>2
<1> QED  BY <1>2, <1>3, <1>4, WorkerStarts

LEMMA ReadCursorKeeps == ASSUME LogInv, ReadCursor PROVE LogInv'
<1>1. TypeOK /\ IsFiniteSet(Sequences)
  BY Parts
<1>2. /\ at \in {"settles", "errs", "idles"}
      /\ UNCHANGED <<table, log, counter, column, status, prompts, at, call, client, mishaps,
                     overlapped, stop, cancelled, late>>
      /\ lane' \in [Lanes -> LaneStates] /\ Elsewhere(Worker) /\ lane'[Worker].at = "cursor"
      /\ lane'[Worker].deltas = <<>>
  BY <1>1, ReadCursorMoves
<1>3. DeltaOk(Worker)'
  BY <1>2 DEF DeltaOk, Pending
<1>4. at # "rest" /\ overlapped' = overlapped /\ lane'[Worker].at = "cursor"
  BY <1>2
<1> QED  BY <1>2, <1>3, <1>4, WorkerStarts

LEMMA ToolFindsKeeps == ASSUME LogInv, NEW t \in Tools, ToolFinds(t) PROVE LogInv'
<1>1. TypeOK /\ t \in Lanes /\ t # Worker /\ t # Poll /\ t # Stop /\ DeltaOk(t)
  BY Parts, LanesAre
<1>2. /\ at = "tools" /\ call[t] \in {"runs", "returns"}
      /\ UNCHANGED <<table, log, counter, column, status, prompts, at, call, client, mishaps, stop, cancelled, late>>
      /\ lane' \in [Lanes -> LaneStates] /\ Elsewhere(t)
      /\ lane'[t].at = "found" /\ lane'[t].does = call[t] /\ Reports(lane'[t], t) /\ Alone(t)
      /\ lane[t].at = "free" /\ lane'[t].deltas = lane[t].deltas
  BY ToolFindsMoves
<1>3. prompts > 0
  BY <1>2, Parts
<1>4. /\ overlapped' \in BOOLEAN /\ counter' \in Nat \ {0}
      /\ mishaps' \in Seq({"fault", "silence", "cut", "drop", "stop", "stuck"})
      /\ \A k : Happened(k) => Happened(k)'
  BY <1>1, <1>2, MishapsStay DEF TypeOK, Alone
<1>5. DeltaOk(t)'
  BY <1>1, <1>2 DEF DeltaOk, Pending
<1>6. ToolOk(t)'
  BY <1>2 DEF ToolOk, Reports, Answers, Messages
<1> QED  BY <1>1, <1>2, <1>3, <1>4, <1>5, <1>6, LaneStep

LEMMA NoticeKeeps == ASSUME LogInv, NoticeSilence PROVE LogInv'
<1>1. TypeOK /\ Poll \in Lanes /\ Poll # Worker /\ Poll # Stop /\ Poll \notin Tools
  BY Parts, LanesAre
<1>2. /\ UNCHANGED <<table, log, counter, column, status, prompts, at, call, client, stop, cancelled, late>>
      /\ lane' \in [Lanes -> LaneStates] /\ Elsewhere(Poll)
      /\ lane'[Poll].at = "noticed" /\ lane'[Poll].does \in CodeTools
      /\ lane'[Poll].id \in Answers /\ Reports(lane'[Poll], lane'[Poll].does)
      /\ lane'[Poll].deltas = <<>>
      /\ mishaps' \in Seq({"fault", "silence", "cut", "drop", "stop", "stuck"})
      /\ \A k : Happened(k)' <=> Happened(k) \/ k = "silence"
      /\ Alone(Poll)
  BY <1>1, NoticeMoves
<1>3. prompts > 0
  BY <1>2, Parts
<1>4. overlapped' \in BOOLEAN /\ counter' \in Nat \ {0} /\ \A k : Happened(k) => Happened(k)'
  BY <1>1, <1>2 DEF TypeOK, Alone
<1>5. DeltaOk(Poll)'
  BY <1>2 DEF DeltaOk, Pending
<1>6. PollOk'
  <2>1. Happened("silence")'
    BY <1>2
  <2> QED  BY <1>2, <2>1 DEF PollOk, Reports, Answers, Messages
<1> QED  BY <1>1, <1>2, <1>3, <1>4, <1>5, <1>6, LaneStep

LEMMA NoticeStuckKeeps == ASSUME LogInv, NoticeStuck PROVE LogInv'
<1>1. /\ TypeOK /\ PlaceOk /\ prompts \in Nat
      /\ Poll \in Lanes /\ Poll # Worker /\ Poll # Stop /\ Poll \notin Tools
  BY Parts, LanesAre
<1>2. /\ UNCHANGED <<table, log, counter, column, status, prompts, at, call, client, overlapped,
                     stop, cancelled, late>>
      /\ lane' \in [Lanes -> LaneStates] /\ Elsewhere(Poll)
      /\ lane'[Poll].at = "stuck" /\ lane'[Poll].deltas = <<>> /\ NoticeStuck
      /\ mishaps' \in Seq({"fault", "silence", "cut", "drop", "stop", "stuck"})
      /\ \A k : Happened(k)' <=> Happened(k) \/ k = "stuck"
  BY <1>1, NoticeStuckMoves
<1>3. prompts > 0
  BY <1>1, <1>2 DEF NoticeStuck, PlaceOk
<1>4. overlapped' \in BOOLEAN /\ counter' \in Nat \ {0} /\ \A k : Happened(k) => Happened(k)'
  BY <1>1, <1>2 DEF TypeOK
<1>5. DeltaOk(Poll)' /\ ~ Appends(Poll)'
  BY <1>2 DEF DeltaOk, Pending, Appends
<1>6. PollOk'
  <2>1. Happened("stuck")'
    BY <1>2
  <2> QED  BY <1>2, <1>5, <2>1 DEF PollOk
<1> QED  BY <1>1, <1>2, <1>3, <1>4, <1>5, <1>6, LaneStep

LEMMA PollFindsKeeps == ASSUME LogInv, PollFinds PROVE LogInv'
<1>1. TypeOK /\ PollOk /\ DeltaOk(Poll) /\ Poll # Stop /\ Poll \in Lanes /\ Poll # Worker /\ Poll \notin Tools
  BY Parts, LanesAre
<1>2. /\ lane[Poll].at = "noticed"
      /\ UNCHANGED <<table, log, counter, column, status, prompts, at, call, client, mishaps,
                     overlapped, stop, cancelled, late>>
      /\ lane' \in [Lanes -> LaneStates] /\ Elsewhere(Poll)
      /\ lane'[Poll].at = "found" /\ lane'[Poll].does = lane[Poll].does
      /\ Reports(lane'[Poll], lane[Poll].does) /\ lane'[Poll].deltas = lane[Poll].deltas
  BY PollFindsMoves
<1>3. prompts > 0
  BY <1>1, <1>2, Parts
<1>4. /\ overlapped' \in BOOLEAN /\ counter' \in Nat \ {0}
      /\ mishaps' \in Seq({"fault", "silence", "cut", "drop", "stop", "stuck"})
  BY <1>1, <1>2 DEF TypeOK
<1>5. \A k : Happened(k)' <=> Happened(k)
  BY <1>2, MishapsStay
<1>6. DeltaOk(Poll)'
  BY <1>1, <1>2 DEF DeltaOk, Pending
<1>7. PollOk'
  BY <1>1, <1>2, <1>5 DEF PollOk, Appends, Reports, Answers, Messages
<1>8. overlapped' = overlapped /\ (Appends(Poll)' => Appends(Poll))
  BY <1>2 DEF Appends
<1> QED  BY <1>1, <1>2, <1>3, <1>4, <1>5, <1>6, <1>7, <1>8, LaneStep

LEMMA ReserveKeeps == ASSUME LogInv, NEW w \in Lanes, ReserveSequences(w) PROVE LogInv'
<1>1. TypeOK /\ WorkerOk /\ PollOk /\ StopOk /\ (\A t \in Tools : ToolOk(t)) /\ DeltaOk(w)
  BY Parts
<1>2. /\ lane[w].at = "written"
      /\ UNCHANGED <<table, log, column, status, prompts, at, call, client, mishaps, overlapped, stop, cancelled, late>>
      /\ lane' \in [Lanes -> LaneStates] /\ Elsewhere(w)
      /\ lane'[w].at = "reserved" /\ lane'[w].does = lane[w].does /\ lane'[w].id = lane[w].id
      /\ lane'[w].copy = lane[w].copy /\ lane'[w].deltas = lane[w].deltas
      /\ lane'[w].first = counter /\ counter' \in Nat \ {0}
  BY <1>1, ReserveMoves
<1>3. prompts > 0
  BY <1>2, Parts
<1>4. overlapped' \in BOOLEAN /\ mishaps' \in Seq({"fault", "silence", "cut", "drop", "stop", "stuck"})
  BY <1>1, <1>2 DEF TypeOK
<1>5. \A k : Happened(k)' <=> Happened(k)
  BY <1>2, MishapsStay
<1>6. Messages' = Messages /\ Answers' = Answers
  BY <1>2, TableStays
<1>7. DeltaOk(w)'
  <2>1. counter \in Nat \ {0} => counter > 0
    OBVIOUS
  <2>2. lane'[w].first > 0
    BY <1>1, <1>2, <2>1 DEF TypeOK
  <2> QED  BY <1>1, <1>2, <1>6, <2>2 DEF DeltaOk, Pending
<1>8. w = Worker => WorkerOk' /\ (Ended' => Ended)
  BY <1>1, <1>2 DEF WorkerOk, Pending, Ended
<1>9. w = Poll => PollOk'
  BY <1>1, <1>2, <1>5, <1>6 DEF PollOk, Appends, Reports
<1>12. w = Stop => StopOk'
  BY <1>1, <1>2, <1>5, <1>6, TableStays DEF StopOk, Reports
<1>10. w \in Tools => ToolOk(w)'
  BY <1>1, <1>2, <1>6 DEF ToolOk, Reports
<1>11. overlapped' = overlapped /\ (Appends(w)' => Appends(w))
  BY <1>2 DEF Appends
<1> QED  BY <1>2, <1>3, <1>4, <1>5, <1>7, <1>8, <1>9, <1>10, <1>11, <1>12, LaneStep

(* Between its reports the worker has none under way.                      *)
LEMMA NobodyReports ==
    ASSUME LogInv
    PROVE  /\ at \in {"noted", "tools", "settled", "failed", "rest"} => lane[Worker].at = "free"
           /\ at # "tools" => \A t \in Tools : lane[t].at = "free"
<1>1. /\ TypeOK /\ WorkerOk /\ (\A t \in Tools : ToolOk(t)) /\ lane[Worker] \in LaneStates
  BY Parts, TableIs, LanesAre
<1>2. lane[Worker].at \in {"free", "noticed", "found", "written", "reserved", "cursor", "stuck"}
  BY <1>1, LaneFields
<1> QED  BY <1>1, <1>2 DEF WorkerOk, Found, Pending, ToolOk

(* A step of the worker between its reports.                               *)
LEMMA PlaceStep ==
    ASSUME LogInv, UNCHANGED <<table, log, counter, column, status, prompts, lane, client, overlapped,
                               stop, cancelled, late>>,
           at # "rest", lane[Worker].at = "free", \A t \in Tools : lane[t].at = "free",
           at' \in {"ends", "fails", "tools", "settles", "cancels", "rest"},
           at' = "tools" => prompts = 1 /\ at = "noted",
           at' = "cancels" => cancelled,
           cancelled \/ (at' = "rest" <=> at \in {"settled", "failed"}),
           call' \in [Tools -> {"nothing", "runs", "returns", "over"}],
           mishaps' \in Seq({"fault", "silence", "cut", "drop", "stop", "stuck"}),
           \A k : Happened(k) => Happened(k)'
    PROVE  LogInv'
<1>1. /\ TypeOK /\ PlaceOk /\ MessagesOk /\ OneAppend /\ WorkerOk /\ PollOk /\ StopOk
      /\ IsFiniteSet(Sequences) /\ (\A t \in Tools : ToolOk(t)) /\ (\A w \in Lanes : DeltaOk(w))
      /\ prompts > 0
  BY Parts
<1>2. /\ Messages' = Messages /\ Answers' = Answers /\ Streaming' = Streaming
      /\ \A m : HasCalls(m)' <=> HasCalls(m)
      /\ \A l, t : Reports(l, t)' <=> Reports(l, t)
      /\ \A t : Calling(t)' = Calling(t)
      /\ Sequences' = Sequences
  BY TableStays DEF Sequences
<1>3. TypeOK'
  BY <1>1 DEF TypeOK, Sequences
<1>4. PlaceOk'
  <2>1. Smooth' => Smooth
    BY DEF Smooth
  <2>2. cancelled => ~ Smooth
    BY <1>1 DEF StopOk, Smooth
  <2>3. Smooth' => (status # "processing" <=> at' \in {"rest", "settled", "failed"})
    BY <1>1, <2>1, <2>2 DEF PlaceOk
  <2> QED  BY <1>1, <2>3 DEF PlaceOk, TypeOK
<1>5. WorkerOk' /\ PollOk' /\ StopOk' /\ (\A t \in Tools : ToolOk(t)')
  BY <1>1, <1>2 DEF WorkerOk, Pending, PollOk, Appends, StopOk, ToolOk
<1>6. (\A w \in Lanes : DeltaOk(w)') /\ OneAppend'
  BY <1>1, <1>2 DEF DeltaOk, Pending, OneAppend, Appends
<1>7. MessagesOk'
  <2>1. Ended' /\ at' \notin {"settles", "settled", "rest"}
          => Ended /\ at \notin {"settles", "settled", "rest"}
    BY DEF Ended, Pending
  <2> QED  BY <1>1, <1>2, <2>1 DEF MessagesOk
<1> QED  BY <1>1, <1>2, <1>3, <1>4, <1>5, <1>6, <1>7 DEF LogInv

(* The steps of the worker that report nothing: where they lead.           *)
Walks ==
    \/ SkipUpdate \/ BreakOff \/ NoteAnswer \/ NoteTools \/ NoteEnd \/ NoticeCancel \/ NeverClaimed
    \/ \E does \in {"asks", "starts", "updates", "ends"} :
           WorkerFinds(does) /\ at' = "ends" /\ UNCHANGED <<lane, overlapped>> /\ at = "updates"

LEMMA WalksMove ==
    ASSUME LogInv, Walks
    PROVE  /\ UNCHANGED <<table, log, counter, column, status, prompts, lane, client, overlapped,
                          stop, cancelled, late>>
           /\ lane[Worker].at = "free" /\ \A t \in Tools : lane[t].at = "free"
           /\ \/ at = "updates" /\ at' = "ends"
              \/ at \in {"updates", "ends"} /\ at' = "fails" /\ Mishap("fault")
              \/ at = "noted" /\ prompts = 1 /\ at' = "tools" /\ ~ cancelled
              \/ at = "noted" /\ prompts # 1 /\ at' = "settles" /\ ~ cancelled
              \/ at = "tools" /\ at' = "settles" /\ ~ cancelled
              \/ at \in {"settled", "failed"} /\ at' = "rest" /\ ~ cancelled
              \/ cancelled /\ at # "rest" /\ at' \in {"cancels", "rest"}
           /\ call' = call \/ (at = "noted" /\ call' = [t \in Tools |-> "runs"])
           /\ mishaps' = mishaps \/ at' = "fails"
           /\ at = "tools" /\ ~ cancelled => \A t \in Tools : call[t] = "over"
<1>1. /\ TypeOK /\ (\A t \in Tools : ToolOk(t)) /\ call \in [Tools -> {"nothing", "runs", "returns", "over"}]
      /\ at \in {"noted", "tools", "settled", "failed", "rest"} => lane[Worker].at = "free"
      /\ at # "tools" => \A t \in Tools : lane[t].at = "free"
  BY Parts, NobodyReports DEF TypeOK
<1>2. CASE \E does \in {"asks", "starts", "updates", "ends"} :
              WorkerFinds(does) /\ at' = "ends" /\ UNCHANGED <<lane, overlapped>> /\ at = "updates"
  <2>1. PICK does \in {"asks", "starts", "updates", "ends"} :
           WorkerFinds(does) /\ at' = "ends" /\ UNCHANGED <<lane, overlapped>> /\ at = "updates"
    BY <1>2
  <2>2. /\ lane[Worker].at = "free"
        /\ UNCHANGED <<table, log, counter, column, status, prompts, call, client, mishaps, stop,
                       cancelled, late>>
    BY <1>1, <2>1, FindsMoves
  <2> QED  BY <1>1, <2>1, <2>2
<1>3. CASE SkipUpdate
  BY <1>1, <1>3 DEF SkipUpdate, Keep
<1>4. CASE BreakOff
  BY <1>1, <1>4 DEF BreakOff
<1>5. CASE NoteAnswer
  BY <1>1, <1>5 DEF NoteAnswer, Onward, Keep
<1>6. CASE NoteTools
  <2>1. \A t \in Tools : call[t] = "over" /\ lane[t].at = "free"
    BY <1>1, <1>6 DEF NoteTools, ToolOk
  <2> QED  BY <1>1, <1>6, <2>1 DEF NoteTools, Onward, Keep
<1>7. CASE NoteEnd
  BY <1>1, <1>7 DEF NoteEnd, Onward, Keep
<1>8. CASE NoticeCancel
  BY <1>1, <1>8 DEF NoticeCancel, Keep
<1>9. CASE NeverClaimed
  BY <1>1, <1>9 DEF NeverClaimed, Keep
<1> QED  BY <1>2, <1>3, <1>4, <1>5, <1>6, <1>7, <1>8, <1>9 DEF Walks

LEMMA PlaceKeeps == ASSUME LogInv, Walks PROVE LogInv'
<1>1. /\ TypeOK /\ prompts \in Nat
      /\ UNCHANGED <<table, log, counter, column, status, prompts, lane, client, overlapped,
                     stop, cancelled, late>>
      /\ lane[Worker].at = "free" /\ \A t \in Tools : lane[t].at = "free"
      /\ \/ at = "updates" /\ at' = "ends"
         \/ at \in {"updates", "ends"} /\ at' = "fails" /\ Mishap("fault")
         \/ at = "noted" /\ prompts = 1 /\ at' = "tools" /\ ~ cancelled
         \/ at = "noted" /\ prompts # 1 /\ at' = "settles" /\ ~ cancelled
         \/ at = "tools" /\ at' = "settles" /\ ~ cancelled
         \/ at \in {"settled", "failed"} /\ at' = "rest" /\ ~ cancelled
         \/ cancelled /\ at # "rest" /\ at' \in {"cancels", "rest"}
      /\ call' = call \/ (at = "noted" /\ call' = [t \in Tools |-> "runs"])
      /\ mishaps' = mishaps \/ at' = "fails"
  BY WalksMove, Parts
<1>2. /\ mishaps' \in Seq({"fault", "silence", "cut", "drop", "stop", "stuck"})
      /\ \A k : Happened(k) => Happened(k)'
  <2>1. CASE mishaps' = mishaps
    BY <1>1, <2>1, MishapsStay DEF TypeOK
  <2>2. CASE Mishap("fault")
    BY <1>1, <2>2, MishapAdds
  <2> QED  BY <1>1, <2>1, <2>2
<1>3. call' \in [Tools -> {"nothing", "runs", "returns", "over"}]
  <2>1. call \in [Tools -> {"nothing", "runs", "returns", "over"}]
    BY <1>1 DEF TypeOK
  <2> QED  BY <1>1, <2>1
<1>4. /\ at # "rest" /\ at' \in {"ends", "fails", "tools", "settles", "cancels", "rest"}
      /\ at' = "tools" => prompts = 1 /\ at = "noted"
      /\ at' = "cancels" => cancelled
      /\ cancelled \/ (at' = "rest" <=> at \in {"settled", "failed"})
  BY <1>1
<1> QED  BY <1>1, <1>2, <1>3, <1>4, PlaceStep

LEMMA InsertKeeps == ASSUME LogInv, NEW w \in Lanes, InsertEvents(w) PROVE LogInv'
<1>1. /\ TypeOK /\ PlaceOk /\ MessagesOk /\ OneAppend /\ WorkerOk /\ PollOk /\ StopOk
      /\ IsFiniteSet(Sequences) /\ (\A t \in Tools : ToolOk(t)) /\ (\A v \in Lanes : DeltaOk(v))
  BY Parts
<1>2. /\ lane[w].at = "reserved"
      /\ UNCHANGED <<table, counter, status, prompts, client, mishaps, overlapped, stop, cancelled>>
      /\ late' = (late \/ status # "processing")
      /\ lane' \in [Lanes -> LaneStates] /\ Elsewhere(w) /\ lane'[w] = Free
      /\ New(w) \subseteq Nat \ {0} /\ IsFiniteSet(New(w)) /\ Sequences' = Sequences \cup New(w)
      /\ \A s \in Sequences \ New(w) : log'[s] = log[s]
      /\ \A s \in New(w) : log'[s] \in Events
      /\ column' \in New(w)
      /\ w = Worker => \/ at = "asks" /\ at' = "starts"
                       \/ at = "starts" /\ at' = "updates"
                       \/ at = "updates" /\ at' = "ends"
                       \/ at = "ends" /\ at' = "noted"
                       \/ at = "fails" /\ at' = "errs"
                       \/ at = "cancels" /\ at' = "idles"
      /\ w # Worker => at' = at
      /\ w \notin Tools => call' = call
      /\ w \in Tools => call' = [call EXCEPT ![w] = IF @ = "runs" THEN "returns" ELSE "over"]
  BY InsertMoves
<1>3. /\ Messages' = Messages /\ Answers' = Answers /\ Streaming' = Streaming
      /\ \A m : HasCalls(m)' <=> HasCalls(m)
      /\ \A l, t : Reports(l, t)' <=> Reports(l, t)
      /\ \A t : Calling(t)' = Calling(t)
  BY <1>2, TableStays
<1>4. /\ prompts > 0 /\ Worker \notin Tools /\ Free.at = "free" /\ Free.deltas = <<>>
      /\ lane[w] # Free
      /\ at # "tools" => \A t \in Tools : lane[t].at = "free"
      /\ Worker \in Lanes /\ Poll \in Lanes /\ Stop \in Lanes /\ Tools \subseteq Lanes
  BY <1>2, Parts, LanesAre, FreeLane, NobodyReports
<1>5. /\ at' \in {"starts", "updates", "ends", "noted", "errs", "idles"} \/ at' = at
      /\ at' = "idles" => at \in {"cancels", "idles"}
      /\ at' \in {"settled", "failed"} <=> at \in {"settled", "failed"}
      /\ at' = "cancels" => at = "cancels"
      /\ at' = "tools" <=> at = "tools"
      /\ at' = "rest" <=> at = "rest"
      /\ call' \in [Tools -> {"nothing", "runs", "returns", "over"}]
      /\ \A t \in Tools : t # w => call'[t] = call[t]
  BY <1>1, <1>2 DEF TypeOK
<1>6. TypeOK'
  <2>1. /\ Sequences' \subseteq Nat \ {0} /\ (\A s \in Sequences' : log'[s] \in Events)
        /\ column' \in Nat
    BY <1>1, <1>2 DEF TypeOK
  <2>2. late' \in BOOLEAN
    BY <1>1, <1>2 DEF TypeOK
  <2> QED  BY <1>1, <1>2, <1>5, <2>1, <2>2 DEF TypeOK
<1>7. PlaceOk'
  BY <1>1, <1>2, <1>4, <1>5, MishapsStay DEF PlaceOk, Smooth
<1>8. WorkerOk'
  <2>1. w # Worker => lane'[Worker] = lane[Worker] /\ at' = at
    BY <1>2, <1>4 DEF Elsewhere
  <2> QED  BY <1>1, <1>2, <1>3, <1>4, <2>1 DEF WorkerOk, Found, Pending
<1>9. PollOk'
  <2>1. w # Poll => lane'[Poll] = lane[Poll]
    BY <1>2, <1>4 DEF Elsewhere
  <2> QED  BY <1>1, <1>2, <1>3, <1>4, <2>1 DEF PollOk, Appends, Happened
<1>15. StopOk'
  <2>1. w # Stop => lane'[Stop] = lane[Stop]
    BY <1>2, <1>4 DEF Elsewhere
  <2> QED  BY <1>1, <1>2, <1>3, <1>4, <2>1 DEF StopOk, Happened
<1>10. ASSUME NEW t \in Tools
       PROVE  ToolOk(t)'
  <2>1. CASE t = w
    BY <1>2, <1>4, <2>1 DEF ToolOk
  <2>2. CASE t # w
    <3>1. lane'[t] = lane[t] /\ call'[t] = call[t]
      BY <1>2, <1>4, <1>5, <2>2 DEF Elsewhere
    <3> QED  BY <1>1, <1>2, <1>3, <1>5, <3>1 DEF ToolOk
  <2> QED  BY <2>1, <2>2
<1>11. ASSUME NEW v \in Lanes
       PROVE  DeltaOk(v)'
  <2>1. v # w => lane'[v] = lane[v]
    BY <1>2 DEF Elsewhere
  <2> QED  BY <1>1, <1>2, <1>3, <1>4, <2>1 DEF DeltaOk, Pending
<1>12. OneAppend'
  <2>1. ~ Appends(w)'
    BY <1>2, <1>4 DEF Appends
  <2> QED  BY <1>2, <2>1, OneAppendKept
<1>13. MessagesOk'
  <2>1. Ended' /\ at' \notin {"settles", "settled", "rest"}
          => Ended /\ at \notin {"settles", "settled", "rest"}
    <3>1. w # Worker => lane'[Worker] = lane[Worker] /\ at' = at
      BY <1>2, <1>4 DEF Elsewhere
    <3> QED  BY <1>2, <1>4, <3>1 DEF Ended, Pending
  <2> QED  BY <1>1, <1>2, <1>3, <2>1 DEF MessagesOk
<1>14. IsFiniteSet(Sequences')
  BY <1>1, <1>2, FS_Union
<1> QED  BY <1>6, <1>7, <1>8, <1>9, <1>10, <1>11, <1>12, <1>13, <1>14, <1>15 DEF LogInv

LEMMA WorkerWriteKeeps == ASSUME LogInv, WriteMessage(Worker) PROVE LogInv'
<1>1. /\ TypeOK /\ PlaceOk /\ MessagesOk /\ OneAppend /\ WorkerOk /\ PollOk /\ StopOk
      /\ IsFiniteSet(Sequences) /\ (\A t \in Tools : ToolOk(t)) /\ (\A v \in Lanes : DeltaOk(v))
  BY Parts
<1> DEFINE m   == lane'[Worker].id
           new == table'[m]
<1>2. /\ lane[Worker].at = "found" /\ lane[Worker].does = at
      /\ UNCHANGED <<log, counter, column, status, prompts, at, call, client, mishaps, overlapped,
                     cancelled, late>>
      /\ StopGoesOn
      /\ lane' \in [Lanes -> LaneStates] /\ Elsewhere(Worker)
      /\ lane'[Worker].at = "written" /\ lane'[Worker].does = at
      /\ Len(lane'[Worker].deltas) > 0
      /\ table' \in Seq(MessageStates) /\ m \in Nat \ {0}
      /\ Messages' = Messages \cup {m}
      /\ \A n \in Messages \ {m} : table'[n] = table[n]
      /\ at \in {"asks", "starts", "updates", "ends"}
      /\ m \in Messages => at # "asks" /\ m \in Streaming /\ new.role = "assistant"
      /\ m \notin Messages /\ at # "asks" => Streaming = {} /\ new.role = "assistant"
      /\ at = "asks" => new.role = "user" /\ DOMAIN new.calls = {}
      /\ at = "starts" => DOMAIN new.calls = IF m \in Messages THEN DOMAIN table[m].calls ELSE {}
      /\ at = "updates" => DOMAIN new.calls = DOMAIN table[m].calls
      /\ at = "updates" => m \in Messages
      /\ at = "ends" => /\ new.status = "complete"
                        /\ DOMAIN new.calls = IF prompts = 1 THEN Tools ELSE {}
  BY WorkerWrites
<1> HIDE DEF m
<1>3. /\ prompts > 0 /\ Worker \notin Tools /\ Poll # Worker /\ Stop # Worker
      /\ Worker \in Lanes /\ Poll \in Lanes /\ Stop \in Lanes /\ Tools \subseteq Lanes
      /\ \A t \in Tools : lane[t].at = "free"
      /\ Answers \subseteq Messages /\ Streaming \subseteq Answers
  BY <1>1, <1>2, Parts, LanesAre, NobodyReports, TableIs
<1>4. /\ \A v \in Lanes : v # Worker => lane'[v] = lane[v]
      /\ Sequences' = Sequences
  BY <1>2 DEF Elsewhere, Sequences
<1>5. /\ \A n \in Streaming : ~ HasCalls(n)
      /\ \A n \in Messages : HasCalls(n) => n # m /\ table'[n] = table[n]
  <2>1. \A n \in Streaming : ~ HasCalls(n)
    BY <1>1, <1>3 DEF MessagesOk, Streaming
  <2> QED  BY <1>2, <2>1
<1>6. TypeOK'
  BY <1>1, <1>2, <1>4 DEF TypeOK, StopGoesOn, StopStates
<1>7. PlaceOk'
  BY <1>1, <1>2, <1>3, MishapsStay DEF PlaceOk, Smooth
<1>8. WorkerOk'
  BY <1>2 DEF WorkerOk, Pending
<1>14. ASSUME NEW l, NEW u, Reports(l, u)
       PROVE  Reports(l, u)'
  <2>1. l.id \in Messages' /\ table'[l.id] = table[l.id]
    BY <1>2, <1>3, <1>5, <1>14 DEF Reports, HasCalls
  <2> QED  BY <1>3, <1>14, <2>1 DEF Reports, Answers
<1>9. PollOk' /\ StopOk'
  <2>1. \A k : Happened(k)' <=> Happened(k)
    BY <1>2, MishapsStay
  <2>2. PollOk'
    <3>1. lane'[Poll] = lane[Poll]
      BY <1>3, <1>4
    <3> QED  BY <1>1, <1>14, <2>1, <3>1 DEF PollOk, Appends
  <2>3. ASSUME NEW u, Calling(u) # {}
        PROVE  Calling(u)' # {}
    <3>1. PICK n \in Answers : u \in DOMAIN table[n].calls
      BY <2>3 DEF Calling
    <3>2. n \in Answers' /\ table'[n] = table[n]
      BY <1>2, <1>3, <1>5, <3>1 DEF HasCalls, Answers
    <3> QED  BY <3>1, <3>2 DEF Calling
  <2>4. StopOk'
    <3>1. lane'[Stop] = lane[Stop]
      BY <1>3, <1>4
    <3> QED  BY <1>1, <1>2, <1>14, <2>1, <2>3, <3>1 DEF StopOk, StopGoesOn
  <2> QED  BY <2>2, <2>4
<1>10. \A t \in Tools : ToolOk(t)'
  BY <1>3, <1>4 DEF ToolOk
<1>11. ASSUME NEW v \in Lanes
       PROVE  DeltaOk(v)'
  BY <1>1, <1>2, <1>4 DEF DeltaOk, Pending
<1>12. OneAppend'
  <2>1. Appends(Worker)' => Appends(Worker)
    BY <1>2 DEF Appends
  <2> QED  BY <1>2, <1>3, <2>1, OneAppendKept
<1>13. MessagesOk'
  <2>1. ASSUME NEW n \in Messages', HasCalls(n)'
        PROVE  table'[n].role = "assistant" /\ table'[n].status = "complete"
    <3>1. CASE n # m
      <4>1. n \in Messages /\ table'[n] = table[n]
        BY <1>2, <3>1
      <4> QED  BY <1>1, <2>1, <4>1 DEF MessagesOk, HasCalls
    <3>2. CASE n = m
      <4>1. m \in Messages => DOMAIN table[m].calls = {}
        BY <1>2, <1>5 DEF HasCalls
      <4>2. DOMAIN new.calls # {}
        BY <2>1, <3>2 DEF HasCalls
      <4>3. at = "ends"
        BY <1>2, <4>1, <4>2
      <4> QED  BY <1>2, <3>2, <4>3
    <3> QED  BY <3>1, <3>2
  <2>2. ASSUME NEW x \in Streaming', NEW y \in Streaming'
        PROVE  x = y
    <3>1. ASSUME NEW n \in Streaming', n # m
          PROVE  n \in Streaming
      <4>1. n \in Messages /\ table'[n] = table[n]
        BY <1>2, <3>1 DEF Streaming, Answers
      <4> QED  BY <3>1, <4>1 DEF Streaming, Answers
    <3>2. \A n, k \in Streaming : n = k
      BY <1>1 DEF MessagesOk
    <3>3. at = "asks" => m \notin Streaming'
      BY <1>2 DEF Streaming, Answers
    <3>4. CASE at = "asks"
      BY <2>2, <3>1, <3>2, <3>3, <3>4
    <3>5. CASE at # "asks" /\ m \in Messages
      BY <1>2, <2>2, <3>1, <3>2, <3>5
    <3>6. CASE at # "asks" /\ m \notin Messages
      BY <1>2, <2>2, <3>1, <3>6
    <3> QED  BY <3>4, <3>5, <3>6
  <2>3. ASSUME prompts' = 1, Ended'
        PROVE  \E n \in Answers' : DOMAIN table'[n].calls = Tools
    <3>1. at = "ends"
      BY <1>2, <2>3 DEF Ended
    <3>2. m \in Answers' /\ DOMAIN table'[m].calls = Tools
      BY <1>2, <2>3, <3>1 DEF Answers
    <3> QED  BY <3>2
  <2> QED  BY <2>1, <2>2, <2>3 DEF MessagesOk
<1> QED  BY <1>1, <1>4, <1>6, <1>7, <1>8, <1>9, <1>10, <1>11, <1>12, <1>13 DEF LogInv

LEMMA ReporterWriteKeeps ==
    ASSUME LogInv, NEW w \in Lanes, w # Worker, Writes(w)
    PROVE  LogInv'
<1>1. /\ TypeOK /\ PlaceOk /\ MessagesOk /\ OneAppend /\ WorkerOk /\ PollOk /\ StopOk
      /\ IsFiniteSet(Sequences) /\ (\A t \in Tools : ToolOk(t)) /\ (\A v \in Lanes : DeltaOk(v))
  BY Parts
<1> DEFINE m   == lane[w].id
           new == table'[m]
<1>2. /\ lane[w].at = "found"
      /\ UNCHANGED <<log, counter, column, status, prompts, at, call, client, mishaps, overlapped,
                     cancelled, late>>
      /\ StopGoesOn
      /\ lane' \in [Lanes -> LaneStates] /\ Elsewhere(w)
      /\ lane'[w].at = "written" /\ lane'[w].does = lane[w].does /\ lane'[w].id = m
      /\ Len(lane'[w].deltas) > 0
      /\ table' \in Seq(MessageStates) /\ m \in Answers /\ Messages' = Messages
      /\ \A n \in Messages \ {m} : table'[n] = table[n]
      /\ DOMAIN table[m].calls # {}
  BY ReporterWrites
<1> HIDE DEF m
<1>3. /\ Answers' = Answers /\ Streaming' = Streaming
      /\ \A n \in Messages : SameBut(table'[n], table[n])
      /\ Answers \subseteq Messages /\ Streaming \subseteq Answers
  BY <1>1, ReporterKeeps, TableIs
<1>4. /\ prompts > 0 /\ Worker \in Lanes /\ Poll \in Lanes /\ Stop \in Lanes /\ Tools \subseteq Lanes
      /\ (w = Poll \/ w = Stop \/ w \in Tools) /\ Poll # Worker /\ Poll # Stop /\ Worker # Stop
      /\ Worker \notin Tools /\ Poll \notin Tools /\ Stop \notin Tools
  BY <1>2, Parts, LanesAre
<1>5. /\ \A v \in Lanes : v # w => lane'[v] = lane[v]
      /\ Sequences' = Sequences
  BY <1>2 DEF Elsewhere, Sequences
<1>6. ASSUME NEW l, NEW u, Reports(l, u)
      PROVE  Reports(l, u)'
  BY <1>3, <1>6 DEF Reports, SameBut
<1>16. /\ \A k : Happened(k)' <=> Happened(k)
       /\ \A u : Calling(u) # {} => Calling(u)' # {}
  BY <1>2, <1>3, MishapsStay DEF Calling, SameBut
<1>7. m \notin Streaming
  BY <1>1, <1>2, <1>3 DEF MessagesOk, HasCalls, Streaming
<1>8. TypeOK'
  BY <1>1, <1>2, <1>5 DEF TypeOK, StopGoesOn, StopStates
<1>9. PlaceOk'
  BY <1>1, <1>2, <1>4, <1>16 DEF PlaceOk, Smooth
<1>10. WorkerOk'
  <2>1. lane'[Worker] = lane[Worker]
    BY <1>4, <1>5
  <2>2. \A n \in Streaming : table'[n] = table[n]
    BY <1>2, <1>3, <1>7
  <2> QED  BY <1>1, <1>2, <1>3, <2>1, <2>2 DEF WorkerOk, Found, Pending
<1>17. ASSUME NEW v \in Lanes, NEW u, Reports(lane[v], u)
       PROVE  Reports(lane[v], u)'
  <2>1. CASE v = w
    BY <1>2, <1>3, <1>17, <2>1 DEF m, Reports, SameBut
  <2>2. CASE v # w
    <3>1. lane'[v] = lane[v]
      BY <1>5, <2>2
    <3> QED  BY <1>3, <1>17, <3>1 DEF Reports, SameBut
  <2> QED  BY <2>1, <2>2
<1>19. \A v \in Lanes : \/ lane'[v] = lane[v]
                        \/ /\ v = w /\ lane[v].at = "found" /\ lane'[v].at = "written"
                           /\ lane'[v].does = lane[v].does
  BY <1>2, <1>5
<1>11. PollOk'
  BY <1>1, <1>4, <1>16, <1>17, <1>19 DEF PollOk, Appends
<1>18. StopOk'
  BY <1>1, <1>2, <1>4, <1>16, <1>17, <1>19 DEF StopOk, StopGoesOn
<1>12. ASSUME NEW t \in Tools
       PROVE  ToolOk(t)'
  BY <1>1, <1>2, <1>4, <1>17, <1>19 DEF ToolOk
<1>13. ASSUME NEW v \in Lanes
       PROVE  DeltaOk(v)'
  BY <1>1, <1>2, <1>5 DEF DeltaOk, Pending
<1>14. OneAppend'
  <2>1. Appends(w)' => Appends(w)
    BY <1>2 DEF Appends
  <2> QED  BY <1>2, <2>1, OneAppendKept
<1>15. MessagesOk'
  <2>1. Ended' => Ended
    <3>1. lane'[Worker] = lane[Worker]
      BY <1>4, <1>5
    <3> QED  BY <1>2, <3>1 DEF Ended, Pending
  <2>2. \A n \in Messages : HasCalls(n)' <=> HasCalls(n)
    BY <1>3 DEF HasCalls, SameBut
  <2>3. \A n \in Messages' : HasCalls(n)' => table'[n].role = "assistant" /\ table'[n].status = "complete"
    BY <1>1, <1>2, <1>3, <2>2 DEF MessagesOk, SameBut
  <2>4. \A n, k \in Streaming' : n = k
    BY <1>1, <1>3 DEF MessagesOk
  <2>5. ASSUME prompts' = 1, at' \notin {"settles", "settled", "rest"}, Ended'
        PROVE  \E n \in Answers' : DOMAIN table'[n].calls = Tools
    BY <1>1, <1>2, <1>3, <2>1, <2>5 DEF MessagesOk, SameBut
  <2> QED  BY <2>3, <2>4, <2>5 DEF MessagesOk
<1> QED  BY <1>1, <1>5, <1>8, <1>9, <1>10, <1>11, <1>12, <1>13, <1>14, <1>15, <1>18 DEF LogInv

(* The row of the session is saved, and the lane that does it is done.     *)
LEMMA SaveKeeps ==
    ASSUME LogInv, NEW w \in {Worker, Poll}, lane[w].at \in {"cursor", "stuck"},
           status' \in Statuses, column' \in Nat,
           UNCHANGED <<table, log, counter, prompts, call, client, mishaps, overlapped,
                       stop, cancelled, late>>,
           lane' \in [Lanes -> LaneStates], Elsewhere(w), lane'[w] = Free,
           w = Poll => at' = at,
           \/ at = "settles" /\ at' = "settled" /\ status' # "processing"
           \/ at = "errs" /\ at' = "failed" /\ status' # "processing"
           \/ at = "idles" /\ at' = "rest"
           \/ at' = at /\ ~ Smooth
    PROVE  LogInv'
<1>1. /\ TypeOK /\ PlaceOk /\ MessagesOk /\ OneAppend /\ WorkerOk /\ PollOk /\ StopOk
      /\ IsFiniteSet(Sequences) /\ (\A t \in Tools : ToolOk(t)) /\ (\A v \in Lanes : DeltaOk(v))
  BY Parts
<1>2. /\ UNCHANGED <<table, log, prompts, mishaps>>
      /\ at' = at \/ (at \in {"settles", "errs", "idles"} /\ at' \in {"settled", "failed", "rest"})
      /\ at' = "rest" => at = "idles" \/ at = "rest"
  OBVIOUS
<1>3. /\ Messages' = Messages /\ Answers' = Answers /\ Streaming' = Streaming
      /\ \A m : HasCalls(m)' <=> HasCalls(m)
      /\ \A l, t : Reports(l, t)' <=> Reports(l, t)
      /\ \A t : Calling(t)' = Calling(t)
      /\ Sequences' = Sequences
  BY <1>2, TableStays DEF Sequences
<1>4. /\ Worker \in Lanes /\ Poll \in Lanes /\ Stop \in Lanes /\ Tools \subseteq Lanes
      /\ Worker \notin Tools /\ Poll \notin Tools /\ Stop \notin Tools
      /\ Worker # Poll /\ Worker # Stop /\ Poll # Stop
      /\ Free.at = "free" /\ Free.deltas = <<>> /\ w \in Lanes /\ prompts > 0
  BY Parts, LanesAre, FreeLane
<1>5. /\ \A v \in Lanes : v # w => lane'[v] = lane[v]
      /\ \A k : Happened(k)' <=> Happened(k)
  BY MishapsStay DEF Elsewhere
<1>6. at' # at => \A t \in Tools : lane[t].at = "free"
  BY <1>2, NobodyReports
<1>7. TypeOK'
  BY <1>1, <1>2, <1>3 DEF TypeOK
<1>8. PlaceOk'
  <2>1. Smooth' => Smooth
    BY <1>5 DEF Smooth
  <2>2. cancelled => ~ Smooth
    BY <1>1 DEF StopOk, Smooth
  <2>3. at = "idles" => cancelled
    BY <1>1 DEF PlaceOk
  <2>4. Smooth' => (status' # "processing" <=> at' \in {"rest", "settled", "failed"})
    BY <1>1, <2>1, <2>2, <2>3 DEF PlaceOk
  <2> QED  BY <1>1, <1>2, <1>4, <2>4 DEF PlaceOk
<1>9. MessagesOk'
  <2>1. Ended' /\ at' \notin {"settles", "settled", "rest"}
          => Ended /\ at \notin {"settles", "settled", "rest"}
    BY <1>2, <1>4, <1>5 DEF Ended, Pending
  <2> QED  BY <1>1, <1>3, <2>1 DEF MessagesOk
<1>10. WorkerOk'
  <2>1. CASE w = Worker
    BY <1>4, <2>1 DEF WorkerOk, Pending
  <2>2. CASE w = Poll
    <3>1. lane'[Worker] = lane[Worker] /\ at' = at
      BY <1>4, <1>5, <2>2
    <3> QED  BY <1>1, <1>2, <1>3, <3>1 DEF WorkerOk, Found, Pending
  <2> QED  BY <2>1, <2>2
<1>11. PollOk' /\ StopOk'
  BY <1>1, <1>3, <1>4, <1>5 DEF PollOk, Appends, StopOk
<1>12. ASSUME NEW t \in Tools
       PROVE  ToolOk(t)'
  <2>1. lane'[t] = lane[t]
    BY <1>4, <1>5
  <2> QED  BY <1>1, <1>3, <1>6, <2>1 DEF ToolOk
<1>13. ASSUME NEW v \in Lanes
       PROVE  DeltaOk(v)'
  BY <1>1, <1>4, <1>5 DEF DeltaOk, Pending
<1>14. OneAppend'
  <2>1. ~ Appends(w)'
    BY <1>4 DEF Appends
  <2> QED  BY <1>4, <2>1, OneAppendKept
<1> QED  BY <1>1, <1>3, <1>7, <1>8, <1>9, <1>10, <1>11, <1>12, <1>13, <1>14 DEF LogInv

LEMMA SettleKeeps == ASSUME LogInv, Settle PROVE LogInv'
<1>1. TypeOK /\ WorkerOk
  BY Parts
<1>2. /\ lane[Worker].at = "cursor"
      /\ \/ at = "settles" /\ at' = "settled"
         \/ at = "errs" /\ at' = "failed"
         \/ at = "idles" /\ at' = "rest"
      /\ status' \in {"idle", "error"} /\ column' \in Nat
      /\ UNCHANGED <<table, log, counter, prompts, call, client, mishaps, overlapped,
                     stop, cancelled, late>>
      /\ lane' \in [Lanes -> LaneStates] /\ Elsewhere(Worker) /\ lane'[Worker] = Free
  BY <1>1, SettleMoves
<1>3. status' \in Statuses /\ status' # "processing" /\ Worker \in {Worker, Poll} /\ Worker # Poll
  BY <1>2, LanesAre DEF Statuses
<1> QED  BY <1>2, <1>3, SaveKeeps

LEMMA SaveStuckKeeps == ASSUME LogInv, SaveStuck PROVE LogInv'
<1>1. TypeOK /\ PollOk
  BY Parts
<1>2. /\ lane[Poll].at = "stuck" /\ status' = "error" /\ column' \in Nat
      /\ UNCHANGED <<table, log, counter, prompts, at, call, client, mishaps, overlapped,
                     stop, cancelled, late>>
      /\ lane' \in [Lanes -> LaneStates] /\ Elsewhere(Poll) /\ lane'[Poll] = Free
  BY <1>1, SaveStuckMoves
<1>3. ~ Smooth /\ status' \in Statuses /\ Poll \in {Worker, Poll}
  BY <1>1, <1>2 DEF PollOk, Smooth, Statuses
<1> QED  BY <1>2, <1>3, SaveKeeps

LEMMA CutKeeps == ASSUME LogInv, Cut PROVE LogInv'
<1>1. /\ TypeOK /\ PlaceOk /\ MessagesOk /\ OneAppend /\ WorkerOk /\ PollOk /\ StopOk
      /\ IsFiniteSet(Sequences) /\ (\A t \in Tools : ToolOk(t)) /\ (\A v \in Lanes : DeltaOk(v))
  BY Parts
<1>2. /\ at # "rest" /\ lane' \in [Lanes -> LaneStates]
      /\ \A w \in {Poll, Stop} : lane'[w] = lane[w]
      /\ \A w \in Lanes \ {Poll, Stop} : lane'[w] = Free
      /\ UNCHANGED <<table, log, counter, column, status, prompts, client, overlapped,
                     stop, cancelled, late>>
      /\ mishaps' \in Seq({"fault", "silence", "cut", "drop", "stop", "stuck"})
      /\ \A k : Happened(k)' <=> Happened(k) \/ k = "cut"
      /\ at' \in {"asks", "tools", "settles", "rest"}
      /\ at' = "tools" => at = "tools"
      /\ at' = "rest" <=> cancelled
      /\ call' \in [Tools -> {"nothing", "runs", "returns", "over"}]
  BY <1>1, CutMoves
<1>3. /\ Messages' = Messages /\ Answers' = Answers /\ Streaming' = Streaming
      /\ \A m : HasCalls(m)' <=> HasCalls(m)
      /\ \A l, t : Reports(l, t)' <=> Reports(l, t)
      /\ \A t : Calling(t)' = Calling(t)
      /\ Sequences' = Sequences
  BY <1>2, TableStays DEF Sequences
<1>4. /\ Worker \in Lanes /\ Poll \in Lanes /\ Tools \subseteq Lanes
      /\ Worker # Poll /\ Worker # Stop /\ Poll \notin Tools /\ Stop \notin Tools
      /\ Free.at = "free" /\ Free.deltas = <<>> /\ prompts > 0
  BY <1>2, Parts, LanesAre, FreeLane
<1>5. lane'[Worker] = Free /\ \A t \in Tools : lane'[t] = Free
  BY <1>2, <1>4
<1>6. TypeOK'
  BY <1>1, <1>2, <1>3 DEF TypeOK
<1>7. PlaceOk'
  BY <1>1, <1>2, <1>4 DEF PlaceOk, Smooth
<1>8. MessagesOk'
  <2>1. Ended' /\ at' \notin {"settles", "settled", "rest"}
          => Ended /\ at \notin {"settles", "settled", "rest"}
    BY <1>2, <1>4, <1>5 DEF Ended, Pending
  <2> QED  BY <1>1, <1>2, <1>3, <2>1 DEF MessagesOk
<1>9. WorkerOk' /\ (\A t \in Tools : ToolOk(t)')
  BY <1>4, <1>5 DEF WorkerOk, Pending, ToolOk
<1>10. PollOk' /\ StopOk'
  BY <1>1, <1>2, <1>3 DEF PollOk, StopOk, Appends
<1>11. \A v \in Lanes : lane'[v] = Free \/ lane'[v] = lane[v]
  BY <1>2, <1>4
<1>12. ASSUME NEW v \in Lanes
       PROVE  DeltaOk(v)'
  BY <1>1, <1>4, <1>11 DEF DeltaOk, Pending
<1>13. OneAppend'
  BY <1>1, <1>2, <1>4, <1>11 DEF OneAppend, Appends
<1> QED  BY <1>1, <1>3, <1>6, <1>7, <1>8, <1>9, <1>10, <1>12, <1>13 DEF LogInv

(* A request to stop reads a message its call is in,                       *)
LEMMA StopFindsMoves ==
    ASSUME LogInv, NEW t \in Tools, StopFinds(t)
    PROVE  /\ stop.at = "calls" /\ t \in stop.calls
           /\ UNCHANGED <<table, log, counter, column, status, prompts, at, call, client, mishaps,
                          stop, cancelled, late>>
           /\ lane' \in [Lanes -> LaneStates] /\ Elsewhere(Stop)
           /\ lane'[Stop].at = "found" /\ lane'[Stop].does = t
           /\ Reports(lane'[Stop], t) /\ lane'[Stop].deltas = lane[Stop].deltas
           /\ Alone(Stop)
<1> DEFINE m == Latest(Calling(t))
<1>1. /\ stop.at = "calls" /\ t \in stop.calls
      /\ UNCHANGED <<table, log, counter, column, status, prompts, at, call, client, mishaps,
                     stop, cancelled, late>>
      /\ Begin(Stop, t, m)
  BY DEF StopFinds, Keep
<1>2. TypeOK /\ Stop \in Lanes /\ Calling(t) # {}
  BY <1>1, LanesAre DEF LogInv, StopOk
<1>3. m \in Calling(t) /\ Calling(t) \subseteq Answers /\ Answers \subseteq Messages /\ m # NoMessage
  <2>1. Calling(t) \subseteq Answers /\ Answers \subseteq Messages /\ Messages \subseteq Nat \ {0}
    BY <1>2, TableIs DEF Calling
  <2>2. Calling(t) \subseteq Messages
    BY <2>1
  <2>3. m \in {NoMessage} \cup Calling(t) /\ (m = NoMessage <=> Calling(t) = {})
    BY <1>2, <2>2, LatestMessage
  <2> QED  BY <1>2, <2>1, <2>3
<1> HIDE DEF m
<1>4. /\ t \in {"asks", "starts", "updates", "ends", "runs", "returns"} \cup Tools
      /\ m \in {NoMessage} \cup Messages
  BY <1>3
<1>5. /\ lane' \in [Lanes -> LaneStates] /\ Elsewhere(Stop)
      /\ lane'[Stop].at = "found" /\ lane'[Stop].does = t /\ lane'[Stop].id = m
      /\ m # NoMessage => lane'[Stop].copy = {table[m]}
      /\ lane'[Stop].deltas = lane[Stop].deltas
      /\ Alone(Stop)
  BY <1>1, <1>2, <1>4, BeginMoves
<1>6. Reports(lane'[Stop], t)
  BY <1>3, <1>5 DEF Reports, SameBut, Calling
<1> QED  BY <1>1, <1>5, <1>6

LEMMA StopFindsKeeps == ASSUME LogInv, NEW t \in Tools, StopFinds(t) PROVE LogInv'
<1>1. TypeOK /\ StopOk /\ DeltaOk(Stop) /\ Stop \in Lanes /\ Stop # Worker /\ Stop # Poll /\ Stop \notin Tools
  BY Parts, LanesAre
<1>2. /\ stop.at = "calls" /\ t \in stop.calls
      /\ UNCHANGED <<table, log, counter, column, status, prompts, at, call, client, mishaps,
                     stop, cancelled, late>>
      /\ lane' \in [Lanes -> LaneStates] /\ Elsewhere(Stop)
      /\ lane'[Stop].at = "found" /\ lane'[Stop].does = t
      /\ Reports(lane'[Stop], t) /\ lane'[Stop].deltas = lane[Stop].deltas
      /\ Alone(Stop)
  BY StopFindsMoves
<1>3. prompts > 0
  <2>1. Answers # {}
    BY <1>2 DEF Reports
  <2> QED  BY <2>1, Parts
<1>4. /\ overlapped' \in BOOLEAN /\ counter' \in Nat \ {0}
      /\ mishaps' \in Seq({"fault", "silence", "cut", "drop", "stop", "stuck"})
      /\ \A k : Happened(k)' <=> Happened(k)
  BY <1>1, <1>2, MishapsStay DEF TypeOK, Alone
<1>5. DeltaOk(Stop)'
  BY <1>2 DEF DeltaOk, Pending
<1>6. StopOk'
  BY <1>1, <1>2, <1>4, TableStays DEF StopOk
<1> QED  BY <1>1, <1>2, <1>3, <1>4, <1>5, <1>6, LaneStep

(* and does the rest on the rows of the session and of its run.            *)
StopMoves == StopSession \/ FindCalls \/ FindRun \/ CancelRun \/ SaveStopped

LEMMA StopMovesOn ==
    ASSUME LogInv, StopMoves
    PROVE  /\ UNCHANGED <<table, log, counter, prompts, at, call, lane, client, overlapped, late>>
           /\ stop' \in StopStates /\ prompts > 0 /\ (stop'.at # "none" => Happened("stop")')
           /\ \A t \in stop'.calls : Calling(t) # {}
           /\ cancelled' \in BOOLEAN /\ (cancelled => cancelled')
           /\ cancelled' => stop'.at \in {"saves", "over"}
           /\ lane[Stop].at # "free" => stop'.at = "calls"
           /\ mishaps' \in Seq({"fault", "silence", "cut", "drop", "stop", "stuck"})
           /\ \A k : Happened(k) => Happened(k)'
           /\ UNCHANGED <<status, column>> \/ (status' = "idle" /\ column' = stop.column /\ ~ Smooth)
           /\ stop'.column \in {0, stop.column, column}
<1>1. TypeOK /\ PlaceOk /\ StopOk /\ stop \in StopStates /\ prompts \in Nat /\ stop.calls \subseteq Tools
  BY Parts DEF TypeOK, StopStates
<1>2. stop.at # "none" => prompts > 0 /\ Happened("stop") /\ ~ Smooth
  BY <1>1 DEF PlaceOk, StopOk, Smooth
<1>3. UNCHANGED mishaps => /\ mishaps' \in Seq({"fault", "silence", "cut", "drop", "stop", "stuck"})
                           /\ \A k : Happened(k)' <=> Happened(k)
  BY <1>1, MishapsStay DEF TypeOK
<1>4. CASE StopSession
  <2>1. /\ stop.at = "none" /\ prompts > 0 /\ Mishap("stop")
        /\ stop' = [at |-> "reads", column |-> column, calls |-> {}]
        /\ UNCHANGED <<table, log, counter, column, status, prompts, at, call, lane, cancelled,
                       client, overlapped, late>>
    BY <1>4 DEF StopSession
  <2>2. /\ mishaps' \in Seq({"fault", "silence", "cut", "drop", "stop", "stuck"})
        /\ \A k : Happened(k)' <=> Happened(k) \/ k = "stop"
    BY <1>1, <2>1, MishapAdds
  <2>3. /\ stop' \in StopStates /\ stop'.at = "reads" /\ stop'.calls = {} /\ stop'.column = column
    BY <1>1, <2>1 DEF StopStates, TypeOK
  <2>4. lane[Stop].at = "free" /\ ~ cancelled
    BY <1>1, <2>1 DEF StopOk
  <2> QED  BY <1>1, <2>1, <2>2, <2>3, <2>4 DEF TypeOK
<1>5. CASE FindCalls
  <2>1. PICK calls \in {{}, Tools} :
            /\ calls = {} \/ AnswerStored
            /\ stop' = [stop EXCEPT !.at = IF calls = {} THEN "looks" ELSE "calls",
                                    !.calls = calls]
    BY <1>5 DEF FindCalls
  <2>2. /\ stop.at = "reads"
        /\ UNCHANGED <<table, log, counter, column, status, prompts, at, call, lane, cancelled,
                       overlapped, late, client, mishaps>>
    BY <1>5 DEF FindCalls
  <2>3. /\ stop' \in StopStates /\ stop'.at \in {"calls", "looks"} /\ stop'.calls = calls
        /\ stop'.column = stop.column
    BY <1>1, <2>1 DEF StopStates
  <2>4. \A t \in calls : Calling(t) # {}
    BY <2>1 DEF AnswerStored
  <2>5. ~ cancelled /\ cancelled \in BOOLEAN /\ prompts > 0 /\ lane[Stop].at = "free"
    BY <1>1, <1>2, <2>2 DEF StopOk, TypeOK
  <2>6. Happened("stop")' /\ \A k : Happened(k) => Happened(k)'
    BY <1>2, <1>3, <2>2
  <2> QED  BY <1>3, <2>2, <2>3, <2>4, <2>5, <2>6
<1>6. CASE FindRun
  <2>1. /\ stop.at \in {"looks", "calls"} /\ lane[Stop].at = "free"
        /\ stop' = [stop EXCEPT !.at = IF at # "rest" THEN "cancels"
                                       ELSE IF stop.at = "calls" THEN "saves" ELSE "none"]
        /\ UNCHANGED <<table, log, counter, column, status, prompts, at, call, lane, cancelled,
                       overlapped, late, client, mishaps>>
    BY <1>6 DEF FindRun, StopGoes
  <2>2. /\ stop' \in StopStates /\ stop'.at \in {"cancels", "saves", "none"}
        /\ stop'.calls = stop.calls
        /\ stop'.column = stop.column
    BY <1>1, <2>1 DEF StopStates
  <2>3. /\ ~ cancelled /\ cancelled \in BOOLEAN /\ prompts > 0
        /\ \A t \in stop.calls : Calling(t) # {}
    BY <1>1, <1>2, <2>1 DEF StopOk, TypeOK
  <2>4. Happened("stop")' /\ \A k : Happened(k) => Happened(k)'
    BY <1>2, <1>3, <2>1
  <2> QED  BY <1>3, <2>1, <2>2, <2>3, <2>4
<1>7. CASE CancelRun
  <2>1. /\ stop.at = "cancels" /\ cancelled' = TRUE
        /\ stop' = [stop EXCEPT !.at = "saves"]
        /\ UNCHANGED <<table, log, counter, column, status, prompts, at, call, lane,
                       overlapped, late, client, mishaps>>
    BY <1>7 DEF CancelRun, StopGoes
  <2>2. stop' \in StopStates /\ stop'.at = "saves" /\ stop'.calls = stop.calls /\ stop'.column = stop.column
    BY <1>1, <2>1 DEF StopStates
  <2>3. lane[Stop].at = "free"
    BY <1>1, <2>1 DEF StopOk
  <2> QED  BY <1>1, <1>2, <1>3, <2>1, <2>2, <2>3 DEF StopOk
<1>8. CASE SaveStopped
  <2>1. /\ stop.at = "saves" /\ status' = "idle" /\ column' = stop.column
        /\ stop' = [at |-> "over", column |-> 0, calls |-> {}]
        /\ UNCHANGED <<table, log, counter, prompts, at, call, lane, cancelled,
                       overlapped, late, client, mishaps>>
    BY <1>8 DEF SaveStopped
  <2>2. stop' \in StopStates /\ stop'.at = "over" /\ stop'.calls = {} /\ stop'.column = 0
    BY <2>1 DEF StopStates
  <2>3. lane[Stop].at = "free" /\ cancelled \in BOOLEAN
    BY <1>1, <2>1 DEF StopOk, TypeOK
  <2> QED  BY <1>1, <1>2, <1>3, <2>1, <2>2, <2>3
<1> QED  BY <1>4, <1>5, <1>6, <1>7, <1>8 DEF StopMoves

LEMMA StopMovesKeep == ASSUME LogInv, StopMoves PROVE LogInv'
<1>1. /\ TypeOK /\ PlaceOk /\ MessagesOk /\ OneAppend /\ WorkerOk /\ PollOk /\ StopOk
      /\ IsFiniteSet(Sequences) /\ (\A t \in Tools : ToolOk(t)) /\ (\A v \in Lanes : DeltaOk(v))
  BY Parts
<1>2. /\ UNCHANGED <<table, log, counter, prompts, at, call, lane, client, overlapped, late>>
      /\ stop' \in StopStates /\ prompts > 0 /\ (stop'.at # "none" => Happened("stop")')
      /\ \A t \in stop'.calls : Calling(t) # {}
      /\ cancelled' \in BOOLEAN /\ (cancelled => cancelled')
      /\ cancelled' => stop'.at \in {"saves", "over"}
      /\ lane[Stop].at # "free" => stop'.at = "calls"
      /\ mishaps' \in Seq({"fault", "silence", "cut", "drop", "stop", "stuck"})
      /\ \A k : Happened(k) => Happened(k)'
      /\ UNCHANGED <<status, column>> \/ (status' = "idle" /\ column' = stop.column /\ ~ Smooth)
  BY StopMovesOn
<1>3. /\ Messages' = Messages /\ Answers' = Answers /\ Streaming' = Streaming
      /\ \A m : HasCalls(m)' <=> HasCalls(m)
      /\ \A l, t : Reports(l, t)' <=> Reports(l, t)
      /\ \A t : Calling(t)' = Calling(t)
      /\ Sequences' = Sequences
  BY <1>2, TableStays DEF Sequences
<1>5. TypeOK'
  <2>1. status' \in Statuses /\ column' \in Nat
    BY <1>1, <1>2 DEF TypeOK, Statuses
  <2> QED  BY <1>1, <1>2, <1>3, <2>1 DEF TypeOK, StopStates
<1>6. PlaceOk'
  <2>1. Smooth' => Smooth
    BY <1>2 DEF Smooth
  <2> QED  BY <1>1, <1>2, <2>1 DEF PlaceOk
<1>7. MessagesOk'
  <2>1. Ended' => Ended
    BY <1>2 DEF Ended, Pending
  <2> QED  BY <1>1, <1>2, <1>3, <2>1 DEF MessagesOk
<1>8. WorkerOk' /\ PollOk' /\ (\A t \in Tools : ToolOk(t)')
  BY <1>1, <1>2, <1>3 DEF WorkerOk, Found, Pending, PollOk, Appends, ToolOk
<1>9. StopOk'
  BY <1>1, <1>2, <1>3 DEF StopOk
<1>10. OneAppend' /\ (\A v \in Lanes : DeltaOk(v)')
  BY <1>1, <1>2 DEF OneAppend, Appends, DeltaOk, Pending
<1> QED  BY <1>1, <1>3, <1>5, <1>6, <1>7, <1>8, <1>9, <1>10 DEF LogInv

-----------------------------------------------------------------------------
(* What the client does *)

LEMMA ClientFields ==
    ASSUME NEW c \in ClientStates
    PROVE  /\ c.at \in {"off", "opening", "on", "asked", "done"}
           /\ c.row \in SUBSET [status : Statuses, column : Nat]
           /\ c.cursor \in Nat /\ c.oldest \in Nat /\ c.got \in SUBSET Nat
  BY DEF ClientStates

LEMMA OpenMoves ==
    ASSUME TypeOK, Open
    PROVE  /\ prompts > 0 /\ UNCHANGED <<server, mishaps, overlapped, late>>
           /\ client' \in ClientStates /\ client'.at = "opening"
           /\ client'.row = {[status |-> status, column |-> column]}
           /\ client'.cursor = client.cursor
<1> DEFINE r == Row
<1>1. client \in ClientStates /\ status \in Statuses /\ column \in Nat
  BY DEF TypeOK
<1>2. r \in [status : Statuses, column : Nat]
  BY <1>1 DEF Row
<1>3. /\ prompts > 0 /\ UNCHANGED <<server, mishaps, overlapped, late>>
      /\ client' = [client EXCEPT !.at = "opening", !.row = {r}]
  BY DEF Open
<1> HIDE DEF r
<1>4. {r} \in SUBSET [status : Statuses, column : Nat]
  BY <1>2
<1>5. /\ client' \in ClientStates /\ client'.at = "opening" /\ client'.row = {r}
      /\ client'.cursor = client.cursor
  BY <1>1, <1>3, <1>4 DEF ClientStates
<1> QED  BY <1>3, <1>5 DEF r, Row

LEMMA AskMoves ==
    ASSUME TypeOK, Ask
    PROVE  /\ client.at = "on" /\ UNCHANGED <<server, mishaps, overlapped, late>>
           /\ client' \in ClientStates /\ client'.at = "asked"
           /\ client'.row = {[status |-> status, column |-> column]}
           /\ client'.cursor = client.cursor
           /\ client'.oldest = client.oldest /\ client'.got = client.got
<1> DEFINE r == Row
<1>1. client \in ClientStates /\ status \in Statuses /\ column \in Nat
  BY DEF TypeOK
<1>2. r \in [status : Statuses, column : Nat]
  BY <1>1 DEF Row
<1>3. /\ client.at = "on" /\ UNCHANGED <<server, mishaps, overlapped, late>>
      /\ client' = [client EXCEPT !.at = "asked", !.row = {r}]
  BY DEF Ask
<1> HIDE DEF r
<1>4. {r} \in SUBSET [status : Statuses, column : Nat]
  BY <1>2
<1>5. /\ client' \in ClientStates /\ client'.at = "asked" /\ client'.row = {r}
      /\ client'.cursor = client.cursor /\ client'.oldest = client.oldest /\ client'.got = client.got
  BY <1>1, <1>3, <1>4 DEF ClientStates
<1> QED  BY <1>3, <1>5 DEF r, Row

LEMMA DropMoves ==
    ASSUME TypeOK, Drop
    PROVE  /\ client.at = "asked" /\ UNCHANGED <<server, overlapped, late>>
           /\ client' \in ClientStates /\ client'.at = "on" /\ client'.cursor = client.cursor
           /\ client'.oldest = client.oldest /\ client'.got = client.got
           /\ mishaps' \in Seq({"fault", "silence", "cut", "drop", "stop", "stuck"})
           /\ \A k : Happened(k)' <=> Happened(k) \/ k = "drop"
<1> DEFINE none == {}
<1>1. client \in ClientStates
  BY DEF TypeOK
<1>2. /\ client.at = "asked" /\ UNCHANGED <<server, overlapped, late>> /\ Mishap("drop")
      /\ client' = [client EXCEPT !.at = "on", !.row = none]
  BY DEF Drop
<1>3. none \in SUBSET [status : Statuses, column : Nat]
  OBVIOUS
<1> HIDE DEF none
<1>4. /\ client' \in ClientStates /\ client'.at = "on" /\ client'.cursor = client.cursor
      /\ client'.oldest = client.oldest /\ client'.got = client.got
  BY <1>1, <1>2, <1>3 DEF ClientStates
<1> QED  BY <1>2, <1>4, MishapAdds

(* The last page leaves nothing out above its first event.                 *)
LEMMA GetTailMoves ==
    ASSUME TypeOK, IsFiniteSet(Sequences), RowOk, GetTail
    PROVE  /\ client.at = "opening" /\ UNCHANGED <<server, mishaps, overlapped, late>>
           /\ client' \in ClientStates
           /\ \E r \in client.row : client'.at = IF r.status = "processing" THEN "on" ELSE "done"
           /\ \E r \in client.row : client'.cursor = r.column
           /\ client'.got \subseteq Sequences
           /\ \A s \in Sequences : client'.oldest <= s => s \in client'.got
<1> DEFINE page   == ListRecent
           oldest == IF page = {} THEN 1 ELSE Min(page)
           none   == {}
<1>1. client \in ClientStates /\ client.at = "opening" /\ Sequences \in SUBSET Nat
  BY DEF TypeOK, GetTail
<1>2. PICK r \in [status : Statuses, column : Nat] : client.row = {r}
  BY <1>1 DEF RowOk
<1>3. (CHOOSE x \in client.row : TRUE) = r
  BY <1>2
<1> DEFINE a == IF r.status = "processing" THEN "on" ELSE "done"
           cursor == r.column
<1>4. /\ UNCHANGED <<server, mishaps, overlapped, late>>
      /\ client' = [client EXCEPT !.at = a, !.row = none, !.cursor = cursor, !.oldest = oldest,
                                  !.got = page]
  BY <1>3 DEF GetTail, TailCursor
<1>5. PageSize \in Nat \ {0}
  BY PageHoldsSomething
<1>6. /\ page \subseteq Sequences /\ IsFiniteSet(page)
      /\ \A x \in page, y \in Sequences : x <= y => y \in page
      /\ page = {} => Sequences = {}
  BY <1>1, <1>5, HighestPage DEF ListRecent
<1> HIDE DEF page
<1>7. oldest \in Nat /\ (page # {} => oldest \in page)
  BY <1>1, <1>6, Least
<1>8. \A s \in Sequences : oldest <= s => s \in page
  BY <1>6, <1>7
<1> HIDE DEF oldest
<1>9. /\ a \in {"opening", "on", "asked", "done"} /\ cursor \in Nat /\ page \in SUBSET Nat
      /\ none \in SUBSET [status : Statuses, column : Nat]
  BY <1>1, <1>2, <1>6
<1> HIDE DEF a, cursor, none
<1>10. /\ client' \in ClientStates /\ client'.at = a /\ client'.cursor = cursor
       /\ client'.oldest = oldest /\ client'.got = page
  BY <1>1, <1>4, <1>7, <1>9 DEF ClientStates
<1>11. r \in client.row
  BY <1>2
<1> QED  BY <1>1, <1>4, <1>6, <1>8, <1>10, <1>11 DEF a, cursor

(* A page leaves nothing out between the cursors.                          *)
LEMMA GetPageMoves ==
    ASSUME TypeOK, IsFiniteSet(Sequences), RowOk, GetPage
    PROVE  /\ client.at = "asked" /\ UNCHANGED <<server, mishaps, overlapped, late>>
           /\ client' \in ClientStates /\ client'.at \in {"on", "done"}
           /\ client'.at = "done" => /\ \E r \in client.row : r.status # "processing"
                                     /\ \A s \in Sequences : client.cursor < s => s \in client'.got
           /\ client'.cursor \in {client.cursor} \cup Sequences /\ client'.oldest = client.oldest
           /\ client.got \subseteq client'.got
           /\ \A s \in Sequences : client.cursor < s /\ s <= client'.cursor => s \in client'.got
<1> DEFINE later  == {s \in Sequences : s > client.cursor}
           page   == ListSince(client.cursor)
           none   == {}
           cursor == IF page = {} THEN client.cursor ELSE Max(page)
           got    == client.got \cup page
<1>1. /\ client \in ClientStates /\ client.at = "asked" /\ Sequences \in SUBSET Nat
      /\ client.cursor \in Nat /\ client.oldest \in Nat /\ client.got \in SUBSET Nat
  BY ClientFields DEF TypeOK, GetPage
<1>2. PICK r \in [status : Statuses, column : Nat] : client.row = {r}
  BY <1>1 DEF RowOk
<1>3. (CHOOSE x \in client.row : TRUE) = r
  BY <1>2
<1> DEFINE a == IF Complete(r, page) THEN "done" ELSE "on"
<1>4. /\ UNCHANGED <<server, mishaps, overlapped, late>>
      /\ client' = [client EXCEPT !.at = a, !.row = none, !.cursor = cursor, !.got = got]
  BY <1>1, <1>3 DEF GetPage, ClientStates
<1>5. later \in SUBSET Nat /\ later \subseteq Sequences /\ IsFiniteSet(later) /\ PageSize \in Nat
  BY <1>1, FS_Subset, PageHoldsSomething
<1>6. /\ page \subseteq later /\ IsFiniteSet(page)
      /\ \A x \in page, y \in later : y <= x => y \in page
      /\ Cardinality(page) < PageSize => page = later
  <2>1. page = Lowest(PageSize, later)
    BY DEF ListSince
  <2> HIDE DEF later, page
  <2> QED  BY <1>5, <2>1, LowestPage
<1>7. /\ a \in {"opening", "on", "asked", "done"} /\ a \in {"on", "done"}
      /\ a = "done" => r.status # "processing" /\ page = later
  BY <1>6 DEF Complete
<1>8. \A s \in Sequences : s > client.cursor <=> s \in later
  OBVIOUS
<1> HIDE DEF page, later
<1>9. page # {} => Max(page) \in page /\ page \in SUBSET Nat
  BY <1>5, <1>6, Greatest
<1>10. /\ cursor \in Nat /\ cursor \in {client.cursor} \cup Sequences
       /\ got \in SUBSET Nat
       /\ none \in SUBSET [status : Statuses, column : Nat]
  BY <1>1, <1>5, <1>6, <1>9
<1>11. ASSUME NEW s \in Sequences, client.cursor < s, s <= cursor
       PROVE  s \in page
  <2>1. s \in Nat /\ s \in later
    BY <1>1, <1>8, <1>11
  <2>2. page # {}
    <3>1. ASSUME page = {}
          PROVE  FALSE
      BY <1>1, <1>11, <2>1, <3>1
    <3> QED  BY <3>1
  <2> QED  BY <1>6, <1>9, <1>11, <2>1, <2>2
<1>12. a = "done" => \A s \in Sequences : client.cursor < s => s \in page
  <2>1. \A s \in Sequences : client.cursor < s <=> s > client.cursor
    BY <1>1
  <2> QED  BY <1>7, <1>8, <2>1
<1> HIDE DEF a, cursor, got, none
<1>13. /\ client' \in ClientStates /\ client'.at = a /\ client'.cursor = cursor
       /\ client'.oldest = client.oldest /\ client'.got = got
  BY <1>1, <1>4, <1>7, <1>10 DEF ClientStates
<1>14. client.got \subseteq got /\ page \subseteq got /\ r \in client.row
  BY <1>2 DEF got
<1> QED  BY <1>1, <1>4, <1>7, <1>10, <1>11, <1>12, <1>13, <1>14

(* Nor does a page of older events, down to its first.                     *)
LEMMA LoadOlderMoves ==
    ASSUME TypeOK, IsFiniteSet(Sequences), LoadOlder
    PROVE  /\ client.at \in {"on", "done"} /\ UNCHANGED <<server, mishaps, overlapped, late>>
           /\ client' \in ClientStates /\ client'.at = client.at /\ client'.cursor = client.cursor
           /\ client.got \subseteq client'.got
           /\ \A s \in Sequences : client'.oldest <= s /\ s < client.oldest => s \in client'.got
<1> DEFINE older  == {s \in Sequences : s < client.oldest}
           page   == ListBefore(client.oldest)
           oldest == Min(page)
           got    == client.got \cup page
<1>1. /\ client \in ClientStates /\ Sequences \in SUBSET Nat /\ PageSize \in Nat \ {0}
      /\ client.cursor \in Nat /\ client.oldest \in Nat /\ client.got \in SUBSET Nat
  BY ClientFields, PageHoldsSomething DEF TypeOK
<1>2. /\ client.at \in {"on", "done"} /\ UNCHANGED <<server, mishaps, overlapped, late>> /\ page # {}
      /\ client' = [client EXCEPT !.oldest = oldest, !.got = got]
  BY <1>1 DEF LoadOlder, ClientStates
<1>3. older \in SUBSET Nat /\ older \subseteq Sequences /\ IsFiniteSet(older)
  BY <1>1, FS_Subset
<1>4. /\ page \subseteq older /\ IsFiniteSet(page)
      /\ \A x \in page, y \in older : x <= y => y \in page
  <2>1. page = Highest(PageSize, older)
    BY DEF ListBefore
  <2> HIDE DEF older, page
  <2> QED  BY <1>1, <1>3, <2>1, HighestPage
<1>5. \A s \in Sequences : s < client.oldest => s \in older
  OBVIOUS
<1> HIDE DEF older, page
<1>6. oldest \in page /\ page \in SUBSET Nat /\ oldest \in Nat
  BY <1>2, <1>3, <1>4, Least
<1> HIDE DEF oldest
<1>7. got \in SUBSET Nat /\ client.got \subseteq got /\ page \subseteq got
  BY <1>1, <1>6
<1> HIDE DEF got
<1>8. /\ client' \in ClientStates /\ client'.at = client.at /\ client'.cursor = client.cursor
      /\ client'.oldest = oldest /\ client'.got = got
  BY <1>1, <1>2, <1>6, <1>7 DEF ClientStates
<1>9. \A s \in Sequences : oldest <= s /\ s < client.oldest => s \in got
  BY <1>4, <1>5, <1>6, <1>7
<1> QED  BY <1>2, <1>7, <1>8, <1>9

LEMMA SubmitMoves ==
    ASSUME TypeOK, Submit
    PROVE  /\ client.at \in {"off", "done"} /\ status # "processing" /\ at = "rest"
           /\ status' = "processing" /\ prompts' = prompts + 1 /\ at' = "asks"
           /\ UNCHANGED <<table, log, counter, column, call, lane, mishaps, overlapped, stop,
                          cancelled, late>>
           /\ ~ cancelled
           /\ client' \in ClientStates /\ client'.at = "on" /\ client'.cursor = column
           /\ client'.oldest = client.oldest /\ client'.got = client.got
<1>1. client \in ClientStates /\ column \in Nat
  BY DEF TypeOK
<1>2. /\ client.at \in {"off", "done"} /\ status # "processing" /\ at = "rest"
      /\ status' = "processing" /\ prompts' = prompts + 1 /\ at' = "asks"
      /\ UNCHANGED <<table, log, counter, column, call, lane, mishaps, overlapped, stop,
                     cancelled, late>>
      /\ ~ cancelled
      /\ client' = [client EXCEPT !.at = "on", !.cursor = column]
  BY DEF Submit
<1>3. /\ client' \in ClientStates /\ client'.at = "on" /\ client'.cursor = column
      /\ client'.oldest = client.oldest /\ client'.got = client.got
  BY <1>1, <1>2 DEF ClientStates
<1> QED  BY <1>2, <1>3

LEMMA SubmitKeeps == ASSUME LogInv, Submit PROVE LogInv'
<1>1. /\ TypeOK /\ PlaceOk /\ MessagesOk /\ OneAppend /\ WorkerOk /\ PollOk /\ StopOk
      /\ IsFiniteSet(Sequences) /\ (\A t \in Tools : ToolOk(t)) /\ (\A v \in Lanes : DeltaOk(v))
      /\ prompts \in Nat
  BY Parts
<1>2. /\ at = "rest" /\ status' = "processing" /\ prompts' = prompts + 1 /\ at' = "asks"
      /\ UNCHANGED <<table, log, counter, column, call, lane, mishaps, overlapped, stop,
                     cancelled, late>>
      /\ client' \in ClientStates /\ client'.at = "on"
  BY <1>1, SubmitMoves
<1>3. /\ Messages' = Messages /\ Answers' = Answers /\ Streaming' = Streaming
      /\ \A m : HasCalls(m)' <=> HasCalls(m)
      /\ \A l, t : Reports(l, t)' <=> Reports(l, t)
      /\ \A t : Calling(t)' = Calling(t)
      /\ \A k : Happened(k)' <=> Happened(k)
      /\ Sequences' = Sequences
  BY <1>2, TableStays, MishapsStay DEF Sequences
<1>4. lane[Worker].at = "free" /\ \A t \in Tools : lane[t].at = "free"
  BY <1>2, NobodyReports
<1>5. prompts' \in Nat /\ prompts' > 0 /\ prompts' # 0
  BY <1>1, <1>2
<1>6. TypeOK'
  BY <1>1, <1>2, <1>3, <1>5 DEF TypeOK, Statuses
<1>7. PlaceOk'
  BY <1>2, <1>5 DEF PlaceOk, Smooth
<1>8. MessagesOk'
  <2>1. ~ Ended'
    BY <1>2 DEF Ended
  <2> QED  BY <1>1, <1>2, <1>3, <2>1 DEF MessagesOk
<1>9. WorkerOk' /\ PollOk' /\ StopOk' /\ (\A t \in Tools : ToolOk(t)')
  BY <1>1, <1>2, <1>3, <1>4 DEF WorkerOk, Pending, PollOk, Appends, StopOk, ToolOk
<1>10. OneAppend' /\ (\A v \in Lanes : DeltaOk(v)')
  BY <1>1, <1>2, <1>3 DEF OneAppend, Appends, DeltaOk, Pending
<1> QED  BY <1>1, <1>3, <1>6, <1>7, <1>8, <1>9, <1>10 DEF LogInv

LEMMA ClientKeeps ==
    ASSUME LogInv, RowOk, Open \/ Ask \/ GetTail \/ GetPage \/ LoadOlder \/ Drop
    PROVE  LogInv' /\ RowOk'
<1>1. /\ TypeOK /\ PlaceOk /\ MessagesOk /\ OneAppend /\ WorkerOk /\ PollOk /\ StopOk
      /\ IsFiniteSet(Sequences) /\ (\A t \in Tools : ToolOk(t)) /\ (\A v \in Lanes : DeltaOk(v))
      /\ prompts \in Nat /\ status \in Statuses /\ column \in Nat
      /\ mishaps \in Seq({"fault", "silence", "cut", "drop", "stop", "stuck"})
  BY Parts DEF TypeOK
<1>2. /\ UNCHANGED <<server, overlapped, late>> /\ client' \in ClientStates
      /\ client'.at = "off" => prompts = 0
      /\ mishaps' \in Seq({"fault", "silence", "cut", "drop", "stop", "stuck"})
      /\ \A k : Happened(k) => Happened(k)'
      /\ RowOk'
  <2>1. CASE Open
    <3>1. [status |-> status, column |-> column] \in [status : Statuses, column : Nat]
      BY <1>1
    <3> QED  BY <1>1, <2>1, <3>1, OpenMoves, MishapsStay DEF RowOk
  <2>2. CASE Ask
    <3>1. [status |-> status, column |-> column] \in [status : Statuses, column : Nat]
      BY <1>1
    <3> QED  BY <1>1, <2>2, <3>1, AskMoves, MishapsStay DEF RowOk
  <2>3. CASE GetTail
    <3>1. /\ UNCHANGED <<server, mishaps, overlapped, late>> /\ client' \in ClientStates
          /\ client'.at \in {"on", "done"}
      BY <1>1, <2>3, GetTailMoves
    <3> QED  BY <1>1, <3>1, MishapsStay DEF RowOk
  <2>4. CASE GetPage
    <3>1. /\ UNCHANGED <<server, mishaps, overlapped, late>> /\ client' \in ClientStates
          /\ client'.at \in {"on", "done"}
      BY <1>1, <2>4, GetPageMoves
    <3> QED  BY <1>1, <3>1, MishapsStay DEF RowOk
  <2>5. CASE LoadOlder
    <3>1. /\ UNCHANGED <<server, mishaps, overlapped, late>> /\ client' \in ClientStates
          /\ client'.at \in {"on", "done"}
      BY <1>1, <2>5, LoadOlderMoves
    <3> QED  BY <1>1, <3>1, MishapsStay DEF RowOk
  <2>6. CASE Drop
    <3>1. /\ UNCHANGED <<server, overlapped, late>> /\ client' \in ClientStates /\ client'.at = "on"
          /\ mishaps' \in Seq({"fault", "silence", "cut", "drop", "stop", "stuck"})
          /\ \A k : Happened(k)' <=> Happened(k) \/ k = "drop"
      BY <1>1, <2>6, DropMoves
    <3> QED  BY <1>1, <3>1 DEF RowOk
  <2> QED  BY <2>1, <2>2, <2>3, <2>4, <2>5, <2>6
<1>3. UNCHANGED <<table, log, counter, column, status, prompts, at, call, lane, stop, cancelled>>
  BY <1>2 DEF server
<1>4. /\ Messages' = Messages /\ Answers' = Answers /\ Streaming' = Streaming
      /\ \A m : HasCalls(m)' <=> HasCalls(m)
      /\ \A l, t : Reports(l, t)' <=> Reports(l, t)
      /\ \A t : Calling(t)' = Calling(t)
      /\ Sequences' = Sequences
  BY <1>3, TableStays DEF Sequences
<1>5. TypeOK'
  BY <1>1, <1>2, <1>3, <1>4 DEF TypeOK
<1>6. PlaceOk'
  BY <1>1, <1>2, <1>3, <1>4 DEF PlaceOk, Smooth
<1>7. MessagesOk' /\ WorkerOk'
  BY <1>1, <1>2, <1>3, <1>4 DEF MessagesOk, Ended, WorkerOk, Found, Pending
<1>8. PollOk' /\ StopOk' /\ (\A t \in Tools : ToolOk(t)')
  BY <1>1, <1>2, <1>3, <1>4 DEF PollOk, Appends, StopOk, ToolOk
<1>9. OneAppend' /\ (\A v \in Lanes : DeltaOk(v)')
  BY <1>1, <1>2, <1>3, <1>4 DEF OneAppend, Appends, DeltaOk, Pending
<1> QED  BY <1>1, <1>2, <1>4, <1>5, <1>6, <1>7, <1>8, <1>9 DEF LogInv

(* Everybody but the client leaves the client alone.                       *)
ServerStep ==
    \/ WorkerStep
    \/ \E t \in Tools : ToolFinds(t)
    \/ \E w \in Lanes : AppendStep(w)
    \/ NoticeSilence \/ PollFinds \/ NoticeStuck \/ SaveStuck
    \/ Cut \/ StopStep

LEMMA ServerStepMoves == ASSUME ServerStep PROVE UNCHANGED client
<1>1. CASE WorkerStep
  BY <1>1 DEF WorkerStep, WorkerFinds, SkipUpdate, BreakOff, ReportStatus, NoteAnswer, NoteTools,
              NoteEnd, NoticeCancel, NeverClaimed, ReadCursor, Settle, Keep
<1>2. CASE \E t \in Tools : ToolFinds(t)
  BY <1>2 DEF ToolFinds, Keep
<1>3. CASE \E w \in Lanes : AppendStep(w)
  BY <1>3 DEF AppendStep, WriteMessage, ReserveSequences, InsertEvents, Keep
<1>4. CASE NoticeSilence \/ PollFinds \/ NoticeStuck \/ SaveStuck \/ Cut
  BY <1>4 DEF NoticeSilence, PollFinds, NoticeStuck, SaveStuck, Cut, Keep
<1>5. CASE StopStep
  BY <1>5 DEF StopStep, StopSession, FindCalls, StopWrites, FindRun, CancelRun, SaveStopped,
              StopFinds, Keep
<1> QED  BY <1>1, <1>2, <1>3, <1>4, <1>5 DEF ServerStep

LEMMA ServerKeeps == ASSUME LogInv, ServerStep PROVE LogInv'
<1>0. TypeOK
  BY Parts
<1>1. CASE WorkerStep
  <2>1. ASSUME NEW does \in {"asks", "starts", "updates", "ends"}, WorkerFinds(does)
        PROVE  LogInv'
    <3>1. (at = "updates" /\ at' = "ends" /\ UNCHANGED <<lane, overlapped>>) \/ UNCHANGED at
      BY <1>0, <2>1, FindsMoves
    <3>2. CASE UNCHANGED at
      BY <2>1, <3>2, FindsKeeps
    <3>3. CASE at = "updates" /\ at' = "ends" /\ UNCHANGED <<lane, overlapped>>
      BY <2>1, <3>3, PlaceKeeps DEF Walks
    <3> QED  BY <3>1, <3>2, <3>3
  <2>2. CASE \/ SkipUpdate \/ BreakOff \/ NoteAnswer \/ NoteTools \/ NoteEnd
             \/ NoticeCancel \/ NeverClaimed
    BY <2>2, PlaceKeeps DEF Walks
  <2> QED  BY <1>1, <2>1, <2>2, ReportStatusKeeps, ReadCursorKeeps, SettleKeeps DEF WorkerStep
<1>2. CASE \E t \in Tools : ToolFinds(t)
  BY <1>2, ToolFindsKeeps
<1>3. CASE \E w \in Lanes : AppendStep(w)
  <2>1. PICK w \in Lanes :
            (w # Stop /\ WriteMessage(w)) \/ ReserveSequences(w) \/ InsertEvents(w)
    BY <1>3 DEF AppendStep
  <2>2. CASE w # Stop /\ WriteMessage(w)
    <3>1. CASE w = Worker
      BY <2>2, <3>1, WorkerWriteKeeps
    <3>2. CASE w # Worker
      BY <2>2, <3>2, ReporterWriteKeeps DEF Writes
    <3> QED  BY <3>1, <3>2
  <2> QED  BY <2>1, <2>2, ReserveKeeps, InsertKeeps
<1>4. CASE NoticeSilence \/ PollFinds \/ NoticeStuck \/ SaveStuck \/ Cut
  BY <1>4, NoticeKeeps, PollFindsKeeps, NoticeStuckKeeps, SaveStuckKeeps, CutKeeps
<1>5. CASE StopStep
  <2>1. CASE StopWrites
    BY <2>1, LanesAre, ReporterWriteKeeps DEF Writes
  <2>2. CASE StopMoves
    BY <2>2, StopMovesKeep
  <2> QED  BY <1>5, <2>1, <2>2, StopFindsKeeps DEF StopStep, StopMoves
<1> QED  BY <1>1, <1>2, <1>3, <1>4, <1>5 DEF ServerStep

LEMMA Steps ==
    ASSUME [Next]_vars
    PROVE  \/ ServerStep \/ Submit
           \/ Open \/ Ask \/ GetTail \/ GetPage \/ LoadOlder \/ Drop
           \/ UNCHANGED vars
  BY DEF Next, ServerStep, ClientStep

LEMMA LogStays == ASSUME LogInv, RowOk, UNCHANGED vars PROVE LogInv' /\ RowOk'
<1>1. UNCHANGED <<table, log, counter, column, status, prompts, at, call, lane, client, mishaps,
                  overlapped, stop, cancelled, late>>
  BY DEF vars, server
<1>2. /\ Messages' = Messages /\ Answers' = Answers /\ Streaming' = Streaming
      /\ \A m : HasCalls(m)' <=> HasCalls(m)
      /\ \A l, t : Reports(l, t)' <=> Reports(l, t)
      /\ \A t : Calling(t)' = Calling(t)
      /\ \A k : Happened(k)' <=> Happened(k)
      /\ Sequences' = Sequences
  BY <1>1, TableStays, MishapsStay DEF Sequences
<1>3. /\ TypeOK /\ PlaceOk /\ MessagesOk /\ OneAppend /\ WorkerOk /\ PollOk /\ StopOk
      /\ IsFiniteSet(Sequences) /\ (\A t \in Tools : ToolOk(t)) /\ (\A v \in Lanes : DeltaOk(v))
  BY Parts
<1>4. TypeOK' /\ PlaceOk'
  BY <1>1, <1>2, <1>3 DEF TypeOK, PlaceOk, Smooth
<1>5. MessagesOk' /\ WorkerOk'
  BY <1>1, <1>2, <1>3 DEF MessagesOk, Ended, WorkerOk, Found, Pending
<1>6. PollOk' /\ StopOk' /\ (\A t \in Tools : ToolOk(t)')
  BY <1>1, <1>2, <1>3 DEF PollOk, Appends, StopOk, ToolOk
<1>7. OneAppend' /\ (\A v \in Lanes : DeltaOk(v)') /\ RowOk'
  BY <1>1, <1>2, <1>3 DEF OneAppend, Appends, DeltaOk, Pending, RowOk
<1> QED  BY <1>2, <1>3, <1>4, <1>5, <1>6, <1>7 DEF LogInv

LEMMA NextLog == LogInv /\ RowOk /\ [Next]_vars => LogInv' /\ RowOk'
<1> SUFFICES ASSUME LogInv, RowOk, [Next]_vars
             PROVE  LogInv' /\ RowOk'
  OBVIOUS
<1>1. CASE ServerStep
  BY <1>1, ServerKeeps, ServerStepMoves DEF RowOk
<1>2. CASE Submit
  <2>1. client'.at = "on"
    BY <1>2, Parts, SubmitMoves
  <2> QED  BY <1>2, <2>1, SubmitKeeps DEF RowOk
<1> QED  BY <1>1, <1>2, Steps, ClientKeeps, LogStays

(* The types of the tables, the appends and the client, for any tools and  *)
(* any number of prompts: data/sessions.ts and message-projection.ts.      *)
THEOREM EventLogTypeCorrect == Spec => []TypeOK
<1>1. Init => LogInv /\ RowOk
  <2>1. Init => RowOk
    BY DEF Init, RowOk
  <2> QED  BY <2>1, InitLog
<1>2. LogInv /\ RowOk /\ [Next]_vars => (LogInv /\ RowOk)'
  BY NextLog
<1>3. LogInv /\ RowOk => TypeOK
  BY DEF LogInv
<1> QED  BY <1>1, <1>2, <1>3, PTL DEF Spec

-----------------------------------------------------------------------------
(* Answers and their prompts *)

Asking == at \in {"starts", "updates", "ends"} \/ (at = "asks" /\ Pending(Worker))

(* Most steps leave the messages alone.                                    *)
LEMMA AnswersStay ==
    ASSUME AnswersOk, UNCHANGED <<table, prompts>>, Happened("fault") => Happened("fault")',
           Ended' => Ended \/ at \in {"fails", "errs", "failed"}, Asking' => Asking,
           at' \in {"fails", "errs", "failed"} => at \in {"fails", "errs", "failed"} \/ Happened("fault")'
    PROVE  AnswersOk'
<1> SUFFICES ASSUME ~ Happened("fault")'
             PROVE  AnswersOk'
  BY DEF AnswersOk
<1>1. /\ Messages' = Messages /\ Answers' = Answers /\ Streaming' = Streaming
  BY TableStays
<1>2. ~ Happened("fault")
  OBVIOUS
<1>3. /\ at \notin {"fails", "errs", "failed"}
      /\ Ended => Streaming = {}
      /\ \A m \in Streaming : table[m].prompt = prompts
      /\ \A p \in 1 .. prompts : p < prompts \/ Ended => Answered(p)
      /\ Asking => Asked
      /\ \A m \in Answers : HasPrompt(m)
  BY <1>2 DEF AnswersOk, Asking
<1>4. /\ \A p : Answered(p)' <=> Answered(p)
      /\ Asked' <=> Asked
      /\ \A m : HasPrompt(m)' <=> HasPrompt(m)
  BY <1>1 DEF Answered, Asked, HasPrompt
<1>5. Ended' => Ended
  BY <1>3
<1>6. /\ at' \notin {"fails", "errs", "failed"}
      /\ Ended' => Streaming' = {}
      /\ \A m \in Streaming' : table'[m].prompt = prompts'
      /\ Asking' => Asked'
      /\ \A m \in Answers' : HasPrompt(m)'
  BY <1>1, <1>3, <1>4, <1>5
<1>7. \A p \in 1 .. prompts' : p < prompts' \/ Ended' => Answered(p)'
  BY <1>3, <1>4, <1>5
<1> QED  BY <1>6, <1>7 DEF AnswersOk, Asking

LEMMA AnswersThroughReports ==
    ASSUME LogInv, AnswersOk, NEW w \in Lanes, w # Worker, Writes(w)
    PROVE  AnswersOk'
<1>1. /\ Messages' = Messages /\ Answers' = Answers /\ Streaming' = Streaming
      /\ \A n \in Messages : SameBut(table'[n], table[n])
      /\ Answers \subseteq Messages /\ Streaming \subseteq Messages /\ Messages \subseteq Nat \ {0}
  BY Parts, ReporterKeeps, TableIs
<1>2. UNCHANGED <<prompts, at, mishaps, cancelled>> /\ lane'[Worker] = lane[Worker]
  BY ReporterWrites, LanesAre DEF Elsewhere
<1>3. /\ Ended' <=> Ended
      /\ Pending(Worker)' <=> Pending(Worker)
      /\ Happened("fault")' <=> Happened("fault")
  BY <1>2, MishapsStay DEF Ended, Pending
<1>4. \A n \in Messages : /\ table'[n].role = table[n].role /\ table'[n].prompt = table[n].prompt
                          /\ table'[n].text = table[n].text
  BY <1>1 DEF SameBut
<1>5. /\ \A p : Answered(p)' <=> Answered(p)
      /\ Asked' <=> Asked
  BY <1>1, <1>2, <1>4 DEF Answered, Asked
<1>6. ASSUME NEW m \in Answers, HasPrompt(m)
      PROVE  HasPrompt(m)'
  <2>1. PICK u \in 1 .. (m - 1) : table[u].role = "user" /\ table[u].prompt = table[m].prompt
    BY <1>6 DEF HasPrompt
  <2>2. u \in Messages
    BY <1>1, Parts, TableIs
  <2> QED  BY <1>1, <1>4, <2>1, <2>2 DEF HasPrompt
<1> SUFFICES ASSUME ~ Happened("fault")'
             PROVE  AnswersOk'
  BY DEF AnswersOk
<1>7. /\ at \notin {"fails", "errs", "failed"}
      /\ Ended => Streaming = {}
      /\ \A m \in Streaming : table[m].prompt = prompts
      /\ \A p \in 1 .. prompts : p < prompts \/ Ended => Answered(p)
      /\ at \in {"starts", "updates", "ends"} \/ (at = "asks" /\ Pending(Worker)) => Asked
      /\ \A m \in Answers : HasPrompt(m)
  BY <1>3 DEF AnswersOk
<1>8. \A p \in 1 .. prompts' : p < prompts' \/ Ended' => Answered(p)'
  BY <1>2, <1>3, <1>5, <1>7
<1>9. /\ at' \notin {"fails", "errs", "failed"}
      /\ Ended' => Streaming' = {}
      /\ \A m \in Streaming' : table'[m].prompt = prompts'
      /\ at' \in {"starts", "updates", "ends"} \/ (at' = "asks" /\ Pending(Worker)') => Asked'
      /\ \A m \in Answers' : HasPrompt(m)'
  BY <1>1, <1>2, <1>3, <1>4, <1>5, <1>6, <1>7
<1> QED  BY <1>8, <1>9 DEF AnswersOk

LEMMA AnswersThroughWorker ==
    ASSUME LogInv, AnswersOk, WriteMessage(Worker)
    PROVE  AnswersOk'
<1> DEFINE m   == lane'[Worker].id
           new == table'[m]
<1>1. /\ lane[Worker].at = "found"
      /\ UNCHANGED <<prompts, at, mishaps, cancelled>>
      /\ lane'[Worker].at = "written"
      /\ m \in Nat \ {0} /\ Messages' = Messages \cup {m}
      /\ \A n \in Messages \ {m} : table'[n] = table[n]
      /\ at \in {"asks", "starts", "updates", "ends"}
      /\ m \in Messages => at # "asks" /\ m \in Streaming /\ new.role = "assistant"
      /\ m \notin Messages => m = Len(table) + 1 /\ at # "updates" /\ new.prompt = prompts
      /\ m \notin Messages /\ at # "asks" => Streaming = {} /\ new.role = "assistant"
      /\ at = "asks" => new.role = "user" /\ new.prompt = prompts
      /\ at = "starts" => new.status = "streaming" /\ new.prompt = prompts
      /\ at = "updates" => new.status = "streaming" /\ new.prompt = table[m].prompt
      /\ at = "ends" => /\ new.status = "complete" /\ new.text = "whole"
                        /\ m \in Messages => new.prompt = table[m].prompt
  BY WorkerWrites
<1> HIDE DEF m
<1>2. /\ Len(table) \in Nat /\ Messages = 1 .. Len(table) /\ prompts \in Nat
      /\ Answers \subseteq Messages /\ Streaming \subseteq Messages
      /\ \A x, y \in Streaming : x = y
  BY Parts, TableIs DEF MessagesOk
<1>3. /\ ~ Ended /\ (Ended' <=> at = "ends") /\ Pending(Worker)'
      /\ Happened("fault")' <=> Happened("fault")
  BY <1>1, MishapsStay DEF Ended, Pending
<1> SUFFICES ASSUME ~ Happened("fault")'
             PROVE  AnswersOk'
  BY DEF AnswersOk
<1>4. /\ at \notin {"fails", "errs", "failed"}
      /\ \A n \in Streaming : table[n].prompt = prompts
      /\ \A p \in 1 .. prompts : p < prompts => Answered(p)
      /\ at \in {"starts", "updates", "ends"} => Asked
      /\ \A n \in Answers : HasPrompt(n)
  BY <1>3 DEF AnswersOk
<1>5. new.prompt = prompts
  BY <1>1, <1>4
<1>6. /\ \A n \in Answers' \ {m} : n \in Answers /\ table'[n] = table[n]
      /\ \A n \in Streaming' \ {m} : n \in Streaming
      /\ \A n \in Answers \ {m} : n \in Answers'
      /\ at # "asks" => m \in Answers'
      /\ at = "asks" => m \notin Answers'
  BY <1>1, <1>2 DEF Answers, Streaming
<1>7. ASSUME Ended'
      PROVE  Streaming' = {} /\ Answered(prompts)'
  <2>1. m \notin Streaming'
    BY <1>1, <1>3, <1>7 DEF Streaming
  <2>2. Streaming \subseteq {m}
    BY <1>1, <1>2, <1>3, <1>7
  <2>3. Answered(prompts)'
    BY <1>1, <1>3, <1>5, <1>6, <1>7 DEF Answered
  <2> QED  BY <1>6, <2>1, <2>2, <2>3
<1>8. \A n \in Streaming' : table'[n].prompt = prompts'
  <2>1. \A n \in Streaming' \ {m} : table'[n].prompt = prompts
    BY <1>1, <1>2, <1>4, <1>6
  <2> QED  BY <1>1, <1>5, <2>1
<1>9. ASSUME NEW p \in 1 .. prompts, p < prompts
      PROVE  Answered(p)'
  <2>1. PICK n \in Answers : table[n].prompt = p /\ table[n].text = "whole"
    BY <1>4, <1>9 DEF Answered
  <2>2. n # m
    <3>1. p # prompts
      BY <1>2, <1>9
    <3> QED  BY <1>1, <1>2, <1>4, <2>1, <3>1
  <2>3. n \in Answers' /\ table'[n] = table[n]
    BY <1>1, <1>2, <1>6, <2>2
  <2> QED  BY <2>1, <2>3 DEF Answered
<1>10. Asked'
  <2>1. CASE at = "asks"
    BY <1>1, <1>5, <2>1 DEF Asked
  <2>2. CASE at # "asks"
    <3>1. PICK u \in Messages : table[u].role = "user" /\ table[u].prompt = prompts
      BY <1>1, <1>4, <2>2 DEF Asked
    <3>2. u # m
      BY <1>1, <3>1 DEF Streaming, Answers
    <3> QED  BY <1>1, <3>1, <3>2 DEF Asked
  <2> QED  BY <2>1, <2>2
<1>11. ASSUME NEW n \in Answers'
       PROVE  HasPrompt(n)'
  <2>1. CASE n # m
    <3>1. n \in Answers /\ table'[n] = table[n] /\ n \in Messages
      BY <1>2, <1>6, <2>1
    <3>2. PICK u \in 1 .. (n - 1) : table[u].role = "user" /\ table[u].prompt = table[n].prompt
      BY <1>4, <3>1 DEF HasPrompt
    <3>3. u \in Messages
      BY <1>2, <3>1
    <3>4. u # m
      BY <1>1, <3>2, <3>3 DEF Streaming, Answers
    <3> QED  BY <1>1, <3>1, <3>2, <3>3, <3>4 DEF HasPrompt
  <2>2. CASE n = m /\ m \in Messages
    <3>1. m \in Answers /\ table[m].prompt = prompts
      BY <1>1, <1>4, <2>2 DEF Streaming
    <3>2. PICK u \in 1 .. (m - 1) : table[u].role = "user" /\ table[u].prompt = table[m].prompt
      BY <1>4, <3>1 DEF HasPrompt
    <3>3. u \in Messages /\ u # m
      BY <1>2, <2>2
    <3> QED  BY <1>1, <1>5, <2>2, <3>1, <3>2, <3>3 DEF HasPrompt
  <2>3. CASE n = m /\ m \notin Messages
    <3>1. at # "asks" /\ m = Len(table) + 1
      BY <1>1, <1>6, <2>3
    <3>2. PICK u \in Messages : table[u].role = "user" /\ table[u].prompt = prompts
      BY <1>1, <1>4, <3>1 DEF Asked
    <3>3. u \in 1 .. (m - 1) /\ u # m
      BY <1>2, <3>1, <3>2
    <3> QED  BY <1>1, <1>5, <2>3, <3>2, <3>3 DEF HasPrompt
  <2> QED  BY <2>1, <2>2, <2>3
<1>12. \A p \in 1 .. prompts' : p < prompts' \/ Ended' => Answered(p)'
  <2>1. \A p \in 1 .. prompts : p < prompts \/ p = prompts
    BY <1>2
  <2> QED  BY <1>1, <1>7, <1>9, <2>1
<1> QED  BY <1>1, <1>4, <1>7, <1>8, <1>10, <1>11, <1>12 DEF AnswersOk

LEMMA AnswersThroughSubmit == ASSUME LogInv, AnswersOk, Submit PROVE AnswersOk'
<1>1. /\ at = "rest" /\ at' = "asks" /\ prompts' = prompts + 1 /\ UNCHANGED <<table, lane, mishaps>>
      /\ ~ cancelled
  BY Parts, SubmitMoves
<1>2. /\ Messages' = Messages /\ Answers' = Answers /\ Streaming' = Streaming
      /\ Happened("fault")' <=> Happened("fault")
      /\ prompts \in Nat
  BY <1>1, TableStays, MishapsStay, Parts
<1>3. Ended /\ ~ Ended' /\ ~ Pending(Worker)'
  BY <1>1, NobodyReports DEF Ended, Pending
<1> SUFFICES ASSUME ~ Happened("fault")'
             PROVE  AnswersOk'
  BY DEF AnswersOk
<1>4. /\ Streaming = {} /\ (\A p \in 1 .. prompts : Answered(p)) /\ (\A m \in Answers : HasPrompt(m))
  BY <1>2, <1>3 DEF AnswersOk
<1>5. /\ \A p : Answered(p)' <=> Answered(p)
      /\ \A m : HasPrompt(m)' <=> HasPrompt(m)
  BY <1>1, <1>2 DEF Answered, HasPrompt
<1>6. \A p \in 1 .. prompts' : p < prompts' => p \in 1 .. prompts
  BY <1>1, <1>2
<1>7. \A p \in 1 .. prompts' : p < prompts' \/ Ended' => Answered(p)'
  BY <1>3, <1>4, <1>5, <1>6
<1> QED  BY <1>1, <1>2, <1>3, <1>4, <1>5, <1>7 DEF AnswersOk

LEMMA NextAnswers == LogInv /\ RowOk /\ AnswersOk /\ [Next]_vars => AnswersOk'
<1> SUFFICES ASSUME LogInv, RowOk, AnswersOk, [Next]_vars
             PROVE  AnswersOk'
  OBVIOUS
<1>0. /\ TypeOK /\ WorkerOk /\ lane[Worker] \in LaneStates /\ Free.at = "free"
      /\ Worker \in Lanes /\ Poll \in Lanes /\ Worker # Poll /\ Worker \notin Tools
      /\ IsFiniteSet(Sequences) /\ prompts \in Nat
      /\ at \in {"noted", "tools", "rest"} => lane[Worker].at = "free"
  BY Parts, TableIs, LanesAre, FreeLane, NobodyReports
<1> DEFINE Faults == (Happened("fault") => Happened("fault")') /\ (cancelled => cancelled')
           Same   == UNCHANGED <<table, prompts, at>> /\ Faults
           Lasts  == Pending(Worker)' => Pending(Worker) \/ at \in {"fails", "cancels"}
<1>1. ASSUME Same, Lasts
      PROVE  AnswersOk'
  <2>1. Ended' => Ended \/ at \in {"fails", "errs", "failed"}
    BY <1>1 DEF Ended
  <2>2. Asking' => Asking
    BY <1>1 DEF Asking
  <2> QED  BY <1>1, <2>1, <2>2, AnswersStay
<1>2. CASE \E does \in {"asks", "starts", "updates", "ends"} : WorkerFinds(does)
  <2>1. /\ UNCHANGED <<table, prompts, mishaps, cancelled>> /\ lane[Worker].at = "free"
        /\ \/ at = "updates" /\ at' = "ends" /\ UNCHANGED lane
           \/ UNCHANGED at /\ lane'[Worker].at = "found"
    BY <1>0, <1>2, FindsMoves
  <2>2. Faults /\ ~ Pending(Worker)'
    BY <2>1, MishapsStay DEF Pending
  <2>3. /\ Ended' => Ended
        /\ Asking' => Asking
        /\ at' \in {"fails", "errs", "failed"} => at \in {"fails", "errs", "failed"}
    BY <2>1, <2>2 DEF Ended, Asking
  <2> QED  BY <2>1, <2>2, <2>3, AnswersStay
<1>3. CASE SkipUpdate \/ BreakOff \/ NoteAnswer \/ NoteTools \/ NoteEnd \/ NoticeCancel \/ NeverClaimed
  <2>1. /\ UNCHANGED <<table, prompts, lane, cancelled>> /\ lane[Worker].at = "free"
        /\ \/ at = "updates" /\ at' = "ends"
           \/ at \in {"updates", "ends"} /\ at' = "fails" /\ Mishap("fault")
           \/ at \in {"noted", "tools"} /\ at' \in {"tools", "settles"}
           \/ at \in {"settled", "failed"} /\ at' = "rest"
           \/ cancelled /\ at' \in {"cancels", "rest"}
        /\ mishaps' = mishaps \/ at' = "fails"
    BY <1>3, WalksMove DEF Walks
  <2>2. /\ Mishap("fault") => \A k : Happened(k)' <=> Happened(k) \/ k = "fault"
        /\ UNCHANGED mishaps => \A k : Happened(k)' <=> Happened(k)
    BY <1>0, MishapAdds, MishapsStay
  <2>3. /\ Ended' => Ended \/ at \in {"fails", "errs", "failed"}
        /\ Asking' => Asking
        /\ at' \in {"fails", "errs", "failed"} => Happened("fault")'
        /\ Faults
    BY <2>1, <2>2 DEF Ended, Asking, Pending
  <2> QED  BY <2>1, <2>3, AnswersStay
<1>4. CASE ReportStatus
  <2>1. UNCHANGED <<table, prompts, at, mishaps, cancelled>> /\ at \in {"fails", "cancels"}
    BY <1>0, <1>4, ReportStatusMoves
  <2> QED  BY <1>1, <2>1, MishapsStay
<1>5. CASE ReadCursor
  <2>1. UNCHANGED <<table, prompts, at, mishaps, cancelled>> /\ lane'[Worker].at = "cursor"
    BY <1>0, <1>5, ReadCursorMoves
  <2> QED  BY <1>1, <2>1, MishapsStay DEF Pending
<1>6. CASE Settle
  <2>1. /\ UNCHANGED <<table, prompts, mishaps, cancelled>>
        /\ \/ at = "settles" /\ at' = "settled"
           \/ at = "errs" /\ at' = "failed"
           \/ at = "idles" /\ at' = "rest"
    BY <1>0, <1>6, SettleMoves DEF WorkerOk
  <2>2. at = "idles" => cancelled
    BY Parts DEF PlaceOk
  <2>3. /\ Ended' => Ended
        /\ Asking' => Asking
        /\ at' \in {"fails", "errs", "failed"} => at \in {"fails", "errs", "failed"}
        /\ Faults
    BY <2>1, <2>2, MishapsStay DEF Ended, Asking
  <2> QED  BY <2>1, <2>3, AnswersStay
<1>7. CASE \E t \in Tools : ToolFinds(t)
  <2>1. UNCHANGED <<table, prompts, at, mishaps, cancelled>> /\ lane'[Worker] = lane[Worker]
    BY <1>0, <1>7, ToolFindsMoves DEF Elsewhere
  <2> QED  BY <1>1, <2>1, MishapsStay DEF Pending
<1>8. CASE NoticeSilence
  <2>1. /\ UNCHANGED <<table, prompts, at, cancelled>> /\ lane'[Worker] = lane[Worker]
        /\ \A k : Happened(k)' <=> Happened(k) \/ k = "silence"
    BY <1>0, <1>8, NoticeMoves DEF Elsewhere
  <2> QED  BY <1>1, <2>1 DEF Pending
<1>9. CASE PollFinds
  <2>1. UNCHANGED <<table, prompts, at, mishaps, cancelled>> /\ lane'[Worker] = lane[Worker]
    BY <1>0, <1>9, PollFindsMoves DEF Elsewhere
  <2> QED  BY <1>1, <2>1, MishapsStay DEF Pending
<1>10. ASSUME NEW w \in Lanes, ReserveSequences(w)
       PROVE  AnswersOk'
  <2>1. /\ UNCHANGED <<table, prompts, at, mishaps, cancelled>> /\ Elsewhere(w) /\ lane[w].at = "written"
    BY <1>0, <1>10, ReserveMoves
  <2>2. Lasts
    BY <1>0, <2>1 DEF Elsewhere, Pending
  <2> QED  BY <1>1, <2>1, <2>2, MishapsStay
<1>11. ASSUME NEW w \in Lanes, InsertEvents(w)
       PROVE  AnswersOk'
  <2>1. /\ UNCHANGED <<table, prompts, mishaps, cancelled>> /\ Elsewhere(w) /\ lane[w].at = "reserved"
        /\ lane'[w] = Free
        /\ w = Worker => \/ at = "asks" /\ at' = "starts"
                         \/ at = "starts" /\ at' = "updates"
                         \/ at = "updates" /\ at' = "ends"
                         \/ at = "ends" /\ at' = "noted"
                         \/ at = "fails" /\ at' = "errs"
                         \/ at = "cancels" /\ at' = "idles"
        /\ w # Worker => at' = at
    BY <1>11, InsertMoves
  <2>2. w # Worker => lane'[Worker] = lane[Worker]
    BY <1>0, <2>1 DEF Elsewhere
  <2>3. /\ Ended' => Ended
        /\ Asking' => Asking
        /\ at' \in {"fails", "errs", "failed"} => at \in {"fails", "errs", "failed"}
        /\ Faults
    BY <1>0, <2>1, <2>2, MishapsStay DEF Ended, Asking, Pending
  <2> QED  BY <2>1, <2>3, AnswersStay
<1>12. ASSUME NEW w \in Lanes, Writes(w)
       PROVE  AnswersOk'
  BY <1>12, LanesAre, AnswersThroughReports, AnswersThroughWorker DEF Writes
<1>13. CASE Cut
  <2>1. /\ UNCHANGED <<table, prompts, cancelled>> /\ lane'[Worker] = Free
        /\ \A k : Happened(k)' <=> Happened(k) \/ k = "cut"
        /\ at' \in {"asks", "tools", "settles", "rest"}
        /\ at' = "tools" => at = "tools"
        /\ at' = "settles" => at \in {"settles", "settled"}
        /\ at' = "rest" <=> cancelled
    BY <1>0, <1>13, Parts, LanesAre, CutMoves
  <2>2. /\ Ended' => Ended
        /\ Asking' => Asking
        /\ at' \notin {"fails", "errs", "failed"}
        /\ Faults
    BY <1>0, <2>1 DEF Ended, Asking, Pending
  <2> QED  BY <2>1, <2>2, AnswersStay
<1>16. CASE NoticeStuck
  <2>1. /\ UNCHANGED <<table, prompts, at, cancelled>> /\ lane'[Worker] = lane[Worker]
        /\ \A k : Happened(k)' <=> Happened(k) \/ k = "stuck"
    BY <1>0, <1>16, NoticeStuckMoves DEF Elsewhere
  <2> QED  BY <1>1, <2>1 DEF Pending
<1>17. CASE SaveStuck
  <2>1. UNCHANGED <<table, prompts, at, mishaps, cancelled>> /\ lane'[Worker] = lane[Worker]
    BY <1>0, <1>17, SaveStuckMoves DEF Elsewhere
  <2> QED  BY <1>1, <2>1, MishapsStay DEF Pending
<1>18. ASSUME NEW t \in Tools, StopFinds(t)
       PROVE  AnswersOk'
  <2>1. UNCHANGED <<table, prompts, at, mishaps, cancelled>> /\ lane'[Worker] = lane[Worker]
    BY <1>0, <1>18, LanesAre, StopFindsMoves DEF Elsewhere
  <2> QED  BY <1>1, <2>1, MishapsStay DEF Pending
<1>19. CASE StopMoves
  <2>1. /\ UNCHANGED <<table, prompts, at, lane>> /\ (cancelled => cancelled')
        /\ \A k : Happened(k) => Happened(k)'
    BY <1>19, StopMovesOn
  <2> QED  BY <1>1, <2>1 DEF Pending
<1>14. CASE Open \/ Ask \/ GetTail \/ GetPage \/ LoadOlder \/ Drop \/ UNCHANGED vars
  <2>1. UNCHANGED server
    BY <1>14 DEF Open, Ask, GetTail, GetPage, LoadOlder, Drop, vars
  <2>2. UNCHANGED mishaps \/ Mishap("drop")
    BY <1>14 DEF Open, Ask, GetTail, GetPage, LoadOlder, Drop, vars
  <2>3. Faults
    BY <1>0, <2>1, <2>2, MishapAdds, MishapsStay DEF server
  <2>4. UNCHANGED <<table, prompts, at, lane, cancelled>>
    BY <2>1 DEF server
  <2> QED  BY <1>1, <2>3, <2>4 DEF Pending
<1>20. CASE WorkerStep
  BY <1>2, <1>3, <1>4, <1>5, <1>6, <1>20 DEF WorkerStep
<1>21. CASE StopStep
  BY <1>0, <1>12, <1>18, <1>19, <1>21, LanesAre DEF StopStep, StopMoves, Writes
<1>22. CASE \E w \in Lanes : AppendStep(w)
  BY <1>10, <1>11, <1>12, <1>22 DEF AppendStep, Writes
<1>15. CASE ServerStep
  BY <1>7, <1>8, <1>9, <1>13, <1>15, <1>16, <1>17, <1>20, <1>21, <1>22 DEF ServerStep
<1> QED  BY <1>14, <1>15, Steps, AnswersThroughSubmit

(* An answer stands below the prompt it answers, and every prompt but the  *)
(* one under way has its own, unless the model broke one off: the work of  *)
(* findExistingMessage and of findLatestStreamingAssistant.                *)
THEOREM EveryPromptIsAnswered == Spec => []AnswersFollowTheirPrompts
<1>1. Init => LogInv /\ RowOk /\ AnswersOk
  <2>1. ASSUME Init
        PROVE  RowOk /\ AnswersOk
    <3>1. /\ client.at = "off" /\ at = "rest" /\ prompts = 0
          /\ Answers = {} /\ Streaming = {}
      BY <2>1 DEF Init, Answers, Streaming, Messages
    <3>2. ~ \E p \in 1 .. prompts : TRUE
      BY <3>1
    <3> QED  BY <3>1, <3>2 DEF RowOk, AnswersOk
  <2> QED  BY <2>1, InitLog
<1>2. LogInv /\ RowOk /\ AnswersOk /\ [Next]_vars => (LogInv /\ RowOk /\ AnswersOk)'
  BY NextLog, NextAnswers
<1>3. LogInv /\ RowOk /\ AnswersOk => AnswersFollowTheirPrompts
  <2> SUFFICES ASSUME LogInv, AnswersOk, ~ Happened("fault")
               PROVE  /\ \A p \in 1 .. (prompts - 1) : Answered(p)
                      /\ \A m \in Answers : HasPrompt(m)
    BY DEF AnswersFollowTheirPrompts, Answered, HasPrompt
  <2>1. \A p \in 1 .. (prompts - 1) : p \in 1 .. prompts /\ p < prompts
    BY Parts
  <2> QED  BY <2>1 DEF AnswersOk
<1> QED  BY <1>1, <1>2, <1>3, PTL DEF Spec

-----------------------------------------------------------------------------
(* Numbers, and what they say of the messages *)

(* Two sequences of deltas tell the same of the messages.                  *)
SameTold(old, new) ==
    old = new \/ \A m : m # NoMessage => About(old, m) = {} /\ About(new, m) = {}

LanesQuiet ==
    /\ \A v \in Lanes : SameTold(lane[v].deltas, lane'[v].deltas)
    /\ \A v \in Lanes : \/ lane'[v] = lane[v]
                        \/ lane'[v].at \notin {"reserved", "cursor", "stuck"}
                        \/ /\ lane'[v].at \in {"cursor", "stuck"}
                           /\ lane'[v].first \in {0, column} \cup Sequences

Quietly ==
    /\ UNCHANGED <<table, log, counter, client>>
    /\ ~ overlapped' => ~ overlapped
    /\ \A k : Happened(k) => Happened(k)'
    /\ LanesQuiet \/ (Happened("cut")' /\ \A v \in Lanes : lane'[v] = lane[v] \/ lane'[v] = Free)
    /\ \/ column' \in {column, stop.column}
       \/ \E v \in Lanes : lane[v].at \in {"cursor", "stuck"} /\ column' = lane[v].first
    /\ stop'.column \in {0, column, stop.column}

LEMMA NothingTold ==
    /\ \A d : SameTold(d, d)
    /\ SameTold(<<>>, <<>>)
    /\ \A d : Len(d) = 1 /\ d[1].id = NoMessage => SameTold(<<>>, d)
    /\ \A m : About(<<>>, m) = {}
<1>1. \A m : About(<<>>, m) = {}
  BY DEF About
<1>2. ASSUME NEW d, Len(d) = 1, d[1].id = NoMessage, NEW m, m # NoMessage
      PROVE  About(d, m) = {}
  BY <1>2 DEF About
<1> QED  BY <1>1, <1>2 DEF SameTold

(* A lane that is not writing has nothing to tell.                         *)
LEMMA NothingToTell ==
    ASSUME LogInv, NEW w \in Lanes, ~ Pending(w), w # Stop \/ lane[w].at # "found"
    PROVE  lane[w].deltas = <<>>
  BY Parts DEF DeltaOk, Pending

LEMMA QuietLane ==
    ASSUME NEW w \in Lanes, Elsewhere(w), SameTold(lane[w].deltas, lane'[w].deltas),
           \/ lane'[w].at \notin {"reserved", "cursor", "stuck"}
           \/ /\ lane'[w].at \in {"cursor", "stuck"}
              /\ lane'[w].first \in {0, column} \cup Sequences
    PROVE  LanesQuiet
<1>1. ASSUME NEW v \in Lanes, v # w
      PROVE  lane'[v] = lane[v] /\ SameTold(lane[v].deltas, lane'[v].deltas)
  <2>1. lane'[v] = lane[v]
    BY <1>1 DEF Elsewhere
  <2> QED  BY <2>1, NothingTold
<1> QED  BY <1>1 DEF LanesQuiet

LEMMA QuietLanes == ASSUME UNCHANGED lane PROVE LanesQuiet
  BY NothingTold DEF LanesQuiet

(* Apart from the three statements that write, the steps of the server     *)
(* leave the tables alone.                                                 *)
LEMMA QuietSteps ==
    ASSUME LogInv, ServerStep
    PROVE  \/ \E w \in Lanes : Writes(w) \/ ReserveSequences(w) \/ InsertEvents(w)
           \/ Quietly
<1>0. /\ TypeOK /\ WorkerOk /\ PlaceOk /\ IsFiniteSet(Sequences)
      /\ Worker \in Lanes /\ Poll \in Lanes /\ Stop \in Lanes /\ Tools \subseteq Lanes
      /\ Worker # Stop /\ Poll # Stop /\ Stop \notin Tools
      /\ Free.at = "free" /\ Free.deltas = <<>>
  BY Parts, FreeLane, LanesAre
<1>1. ASSUME NEW w \in Lanes, w # Stop, lane[w].at \in {"free", "cursor", "stuck", "noticed"}
      PROVE  lane[w].deltas = <<>>
  BY <1>1, NothingToTell DEF Pending
<1>2. CASE \E does \in {"asks", "starts", "updates", "ends"} : WorkerFinds(does)
  <2>1. /\ UNCHANGED <<table, log, counter, client, column, mishaps, stop>>
        /\ \/ UNCHANGED <<lane, overlapped>>
           \/ /\ Elsewhere(Worker) /\ lane'[Worker].at = "found" /\ Alone(Worker)
              /\ lane'[Worker].deltas = lane[Worker].deltas
    BY <1>0, <1>2, FindsMoves
  <2>2. LanesQuiet
    BY <1>0, <2>1, QuietLane, QuietLanes, NothingTold
  <2> QED  BY <2>1, <2>2, MishapsStay DEF Quietly, Alone
<1>3. CASE SkipUpdate \/ BreakOff \/ NoteAnswer \/ NoteTools \/ NoteEnd \/ NoticeCancel \/ NeverClaimed
  <2>1. /\ UNCHANGED <<table, log, counter, client, column, lane, overlapped, stop>>
        /\ UNCHANGED mishaps \/ Mishap("fault")
    BY <1>3, WalksMove DEF Walks
  <2>2. \A k : Happened(k) => Happened(k)'
    BY <1>0, <2>1, MishapAdds, MishapsStay
  <2> QED  BY <2>1, <2>2, QuietLanes DEF Quietly
<1>4. CASE ReportStatus
  <2>1. /\ UNCHANGED <<table, log, counter, client, column, mishaps, stop>> /\ lane[Worker].at = "free"
        /\ Elsewhere(Worker) /\ lane'[Worker].at = "written"
        /\ Len(lane'[Worker].deltas) = 1 /\ lane'[Worker].deltas[1].id = NoMessage
        /\ Alone(Worker)
    BY <1>0, <1>4, ReportStatusMoves
  <2>2. SameTold(lane[Worker].deltas, lane'[Worker].deltas)
    BY <1>0, <1>1, <2>1, NothingTold
  <2>3. LanesQuiet
    BY <1>0, <2>1, <2>2, QuietLane
  <2> QED  BY <2>1, <2>3, MishapsStay DEF Quietly, Alone
<1>5. CASE ReadCursor
  <2>1. /\ UNCHANGED <<table, log, counter, client, column, mishaps, overlapped, stop>>
        /\ lane[Worker].at = "free" /\ Elsewhere(Worker) /\ lane'[Worker].at = "cursor"
        /\ lane'[Worker].first \in {0} \cup Sequences /\ lane'[Worker].deltas = <<>>
    BY <1>0, <1>5, ReadCursorMoves
  <2>2. LanesQuiet
    BY <1>0, <1>1, <2>1, QuietLane, NothingTold
  <2> QED  BY <2>1, <2>2, MishapsStay DEF Quietly
<1>6. CASE Settle
  <2>1. /\ UNCHANGED <<table, log, counter, client, mishaps, overlapped, stop>>
        /\ lane[Worker].at = "cursor" /\ column' = lane[Worker].first
        /\ Elsewhere(Worker) /\ lane'[Worker] = Free
    BY <1>0, <1>6, SettleMoves
  <2>2. LanesQuiet
    BY <1>0, <1>1, <2>1, QuietLane, NothingTold
  <2> QED  BY <1>0, <2>1, <2>2, MishapsStay DEF Quietly
<1>7. CASE \E t \in Tools : ToolFinds(t)
  <2>1. PICK t \in Tools : ToolFinds(t)
    BY <1>7
  <2>2. /\ UNCHANGED <<table, log, counter, client, column, mishaps, stop>>
        /\ Elsewhere(t) /\ lane'[t].at = "found" /\ Alone(t)
        /\ lane'[t].deltas = lane[t].deltas
    BY <2>1, ToolFindsMoves
  <2>3. LanesQuiet
    BY <1>0, <2>2, QuietLane, NothingTold
  <2> QED  BY <2>2, <2>3, MishapsStay DEF Quietly, Alone
<1>8. CASE NoticeSilence
  <2>1. /\ UNCHANGED <<table, log, counter, client, column, stop>> /\ lane[Poll].at = "free"
        /\ Elsewhere(Poll) /\ lane'[Poll].at = "noticed" /\ Alone(Poll)
        /\ lane'[Poll].deltas = <<>>
        /\ \A k : Happened(k)' <=> Happened(k) \/ k = "silence"
    BY <1>0, <1>8, NoticeMoves
  <2>2. LanesQuiet
    BY <1>0, <1>1, <2>1, QuietLane, NothingTold
  <2> QED  BY <2>1, <2>2 DEF Quietly, Alone
<1>9. CASE PollFinds
  <2>1. /\ UNCHANGED <<table, log, counter, client, column, mishaps, overlapped, stop>>
        /\ Elsewhere(Poll) /\ lane'[Poll].at = "found" /\ lane'[Poll].deltas = lane[Poll].deltas
    BY <1>9, PollFindsMoves
  <2>2. LanesQuiet
    BY <1>0, <2>1, QuietLane, NothingTold
  <2> QED  BY <2>1, <2>2, MishapsStay DEF Quietly
<1>10. CASE NoticeStuck
  <2>1. /\ UNCHANGED <<table, log, counter, client, column, overlapped, stop>>
        /\ lane[Poll].at = "free" /\ Elsewhere(Poll) /\ lane'[Poll].at = "stuck"
        /\ lane'[Poll].first = column /\ lane'[Poll].deltas = <<>>
        /\ \A k : Happened(k)' <=> Happened(k) \/ k = "stuck"
    BY <1>0, <1>10, NoticeStuckMoves
  <2>2. LanesQuiet
    BY <1>0, <1>1, <2>1, QuietLane, NothingTold
  <2> QED  BY <2>1, <2>2 DEF Quietly
<1>11. CASE SaveStuck
  <2>1. /\ UNCHANGED <<table, log, counter, client, mishaps, overlapped, stop>>
        /\ lane[Poll].at = "stuck" /\ column' = lane[Poll].first
        /\ Elsewhere(Poll) /\ lane'[Poll] = Free
    BY <1>0, <1>11, SaveStuckMoves
  <2>2. LanesQuiet
    BY <1>0, <1>1, <2>1, QuietLane, NothingTold
  <2> QED  BY <1>0, <2>1, <2>2, MishapsStay DEF Quietly
<1>12. CASE Cut
  <2>1. /\ UNCHANGED <<table, log, counter, client, column, overlapped, stop>>
        /\ \A w \in {Poll, Stop} : lane'[w] = lane[w]
        /\ \A w \in Lanes \ {Poll, Stop} : lane'[w] = Free
        /\ \A k : Happened(k)' <=> Happened(k) \/ k = "cut"
    BY <1>0, <1>12, CutMoves
  <2> QED  BY <2>1 DEF Quietly
<1>13. ASSUME NEW t \in Tools, StopFinds(t)
       PROVE  Quietly
  <2>1. /\ UNCHANGED <<table, log, counter, client, column, mishaps, stop>>
        /\ Elsewhere(Stop) /\ lane'[Stop].at = "found" /\ Alone(Stop)
        /\ lane'[Stop].deltas = lane[Stop].deltas
    BY <1>13, StopFindsMoves
  <2>2. LanesQuiet
    BY <1>0, <2>1, QuietLane, NothingTold
  <2> QED  BY <2>1, <2>2, MishapsStay DEF Quietly, Alone
<1>14. CASE StopMoves
  <2>1. /\ UNCHANGED <<table, log, counter, lane, client, overlapped>>
        /\ \A k : Happened(k) => Happened(k)'
        /\ column' \in {column, stop.column} /\ stop'.column \in {0, stop.column, column}
    BY <1>14, StopMovesOn
  <2> QED  BY <2>1, QuietLanes DEF Quietly
<1>15. CASE WorkerStep
  BY <1>2, <1>3, <1>4, <1>5, <1>6, <1>15 DEF WorkerStep
<1>16. CASE \E w \in Lanes : AppendStep(w)
  BY <1>16 DEF AppendStep, Writes
<1>17. CASE StopStep
  BY <1>0, <1>13, <1>14, <1>17 DEF StopStep, StopMoves, Writes
<1> QED  BY <1>7, <1>8, <1>9, <1>10, <1>11, <1>12, <1>15, <1>16, <1>17 DEF ServerStep

LEMMA NumbersStay ==
    ASSUME NumbersOk, UNCHANGED <<log, counter, client>>, ~ overlapped' => ~ overlapped,
           \/ column' \in {column, stop.column}
           \/ \E v \in Lanes : lane[v].at \in {"cursor", "stuck"} /\ column' = lane[v].first,
           stop'.column \in {0, column, stop.column},
           \A v \in Lanes : \/ lane'[v] = lane[v]
                            \/ lane'[v].at \notin {"reserved", "cursor", "stuck"}
                            \/ /\ lane'[v].at \in {"cursor", "stuck"}
                               /\ lane'[v].first \in {0, column} \cup Sequences
    PROVE  NumbersOk'
<1>1. Sequences' = Sequences
  BY DEF Sequences
<1>2. \A s \in Sequences' : s < counter'
  BY <1>1 DEF NumbersOk
<1>3. /\ {column', client'.cursor, stop'.column} \subseteq {0} \cup Sequences'
      /\ client'.at = "opening" => \A r \in client'.row : r.column \in {0} \cup Sequences'
      /\ \A v \in Lanes : lane'[v].at \in {"cursor", "stuck"} => lane'[v].first \in {0} \cup Sequences'
  BY <1>1 DEF NumbersOk
<1>4. ASSUME NEW w \in Lanes, lane'[w].at = "reserved"
      PROVE  /\ lane'[w].first + Len(lane'[w].deltas) <= counter'
             /\ ~ overlapped' => \A s \in Sequences' : s < lane'[w].first
  <2>1. lane'[w] = lane[w]
    BY <1>4
  <2> QED  BY <1>1, <1>4, <2>1 DEF NumbersOk
<1> QED  BY <1>2, <1>3, <1>4 DEF NumbersOk

LEMMA NumbersThroughReserve ==
    ASSUME LogInv, NumbersOk, NEW w \in Lanes, ReserveSequences(w)
    PROVE  NumbersOk'
<1>1. /\ lane[w].at = "written" /\ UNCHANGED <<log, column, client, overlapped, stop>>
      /\ Elsewhere(w) /\ lane'[w].at = "reserved" /\ lane'[w].deltas = lane[w].deltas
      /\ lane'[w].first = counter /\ counter' = counter + Len(lane[w].deltas)
      /\ Worker \in Lanes
  BY Parts, ReserveMoves, LanesAre
<1>2. /\ counter \in Nat /\ Len(lane[w].deltas) \in Nat /\ Sequences \subseteq Nat
      /\ \A v \in Lanes : lane[v].first \in Nat /\ Len(lane[v].deltas) \in Nat
  BY Parts, TableIs, LaneFields DEF TypeOK
<1>3. Sequences' = Sequences
  BY <1>1 DEF Sequences
<1>4. \A s \in Sequences : s < counter /\ s < counter'
  BY <1>1, <1>2 DEF NumbersOk
<1>5. \A v \in Lanes : v # w => lane'[v] = lane[v]
  BY <1>1 DEF Elsewhere
<1>6. ASSUME NEW v \in Lanes, lane'[v].at = "reserved"
      PROVE  /\ lane'[v].first + Len(lane'[v].deltas) <= counter'
             /\ ~ overlapped' => \A s \in Sequences' : s < lane'[v].first
  <2>1. CASE v = w
    <3>1. lane'[v].first + Len(lane'[v].deltas) = counter'
      BY <1>1, <2>1
    <3>2. \A s \in Sequences : s < lane'[v].first
      BY <1>1, <1>4, <2>1
    <3> QED  BY <1>1, <1>2, <1>3, <3>1, <3>2
  <2>2. CASE v # w
    <3>1. lane'[v] = lane[v]
      BY <1>5, <2>2
    <3>2. /\ lane[v].first + Len(lane[v].deltas) <= counter
          /\ ~ overlapped => \A s \in Sequences : s < lane[v].first
      BY <1>6, <3>1 DEF NumbersOk
    <3>3. lane[v].first + Len(lane[v].deltas) <= counter'
      <4> DEFINE last == lane[v].first + Len(lane[v].deltas)
                 n    == Len(lane[w].deltas)
      <4>1. last \in Nat /\ n \in Nat /\ counter \in Nat
        BY <1>2
      <4>2. last <= counter
        BY <3>2
      <4>3. counter' = counter + n
        BY <1>1
      <4> HIDE DEF last, n
      <4>4. last <= counter'
        BY <4>1, <4>2, <4>3
      <4> QED  BY <4>4 DEF last
    <3> QED  BY <1>1, <1>3, <3>1, <3>2, <3>3
  <2> QED  BY <2>1, <2>2
<1>7. /\ {column', client'.cursor, stop'.column} \subseteq {0} \cup Sequences'
      /\ client'.at = "opening" => \A r \in client'.row : r.column \in {0} \cup Sequences'
      /\ \A v \in Lanes : lane'[v].at \in {"cursor", "stuck"} => lane'[v].first \in {0} \cup Sequences'
  BY <1>1, <1>3, <1>5 DEF NumbersOk
<1> QED  BY <1>3, <1>4, <1>6, <1>7 DEF NumbersOk

(* Without overlaps, an append is the only one that writes.                *)
LEMMA OnlyAppend ==
    ASSUME LogInv, ~ overlapped, NEW w \in Lanes, Appends(w)
    PROVE  \A v \in Lanes : v # w => ~ Appends(v) /\ ~ Pending(v)
<1>1. \A v, u \in Lanes : Appends(v) /\ Appends(u) => v = u
  BY DEF LogInv, OneAppend
<1> QED  BY <1>1 DEF Appends, Pending

LEMMA NumbersThroughInsert ==
    ASSUME LogInv, NumbersOk, NEW w \in Lanes, InsertEvents(w)
    PROVE  NumbersOk'
<1>1. /\ lane[w].at = "reserved" /\ UNCHANGED <<counter, client, overlapped, stop>>
      /\ Elsewhere(w) /\ lane'[w].at = "free"
      /\ Sequences' = Sequences \cup New(w) /\ column' \in New(w)
      /\ Worker \in Lanes
  BY InsertMoves, LanesAre, FreeLane
<1>2. \A v \in Lanes : v # w => lane'[v] = lane[v]
  BY <1>1 DEF Elsewhere
<1>3. /\ counter \in Nat /\ Len(lane[w].deltas) \in Nat /\ lane[w].first \in Nat
      /\ lane[w].first + Len(lane[w].deltas) <= counter
  BY <1>1, Parts, TableIs, LaneFields DEF TypeOK, NumbersOk
<1>4. \A s \in New(w) : s < counter
  <2>1. ASSUME NEW s \in lane[w].first .. (lane[w].first + Len(lane[w].deltas) - 1)
        PROVE  s < counter
    BY <1>3
  <2> QED  BY <2>1 DEF New
<1>5. \A s \in Sequences' : s < counter'
  BY <1>1, <1>4 DEF NumbersOk
<1>6. ASSUME NEW v \in Lanes, lane'[v].at = "reserved"
      PROVE  /\ lane'[v].first + Len(lane'[v].deltas) <= counter'
             /\ ~ overlapped' => \A s \in Sequences' : s < lane'[v].first
  <2>1. v # w /\ lane'[v] = lane[v]
    BY <1>1, <1>2, <1>6
  <2>2. overlapped
    <3>1. Appends(v) /\ Appends(w)
      BY <1>1, <1>6, <2>1 DEF Appends
    <3> QED  BY <2>1, <3>1, OnlyAppend
  <2> QED  BY <1>1, <1>6, <2>1, <2>2 DEF NumbersOk
<1>7. /\ {column', client'.cursor, stop'.column} \subseteq {0} \cup Sequences'
      /\ client'.at = "opening" => \A r \in client'.row : r.column \in {0} \cup Sequences'
      /\ \A v \in Lanes : lane'[v].at \in {"cursor", "stuck"} => lane'[v].first \in {0} \cup Sequences'
  <2>1. \A v \in Lanes : lane'[v].at \in {"cursor", "stuck"} => lane'[v] = lane[v]
    BY <1>1, <1>2
  <2> QED  BY <1>1, <2>1 DEF NumbersOk
<1> QED  BY <1>5, <1>6, <1>7 DEF NumbersOk

LEMMA WriteMovesLane ==
    ASSUME LogInv, NEW w \in Lanes, Writes(w)
    PROVE  /\ lane[w].at = "found" /\ Elsewhere(w)
           /\ UNCHANGED <<log, counter, column, client, mishaps, overlapped>>
           /\ stop'.column = stop.column /\ lane'[w].at = "written"
           /\ Tells(lane[w].deltas, lane'[w].deltas, lane'[w].id, table'[lane'[w].id])
           /\ Messages' = Messages \cup {lane'[w].id}
           /\ \A n \in Messages \ {lane'[w].id} : table'[n] = table[n]
<1>1. CASE w = Worker
  <2>1. WriteMessage(Worker)
    BY <1>1, LanesAre DEF Writes
  <2> QED  BY <1>1, <2>1, WorkerWrites DEF StopGoesOn
<1>2. CASE w # Worker
  <2>1. /\ lane[w].at = "found" /\ Elsewhere(w)
        /\ UNCHANGED <<log, counter, column, client, mishaps, overlapped>>
        /\ stop'.column = stop.column /\ lane'[w].at = "written" /\ lane'[w].id = lane[w].id
        /\ Tells(lane[w].deltas, lane'[w].deltas, lane[w].id, table'[lane[w].id])
        /\ Messages' = Messages /\ lane[w].id \in Answers
        /\ \A n \in Messages \ {lane[w].id} : table'[n] = table[n]
    BY <1>2, ReporterWrites DEF StopGoesOn
  <2>2. lane[w].id \in Messages
    BY <2>1 DEF Answers
  <2> QED  BY <2>1, <2>2
<1> QED  BY <1>1, <1>2

LEMMA NextNumbers == LogInv /\ RowOk /\ NumbersOk /\ [Next]_vars => NumbersOk'
<1> SUFFICES ASSUME LogInv, RowOk, NumbersOk, [Next]_vars
             PROVE  NumbersOk'
  OBVIOUS
<1>0. TypeOK /\ Free.at = "free" /\ IsFiniteSet(Sequences)
  BY Parts, FreeLane
<1>1. CASE ServerStep
  <2>1. ASSUME NEW w \in Lanes, Writes(w)
        PROVE  NumbersOk'
    <3>1. /\ UNCHANGED <<log, counter, column, client, overlapped>> /\ Elsewhere(w)
          /\ lane'[w].at = "written" /\ stop'.column = stop.column
      BY <2>1, WriteMovesLane
    <3>2. \A v \in Lanes : lane'[v] = lane[v] \/ lane'[v].at \notin {"reserved", "cursor", "stuck"}
      BY <3>1 DEF Elsewhere
    <3> QED  BY <3>1, <3>2, NumbersStay
  <2>2. CASE Quietly
    <3>1. \A v \in Lanes : \/ lane'[v] = lane[v]
                           \/ lane'[v].at \notin {"reserved", "cursor", "stuck"}
                           \/ /\ lane'[v].at \in {"cursor", "stuck"}
                              /\ lane'[v].first \in {0, column} \cup Sequences
      BY <1>0, <2>2 DEF Quietly, LanesQuiet
    <3>2. /\ UNCHANGED <<log, counter, client>> /\ (~ overlapped' => ~ overlapped)
          /\ \/ column' \in {column, stop.column}
             \/ \E v \in Lanes : lane[v].at \in {"cursor", "stuck"} /\ column' = lane[v].first
          /\ stop'.column \in {0, column, stop.column}
      BY <2>2 DEF Quietly
    <3> QED  BY <3>1, <3>2, NumbersStay
  <2> QED  BY <1>1, <2>1, <2>2, QuietSteps, NumbersThroughReserve, NumbersThroughInsert
<1>2. ASSUME UNCHANGED <<server, overlapped>>, client'.cursor \in {0} \cup Sequences,
             client'.at = "opening" => \A r \in client'.row : r.column \in {0} \cup Sequences
      PROVE  NumbersOk'
  <2>1. UNCHANGED <<log, counter, column, lane, overlapped, stop>> /\ Sequences' = Sequences
    BY <1>2 DEF server, Sequences
  <2> QED  BY <1>2, <2>1 DEF NumbersOk
<1>3. CASE Submit
  <2>1. /\ UNCHANGED <<log, counter, column, lane, overlapped, stop>> /\ Sequences' = Sequences
        /\ client'.at = "on" /\ client'.cursor = column
    BY <1>0, <1>3, SubmitMoves DEF Sequences
  <2> QED  BY <1>0, <2>1 DEF NumbersOk
<1>4. CASE Open
  <2>1. /\ UNCHANGED <<server, overlapped>> /\ client'.cursor = client.cursor
        /\ client'.row = {[status |-> status, column |-> column]}
    BY <1>0, <1>4, OpenMoves
  <2> QED  BY <1>2, <2>1 DEF NumbersOk
<1>5. CASE Ask
  <2>1. UNCHANGED <<server, overlapped>> /\ client'.cursor = client.cursor /\ client'.at = "asked"
    BY <1>0, <1>5, AskMoves
  <2> QED  BY <1>2, <2>1 DEF NumbersOk
<1>6. CASE GetTail
  <2>1. /\ UNCHANGED <<server, overlapped>> /\ client.at = "opening" /\ client'.at # "opening"
        /\ \E r \in client.row : client'.cursor = r.column
    BY <1>0, <1>6, GetTailMoves
  <2> QED  BY <1>2, <2>1 DEF NumbersOk
<1>7. CASE GetPage
  <2>1. /\ UNCHANGED <<server, overlapped>> /\ client'.at # "opening"
        /\ client'.cursor \in {client.cursor} \cup Sequences
    BY <1>0, <1>7, GetPageMoves
  <2> QED  BY <1>2, <2>1 DEF NumbersOk
<1>8. CASE LoadOlder
  <2>1. /\ UNCHANGED <<server, overlapped>> /\ client'.at # "opening"
        /\ client'.cursor = client.cursor
    BY <1>0, <1>8, LoadOlderMoves
  <2> QED  BY <1>2, <2>1 DEF NumbersOk
<1>9. CASE Drop
  <2>1. UNCHANGED <<server, overlapped>> /\ client'.cursor = client.cursor /\ client'.at = "on"
    BY <1>0, <1>9, DropMoves
  <2> QED  BY <1>2, <2>1 DEF NumbersOk
<1>10. CASE UNCHANGED vars
  BY <1>2, <1>10 DEF vars, NumbersOk
<1> QED  BY <1>1, <1>3, <1>4, <1>5, <1>6, <1>7, <1>8, <1>9, <1>10, Steps

-----------------------------------------------------------------------------

(* The last delta of a lane about a message is what the lane has made of   *)
(* it.                                                                     *)
LastTold(deltas, m) == deltas[Max(About(deltas, m))].is

LEMMA FreshIs ==
    \A w, m : Fresh(w, m) <=> (About(lane[w].deltas, m) # {} => LastTold(lane[w].deltas, m) = {table[m]})
  BY DEF Fresh, Told, LastTold

LEMMA ToldNumbers ==
    ASSUME NEW d \in Seq(Events), NEW m, About(d, m) # {}
    PROVE  /\ Max(About(d, m)) \in 1 .. Len(d) /\ d[Max(About(d, m))].id = m
           /\ \A i \in About(d, m) : i <= Max(About(d, m))
<1>1. /\ About(d, m) \subseteq 1 .. Len(d) /\ Len(d) \in Nat
      /\ \A i \in About(d, m) : d[i].id = m
  BY DEF About
<1>2. About(d, m) \in SUBSET Nat /\ IsFiniteSet(About(d, m))
  <2>1. IsFiniteSet(1 .. Len(d)) /\ 1 .. Len(d) \subseteq Nat
    BY <1>1, FS_Interval
  <2> QED  BY <1>1, <2>1, FS_Subset
<1>3. Max(About(d, m)) \in About(d, m) /\ \A i \in About(d, m) : i <= Max(About(d, m))
  BY <1>2, Greatest
<1> QED  BY <1>1, <1>3

LEMMA TellsKeeps ==
    ASSUME NEW old \in Seq(Events), NEW new, NEW m, NEW r, Tells(old, new, m, r)
    PROVE  /\ About(new, m) # {} /\ LastTold(new, m) = {r}
           /\ \A n : n # m => /\ About(new, n) = About(old, n)
                              /\ About(old, n) # {} => LastTold(new, n) = LastTold(old, n)
<1>1. ASSUME NEW n, n # m, About(old, n) # {}
      PROVE  LastTold(new, n) = LastTold(old, n)
  <2>1. About(new, n) = About(old, n) /\ \A i \in 1 .. Len(old) : new[i] = old[i]
    BY <1>1 DEF Tells
  <2>2. Max(About(old, n)) \in 1 .. Len(old)
    BY <1>1, ToldNumbers
  <2> QED  BY <2>1, <2>2 DEF LastTold
<1> QED  BY <1>1 DEF Tells, LastTold

LEMMA ReplayStay ==
    ASSUME LogInv, ReplayOk, UNCHANGED <<table, log>>, ~ overlapped' => ~ overlapped,
           Happened("cut") => Happened("cut")',
           Happened("cut")' \/ \A v \in Lanes : SameTold(lane[v].deltas, lane'[v].deltas)
    PROVE  ReplayOk'
<1> SUFFICES ASSUME ~ overlapped', ~ Happened("cut")'
             PROVE  ReplayOk'
  BY DEF ReplayOk
<1>1. /\ Messages' = Messages
      /\ \A m : Replayed(m)' = Replayed(m)
      /\ \A m \in Messages : m # NoMessage
  <2>1. Messages' = Messages /\ Messages \subseteq Nat \ {0}
    BY TableStays, Parts, TableIs
  <2> QED  BY <2>1 DEF Replayed, Sequences, NoMessage
<1>2. ASSUME NEW m \in Messages
      PROVE  /\ \A v \in Lanes : Fresh(v, m)'
             /\ Replayed(m)' = {table'[m]} \/ \E v \in Lanes : Told(v, m)' # {}
  <2>1. /\ \A v \in Lanes : Fresh(v, m)
        /\ Replayed(m) = {table[m]} \/ \E v \in Lanes : Told(v, m) # {}
    BY DEF ReplayOk
  <2>2. \A v \in Lanes : \/ lane'[v].deltas = lane[v].deltas
                         \/ Told(v, m) = {} /\ Told(v, m)' = {}
    BY <1>1 DEF SameTold, Told
  <2>3. \A v \in Lanes : Fresh(v, m)' /\ (Told(v, m)' = Told(v, m))
    BY <2>1, <2>2 DEF Fresh, Told
  <2> QED  BY <1>1, <2>1, <2>3
<1> QED  BY <1>1, <1>2 DEF ReplayOk

LEMMA ReplayThroughWrite ==
    ASSUME LogInv, ReplayOk, NEW w \in Lanes, Writes(w)
    PROVE  ReplayOk'
<1> DEFINE m == lane'[w].id
<1>1. /\ lane[w].at = "found" /\ Elsewhere(w) /\ UNCHANGED <<log, overlapped, mishaps>>
      /\ Tells(lane[w].deltas, lane'[w].deltas, m, table'[m])
      /\ Messages' = Messages \cup {m}
      /\ \A n \in Messages \ {m} : table'[n] = table[n]
  BY WriteMovesLane
<1> HIDE DEF m
<1>2. Happened("cut")' <=> Happened("cut")
  BY <1>1, MishapsStay
<1> SUFFICES ASSUME ~ overlapped', ~ Happened("cut")'
             PROVE  ReplayOk'
  BY DEF ReplayOk
<1>3. \A n \in Messages : /\ Fresh(w, n)
                          /\ Replayed(n) = {table[n]} \/ \E v \in Lanes : Told(v, n) # {}
  BY <1>1, <1>2 DEF ReplayOk
<1>4. ASSUME NEW v \in Lanes, v # w
      PROVE  lane[v].deltas = <<>> /\ lane'[v].deltas = <<>> /\ \A n : About(<<>>, n) = {}
  <2>1. Appends(w) /\ ~ overlapped
    BY <1>1 DEF Appends
  <2>2. ~ Appends(v) /\ ~ Pending(v)
    BY <1>4, <2>1, OnlyAppend
  <2>3. lane[v].deltas = <<>>
    BY <2>2, NothingToTell DEF Appends
  <2> QED  BY <1>1, <1>4, <2>3, NothingTold DEF Elsewhere
<1>5. /\ About(lane'[w].deltas, m) # {} /\ LastTold(lane'[w].deltas, m) = {table'[m]}
      /\ \A n : n # m => /\ About(lane'[w].deltas, n) = About(lane[w].deltas, n)
                         /\ About(lane[w].deltas, n) # {}
                               => LastTold(lane'[w].deltas, n) = LastTold(lane[w].deltas, n)
  <2>1. lane[w].deltas \in Seq(Events)
    BY Parts, TableIs, LaneFields
  <2> QED  BY <1>1, <2>1, TellsKeeps
<1>6. \A n : Replayed(n)' = Replayed(n)
  BY <1>1 DEF Replayed, Sequences
<1>7. ASSUME NEW n \in Messages'
      PROVE  /\ \A v \in Lanes : Fresh(v, n)'
             /\ Replayed(n)' = {table'[n]} \/ \E v \in Lanes : Told(v, n)' # {}
  <2>1. ASSUME NEW v \in Lanes, v # w
        PROVE  Fresh(v, n)' /\ Told(v, n) = {}
    BY <1>4, <2>1 DEF Fresh, Told
  <2>2. CASE n = m
    BY <1>5, <2>1, <2>2 DEF Fresh, Told, LastTold
  <2>3. CASE n # m
    <3>1. n \in Messages /\ table'[n] = table[n]
      BY <1>1, <2>3
    <3>2. Told(w, n)' = Told(w, n) /\ Fresh(w, n)'
      BY <1>3, <1>5, <2>3, <3>1 DEF Told, Fresh, LastTold
    <3>3. Replayed(n) = {table[n]} \/ Told(w, n) # {}
      BY <1>3, <2>1, <3>1
    <3> QED  BY <1>6, <2>1, <3>1, <3>2, <3>3
  <2> QED  BY <2>2, <2>3
<1> QED  BY <1>7 DEF ReplayOk

(* Where the deltas of an append stand in the log.                         *)
LEMMA InsertPlaces ==
    ASSUME LogInv, NEW w \in Lanes, InsertEvents(w), NEW s \in New(w)
    PROVE  /\ s - lane[w].first + 1 \in 1 .. Len(lane[w].deltas)
           /\ log'[s] = lane[w].deltas[s - lane[w].first + 1]
<1> DEFINE l     == lane[w]
           n     == Len(l.deltas)
           first == l.first
           last  == first + n - 1
<1>1. log' = [r \in Sequences \cup first .. last |->
                 IF r \in first .. last THEN l.deltas[r - first + 1] ELSE log[r]]
  BY DEF InsertEvents
<1>2. n \in Nat /\ first \in Nat /\ New(w) = first .. last
  BY Parts, TableIs, LaneFields DEF New
<1> HIDE DEF n, first, l
<1>3. s \in first .. last /\ s - first + 1 \in 1 .. n
  BY <1>2
<1> HIDE DEF last
<1> QED  BY <1>1, <1>3 DEF n, first, l

(* The events that are inserted are the latest of their message.           *)
LEMMA ReplayThroughInsert ==
    ASSUME LogInv, NumbersOk, ReplayOk, NEW w \in Lanes, InsertEvents(w)
    PROVE  ReplayOk'
<1> DEFINE d     == lane[w].deltas
           first == lane[w].first
<1>1. /\ lane[w].at = "reserved" /\ UNCHANGED <<table, overlapped, mishaps>>
      /\ Elsewhere(w) /\ lane'[w] = Free
      /\ New(w) \subseteq Nat \ {0} /\ Sequences' = Sequences \cup New(w)
      /\ \A s \in Sequences \ New(w) : log'[s] = log[s]
  BY InsertMoves
<1>2. /\ Happened("cut")' <=> Happened("cut")
      /\ Messages' = Messages /\ Sequences \subseteq Nat
      /\ d \in Seq(Events) /\ first \in Nat /\ Len(d) \in Nat
  BY <1>1, MishapsStay, TableStays, Parts, TableIs, LaneFields DEF TypeOK
<1> SUFFICES ASSUME ~ overlapped', ~ Happened("cut")'
             PROVE  ReplayOk'
  BY DEF ReplayOk
<1>3. \A n \in Messages : /\ Fresh(w, n)
                          /\ Replayed(n) = {table[n]} \/ \E v \in Lanes : Told(v, n) # {}
  BY <1>1, <1>2 DEF ReplayOk
<1>4. \A v \in Lanes : lane'[v].deltas = <<>> /\ (v # w => lane[v].deltas = <<>>)
  <2>1. Appends(w) /\ ~ overlapped
    BY <1>1 DEF Appends
  <2>2. ASSUME NEW v \in Lanes, v # w
        PROVE  lane[v].deltas = <<>> /\ lane'[v].deltas = <<>>
    <3>1. ~ Appends(v) /\ ~ Pending(v)
      BY <2>1, <2>2, OnlyAppend
    <3>2. lane[v].deltas = <<>>
      BY <3>1, NothingToTell DEF Appends
    <3> QED  BY <1>1, <2>2, <3>2 DEF Elsewhere
  <2> QED  BY <1>1, <2>2, FreeLane
<1>5. /\ \A v \in Lanes : \A n : Told(v, n)' = {} /\ (v # w => Told(v, n) = {})
      /\ \A v \in Lanes : \A n : Fresh(v, n)'
  BY <1>4, NothingTold DEF Told, Fresh
<1>6. \A s \in New(w) : /\ s \in Nat /\ s - first + 1 \in 1 .. Len(d)
                        /\ log'[s] = d[s - first + 1]
  BY <1>1, InsertPlaces
<1>7. \A s \in Sequences : s < first
  BY <1>1 DEF NumbersOk
<1>8. New(w) = first .. (first + Len(d) - 1)
  BY DEF New
<1> HIDE DEF d, first
<1>9. \A s \in Sequences : s \notin New(w) /\ log'[s] = log[s] /\ s \in Nat
  <2>1. \A s \in New(w) : first <= s
    BY <1>2, <1>8
  <2>2. \A s \in Sequences : s \notin New(w)
    BY <1>2, <1>7, <2>1
  <2> QED  BY <1>1, <1>2, <2>2
<1>10. ASSUME NEW n \in Messages
       PROVE  Replayed(n)' = {table'[n]}
  <2> DEFINE about == {s \in Sequences' : log'[s].id = n}
  <2>1. Replayed(n)' = IF about = {} THEN {} ELSE log'[Max(about)].is
    BY DEF Replayed, Sequences
  <2>2. CASE About(d, n) # {}
    <3> DEFINE k == Max(About(d, n))
               s == first + k - 1
    <3>1. k \in 1 .. Len(d) /\ d[k].id = n /\ (\A i \in About(d, n) : i <= k) /\ k \in Nat
      BY <1>2, <2>2, ToldNumbers
    <3>2. d[k].is = {table[n]}
      BY <1>3, <2>2 DEF Fresh, Told, d
    <3> HIDE DEF k
    <3>3. s \in New(w) /\ s - first + 1 = k /\ s \in Nat /\ first <= s
      BY <1>2, <1>8, <3>1
    <3>4. log'[s] = d[k]
      BY <1>6, <3>3
    <3>5. s \in about
      BY <1>1, <3>1, <3>3, <3>4
    <3>6. ASSUME NEW r \in about
          PROVE  r <= s /\ r \in Nat
      <4>1. CASE r \in New(w)
        <5>1. r \in Nat /\ r - first + 1 \in 1 .. Len(d) /\ d[r - first + 1].id = n
          BY <1>6, <4>1
        <5>2. r - first + 1 \in About(d, n)
          BY <5>1 DEF About
        <5>3. r - first + 1 <= k
          BY <3>1, <5>2
        <5> QED  BY <1>2, <3>1, <5>1, <5>3
      <4>2. CASE r \in Sequences
        <5>1. r < first /\ r \in Nat
          BY <1>7, <1>9, <4>2
        <5> QED  BY <1>2, <3>3, <5>1
      <4> QED  BY <1>1, <4>1, <4>2
    <3> HIDE DEF s, about
    <3>7. Max(about) = s
      <4>1. about \in SUBSET Nat
        BY <3>6
      <4> QED  BY <3>5, <3>6, <4>1, GreatestIs
    <3> QED  BY <1>1, <2>1, <3>2, <3>4, <3>5, <3>7
  <2>3. CASE About(d, n) = {}
    <3>1. \A s \in New(w) : log'[s].id # n
      BY <1>6, <2>3 DEF About
    <3>2. about = {s \in Sequences : log[s].id = n}
      BY <1>1, <1>9, <3>1
    <3>3. \A s \in about : log'[s] = log[s] /\ s \in Sequences
      BY <1>9, <3>2
    <3>4. Replayed(n) = IF about = {} THEN {} ELSE log[Max(about)].is
      BY <3>2 DEF Replayed
    <3>5. Replayed(n) = {table[n]}
      BY <1>3, <1>5, <2>3 DEF Told, d
    <3>6. about # {} => Max(about) \in about
      <4>1. about \in SUBSET Nat /\ IsFiniteSet(about)
        BY <1>2, <3>3, Parts, FS_Subset
      <4> QED  BY <4>1, Greatest
    <3> HIDE DEF about
    <3> QED  BY <1>1, <2>1, <3>3, <3>4, <3>5, <3>6
  <2> QED  BY <2>2, <2>3
<1> QED  BY <1>2, <1>5, <1>10 DEF ReplayOk

LEMMA NextReplay == LogInv /\ RowOk /\ NumbersOk /\ ReplayOk /\ [Next]_vars => ReplayOk'
<1> SUFFICES ASSUME LogInv, RowOk, NumbersOk, ReplayOk, [Next]_vars
             PROVE  ReplayOk'
  OBVIOUS
<1>0. TypeOK /\ \A d : SameTold(d, d)
  BY Parts, NothingTold
<1>1. CASE ServerStep
  <2>1. ASSUME NEW w \in Lanes, ReserveSequences(w)
        PROVE  ReplayOk'
    <3>1. /\ UNCHANGED <<table, log, mishaps, overlapped>>
          /\ Elsewhere(w) /\ lane'[w].deltas = lane[w].deltas
      BY <1>0, <2>1, ReserveMoves
    <3>2. \A v \in Lanes : SameTold(lane[v].deltas, lane'[v].deltas)
      BY <1>0, <3>1 DEF Elsewhere
    <3> QED  BY <3>1, <3>2, ReplayStay, MishapsStay
  <2>2. CASE Quietly
    <3>1. /\ UNCHANGED <<table, log>> /\ (~ overlapped' => ~ overlapped)
          /\ Happened("cut") => Happened("cut")'
          /\ Happened("cut")' \/ \A v \in Lanes : SameTold(lane[v].deltas, lane'[v].deltas)
      BY <2>2 DEF Quietly, LanesQuiet
    <3> QED  BY <3>1, ReplayStay
  <2> QED  BY <1>1, <2>1, <2>2, QuietSteps, ReplayThroughWrite, ReplayThroughInsert
<1>2. CASE Submit \/ Open \/ Ask \/ GetTail \/ GetPage \/ LoadOlder \/ Drop \/ UNCHANGED vars
  <2>1. UNCHANGED <<table, log, lane, overlapped>>
    BY <1>2 DEF Submit, Open, Ask, GetTail, GetPage, LoadOlder, Drop, vars, server
  <2>2. UNCHANGED mishaps \/ Mishap("drop")
    BY <1>2 DEF Submit, Open, Ask, GetTail, GetPage, LoadOlder, Drop, vars
  <2>3. Happened("cut") => Happened("cut")'
    BY <1>0, <2>2, MishapAdds, MishapsStay
  <2>4. \A v \in Lanes : SameTold(lane[v].deltas, lane'[v].deltas)
    BY <1>0, <2>1
  <2> QED  BY <2>1, <2>3, <2>4, ReplayStay
<1> QED  BY <1>1, <1>2, Steps

(* When nobody is in the middle of an append, replaying the log gives the  *)
(* table of messages, unless appends have overlapped or a worker was lost  *)
(* between the two tables: message-projection.ts.                          *)
THEOREM ReplayRebuilds == Spec => []ReplayRebuildsUnlessDisturbed
<1> DEFINE Inv == LogInv /\ RowOk /\ NumbersOk /\ ReplayOk
<1>1. Init => Inv
  <2>1. ASSUME Init
        PROVE  RowOk /\ NumbersOk /\ ReplayOk
    <3>1. /\ client.at = "off" /\ client.cursor = 0 /\ column = 0 /\ stop.column = 0
          /\ Sequences = {} /\ Messages = {}
          /\ \A w \in Lanes : lane[w].at = "free"
      BY <2>1 DEF Init, Sequences, Messages, Free
    <3> QED  BY <3>1 DEF RowOk, NumbersOk, ReplayOk
  <2> QED  BY <2>1, InitLog
<1>2. Inv /\ [Next]_vars => Inv'
  BY NextLog, NextNumbers, NextReplay
<1>3. Inv => ReplayRebuildsUnlessDisturbed
  <2> SUFFICES ASSUME LogInv, ReplayOk, Quiet, ~ overlapped, ~ Happened("cut"), NEW m \in Messages
               PROVE  Replayed(m) = {table[m]}
    BY DEF ReplayRebuildsUnlessDisturbed
  <2>1. \A w \in Lanes : lane[w].deltas = <<>>
    BY NothingToTell DEF Quiet, Pending
  <2>2. \A w \in Lanes : Told(w, m) = {}
    BY <2>1, NothingTold DEF Told
  <2> QED  BY <2>2 DEF ReplayOk
<1> QED  BY <1>1, <1>2, <1>3, PTL DEF Spec

-----------------------------------------------------------------------------
(* Calls that are silent *)

Undisturbed == ~ overlapped /\ Smooth

LEMMA SmoothSoFar ==
    ASSUME \A k : Happened(k) => Happened(k)'
    PROVE  Smooth' => Smooth
  BY DEF Smooth

(* Undisturbed, nobody has asked to stop: the run is not cancelled.        *)
LEMMA NotStopped ==
    ASSUME LogInv, Smooth
    PROVE  /\ ~ cancelled /\ lane[Stop].at = "free" /\ stop.at = "none"
           /\ lane[Poll].at # "stuck"
  BY Parts DEF StopOk, PollOk, Smooth

LEMMA StopStepStops ==
    ASSUME LogInv, StopStep
    PROVE  Happened("stop")'
<1>1. CASE StopSession
  BY <1>1, MishapAdds, Parts DEF StopSession
<1>2. CASE ~ StopSession
  <2>1. (stop.at # "none" \/ lane[Stop].at # "free") /\ UNCHANGED mishaps
    BY <1>2 DEF StopStep, FindCalls, StopWrites, FindRun, CancelRun, SaveStopped, StopFinds, Keep
  <2>2. Happened("stop")
    BY <2>1, Parts DEF StopOk
  <2> QED  BY <2>1, <2>2, MishapsStay
<1> QED  BY <1>1, <1>2

(* A step that leaves the messages alone, and the prompts.                 *)
LEMMA SilenceStay ==
    ASSUME SilenceOk, UNCHANGED <<table, prompts>>,
           Undisturbed' => Undisturbed,
           Undisturbed' => (Ended => Ended'),
           Undisturbed' => \A t \in CodeTools : SilentNow(t) => SilentNow(t)',
           Undisturbed' => \A w \in Tools \cup {Poll} :
                               lane'[w].at = "found" => \/ lane'[w] = lane[w]
                                                        \/ lane'[w].copy = {table[lane'[w].id]},
           Undisturbed' => PollNow'
    PROVE  SilenceOk'
<1> SUFFICES ASSUME Undisturbed'
             PROVE  /\ \A m, n \in Messages' : HasCalls(m)' /\ HasCalls(n)' => m = n
                    /\ \A m \in Messages' : HasCalls(m)' => prompts' > 1 \/ Ended'
                    /\ \A m \in Answers', t \in CodeTools : Silent(m, t)' => SilentNow(t)'
                    /\ \A w \in Tools \cup {Poll} :
                          lane'[w].at = "found" => lane'[w].copy = {table'[lane'[w].id]}
                    /\ PollNow'
  BY DEF SilenceOk, Undisturbed
<1>1. /\ \A m, n \in Messages : HasCalls(m) /\ HasCalls(n) => m = n
      /\ \A m \in Messages : HasCalls(m) => prompts > 1 \/ Ended
      /\ \A m \in Answers, t \in CodeTools : Silent(m, t) => SilentNow(t)
      /\ \A w \in Tools \cup {Poll} : lane[w].at = "found" => lane[w].copy = {table[lane[w].id]}
  BY DEF SilenceOk, Undisturbed
<1>2. /\ Messages' = Messages /\ Answers' = Answers
      /\ \A m : HasCalls(m)' <=> HasCalls(m)
      /\ \A m, t : Silent(m, t)' <=> Silent(m, t)
  BY TableStays
<1>3. \A m, n \in Messages' : HasCalls(m)' /\ HasCalls(n)' => m = n
  BY <1>1, <1>2
<1>4. \A m \in Messages' : HasCalls(m)' => prompts' > 1 \/ Ended'
  <2>1. prompts' = prompts /\ (Ended => Ended')
    OBVIOUS
  <2> QED  BY <1>1, <1>2, <2>1
<1>5. \A m \in Answers', t \in CodeTools : Silent(m, t)' => SilentNow(t)'
  BY <1>1, <1>2
<1>6. \A w \in Tools \cup {Poll} : lane'[w].at = "found" => lane'[w].copy = {table'[lane'[w].id]}
  BY <1>1
<1> QED  BY <1>3, <1>4, <1>5, <1>6

(* What is known while no append has overlapped and nothing interferes.    *)
LEMMA SilenceParts ==
    ASSUME LogInv, SilenceOk, Undisturbed
    PROVE  /\ \A m, n \in Messages : HasCalls(m) /\ HasCalls(n) => m = n
           /\ \A m \in Messages : HasCalls(m) => prompts > 1 \/ Ended
           /\ \A m \in Answers, t \in CodeTools : Silent(m, t) => SilentNow(t)
           /\ \A w \in Tools \cup {Poll} :
                 lane[w].at = "found" => lane[w].copy = {table[lane[w].id]}
           /\ PollNow
           /\ at \notin {"noted", "tools"} => lane[Poll].at = "free"
           /\ lane[Poll].at # "free" => lane[Poll].does \in CodeTools
<1>1. PollNow /\ lane[Poll].at # "stuck" /\ PollOk /\ lane[Poll] \in LaneStates
  BY Parts, NotStopped, TableIs, LanesAre DEF SilenceOk, Undisturbed
<1>2. /\ at \notin {"noted", "tools"} => lane[Poll].at = "free"
      /\ lane[Poll].at # "free" => lane[Poll].does \in CodeTools
  <2>1. lane[Poll].at # "free" => Appends(Poll)
    BY <1>1, LaneFields DEF Appends, PollOk
  <2> QED  BY <1>1, <2>1 DEF PollNow, PollOk
<1> QED  BY <1>1, <1>2 DEF SilenceOk, Undisturbed

(* A step of the worker between its reports, or the beginning of one.      *)
LEMMA SilenceThroughWorker ==
    ASSUME LogInv, SilenceOk, WorkerStep
    PROVE  SilenceOk'
<1>0. TypeOK /\ PlaceOk /\ WorkerOk /\ CodeTools \subseteq Tools /\ Poll # Worker /\ Worker \notin Tools
      /\ Poll \in Lanes /\ Tools \subseteq Lanes /\ IsFiniteSet(Sequences)
  BY Parts, LanesAre
<1>a. \A k : Happened(k) => Happened(k)'
  <2>1. UNCHANGED mishaps \/ Mishap("fault")
    BY DEF WorkerStep, WorkerFinds, SkipUpdate, BreakOff, ReportStatus, NoteAnswer, NoteTools, NoteEnd,
           NoticeCancel, NeverClaimed, ReadCursor, Settle, Keep
  <2> QED  BY <1>0, <2>1, MishapAdds, MishapsStay
<1>b. Smooth' => Smooth
  BY <1>a, SmoothSoFar
<1>1. ASSUME at \in {"asks", "starts", "updates", "ends", "fails", "errs", "settles", "settled",
                    "failed", "cancels", "idles"},
             lane[Worker].at = "free" \/ lane[Worker].at = "cursor",
             UNCHANGED <<table, prompts, cancelled>>, ~ cancelled,
             ~ overlapped' => ~ overlapped, Elsewhere(Worker),
             at \in {"settles", "settled"} => at' \in {"settles", "settled", "rest"}
      PROVE  SilenceOk'
  <2>2. Undisturbed' => Undisturbed
    BY <1>1, <1>b DEF Undisturbed
  <2>3. ~ Pending(Worker)
    BY <1>1 DEF Pending
  <2>4. Ended => Ended'
    BY <1>1, <2>3 DEF Ended
  <2>5. \A t : ~ SilentNow(t)
    BY <1>1, <2>3 DEF SilentNow, Ended
  <2>6. \A w \in Tools \cup {Poll} : lane'[w] = lane[w]
    BY <1>0, <1>1 DEF Elsewhere
  <2>7. Undisturbed' => PollNow'
    <3>1. Undisturbed' => lane[Poll].at = "free"
      BY <1>1, <2>2, SilenceParts
    <3> QED  BY <2>6, <3>1 DEF PollNow
  <2> QED  BY <1>1, <2>2, <2>4, <2>5, <2>6, <2>7, SilenceStay
<1> SUFFICES ASSUME ~ cancelled
             PROVE  SilenceOk'
  BY <1>b, NotStopped DEF SilenceOk
<1>2. CASE \E does \in {"asks", "starts", "updates", "ends"} : WorkerFinds(does)
  <2>1. /\ at \in {"asks", "starts", "updates", "ends"} /\ lane[Worker].at = "free"
        /\ UNCHANGED <<table, prompts, cancelled>>
        /\ ~ overlapped' => ~ overlapped
        /\ UNCHANGED lane \/ Elsewhere(Worker)
    BY <1>0, <1>2, FindsMoves DEF Alone
  <2>2. Elsewhere(Worker)
    BY <2>1 DEF Elsewhere
  <2> QED  BY <1>1, <2>1, <2>2
<1>3. CASE SkipUpdate \/ BreakOff
  <2>1. /\ at \in {"updates", "ends"} /\ lane[Worker].at = "free"
        /\ UNCHANGED <<table, prompts, lane, overlapped, cancelled>>
    BY <1>3 DEF SkipUpdate, BreakOff, Keep
  <2> QED  BY <1>1, <2>1 DEF Elsewhere
<1>4. CASE ReportStatus
  <2>1. /\ at \in {"fails", "cancels"} /\ lane[Worker].at = "free"
        /\ UNCHANGED <<table, prompts, cancelled>>
        /\ Elsewhere(Worker) /\ Alone(Worker)
    BY <1>0, <1>4, ReportStatusMoves
  <2> QED  BY <1>1, <2>1 DEF Alone
<1>5. CASE ReadCursor
  <2>1. /\ at \in {"settles", "errs", "idles"} /\ lane[Worker].at = "free" /\ at' = at
        /\ UNCHANGED <<table, prompts, cancelled, overlapped>> /\ Elsewhere(Worker)
    BY <1>0, <1>5, ReadCursorMoves
  <2> QED  BY <1>1, <2>1
<1>6. CASE Settle
  <2>1. /\ lane[Worker].at = "cursor" /\ Elsewhere(Worker)
        /\ UNCHANGED <<table, prompts, cancelled, overlapped>>
        /\ \/ at = "settles" /\ at' = "settled"
           \/ at = "errs" /\ at' = "failed"
           \/ at = "idles" /\ at' = "rest"
    BY <1>0, <1>6, SettleMoves
  <2> QED  BY <1>1, <2>1
<1>7. CASE NoteAnswer
  <2>1. /\ at = "noted" /\ UNCHANGED <<table, prompts, lane, overlapped, cancelled>>
        /\ at' = IF prompts = 1 THEN "tools" ELSE "settles"
        /\ prompts = 1 => \A t \in Tools : call'[t] = "runs"
    BY <1>7 DEF NoteAnswer, Keep, Onward
  <2>2. Undisturbed' => Undisturbed
    BY <1>b, <2>1 DEF Undisturbed
  <2>3. Ended'
    BY <2>1 DEF Ended
  <2>4. \A t \in CodeTools : SilentNow(t) => SilentNow(t)'
    <3>1. \A t \in CodeTools : prompts = 1 => at' = "tools" /\ call'[t] = "runs"
      BY <1>0, <2>1
    <3> QED  BY <2>1, <2>3, <3>1 DEF SilentNow, Unsettled
  <2>5. Undisturbed' => PollNow'
    <3>1. Undisturbed' => PollNow /\ (lane[Poll].at # "free" => lane[Poll].does \in Tools)
      BY <1>0, <2>2, SilenceParts
    <3>2. lane[Poll].does \in Tools /\ prompts = 1 => at' = "tools" /\ call'[lane[Poll].does] = "runs"
      BY <2>1
    <3> QED  BY <2>1, <3>1, <3>2 DEF PollNow
  <2> QED  BY <2>1, <2>2, <2>3, <2>4, <2>5, SilenceStay
<1>8. CASE NoteTools
  <2>1. /\ at = "tools" /\ at' = "settles" /\ UNCHANGED <<table, prompts, lane, overlapped>>
        /\ \A t \in Tools : call[t] = "over"
    BY <1>8 DEF NoteTools, Keep, Onward
  <2>2. Undisturbed' => Undisturbed
    BY <1>b, <2>1 DEF Undisturbed
  <2>3. Ended'
    BY <2>1 DEF Ended
  <2>4. \A t \in CodeTools : ~ SilentNow(t)
    BY <1>0, <2>1 DEF SilentNow, Unsettled
  <2>5. Undisturbed' => PollNow'
    <3>1. Undisturbed' => PollNow /\ (lane[Poll].at # "free" => lane[Poll].does \in Tools)
      BY <1>0, <2>2, SilenceParts
    <3>2. Undisturbed' => lane[Poll].at = "free"
      BY <2>1, <3>1 DEF PollNow
    <3> QED  BY <2>1, <3>2 DEF PollNow
  <2> QED  BY <2>1, <2>2, <2>3, <2>4, <2>5, SilenceStay
<1>9. CASE NoteEnd
  <2>1. /\ at \in {"settled", "failed"} /\ at' = "rest"
        /\ UNCHANGED <<table, prompts, lane, overlapped, cancelled>>
    BY <1>9 DEF NoteEnd, Keep, Onward
  <2>2. lane[Worker].at = "free"
    BY <2>1, NobodyReports
  <2> QED  BY <1>1, <2>1, <2>2 DEF Elsewhere
<1> QED  BY <1>2, <1>3, <1>4, <1>5, <1>6, <1>7, <1>8, <1>9 DEF WorkerStep, NoticeCancel, NeverClaimed

(* Reports of tools and polls begin, and sequences are reserved.           *)
LEMMA SilenceThroughReports ==
    ASSUME LogInv, SilenceOk,
           \/ \E t \in Tools : ToolFinds(t)
           \/ NoticeSilence \/ PollFinds
           \/ \E w \in Lanes : ReserveSequences(w)
    PROVE  SilenceOk'
<1>0. /\ TypeOK /\ PlaceOk /\ CodeTools \subseteq Tools /\ Poll # Worker /\ Worker \notin Tools
      /\ Poll \notin Tools /\ Poll \in Lanes /\ Worker \in Lanes /\ Tools \subseteq Lanes
  BY Parts, LanesAre
<1>1. CASE \E t \in Tools : ToolFinds(t)
  <2>1. PICK t \in Tools : ToolFinds(t)
    BY <1>1
  <2>2. /\ lane[t].at = "free" /\ UNCHANGED <<table, prompts, at, call, mishaps>>
        /\ Elsewhere(t) /\ lane'[t].at = "found" /\ lane'[t].copy = {table[lane'[t].id]}
        /\ Alone(t) /\ t # Worker /\ t # Poll /\ UNCHANGED cancelled
    BY <1>0, <2>1, ToolFindsMoves
  <2>3. Undisturbed' => Undisturbed
    BY <2>2, MishapsStay DEF Undisturbed, Alone, Smooth
  <2>4. /\ lane'[Worker] = lane[Worker] /\ lane'[Poll] = lane[Poll]
        /\ \A u \in Tools : Pending(u)' => Pending(u)
    BY <1>0, <2>2 DEF Elsewhere, Pending
  <2>5. Ended' <=> Ended
    BY <2>2, <2>4 DEF Ended, Pending
  <2>6. \A u \in CodeTools : SilentNow(u) => SilentNow(u)'
    <3>1. \A u \in CodeTools : Unsettled(u) => Unsettled(u)'
      BY <1>0, <2>2, <2>4 DEF Unsettled
    <3> QED  BY <2>2, <2>5, <3>1 DEF SilentNow
  <2>7. \A w \in Tools \cup {Poll} :
           lane'[w].at = "found" => lane'[w] = lane[w] \/ lane'[w].copy = {table[lane'[w].id]}
    BY <1>0, <2>2 DEF Elsewhere
  <2>8. Undisturbed' => PollNow'
    <3>1. Undisturbed' => PollNow
      BY <2>3, SilenceParts
    <3> QED  BY <2>2, <2>4, <3>1 DEF PollNow
  <2> QED  BY <2>2, <2>3, <2>5, <2>6, <2>7, <2>8, SilenceStay
<1>2. CASE NoticeSilence
  <2>1. /\ UNCHANGED <<table, prompts, at, call, cancelled>> /\ Elsewhere(Poll)
        /\ lane'[Poll].at = "noticed" /\ lane'[Poll].does \in CodeTools
        /\ lane'[Poll].id \in Answers /\ Silent(lane'[Poll].id, lane'[Poll].does)
        /\ \A k : Happened(k)' <=> Happened(k) \/ k = "silence"
        /\ Alone(Poll)
    BY <1>0, <1>2, NoticeMoves
  <2>2. Undisturbed' => Undisturbed
    BY <2>1 DEF Undisturbed, Alone, Smooth
  <2>3. \A w \in Lanes : w # Poll => lane'[w] = lane[w] /\ (Pending(w)' <=> Pending(w))
    BY <2>1 DEF Elsewhere, Pending
  <2>4. Ended' <=> Ended
    BY <1>0, <2>1, <2>3 DEF Ended
  <2>5. \A u \in CodeTools : SilentNow(u) => SilentNow(u)'
    <3>1. \A u \in CodeTools : Unsettled(u) => Unsettled(u)'
      BY <1>0, <2>1, <2>3 DEF Unsettled
    <3> QED  BY <2>1, <2>4, <3>1 DEF SilentNow
  <2>6. \A w \in Tools \cup {Poll} : lane'[w].at = "found" => lane'[w] = lane[w]
    BY <1>0, <2>1, <2>3
  <2>7. Undisturbed' => PollNow'
    <3> SUFFICES ASSUME Undisturbed'
                 PROVE  PollNow'
      OBVIOUS
    <3>1. SilentNow(lane'[Poll].does)
      BY <2>1, <2>2, SilenceParts
    <3>2. ~ Pending(Worker)
      BY <1>0, <2>1 DEF Undisturbed, Alone, Pending
    <3> QED  BY <2>1, <3>1, <3>2 DEF PollNow, SilentNow, Ended, Unsettled
  <2> QED  BY <2>1, <2>2, <2>4, <2>5, <2>6, <2>7, SilenceStay
<1>3. CASE PollFinds
  <2>1. /\ lane[Poll].at = "noticed"
        /\ UNCHANGED <<table, prompts, at, call, mishaps, overlapped, cancelled>>
        /\ Elsewhere(Poll) /\ lane'[Poll].at = "found" /\ lane'[Poll].does = lane[Poll].does
        /\ lane'[Poll].copy = {table[lane'[Poll].id]}
    BY <1>3, PollFindsMoves
  <2>2. Undisturbed' => Undisturbed
    BY <2>1, MishapsStay DEF Undisturbed, Smooth
  <2>3. \A w \in Lanes : w # Poll => lane'[w] = lane[w] /\ (Pending(w)' <=> Pending(w))
    BY <2>1 DEF Elsewhere, Pending
  <2>4. Ended' <=> Ended
    BY <1>0, <2>1, <2>3 DEF Ended
  <2>5. \A u \in CodeTools : SilentNow(u) => SilentNow(u)'
    <3>1. \A u \in CodeTools : Unsettled(u) => Unsettled(u)'
      BY <1>0, <2>1, <2>3 DEF Unsettled
    <3> QED  BY <2>1, <2>4, <3>1 DEF SilentNow
  <2>6. \A w \in Tools \cup {Poll} :
           lane'[w].at = "found" => lane'[w] = lane[w] \/ lane'[w].copy = {table[lane'[w].id]}
    BY <1>0, <2>1, <2>3
  <2>7. Undisturbed' => PollNow'
    <3>1. Undisturbed' => PollNow
      BY <2>2, SilenceParts
    <3> QED  BY <2>1, <3>1 DEF PollNow
  <2> QED  BY <2>1, <2>2, <2>4, <2>5, <2>6, <2>7, SilenceStay
<1>4. CASE \E w \in Lanes : ReserveSequences(w)
  <2>0. PICK w \in Lanes : ReserveSequences(w)
    BY <1>4
  <2>1. /\ lane[w].at = "written"
        /\ UNCHANGED <<table, prompts, at, call, mishaps, overlapped, cancelled>>
        /\ Elsewhere(w) /\ lane'[w].at = "reserved" /\ lane'[w].does = lane[w].does
    BY <1>0, <2>0, ReserveMoves
  <2>2. Undisturbed' => Undisturbed
    BY <2>1, MishapsStay DEF Undisturbed, Smooth
  <2>3. \A v \in Lanes : /\ Pending(v)' <=> Pending(v)
                         /\ lane'[v].at = "free" <=> lane[v].at = "free"
                         /\ lane'[v].does = lane[v].does
                         /\ lane'[v].at = "found" => lane'[v] = lane[v]
    BY <2>1 DEF Elsewhere, Pending
  <2>4. Ended' <=> Ended
    BY <1>0, <2>1, <2>3 DEF Ended
  <2>5. \A u \in CodeTools : SilentNow(u) => SilentNow(u)'
    <3>1. \A u \in CodeTools : Unsettled(u) => Unsettled(u)'
      BY <1>0, <2>1, <2>3 DEF Unsettled
    <3> QED  BY <2>1, <2>4, <3>1 DEF SilentNow
  <2>6. \A v \in Tools \cup {Poll} : lane'[v].at = "found" => lane'[v] = lane[v]
    BY <1>0, <2>3
  <2>7. Undisturbed' => PollNow'
    <3>1. Undisturbed' => PollNow
      BY <2>2, SilenceParts
    <3> QED  BY <1>0, <2>1, <2>3, <3>1 DEF PollNow
  <2> QED  BY <2>1, <2>2, <2>4, <2>5, <2>6, <2>7, SilenceStay
<1> QED  BY <1>1, <1>2, <1>3, <1>4

(* A report is over: an answer has ended, or what became of a call is in   *)
(* its message, so that it is not silent any more.                         *)
LEMMA SilenceThroughInsert ==
    ASSUME LogInv, SilenceOk, NEW w \in Lanes, InsertEvents(w)
    PROVE  SilenceOk'
<1>0. /\ TypeOK /\ PlaceOk /\ PollOk /\ CodeTools \subseteq Tools /\ Poll # Worker /\ Worker \notin Tools
      /\ Poll \notin Tools /\ Poll \in Lanes /\ Worker \in Lanes /\ Tools \subseteq Lanes
      /\ Free.at = "free" /\ lane[Poll] \in LaneStates
  BY Parts, LanesAre, FreeLane, TableIs
<1>1. /\ lane[w].at = "reserved" /\ UNCHANGED <<table, prompts, mishaps, overlapped, cancelled>>
      /\ Elsewhere(w) /\ lane'[w].at = "free"
      /\ w = Worker => \/ at = "asks" /\ at' = "starts"
                       \/ at = "starts" /\ at' = "updates"
                       \/ at = "updates" /\ at' = "ends"
                       \/ at = "ends" /\ at' = "noted"
                       \/ at = "fails" /\ at' = "errs"
                       \/ at = "cancels" /\ at' = "idles"
      /\ w # Worker => at' = at
      /\ w \notin Tools => call' = call
      /\ w \in Tools => call' = [call EXCEPT ![w] = IF @ = "runs" THEN "returns" ELSE "over"]
  BY <1>0, InsertMoves
<1>2. Undisturbed' => Undisturbed
  BY <1>1, MishapsStay DEF Undisturbed, Smooth
<1>3. /\ \A v \in Lanes : v # w => lane'[v] = lane[v] /\ (Pending(v)' <=> Pending(v))
      /\ Pending(w) /\ ~ Pending(w)' /\ Appends(w)
  BY <1>1 DEF Elsewhere, Pending, Appends
<1>4. Ended => Ended'
  <2>1. CASE w = Worker
    BY <1>1, <2>1 DEF Ended
  <2>2. CASE w # Worker
    BY <1>0, <1>1, <1>3, <2>2 DEF Ended
  <2> QED  BY <2>1, <2>2
<1>5. ASSUME NEW t \in CodeTools, SilentNow(t)
      PROVE  SilentNow(t)'
  <2>1. CASE w = Worker
    <3>1. at = "ends" /\ at' = "noted" /\ prompts = 1
      BY <1>1, <1>5, <2>1 DEF SilentNow, Ended
    <3> QED  BY <1>1, <3>1 DEF SilentNow, Ended
  <2>2. CASE w # Worker /\ t # w
    <3>1. /\ at' = at /\ call'[t] = call[t] /\ (Pending(t)' <=> Pending(t))
      <4>1. t \in Tools /\ call \in [Tools -> {"nothing", "runs", "returns", "over"}]
        BY <1>0 DEF TypeOK
      <4> QED  BY <1>0, <1>1, <1>3, <2>2, <4>1
    <3>2. Unsettled(t)' <=> Unsettled(t)
      BY <3>1 DEF Unsettled
    <3> QED  BY <1>1, <1>4, <1>5, <3>1, <3>2 DEF SilentNow
  <2>3. CASE t = w
    <3>1. at = "tools" /\ lane[w].at # "free" /\ call[w] \in {"runs", "returns"} /\ w # Worker
          /\ w \in Tools
      BY <1>0, <1>1, <2>3, Parts DEF ToolOk
    <3>2. call[w] = "runs"
      BY <1>3, <1>5, <2>3, <3>1 DEF SilentNow, Unsettled
    <3>3. call'[w] = "returns"
      BY <1>0, <1>1, <3>1, <3>2 DEF TypeOK
    <3> QED  BY <1>1, <1>3, <1>4, <1>5, <2>3, <3>1, <3>3 DEF SilentNow, Unsettled
  <2> QED  BY <2>1, <2>2, <2>3
<1>6. \A v \in Tools \cup {Poll} : lane'[v].at = "found" => lane'[v] = lane[v]
  BY <1>0, <1>1, <1>3
<1>7. Undisturbed' => PollNow'
  <2>1. CASE w = Poll
    BY <1>1, <2>1 DEF PollNow
  <2>2. CASE w # Poll
    <3> SUFFICES ASSUME Undisturbed'
                 PROVE  PollNow'
      OBVIOUS
    <3>1. ~ Appends(Poll)
      BY <1>0, <1>2, <1>3, <2>2, OnlyAppend DEF Undisturbed
    <3>2. lane[Poll].at = "free"
      <4>1. lane[Poll].at # "stuck"
        BY <1>2, NotStopped DEF Undisturbed
      <4> QED  BY <1>0, <3>1, <4>1, LaneFields DEF Appends, PollOk
    <3> QED  BY <1>0, <1>3, <2>2, <3>2 DEF PollNow
  <2> QED  BY <2>1, <2>2
<1> QED  BY <1>1, <1>2, <1>4, <1>5, <1>6, <1>7, SilenceStay

(* The worker writes: the calls come with the end of the first answer.     *)
LEMMA SilenceThroughWorkerWrite ==
    ASSUME LogInv, SilenceOk, WriteMessage(Worker)
    PROVE  SilenceOk'
<1> PICK m : m = lane'[Worker].id
  OBVIOUS
<1> DEFINE new == table'[m]
<1>0. /\ TypeOK /\ PlaceOk /\ PollOk /\ CodeTools \subseteq Tools /\ Poll # Worker /\ Worker \notin Tools
      /\ Poll \in Lanes /\ Worker \in Lanes /\ Tools \subseteq Lanes
      /\ \A n \in Streaming : ~ HasCalls(n)
  <2>1. \A n \in Messages : HasCalls(n) => table[n].status = "complete"
    BY Parts DEF MessagesOk
  <2>2. \A n \in Streaming : n \in Messages /\ table[n].status = "streaming"
    BY DEF Streaming, Answers
  <2> QED  BY <2>1, <2>2, Parts, LanesAre
<1>1. /\ lane[Worker].at = "found" /\ UNCHANGED <<prompts, at, call, mishaps, overlapped, cancelled>>
      /\ Elsewhere(Worker) /\ lane'[Worker].at = "written"
      /\ Messages' = Messages \cup {m}
      /\ \A n \in Messages \ {m} : table'[n] = table[n]
      /\ at \in {"asks", "starts", "updates", "ends"}
      /\ m \in Messages => at # "asks" /\ m \in Streaming
      /\ m \notin Messages => at # "updates"
      /\ at = "asks" => DOMAIN new.calls = {}
      /\ at = "starts" => DOMAIN new.calls = IF m \in Messages THEN DOMAIN table[m].calls ELSE {}
      /\ at = "updates" => DOMAIN new.calls = DOMAIN table[m].calls
      /\ at = "ends" => DOMAIN new.calls = IF prompts = 1 THEN Tools ELSE {}
  BY WorkerWrites
<1> HIDE DEF new
<1>2. Smooth' <=> Smooth
  BY <1>1, MishapsStay DEF Smooth
<1> SUFFICES ASSUME Undisturbed'
             PROVE  SilenceOk'
  BY DEF SilenceOk, Undisturbed
<1>3. /\ \A n, k \in Messages : HasCalls(n) /\ HasCalls(k) => n = k
      /\ \A n \in Messages : HasCalls(n) => prompts > 1 \/ Ended
      /\ \A n \in Answers, t \in CodeTools : Silent(n, t) => SilentNow(t)
      /\ lane[Poll].at = "free"
  BY <1>1, <1>2, SilenceParts DEF Undisturbed
<1>4. ~ Ended /\ lane'[Poll].at = "free" /\ \A t \in Tools : lane'[t].at = "free"
  <2>1. \A t \in Tools : lane[t].at = "free"
    BY <1>1, NobodyReports
  <2> QED  BY <1>0, <1>1, <1>3, <2>1 DEF Ended, Pending, Elsewhere
<1>5. \A n, t : Silent(n, t)' => HasCalls(n)'
  BY DEF HasCalls, Silent
<1>6. \A n \in Messages' : n # m => /\ n \in Messages /\ (HasCalls(n)' <=> HasCalls(n))
                                    /\ n \in Answers' => n \in Answers
                                    /\ \A t : Silent(n, t)' <=> Silent(n, t)
  BY <1>1 DEF HasCalls, Silent, Answers
<1>7. /\ \A w \in Tools \cup {Poll} :
            lane'[w].at = "found" => lane'[w].copy = {table'[lane'[w].id]}
      /\ PollNow'
  BY <1>4 DEF PollNow
<1>8. \A n \in Answers' : n \in Messages'
  BY DEF Answers
<1>9. CASE at = "ends" /\ prompts = 1
  <2>1. \A n \in Messages : ~ HasCalls(n)
    <3>1. ~ (prompts > 1)
      BY <1>9
    <3> QED  BY <1>3, <1>4, <3>1
  <2>2. \A n \in Messages' : HasCalls(n)' => n = m
    BY <1>6, <2>1
  <2>3. Ended' /\ \A t : SilentNow(t)'
    BY <1>1, <1>9 DEF Ended, Pending, SilentNow
  <2> QED  BY <1>7, <2>2, <2>3 DEF SilenceOk
<1>10. CASE ~ (at = "ends" /\ prompts = 1)
  <2>1. ~ HasCalls(m)'
    <3>1. m \in Messages => DOMAIN table[m].calls = {}
      BY <1>0, <1>1 DEF HasCalls
    <3>2. DOMAIN new.calls = {}
      BY <1>1, <1>10, <3>1
    <3> QED  BY <3>2 DEF HasCalls, new
  <2>2. \A n \in Messages' : HasCalls(n)' => n \in Messages /\ HasCalls(n)
    BY <1>6, <2>1
  <2>3. \A n \in Messages' : HasCalls(n)' => prompts' > 1
    <3>1. \A n \in Messages : HasCalls(n) => prompts > 1
      BY <1>3, <1>4
    <3> QED  BY <1>1, <2>2, <3>1
  <2>4. \A n, k \in Messages' : HasCalls(n)' /\ HasCalls(k)' => n = k
    BY <1>3, <2>2
  <2>5. \A n \in Answers', t \in CodeTools : ~ Silent(n, t)'
    <3> SUFFICES ASSUME NEW n \in Answers', NEW t \in CodeTools, Silent(n, t)'
                 PROVE  FALSE
      OBVIOUS
    <3>1. n # m
      BY <1>5, <1>8, <2>1
    <3>2. SilentNow(t)
      BY <1>3, <1>6, <1>8, <3>1
    <3> QED  BY <1>4, <3>2 DEF SilentNow
  <2> QED  BY <1>7, <2>3, <2>4, <2>5 DEF SilenceOk
<1> QED  BY <1>9, <1>10

(* A tool, or the poll, writes what has become of a call.                  *)
LEMMA SilenceThroughReporterWrite ==
    ASSUME LogInv, SilenceOk, NEW w \in Lanes, w # Worker, Writes(w)
    PROVE  SilenceOk'
<1> DEFINE m   == lane[w].id
           t   == Reported(w)
           new == table'[m]
<1>0. /\ PlaceOk /\ PollOk /\ CodeTools \subseteq Tools /\ Poll # Worker /\ Worker \notin Tools
      /\ Poll \notin Tools /\ Poll \in Lanes /\ Worker \in Lanes /\ Tools \subseteq Lanes
      /\ w = Poll \/ w = Stop \/ w \in Tools
  BY Parts, LanesAre
<1>1. /\ lane[w].at = "found" /\ UNCHANGED <<prompts, at, call, mishaps, overlapped, cancelled>>
      /\ Elsewhere(w) /\ lane'[w].at = "written" /\ lane'[w].does = lane[w].does
      /\ m \in Answers /\ Messages' = Messages
      /\ \A n \in Messages \ {m} : table'[n] = table[n]
      /\ SameBut(new, table[m]) /\ t \in DOMAIN table[m].calls
      /\ \E old \in lane[w].copy :
            /\ lane[w].copy = {old}
            /\ \A u \in DOMAIN old.calls \ {t} : new.calls[u] = old.calls[u]
      /\ w = Poll \/ lane[w].does # "runs" => new.calls[t] \in {"done", "stale", "aborted"}
  BY ReporterWrites
<1>2. Answers' = Answers /\ Appends(w) /\ m \in Messages /\ \A n \in Answers : n \in Messages
  BY <1>1, ReporterKeeps DEF Appends, Answers
<1> HIDE DEF m, new, t
<1>3. Smooth' <=> Smooth
  BY <1>1, MishapsStay DEF Smooth
<1> SUFFICES ASSUME Undisturbed'
             PROVE  SilenceOk'
  BY DEF SilenceOk, Undisturbed
<1>4. /\ \A n, k \in Messages : HasCalls(n) /\ HasCalls(k) => n = k
      /\ \A n \in Messages : HasCalls(n) => prompts > 1 \/ Ended
      /\ \A n \in Answers, u \in CodeTools : Silent(n, u) => SilentNow(u)
      /\ lane[w].copy = {table[m]}
      /\ PollNow /\ ~ overlapped /\ w # Stop
  <2>1. Undisturbed
    BY <1>1, <1>3 DEF Undisturbed
  <2>3. w # Stop
    BY <1>1, <2>1, NotStopped DEF Undisturbed
  <2>2. lane[w].copy = {table[m]}
    BY <1>0, <1>1, <2>1, <2>3, SilenceParts DEF m
  <2> QED  BY <2>1, <2>2, <2>3, SilenceParts DEF Undisturbed
<1>5. \A u \in DOMAIN table[m].calls \ {t} : new.calls[u] = table[m].calls[u]
  BY <1>1, <1>4
<1>6. DOMAIN new.calls = DOMAIN table[m].calls
  BY <1>1 DEF SameBut
<1>7. \A n \in Messages : HasCalls(n)' <=> HasCalls(n)
  BY <1>1, <1>6 DEF HasCalls, new
<1>8. Ended' <=> Ended
  BY <1>0, <1>1 DEF Ended, Pending, Elsewhere
<1>9. \A n, k \in Messages' : HasCalls(n)' /\ HasCalls(k)' => n = k
  BY <1>1, <1>4, <1>7
<1>10. \A n \in Messages' : HasCalls(n)' => prompts' > 1 \/ Ended'
  <2>1. prompts' = prompts /\ Messages' = Messages
    BY <1>1
  <2> QED  BY <1>4, <1>7, <1>8, <2>1
<1>11. ASSUME NEW n \in Answers, NEW u \in CodeTools, Silent(n, u)'
       PROVE  SilentNow(u)'
  <2>1. CASE Silent(n, u) /\ u # w
    <3>1. SilentNow(u)
      BY <1>4, <2>1
    <3>2. Unsettled(u)' <=> Unsettled(u)
      BY <1>0, <1>1, <2>1 DEF Unsettled, Pending, Elsewhere
    <3> QED  BY <1>1, <1>8, <3>1, <3>2 DEF SilentNow
  <2>2. CASE u = w
    <3>1. w \in Tools /\ w # Poll /\ t = w
      BY <1>0, <1>4, <2>2 DEF t, Reported
    <3>2. HasCalls(m) /\ HasCalls(n)
      <4>1. HasCalls(n)'
        BY <1>11 DEF Silent, HasCalls
      <4> QED  BY <1>1, <1>2, <1>7, <4>1 DEF HasCalls
    <3>3. n = m
      BY <1>2, <1>4, <3>2
    <3>4. new.calls[t] \in {"queued", "running"}
      BY <1>11, <2>2, <3>1, <3>3 DEF Silent, new
    <3>5. lane[w].does = "runs"
      BY <1>1, <3>4
    <3>6. at = "tools" /\ call[w] = "runs"
      BY <1>1, <3>1, <3>5, Parts DEF ToolOk
    <3> QED  BY <1>0, <1>1, <2>2, <3>6 DEF SilentNow, Unsettled, Ended, PlaceOk
  <2>3. CASE ~ Silent(n, u) /\ u # w
    <3>1. n = m
      BY <1>1, <1>2, <1>11, <2>3 DEF Silent
    <3>2. u = t
      BY <1>5, <1>6, <1>11, <2>3, <3>1 DEF Silent, new
    <3>3. w = Poll
      BY <1>0, <1>4, <2>3, <3>2 DEF t, Reported
    <3>4. new.calls[t] \in {"done", "stale", "aborted"}
      BY <1>1, <3>3
    <3> QED  BY <1>11, <3>1, <3>2, <3>4 DEF Silent, new
  <2> QED  BY <2>1, <2>2, <2>3
<1>12. \A v \in Tools \cup {Poll} : lane'[v].at # "found"
  <2>1. \A v \in Lanes : v # w => ~ Appends(v)
    BY <1>2, <1>4, OnlyAppend
  <2> QED  BY <1>0, <1>1, <2>1 DEF Appends, Elsewhere
<1>13. PollNow'
  <2>1. lane'[Poll].at # "free" => lane[Poll].at # "free"
    BY <1>0, <1>1 DEF Elsewhere
  <2>2. lane'[Poll].does = lane[Poll].does
    BY <1>0, <1>1 DEF Elsewhere
  <2> QED  BY <1>1, <1>4, <2>1, <2>2 DEF PollNow
<1> QED  BY <1>2, <1>9, <1>10, <1>11, <1>12, <1>13 DEF SilenceOk

LEMMA SilenceThroughSubmit == ASSUME LogInv, SilenceOk, Submit PROVE SilenceOk'
<1>0. TypeOK /\ PlaceOk /\ Len(table) \in Nat /\ Messages = 1 .. Len(table)
  BY Parts, TableIs
<1>1. /\ at = "rest" /\ prompts' = prompts + 1
      /\ UNCHANGED <<table, call, lane, mishaps, overlapped, cancelled>>
  BY <1>0, SubmitMoves
<1>2. /\ Messages' = Messages /\ Answers' = Answers
      /\ \A m : HasCalls(m)' <=> HasCalls(m)
      /\ \A m, t : Silent(m, t)' <=> Silent(m, t)
  BY <1>1, TableStays
<1> SUFFICES ASSUME Undisturbed'
             PROVE  SilenceOk'
  BY DEF SilenceOk, Undisturbed
<1>3. Undisturbed
  BY <1>1, MishapsStay DEF Undisturbed, Smooth
<1>4. \A m \in Messages' : prompts' > 1
  <2>1. prompts = 0 => table = <<>>
    BY <1>0 DEF PlaceOk
  <2>2. ASSUME prompts = 0
        PROVE  Messages = {}
    <3>1. Len(table) = 0
      BY <2>1, <2>2
    <3> QED  BY <1>0, <3>1
  <2>3. prompts \in Nat
    BY Parts
  <2> QED  BY <1>1, <1>2, <2>2, <2>3
<1>5. /\ \A m, n \in Messages' : HasCalls(m)' /\ HasCalls(n)' => m = n
      /\ \A w \in Tools \cup {Poll} :
            lane'[w].at = "found" => lane'[w].copy = {table'[lane'[w].id]}
      /\ lane'[Poll].at = "free"
  BY <1>1, <1>2, <1>3, SilenceParts
<1>6. \A m \in Answers', t \in CodeTools : ~ Silent(m, t)'
  <2>1. \A t : ~ SilentNow(t)
    BY <1>1 DEF SilentNow
  <2> QED  BY <1>2, <1>3, <2>1, SilenceParts
<1> QED  BY <1>4, <1>5, <1>6 DEF SilenceOk, PollNow

LEMMA NextSilence == LogInv /\ RowOk /\ SilenceOk /\ [Next]_vars => SilenceOk'
<1> SUFFICES ASSUME LogInv, RowOk, SilenceOk, [Next]_vars
             PROVE  SilenceOk'
  OBVIOUS
<1>0. TypeOK
  BY Parts
<1>1. CASE ServerStep
  <2>1. CASE Cut \/ NoticeStuck \/ SaveStuck \/ StopStep
    <3>1. Cut => ~ Smooth'
      BY <1>0, CutMoves, Parts DEF Smooth
    <3>2. NoticeStuck => ~ Smooth'
      BY <1>0, NoticeStuckMoves DEF Smooth
    <3>3. ASSUME SaveStuck
          PROVE  ~ Smooth'
      <4>1. lane[Poll].at = "stuck" /\ UNCHANGED mishaps
        BY <1>0, <3>3, SaveStuckMoves
      <4> QED  BY <4>1, NotStopped, MishapsStay DEF Smooth
    <3>4. StopStep => ~ Smooth'
      BY StopStepStops DEF Smooth
    <3>5. ~ Smooth'
      BY <2>1, <3>1, <3>2, <3>3, <3>4
    <3> QED  BY <3>5 DEF SilenceOk
  <2>2. ASSUME NEW w \in Lanes, Writes(w)
        PROVE  SilenceOk'
    <3>1. w = Worker => WriteMessage(Worker)
      BY <2>2, LanesAre DEF Writes
    <3> QED  BY <2>2, <3>1, SilenceThroughWorkerWrite, SilenceThroughReporterWrite
  <2>3. ASSUME NEW w \in Lanes, AppendStep(w)
        PROVE  SilenceOk'
    <3>1. Writes(w) \/ ReserveSequences(w) \/ InsertEvents(w)
      BY <2>3 DEF AppendStep, Writes
    <3> QED  BY <2>2, <3>1, SilenceThroughReports, SilenceThroughInsert
  <2> QED  BY <1>1, <2>1, <2>3, SilenceThroughWorker, SilenceThroughReports DEF ServerStep
<1>2. CASE Open \/ Ask \/ GetTail \/ GetPage \/ LoadOlder \/ Drop \/ UNCHANGED vars
  <2>1. UNCHANGED <<table, prompts, at, call, lane, overlapped, cancelled>>
    BY <1>2 DEF Open, Ask, GetTail, GetPage, LoadOlder, Drop, vars, server
  <2>2. UNCHANGED mishaps \/ Mishap("drop")
    BY <1>2 DEF Open, Ask, GetTail, GetPage, LoadOlder, Drop, vars
  <2>3. Smooth' => Smooth
    <3>1. \A k : Happened(k) => Happened(k)'
      BY <1>0, <2>2, MishapAdds, MishapsStay
    <3> QED  BY <3>1, SmoothSoFar
  <2>4. Undisturbed' => Undisturbed
    BY <2>1, <2>3 DEF Undisturbed
  <2>5. Ended' <=> Ended
    BY <2>1 DEF Ended, Pending
  <2>6. \A t : SilentNow(t)' <=> SilentNow(t)
    BY <2>1, <2>5 DEF SilentNow, Unsettled, Pending
  <2>7. Undisturbed' => PollNow'
    <3>1. PollNow' <=> PollNow
      BY <2>1 DEF PollNow
    <3> QED  BY <2>4, <3>1, SilenceParts
  <2> QED  BY <2>1, <2>4, <2>5, <2>6, <2>7, SilenceStay
<1> QED  BY <1>1, <1>2, Steps, SilenceThroughSubmit

-----------------------------------------------------------------------------
(* What a client has got *)

Followed == ~ overlapped /\ ~ late

(* Nothing comes late unless something interferes.                         *)
LateOk == late => overlapped \/ ~ Smooth

HasAll      == \A s \in Sequences : client.oldest <= s => s \in client.got
HasToCursor == \A s \in Sequences : client.oldest <= s /\ s <= client.cursor => s \in client.got

LEMMA ClientIs ==
    ClientOk <=>
        /\ client.at = "done" => status # "processing"
        /\ client.at \in {"opening", "asked"} =>
              \A r \in client.row : r.status # "processing" => status # "processing"
        /\ client.at = "done" /\ status # "processing" /\ Followed => HasAll
        /\ client.at # "off" /\ client.at # "opening" /\ Followed => HasToCursor
        /\ LateOk
<1>1. (\E kind \in {"stop", "stuck", "cut"} : Happened(kind)) <=> ~ Smooth
  BY DEF Smooth
<1> QED  BY <1>1 DEF ClientOk, FinishedHasAll, NothingSkippedUnlessOverlapping, Followed, HasAll,
                     HasToCursor, LateOk

LEMMA ClientIsThen ==
    ASSUME /\ client'.at = "done" => status' # "processing"
           /\ client'.at \in {"opening", "asked"} =>
                 \A r \in client'.row : r.status # "processing" => status' # "processing"
           /\ client'.at = "done" /\ status' # "processing" /\ Followed' => HasAll'
           /\ client'.at # "off" /\ client'.at # "opening" /\ Followed' => HasToCursor'
           /\ LateOk'
    PROVE  ClientOk'
<1>1. (\E kind \in {"stop", "stuck", "cut"} : Happened(kind)') <=> ~ Smooth'
  BY DEF Smooth
<1> QED  BY <1>1 DEF ClientOk, FinishedHasAll, NothingSkippedUnlessOverlapping, Followed, HasAll,
                     HasToCursor, LateOk

(* The server does nothing to the log.                                     *)
LEMMA ClientThroughServer ==
    ASSUME ClientOk, UNCHANGED <<log, client, late>>, ~ overlapped' => ~ overlapped,
           Smooth' => Smooth,
           UNCHANGED status \/ status' # "processing"
    PROVE  ClientOk'
<1>1. Sequences' = Sequences /\ (Followed' => Followed)
  BY DEF Sequences, Followed
<1>2. (HasAll => HasAll') /\ (HasToCursor => HasToCursor')
  BY <1>1 DEF HasAll, HasToCursor
<1>3. /\ client.at = "done" => status # "processing"
      /\ client.at \in {"opening", "asked"} =>
            \A r \in client.row : r.status # "processing" => status # "processing"
      /\ client.at = "done" /\ status # "processing" /\ Followed => HasAll
      /\ client.at # "off" /\ client.at # "opening" /\ Followed => HasToCursor
      /\ LateOk
  BY ClientIs
<1>4. /\ client'.at = "done" => status' # "processing"
      /\ client'.at \in {"opening", "asked"} =>
            \A r \in client'.row : r.status # "processing" => status' # "processing"
      /\ client'.at = "done" /\ Followed' => HasAll'
      /\ client'.at # "off" /\ client'.at # "opening" /\ Followed' => HasToCursor'
  BY <1>1, <1>2, <1>3
<1>5. LateOk'
  BY <1>3 DEF LateOk
<1> QED  BY <1>4, <1>5, ClientIsThen

(* Events are inserted above the cursor of everybody who follows, and not  *)
(* when a client has finished.                                             *)
LEMMA ClientThroughInsert ==
    ASSUME LogInv, NumbersOk, SilenceOk, ClientOk, NEW w \in Lanes, InsertEvents(w)
    PROVE  ClientOk'
<1>1. /\ lane[w].at = "reserved" /\ UNCHANGED <<status, client, mishaps, overlapped>>
      /\ Sequences' = Sequences \cup New(w) /\ late' = (late \/ status # "processing")
  BY InsertMoves
<1>2. (Smooth' <=> Smooth) /\ (Followed' => Followed /\ status = "processing")
  BY <1>1, MishapsStay DEF Smooth, Followed
<1>3. LateOk'
  <2> SUFFICES ASSUME late', ~ overlapped, Smooth
               PROVE  FALSE
    BY <1>1, <1>2 DEF LateOk
  <2>1. status # "processing"
    BY <1>1, ClientIs DEF LateOk
  <2>2. at \in {"rest", "settled", "failed"}
    BY <2>1, Parts DEF PlaceOk
  <2>3. lane[Worker].at = "free" /\ \A t \in Tools : lane[t].at = "free"
    BY <2>2, NobodyReports
  <2>4. lane[Stop].at = "free" /\ lane[Poll].at = "free"
    BY <2>2, NotStopped, SilenceParts DEF Undisturbed
  <2> QED  BY <1>1, <2>3, <2>4, LanesAre
<1>4. ASSUME Followed, NEW s \in New(w)
      PROVE  ~ (s <= client.cursor)
  <2> DEFINE first == lane[w].first
             n     == Len(lane[w].deltas)
             c     == client.cursor
  <2>1. first \in Nat /\ n \in Nat /\ c \in Nat
    BY Parts, TableIs, LaneFields, ClientFields DEF TypeOK
  <2>2. first > 0
    BY <1>1, Parts DEF DeltaOk, Pending
  <2>3. c \in {0} \cup Sequences
    BY DEF NumbersOk
  <2>4. \A r \in Sequences : r < first
    BY <1>1, <1>4 DEF NumbersOk, Followed
  <2>5. s \in first .. (first + n - 1)
    BY DEF New
  <2> HIDE DEF first, n, c
  <2>6. c < first
    BY <2>1, <2>2, <2>3, <2>4
  <2>7. ~ (s <= c)
    BY <2>1, <2>5, <2>6
  <2> QED  BY <2>7 DEF c
<1>5. Followed /\ HasToCursor => HasToCursor'
  <2> SUFFICES ASSUME Followed, HasToCursor, NEW s \in Sequences',
                      client'.oldest <= s, s <= client'.cursor
               PROVE  s \in client'.got
    BY DEF HasToCursor
  <2>1. s \in Sequences
    BY <1>1, <1>4
  <2> QED  BY <1>1, <2>1 DEF HasToCursor
<1>6. /\ client.at = "done" => status # "processing"
      /\ client.at \in {"opening", "asked"} =>
            \A r \in client.row : r.status # "processing" => status # "processing"
      /\ client.at # "off" /\ client.at # "opening" /\ Followed => HasToCursor
  BY ClientIs
<1>7. /\ client'.at = "done" => status' # "processing"
      /\ client'.at \in {"opening", "asked"} =>
            \A r \in client'.row : r.status # "processing" => status' # "processing"
      /\ client'.at = "done" => ~ Followed'
      /\ client'.at # "off" /\ client'.at # "opening" /\ Followed' => HasToCursor'
  BY <1>1, <1>2, <1>5, <1>6
<1> QED  BY <1>3, <1>7, ClientIsThen

LEMMA NextClient ==
    LogInv /\ RowOk /\ NumbersOk /\ SilenceOk /\ ClientOk /\ [Next]_vars => ClientOk'
<1> SUFFICES ASSUME LogInv, RowOk, NumbersOk, SilenceOk, ClientOk, [Next]_vars
             PROVE  ClientOk'
  OBVIOUS
<1>0. /\ TypeOK /\ PlaceOk /\ WorkerOk /\ IsFiniteSet(Sequences)
      /\ Sequences \subseteq Nat /\ client.oldest \in Nat /\ client.cursor \in Nat
  BY Parts, ClientFields DEF TypeOK
<1>1. /\ client.at = "done" => status # "processing"
      /\ client.at \in {"opening", "asked"} =>
            \A r \in client.row : r.status # "processing" => status # "processing"
      /\ client.at = "done" /\ Followed => HasAll
      /\ client.at # "off" /\ client.at # "opening" /\ Followed => HasToCursor
      /\ LateOk
  BY ClientIs
<1>2. ASSUME /\ client'.at = "done" => status' # "processing"
             /\ client'.at \in {"opening", "asked"} =>
                   \A r \in client'.row : r.status # "processing" => status' # "processing"
             /\ client'.at = "done" /\ Followed' => HasAll'
             /\ client'.at # "off" /\ client'.at # "opening" /\ Followed' => HasToCursor'
             /\ UNCHANGED <<late, overlapped>> /\ (Smooth' => Smooth)
      PROVE  ClientOk'
  <2>1. LateOk'
    BY <1>1, <1>2 DEF LateOk
  <2> QED  BY <1>2, <2>1, ClientIsThen
<1>3. ASSUME UNCHANGED <<server, mishaps, overlapped, late>>
      PROVE  /\ UNCHANGED status /\ Sequences' = Sequences /\ (Followed' <=> Followed)
             /\ Smooth' => Smooth
  <2>1. UNCHANGED <<log, status>>
    BY <1>3 DEF server
  <2> QED  BY <1>3, <2>1, MishapsStay DEF Followed, Sequences, Smooth
<1>4. CASE ServerStep
  <2>1. ASSUME NEW w \in Lanes, Writes(w) \/ ReserveSequences(w)
        PROVE  ClientOk'
    <3>1. UNCHANGED <<log, status, client, mishaps, overlapped, late>>
      BY <2>1 DEF Writes, StopWrites, WriteMessage, ReserveSequences, Keep
    <3>2. Smooth' => Smooth
      BY <3>1, MishapsStay DEF Smooth
    <3> QED  BY <3>1, <3>2, ClientThroughServer
  <2>2. CASE Quietly /\ ~ (\E w \in Lanes : InsertEvents(w))
    <3>1. /\ UNCHANGED <<log, client>>
          /\ ~ overlapped' => ~ overlapped
          /\ Smooth' => Smooth
      BY <2>2, SmoothSoFar DEF Quietly
    <3>2. UNCHANGED late
      BY <1>4, <2>2 DEF ServerStep, WorkerStep, WorkerFinds, SkipUpdate, BreakOff, ReportStatus,
            NoteAnswer, NoteTools, NoteEnd, NoticeCancel, NeverClaimed, ReadCursor, Settle,
            ToolFinds, AppendStep, WriteMessage, ReserveSequences, NoticeSilence, PollFinds,
            NoticeStuck, SaveStuck, Cut, StopStep, StopSession, FindCalls, StopFinds, StopWrites,
            FindRun, CancelRun, SaveStopped, Keep
    <3>3. UNCHANGED status \/ status' # "processing"
      <4>1. CASE Settle
        BY <1>0, <4>1, SettleMoves
      <4>2. CASE SaveStuck
        BY <1>0, <4>2, SaveStuckMoves
      <4>3. CASE SaveStopped
        BY <4>3 DEF SaveStopped
      <4>4. CASE ~ Settle /\ ~ SaveStuck /\ ~ SaveStopped
        BY <1>4, <2>2, <4>4 DEF ServerStep, WorkerStep, WorkerFinds, SkipUpdate, BreakOff,
              ReportStatus, NoteAnswer, NoteTools, NoteEnd, NoticeCancel, NeverClaimed, ReadCursor,
              ToolFinds, AppendStep, WriteMessage, ReserveSequences, NoticeSilence, PollFinds,
              NoticeStuck, Cut, StopStep, StopSession, FindCalls, StopFinds, StopWrites,
              FindRun, CancelRun
      <4> QED  BY <4>1, <4>2, <4>3, <4>4
    <3>4. UNCHANGED <<log, client, late>> /\ ClientOk
      BY <3>1, <3>2
    <3> QED  BY <3>1, <3>3, <3>4, ClientThroughServer
  <2> QED  BY <1>4, <2>1, <2>2, QuietSteps, ClientThroughInsert
<1>5. CASE Submit
  <2>1. /\ client.at \in {"off", "done"} /\ client'.at = "on"
        /\ UNCHANGED <<log, mishaps, overlapped, late>>
        /\ client'.oldest = client.oldest /\ client'.got = client.got
    BY <1>0, <1>5, SubmitMoves
  <2>2. Sequences' = Sequences /\ (Followed' <=> Followed) /\ (Smooth' => Smooth)
    BY <2>1, MishapsStay DEF Sequences, Followed, Smooth
  <2>3. client.at = "off" => Sequences = {}
    BY <1>0 DEF PlaceOk
  <2>4. Followed => HasToCursor'
    BY <1>1, <2>1, <2>2, <2>3 DEF HasAll, HasToCursor
  <2> QED  BY <1>2, <2>1, <2>2, <2>4
<1>6. CASE Open
  <2>1. /\ UNCHANGED <<server, mishaps, overlapped, late>> /\ client'.at = "opening"
        /\ client'.row = {[status |-> status, column |-> column]}
    BY <1>0, <1>6, OpenMoves
  <2> QED  BY <1>2, <1>3, <2>1
<1>7. CASE Ask
  <2>1. /\ client.at = "on" /\ UNCHANGED <<server, mishaps, overlapped, late>> /\ client'.at = "asked"
        /\ client'.row = {[status |-> status, column |-> column]} /\ client'.cursor = client.cursor
        /\ client'.oldest = client.oldest /\ client'.got = client.got
    BY <1>0, <1>7, AskMoves
  <2>2. Followed => HasToCursor'
    BY <1>1, <1>3, <2>1 DEF HasToCursor
  <2> QED  BY <1>2, <1>3, <2>1, <2>2
<1>8. CASE GetTail
  <2>1. /\ client.at = "opening" /\ UNCHANGED <<server, mishaps, overlapped, late>>
        /\ \E r \in client.row : client'.at = IF r.status = "processing" THEN "on" ELSE "done"
        /\ \A s \in Sequences : client'.oldest <= s => s \in client'.got
    BY <1>0, <1>8, GetTailMoves
  <2>2. HasAll' /\ HasToCursor'
    BY <1>3, <2>1 DEF HasAll, HasToCursor
  <2>3. client'.at = "done" => status' # "processing"
    BY <1>1, <1>3, <2>1
  <2> QED  BY <1>2, <1>3, <2>1, <2>2, <2>3
<1>9. CASE GetPage
  <2>1. /\ client.at = "asked" /\ UNCHANGED <<server, mishaps, overlapped, late>>
        /\ client' \in ClientStates /\ client'.at \in {"on", "done"}
        /\ client'.at = "done" => /\ \E r \in client.row : r.status # "processing"
                                  /\ \A s \in Sequences : client.cursor < s => s \in client'.got
        /\ client'.oldest = client.oldest /\ client.got \subseteq client'.got
        /\ \A s \in Sequences : client.cursor < s /\ s <= client'.cursor => s \in client'.got
    BY <1>0, <1>9, GetPageMoves
  <2>2. client'.at = "done" => status' # "processing"
    BY <1>1, <1>3, <2>1
  <2>3. ASSUME Followed
        PROVE  HasToCursor' /\ (client'.at = "done" => HasAll')
    <3>1. HasToCursor
      BY <1>1, <2>1, <2>3
    <3>2. \A s \in Sequences : s <= client.cursor \/ client.cursor < s
      BY <1>0
    <3>3. \A s \in Sequences : client.oldest <= s /\ s <= client.cursor => s \in client'.got
      BY <2>1, <3>1 DEF HasToCursor
    <3>4. HasToCursor'
      BY <1>3, <2>1, <3>2, <3>3 DEF HasToCursor
    <3>5. client'.at = "done" => HasAll'
      BY <1>3, <2>1, <3>2, <3>3 DEF HasAll
    <3> QED  BY <3>4, <3>5
  <2> QED  BY <1>2, <1>3, <2>1, <2>2, <2>3
<1>10. CASE LoadOlder
  <2>1. /\ client.at \in {"on", "done"} /\ UNCHANGED <<server, mishaps, overlapped, late>>
        /\ client'.at = client.at /\ client'.cursor = client.cursor
        /\ client.got \subseteq client'.got
        /\ \A s \in Sequences : client'.oldest <= s /\ s < client.oldest => s \in client'.got
    BY <1>0, <1>10, LoadOlderMoves
  <2>2. \A s \in Sequences : client.oldest <= s \/ s < client.oldest
    BY <1>0
  <2>3. (HasAll => HasAll') /\ (HasToCursor => HasToCursor')
    BY <1>3, <2>1, <2>2 DEF HasAll, HasToCursor
  <2> QED  BY <1>1, <1>2, <1>3, <2>1, <2>3
<1>11. CASE Drop
  <2>1. /\ client.at = "asked" /\ UNCHANGED <<server, overlapped, late>>
        /\ client'.at = "on" /\ client'.cursor = client.cursor
        /\ client'.oldest = client.oldest /\ client'.got = client.got
        /\ \A k : Happened(k)' <=> Happened(k) \/ k = "drop"
    BY <1>0, <1>11, DropMoves
  <2>2. Sequences' = Sequences /\ (Followed' => Followed) /\ (Smooth' => Smooth)
    BY <2>1 DEF server, Sequences, Followed, Smooth
  <2>3. Followed => HasToCursor'
    BY <1>1, <2>1, <2>2 DEF HasToCursor
  <2> QED  BY <1>2, <2>1, <2>2, <2>3
<1>12. CASE UNCHANGED vars
  <2>1. UNCHANGED <<log, client, status>> /\ UNCHANGED <<server, mishaps, overlapped, late>>
    BY <1>12 DEF vars, server
  <2> QED  BY <1>3, <2>1, ClientThroughServer
<1> QED  BY <1>4, <1>5, <1>6, <1>7, <1>8, <1>9, <1>10, <1>11, <1>12, Steps

(* The invariant of the log and its clients.                               *)
Inv == LogInv /\ RowOk /\ NumbersOk /\ SilenceOk /\ ClientOk

LEMMA InitClient == Init => Inv
<1> SUFFICES ASSUME Init
             PROVE  RowOk /\ NumbersOk /\ SilenceOk /\ ClientOk
  BY InitLog DEF Inv
<1>1. /\ client.at = "off" /\ client.cursor = 0 /\ column = 0
      /\ Sequences = {} /\ Messages = {} /\ Answers = {}
      /\ \A w \in Lanes : lane[w].at = "free"
      /\ Worker \in Lanes /\ Poll \in Lanes /\ Tools \subseteq Lanes
  BY LanesAre DEF Init, Sequences, Messages, Answers, Free
<1>2. RowOk /\ NumbersOk /\ ClientOk
  <2>1. stop.column = 0 /\ ~ late
    BY DEF Init
  <2> QED  BY <1>1, <2>1, ClientIs DEF RowOk, NumbersOk, LateOk
<1>3. SilenceOk
  BY <1>1 DEF SilenceOk, PollNow
<1> QED  BY <1>2, <1>3

LEMMA NextInv == Inv /\ [Next]_vars => Inv'
  BY NextLog, NextNumbers, NextSilence, NextClient DEF Inv

(* A client has got every event between the oldest it shows and its        *)
(* cursor, for any number of prompts, tools, mishaps and events in a page, *)
(* unless appends have overlapped or events came to a session that had     *)
(* stopped: append, listSince, listRecent and listBefore of                *)
(* data/sessions.ts and the cursors of the clients.                        *)
THEOREM NothingIsSkipped == Spec => []NothingSkippedUnlessOverlapping
<1>1. Inv => NothingSkippedUnlessOverlapping
  BY DEF Inv, ClientOk
<1> QED  BY <1>1, InitClient, NextInv, PTL DEF Spec

(* A client that has finished with a session has all of its log, unless    *)
(* appends have overlapped or events came when the session had stopped:    *)
(* the row is read before the page, and a full page does not complete.     *)
(* Nothing comes so late but after a stop, a session given up as stuck or  *)
(* a lost worker: a run by itself tells all before it sets the status.     *)
THEOREM FinishedClientsHaveAll == Spec => []FinishedHasAll
<1>1. Inv => FinishedHasAll
  BY DEF Inv, ClientOk
<1> QED  BY <1>1, InitClient, NextInv, PTL DEF Spec

=============================================================================
