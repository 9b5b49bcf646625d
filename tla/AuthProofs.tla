----------------------------- MODULE AuthProofs -----------------------------
(***************************************************************************)
(* What Accounts guarantees for any number of people and of requests at    *)
(* the same time, and for every bound on them, on cuts and on lapses; and  *)
(* what DeviceLogin guarantees for any number of accounts, of browsers     *)
(* that come back from GitHub and of clients that poll, and for any number *)
(* of requests lost.                                                       *)
(***************************************************************************)
EXTENDS Accounts, DeviceLogin, TLAPS, SequenceTheorems

-----------------------------------------------------------------------------
(* Accounts                                                                *)

(* A request that was sent with a mailed token has found its row, and one  *)
(* that makes a mailed token knows of which kind.                          *)
FindsRows(q, table) ==
    /\ q.at \in {"insert_user", "insert_password", "create_home"} => q.for = "verify"
    /\ q.at \in {"invalidate", "create_token"} => q.for \in {"verify", "reset"}
    /\ q.at \in {"consume", "set_password"} =>
          q.token \in DOMAIN table /\ table[q.token].kind = "reset"
    /\ q.at = "consume_mail" => q.token \in DOMAIN table /\ table[q.token].kind = "verify"

Located == \A r \in Requests : FindsRows(req[r], mailed)

(* A request has reset token t verified and has still to change the        *)
(* password, or it has consumed the token too.                             *)
Holds(r, t) == req[r].at \in {"consume", "set_password"} /\ req[r].token = t
Consumed(r, t) == req[r].at = "set_password" /\ req[r].token = t

(* A reset token that is not doubtful has been spent, or it is about to   *)
(* be by one request that holds it alone, or neither.                      *)
OnceAtMost(t) ==
    mailed[t].kind = "reset" /\ ~ mailed[t].doubtful =>
        /\ mailed[t].spent <= 1
        /\ mailed[t].spent = 1 => mailed[t].state # "fresh" /\ \A r \in Requests : ~ Holds(r, t)
        /\ \A r \in Requests : Consumed(r, t) =>
              /\ mailed[t].state # "fresh"
              /\ \A q \in Requests \ {r} : ~ Holds(q, t)

SpentOrHeld == \A t \in DOMAIN mailed : OnceAtMost(t)

(* Changes of a password are numbered upwards; a reset that has ended the  *)
(* sessions left none behind that was opened with an older one.            *)
ResetProgress ==
    /\ \A u \in Users : resetDone[u] <= passwords[u]
    /\ \A r \in Requests :
          /\ req[r].at \in {"end_sessions", "revoke_access"} =>
                req[r].version <= passwords[req[r].user]
          /\ req[r].at = "revoke_access" =>
                \A i \in DOMAIN sessions :
                    sessions[i].user = req[r].user /\ sessions[i].live /\ ~ sessions[i].late =>
                        sessions[i].version >= req[r].version

AccountInv == TypeOK /\ Located
SpendInv == AccountInv /\ SpentOrHeld
RevokeInv == AccountInv /\ ResetProgress /\ RevokedOnReset

-----------------------------------------------------------------------------
(* Tables. *)

(* A row of a table is replaced; a row that does not exist changes nothing.*)
LEMMA ReplaceRow ==
    ASSUME NEW S, NEW rows \in Seq(S), NEW i, NEW e, i \in DOMAIN rows => e \in S
    PROVE  /\ [rows EXCEPT ![i] = e] \in Seq(S)
           /\ DOMAIN [rows EXCEPT ![i] = e] = DOMAIN rows
           /\ \A j \in DOMAIN rows : [rows EXCEPT ![i] = e][j] = IF j = i THEN e ELSE rows[j]
<1>1. DOMAIN rows = 1 .. Len(rows)
  OBVIOUS
<1>2. CASE i \in DOMAIN rows
  BY <1>1, <1>2, ExceptSeq
<1>3. CASE i \notin DOMAIN rows
  <2>1. [rows EXCEPT ![i] = e] = rows
    BY <1>3
  <2> QED  BY <1>3, <2>1
<1> QED  BY <1>2, <1>3

(* Every row of a table is replaced. *)
LEMMA ReplaceRows ==
    ASSUME NEW S, NEW rows \in Seq(S), NEW new \in [DOMAIN rows -> S]
    PROVE  new \in Seq(S) /\ DOMAIN new = DOMAIN rows
<1>1. DOMAIN rows = 1 .. Len(rows) /\ Len(rows) \in Nat
  OBVIOUS
<1>2. new \in [1 .. Len(rows) -> S]
  BY <1>1
<1> QED  BY <1>1, <1>2

LEMMA AddRow ==
    ASSUME NEW S, NEW rows \in Seq(S), NEW e \in S
    PROVE  /\ Append(rows, e) \in Seq(S)
           /\ DOMAIN Append(rows, e) = DOMAIN rows \cup {Len(rows) + 1}
           /\ Len(rows) + 1 \notin DOMAIN rows
           /\ \A j \in DOMAIN rows : Append(rows, e)[j] = rows[j]
           /\ Append(rows, e)[Len(rows) + 1] = e
<1>1. DOMAIN rows = 1 .. Len(rows) /\ Len(rows) \in Nat
  OBVIOUS
<1>2. DOMAIN Append(rows, e) = 1 .. Len(rows) + 1
  BY AppendProperties
<1> QED  BY <1>1, <1>2, AppendProperties

LEMMA RowOf ==
    ASSUME NEW S, NEW rows \in Seq(S), NEW i \in DOMAIN rows
    PROVE  rows[i] \in S
  OBVIOUS

(* What a reset does in which order. *)
LEMMA ResetStages ==
    /\ AfterReset("consume") = "set_password"
    /\ AfterReset("set_password") = "end_sessions"
    /\ AfterReset("end_sessions") = "revoke_access"
    /\ AfterReset("revoke_access") = "idle"
<1> DEFINE place(s) == CHOOSE i \in DOMAIN ResetOrder : ResetOrder[i] = s
<1>1. DOMAIN ResetOrder = 1 .. 5
  BY DEF ResetOrder
<1>2. /\ ResetOrder[1] = "consume" /\ ResetOrder[2] = "set_password" /\ ResetOrder[3] = "end_sessions"
      /\ ResetOrder[4] = "revoke_access" /\ ResetOrder[5] = "idle"
  BY DEF ResetOrder
<1>3. \A i \in 1 .. 5 : i = 1 \/ i = 2 \/ i = 3 \/ i = 4 \/ i = 5
  OBVIOUS
<1>4. /\ place("consume") = 1 /\ place("set_password") = 2
      /\ place("end_sessions") = 3 /\ place("revoke_access") = 4
  BY <1>1, <1>2, <1>3
<1>5. \A s : AfterReset(s) = ResetOrder[place(s) + 1]
  BY DEF AfterReset
<1> HIDE DEF place
<1>6. 1 + 1 = 2 /\ 2 + 1 = 3 /\ 3 + 1 = 4 /\ 4 + 1 = 5
  OBVIOUS
<1> QED  BY <1>2, <1>4, <1>5, <1>6

-----------------------------------------------------------------------------
(* Types. *)

LEMMA IdleType == Idle \in RequestStates /\ Idle.at = "idle"
  BY SomeUser DEF Idle, RequestStates, Stages

(* A request goes on with what it has kept, or it is answered. *)
LEMMA GoOnType ==
    ASSUME TypeOK, NEW r \in Requests, NEW stage \in Stages, GoOn(r, stage)
    PROVE  /\ req' \in [Requests -> RequestStates]
           /\ made' \in Nat /\ cuts' \in Nat /\ lapses' \in Nat
           /\ \A q \in Requests \ {r} : req'[q] = req[q]
           /\ req'[r] = IF stage = "idle" THEN Idle ELSE [req[r] EXCEPT !.at = stage]
<1>1. req[r] \in RequestStates
  BY DEF TypeOK
<1>2. [req[r] EXCEPT !.at = stage] \in RequestStates
  BY <1>1 DEF RequestStates
<1>3. req' = [req EXCEPT ![r] = IF stage = "idle" THEN Idle ELSE [req[r] EXCEPT !.at = stage]]
  BY DEF GoOn, TypeOK
<1> QED  BY <1>2, <1>3, IdleType DEF TypeOK, GoOn, bounds

LEMMA ArriveType ==
    ASSUME TypeOK, NEW r \in Requests, NEW entry \in RequestStates, Arrive(r, entry)
    PROVE  /\ TypeOK'
           /\ req[r].at = "idle" /\ req'[r] = entry
           /\ \A q \in Requests \ {r} : req'[q] = req[q]
  BY DEF TypeOK, Arrive, tables

(* A reset goes on, and when it is answered it is the one that counts. *)
LEMMA ResetType ==
    ASSUME TypeOK, NEW r \in Requests, GoOnWithReset(r),
           req[r].at \in {"consume", "end_sessions", "revoke_access"}
    PROVE  /\ req' \in [Requests -> RequestStates]
           /\ made' \in Nat /\ cuts' \in Nat /\ lapses' \in Nat
           /\ \A q \in Requests \ {r} : req'[q] = req[q]
           /\ req'[r] = IF req[r].at = "revoke_access" THEN Idle
                          ELSE [req[r] EXCEPT !.at = AfterReset(req[r].at)]
           /\ resetDone' = IF req[r].at = "revoke_access" /\ req[r].version > resetDone[req[r].user]
                             THEN [resetDone EXCEPT ![req[r].user] = req[r].version] ELSE resetDone
<1>1. AfterReset(req[r].at) \in Stages /\ (AfterReset(req[r].at) = "idle" <=> req[r].at = "revoke_access")
  BY ResetStages DEF Stages
<1>2. GoOn(r, AfterReset(req[r].at))
  BY DEF GoOnWithReset
<1>3. req[r].at # "set_password"
  OBVIOUS
<1>4. resetDone' = IF req[r].at = "revoke_access" /\ req[r].version > resetDone[req[r].user]
                     THEN [resetDone EXCEPT ![req[r].user] = req[r].version] ELSE resetDone
  BY <1>1, <1>3 DEF GoOnWithReset
<1> QED  BY <1>1, <1>2, <1>4, GoOnType

(* Ending what a user has opened changes nothing but that. *)
LEMMA KillRowsType ==
    ASSUME NEW S, NEW rows \in Seq(S), NEW u,
           \A entry \in S : [entry EXCEPT !.live = FALSE] \in S
    PROVE  /\ KillRows(rows, u) \in Seq(S)
           /\ DOMAIN KillRows(rows, u) = DOMAIN rows
           /\ \A i \in DOMAIN rows :
                  KillRows(rows, u)[i] = IF rows[i].user = u THEN [rows[i] EXCEPT !.live = FALSE] ELSE rows[i]
<1>1. KillRows(rows, u) \in [DOMAIN rows -> S]
  BY RowOf DEF KillRows
<1>2. KillRows(rows, u) \in Seq(S) /\ DOMAIN KillRows(rows, u) = DOMAIN rows
  BY <1>1, ReplaceRows
<1> QED  BY <1>2 DEF KillRows

LEMMA RowTypes ==
    /\ \A entry \in SessionRows : [entry EXCEPT !.live = FALSE] \in SessionRows
    /\ \A entry \in SessionRows : [entry EXCEPT !.old = TRUE] \in SessionRows
    /\ \A entry \in AccessRows : [entry EXCEPT !.live = FALSE] \in AccessRows
    /\ \A entry \in MailRows, s \in {"fresh", "consumed", "lapsed"} :
           [entry EXCEPT !.state = s] \in MailRows
<1>1. ASSUME NEW entry \in SessionRows
      PROVE  [entry EXCEPT !.live = FALSE] \in SessionRows /\ [entry EXCEPT !.old = TRUE] \in SessionRows
  BY DEF SessionRows
<1>2. ASSUME NEW entry \in AccessRows
      PROVE  [entry EXCEPT !.live = FALSE] \in AccessRows
  BY DEF AccessRows
<1>3. ASSUME NEW entry \in MailRows, NEW s \in {"fresh", "consumed", "lapsed"}
      PROVE  [entry EXCEPT !.state = s] \in MailRows
  BY DEF MailRows
<1> QED  BY <1>1, <1>2, <1>3

-----------------------------------------------------------------------------
(* What the statements do to the mailed tokens. *)

LEMMA MailOf ==
    ASSUME TypeOK, NEW t \in DOMAIN mailed
    PROVE  /\ mailed[t] \in MailRows
           /\ mailed[t].kind \in {"verify", "reset"}
           /\ mailed[t].spent \in Nat
<1>1. mailed[t] \in MailRows
  BY RowOf DEF TypeOK
<1> QED  BY <1>1 DEF MailRows

(* Only the state of token t has changed, to s.                            *)
Restated(t, s) ==
    /\ mailed'[t].kind = mailed[t].kind
    /\ mailed'[t].spent = mailed[t].spent
    /\ mailed'[t].doubtful = mailed[t].doubtful
    /\ mailed'[t].state = s

LEMMA RestatedRow ==
    ASSUME TypeOK, NEW t \in DOMAIN mailed, NEW s, mailed'[t] = [mailed[t] EXCEPT !.state = s]
    PROVE  Restated(t, s)
<1>1. PICK old : old = mailed[t]
  OBVIOUS
<1>2. old \in MailRows
  BY <1>1, MailOf
<1>3. PICK entry : entry = [old EXCEPT !.state = s]
  OBVIOUS
<1>4. entry.kind = old.kind /\ entry.spent = old.spent /\ entry.doubtful = old.doubtful /\ entry.state = s
  BY <1>2, <1>3 DEF MailRows
<1>5. mailed'[t] = entry
  BY <1>1, <1>3
<1> QED  BY <1>1, <1>4, <1>5 DEF Restated

LEMMA InvalidateEffect ==
    ASSUME TypeOK, NEW kind, NEW u, Invalidate(kind, u)
    PROVE  /\ mailed' \in Seq(MailRows)
           /\ DOMAIN mailed' = DOMAIN mailed
           /\ \A t \in DOMAIN mailed : mailed'[t] = mailed[t] \/ Restated(t, "consumed")
<1>1. mailed' \in [DOMAIN mailed -> MailRows]
  BY MailOf, RowTypes DEF Invalidate
<1>2. mailed \in Seq(MailRows)
  BY DEF TypeOK
<1>3. mailed' \in Seq(MailRows) /\ DOMAIN mailed' = DOMAIN mailed
  BY <1>1, <1>2, ReplaceRows
<1>4. ASSUME NEW t \in DOMAIN mailed
      PROVE  mailed'[t] = mailed[t] \/ Restated(t, "consumed")
  <2>1. mailed'[t] = mailed[t] \/ mailed'[t] = [mailed[t] EXCEPT !.state = "consumed"]
    BY DEF Invalidate
  <2> QED  BY <2>1, RestatedRow
<1> QED  BY <1>3, <1>4

LEMMA CreateEffect ==
    ASSUME TypeOK, NEW kind \in {"verify", "reset"}, NEW u \in Users,
           mailed' = Append(mailed, MailedToken(kind, u))
    PROVE  /\ mailed' \in Seq(MailRows)
           /\ DOMAIN mailed' = DOMAIN mailed \cup {Len(mailed) + 1}
           /\ Len(mailed) + 1 \notin DOMAIN mailed
           /\ \A t \in DOMAIN mailed : mailed'[t] = mailed[t]
           /\ mailed'[Len(mailed) + 1] = MailedToken(kind, u)
<1>1. MailedToken(kind, u) \in MailRows
  BY DEF MailedToken, MailRows
<1> QED  BY <1>1, AddRow DEF TypeOK

LEMMA ConsumeEffect ==
    ASSUME TypeOK, NEW r \in Requests, ConsumeResetToken(r), req[r].token \in DOMAIN mailed
    PROVE  /\ mailed' \in Seq(MailRows)
           /\ DOMAIN mailed' = DOMAIN mailed
           /\ \A t \in DOMAIN mailed : t # req[r].token => mailed'[t] = mailed[t]
           /\ mailed'[req[r].token].kind = mailed[req[r].token].kind
           /\ mailed'[req[r].token].spent = mailed[req[r].token].spent
           /\ mailed'[req[r].token].state = "consumed"
           /\ ~ mailed'[req[r].token].doubtful =>
                 /\ ~ mailed[req[r].token].doubtful
                 /\ \A q \in Requests \ {r} : ~ (req[q].at = "consume" /\ req[q].token = req[r].token)
<1> DEFINE t == req[r].token
           rival == \E q \in Requests \ {r} : req[q].at = "consume" /\ req[q].token = t
           entry == [mailed[t] EXCEPT !.state = "consumed", !.doubtful = @ \/ rival]
<1>1. mailed[t] \in MailRows
  BY MailOf
<1>2. rival \in BOOLEAN /\ (mailed[t].doubtful \/ rival) \in BOOLEAN
  OBVIOUS
<1>3. /\ entry \in MailRows
      /\ entry.kind = mailed[t].kind /\ entry.spent = mailed[t].spent /\ entry.state = "consumed"
      /\ entry.doubtful = (mailed[t].doubtful \/ rival)
  <2> HIDE DEF rival
  <2> QED  BY <1>1, <1>2 DEF MailRows
<1>4. mailed' = [mailed EXCEPT ![t] = entry]
  BY DEF ConsumeResetToken
<1> HIDE DEF entry
<1>5. mailed \in Seq(MailRows)
  BY DEF TypeOK
<1>6. /\ mailed' \in Seq(MailRows)
      /\ DOMAIN mailed' = DOMAIN mailed
      /\ \A s \in DOMAIN mailed : mailed'[s] = IF s = t THEN entry ELSE mailed[s]
  BY <1>3, <1>4, <1>5, ReplaceRow
<1>7. mailed'[t] = entry
  BY <1>6
<1> QED  BY <1>3, <1>6, <1>7

LEMMA SpendEffect ==
    ASSUME TypeOK, NEW t \in DOMAIN mailed, NEW state \in {"fresh", "consumed", "lapsed"},
           mailed' = [mailed EXCEPT ![t] = [mailed[t] EXCEPT !.state = state, !.spent = @ + 1]]
    PROVE  /\ mailed' \in Seq(MailRows)
           /\ DOMAIN mailed' = DOMAIN mailed
           /\ \A s \in DOMAIN mailed : s # t => mailed'[s] = mailed[s]
           /\ mailed'[t].kind = mailed[t].kind
           /\ mailed'[t].doubtful = mailed[t].doubtful
           /\ mailed'[t].state = state
           /\ mailed'[t].spent = mailed[t].spent + 1
<1>1. PICK old : old = mailed[t]
  OBVIOUS
<1>2. PICK entry : entry = [old EXCEPT !.state = state, !.spent = @ + 1]
  OBVIOUS
<1>3. /\ entry \in MailRows
      /\ entry.kind = old.kind /\ entry.doubtful = old.doubtful
      /\ entry.state = state /\ entry.spent = old.spent + 1
  <2>1. old \in MailRows
    BY <1>1, MailOf
  <2>2. old.spent + 1 \in Nat
    BY <2>1 DEF MailRows
  <2> QED  BY <1>2, <2>1, <2>2 DEF MailRows
<1>4. mailed' = [mailed EXCEPT ![t] = entry]
  BY <1>1, <1>2
<1>5. mailed \in Seq(MailRows)
  BY DEF TypeOK
<1>6. /\ mailed' \in Seq(MailRows)
      /\ DOMAIN mailed' = DOMAIN mailed
      /\ \A s \in DOMAIN mailed : mailed'[s] = IF s = t THEN entry ELSE mailed[s]
  BY <1>3, <1>4, <1>5, ReplaceRow
<1> QED  BY <1>1, <1>3, <1>6

(* Setting the password spends the token; its state stays. *)
LEMMA SetPasswordEffect ==
    ASSUME TypeOK, NEW r \in Requests, SetPassword(r), req[r].token \in DOMAIN mailed
    PROVE  mailed' = [mailed EXCEPT ![req[r].token] =
                        [mailed[req[r].token] EXCEPT !.state = mailed[req[r].token].state, !.spent = @ + 1]]
<1> DEFINE t == req[r].token
<1>1. mailed[t] \in MailRows
  BY MailOf
<1>2. [mailed[t] EXCEPT !.spent = @ + 1]
        = [mailed[t] EXCEPT !.state = mailed[t].state, !.spent = @ + 1]
  BY <1>1 DEF MailRows
<1> QED  BY <1>2 DEF SetPassword

LEMMA ConsumeVerificationEffect ==
    ASSUME TypeOK, NEW r \in Requests, ConsumeVerification(r), req[r].token \in DOMAIN mailed
    PROVE  mailed' = [mailed EXCEPT ![req[r].token] =
                        [mailed[req[r].token] EXCEPT !.state = "consumed", !.spent = @ + 1]]
  BY DEF ConsumeVerification

LEMMA LapseEffect ==
    ASSUME TypeOK, NEW t \in DOMAIN mailed, mailed' = [mailed EXCEPT ![t].state = "lapsed"]
    PROVE  /\ mailed' \in Seq(MailRows)
           /\ DOMAIN mailed' = DOMAIN mailed
           /\ \A s \in DOMAIN mailed : mailed'[s] = mailed[s] \/ Restated(s, "lapsed")
<1>1. [mailed[t] EXCEPT !.state = "lapsed"] \in MailRows
  BY MailOf, RowTypes
<1>2. /\ mailed' \in Seq(MailRows)
      /\ DOMAIN mailed' = DOMAIN mailed
      /\ \A s \in DOMAIN mailed : mailed'[s] = IF s = t THEN [mailed[t] EXCEPT !.state = "lapsed"] ELSE mailed[s]
  BY <1>1, ReplaceRow DEF TypeOK
<1>3. Restated(t, "lapsed")
  <2>1. mailed'[t] = [mailed[t] EXCEPT !.state = "lapsed"]
    BY <1>2
  <2> QED  BY <2>1, RestatedRow
<1> QED  BY <1>2, <1>3

-----------------------------------------------------------------------------
(* Every step keeps the types. *)

LEMMA StageType == \A stage \in {"idle", "insert_user", "insert_password", "create_home", "invalidate",
                       "create_token", "open_session", "consume", "set_password", "end_sessions",
                       "revoke_access", "consume_mail", "set_verified", "touch", "find_home",
                       "make_home", "authorized"} : stage \in Stages
  BY DEF Stages

LEMMA RequestOf ==
    ASSUME TypeOK, NEW r \in Requests
    PROVE  /\ req[r] \in RequestStates /\ req[r].user \in Users
           /\ req[r].version \in Nat /\ req[r].token \in Nat
<1>1. req[r] \in RequestStates
  BY DEF TypeOK
<1> QED  BY <1>1 DEF RequestStates

LEMMA AddHomeType ==
    ASSUME TypeOK, NEW u \in Users, AddHome(u)
    PROVE  homes' \in [Users -> Nat]
  BY DEF TypeOK, AddHome

LEMMA StatementTypes ==
    ASSUME AccountInv, NEW r \in Requests, Statement(r)
    PROVE  TypeOK'
<1> USE DEF AccountInv
<1> DEFINE u == req[r].user
<1>0. /\ TypeOK /\ req[r] \in RequestStates /\ u \in Users
      /\ req[r].version \in Nat /\ req[r].token \in Nat
  BY RequestOf
<1>1. CASE InsertUser(r)
  <2>1. GoOn(r, IF u \in users THEN "idle" ELSE "insert_password")
    BY <1>1 DEF InsertUser
  <2> QED  BY <1>0, <1>1, <2>1, GoOnType, StageType DEF InsertUser, TypeOK
<1>2. CASE InsertPassword(r)
  <2>1. CASE passwords[u] # 0
    <3>1. GoOn(r, "idle") /\ UNCHANGED passwords
      BY <1>2, <2>1 DEF InsertPassword
    <3> QED  BY <1>0, <1>2, <3>1, GoOnType, StageType DEF InsertPassword, TypeOK
  <2>2. CASE ~ (passwords[u] # 0)
    <3>1. /\ passwords' = [passwords EXCEPT ![u] = 1] /\ UNCHANGED bounds
          /\ req' = [req EXCEPT ![r] = [req[r] EXCEPT !.at = "create_home", !.version = 1]]
      BY <1>2, <2>2 DEF InsertPassword
    <3>2. [req[r] EXCEPT !.at = "create_home", !.version = 1] \in RequestStates
      BY <1>0, StageType DEF RequestStates
    <3> QED  BY <1>0, <1>2, <3>1, <3>2 DEF InsertPassword, TypeOK, bounds
  <2> QED  BY <2>1, <2>2
<1>3. CASE CreateHome(r)
  <2>1. GoOn(r, "invalidate") /\ AddHome(u)
    BY <1>3 DEF CreateHome
  <2> QED  BY <1>0, <1>3, <2>1, GoOnType, StageType, AddHomeType DEF CreateHome, TypeOK
<1>4. CASE OpenSession(r)
  <2> DEFINE entry == [user |-> u, version |-> req[r].version, live |-> TRUE, old |-> FALSE,
                     late |-> req[r].version # passwords[u]]
  <2>1. GoOn(r, "idle") /\ sessions' = Append(sessions, entry)
    BY <1>4 DEF OpenSession
  <2>2. entry \in SessionRows
    BY <1>0 DEF SessionRows
  <2>3. sessions' \in Seq(SessionRows)
    BY <1>0, <2>1, <2>2, AddRow DEF TypeOK
  <2> QED  BY <1>0, <1>4, <2>1, <2>3, GoOnType, StageType DEF OpenSession, TypeOK
<1>5. CASE InvalidateTokens(r)
  <2>1. GoOn(r, "create_token") /\ Invalidate(req[r].for, u)
    BY <1>5 DEF InvalidateTokens
  <2> QED  BY <1>0, <1>5, <2>1, GoOnType, StageType, InvalidateEffect DEF InvalidateTokens, TypeOK
<1>6. CASE CreateToken(r)
  <2>1. /\ GoOn(r, IF req[r].for = "verify" THEN "open_session" ELSE "idle")
        /\ mailed' = Append(mailed, MailedToken(req[r].for, u))
    BY <1>6 DEF CreateToken
  <2>2. req[r].for \in {"verify", "reset"}
    BY <1>0, <1>6 DEF CreateToken, Located, FindsRows
  <2> QED  BY <1>0, <1>6, <2>1, <2>2, GoOnType, StageType, CreateEffect DEF CreateToken, TypeOK
<1>7. CASE ConsumeResetToken(r)
  <2>1. GoOnWithReset(r) /\ req[r].at = "consume" /\ req[r].token \in DOMAIN mailed
    BY <1>7 DEF ConsumeResetToken, Located, FindsRows
  <2>2. req' \in [Requests -> RequestStates] /\ made' \in Nat /\ cuts' \in Nat /\ lapses' \in Nat
        /\ resetDone' = resetDone
    BY <1>0, <2>1, ResetType
  <2> QED  BY <1>0, <1>7, <2>1, <2>2, ConsumeEffect DEF ConsumeResetToken, TypeOK
<1>8. CASE SetPassword(r)
  <2>1. req[r].at = "set_password" /\ req[r].token \in DOMAIN mailed
    BY <1>8 DEF SetPassword, Located, FindsRows
  <2>2. mailed[req[r].token].state \in {"fresh", "consumed", "lapsed"}
    BY <1>0, <2>1, MailOf DEF MailRows
  <2>3. mailed' \in Seq(MailRows)
    BY <1>0, <1>8, <2>1, <2>2, SetPasswordEffect, SpendEffect
  <2>4. passwords[u] + 1 \in Nat
    BY <1>0 DEF TypeOK
  <2>5. /\ req' = [req EXCEPT ![r] = [req[r] EXCEPT !.at = "end_sessions", !.version = passwords[u] + 1]]
        /\ resetDone' = resetDone
        /\ passwords' = [passwords EXCEPT ![u] = passwords[u] + 1]
    BY <1>0, <1>8, ResetStages DEF SetPassword, TypeOK
  <2>6. [req[r] EXCEPT !.at = "end_sessions", !.version = passwords[u] + 1] \in RequestStates
    BY <1>0, <2>4, StageType DEF RequestStates
  <2> QED  BY <1>0, <1>8, <2>3, <2>4, <2>5, <2>6 DEF SetPassword, TypeOK, bounds
<1>9. CASE EndSessions(r)
  <2>1. GoOnWithReset(r) /\ req[r].at = "end_sessions" /\ sessions' = KillRows(sessions, u)
    BY <1>9 DEF EndSessions
  <2>2. req' \in [Requests -> RequestStates] /\ made' \in Nat /\ cuts' \in Nat /\ lapses' \in Nat
        /\ resetDone' = resetDone
    BY <1>0, <2>1, ResetType
  <2>3. sessions' \in Seq(SessionRows)
    BY <1>0, <2>1, KillRowsType, RowTypes DEF TypeOK
  <2> QED  BY <1>0, <1>9, <2>2, <2>3 DEF EndSessions, TypeOK
<1>10. CASE RevokeAccess(r)
  <2>1. GoOnWithReset(r) /\ req[r].at = "revoke_access" /\ access' = KillRows(access, u)
    BY <1>10 DEF RevokeAccess
  <2>2. req' \in [Requests -> RequestStates] /\ made' \in Nat /\ cuts' \in Nat /\ lapses' \in Nat
        /\ resetDone' \in [Users -> Nat]
    BY <1>0, <2>1, ResetType DEF TypeOK
  <2>3. access' \in Seq(AccessRows)
    BY <1>0, <2>1, KillRowsType, RowTypes DEF TypeOK
  <2> QED  BY <1>0, <1>10, <2>2, <2>3 DEF RevokeAccess, TypeOK
<1>11. CASE ConsumeVerification(r)
  <2>1. req[r].at = "consume_mail" /\ req[r].token \in DOMAIN mailed /\ GoOn(r, "set_verified")
    BY <1>11 DEF ConsumeVerification, Located, FindsRows
  <2>2. mailed' \in Seq(MailRows)
    BY <1>0, <1>11, <2>1, ConsumeVerificationEffect, SpendEffect
  <2> QED  BY <1>0, <1>11, <2>1, <2>2, GoOnType, StageType DEF ConsumeVerification, TypeOK
<1>12. CASE SetVerified(r)
  <2>1. GoOn(r, "idle")
    BY <1>12 DEF SetVerified
  <2> QED  BY <1>0, <1>12, <2>1, GoOnType, StageType DEF SetVerified, TypeOK
<1>13. CASE TouchSession(r)
  <2>1. CASE sessions[req[r].token].old
    <3>1. GoOn(r, "idle") /\ sessions' = [sessions EXCEPT ![req[r].token] = [sessions[req[r].token] EXCEPT !.live = FALSE]]
      BY <1>13, <2>1 DEF TouchSession
    <3>2. sessions' \in Seq(SessionRows)
      BY <1>0, <3>1, ReplaceRow, RowOf, RowTypes DEF TypeOK
    <3> QED  BY <1>0, <1>13, <3>1, <3>2, GoOnType, StageType DEF TouchSession, TypeOK
  <2>2. CASE ~ sessions[req[r].token].old
    <3>1. GoOn(r, "find_home") /\ UNCHANGED sessions
      BY <1>13, <2>2 DEF TouchSession, Touch
    <3> QED  BY <1>0, <1>13, <3>1, GoOnType, StageType DEF TouchSession, TypeOK
  <2> QED  BY <2>1, <2>2
<1>14. CASE FindHome(r)
  <2>1. GoOn(r, IF homes[u] > 0 THEN "authorized" ELSE "make_home")
    BY <1>14 DEF FindHome
  <2> QED  BY <1>0, <1>14, <2>1, GoOnType, StageType DEF FindHome, TypeOK, tables
<1>15. CASE MakeHome(r)
  <2>1. GoOn(r, "authorized") /\ AddHome(u)
    BY <1>15 DEF MakeHome
  <2> QED  BY <1>0, <1>15, <2>1, GoOnType, StageType, AddHomeType DEF MakeHome, TypeOK
<1>16. CASE Serve(r)
  <2>1. GoOn(r, "idle")
    BY <1>16 DEF Serve
  <2> QED  BY <1>0, <1>16, <2>1, GoOnType, StageType DEF Serve, TypeOK, tables
<1>17. CASE Logout(r)
  <2>1. GoOn(r, "idle")
    BY <1>17 DEF Logout
  <2>2. access' \in Seq(AccessRows) /\ sessions' \in Seq(SessionRows)
    <3>1. CASE req[r].for = "access"
      <4>1. /\ access' = [access EXCEPT ![req[r].token] = [access[req[r].token] EXCEPT !.live = FALSE]]
            /\ UNCHANGED sessions
        BY <1>17, <3>1 DEF Logout
      <4> QED  BY <1>0, <4>1, ReplaceRow, RowOf, RowTypes DEF TypeOK
    <3>2. CASE req[r].for # "access"
      <4>1. /\ sessions' = [sessions EXCEPT ![req[r].token] = [sessions[req[r].token] EXCEPT !.live = FALSE]]
            /\ UNCHANGED access
        BY <1>17, <3>2 DEF Logout
      <4> QED  BY <1>0, <4>1, ReplaceRow, RowOf, RowTypes DEF TypeOK
    <3> QED  BY <3>1, <3>2
  <2> QED  BY <1>0, <1>17, <2>1, <2>2, GoOnType, StageType DEF Logout, TypeOK
<1> QED  BY <1>1, <1>2, <1>3, <1>4, <1>5, <1>6, <1>7, <1>8, <1>9, <1>10, <1>11, <1>12, <1>13, <1>14,
            <1>15, <1>16, <1>17 DEF Statement

LEMMA ArrivalTypes ==
    ASSUME TypeOK, NEW r \in Requests,
           \/ \E u \in Users : Register(r, u) \/ Login(r, u) \/ ForgotPassword(r, u)
           \/ \E t \in DOMAIN mailed : ResetPassword(r, t) \/ VerifyEmail(r, t)
           \/ \E i \in DOMAIN access : BearerRequest(r, i)
           \/ \E i \in DOMAIN sessions : CookieRequest(r, i)
    PROVE  /\ TypeOK' /\ UNCHANGED tables /\ UNCHANGED resetDone
           /\ \A q \in Requests \ {r} : req'[q] = req[q]
           /\ FindsRows(req'[r], mailed)
           /\ req'[r].at \notin {"set_password", "end_sessions", "revoke_access"}
           /\ req'[r].at = "consume" => mailed[req'[r].token].state = "fresh"
<1>0. Idle \in RequestStates
  BY IdleType
<1>1. ASSUME NEW u \in Users, Register(r, u) \/ Login(r, u) \/ ForgotPassword(r, u)
      PROVE  \E entry \in RequestStates : Arrive(r, entry) /\ FindsRows(entry, mailed)
                /\ entry.at \notin {"consume", "set_password", "end_sessions", "revoke_access"}
  <2>1. CASE Register(r, u)
    <3> DEFINE entry == [Idle EXCEPT !.at = "insert_user", !.user = u, !.for = "verify"]
    <3>1. entry \in RequestStates /\ entry.at = "insert_user" /\ entry.for = "verify"
      BY <1>0, StageType DEF RequestStates
    <3> QED  BY <2>1, <3>1 DEF Register, FindsRows
  <2>2. CASE Login(r, u)
    <3> DEFINE entry == [Idle EXCEPT !.at = "open_session", !.user = u, !.version = passwords[u]]
    <3>1. passwords[u] \in Nat
      BY DEF TypeOK
    <3>2. entry \in RequestStates /\ entry.at = "open_session"
      BY <1>0, <3>1, StageType DEF RequestStates
    <3> QED  BY <2>2, <3>2 DEF Login, FindsRows
  <2>3. CASE ForgotPassword(r, u)
    <3> DEFINE entry == [Idle EXCEPT !.at = "invalidate", !.user = u, !.for = "reset"]
    <3>1. entry \in RequestStates /\ entry.at = "invalidate" /\ entry.for = "reset"
      BY <1>0, StageType DEF RequestStates
    <3> QED  BY <2>3, <3>1 DEF ForgotPassword, FindsRows
  <2> QED  BY <1>1, <2>1, <2>2, <2>3
<1>2. ASSUME NEW t \in DOMAIN mailed, ResetPassword(r, t) \/ VerifyEmail(r, t)
      PROVE  \E entry \in RequestStates : Arrive(r, entry) /\ FindsRows(entry, mailed)
                /\ entry.at \notin {"set_password", "end_sessions", "revoke_access"}
                /\ (entry.at = "consume" => mailed[entry.token].state = "fresh")
  <2>0. t \in Nat /\ mailed[t].user \in Users
    <3>1. mailed[t] \in MailRows
      BY MailOf
    <3>2. DOMAIN mailed \subseteq Nat
      BY DEF TypeOK
    <3> QED  BY <3>1, <3>2 DEF MailRows
  <2>1. CASE ResetPassword(r, t)
    <3> DEFINE entry == [Idle EXCEPT !.at = "consume", !.user = mailed[t].user, !.token = t]
    <3>1. entry \in RequestStates /\ entry.at = "consume" /\ entry.token = t
      BY <1>0, <2>0, StageType DEF RequestStates
    <3> QED  BY <2>1, <3>1 DEF ResetPassword, Usable, FindsRows
  <2>2. CASE VerifyEmail(r, t)
    <3> DEFINE entry == [Idle EXCEPT !.at = "consume_mail", !.user = mailed[t].user, !.token = t]
    <3>1. entry \in RequestStates /\ entry.at = "consume_mail" /\ entry.token = t
      BY <1>0, <2>0, StageType DEF RequestStates
    <3> QED  BY <2>2, <3>1 DEF VerifyEmail, Usable, FindsRows
  <2> QED  BY <1>2, <2>1, <2>2
<1>3. ASSUME NEW i \in DOMAIN access, BearerRequest(r, i)
      PROVE  \E entry \in RequestStates : Arrive(r, entry) /\ entry.at = "authorized"
  <2> DEFINE entry == [Idle EXCEPT !.at = "authorized", !.user = access[i].user, !.for = "access", !.token = i]
  <2>1. access[i] \in AccessRows
    BY RowOf DEF TypeOK
  <2>2. i \in Nat /\ access[i].user \in Users
    <3>1. i \in Nat
      BY DEF TypeOK
    <3> QED  BY <2>1, <3>1 DEF AccessRows
  <2>3. entry \in RequestStates /\ entry.at = "authorized"
    BY <1>0, <2>2, StageType DEF RequestStates
  <2> QED  BY <1>3, <2>3 DEF BearerRequest
<1>4. ASSUME NEW i \in DOMAIN sessions, CookieRequest(r, i)
      PROVE  \E entry \in RequestStates : Arrive(r, entry) /\ entry.at = "touch"
  <2> DEFINE entry == [Idle EXCEPT !.at = "touch", !.user = sessions[i].user, !.for = "session", !.token = i]
  <2>1. sessions[i] \in SessionRows
    BY RowOf DEF TypeOK
  <2>2. i \in Nat /\ sessions[i].user \in Users
    <3>1. i \in Nat
      BY DEF TypeOK
    <3> QED  BY <2>1, <3>1 DEF SessionRows
  <2>3. entry \in RequestStates /\ entry.at = "touch"
    BY <1>0, <2>2, StageType DEF RequestStates
  <2> QED  BY <1>4, <2>3 DEF CookieRequest
<1>5. PICK entry \in RequestStates :
         /\ Arrive(r, entry) /\ FindsRows(entry, mailed)
         /\ entry.at \notin {"set_password", "end_sessions", "revoke_access"}
         /\ entry.at = "consume" => mailed[entry.token].state = "fresh"
  BY <1>1, <1>2, <1>3, <1>4 DEF FindsRows
<1>6. TypeOK' /\ req'[r] = entry /\ \A q \in Requests \ {r} : req'[q] = req[q]
  BY <1>5, ArriveType
<1>7. UNCHANGED <<tables, resetDone>>
  BY <1>5 DEF Arrive
<1> QED  BY <1>5, <1>6, <1>7

LEMMA FaultTypes ==
    ASSUME TypeOK, NEW r \in Requests, Cut(r) \/ MailFails(r)
    PROVE  /\ TypeOK' /\ UNCHANGED tables /\ UNCHANGED resetDone
           /\ \A q \in Requests \ {r} : req'[q] = req[q]
           /\ req'[r].at \in {"idle", "open_session"}
<1>1. CASE Cut(r)
  BY <1>1, IdleType DEF Cut, TypeOK, tables
<1>2. CASE MailFails(r)
  <2>1. req[r] \in RequestStates
    BY RequestOf
  <2>2. /\ [req[r] EXCEPT !.at = "open_session"] \in RequestStates
        /\ [req[r] EXCEPT !.at = "open_session"].at = "open_session"
    BY <2>1, StageType DEF RequestStates
  <2>3. req' = [req EXCEPT ![r] = [req[r] EXCEPT !.at = "open_session"]]
    BY <1>2 DEF MailFails
  <2> QED  BY <1>2, <2>2, <2>3 DEF MailFails, TypeOK, tables
<1> QED  BY <1>1, <1>2

LEMMA ApproveTypes ==
    ASSUME TypeOK, NEW u \in Users, ApproveDevice(u)
    PROVE  /\ TypeOK' /\ UNCHANGED <<passwords, mailed, sessions, req, resetDone>>
           /\ DOMAIN access' = DOMAIN access \cup {Len(access) + 1}
           /\ \A i \in DOMAIN access : access'[i] = access[i]
           /\ access'[Len(access) + 1] = [user |-> u, version |-> passwords[u], live |-> TRUE]
<1> DEFINE entry == [user |-> u, version |-> passwords[u], live |-> TRUE]
<1>1. entry \in AccessRows
  BY DEF TypeOK, AccessRows
<1>2. access \in Seq(AccessRows) /\ access' = Append(access, entry)
  BY DEF TypeOK, ApproveDevice
<1>3. /\ access' \in Seq(AccessRows)
      /\ DOMAIN access' = DOMAIN access \cup {Len(access) + 1}
      /\ \A i \in DOMAIN access : access'[i] = access[i]
      /\ access'[Len(access) + 1] = entry
  BY <1>1, <1>2, AddRow
<1>4. homes' \in [Users -> Nat]
  BY AddHomeType DEF ApproveDevice, TypeOK
<1>5. users' \subseteq Users /\ made' \in Nat
  BY DEF ApproveDevice, TypeOK
<1> QED  BY <1>3, <1>4, <1>5 DEF ApproveDevice, TypeOK

(* Session i may have become old, and nothing else about it is new.        *)
Aged(i) ==
    /\ sessions'[i].user = sessions[i].user
    /\ sessions'[i].version = sessions[i].version
    /\ sessions'[i].live = sessions[i].live
    /\ sessions'[i].late = sessions[i].late

LEMMA LapseTypes ==
    ASSUME TypeOK, Lapse
    PROVE  /\ TypeOK' /\ UNCHANGED <<passwords, access, req, resetDone>>
           /\ DOMAIN mailed' = DOMAIN mailed
           /\ \A t \in DOMAIN mailed : mailed'[t] = mailed[t] \/ Restated(t, "lapsed")
           /\ DOMAIN sessions' = DOMAIN sessions
           /\ \A i \in DOMAIN sessions : Aged(i)
<1>1. /\ lapses' \in Nat
      /\ UNCHANGED <<users, passwords, homes, verified, access, req, resetDone, made, cuts>>
  BY DEF Lapse, TypeOK
<1>2. ASSUME NEW t \in DOMAIN mailed, mailed' = [mailed EXCEPT ![t].state = "lapsed"], UNCHANGED sessions
      PROVE  /\ TypeOK' /\ DOMAIN mailed' = DOMAIN mailed
             /\ \A s \in DOMAIN mailed : mailed'[s] = mailed[s] \/ Restated(s, "lapsed")
  BY <1>1, <1>2, LapseEffect DEF TypeOK
<1>3. ASSUME NEW i \in DOMAIN sessions, sessions' = [sessions EXCEPT ![i].old = TRUE], UNCHANGED mailed
      PROVE  /\ TypeOK' /\ DOMAIN sessions' = DOMAIN sessions
             /\ \A j \in DOMAIN sessions : Aged(j)
  <2>1. sessions \in Seq(SessionRows)
    BY DEF TypeOK
  <2>2. [sessions[i] EXCEPT !.old = TRUE] \in SessionRows
    BY <2>1, RowOf, RowTypes
  <2>3. /\ sessions' \in Seq(SessionRows) /\ DOMAIN sessions' = DOMAIN sessions
        /\ \A j \in DOMAIN sessions : sessions'[j] = IF j = i THEN [sessions[i] EXCEPT !.old = TRUE] ELSE sessions[j]
    BY <1>3, <2>1, <2>2, ReplaceRow
  <2>4. Aged(i)
    <3>1. sessions[i] \in SessionRows /\ sessions'[i] = [sessions[i] EXCEPT !.old = TRUE]
      BY <2>1, <2>3, RowOf
    <3>2. PICK old : old = sessions[i]
      OBVIOUS
    <3>3. PICK entry : entry = [old EXCEPT !.old = TRUE]
      OBVIOUS
    <3>4. entry.user = old.user /\ entry.version = old.version /\ entry.live = old.live /\ entry.late = old.late
      BY <3>1, <3>2, <3>3 DEF SessionRows
    <3>5. sessions'[i] = entry
      BY <3>1, <3>2, <3>3
    <3> QED  BY <3>2, <3>4, <3>5 DEF Aged
  <2>5. \A j \in DOMAIN sessions : Aged(j)
    BY <2>3, <2>4 DEF Aged
  <2> QED  BY <1>1, <1>3, <2>3, <2>5 DEF TypeOK
<1> QED  BY <1>1, <1>2, <1>3 DEF Lapse, Aged

(* A reset whose token could not be marked: the token is doubtful from     *)
(* then on, and the request goes on to change the password.                *)
LEMMA ConsumeFailsEffect ==
    ASSUME AccountInv, NEW r \in Requests, ConsumeFails(r)
    PROVE  /\ TypeOK' /\ req[r].at = "consume" /\ req[r].token \in DOMAIN mailed
           /\ DOMAIN mailed' = DOMAIN mailed
           /\ \A t \in DOMAIN mailed : t # req[r].token => mailed'[t] = mailed[t]
           /\ mailed'[req[r].token].kind = mailed[req[r].token].kind
           /\ mailed'[req[r].token].doubtful
           /\ req'[r].at = "set_password" /\ req'[r].token = req[r].token
           /\ \A q \in Requests \ {r} : req'[q] = req[q]
           /\ UNCHANGED <<users, passwords, homes, verified, sessions, access, resetDone>>
<1>0. /\ TypeOK /\ req[r].at = "consume" /\ FindsRows(req[r], mailed)
      /\ req[r] \in RequestStates /\ cuts' = cuts + 1
      /\ UNCHANGED <<users, passwords, homes, verified, sessions, access, resetDone,
                     made, lapses>>
  BY RequestOf DEF AccountInv, Located, ConsumeFails
<1>1. PICK t : t = req[r].token
  OBVIOUS
<1>2. t \in DOMAIN mailed /\ mailed[t] \in MailRows
  BY <1>0, <1>1, MailOf DEF FindsRows
<1> DEFINE entry == [mailed[t] EXCEPT !.doubtful = TRUE]
<1>3. entry \in MailRows /\ entry.kind = mailed[t].kind /\ entry.doubtful
  BY <1>2 DEF MailRows
<1>4. mailed' = [mailed EXCEPT ![t] = entry]
  BY <1>1 DEF ConsumeFails
<1> HIDE DEF entry
<1>5. mailed \in Seq(MailRows)
  BY <1>0 DEF TypeOK
<1>6. /\ mailed' \in Seq(MailRows)
      /\ DOMAIN mailed' = DOMAIN mailed
      /\ \A s \in DOMAIN mailed : mailed'[s] = IF s = t THEN entry ELSE mailed[s]
  BY <1>2, <1>3, <1>4, <1>5, ReplaceRow
<1> DEFINE next == [req[r] EXCEPT !.at = "set_password"]
<1>7. next \in RequestStates /\ next.at = "set_password" /\ next.token = req[r].token
  BY <1>0, StageType DEF RequestStates
<1>8. req' = [req EXCEPT ![r] = next]
  BY ResetStages DEF ConsumeFails
<1> HIDE DEF next
<1>9. /\ req' \in [Requests -> RequestStates] /\ req'[r] = next
      /\ \A q \in Requests \ {r} : req'[q] = req[q]
  BY <1>0, <1>7, <1>8 DEF TypeOK
<1>10. TypeOK'
  BY <1>0, <1>6, <1>9 DEF TypeOK
<1> QED  BY <1>0, <1>1, <1>2, <1>3, <1>6, <1>7, <1>9, <1>10

LEMMA TypeStep == AccountInv /\ [Next]_vars => TypeOK'
<1> SUFFICES ASSUME AccountInv, [Next]_vars PROVE TypeOK'
  OBVIOUS
<1>1. CASE UNCHANGED vars
  BY <1>1 DEF AccountInv, TypeOK, vars, tables, bounds
<1>2. ASSUME NEW r \in Requests, Statement(r) PROVE TypeOK'
  BY <1>2, StatementTypes
<1>3. CASE Lapse \/ \E u \in Users : ApproveDevice(u)
  BY <1>3, LapseTypes, ApproveTypes DEF AccountInv
<1>4. ASSUME NEW r \in Requests, Cut(r) \/ MailFails(r) PROVE TypeOK'
  BY <1>4, FaultTypes DEF AccountInv
<1>6. ASSUME NEW r \in Requests, ConsumeFails(r) PROVE TypeOK'
  BY <1>6, ConsumeFailsEffect
<1>5. ASSUME NEW r \in Requests,
             \/ \E u \in Users : Register(r, u) \/ Login(r, u) \/ ForgotPassword(r, u)
             \/ \E t \in DOMAIN mailed : ResetPassword(r, t) \/ VerifyEmail(r, t)
             \/ \E i \in DOMAIN access : BearerRequest(r, i)
             \/ \E i \in DOMAIN sessions : CookieRequest(r, i)
      PROVE  TypeOK'
  BY <1>5, ArrivalTypes DEF AccountInv
<1> QED  BY <1>1, <1>2, <1>3, <1>4, <1>5, <1>6 DEF Next

-----------------------------------------------------------------------------
(* Where a request is after a statement, and what it has kept.             *)

LEMMA GoOnKeeps ==
    ASSUME TypeOK, NEW r \in Requests, NEW stage \in Stages, GoOn(r, stage)
    PROVE  /\ \A q \in Requests \ {r} : req'[q] = req[q]
           /\ req'[r].at = stage
           /\ stage # "idle" =>
                 /\ req'[r].for = req[r].for /\ req'[r].token = req[r].token
                 /\ req'[r].user = req[r].user /\ req'[r].version = req[r].version
<1>1. /\ \A q \in Requests \ {r} : req'[q] = req[q]
      /\ req'[r] = IF stage = "idle" THEN Idle ELSE [req[r] EXCEPT !.at = stage]
  BY GoOnType
<1>2. req[r] \in RequestStates
  BY RequestOf
<1>3. CASE stage = "idle"
  BY <1>1, <1>3, IdleType
<1>4. CASE stage # "idle"
  BY <1>1, <1>2, <1>4 DEF RequestStates
<1> QED  BY <1>1, <1>3, <1>4

(* What a statement makes of its request, as far as the invariants ask.    *)
Followed(r) ==
    /\ \A q \in Requests \ {r} : req'[q] = req[q]
    /\ FindsRows(req'[r], mailed)
    /\ req'[r].at # "consume"
    /\ req'[r].at = "set_password" =>
          /\ ConsumeResetToken(r)
          /\ req'[r].token = req[r].token
    /\ req'[r].at = "end_sessions" =>
          /\ SetPassword(r)
          /\ req'[r].user = req[r].user
          /\ req'[r].version = passwords'[req[r].user]
    /\ req'[r].at = "revoke_access" =>
          /\ EndSessions(r)
          /\ req'[r].user = req[r].user
          /\ req'[r].version = req[r].version

(* A statement that goes on outside the password reset. *)
LEMMA FollowedOutside ==
    ASSUME TypeOK, NEW r \in Requests, NEW stage \in Stages, GoOn(r, stage),
           stage \notin {"consume", "set_password", "end_sessions", "revoke_access", "consume_mail"},
           stage \in {"insert_password", "create_home"} => req[r].for = "verify",
           stage \in {"invalidate", "create_token"} => req[r].for \in {"verify", "reset"},
           stage # "insert_user"
    PROVE  Followed(r)
  BY GoOnKeeps DEF Followed, FindsRows

LEMMA StatementFollowed ==
    ASSUME AccountInv, NEW r \in Requests, Statement(r)
    PROVE  Followed(r)
<1> USE DEF AccountInv
<1>0. TypeOK /\ FindsRows(req[r], mailed) /\ req[r] \in RequestStates
  BY RequestOf DEF Located
<1>1. CASE InsertUser(r)
  <2>1. /\ GoOn(r, IF req[r].user \in users THEN "idle" ELSE "insert_password")
        /\ req[r].at = "insert_user"
    BY <1>1 DEF InsertUser
  <2> QED  BY <1>0, <2>1, FollowedOutside, StageType DEF FindsRows
<1>2. CASE InsertPassword(r)
  <2>1. CASE passwords[req[r].user] # 0
    <3>1. GoOn(r, "idle")
      BY <1>2, <2>1 DEF InsertPassword
    <3> QED  BY <1>0, <3>1, FollowedOutside, StageType
  <2>2. CASE ~ (passwords[req[r].user] # 0)
    <3>1. req' = [req EXCEPT ![r] = [req[r] EXCEPT !.at = "create_home", !.version = 1]]
      BY <1>2, <2>2 DEF InsertPassword
    <3>2. [req[r] EXCEPT !.at = "create_home", !.version = 1].at = "create_home"
          /\ [req[r] EXCEPT !.at = "create_home", !.version = 1].for = req[r].for
      BY <1>0 DEF RequestStates
    <3>3. req'[r].at = "create_home" /\ req'[r].for = "verify"
      BY <1>0, <1>2, <3>1, <3>2 DEF TypeOK, FindsRows, InsertPassword
    <3>4. \A q \in Requests \ {r} : req'[q] = req[q]
      BY <1>0, <3>1 DEF TypeOK
    <3> QED  BY <3>3, <3>4 DEF Followed, FindsRows
  <2> QED  BY <2>1, <2>2
<1>3. CASE CreateHome(r)
  <2>1. GoOn(r, "invalidate") /\ req[r].at = "create_home"
    BY <1>3 DEF CreateHome
  <2> QED  BY <1>0, <2>1, FollowedOutside, StageType DEF FindsRows
<1>4. CASE OpenSession(r)
  BY <1>0, <1>4, FollowedOutside, StageType DEF OpenSession
<1>5. CASE InvalidateTokens(r)
  <2>1. GoOn(r, "create_token") /\ req[r].at = "invalidate"
    BY <1>5 DEF InvalidateTokens
  <2> QED  BY <1>0, <2>1, FollowedOutside, StageType DEF FindsRows
<1>6. CASE CreateToken(r)
  <2>1. GoOn(r, IF req[r].for = "verify" THEN "open_session" ELSE "idle")
    BY <1>6 DEF CreateToken
  <2> QED  BY <1>0, <2>1, FollowedOutside, StageType
<1>7. CASE ConsumeResetToken(r)
  <2>1. req[r].at = "consume" /\ GoOn(r, "set_password")
    BY <1>7, ResetStages DEF ConsumeResetToken, GoOnWithReset
  <2> QED  BY <1>0, <1>7, <2>1, GoOnKeeps, StageType DEF Followed, FindsRows
<1>8. CASE SetPassword(r)
  <2> DEFINE new == [req[r] EXCEPT !.at = "end_sessions", !.version = passwords[req[r].user] + 1]
  <2>1. req' = [req EXCEPT ![r] = new]
    BY <1>8, ResetStages DEF SetPassword
  <2>2. new.at = "end_sessions" /\ new.user = req[r].user /\ new.version = passwords[req[r].user] + 1
    BY <1>0 DEF RequestStates
  <2>3. req'[r] = new /\ \A q \in Requests \ {r} : req'[q] = req[q]
    BY <1>0, <2>1 DEF TypeOK
  <2>4. passwords'[req[r].user] = passwords[req[r].user] + 1
    BY <1>0, <1>8, RequestOf DEF SetPassword, TypeOK
  <2> HIDE DEF new
  <2> QED  BY <1>8, <2>2, <2>3, <2>4 DEF Followed, FindsRows
<1>9. CASE EndSessions(r)
  <2>1. req[r].at = "end_sessions" /\ GoOn(r, "revoke_access")
    BY <1>9, ResetStages DEF EndSessions, GoOnWithReset
  <2> QED  BY <1>0, <1>9, <2>1, GoOnKeeps, StageType DEF Followed, FindsRows
<1>10. CASE RevokeAccess(r)
  <2>1. GoOn(r, "idle")
    BY <1>10, ResetStages DEF RevokeAccess, GoOnWithReset
  <2> QED  BY <1>0, <2>1, FollowedOutside, StageType
<1>11. CASE ConsumeVerification(r)
  BY <1>0, <1>11, FollowedOutside, StageType DEF ConsumeVerification
<1>12. CASE SetVerified(r)
  BY <1>0, <1>12, FollowedOutside, StageType DEF SetVerified
<1>13. CASE TouchSession(r)
  <2>1. GoOn(r, "idle") \/ GoOn(r, "find_home")
    BY <1>13 DEF TouchSession
  <2> QED  BY <1>0, <2>1, FollowedOutside, StageType
<1>14. CASE FindHome(r)
  <2>1. GoOn(r, IF homes[req[r].user] > 0 THEN "authorized" ELSE "make_home")
    BY <1>14 DEF FindHome
  <2> QED  BY <1>0, <2>1, FollowedOutside, StageType
<1>15. CASE MakeHome(r)
  BY <1>0, <1>15, FollowedOutside, StageType DEF MakeHome
<1>16. CASE Serve(r)
  BY <1>0, <1>16, FollowedOutside, StageType DEF Serve
<1>17. CASE Logout(r)
  BY <1>0, <1>17, FollowedOutside, StageType DEF Logout
<1> QED  BY <1>1, <1>2, <1>3, <1>4, <1>5, <1>6, <1>7, <1>8, <1>9, <1>10, <1>11, <1>12, <1>13, <1>14,
            <1>15, <1>16, <1>17 DEF Statement

(* No mailed token is ever removed or becomes one of the other kind.       *)
TokensStay ==
    /\ DOMAIN mailed \subseteq DOMAIN mailed'
    /\ \A t \in DOMAIN mailed : mailed'[t].kind = mailed[t].kind

LEMMA StatementTokensStay ==
    ASSUME AccountInv, NEW r \in Requests, Statement(r)
    PROVE  TokensStay
<1>0. TypeOK /\ FindsRows(req[r], mailed)
  BY DEF AccountInv, Located
<1>1. CASE InvalidateTokens(r)
  <2>1. Invalidate(req[r].for, req[r].user)
    BY <1>1 DEF InvalidateTokens
  <2> QED  BY <1>0, <2>1, InvalidateEffect DEF TokensStay, Restated
<1>2. CASE CreateToken(r)
  <2>1. req[r].for \in {"verify", "reset"} /\ req[r].user \in Users
    BY <1>0, <1>2, RequestOf DEF CreateToken, FindsRows
  <2>2. mailed' = Append(mailed, MailedToken(req[r].for, req[r].user))
    BY <1>2 DEF CreateToken
  <2> QED  BY <1>0, <2>1, <2>2, CreateEffect DEF TokensStay
<1>3. CASE ConsumeResetToken(r)
  <2>1. req[r].token \in DOMAIN mailed
    BY <1>0, <1>3 DEF ConsumeResetToken, FindsRows
  <2> QED  BY <1>0, <1>3, <2>1, ConsumeEffect DEF TokensStay
<1>4. CASE SetPassword(r)
  <2>1. req[r].token \in DOMAIN mailed
    BY <1>0, <1>4 DEF SetPassword, FindsRows
  <2>2. mailed[req[r].token].state \in {"fresh", "consumed", "lapsed"}
    BY <1>0, <2>1, MailOf DEF MailRows
  <2> QED  BY <1>0, <1>4, <2>1, <2>2, SetPasswordEffect, SpendEffect DEF TokensStay
<1>5. CASE ConsumeVerification(r)
  <2>1. req[r].token \in DOMAIN mailed
    BY <1>0, <1>5 DEF ConsumeVerification, FindsRows
  <2>2. mailed' = [mailed EXCEPT ![req[r].token] =
                     [mailed[req[r].token] EXCEPT !.state = "consumed", !.spent = @ + 1]]
    BY <1>0, <1>5, <2>1, ConsumeVerificationEffect
  <2> QED  BY <1>0, <2>1, <2>2, SpendEffect DEF TokensStay
<1>6. CASE UNCHANGED mailed
  BY <1>6 DEF TokensStay
<1>7. \/ InvalidateTokens(r) \/ CreateToken(r) \/ ConsumeResetToken(r) \/ SetPassword(r)
      \/ ConsumeVerification(r) \/ UNCHANGED mailed
  BY DEF Statement, InsertUser, InsertPassword, CreateHome, OpenSession, EndSessions, RevokeAccess,
         SetVerified, TouchSession, FindHome, MakeHome, Serve, Logout, tables
<1> QED  BY <1>1, <1>2, <1>3, <1>4, <1>5, <1>6, <1>7

LEMMA LocatedStep == AccountInv /\ [Next]_vars => Located'
<1> SUFFICES ASSUME AccountInv, [Next]_vars PROVE Located'
  OBVIOUS
<1>0. TypeOK /\ Located
  BY DEF AccountInv
<1>1. ASSUME NEW r \in Requests, TokensStay, FindsRows(req'[r], mailed),
             \A q \in Requests \ {r} : req'[q] = req[q]
      PROVE  Located'
  <2>1. \A q \in Requests : FindsRows(req'[q], mailed)
    BY <1>0, <1>1 DEF Located
  <2>2. \A q \in Requests : FindsRows(req'[q], mailed')
    BY <1>1, <2>1 DEF FindsRows, TokensStay
  <2> QED  BY <2>2 DEF Located
<1>2. CASE UNCHANGED <<req, mailed>>
  BY <1>0, <1>2 DEF Located, FindsRows
<1>3. ASSUME NEW r \in Requests, Statement(r) PROVE Located'
  BY <1>1, <1>3, StatementFollowed, StatementTokensStay DEF Followed
<1>4. CASE Lapse
  <2>1. TokensStay /\ UNCHANGED req
    BY <1>0, <1>4, LapseTypes DEF TokensStay, Restated
  <2> QED  BY <1>0, <2>1 DEF Located, FindsRows, TokensStay
<1>5. ASSUME NEW u \in Users, ApproveDevice(u) PROVE Located'
  BY <1>0, <1>2, <1>5, ApproveTypes
<1>6. ASSUME NEW r \in Requests, Cut(r) \/ MailFails(r) PROVE Located'
  BY <1>0, <1>1, <1>6, FaultTypes DEF FindsRows, tables, TokensStay
<1>9. ASSUME NEW r \in Requests, ConsumeFails(r) PROVE Located'
  <2>1. TokensStay
    BY <1>9, ConsumeFailsEffect DEF TokensStay
  <2>2. FindsRows(req[r], mailed) /\ req[r].at = "consume"
    BY <1>0, <1>9 DEF Located, ConsumeFails
  <2>3. FindsRows(req'[r], mailed)
    BY <1>9, <2>2, ConsumeFailsEffect DEF FindsRows
  <2> QED  BY <1>1, <1>9, <2>1, <2>3, ConsumeFailsEffect
<1>7. ASSUME NEW r \in Requests,
             \/ \E u \in Users : Register(r, u) \/ Login(r, u) \/ ForgotPassword(r, u)
             \/ \E t \in DOMAIN mailed : ResetPassword(r, t) \/ VerifyEmail(r, t)
             \/ \E i \in DOMAIN access : BearerRequest(r, i)
             \/ \E i \in DOMAIN sessions : CookieRequest(r, i)
      PROVE  Located'
  BY <1>0, <1>1, <1>7, ArrivalTypes DEF tables, TokensStay
<1>8. CASE UNCHANGED vars
  BY <1>2, <1>8 DEF vars, tables
<1> QED  BY <1>3, <1>4, <1>5, <1>6, <1>7, <1>8, <1>9 DEF Next

-----------------------------------------------------------------------------
(* Sessions and access tokens: nothing that has ended is live again.       *)

SessionsKept ==
    /\ DOMAIN sessions \subseteq DOMAIN sessions'
    /\ \A i \in DOMAIN sessions :
          /\ sessions'[i].user = sessions[i].user
          /\ sessions'[i].version = sessions[i].version
          /\ sessions'[i].late = sessions[i].late
          /\ ~ sessions[i].live => ~ sessions'[i].live

AccessKept ==
    /\ DOMAIN access \subseteq DOMAIN access'
    /\ \A i \in DOMAIN access :
          /\ access'[i].user = access[i].user
          /\ access'[i].version = access[i].version
          /\ ~ access[i].live => ~ access'[i].live

LEMMA EndedSession ==
    ASSUME NEW old \in SessionRows, NEW entry, entry = [old EXCEPT !.live = FALSE]
    PROVE  entry.user = old.user /\ entry.version = old.version /\ entry.late = old.late /\ ~ entry.live
  BY DEF SessionRows

LEMMA EndedAccess ==
    ASSUME NEW old \in AccessRows, NEW entry, entry = [old EXCEPT !.live = FALSE]
    PROVE  entry.user = old.user /\ entry.version = old.version /\ ~ entry.live
  BY DEF AccessRows

(* One session ends, or every session of a user. *)
LEMMA SessionsEnd ==
    ASSUME TypeOK, DOMAIN sessions' = DOMAIN sessions,
           \A i \in DOMAIN sessions :
               sessions'[i] = sessions[i] \/ sessions'[i] = [sessions[i] EXCEPT !.live = FALSE]
    PROVE  SessionsKept
<1>1. ASSUME NEW i \in DOMAIN sessions
      PROVE  /\ sessions'[i].user = sessions[i].user
             /\ sessions'[i].version = sessions[i].version
             /\ sessions'[i].late = sessions[i].late
             /\ ~ sessions[i].live => ~ sessions'[i].live
  <2>1. sessions[i] \in SessionRows
    BY RowOf DEF TypeOK
  <2> QED  BY <2>1, EndedSession
<1> QED  BY <1>1 DEF SessionsKept

LEMMA AccessEnds ==
    ASSUME TypeOK, DOMAIN access' = DOMAIN access,
           \A i \in DOMAIN access :
               access'[i] = access[i] \/ access'[i] = [access[i] EXCEPT !.live = FALSE]
    PROVE  AccessKept
<1>1. ASSUME NEW i \in DOMAIN access
      PROVE  /\ access'[i].user = access[i].user
             /\ access'[i].version = access[i].version
             /\ ~ access[i].live => ~ access'[i].live
  <2>1. access[i] \in AccessRows
    BY RowOf DEF TypeOK
  <2> QED  BY <2>1, EndedAccess
<1> QED  BY <1>1 DEF AccessKept

LEMMA EndSessionsEffect ==
    ASSUME TypeOK, NEW r \in Requests, EndSessions(r)
    PROVE  /\ SessionsKept /\ DOMAIN sessions' = DOMAIN sessions
           /\ \A i \in DOMAIN sessions : sessions[i].user = req[r].user => ~ sessions'[i].live
<1>1. sessions \in Seq(SessionRows) /\ sessions' = KillRows(sessions, req[r].user)
  BY DEF TypeOK, EndSessions
<1>2. /\ DOMAIN sessions' = DOMAIN sessions
      /\ \A i \in DOMAIN sessions :
            sessions'[i] = IF sessions[i].user = req[r].user THEN [sessions[i] EXCEPT !.live = FALSE]
                             ELSE sessions[i]
  BY <1>1 DEF KillRows
<1>3. ASSUME NEW i \in DOMAIN sessions, sessions[i].user = req[r].user PROVE ~ sessions'[i].live
  <2>1. sessions[i] \in SessionRows
    BY <1>1, RowOf
  <2> QED  BY <1>2, <1>3, <2>1, EndedSession
<1> QED  BY <1>2, <1>3, SessionsEnd

LEMMA RevokeAccessEffect ==
    ASSUME TypeOK, NEW r \in Requests, RevokeAccess(r)
    PROVE  /\ AccessKept /\ DOMAIN access' = DOMAIN access
           /\ \A i \in DOMAIN access : access[i].user = req[r].user => ~ access'[i].live
<1>1. access \in Seq(AccessRows) /\ access' = KillRows(access, req[r].user)
  BY DEF TypeOK, RevokeAccess
<1>2. /\ DOMAIN access' = DOMAIN access
      /\ \A i \in DOMAIN access :
            access'[i] = IF access[i].user = req[r].user THEN [access[i] EXCEPT !.live = FALSE]
                           ELSE access[i]
  BY <1>1 DEF KillRows
<1>3. ASSUME NEW i \in DOMAIN access, access[i].user = req[r].user PROVE ~ access'[i].live
  <2>1. access[i] \in AccessRows
    BY <1>1, RowOf
  <2> QED  BY <1>2, <1>3, <2>1, EndedAccess
<1> QED  BY <1>2, <1>3, AccessEnds

LEMMA EndOneSession ==
    ASSUME TypeOK, NEW i, sessions' = [sessions EXCEPT ![i] = [sessions[i] EXCEPT !.live = FALSE]]
    PROVE  SessionsKept /\ DOMAIN sessions' = DOMAIN sessions
<1>1. sessions \in Seq(SessionRows) /\ (i \in DOMAIN sessions => [sessions[i] EXCEPT !.live = FALSE] \in SessionRows)
  BY RowOf, RowTypes DEF TypeOK
<1>2. /\ DOMAIN sessions' = DOMAIN sessions
      /\ \A j \in DOMAIN sessions :
            sessions'[j] = IF j = i THEN [sessions[i] EXCEPT !.live = FALSE] ELSE sessions[j]
  BY <1>1, ReplaceRow
<1> QED  BY <1>2, SessionsEnd

LEMMA EndOneAccess ==
    ASSUME TypeOK, NEW i, access' = [access EXCEPT ![i] = [access[i] EXCEPT !.live = FALSE]]
    PROVE  AccessKept /\ DOMAIN access' = DOMAIN access
<1>1. access \in Seq(AccessRows) /\ (i \in DOMAIN access => [access[i] EXCEPT !.live = FALSE] \in AccessRows)
  BY RowOf, RowTypes DEF TypeOK
<1>2. /\ DOMAIN access' = DOMAIN access
      /\ \A j \in DOMAIN access :
            access'[j] = IF j = i THEN [access[i] EXCEPT !.live = FALSE] ELSE access[j]
  BY <1>1, ReplaceRow
<1> QED  BY <1>2, AccessEnds

LEMMA OpenSessionEffect ==
    ASSUME TypeOK, NEW r \in Requests, OpenSession(r)
    PROVE  /\ SessionsKept
           /\ \A i \in DOMAIN sessions' : i \notin DOMAIN sessions =>
                 /\ sessions'[i].user = req[r].user
                 /\ sessions'[i].version = req[r].version
                 /\ ~ sessions'[i].late => req[r].version = passwords[req[r].user]
<1> DEFINE entry == [user |-> req[r].user, version |-> req[r].version, live |-> TRUE, old |-> FALSE,
                   late |-> req[r].version # passwords[req[r].user]]
<1>1. entry \in SessionRows
  BY RequestOf DEF SessionRows
<1>2. sessions \in Seq(SessionRows) /\ sessions' = Append(sessions, entry)
  BY DEF TypeOK, OpenSession
<1>3. entry.user = req[r].user /\ entry.version = req[r].version
      /\ (~ entry.late => req[r].version = passwords[req[r].user])
  OBVIOUS
<1> HIDE DEF entry
<1>4. /\ DOMAIN sessions' = DOMAIN sessions \cup {Len(sessions) + 1}
      /\ \A i \in DOMAIN sessions : sessions'[i] = sessions[i]
      /\ sessions'[Len(sessions) + 1] = entry
  BY <1>1, <1>2, AddRow
<1> QED  BY <1>3, <1>4 DEF SessionsKept

LEMMA NothingReturns == AccountInv /\ [Next]_vars => SessionsKept /\ AccessKept
<1> SUFFICES ASSUME AccountInv, [Next]_vars PROVE SessionsKept /\ AccessKept
  OBVIOUS
<1>0. TypeOK
  BY DEF AccountInv
<1>1. UNCHANGED sessions => SessionsKept
  BY DEF SessionsKept
<1>2. UNCHANGED access => AccessKept
  BY DEF AccessKept
<1>3. ASSUME NEW r \in Requests, Statement(r) PROVE SessionsKept /\ AccessKept
  <2>1. CASE OpenSession(r)
    BY <1>0, <1>2, <2>1, OpenSessionEffect DEF OpenSession
  <2>2. CASE EndSessions(r)
    BY <1>0, <1>2, <2>2, EndSessionsEffect DEF EndSessions
  <2>3. CASE RevokeAccess(r)
    BY <1>0, <1>1, <2>3, RevokeAccessEffect DEF RevokeAccess
  <2>4. CASE TouchSession(r)
    <3>1. \/ UNCHANGED sessions
          \/ sessions' = [sessions EXCEPT ![req[r].token] = [sessions[req[r].token] EXCEPT !.live = FALSE]]
      BY <2>4 DEF TouchSession, Touch
    <3> QED  BY <1>0, <1>1, <1>2, <2>4, <3>1, EndOneSession DEF TouchSession
  <2>5. CASE Logout(r)
    <3>1. \/ /\ UNCHANGED sessions
             /\ access' = [access EXCEPT ![req[r].token] = [access[req[r].token] EXCEPT !.live = FALSE]]
          \/ /\ UNCHANGED access
             /\ sessions' = [sessions EXCEPT ![req[r].token] = [sessions[req[r].token] EXCEPT !.live = FALSE]]
      BY <2>5 DEF Logout
    <3> QED  BY <1>0, <1>1, <1>2, <3>1, EndOneSession, EndOneAccess
  <2>6. CASE UNCHANGED <<sessions, access>>
    BY <1>1, <1>2, <2>6
  <2>7. \/ OpenSession(r) \/ EndSessions(r) \/ RevokeAccess(r) \/ TouchSession(r) \/ Logout(r)
        \/ UNCHANGED <<sessions, access>>
    BY <1>3 DEF Statement, InsertUser, InsertPassword, CreateHome, InvalidateTokens, CreateToken,
       ConsumeResetToken, SetPassword, ConsumeVerification, SetVerified, FindHome, MakeHome, Serve, tables
  <2> QED  BY <2>1, <2>2, <2>3, <2>4, <2>5, <2>6, <2>7
<1>4. CASE Lapse
  <2>1. SessionsKept
    BY <1>0, <1>4, LapseTypes DEF SessionsKept, Aged
  <2> QED  BY <1>0, <1>2, <1>4, <2>1, LapseTypes
<1>5. ASSUME NEW u \in Users, ApproveDevice(u) PROVE SessionsKept /\ AccessKept
  BY <1>0, <1>1, <1>5, ApproveTypes DEF AccessKept
<1>6. ASSUME NEW r \in Requests, Cut(r) \/ MailFails(r) PROVE SessionsKept /\ AccessKept
  BY <1>0, <1>1, <1>2, <1>6, FaultTypes DEF tables
<1>9. ASSUME NEW r \in Requests, ConsumeFails(r) PROVE SessionsKept /\ AccessKept
  BY <1>0, <1>1, <1>2, <1>9, ConsumeFailsEffect
<1>7. ASSUME NEW r \in Requests,
             \/ \E u \in Users : Register(r, u) \/ Login(r, u) \/ ForgotPassword(r, u)
             \/ \E t \in DOMAIN mailed : ResetPassword(r, t) \/ VerifyEmail(r, t)
             \/ \E i \in DOMAIN access : BearerRequest(r, i)
             \/ \E i \in DOMAIN sessions : CookieRequest(r, i)
      PROVE  SessionsKept /\ AccessKept
  BY <1>0, <1>1, <1>2, <1>7, ArrivalTypes DEF tables
<1>8. CASE UNCHANGED vars
  BY <1>1, <1>2, <1>8 DEF vars, tables
<1> QED  BY <1>3, <1>4, <1>5, <1>6, <1>7, <1>8, <1>9 DEF Next

-----------------------------------------------------------------------------
LEMMA AccountStart == Init => AccountInv
<1> SUFFICES ASSUME Init PROVE AccountInv
  OBVIOUS
<1>1. mailed \in Seq(MailRows) /\ sessions \in Seq(SessionRows) /\ access \in Seq(AccessRows)
  BY EmptySeq DEF Init
<1>2. TypeOK
  BY <1>1, IdleType DEF Init, TypeOK
<1>3. Located
  BY IdleType DEF Init, Located, FindsRows
<1> QED  BY <1>2, <1>3 DEF AccountInv

LEMMA AccountInvariant == Spec => []AccountInv
<1>1. AccountInv /\ [Next]_vars => AccountInv'
  BY TypeStep, LocatedStep DEF AccountInv
<1> QED  BY AccountStart, <1>1, PTL DEF Spec

(* In every reachable state the tables and the requests are well typed,   *)
(* for any number of people and requests.                                  *)
THEOREM AccountsTypeCorrect == Spec => []TypeOK
<1>1. AccountInv => TypeOK
  BY DEF AccountInv
<1> QED  BY AccountInvariant, <1>1, PTL

(* A session that was ended and an access token that was revoked are never *)
(* live again, whatever a request that had read the row does afterwards.   *)
THEOREM EndedStaysEnded == Spec => EndedForGood
<1>1. AccountInv /\ [Next]_vars =>
        [/\ \A i \in DOMAIN sessions : ~ sessions[i].live => ~ sessions'[i].live
         /\ \A i \in DOMAIN access : ~ access[i].live => ~ access'[i].live]_vars
  BY NothingReturns DEF SessionsKept, AccessKept
<1> QED  BY AccountInvariant, <1>1, PTL DEF Spec, EndedForGood

-----------------------------------------------------------------------------
(* A reset token changes the password once. *)

(* A token whose state may have changed, but not to fresh, while requests  *)
(* have come to hold it only if it was fresh.                              *)
LEMMA StaysOnceAtMost ==
    ASSUME NEW t \in DOMAIN mailed, OnceAtMost(t),
           mailed'[t] = mailed[t] \/ \E s : s # "fresh" /\ Restated(t, s),
           \A q \in Requests : /\ Holds(q, t)' => Holds(q, t) \/ mailed[t].state = "fresh"
                               /\ Consumed(q, t)' => Consumed(q, t)
    PROVE  OnceAtMost(t)'
<1> SUFFICES ASSUME mailed'[t].kind = "reset", ~ mailed'[t].doubtful
             PROVE  /\ mailed'[t].spent <= 1
                    /\ mailed'[t].spent = 1 => mailed'[t].state # "fresh" /\ \A r \in Requests : ~ Holds(r, t)'
                    /\ \A r \in Requests : Consumed(r, t)' =>
                          /\ mailed'[t].state # "fresh"
                          /\ \A q \in Requests \ {r} : ~ Holds(q, t)'
  BY DEF OnceAtMost
<1>1. /\ mailed[t].kind = "reset" /\ ~ mailed[t].doubtful
      /\ mailed'[t].spent = mailed[t].spent
      /\ mailed[t].state # "fresh" => mailed'[t].state # "fresh"
  BY DEF Restated
<1>2. /\ mailed[t].spent <= 1
      /\ mailed[t].spent = 1 => mailed[t].state # "fresh" /\ \A r \in Requests : ~ Holds(r, t)
      /\ \A r \in Requests : Consumed(r, t) =>
            mailed[t].state # "fresh" /\ \A q \in Requests \ {r} : ~ Holds(q, t)
  BY <1>1 DEF OnceAtMost
<1> QED  BY <1>1, <1>2

(* The statement that consumes: if no one else held the token then, only   *)
(* this request does now.                                                  *)
LEMMA ConsumingOnce ==
    ASSUME SpendInv, NEW r \in Requests, ConsumeResetToken(r)
    PROVE  SpentOrHeld'
<1>0. PICK t : t = req[r].token
  OBVIOUS
<1>1. TypeOK /\ FindsRows(req[r], mailed) /\ req[r].at = "consume"
  BY DEF SpendInv, AccountInv, Located, ConsumeResetToken
<1>2. t \in DOMAIN mailed /\ mailed[t].kind = "reset" /\ mailed[t].spent \in Nat /\ OnceAtMost(t)
  BY <1>0, <1>1, MailOf DEF FindsRows, SpendInv, SpentOrHeld
<1>3. /\ DOMAIN mailed' = DOMAIN mailed
      /\ \A s \in DOMAIN mailed : s # t => mailed'[s] = mailed[s]
      /\ mailed'[t].spent = mailed[t].spent /\ mailed'[t].state = "consumed"
      /\ ~ mailed'[t].doubtful =>
            /\ ~ mailed[t].doubtful
            /\ \A q \in Requests \ {r} : ~ (req[q].at = "consume" /\ req[q].token = t)
  BY <1>0, <1>1, <1>2, ConsumeEffect
<1>4. /\ \A q \in Requests \ {r} : req'[q] = req[q]
      /\ req'[r].at = "set_password" => req'[r].token = t
      /\ req'[r].at # "consume"
  BY <1>0, <1>1, StatementFollowed DEF SpendInv, Statement, Followed
<1>5. ASSUME NEW s \in DOMAIN mailed, s # t PROVE OnceAtMost(s)'
  <2>1. OnceAtMost(s) /\ mailed'[s] = mailed[s]
    BY <1>3, <1>5 DEF SpendInv, SpentOrHeld
  <2>2. \A q \in Requests : (Holds(q, s)' => Holds(q, s)) /\ (Consumed(q, s)' => Consumed(q, s))
    BY <1>0, <1>4, <1>5 DEF Holds, Consumed
  <2> QED  BY <2>1, <2>2, StaysOnceAtMost
<1>6. OnceAtMost(t)'
  <2> SUFFICES ASSUME ~ mailed'[t].doubtful
               PROVE  /\ mailed'[t].spent <= 1 /\ mailed'[t].spent # 1
                      /\ mailed'[t].state # "fresh"
                      /\ \A p \in Requests : Consumed(p, t)' => \A q \in Requests \ {p} : ~ Holds(q, t)'
    BY DEF OnceAtMost
  <2>1. ~ mailed[t].doubtful /\ \A q \in Requests \ {r} : ~ (req[q].at = "consume" /\ req[q].token = t)
    BY <1>3
  <2>2. Holds(r, t)
    BY <1>0, <1>1 DEF Holds
  <2>3. /\ mailed[t].spent <= 1 /\ mailed[t].spent # 1
        /\ \A q \in Requests \ {r} : ~ Consumed(q, t)
    BY <1>2, <2>1, <2>2 DEF OnceAtMost
  <2>4. \A q \in Requests \ {r} : ~ Holds(q, t)'
    BY <1>4, <2>1, <2>3 DEF Holds, Consumed
  <2> QED  BY <1>3, <2>3, <2>4 DEF Consumed, Holds
<1> QED  BY <1>3, <1>5, <1>6 DEF SpentOrHeld

(* The statement that spends: nobody else holds the token, and this        *)
(* request holds it no more.                                               *)
LEMMA SpendingOnce ==
    ASSUME SpendInv, NEW r \in Requests, SetPassword(r)
    PROVE  SpentOrHeld'
<1>0. PICK t : t = req[r].token
  OBVIOUS
<1>1. TypeOK /\ FindsRows(req[r], mailed) /\ req[r].at = "set_password"
  BY DEF SpendInv, AccountInv, Located, SetPassword
<1>2. /\ t \in DOMAIN mailed /\ mailed[t].kind = "reset" /\ mailed[t].spent \in Nat /\ OnceAtMost(t)
      /\ mailed[t].state \in {"fresh", "consumed", "lapsed"}
  BY <1>0, <1>1, MailOf DEF FindsRows, SpendInv, SpentOrHeld, MailRows
<1>3. /\ DOMAIN mailed' = DOMAIN mailed
      /\ \A s \in DOMAIN mailed : s # t => mailed'[s] = mailed[s]
      /\ mailed'[t].doubtful = mailed[t].doubtful /\ mailed'[t].state = mailed[t].state
      /\ mailed'[t].spent = mailed[t].spent + 1
  <2>1. mailed' = [mailed EXCEPT ![t] = [mailed[t] EXCEPT !.state = mailed[t].state, !.spent = @ + 1]]
    BY <1>0, <1>1, <1>2, SetPasswordEffect
  <2> QED  BY <1>1, <1>2, <2>1, SpendEffect
<1>4. (\A q \in Requests \ {r} : req'[q] = req[q]) /\ req'[r].at \notin {"consume", "set_password"}
  <2>1. Followed(r)
    BY StatementFollowed DEF SpendInv, Statement
  <2>2. req'[r].at # "set_password"
    BY <1>1, <2>1 DEF Followed, ConsumeResetToken
  <2> QED  BY <2>1, <2>2 DEF Followed
<1>5. ASSUME NEW s \in DOMAIN mailed, s # t PROVE OnceAtMost(s)'
  <2>1. OnceAtMost(s) /\ mailed'[s] = mailed[s]
    BY <1>3, <1>5 DEF SpendInv, SpentOrHeld
  <2>2. \A q \in Requests : (Holds(q, s)' => Holds(q, s)) /\ (Consumed(q, s)' => Consumed(q, s))
    BY <1>4 DEF Holds, Consumed
  <2> QED  BY <2>1, <2>2, StaysOnceAtMost
<1>6. OnceAtMost(t)'
  <2> SUFFICES ASSUME ~ mailed'[t].doubtful
               PROVE  /\ mailed'[t].spent <= 1 /\ mailed'[t].state # "fresh"
                      /\ \A q \in Requests : ~ Holds(q, t)' /\ ~ Consumed(q, t)'
    BY DEF OnceAtMost
  <2>1. Holds(r, t) /\ Consumed(r, t)
    BY <1>0, <1>1 DEF Holds, Consumed
  <2>2. /\ mailed[t].spent <= 1 /\ mailed[t].spent # 1 /\ mailed[t].state # "fresh"
        /\ \A q \in Requests \ {r} : ~ Holds(q, t)
    BY <1>2, <1>3, <2>1 DEF OnceAtMost
  <2> QED  BY <1>2, <1>3, <1>4, <2>2 DEF Holds, Consumed
<1> QED  BY <1>3, <1>5, <1>6 DEF SpentOrHeld

(* A token that has just been made is held by nobody. *)
LEMMA CreatingUnheld ==
    ASSUME SpendInv, NEW r \in Requests, CreateToken(r)
    PROVE  SpentOrHeld'
<1>0. PICK new : new = Len(mailed) + 1
  OBVIOUS
<1>1. TypeOK /\ Located /\ req[r].for \in {"verify", "reset"} /\ req[r].user \in Users
  BY RequestOf DEF SpendInv, AccountInv, Located, CreateToken, FindsRows
<1>2. /\ DOMAIN mailed' = DOMAIN mailed \cup {new} /\ new \notin DOMAIN mailed
      /\ \A t \in DOMAIN mailed : mailed'[t] = mailed[t]
      /\ mailed'[new].spent = 0
  <2>1. mailed' = Append(mailed, MailedToken(req[r].for, req[r].user))
    BY DEF CreateToken
  <2> QED  BY <1>0, <1>1, <2>1, CreateEffect DEF MailedToken
<1>3. (\A q \in Requests \ {r} : req'[q] = req[q]) /\ req'[r].at \notin {"consume", "set_password"}
  <2>1. Followed(r)
    BY StatementFollowed DEF SpendInv, Statement
  <2>2. req'[r].at # "set_password"
    BY <2>1 DEF Followed, ConsumeResetToken, CreateToken
  <2> QED  BY <2>1, <2>2 DEF Followed
<1>4. \A t : \A q \in Requests : (Holds(q, t)' => Holds(q, t)) /\ (Consumed(q, t)' => Consumed(q, t))
  BY <1>3 DEF Holds, Consumed
<1>5. ASSUME NEW t \in DOMAIN mailed PROVE OnceAtMost(t)'
  BY <1>2, <1>4, StaysOnceAtMost DEF SpendInv, SpentOrHeld
<1>6. OnceAtMost(new)'
  <2>1. \A q \in Requests : ~ Holds(q, new)
    BY <1>1, <1>2 DEF Holds, Located, FindsRows
  <2>2. \A q \in Requests : ~ Consumed(q, new)'
    BY <1>4, <2>1 DEF Holds, Consumed
  <2> QED  BY <1>2, <2>2 DEF OnceAtMost
<1> QED  BY <1>2, <1>5, <1>6 DEF SpentOrHeld

LEMMA SpentStep == SpendInv /\ [Next]_vars => SpentOrHeld'
<1> SUFFICES ASSUME SpendInv, [Next]_vars PROVE SpentOrHeld'
  OBVIOUS
<1>0. AccountInv /\ TypeOK /\ SpentOrHeld
  BY DEF SpendInv, AccountInv
<1>1. ASSUME DOMAIN mailed' = DOMAIN mailed,
             \A t \in DOMAIN mailed : mailed'[t] = mailed[t] \/ \E s : s # "fresh" /\ Restated(t, s),
             \A q \in Requests, t \in DOMAIN mailed :
                 /\ Holds(q, t)' => Holds(q, t) \/ mailed[t].state = "fresh"
                 /\ Consumed(q, t)' => Consumed(q, t)
      PROVE  SpentOrHeld'
  <2>1. ASSUME NEW t \in DOMAIN mailed PROVE OnceAtMost(t)'
    <3>1. OnceAtMost(t)
      BY <1>0 DEF SpentOrHeld
    <3> QED  BY <1>1, <3>1, StaysOnceAtMost
  <2> QED  BY <1>1, <2>1 DEF SpentOrHeld
<1>2. ASSUME NEW r \in Requests, Statement(r) PROVE SpentOrHeld'
  <2>1. CASE ConsumeResetToken(r)
    BY <2>1, ConsumingOnce
  <2>2. CASE SetPassword(r)
    BY <2>2, SpendingOnce
  <2>3. CASE CreateToken(r)
    BY <2>3, CreatingUnheld
  <2>4. CASE ~ ConsumeResetToken(r) /\ ~ SetPassword(r) /\ ~ CreateToken(r)
    <3>1. \A t : \A q \in Requests : (Holds(q, t)' => Holds(q, t)) /\ (Consumed(q, t)' => Consumed(q, t))
      BY <1>0, <1>2, <2>4, StatementFollowed DEF Followed, Holds, Consumed
    <3>2. CASE UNCHANGED mailed
      BY <1>1, <3>1, <3>2
    <3>3. CASE InvalidateTokens(r)
      <4>1. Invalidate(req[r].for, req[r].user)
        BY <3>3 DEF InvalidateTokens
      <4> QED  BY <1>0, <1>1, <3>1, <4>1, InvalidateEffect
    <3>4. CASE ConsumeVerification(r)
      <4>0. PICK v : v = req[r].token
        OBVIOUS
      <4>1. v \in DOMAIN mailed /\ mailed[v].kind = "verify"
        BY <1>0, <3>4, <4>0 DEF AccountInv, Located, FindsRows, ConsumeVerification
      <4>2. mailed' = [mailed EXCEPT ![v] = [mailed[v] EXCEPT !.state = "consumed", !.spent = @ + 1]]
        BY <1>0, <3>4, <4>0, <4>1, ConsumeVerificationEffect
      <4>3. /\ DOMAIN mailed' = DOMAIN mailed /\ mailed'[v].kind = "verify"
            /\ \A t \in DOMAIN mailed : t # v => mailed'[t] = mailed[t]
        BY <1>0, <4>1, <4>2, SpendEffect
      <4>4. OnceAtMost(v)'
        BY <4>3 DEF OnceAtMost
      <4>5. ASSUME NEW t \in DOMAIN mailed, t # v PROVE OnceAtMost(t)'
        <5>1. OnceAtMost(t) /\ mailed'[t] = mailed[t]
          BY <1>0, <4>3, <4>5 DEF SpentOrHeld
        <5> QED  BY <3>1, <5>1, StaysOnceAtMost
      <4> QED  BY <4>3, <4>4, <4>5 DEF SpentOrHeld
    <3>5. InvalidateTokens(r) \/ ConsumeVerification(r) \/ UNCHANGED mailed
      BY <1>2, <2>4 DEF Statement, InsertUser, InsertPassword, CreateHome, OpenSession, EndSessions,
         RevokeAccess, SetVerified, TouchSession, FindHome, MakeHome, Serve, Logout, tables
    <3> QED  BY <3>2, <3>3, <3>4, <3>5
  <2> QED  BY <2>1, <2>2, <2>3, <2>4
<1>3. CASE Lapse
  BY <1>0, <1>1, <1>3, LapseTypes DEF Holds, Consumed
<1>4. ASSUME NEW u \in Users, ApproveDevice(u) PROVE SpentOrHeld'
  BY <1>0, <1>1, <1>4, ApproveTypes DEF Holds, Consumed
<1>5. ASSUME NEW r \in Requests, Cut(r) \/ MailFails(r) PROVE SpentOrHeld'
  BY <1>0, <1>1, <1>5, FaultTypes DEF Holds, Consumed, tables
<1>8. ASSUME NEW r \in Requests, ConsumeFails(r) PROVE SpentOrHeld'
  <2>1. PICK t : t = req[r].token
    OBVIOUS
  <2>2. /\ DOMAIN mailed' = DOMAIN mailed /\ mailed'[t].doubtful
        /\ \A s \in DOMAIN mailed : s # t => mailed'[s] = mailed[s]
        /\ req[r].at = "consume" /\ req'[r].token = t
        /\ \A q \in Requests \ {r} : req'[q] = req[q]
    BY <1>0, <1>8, <2>1, ConsumeFailsEffect
  <2>3. ASSUME NEW s \in DOMAIN mailed, s # t PROVE OnceAtMost(s)'
    <3>1. OnceAtMost(s) /\ mailed'[s] = mailed[s]
      BY <1>0, <2>2, <2>3 DEF SpentOrHeld
    <3>2. \A q \in Requests : (Holds(q, s)' => Holds(q, s)) /\ (Consumed(q, s)' => Consumed(q, s))
      BY <2>2, <2>3 DEF Holds, Consumed
    <3> QED  BY <3>1, <3>2, StaysOnceAtMost
  <2>4. OnceAtMost(t)'
    BY <2>2 DEF OnceAtMost
  <2> QED  BY <2>2, <2>3, <2>4 DEF SpentOrHeld
<1>6. ASSUME NEW r \in Requests,
             \/ \E u \in Users : Register(r, u) \/ Login(r, u) \/ ForgotPassword(r, u)
             \/ \E t \in DOMAIN mailed : ResetPassword(r, t) \/ VerifyEmail(r, t)
             \/ \E i \in DOMAIN access : BearerRequest(r, i)
             \/ \E i \in DOMAIN sessions : CookieRequest(r, i)
      PROVE  SpentOrHeld'
  BY <1>0, <1>1, <1>6, ArrivalTypes DEF Holds, Consumed, tables
<1>7. CASE UNCHANGED vars
  BY <1>1, <1>7 DEF Holds, Consumed, vars, tables
<1> QED  BY <1>2, <1>3, <1>4, <1>5, <1>6, <1>7, <1>8 DEF Next

(* A reset token changes the password once, unless a second request had    *)
(* it verified before the first one consumed it, or marking it failed.     *)
THEOREM ResetTokensSpentOnce == Spec => []TokenSpentOnce
<1>1. Init => SpendInv
  BY AccountStart DEF SpendInv, SpentOrHeld, Init
<1>2. SpendInv /\ [Next]_vars => SpendInv'
  <2>1. SpendInv /\ [Next]_vars => AccountInv'
    BY TypeStep, LocatedStep DEF SpendInv, AccountInv
  <2> QED  BY <2>1, SpentStep DEF SpendInv
<1>3. SpendInv => TokenSpentOnce
  BY DEF SpendInv, SpentOrHeld, OnceAtMost, TokenSpentOnce
<1> QED  BY <1>1, <1>2, <1>3, PTL DEF Spec

-----------------------------------------------------------------------------
(* A reset ends what the old password opened. *)

LEMMA PasswordsRise ==
    ASSUME AccountInv, [Next]_vars
    PROVE  /\ \A u \in Users : passwords[u] \in Nat /\ passwords'[u] \in Nat /\ passwords[u] <= passwords'[u]
           /\ (\E r \in Requests : OpenSession(r)) => UNCHANGED passwords
<1>0. TypeOK /\ TypeOK'
  BY TypeStep DEF AccountInv
<1>1. UNCHANGED passwords \/ \E r \in Requests : InsertPassword(r) \/ SetPassword(r)
  BY DEF Next, vars, tables, Statement, InsertUser, CreateHome, OpenSession, InvalidateTokens, CreateToken,
     ConsumeResetToken, EndSessions, RevokeAccess, ConsumeVerification, SetVerified, TouchSession, FindHome,
     MakeHome, Serve, Logout, Cut, MailFails, ConsumeFails, Lapse, ApproveDevice, Register, Login, ForgotPassword,
     ResetPassword, VerifyEmail, BearerRequest, CookieRequest, Arrive
<1>2. \A u \in Users : passwords[u] \in Nat /\ passwords'[u] \in Nat
  BY <1>0 DEF TypeOK
<1>3. ASSUME NEW r \in Requests, InsertPassword(r)
      PROVE  \A u \in Users : passwords[u] <= passwords'[u]
  <2>1. \/ UNCHANGED passwords
        \/ passwords[req[r].user] = 0 /\ passwords' = [passwords EXCEPT ![req[r].user] = 1]
    BY <1>3 DEF InsertPassword
  <2>2. passwords \in [Users -> Nat]
    BY <1>0 DEF TypeOK
  <2> QED  BY <1>2, <2>1, <2>2
<1>4. ASSUME NEW r \in Requests, SetPassword(r)
      PROVE  \A u \in Users : passwords[u] <= passwords'[u]
  <2>1. passwords' = [passwords EXCEPT ![req[r].user] = passwords[req[r].user] + 1]
    BY <1>4 DEF SetPassword
  <2>2. passwords \in [Users -> Nat]
    BY <1>0 DEF TypeOK
  <2> QED  BY <1>2, <2>1, <2>2
<1>5. (\E r \in Requests : OpenSession(r)) => UNCHANGED passwords
  BY DEF OpenSession
<1> QED  BY <1>1, <1>2, <1>3, <1>4, <1>5

(* Sessions are opened by OpenSession, and access tokens by ApproveDevice. *)
LEMMA RowsAdded ==
    ASSUME AccountInv, [Next]_vars
    PROVE  /\ DOMAIN sessions' = DOMAIN sessions \/ \E r \in Requests : OpenSession(r)
           /\ DOMAIN access' = DOMAIN access \/ \E u \in Users : ApproveDevice(u)
<1>0. TypeOK
  BY DEF AccountInv
<1>1. ASSUME NEW r \in Requests, Statement(r)
      PROVE  (DOMAIN sessions' = DOMAIN sessions \/ OpenSession(r)) /\ DOMAIN access' = DOMAIN access
  <2>1. CASE EndSessions(r)
    BY <1>0, <2>1, EndSessionsEffect DEF EndSessions
  <2>2. CASE RevokeAccess(r)
    BY <1>0, <2>2, RevokeAccessEffect DEF RevokeAccess
  <2>3. CASE TouchSession(r)
    <3>1. \/ UNCHANGED sessions
          \/ sessions' = [sessions EXCEPT ![req[r].token] = [sessions[req[r].token] EXCEPT !.live = FALSE]]
      BY <2>3 DEF TouchSession, Touch
    <3> QED  BY <1>0, <2>3, <3>1, EndOneSession DEF TouchSession
  <2>4. CASE Logout(r)
    <3>1. \/ /\ UNCHANGED sessions
             /\ access' = [access EXCEPT ![req[r].token] = [access[req[r].token] EXCEPT !.live = FALSE]]
          \/ /\ UNCHANGED access
             /\ sessions' = [sessions EXCEPT ![req[r].token] = [sessions[req[r].token] EXCEPT !.live = FALSE]]
      BY <2>4 DEF Logout
    <3> QED  BY <1>0, <3>1, EndOneSession, EndOneAccess
  <2>5. \/ EndSessions(r) \/ RevokeAccess(r) \/ TouchSession(r) \/ Logout(r)
        \/ (UNCHANGED sessions \/ OpenSession(r)) /\ UNCHANGED access
    BY <1>1 DEF Statement, InsertUser, InsertPassword, CreateHome, InvalidateTokens, CreateToken, OpenSession,
       ConsumeResetToken, SetPassword, ConsumeVerification, SetVerified, FindHome, MakeHome, Serve, tables
  <2> QED  BY <2>1, <2>2, <2>3, <2>4, <2>5
<1>2. CASE Lapse
  BY <1>0, <1>2, LapseTypes
<1>3. ASSUME NEW u \in Users, ApproveDevice(u) PROVE UNCHANGED sessions
  BY <1>3 DEF ApproveDevice
<1>4. ASSUME NEW r \in Requests, Cut(r) \/ MailFails(r) \/ ConsumeFails(r)
      PROVE  UNCHANGED <<sessions, access>>
  BY <1>4 DEF Cut, MailFails, ConsumeFails, tables
<1>5. ASSUME NEW r \in Requests,
             \/ \E u \in Users : Register(r, u) \/ Login(r, u) \/ ForgotPassword(r, u)
             \/ \E t \in DOMAIN mailed : ResetPassword(r, t) \/ VerifyEmail(r, t)
             \/ \E i \in DOMAIN access : BearerRequest(r, i)
             \/ \E i \in DOMAIN sessions : CookieRequest(r, i)
      PROVE  UNCHANGED <<sessions, access>>
  BY <1>0, <1>5, ArrivalTypes DEF tables
<1>6. CASE UNCHANGED vars
  BY <1>6 DEF vars, tables
<1> QED  BY <1>1, <1>2, <1>3, <1>4, <1>5, <1>6 DEF Next

(* Where a request of a password reset has come from.                      *)
LEMMA ResetFollowed ==
    ASSUME AccountInv, [Next]_vars, NEW r \in Requests,
           req'[r].at \in {"end_sessions", "revoke_access"}
    PROVE  \/ req'[r] = req[r]
           \/ /\ req'[r].at = "end_sessions" /\ req'[r].user = req[r].user
              /\ req'[r].version = passwords'[req[r].user]
           \/ /\ req'[r].at = "revoke_access" /\ req[r].at = "end_sessions" /\ EndSessions(r)
              /\ req'[r].user = req[r].user /\ req'[r].version = req[r].version
<1>0. TypeOK
  BY DEF AccountInv
<1>1. ASSUME NEW q \in Requests, Statement(q)
      PROVE  \/ req'[r] = req[r]
             \/ /\ req'[r].at = "end_sessions" /\ req'[r].user = req[r].user
                /\ req'[r].version = passwords'[req[r].user]
             \/ /\ req'[r].at = "revoke_access" /\ req[r].at = "end_sessions" /\ EndSessions(r)
                /\ req'[r].user = req[r].user /\ req'[r].version = req[r].version
  BY <1>1, StatementFollowed DEF Followed, EndSessions
<1>2. CASE Lapse
  BY <1>2 DEF Lapse
<1>3. ASSUME NEW u \in Users, ApproveDevice(u) PROVE UNCHANGED req
  BY <1>3 DEF ApproveDevice
<1>4. ASSUME NEW q \in Requests, Cut(q) \/ MailFails(q) PROVE req'[r] = req[r]
  BY <1>0, <1>4, FaultTypes
<1>7. ASSUME NEW q \in Requests, ConsumeFails(q) PROVE req'[r] = req[r]
  BY <1>7, ConsumeFailsEffect
<1>5. ASSUME NEW q \in Requests,
             \/ \E u \in Users : Register(q, u) \/ Login(q, u) \/ ForgotPassword(q, u)
             \/ \E t \in DOMAIN mailed : ResetPassword(q, t) \/ VerifyEmail(q, t)
             \/ \E i \in DOMAIN access : BearerRequest(q, i)
             \/ \E i \in DOMAIN sessions : CookieRequest(q, i)
      PROVE  req'[r] = req[r]
  BY <1>0, <1>5, ArrivalTypes
<1>6. CASE UNCHANGED vars
  BY <1>6 DEF vars
<1> QED  BY <1>1, <1>2, <1>3, <1>4, <1>5, <1>6, <1>7 DEF Next

(* Only the answer to a reset changes which reset counts.                  *)
LEMMA ResetAnswered ==
    ASSUME AccountInv, [Next]_vars
    PROVE  \/ UNCHANGED resetDone
           \/ \E r \in Requests :
                 /\ RevokeAccess(r)
                 /\ resetDone' = [resetDone EXCEPT ![req[r].user] = req[r].version]
<1>0. TypeOK
  BY DEF AccountInv
<1>1. ASSUME NEW r \in Requests, Statement(r)
      PROVE  \/ UNCHANGED resetDone
             \/ /\ RevokeAccess(r)
                /\ resetDone' = [resetDone EXCEPT ![req[r].user] = req[r].version]
  <2>1. CASE ConsumeResetToken(r) \/ EndSessions(r) \/ RevokeAccess(r)
    <3>1. GoOnWithReset(r) /\ req[r].at \in {"consume", "end_sessions", "revoke_access"}
          /\ (req[r].at = "revoke_access" => RevokeAccess(r))
      BY <2>1 DEF ConsumeResetToken, EndSessions, RevokeAccess
    <3> QED  BY <1>0, <3>1, ResetType
  <2>2. CASE SetPassword(r)
    BY <2>2, ResetStages DEF SetPassword
  <2>3. ConsumeResetToken(r) \/ EndSessions(r) \/ RevokeAccess(r) \/ SetPassword(r) \/ UNCHANGED resetDone
    BY <1>1 DEF Statement, InsertUser, InsertPassword, CreateHome, InvalidateTokens, CreateToken, OpenSession,
       ConsumeVerification, SetVerified, TouchSession, FindHome, MakeHome, Serve, Logout
  <2> QED  BY <2>1, <2>2, <2>3
<1>2. UNCHANGED resetDone \/ \E r \in Requests : Statement(r)
  BY DEF Next, vars, Cut, MailFails, ConsumeFails, Lapse, ApproveDevice, Register, Login, ForgotPassword,
     ResetPassword, VerifyEmail, BearerRequest, CookieRequest, Arrive
<1> QED  BY <1>1, <1>2

LEMMA ResetStep == RevokeInv /\ [Next]_vars => ResetProgress' /\ RevokedOnReset'
<1> SUFFICES ASSUME RevokeInv, [Next]_vars PROVE ResetProgress' /\ RevokedOnReset'
  OBVIOUS
<1>0. AccountInv /\ TypeOK /\ TypeOK' /\ ResetProgress /\ RevokedOnReset
  BY TypeStep DEF RevokeInv, AccountInv
<1>1. SessionsKept /\ AccessKept
  BY <1>0, NothingReturns
<1>2. /\ \A u \in Users : passwords[u] \in Nat /\ passwords'[u] \in Nat /\ passwords[u] <= passwords'[u]
      /\ (\E r \in Requests : OpenSession(r)) => UNCHANGED passwords
  BY <1>0, PasswordsRise
<1>3. \A u \in Users : resetDone[u] \in Nat /\ resetDone'[u] \in Nat
  BY <1>0 DEF TypeOK
<1>4. \A r \in Requests : /\ req[r].user \in Users /\ req[r].version \in Nat
                          /\ req'[r].user \in Users /\ req'[r].version \in Nat
  <2>1. \A r \in Requests : req[r] \in RequestStates /\ req'[r] \in RequestStates
    BY <1>0 DEF TypeOK
  <2> QED  BY <2>1 DEF RequestStates
<1>5. ASSUME NEW r \in Requests, req'[r].at \in {"end_sessions", "revoke_access"}
      PROVE  req'[r].version <= passwords'[req'[r].user]
  <2>1. CASE req'[r] = req[r]
    BY <1>0, <1>2, <1>4, <1>5, <2>1 DEF ResetProgress
  <2>2. CASE req'[r].user = req[r].user /\ req'[r].version = passwords'[req[r].user]
    BY <1>2, <1>4, <2>2
  <2>3. CASE req[r].at = "end_sessions" /\ req'[r].user = req[r].user /\ req'[r].version = req[r].version
    BY <1>0, <1>2, <1>4, <2>3 DEF ResetProgress
  <2> QED  BY <1>0, <1>5, <2>1, <2>2, <2>3, ResetFollowed
(* Sessions that are new are late or opened with the latest password.      *)
<1>6. ASSUME NEW i \in DOMAIN sessions', i \notin DOMAIN sessions, ~ sessions'[i].late
      PROVE  /\ sessions'[i].user \in Users
             /\ sessions'[i].version = passwords'[sessions'[i].user]
  <2>1. PICK r \in Requests : OpenSession(r)
    BY <1>0, <1>6, RowsAdded
  <2> QED  BY <1>0, <1>2, <1>4, <1>6, <2>1, OpenSessionEffect
<1>7. ASSUME NEW r \in Requests, req'[r].at = "revoke_access",
             NEW i \in DOMAIN sessions',
             sessions'[i].user = req'[r].user, sessions'[i].live, ~ sessions'[i].late
      PROVE  sessions'[i].version >= req'[r].version
  <2>1. CASE i \notin DOMAIN sessions
    BY <1>2, <1>4, <1>5, <1>6, <1>7, <2>1
  <2>2. CASE i \in DOMAIN sessions /\ req'[r] = req[r]
    BY <1>0, <1>1, <1>7, <2>2 DEF SessionsKept, ResetProgress
  <2>3. CASE i \in DOMAIN sessions /\ EndSessions(r) /\ req'[r].user = req[r].user
    <3>1. ~ sessions'[i].live
      BY <1>0, <1>1, <1>7, <2>3, EndSessionsEffect DEF SessionsKept
    <3> QED  BY <1>7, <3>1
  <2> QED  BY <1>0, <1>7, <2>1, <2>2, <2>3, ResetFollowed
<1>8. ASSUME NEW u \in Users PROVE resetDone'[u] <= passwords'[u]
  <2>1. CASE UNCHANGED resetDone
    BY <1>0, <1>2, <1>3, <2>1 DEF ResetProgress
  <2>2. ASSUME NEW r \in Requests, RevokeAccess(r),
               resetDone' = [resetDone EXCEPT ![req[r].user] = req[r].version]
        PROVE  resetDone'[u] <= passwords'[u]
    <3>1. req[r].version <= passwords[req[r].user]
      BY <1>0, <2>2 DEF RevokeAccess, ResetProgress
    <3>2. resetDone'[u] = IF u = req[r].user THEN req[r].version ELSE resetDone[u]
      BY <1>0, <2>2 DEF TypeOK
    <3> QED  BY <1>0, <1>2, <1>3, <1>4, <3>1, <3>2 DEF ResetProgress
  <2> QED  BY <1>0, <2>1, <2>2, ResetAnswered
<1>9. ResetProgress'
  BY <1>5, <1>7, <1>8 DEF ResetProgress
<1>10. ASSUME NEW i \in DOMAIN sessions', sessions'[i].live, ~ sessions'[i].late
       PROVE  sessions'[i].version >= resetDone'[sessions'[i].user]
  <2>1. CASE i \notin DOMAIN sessions
    BY <1>2, <1>3, <1>6, <1>8, <1>10, <2>1
  <2>2. CASE i \in DOMAIN sessions
    <3>1. /\ sessions'[i].user = sessions[i].user /\ sessions'[i].version = sessions[i].version
          /\ sessions[i].live /\ ~ sessions[i].late
      BY <1>1, <1>10, <2>2 DEF SessionsKept
    <3>2. sessions[i].version >= resetDone[sessions[i].user]
      BY <1>0, <2>2, <3>1 DEF RevokedOnReset
    <3>3. ASSUME NEW r \in Requests, RevokeAccess(r),
                 resetDone' = [resetDone EXCEPT ![req[r].user] = req[r].version]
          PROVE  sessions[i].version >= resetDone'[sessions[i].user]
      <4>1. sessions[i].user = req[r].user => sessions[i].version >= req[r].version
        BY <1>0, <2>2, <3>1, <3>3 DEF RevokeAccess, ResetProgress
      <4>2. resetDone'[sessions[i].user] =
              IF sessions[i].user = req[r].user THEN req[r].version ELSE resetDone[sessions[i].user]
        <5>1. sessions[i].user \in Users
          <6>1. sessions[i] \in SessionRows
            BY <1>0, <2>2, RowOf DEF TypeOK
          <6> QED  BY <6>1 DEF SessionRows
        <5> QED  BY <1>0, <3>3, <5>1 DEF TypeOK
      <4> QED  BY <3>2, <4>1, <4>2
    <3> QED  BY <1>0, <3>1, <3>2, <3>3, ResetAnswered
  <2> QED  BY <2>1, <2>2
<1>11. ASSUME NEW i \in DOMAIN access', access'[i].live
       PROVE  access'[i].version >= resetDone'[access'[i].user]
  <2>1. CASE i \notin DOMAIN access
    <3>1. PICK u \in Users : ApproveDevice(u)
      BY <1>0, <1>11, <2>1, RowsAdded
    <3>2. access'[i].user = u /\ access'[i].version = passwords[u] /\ UNCHANGED resetDone
      <4>1. i = Len(access) + 1 /\ UNCHANGED resetDone
        BY <1>0, <1>11, <2>1, <3>1, ApproveTypes
      <4>2. access'[Len(access) + 1] = [user |-> u, version |-> passwords[u], live |-> TRUE]
        BY <1>0, <3>1, ApproveTypes
      <4> QED  BY <4>1, <4>2
    <3> QED  BY <1>0, <1>2, <1>3, <3>2 DEF ResetProgress
  <2>2. CASE i \in DOMAIN access
    <3>1. access'[i].user = access[i].user /\ access'[i].version = access[i].version /\ access[i].live
      BY <1>1, <1>11, <2>2 DEF AccessKept
    <3>2. access[i].version >= resetDone[access[i].user]
      BY <1>0, <2>2, <3>1 DEF RevokedOnReset
    <3>3. ASSUME NEW r \in Requests, RevokeAccess(r),
                 resetDone' = [resetDone EXCEPT ![req[r].user] = req[r].version]
          PROVE  access[i].version >= resetDone'[access[i].user]
      <4>1. access[i].user # req[r].user
        BY <1>0, <1>11, <2>2, <3>3, RevokeAccessEffect
      <4>2. resetDone'[access[i].user] = resetDone[access[i].user]
        <5>1. access[i].user \in Users
          <6>1. access[i] \in AccessRows
            BY <1>0, <2>2, RowOf DEF TypeOK
          <6> QED  BY <6>1 DEF AccessRows
        <5> QED  BY <1>0, <3>3, <4>1, <5>1 DEF TypeOK
      <4> QED  BY <3>2, <4>2
    <3> QED  BY <1>0, <3>1, <3>2, <3>3, ResetAnswered
  <2> QED  BY <2>1, <2>2
<1>12. RevokedOnReset'
  BY <1>10, <1>11 DEF RevokedOnReset
<1> QED  BY <1>9, <1>12

(* Once a reset has been answered, nothing opened with an older password   *)
(* is live, but for the session of a login that had checked it before.     *)
THEOREM ResetRevokes == Spec => []RevokedOnReset
<1>1. Init => RevokeInv
  <2>1. Init => ResetProgress /\ RevokedOnReset
    BY IdleType DEF Init, ResetProgress, RevokedOnReset
  <2> QED  BY <2>1, AccountStart DEF RevokeInv
<1>2. RevokeInv /\ [Next]_vars => RevokeInv'
  <2>1. RevokeInv /\ [Next]_vars => AccountInv'
    BY TypeStep, LocatedStep DEF RevokeInv, AccountInv
  <2> QED  BY <2>1, ResetStep DEF RevokeInv
<1>3. RevokeInv => RevokedOnReset
  BY DEF RevokeInv
<1> QED  BY <1>1, <1>2, <1>3, PTL DEF Spec

-----------------------------------------------------------------------------
(* DeviceLogin                                                             *)

(* A visit knows one account once GitHub has given it, and that account    *)
(* has a row once the visit is past finding or making it.                  *)
VisitsKnowTheirUser ==
    \A v \in Visits :
        /\ visit[v].at \in {"find", "insert", "home", "check", "mint", "approve"} =>
              \E u \in People : visit[v].user = {u}
        /\ visit[v].at \in {"home", "check", "mint"} => visit[v].user \subseteq accounts

(* A visit that has made a token made it for its account; before that it   *)
(* has none.                                                               *)
VisitsKnowTheirToken ==
    \A v \in Visits :
        /\ visit[v].at \in {"away", "exchange", "find", "insert", "home", "check", "mint"} =>
              visit[v].token = NoToken
        /\ visit[v].at = "approve" => visit[v].token # NoToken
        /\ visit[v].token # NoToken =>
              /\ visit[v].token \in DOMAIN tokens
              /\ visit[v].user = {tokens[visit[v].token]}
              /\ visit[v].user \subseteq accounts

MadeTokens == {visit[v].token : v \in Visits}

(* Every token that is stored, read or kept by a client was made by a      *)
(* visit.                                                                  *)
TokensComeFromVisits ==
    /\ row.plain # NoToken => row.plain \in MadeTokens
    /\ \A c \in Clients :
          /\ client[c].token # NoToken => client[c].token \in MadeTokens
          /\ client[c].at = "in" => client[c].token # NoToken

(* A user without a workspace has a visit on its way to make it.           *)
UsersGetHomes ==
    \A u \in accounts :
        \/ u \in members
        \/ \E v \in Visits : visit[v].user = {u} /\ visit[v].at = "home"
        \/ losses > 0

LoginInv ==
    /\ LoginTypeOK /\ VisitsKnowTheirUser /\ VisitsKnowTheirToken
    /\ TokensComeFromVisits /\ UsersGetHomes

(* A token that was answered has been cleared, and a poll that has read    *)
(* one before that is contested.                                           *)
Contested == \E i \in DOMAIN given : given[i].contested

RetrievedOnce ==
    /\ given # <<>> => row.retrieved
    /\ \A c \in Clients : client[c].at = "answering" => given = <<>> \/ Contested

OnceInv == LoginTypeOK /\ RetrievedOnce /\ TokenGivenOnceUnlessContested

-----------------------------------------------------------------------------
(* Who changes what *)

(* A visit touches no visit but its own, and nothing of the clients.       *)
LEMMA VisitsApart ==
    ASSUME LoginTypeOK, NEW v \in Visits, VisitStep(v) \/ CutVisit(v)
    PROVE  /\ UNCHANGED <<late, page, client, given>>
           /\ \A x \in Visits \ {v} : visit'[x] = visit[x]
  BY DEF LoginTypeOK, VisitStep, CutVisit, Return, ExpireByVisit, Exchange, FindUser, InsertAccount, MakeWorkspace,
         Check, Mint, StoreApproval, At, VisitGoes

(* A client touches no client but its own, and nothing of the visits.      *)
LEMMA ClientsApart ==
    ASSUME LoginTypeOK, NEW c \in Clients, ClientStep(c) \/ TimeOut(c) \/ CutPoll(c)
    PROVE  /\ UNCHANGED <<late, page, accounts, members, tokens, visit>>
           /\ \A x \in Clients \ {c} : client'[x] = client[x]
  BY DEF LoginTypeOK, ClientStep, CutPoll, Poll, ExpireByPoll, TimeOut, Retrieve, Receive

LEMMA AccountOfVisit ==
    ASSUME NEW v \in Visits, NEW u \in People, visit[v].user = {u}
    PROVE  Account(v) = u
  BY DEF Account

LEMMA VisitedAccount ==
    ASSUME VisitsKnowTheirUser, NEW v \in Visits,
           visit[v].at \in {"find", "insert", "home", "check", "mint", "approve"}
    PROVE  Account(v) \in People /\ visit[v].user = {Account(v)}
<1>1. PICK u \in People : visit[v].user = {u}
  BY DEF VisitsKnowTheirUser
<1> QED  BY <1>1, AccountOfVisit

-----------------------------------------------------------------------------
(* Types *)

LEMMA Fields ==
    ASSUME LoginTypeOK
    PROVE  /\ \A v \in Visits : /\ visit[v] \in VisitStates /\ visit[v].at \in VisitStages
                               /\ visit[v].user \subseteq People /\ visit[v].token \in Nat
           /\ \A c \in Clients : /\ client[c] \in ClientStates /\ client[c].at \in ClientStages
                                /\ client[c].token \in Nat
           /\ row.plain \in Nat /\ row.retrieved \in BOOLEAN
  BY DEF LoginTypeOK, VisitStates, ClientStates, Rows

LEMMA GoesType ==
    ASSUME LoginTypeOK, NEW v \in Visits, NEW stage \in VisitStages, VisitGoes(v, stage)
    PROVE  visit' \in [Visits -> VisitStates]
  BY DEF LoginTypeOK, VisitGoes, VisitStates

LEMMA ExpireType ==
    ASSUME LoginTypeOK, Expire
    PROVE  row' \in Rows
  BY DEF LoginTypeOK, Expire, Rows

LEMMA VisitStageType ==
    \A stage \in {"away", "exchange", "find", "insert", "home", "check", "mint", "approve",
                  "expire", "welcomed", "turned_away"} : stage \in VisitStages
  BY DEF VisitStages

LEMMA VisitType ==
    ASSUME LoginTypeOK, VisitsKnowTheirUser, NEW v \in Visits, VisitStep(v) \/ CutVisit(v)
    PROVE  LoginTypeOK'
<1>1. CASE Return(v) \/ Check(v)
  <2>1. PICK stage \in {"turned_away", "expire", "exchange", "mint"} : VisitGoes(v, stage)
    BY <1>1 DEF Return, Check, AfterRead
  <2>2. visit' \in [Visits -> VisitStates]
    BY <2>1, VisitStageType, GoesType
  <2> QED  BY <1>1, <2>2 DEF Return, Check, At, LoginTypeOK
<1>9. CASE ExpireByVisit(v)
  <2>1. visit' \in [Visits -> VisitStates]
    BY <1>9, VisitStageType, GoesType DEF ExpireByVisit
  <2>2. row' \in Rows
    BY <1>9, ExpireType DEF ExpireByVisit
  <2> QED  BY <1>9, <2>1, <2>2 DEF ExpireByVisit, At, LoginTypeOK
<1>2. CASE Exchange(v)
  <2>1. visit' \in [Visits -> VisitStates]
    <3>1. CASE VisitGoes(v, "turned_away")
      BY <3>1, VisitStageType, GoesType
    <3>2. ASSUME NEW u \in People, visit' = [visit EXCEPT ![v].at = "find", ![v].user = {u}]
          PROVE  visit' \in [Visits -> VisitStates]
      BY <3>2, VisitStageType DEF LoginTypeOK, VisitStates
    <3> QED  BY <1>2, <3>1, <3>2 DEF Exchange
  <2> QED  BY <1>2, <2>1 DEF Exchange, At, LoginTypeOK
<1>3. CASE FindUser(v)
  <2>1. visit' \in [Visits -> VisitStates]
    BY <1>3, VisitStageType, GoesType DEF FindUser, AfterFind
  <2> QED  BY <1>3, <2>1 DEF FindUser, At, LoginTypeOK
<1>4. CASE InsertAccount(v)
  <2>1. visit' \in [Visits -> VisitStates]
    BY <1>4, VisitStageType, GoesType DEF InsertAccount, AfterInsert
  <2>2. accounts' \subseteq People
    BY <1>4, Fields DEF InsertAccount, LoginTypeOK
  <2> QED  BY <1>4, <2>1, <2>2 DEF InsertAccount, At, LoginTypeOK
<1>5. CASE MakeWorkspace(v)
  <2>1. visit' \in [Visits -> VisitStates]
    BY <1>5, VisitStageType, GoesType DEF MakeWorkspace
  <2>2. members' \subseteq People
    BY <1>5, Fields DEF MakeWorkspace, LoginTypeOK
  <2> QED  BY <1>5, <2>1, <2>2 DEF MakeWorkspace, At, LoginTypeOK
<1>6. CASE Mint(v)
  <2>1. Account(v) \in People /\ tokens \in Seq(People)
    BY <1>6, VisitedAccount DEF Mint, At, LoginTypeOK
  <2>2. tokens' \in Seq(People) /\ Len(tokens) + 1 \in Nat
    BY <1>6, <2>1 DEF Mint
  <2>3. visit' \in [Visits -> VisitStates]
    BY <1>6, <2>2, VisitStageType DEF Mint, LoginTypeOK, VisitStates
  <2> QED  BY <1>6, <2>2, <2>3 DEF Mint, At, LoginTypeOK
<1>7. CASE StoreApproval(v)
  <2>1. Account(v) \in People /\ visit[v].token \in Nat
    BY <1>7, VisitedAccount, Fields DEF StoreApproval, At
  <2>2. row' \in Rows
    BY <1>7, <2>1 DEF StoreApproval, Approve, LoginTypeOK, Rows
  <2>3. visit' \in [Visits -> VisitStates]
    BY <1>7, VisitStageType, GoesType DEF StoreApproval
  <2> QED  BY <1>7, <2>2, <2>3 DEF StoreApproval, At, LoginTypeOK
<1>8. CASE CutVisit(v)
  <2>1. visit' \in [Visits -> VisitStates]
    BY <1>8, VisitStageType, GoesType DEF CutVisit
  <2> QED  BY <1>8, <2>1 DEF CutVisit, LoginTypeOK
<1> QED  BY <1>1, <1>2, <1>3, <1>4, <1>5, <1>6, <1>7, <1>8, <1>9 DEF VisitStep

LEMMA ClientType ==
    ASSUME LoginTypeOK, NEW c \in Clients, ClientStep(c) \/ TimeOut(c) \/ CutPoll(c)
    PROVE  LoginTypeOK'
<1>1. CASE Poll(c)
  <2>1. row.plain \in Nat /\ NoToken \in Nat
    BY Fields DEF NoToken
  <2>2. PICK stage \in {"answering", "expiring", "waiting"},
             answer \in {"pending", "denied", "expired", "complete"}, token \in Nat :
           client' = [client EXCEPT ![c].at = stage, ![c].answer = answer, ![c].token = token]
    BY <1>1, <2>1 DEF Poll, AnswerTo
  <2>3. stage \in ClientStages
    BY DEF ClientStages
  <2>4. client' \in [Clients -> ClientStates]
    BY <2>2, <2>3 DEF LoginTypeOK, ClientStates
  <2> QED  BY <1>1, <2>4 DEF Poll, LoginTypeOK
<1>5. CASE ExpireByPoll(c)
  <2>1. row' \in Rows
    BY <1>5, ExpireType DEF ExpireByPoll
  <2>2. client' \in [Clients -> ClientStates]
    BY <1>5 DEF ExpireByPoll, LoginTypeOK, ClientStates, ClientStages
  <2> QED  BY <1>5, <2>1, <2>2 DEF ExpireByPoll, LoginTypeOK
<1>6. CASE TimeOut(c)
  <2>1. client' \in [Clients -> ClientStates]
    BY <1>6 DEF TimeOut, LoginTypeOK, ClientStates, ClientStages
  <2> QED  BY <1>6, <2>1 DEF TimeOut, LoginTypeOK
<1>2. CASE Retrieve(c)
  <2>1. given' \in Seq([token : Nat, contested : BOOLEAN])
    BY <1>2, Fields DEF Retrieve, LoginTypeOK
  <2>2. row' \in Rows
    BY <1>2 DEF Retrieve, MarkRetrieved, LoginTypeOK, Rows, NoToken
  <2>3. client' \in [Clients -> ClientStates]
    BY <1>2 DEF Retrieve, LoginTypeOK, ClientStates, ClientStages
  <2> QED  BY <1>2, <2>1, <2>2, <2>3 DEF Retrieve, LoginTypeOK
<1>3. CASE Receive(c)
  <2>1. PICK stage \in {"failed", "ready", "in"} : client' = [client EXCEPT ![c].at = stage]
    BY <1>3 DEF Receive
  <2>2. client' \in [Clients -> ClientStates]
    BY <2>1 DEF LoginTypeOK, ClientStates, ClientStages
  <2> QED  BY <1>3, <2>2 DEF Receive, LoginTypeOK
<1>4. CASE CutPoll(c)
  <2>1. client' \in [Clients -> ClientStates]
    BY <1>4 DEF CutPoll, LoginTypeOK, ClientStates, ClientStages, NoToken
  <2> QED  BY <1>4, <2>1 DEF CutPoll, LoginTypeOK
<1> QED  BY <1>1, <1>2, <1>3, <1>4, <1>5, <1>6 DEF ClientStep

LEMMA PageType ==
    ASSUME LoginTypeOK, HandleDeviceVerify \/ Deny \/ TenMinutesPass
    PROVE  LoginTypeOK'
<1>1. CASE Deny
  <2>1. row' \in Rows
    BY <1>1 DEF Deny, LoginTypeOK, Rows
  <2> QED  BY <1>1, <2>1 DEF Deny, LoginTypeOK
<1>2. CASE HandleDeviceVerify \/ TenMinutesPass
  BY <1>2 DEF HandleDeviceVerify, TenMinutesPass, LoginTypeOK
<1> QED  BY <1>1, <1>2

LEMMA LoginTypeStep ==
    ASSUME LoginTypeOK, VisitsKnowTheirUser, LoginNext
    PROVE  LoginTypeOK'
  BY VisitType, ClientType, PageType DEF LoginNext

-----------------------------------------------------------------------------
(* What a step changes *)

LEMMA Goes ==
    ASSUME LoginTypeOK, NEW v \in Visits, NEW stage, VisitGoes(v, stage)
    PROVE  /\ visit'[v].at = stage /\ visit'[v].user = visit[v].user
           /\ visit'[v].token = visit[v].token
  BY DEF LoginTypeOK, VisitGoes, VisitStates

Keeps(v) == visit'[v].user = visit[v].user /\ visit'[v].token = visit[v].token

(* The ways of a visit: it learns its account from GitHub, makes its       *)
(* token, and otherwise only goes on, or ends.                             *)
LEMMA VisitMoves ==
    ASSUME LoginTypeOK, NEW v \in Visits, VisitStep(v) \/ CutVisit(v)
    PROVE  \/ Keeps(v) /\ visit'[v].at \in {"expire", "turned_away"}
                        /\ accounts \subseteq accounts'
                        /\ (visit[v].at = "home" => CutVisit(v))
           \/ Return(v) /\ Keeps(v) /\ visit[v].at = "away" /\ visit'[v].at = "exchange"
           \/ Exchange(v) /\ visit[v].at = "exchange" /\ visit'[v].at = "find"
                          /\ visit'[v].token = visit[v].token
                          /\ \E u \in People : visit'[v].user = {u}
           \/ FindUser(v) /\ Keeps(v) /\ visit[v].at = "find"
                          /\ \/ visit'[v].at = "check" /\ Account(v) \in accounts
                             \/ visit'[v].at = "insert"
           \/ InsertAccount(v) /\ Keeps(v) /\ visit[v].at = "insert" /\ visit'[v].at = "home"
                            /\ accounts' = accounts \cup visit[v].user
           \/ MakeWorkspace(v) /\ Keeps(v) /\ visit[v].at = "home" /\ visit'[v].at = "check"
           \/ Check(v) /\ Keeps(v) /\ visit[v].at = "check" /\ visit'[v].at = "mint"
           \/ Mint(v) /\ visit[v].at = "mint" /\ visit'[v].at = "approve"
                      /\ visit'[v].user = visit[v].user /\ visit'[v].token = Len(tokens) + 1
           \/ StoreApproval(v) /\ Keeps(v) /\ visit[v].at = "approve"
                               /\ visit'[v].at = "welcomed"
<1> USE DEF Keeps, At
<1>1. CASE Return(v) \/ Check(v)
  BY <1>1, Goes DEF Return, Check, AfterRead
<1>8. CASE ExpireByVisit(v)
  BY <1>8, Goes DEF ExpireByVisit
<1>2. CASE Exchange(v)
  <2>1. ASSUME NEW u \in People, visit' = [visit EXCEPT ![v].at = "find", ![v].user = {u}]
        PROVE  visit'[v].at = "find" /\ visit'[v].user = {u} /\ visit'[v].token = visit[v].token
    BY <2>1 DEF LoginTypeOK, VisitStates
  <2> QED  BY <1>2, <2>1, Goes DEF Exchange
<1>3. CASE FindUser(v)
  BY <1>3, Goes DEF FindUser, AfterFind
<1>4. CASE InsertAccount(v)
  BY <1>4, Goes DEF InsertAccount, AfterInsert
<1>5. CASE MakeWorkspace(v) \/ StoreApproval(v)
  BY <1>5, Goes DEF MakeWorkspace, StoreApproval
<1>6. CASE Mint(v)
  <2>1. /\ visit'[v].at = "approve" /\ visit'[v].user = visit[v].user
        /\ visit'[v].token = Len(tokens) + 1
    BY <1>6 DEF Mint, LoginTypeOK, VisitStates
  <2> QED  BY <1>6, <2>1 DEF Mint
<1>7. CASE CutVisit(v)
  BY <1>7, Goes DEF CutVisit
<1> QED  BY <1>1, <1>2, <1>3, <1>4, <1>5, <1>6, <1>7, <1>8 DEF VisitStep

(* The ways of a client. *)
LEMMA ClientMoves ==
    ASSUME LoginTypeOK, NEW c \in Clients, ClientStep(c) \/ TimeOut(c) \/ CutPoll(c)
    PROVE  \/ /\ Poll(c) /\ client'[c].at \in {"answering", "expiring", "waiting"}
              /\ client'[c].token \in {client[c].token, row.plain, NoToken}
              /\ client'[c].at = "answering" => ~ row.retrieved
           \/ /\ ExpireByPoll(c) \/ Retrieve(c) \/ TimeOut(c)
              /\ client'[c].at \in {"waiting", "timed_out"} /\ client'[c].token = client[c].token
           \/ /\ Receive(c) /\ client'[c].at \in {"ready", "failed", "in"}
              /\ client'[c].token = client[c].token
              /\ client'[c].at = "in" => client[c].token # NoToken
           \/ CutPoll(c) /\ client'[c].at = "failed" /\ client'[c].token = NoToken
<1>0. client \in [Clients -> ClientStates]
  BY DEF LoginTypeOK
<1>1. CASE Poll(c)
  <2>1. CASE Overdue
    BY <1>0, <1>1, <2>1 DEF Poll, ClientStates
  <2>2. CASE ~ Overdue /\ AnswerTo(row) = "complete" /\ Retrievable(row)
    BY <1>0, <1>1, <2>2 DEF Poll, ClientStates, Retrievable
  <2>3. CASE ~ Overdue /\ ~ (AnswerTo(row) = "complete" /\ Retrievable(row))
    BY <1>0, <1>1, <2>3 DEF Poll, ClientStates
  <2> QED  BY <2>1, <2>2, <2>3
<1>2. CASE ExpireByPoll(c) \/ Retrieve(c) \/ TimeOut(c)
  BY <1>0, <1>2 DEF ExpireByPoll, Retrieve, TimeOut, ClientStates
<1>3. CASE Receive(c)
  <2>1. PICK stage \in {"failed", "ready", "in"} :
            /\ client' = [client EXCEPT ![c].at = stage]
            /\ stage = "in" => client[c].token # NoToken
    BY <1>3 DEF Receive
  <2> QED  BY <1>0, <1>3, <2>1 DEF ClientStates
<1>4. CASE CutPoll(c)
  BY <1>0, <1>4 DEF CutPoll, ClientStates
<1> QED  BY <1>1, <1>2, <1>3, <1>4 DEF ClientStep

(* The ways of the row. *)
LEMMA RowMoves ==
    ASSUME LoginTypeOK, LoginNext
    PROVE  \/ row'.plain = row.plain /\ row'.retrieved = row.retrieved
           \/ /\ \E v \in Visits : StoreApproval(v) /\ row'.plain = visit[v].token
              /\ row'.retrieved = row.retrieved
           \/ row'.plain = NoToken /\ row'.retrieved
<1>0. row \in Rows
  BY DEF LoginTypeOK
<1>1. ASSUME NEW v \in Visits, StoreApproval(v)
      PROVE  row'.plain = visit[v].token /\ row'.retrieved = row.retrieved
  BY <1>0, <1>1 DEF StoreApproval, Approve, Rows
<1>2. ASSUME NEW c \in Clients, Retrieve(c)
      PROVE  row'.plain = NoToken /\ row'.retrieved
  BY <1>0, <1>2 DEF Retrieve, MarkRetrieved, Rows
<1>3. CASE Expire \/ Deny
  BY <1>0, <1>3 DEF Expire, Deny, Rows
<1>4. \/ UNCHANGED row \/ Expire \/ Deny
      \/ (\E v \in Visits : StoreApproval(v)) \/ \E c \in Clients : Retrieve(c)
  BY DEF LoginNext, VisitStep, ClientStep, CutVisit, Return, ExpireByVisit, Exchange, FindUser,
         InsertAccount, MakeWorkspace, Check, Mint, Poll, ExpireByPoll, TimeOut, Receive, CutPoll,
         HandleDeviceVerify, TenMinutesPass
<1> QED  BY <1>1, <1>2, <1>3, <1>4

-----------------------------------------------------------------------------
(* Users and their tokens *)

LEMMA UserKnownStep ==
    ASSUME LoginTypeOK, VisitsKnowTheirUser, LoginNext
    PROVE  VisitsKnowTheirUser'
<1>1. ASSUME NEW v \in Visits, VisitStep(v) \/ CutVisit(v) PROVE VisitsKnowTheirUser'
  <2>1. accounts \subseteq accounts'
    BY <1>1 DEF VisitStep, CutVisit, Return, ExpireByVisit, Exchange, FindUser, InsertAccount,
                MakeWorkspace, Check, Mint, StoreApproval
  <2>2. visit[v].at \in {"find", "insert", "home", "check", "mint", "approve"} =>
            Account(v) \in People /\ visit[v].user = {Account(v)}
    BY VisitedAccount
  <2>3. /\ visit'[v].at \in {"find", "insert", "home", "check", "mint", "approve"} =>
              \E u \in People : visit'[v].user = {u}
        /\ visit'[v].at \in {"home", "check", "mint"} => visit'[v].user \subseteq accounts'
    BY <1>1, <2>1, <2>2, VisitMoves DEF Keeps, VisitsKnowTheirUser
  <2> QED  BY <1>1, <2>1, <2>3, VisitsApart DEF VisitsKnowTheirUser
<1>2. ASSUME NEW c \in Clients, ClientStep(c) \/ TimeOut(c) \/ CutPoll(c) PROVE VisitsKnowTheirUser'
  BY <1>2, ClientsApart DEF VisitsKnowTheirUser
<1>3. CASE HandleDeviceVerify \/ Deny \/ TenMinutesPass
  BY <1>3 DEF HandleDeviceVerify, Deny, TenMinutesPass, VisitsKnowTheirUser
<1> QED  BY <1>1, <1>2, <1>3 DEF LoginNext

(* Tokens stay, and stay with their owners. *)
LEMMA VisitTokensStay ==
    ASSUME LoginTypeOK, VisitsKnowTheirUser, NEW v \in Visits, VisitStep(v) \/ CutVisit(v),
           NEW t \in DOMAIN tokens
    PROVE  t \in DOMAIN tokens' /\ tokens'[t] = tokens[t]
<1>1. CASE Mint(v)
  <2>1. Account(v) \in People /\ tokens \in Seq(People) /\ tokens' = Append(tokens, Account(v))
    BY <1>1, VisitedAccount DEF Mint, At, LoginTypeOK
  <2> QED  BY <2>1
<1>2. CASE ~ Mint(v)
  BY <1>2 DEF VisitStep, CutVisit, Return, ExpireByVisit, Exchange, FindUser, InsertAccount,
              MakeWorkspace, Check, StoreApproval
<1> QED  BY <1>1, <1>2

LEMMA TokenKnownStep ==
    ASSUME LoginTypeOK, VisitsKnowTheirUser, VisitsKnowTheirToken, LoginNext
    PROVE  VisitsKnowTheirToken'
<1>1. ASSUME NEW v \in Visits, VisitStep(v) \/ CutVisit(v) PROVE VisitsKnowTheirToken'
  <2>1. accounts \subseteq accounts'
    BY <1>1 DEF VisitStep, CutVisit, Return, ExpireByVisit, Exchange, FindUser, InsertAccount,
                MakeWorkspace, Check, Mint, StoreApproval
  <2>2. \A t \in DOMAIN tokens : t \in DOMAIN tokens' /\ tokens'[t] = tokens[t]
    BY <1>1, VisitTokensStay
  <2>3. /\ visit'[v].at \in {"away", "exchange", "find", "insert", "home", "check", "mint"} =>
              visit'[v].token = NoToken
        /\ visit'[v].at = "approve" => visit'[v].token # NoToken
        /\ visit'[v].token # NoToken =>
              /\ visit'[v].token \in DOMAIN tokens'
              /\ visit'[v].user = {tokens'[visit'[v].token]}
              /\ visit'[v].user \subseteq accounts'
    <3>1. CASE Mint(v)
      <4>1. /\ Account(v) \in People /\ visit[v].user = {Account(v)}
            /\ visit[v].user \subseteq accounts
            /\ tokens \in Seq(People) /\ tokens' = Append(tokens, Account(v))
        BY <3>1, VisitedAccount DEF Mint, At, LoginTypeOK, VisitsKnowTheirUser
      <4>2. Len(tokens) + 1 \in DOMAIN tokens' /\ tokens'[Len(tokens) + 1] = Account(v)
            /\ Len(tokens) + 1 # NoToken
        BY <4>1 DEF NoToken
      <4>3. /\ visit'[v].at = "approve" /\ visit'[v].token = Len(tokens) + 1
            /\ visit'[v].user = visit[v].user
        BY <3>1 DEF Mint, LoginTypeOK, VisitStates
      <4> QED  BY <2>1, <4>1, <4>2, <4>3
    <3>2. CASE ~ Mint(v)
      BY <1>1, <2>1, <2>2, <3>2, VisitMoves DEF Keeps, VisitsKnowTheirToken
    <3> QED  BY <3>1, <3>2
  <2>4. ASSUME NEW x \in Visits, x # v
        PROVE  /\ visit'[x].at \in {"away", "exchange", "find", "insert", "home", "check", "mint"} =>
                     visit'[x].token = NoToken
               /\ visit'[x].at = "approve" => visit'[x].token # NoToken
               /\ visit'[x].token # NoToken =>
                     /\ visit'[x].token \in DOMAIN tokens'
                     /\ visit'[x].user = {tokens'[visit'[x].token]}
                     /\ visit'[x].user \subseteq accounts'
    BY <1>1, <2>1, <2>2, <2>4, VisitsApart DEF VisitsKnowTheirToken
  <2> QED  BY <2>3, <2>4 DEF VisitsKnowTheirToken
<1>2. ASSUME NEW c \in Clients, ClientStep(c) \/ TimeOut(c) \/ CutPoll(c) PROVE VisitsKnowTheirToken'
  BY <1>2, ClientsApart DEF VisitsKnowTheirToken
<1>3. CASE HandleDeviceVerify \/ Deny \/ TenMinutesPass
  BY <1>3 DEF HandleDeviceVerify, Deny, TenMinutesPass, VisitsKnowTheirToken
<1> QED  BY <1>1, <1>2, <1>3 DEF LoginNext

(* A visit keeps the token it has made. *)
LEMMA MadeStays ==
    ASSUME LoginTypeOK, VisitsKnowTheirToken, LoginNext, NEW t, t # NoToken, t \in MadeTokens
    PROVE  t \in MadeTokens'
<1>1. PICK x \in Visits : visit[x].token = t
  BY DEF MadeTokens
<1>2. visit'[x].token = t
  <2>1. ASSUME NEW v \in Visits, VisitStep(v) \/ CutVisit(v) PROVE visit'[x].token = t
    BY <1>1, <2>1, VisitMoves, VisitsApart DEF Keeps, VisitsKnowTheirToken
  <2>2. ASSUME NEW c \in Clients, ClientStep(c) \/ TimeOut(c) \/ CutPoll(c) PROVE visit'[x].token = t
    BY <1>1, <2>2, ClientsApart
  <2>3. CASE HandleDeviceVerify \/ Deny \/ TenMinutesPass
    BY <1>1, <2>3 DEF HandleDeviceVerify, Deny, TenMinutesPass
  <2> QED  BY <2>1, <2>2, <2>3 DEF LoginNext
<1> QED  BY <1>2 DEF MadeTokens

LEMMA ComeFromVisitsStep ==
    ASSUME LoginTypeOK, VisitsKnowTheirToken, TokensComeFromVisits, LoginNext
    PROVE  TokensComeFromVisits'
<1>0. \A t : t # NoToken /\ t \in MadeTokens => t \in MadeTokens'
  BY MadeStays
<1>1. row'.plain # NoToken => row'.plain \in MadeTokens'
  <2>1. CASE row'.plain = row.plain \/ row'.plain = NoToken
    BY <1>0, <2>1 DEF TokensComeFromVisits
  <2>2. ASSUME NEW v \in Visits, row'.plain = visit[v].token PROVE row'.plain # NoToken => row'.plain \in MadeTokens'
    <3>1. visit[v].token \in MadeTokens
      BY DEF MadeTokens
    <3> QED  BY <1>0, <2>2, <3>1
  <2> QED  BY <2>1, <2>2, RowMoves
<1>2. ASSUME NEW c \in Clients
      PROVE  /\ client'[c].token # NoToken => client'[c].token \in MadeTokens'
             /\ client'[c].at = "in" => client'[c].token # NoToken
  <2>1. CASE client'[c].token = client[c].token /\ (client'[c].at = "in" => client[c].at = "in")
    BY <1>0, <2>1 DEF TokensComeFromVisits
  <2>2. CASE ClientStep(c) \/ TimeOut(c) \/ CutPoll(c)
    BY <1>0, <2>2, ClientMoves DEF TokensComeFromVisits
  <2>3. client'[c] = client[c] \/ ClientStep(c) \/ TimeOut(c) \/ CutPoll(c)
    BY VisitsApart, ClientsApart DEF LoginNext, HandleDeviceVerify, Deny, TenMinutesPass
  <2> QED  BY <2>1, <2>2, <2>3
<1> QED  BY <1>1, <1>2 DEF TokensComeFromVisits

-----------------------------------------------------------------------------
(* Users and their workspaces *)

LEMMA HomesStep ==
    ASSUME LoginTypeOK, VisitsKnowTheirUser, UsersGetHomes, LoginNext
    PROVE  UsersGetHomes'
<1>1. ASSUME NEW v \in Visits, VisitStep(v) \/ CutVisit(v), NEW u \in accounts'
      PROVE  \/ u \in members'
             \/ \E x \in Visits : visit'[x].user = {u} /\ visit'[x].at = "home"
             \/ losses' > 0
  <2>1. CASE InsertAccount(v)
    <3>1. Account(v) \in People /\ visit[v].user = {Account(v)}
      BY <2>1, VisitedAccount DEF InsertAccount, At
    <3>2. \/ u \in accounts
          \/ u = Account(v) /\ visit'[v].at = "home" /\ visit'[v].user = {u}
      BY <1>1, <2>1, <3>1 DEF InsertAccount, AfterInsert, VisitGoes, LoginTypeOK
    <3>3. \A x \in Visits : visit[x].at = "home" => visit'[x] = visit[x]
      BY <2>1 DEF InsertAccount, At, VisitGoes
    <3> QED  BY <2>1, <3>2, <3>3 DEF InsertAccount, At, UsersGetHomes
  <2>2. CASE MakeWorkspace(v)
    BY <1>1, <2>2 DEF MakeWorkspace, At, VisitGoes, UsersGetHomes, LoginTypeOK
  <2>3. CASE CutVisit(v)
    BY <2>3 DEF CutVisit, LoginTypeOK
  <2>4. CASE \/ Return(v) \/ ExpireByVisit(v) \/ Exchange(v) \/ FindUser(v)
            \/ Check(v) \/ Mint(v) \/ StoreApproval(v)
    <3>1. UNCHANGED <<accounts, members, losses>> /\ visit[v].at # "home"
      BY <2>4 DEF Return, ExpireByVisit, Exchange, FindUser, Check, Mint, StoreApproval, At
    <3>2. \A x \in Visits : visit[x].at = "home" => visit'[x] = visit[x]
      BY <1>1, <3>1, VisitsApart
    <3> QED  BY <1>1, <3>1, <3>2 DEF UsersGetHomes
  <2> QED  BY <1>1, <2>1, <2>2, <2>3, <2>4 DEF VisitStep
<1>2. ASSUME NEW c \in Clients, ClientStep(c) \/ TimeOut(c) \/ CutPoll(c) PROVE UsersGetHomes'
  <2>1. losses' >= losses /\ losses \in Nat /\ losses' \in Nat
    BY <1>2 DEF ClientStep, Poll, ExpireByPoll, TimeOut, Retrieve, Receive, CutPoll, LoginTypeOK
  <2> QED  BY <1>2, <2>1, ClientsApart DEF UsersGetHomes
<1>3. CASE HandleDeviceVerify \/ Deny \/ TenMinutesPass
  BY <1>3 DEF HandleDeviceVerify, Deny, TenMinutesPass, UsersGetHomes
<1> QED  BY <1>1, <1>2, <1>3 DEF LoginNext, UsersGetHomes

LEMMA LoginStart == LoginInit => LoginInv
<1> SUFFICES ASSUME LoginInit PROVE LoginInv
  OBVIOUS
<1>1. LoginTypeOK
  <2>1. row \in Rows
    BY DEF LoginInit, NewRow, NoToken, Rows
  <2>2. visit \in [Visits -> VisitStates]
    BY DEF LoginInit, NoToken, VisitStages, VisitStates
  <2>3. client \in [Clients -> ClientStates]
    BY DEF LoginInit, NoToken, ClientStages, ClientStates
  <2>4. tokens \in Seq(People) /\ given \in Seq([token : Nat, contested : BOOLEAN])
    BY DEF LoginInit
  <2> QED  BY <2>1, <2>2, <2>3, <2>4 DEF LoginInit, LoginTypeOK
<1> QED
  BY <1>1 DEF LoginInit, LoginInv, VisitsKnowTheirUser, VisitsKnowTheirToken, TokensComeFromVisits,
              UsersGetHomes, NewRow

LEMMA LoginStep == LoginInv /\ [LoginNext]_loginVars => LoginInv'
<1> SUFFICES ASSUME LoginInv, [LoginNext]_loginVars PROVE LoginInv'
  OBVIOUS
<1>1. CASE LoginNext
  BY <1>1, LoginTypeStep, UserKnownStep, TokenKnownStep, ComeFromVisitsStep, HomesStep DEF LoginInv
<1>2. CASE UNCHANGED loginVars
  BY <1>2 DEF loginVars, LoginInv, LoginTypeOK, VisitsKnowTheirUser, VisitsKnowTheirToken,
              TokensComeFromVisits, MadeTokens, UsersGetHomes
<1> QED  BY <1>1, <1>2

LEMMA LoginInvariant == LoginSpec => []LoginInv
  BY LoginStart, LoginStep, PTL DEF LoginSpec

(* The row, the tables and the requests in flight stay well typed.         *)
THEOREM DeviceLoginTypeCorrect == LoginSpec => []LoginTypeOK
<1>1. LoginInv => LoginTypeOK
  BY DEF LoginInv
<1> QED  BY <1>1, LoginInvariant, PTL

(* A client that is signed in holds a token of the account its browser     *)
(* signed in with, however many browsers answered for the same code, and   *)
(* the account has a workspace, or a visit about to make it, unless a      *)
(* request was lost.                                                       *)
THEOREM SignedInClientsWork == LoginSpec => []SignedInWorks
<1>1. LoginInv => SignedInWorks
  <2> SUFFICES ASSUME LoginInv, NEW c \in Clients, client[c].at = "in"
               PROVE  LET u == tokens[client[c].token] IN
                      /\ \E v \in Visits : visit[v].user = {u} /\ visit[v].token = client[c].token
                      /\ \/ u \in members
                         \/ \E v \in Visits : visit[v].user = {u} /\ visit[v].at = "home"
                         \/ losses > 0
    BY DEF SignedInWorks
  <2>1. PICK v \in Visits : visit[v].token = client[c].token /\ client[c].token # NoToken
    BY DEF LoginInv, TokensComeFromVisits, MadeTokens
  <2>2. visit[v].user = {tokens[client[c].token]} /\ tokens[client[c].token] \in accounts
    BY <2>1 DEF LoginInv, VisitsKnowTheirToken
  <2> QED  BY <2>1, <2>2 DEF LoginInv, UsersGetHomes
<1> QED  BY <1>1, LoginInvariant, PTL

-----------------------------------------------------------------------------
(* One token, once *)

(* Approving again, after a token was given, does not make the row         *)
(* retrievable again: the mark that it was retrieved stays.                *)
LEMMA RetrievedStays ==
    ASSUME LoginTypeOK, LoginNext, row.retrieved
    PROVE  row'.retrieved
  BY RowMoves

(* A poll that answers adds to what was given, and is contested if another *)
(* one has read the token too.                                             *)
LEMMA RetrieveOnce ==
    ASSUME OnceInv, NEW c \in Clients, Retrieve(c)
    PROVE  RetrievedOnce' /\ TokenGivenOnceUnlessContested'
<1> DEFINE contested == \E d \in Clients \ {c} : client[d].at = "answering"
           answer == [token |-> client[c].token, contested |-> contested]
<1>1. /\ given \in Seq([token : Nat, contested : BOOLEAN])
      /\ given' = Append(given, answer)
      /\ answer \in [token : Nat, contested : BOOLEAN]
  <2>1. contested \in BOOLEAN /\ client[c].token \in Nat
    BY Fields DEF OnceInv
  <2>2. answer \in [token : Nat, contested : BOOLEAN]
    BY <2>1
  <2> QED  BY <2>2 DEF OnceInv, LoginTypeOK, Retrieve
<1>2. /\ Len(given') = Len(given) + 1 /\ given'[Len(given) + 1] = answer
      /\ \A i \in DOMAIN given : i \in DOMAIN given' /\ given'[i] = given[i]
      /\ Len(given) + 1 \in DOMAIN given'
  BY <1>1
<1>3. row'.retrieved
  BY DEF OnceInv, LoginTypeOK, Retrieve, MarkRetrieved, Rows
<1>4. Contested \/ contested => Contested'
  BY <1>2 DEF Contested
<1>5. ASSUME NEW d \in Clients, client'[d].at = "answering" PROVE Contested'
  <2>1. d # c /\ client[d].at = "answering"
    BY <1>5 DEF OnceInv, LoginTypeOK, Retrieve
  <2> QED  BY <1>4, <2>1
<1>6. Len(given') <= 1 \/ Contested'
  <2>1. given = <<>> \/ Contested
    BY DEF OnceInv, RetrievedOnce, Retrieve
  <2>2. given = <<>> => Len(given') <= 1
    BY <1>2
  <2> QED  BY <1>4, <2>1, <2>2
<1> QED  BY <1>3, <1>5, <1>6 DEF RetrievedOnce, TokenGivenOnceUnlessContested, Contested

LEMMA OnceStep == OnceInv /\ LoginInv /\ [LoginNext]_loginVars => OnceInv'
<1>0. LoginInv /\ [LoginNext]_loginVars => LoginTypeOK'
  BY LoginStep DEF LoginInv
<1> SUFFICES ASSUME OnceInv, LoginInv, [LoginNext]_loginVars
             PROVE  RetrievedOnce' /\ TokenGivenOnceUnlessContested'
  BY <1>0 DEF OnceInv
<1>1. CASE \E c \in Clients : Retrieve(c)
  BY <1>1, RetrieveOnce
<1>2. ASSUME given' = given, row.retrieved => row'.retrieved,
             \A c \in Clients : client'[c].at = "answering" =>
                 client[c].at = "answering" \/ ~ row.retrieved
      PROVE  RetrievedOnce' /\ TokenGivenOnceUnlessContested'
  BY <1>2 DEF OnceInv, RetrievedOnce, TokenGivenOnceUnlessContested, Contested
<1>3. ASSUME NEW v \in Visits, VisitStep(v) \/ CutVisit(v)
      PROVE  RetrievedOnce' /\ TokenGivenOnceUnlessContested'
  <2>1. LoginNext /\ LoginTypeOK
    BY <1>3 DEF LoginNext, OnceInv
  <2> QED  BY <1>2, <1>3, <2>1, RetrievedStays, VisitsApart
<1>4. ASSUME NEW c \in Clients,
             Poll(c) \/ ExpireByPoll(c) \/ TimeOut(c) \/ Receive(c) \/ CutPoll(c)
      PROVE  RetrievedOnce' /\ TokenGivenOnceUnlessContested'
  <2>1. LoginNext /\ LoginTypeOK /\ given' = given
    BY <1>4 DEF LoginNext, ClientStep, OnceInv, Poll, ExpireByPoll, TimeOut, Receive, CutPoll
  <2>2. ASSUME NEW d \in Clients, client'[d].at = "answering"
        PROVE  client[d].at = "answering" \/ ~ row.retrieved
    BY <1>4, <2>1, <2>2, ClientMoves, ClientsApart DEF ClientStep
  <2> QED  BY <1>2, <2>1, <2>2, RetrievedStays
<1>5. CASE HandleDeviceVerify \/ Deny \/ TenMinutesPass
  BY <1>2, <1>5, RetrievedStays DEF HandleDeviceVerify, Deny, TenMinutesPass, OnceInv, LoginNext
<1>6. CASE UNCHANGED loginVars
  BY <1>2, <1>6 DEF loginVars
<1> QED  BY <1>1, <1>3, <1>4, <1>5, <1>6 DEF LoginNext, ClientStep

(* A device code gives out one token and gives it out once, however often  *)
(* it is approved, denied and polled -- unless two polls have both read    *)
(* the row before either has cleared the token.                            *)
THEOREM TokensGivenOnce == LoginSpec => []TokenGivenOnceUnlessContested
<1>1. LoginInit => OnceInv
  <2> SUFFICES ASSUME LoginInit PROVE OnceInv
    OBVIOUS
  <2>1. LoginTypeOK
    BY LoginStart DEF LoginInv
  <2> QED  BY <2>1 DEF LoginInit, OnceInv, RetrievedOnce, TokenGivenOnceUnlessContested
<1>2. OnceInv => TokenGivenOnceUnlessContested
  BY DEF OnceInv
<1> QED  BY <1>1, <1>2, OnceStep, LoginInvariant, PTL DEF LoginSpec

=============================================================================
