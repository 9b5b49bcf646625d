---------------------------- MODULE DeviceLogin ----------------------------
(***************************************************************************)
(* Signing in a client that has no browser of its own, or opens one beside *)
(* itself: the device authorization (modules/auth), the browser that comes *)
(* back from GitHub, and the client that polls (the login command of the   *)
(* command line, loginWithGithub of the web page).                         *)
(*                                                                         *)
(* One device code: codes share nothing but the tables of users and        *)
(* tokens.  Its browser may be sent through GitHub more than once and with *)
(* different accounts (Visits); each visit is a request that can stop, or  *)
(* be lost, between two statements.  More than one client may hold the     *)
(* code, but a client never has two polls out at once.                     *)
(***************************************************************************)
EXTENDS Naturals, Sequences, FiniteSets

CONSTANTS
    People,       \* GitHub accounts, by e-mail address
    Visits,       \* browsers coming back from GitHub
    Clients,      \* clients that poll with the device code
    MaxLosses     \* visits and polls lost or failing half-way (bound)

VARIABLES
    row,          \* the device_authorizations row
    late,         \* its ten minutes are over
    page,         \* its device page is open in a browser, with the buttons
    accounts,     \* users
    members,      \* users that are a member of a workspace
    tokens,       \* access_tokens: the owner of each
    visit,        \* the visits: stage, account, token
    client,       \* the clients: stage, what the poll has read, the token kept
    given,        \* tokens answered to polls, in order (history)
    losses

loginVars == <<row, late, page, accounts, members, tokens, visit, client, given, losses>>

NoToken == 0

VisitStages == {"away", "exchange", "find", "insert", "home", "check", "mint", "approve",
                "expire", "welcomed", "turned_away"}
ClientStages == {"ready", "answering", "expiring", "waiting", "in", "failed", "timed_out"}

-----------------------------------------------------------------------------
(* Faulty variants: each breaks a property in place of the definition      *)
(* whose name begins its own.                                              *)

ApproveAsFreshToken(u, t) ==
    [row EXCEPT !.status = "approved", !.user = {u}, !.token = t, !.plain = t,
                !.retrieved = FALSE]

AnswerToLateAsDenied(r) ==
    IF r.status = "pending" THEN "pending"
    ELSE IF r.status # "approved" \/ late THEN "denied" ELSE "complete"

AfterInsertWithoutHome(u) == IF u \in accounts THEN "turned_away" ELSE "check"

TimeOutOnExpiredAnswer(c) ==
    /\ client[c].at = "ready" /\ client[c].answer = "expired"
    /\ client' = [client EXCEPT ![c].at = "timed_out"]
    /\ UNCHANGED <<row, late, page, accounts, members, tokens, visit, given, losses>>

-----------------------------------------------------------------------------

NewRow == [status |-> "pending", user |-> {}, token |-> NoToken,
           plain |-> NoToken, retrieved |-> FALSE]

(* A login has been started: the row is there, and the client has the code *)
(* and the address to send a browser to.                                   *)
LoginInit ==
    /\ row = NewRow
    /\ late = FALSE
    /\ page = FALSE
    /\ accounts = {} /\ members = {}
    /\ tokens = <<>>
    /\ visit = [v \in Visits |-> [at |-> "away", user |-> {}, token |-> NoToken]]
    /\ client = [c \in Clients |-> [at |-> "ready", answer |-> "none", token |-> NoToken]]
    /\ given = <<>>
    /\ losses = 0

(* An overdue row is marked expired by a statement of its own, which no    *)
(* longer looks at the row: it may overwrite an approval stored since.     *)
Overdue == late /\ row.status = "pending"

Expire == row' = [row EXCEPT !.status = "expired"]

VisitGoes(v, stage) == visit' = [visit EXCEPT ![v].at = stage]

At(v, stage) == visit[v].at = stage /\ UNCHANGED <<late, page, client, given, losses>>

-----------------------------------------------------------------------------
(* The callback of GitHub (or of the mock that stands in for it)           *)

AfterRead(next) ==
    IF Overdue THEN "expire" ELSE IF row.status = "pending" THEN next ELSE "turned_away"

(* The row is looked up by the state GitHub sends back. *)
Return(v) ==
    /\ At(v, "away")
    /\ VisitGoes(v, AfterRead("exchange"))
    /\ UNCHANGED <<row, accounts, members, tokens>>

(* The visit has found it overdue. *)
ExpireByVisit(v) ==
    /\ At(v, "expire")
    /\ Expire
    /\ VisitGoes(v, "turned_away")
    /\ UNCHANGED <<accounts, members, tokens>>

(* GitHub gives the account's address, or the sign-in ends here. *)
Exchange(v) ==
    /\ At(v, "exchange")
    /\ \/ \E u \in People :
              visit' = [visit EXCEPT ![v].at = "find", ![v].user = {u}]
       \/ VisitGoes(v, "turned_away")
    /\ UNCHANGED <<row, accounts, members, tokens>>

Account(v) == CHOOSE u \in People : visit[v].user = {u}

AfterFind(u) == IF u \in accounts THEN "check" ELSE "insert"

FindUser(v) ==
    /\ At(v, "find")
    /\ VisitGoes(v, AfterFind(Account(v)))
    /\ UNCHANGED <<row, accounts, members, tokens>>

(* users.email is unique: of two visits of a newcomer one fails. *)
AfterInsert(u) == IF u \in accounts THEN "turned_away" ELSE "home"

InsertAccount(v) ==
    /\ At(v, "insert")
    /\ accounts' = accounts \cup visit[v].user
    /\ VisitGoes(v, AfterInsert(Account(v)))
    /\ UNCHANGED <<row, members, tokens>>

(* The workspace and the membership. *)
MakeWorkspace(v) ==
    /\ At(v, "home")
    /\ members' = members \cup visit[v].user
    /\ VisitGoes(v, "check")
    /\ UNCHANGED <<row, accounts, tokens>>

(* approveDeviceAuthorization reads the row again, *)
Check(v) ==
    /\ At(v, "check")
    /\ VisitGoes(v, AfterRead("mint"))
    /\ UNCHANGED <<row, accounts, members, tokens>>

(* makes an access token, *)
Mint(v) ==
    /\ At(v, "mint")
    /\ tokens' = Append(tokens, Account(v))
    /\ visit' = [visit EXCEPT ![v].at = "approve", ![v].token = Len(tokens) + 1]
    /\ UNCHANGED <<row, accounts, members>>

(* and stores it, whatever the row has become: retrieved stays as it was. *)
Approve(u, t) ==
    [row EXCEPT !.status = "approved", !.user = {u}, !.token = t, !.plain = t]

StoreApproval(v) ==
    /\ At(v, "approve")
    /\ row' = Approve(Account(v), visit[v].token)
    /\ VisitGoes(v, "welcomed")
    /\ UNCHANGED <<accounts, members, tokens>>

(* The device page: it shows its buttons to whoever opens it in time and   *)
(* before anyone has answered,                                             *)
ShowsButtons == row.status = "pending" /\ ~ late

HandleDeviceVerify ==
    /\ ~ page /\ ShowsButtons
    /\ page' = TRUE
    /\ UNCHANGED <<row, late, accounts, members, tokens, visit, client, given, losses>>

(* and its button to deny looks at nothing.  The other one does nothing.   *)
Deny ==
    /\ page
    /\ row' = [row EXCEPT !.status = "denied"]
    /\ UNCHANGED <<late, page, accounts, members, tokens, visit, client, given, losses>>

-----------------------------------------------------------------------------
(* The client                                                              *)

(* What a poll makes of the row; a row that another request has marked     *)
(* expired counts as pending.                                              *)
AnswerTo(r) ==
    IF r.status = "denied" THEN "denied"
    ELSE IF r.status # "approved" THEN "pending" ELSE "complete"

Retrievable(r) == r.plain # NoToken /\ ~ r.retrieved

(* A poll reads the row: it may be overdue, or hold a token to be fetched. *)
Poll(c) ==
    /\ client[c].at = "ready"
    /\ LET answer == IF Overdue THEN "expired" ELSE AnswerTo(row)
           fetch == answer = "complete" /\ Retrievable(row)
       IN  client' = [client EXCEPT
               ![c].at = IF Overdue THEN "expiring" ELSE IF fetch THEN "answering" ELSE "waiting",
               ![c].answer = answer,
               ![c].token = IF fetch THEN row.plain ELSE NoToken]
    /\ UNCHANGED <<row, late, page, accounts, members, tokens, visit, given, losses>>

(* The client looks at its own clock before each poll: any time it does    *)
(* may be the first after its deadline.                                    *)
TimeOut(c) ==
    /\ client[c].at = "ready"
    /\ client' = [client EXCEPT ![c].at = "timed_out"]
    /\ UNCHANGED <<row, late, page, accounts, members, tokens, visit, given, losses>>

ExpireByPoll(c) ==
    /\ client[c].at = "expiring"
    /\ Expire
    /\ client' = [client EXCEPT ![c].at = "waiting"]
    /\ UNCHANGED <<late, page, accounts, members, tokens, visit, given, losses>>

MarkRetrieved == [row EXCEPT !.plain = NoToken, !.retrieved = TRUE]

(* The poll clears the stored token and answers the one it has read.       *)
(* contested: another poll has read it too and not cleared it yet.         *)
Retrieve(c) ==
    /\ client[c].at = "answering"
    /\ row' = MarkRetrieved
    /\ LET contested == \E d \in Clients \ {c} : client[d].at = "answering"
       IN  given' = Append(given, [token |-> client[c].token, contested |-> contested])
    /\ client' = [client EXCEPT ![c].at = "waiting"]
    /\ UNCHANGED <<late, page, accounts, members, tokens, visit, losses>>

(* The answer arrives: pending is asked again. *)
Receive(c) ==
    /\ client[c].at = "waiting"
    /\ client' = [client EXCEPT ![c].at =
           IF client[c].answer = "pending" THEN "ready"
           ELSE IF client[c].answer = "complete" /\ client[c].token # NoToken
                THEN "in" ELSE "failed"]
    /\ UNCHANGED <<row, late, page, accounts, members, tokens, visit, given, losses>>

-----------------------------------------------------------------------------

(* A visit is lost, or a statement of it throws. *)
CutVisit(v) ==
    /\ visit[v].at \notin {"away", "welcomed", "turned_away"}
    /\ losses < MaxLosses
    /\ losses' = losses + 1
    /\ VisitGoes(v, "turned_away")
    /\ UNCHANGED <<row, late, page, accounts, members, tokens, client, given>>

(* A poll fails, or its answer is lost: both clients give the login up. *)
CutPoll(c) ==
    /\ client[c].at \in {"answering", "expiring", "waiting"}
    /\ losses < MaxLosses
    /\ losses' = losses + 1
    /\ client' = [client EXCEPT ![c].at = "failed", ![c].token = NoToken]
    /\ UNCHANGED <<row, late, page, accounts, members, tokens, visit, given>>

(* The ten minutes of the row. *)
TenMinutesPass ==
    /\ ~ late
    /\ late' = TRUE
    /\ UNCHANGED <<row, page, accounts, members, tokens, visit, client, given, losses>>

VisitStep(v) ==
    \/ Return(v) \/ ExpireByVisit(v) \/ Exchange(v) \/ FindUser(v) \/ InsertAccount(v) \/ MakeWorkspace(v)
    \/ Check(v) \/ Mint(v) \/ StoreApproval(v)

ClientStep(c) == Poll(c) \/ ExpireByPoll(c) \/ Retrieve(c) \/ Receive(c)

LoginNext ==
    \/ \E v \in Visits : VisitStep(v) \/ CutVisit(v)
    \/ \E c \in Clients : ClientStep(c) \/ TimeOut(c) \/ CutPoll(c)
    \/ HandleDeviceVerify \/ Deny
    \/ TenMinutesPass

LoginSpec == LoginInit /\ [][LoginNext]_loginVars

(* Clients run, and a client that keeps asking finds its deadline passed   *)
(* in the end; nobody has to come back from GitHub.                        *)
FairLoginSpec ==
    /\ LoginSpec
    /\ \A c \in Clients : WF_loginVars(ClientStep(c)) /\ SF_loginVars(TimeOut(c))

-----------------------------------------------------------------------------

(* Types of the tables and of the local states. *)
Rows ==
    [status : {"pending", "approved", "denied", "expired"}, user : SUBSET People,
     token : Nat, plain : Nat, retrieved : BOOLEAN]

VisitStates == [at : VisitStages, user : SUBSET People, token : Nat]

ClientStates ==
    [at : ClientStages, answer : {"none", "pending", "denied", "expired", "complete"},
     token : Nat]

LoginTypeOK ==
    /\ row \in Rows
    /\ late \in BOOLEAN /\ page \in BOOLEAN
    /\ accounts \subseteq People /\ members \subseteq People
    /\ tokens \in Seq(People)
    /\ visit \in [Visits -> VisitStates]
    /\ client \in [Clients -> ClientStates]
    /\ given \in Seq([token : Nat, contested : BOOLEAN])
    /\ losses \in Nat

(* "Returns access token exactly once via one-time retrieval"              *)
(* (device-authorizations.ts:229): a device code gives out one token, and  *)
(* gives it out once, however often the code is polled or approved, unless *)
(* two polls have both read the row before either has cleared the token.   *)
TokenGivenOnceUnlessContested ==
    Len(given) <= 1 \/ \E i \in DOMAIN given : given[i].contested

(* A client that is signed in can work: its token belongs to the user the  *)
(* browser signed in as, and that user has a workspace, without which the  *)
(* token opens nothing; or a visit that is on its way will make it, or has *)
(* been lost before it could.                                              *)
SignedInWorks ==
    \A c \in Clients :
        client[c].at = "in" =>
            LET u == tokens[client[c].token] IN
            /\ \E v \in Visits : visit[v].user = {u} /\ visit[v].token = client[c].token
            /\ \/ u \in members
               \/ \E v \in Visits : visit[v].user = {u} /\ visit[v].at = "home"
               \/ losses > 0

(* The browser is told "Approved!" while a client waits to ask again: a    *)
(* client gets in, however late the row is, unless this one's own deadline *)
(* passes first, a request is lost, or someone denies what has been        *)
(* approved -- and unless a request that read the row overdue before the   *)
(* approval was stored is still to mark it expired, which undoes it.       *)
AboutToExpire ==
    \/ \E v \in Visits : visit[v].at = "expire"
    \/ \E c \in Clients : client[c].at = "expiring"

ApprovedGetsIn ==
    \A c \in Clients :
        (/\ row.status = "approved" /\ Retrievable(row) /\ ~ AboutToExpire
         /\ client[c].at = "ready")
            ~> \/ \E d \in Clients : client[d].at = "in"
               \/ client[c].at = "timed_out"
               \/ losses > 0 \/ row.status = "denied"

(* No client asks for ever. *)
LoginEnds == \A c \in Clients : <>(client[c].at \in {"in", "failed", "timed_out"})

=============================================================================
