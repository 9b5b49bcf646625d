--------------------------- MODULE ServerSessions ---------------------------
(***************************************************************************)
(* The sessions of a workspace as its clients see them: their statuses,    *)
(* and what changes them apart from the client at work.                    *)
(***************************************************************************)
EXTENDS Naturals, FiniteSets

CONSTANTS
    Sessions,
    NoSession,
    Tasks,       \* requests a client may have under way at once
    NoTask,
    MaxClicks,   \* what the user does in the web client (bound)
    MaxCommands, \* and in the terminal (bound)
    MaxMishaps   \* answers lost, and prompts by another client (bound)

ASSUME ClientsAssumption == NoSession \notin Sessions /\ NoTask \notin Tasks

VARIABLES
    server,      \* the status of each session, "none" before it exists
    clicks,
    mishaps

serverVars == <<server, clicks, mishaps>>

Open == {"idle", "processing"}
Listed == {s \in Sessions : server[s] \in Open \cup {"closed"}}
Unmade == {s \in Sessions : server[s] = "none"}

(* A prompt for no session makes one.                                      *)
TakesPrompt(s) == server[s] \in {"none", "idle"}

(* A kill closes the session; an abort or a kill stops what it does.       *)
Stopped(s, as) ==
    server' = [server EXCEPT ![s] = IF as = "closed" \/ @ = "processing" THEN as ELSE @]

PromptEnds(s) ==
    /\ server[s] = "processing"
    /\ server' = [server EXCEPT ![s] = "idle"]
    /\ UNCHANGED <<clicks, mishaps>>

Mishap ==
    /\ mishaps < MaxMishaps
    /\ mishaps' = mishaps + 1
    /\ UNCHANGED clicks

OtherClientPrompts(s) ==
    /\ server[s] = "idle" /\ Mishap
    /\ server' = [server EXCEPT ![s] = "processing"]

=============================================================================
