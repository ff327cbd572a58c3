------------------------------ MODULE Sandboxes ------------------------------
(***************************************************************************)
(* Conversations and the sandboxes they share, as openhands-server keeps   *)
(* them with RUNTIME=process: a table of agent processes, which are        *)
(* restarted by whoever finds them dead (process_sandbox_service.py);      *)
(* conversations that start in a sandbox of their own or of others         *)
(* (live_status_app_conversation_service.py); and deletions, of which the  *)
(* last one takes the sandbox along (app_conversation_router.py).          *)
(*                                                                         *)
(* Ports, keys and the lock around their allocation are left out, and so   *)
(* are pausing and the health of a process that runs.                      *)
(***************************************************************************)
EXTENDS Naturals, FiniteSets

CONSTANTS
    Talks,          \* conversations
    NoTalk,
    Boxes,          \* sandboxes
    NoBox,
    Lookups,        \* requests that look for one sandbox
    MaxShared,      \* max_num_conversations_per_sandbox
    MaxActive,      \* _MAX_CONCURRENT_RESTARTS, 5 in the code
    MaxFaults       \* bound on deaths of processes and reboots

ASSUME SandboxAssumption ==
    /\ NoTalk \notin Talks /\ NoBox \notin Boxes
    /\ IsFiniteSet(Lookups)
    /\ MaxShared \in Nat /\ MaxActive \in Nat /\ MaxFaults \in Nat

VARIABLES
    table,       \* _processes, and what psutil says of each entry's pid
    workspace,   \* the sandboxes whose working_dir is on the disk
    persisted,   \*   with a .process_info.json
    lookup,      \* each request, and the restart it carries out
    restarting,  \* _restarting
    active,      \* _active_restart_count
    talk,        \* each conversation, with its start and its deletion
    hosted,      \* conversations an agent server keeps
    faults       \* of those so far

processVars == <<table, workspace, persisted>>
restartVars == <<lookup, restarting, active>>
talkVars == <<talk, hosted>>
sandboxVars == <<processVars, restartVars, talkVars, faults>>

(* up: the sandbox's process runs.  taken: another process has its pid.    *)
Entries == {"none", "up", "gone", "taken"}
LookupPhases == {"idle", "claimed", "spawned", "checking"}
TalkPhases == {"none", "creating", "spawning", "booting", "waking", "posted", "over"}
RemovalPhases == {"none", "begun", "deleting", "counting", "killing"}

(* The row of a conversation names its parent, if there is one; a stub, of *)
(* which the agent spoke before the server stored it, never does.          *)
Rows == {"none", "stub", "full"}

NoSearch == [at |-> "idle", box |-> NoBox]
Unborn == [start |-> "none", parent |-> NoTalk, box |-> NoBox, row |-> "none",
           hook |-> "none", removal |-> "none", shared |-> FALSE, along |-> {}]

SandboxInit ==
    /\ table = [s \in Boxes |-> "none"]
    /\ workspace = {} /\ persisted = {}
    /\ lookup = [l \in Lookups |-> NoSearch]
    /\ restarting = {}
    /\ active = 0
    /\ talk = [c \in Talks |-> Unborn]
    /\ hosted = {}
    /\ faults = 0

(* count_conversations_by_sandbox_id.                                      *)
Stored(s) == {c \in Talks : talk[c].row # "none" /\ talk[c].box = s}

(* get_sub_conversation_ids.                                               *)
Subs(c) == {x \in Talks : talk[x].row = "full" /\ talk[x].parent = c}

(***************************************************************************)
(* The table of processes                                                  *)
(***************************************************************************)
(* delete_sandbox, which never gives way to other requests.  A dead        *)
(* process that nobody waited for still has a pid; without one the         *)
(* directory is left.  Whoever has taken the pid is killed: if that is     *)
(* another sandbox's process, it is one of those that may Die at any time. *)
DeleteBox(s) ==
    \/ /\ table[s] = "none"
       /\ UNCHANGED <<processVars, hosted>>
    \/ /\ table[s] # "none"
       /\ table' = [table EXCEPT ![s] = "none"]
       /\ workspace' = workspace \ {s} /\ persisted' = persisted \ {s}
       /\ hosted' = {c \in hosted : talk[c].box # s}
    \/ /\ table[s] = "gone"
       /\ table' = [table EXCEPT ![s] = "none"]
       /\ UNCHANGED <<workspace, persisted, hosted>>

Fault == faults < MaxFaults /\ faults' = faults + 1

Die(s) ==
    /\ Fault
    /\ table[s] = "up"
    /\ table' = [table EXCEPT ![s] = "gone"]
    /\ UNCHANGED <<workspace, persisted, restartVars, talkVars>>

(* Some process gets the pid of a dead one, or ends.                       *)
PidReused(s) ==
    /\ \/ table[s] = "gone" /\ table' = [table EXCEPT ![s] = "taken"]
       \/ table[s] = "taken" /\ table' = [table EXCEPT ![s] = "gone"]
    /\ UNCHANGED <<workspace, persisted, restartVars, talkVars, faults>>

(* _load_process_infos: what was saved comes back, also of a sandbox that  *)
(* was deleted while it was dead.                                          *)
LoadTable ==
    table' = [s \in Boxes |-> IF s \in persisted THEN "gone" ELSE "none"]

(* __post_init__ loads the table whenever it is empty.                     *)
Reload ==
    /\ \A s \in Boxes : table[s] = "none"
    /\ LoadTable
    /\ UNCHANGED <<workspace, persisted, restartVars, talkVars, faults>>

(***************************************************************************)
(* _restart_sandbox, for a request that finds the process dead.  Requests  *)
(* that wait for another's restart, or come when there are too many,       *)
(* change nothing.                                                         *)
(***************************************************************************)
ClaimRestart(l, s) ==
    /\ lookup[l].at = "idle"
    /\ \E c \in Talks : talk[c].box = s
    /\ table[s] = "gone" /\ s \in workspace
    /\ s \notin restarting
    /\ active < MaxActive
    /\ lookup' = [lookup EXCEPT ![l] = [at |-> "claimed", box |-> s]]
    /\ restarting' = restarting \cup {s}
    /\ active' = active + 1
    /\ UNCHANGED <<processVars, talkVars, faults>>

(* The finally clause.                                                     *)
Finish(l) ==
    /\ lookup' = [lookup EXCEPT ![l] = NoSearch]
    /\ restarting' = restarting \ {lookup[l].box}
    /\ active' = active - 1

(* Mutation: the return for a missing specification comes before the try.  *)
GiveUpAtOnce(l) ==
    /\ lookup[l].at \in {"claimed", "spawned"}
    /\ lookup' = [lookup EXCEPT ![l] = NoSearch]
    /\ UNCHANGED <<restarting, active, processVars, talkVars, faults>>

(* The specification is gone, or the process does not start.               *)
GiveUpRestart(l) ==
    /\ lookup[l].at \in {"claimed", "spawned"}
    /\ Finish(l)
    /\ UNCHANGED <<processVars, talkVars, faults>>

(* A process whose directory is gone has nowhere to log.                   *)
SpawnAgain(l) ==
    /\ lookup[l].at = "claimed"
    /\ lookup[l].box \in workspace
    /\ lookup' = [lookup EXCEPT ![l].at = "spawned"]
    /\ UNCHANGED <<processVars, restarting, active, talkVars, faults>>

(* A second later, the entry is written, whether or not there still is one. *)
EnterAgain(l) ==
    /\ lookup[l].at = "spawned"
    /\ table' = [table EXCEPT ![lookup[l].box] = "up"]
    /\ persisted' = persisted \cup (workspace \cap {lookup[l].box})
    /\ lookup' = [lookup EXCEPT ![l].at = "checking"]
    /\ UNCHANGED <<workspace, restarting, active, talkVars, faults>>

RestartSucceeds(l) ==
    /\ lookup[l].at = "checking"
    /\ Finish(l)
    /\ UNCHANGED <<processVars, talkVars, faults>>

(* The new process is killed and the old entry put back.                   *)
RollBackRestart(l) ==
    /\ lookup[l].at = "checking"
    /\ table' = [table EXCEPT ![lookup[l].box] = "gone"]
    /\ Finish(l)
    /\ UNCHANGED <<workspace, persisted, talkVars, faults>>

(***************************************************************************)
(* A conversation starts (_wait_for_sandbox_start and what follows)        *)
(***************************************************************************)
StartMoves(c, from, to) ==
    talk[c].start = from /\ talk' = [talk EXCEPT ![c].start = to]

GoesTo(c, s, parent, phase) ==
    talk' = [talk EXCEPT ![c].start = phase, ![c].box = s, ![c].parent = parent]

(* start_sandbox with an identifier of its own.                            *)
StartAlone(c) ==
    /\ talk[c].start = "none"
    /\ \E s \in Boxes \ workspace :
        /\ table[s] = "none" /\ \A x \in Talks : talk[x].box # s
        /\ GoesTo(c, s, NoTalk, "creating")
    /\ UNCHANGED <<processVars, restartVars, hosted, faults>>

(* _find_running_sandbox_for_user, if the user groups conversations.       *)
StartGrouped(c) ==
    /\ talk[c].start = "none"
    /\ \E s \in Boxes :
        /\ table[s] = "up" /\ Cardinality(Stored(s)) < MaxShared
        /\ GoesTo(c, s, NoTalk, "waking")
    /\ UNCHANGED <<processVars, restartVars, hosted, faults>>

(* The request names the sandbox of another conversation: the command /new *)
(* that of the one it is given in, a sub-conversation its parent's.  A     *)
(* sandbox that is missing is started anew.                                *)
StartNamed(c) ==
    /\ talk[c].start = "none"
    /\ \E other \in Talks, parent \in Talks \cup {NoTalk} :
        /\ talk[other].row # "none" /\ parent \in {NoTalk, other}
        /\ LET s == talk[other].box
               missing == table[s] = "none" \/ (table[s] = "gone" /\ s \notin workspace)
           IN GoesTo(c, s, parent, IF missing THEN "creating" ELSE "waking")
    /\ UNCHANGED <<processVars, restartVars, hosted, faults>>

(* start_sandbox: the directory and the process; after a second the entry, *)
(* which is saved if the directory is still there; then the server must    *)
(* answer, or the sandbox is deleted.                                      *)
Spawn(c) ==
    /\ StartMoves(c, "creating", "spawning")
    /\ workspace' = workspace \cup {talk[c].box}
    /\ UNCHANGED <<table, persisted, restartVars, hosted, faults>>

Enter(c) ==
    /\ StartMoves(c, "spawning", "booting")
    /\ table' = [table EXCEPT ![talk[c].box] = "up"]
    /\ persisted' = persisted \cup (workspace \cap {talk[c].box})
    /\ UNCHANGED <<workspace, restartVars, hosted, faults>>

Booted(c) ==
    /\ StartMoves(c, "booting", "waking")
    /\ UNCHANGED <<processVars, restartVars, hosted, faults>>

BootFails(c) ==
    /\ StartMoves(c, "booting", "over")
    /\ DeleteBox(talk[c].box)
    /\ UNCHANGED <<restartVars, faults>>

(* When the sandbox runs (wait_for_sandbox_running, which changes nothing), *)
(* POST /api/conversations; the answer may be lost.                        *)
Post(c) ==
    /\ \E to \in {"posted", "over"} : StartMoves(c, "waking", to)
    /\ table[talk[c].box] = "up"
    /\ hosted' = hosted \cup {c}
    /\ UNCHANGED <<processVars, restartVars, faults>>

(* save_app_conversation_info commits.                                     *)
StoreTalk(c) ==
    /\ talk[c].start = "posted"
    /\ talk' = [talk EXCEPT ![c].start = "over", ![c].row = "full"]
    /\ UNCHANGED <<processVars, restartVars, hosted, faults>>

(* An error, a timeout, a failed request.                                  *)
AbandonStart(c) ==
    /\ \E from \in TalkPhases \ {"none", "booting", "over"} : StartMoves(c, from, "over")
    /\ UNCHANGED <<processVars, restartVars, hosted, faults>>

(* on_conversation_update: the agent reports a conversation, and the row   *)
(* that was read, or a stub, is written, whatever is there by now.         *)
ReportArrives(c) ==
    /\ c \in hosted /\ talk[c].hook = "none"
    /\ table[talk[c].box] = "up"
    /\ talk' = [talk EXCEPT ![c].hook = IF talk[c].row = "none" THEN "stub" ELSE talk[c].row]
    /\ UNCHANGED <<processVars, restartVars, hosted, faults>>

ReportSaved(c) ==
    /\ talk[c].hook # "none"
    /\ talk' = [talk EXCEPT ![c].hook = "none", ![c].row = talk[c].hook]
    /\ UNCHANGED <<processVars, restartVars, hosted, faults>>

(***************************************************************************)
(* A conversation is deleted (delete_app_conversation)                     *)
(***************************************************************************)
BeginRemoval(c) ==
    /\ talk[c].row # "none" /\ talk[c].removal = "none"
    /\ talk' = [talk EXCEPT ![c].removal = "begun",
                            ![c].shared = Cardinality(Stored(talk[c].box)) > 1]
    /\ UNCHANGED <<processVars, restartVars, hosted, faults>>

(* The sub-conversations are read, and the agent server is told, unless    *)
(* others use the sandbox; it may not hear.                                *)
TellAgent(c) ==
    /\ talk[c].removal = "begun"
    /\ LET told == IF talk[c].shared THEN Subs(c) ELSE Subs(c) \cup {c}
       IN /\ talk' = [talk EXCEPT ![c].removal = "deleting", ![c].along = Subs(c)]
          /\ \E heard \in {{}, told} :
                /\ table[talk[c].box] # "up" => heard = {}
                /\ hosted' = hosted \ heard
    /\ UNCHANGED <<processVars, restartVars, faults>>

(* One transaction deletes the rows; one that finds none answers 404.      *)
CommitRemoval(c) ==
    /\ talk[c].removal = "deleting" /\ talk[c].row # "none"
    /\ talk' = [x \in Talks |->
                    IF x = c THEN [talk[c] EXCEPT !.removal = "counting", !.row = "none",
                                                  !.along = {}]
                    ELSE IF x \in talk[c].along THEN [talk[x] EXCEPT !.row = "none"]
                    ELSE talk[x]]
    /\ UNCHANGED <<processVars, restartVars, hosted, faults>>

RefuseRemoval(c) ==
    /\ talk[c].removal \in {"begun", "deleting"}
    /\ talk' = [talk EXCEPT ![c].removal = "none", ![c].shared = FALSE, ![c].along = {}]
    /\ UNCHANGED <<processVars, restartVars, hosted, faults>>

(* Mutation: what was counted before the deletion decides.                 *)
CountLeftBefore(c) ==
    /\ talk[c].removal = "counting"
    /\ talk' = [talk EXCEPT ![c].removal = IF talk[c].shared THEN "none" ELSE "killing",
                            ![c].shared = FALSE]
    /\ UNCHANGED <<processVars, restartVars, hosted, faults>>

(* _finalize_sandbox_delete, in the background.                            *)
CountLeft(c) ==
    /\ talk[c].removal = "counting"
    /\ talk' = [talk EXCEPT ![c].removal =
                                IF Stored(talk[c].box) = {} THEN "killing" ELSE "none",
                            ![c].shared = FALSE]
    /\ UNCHANGED <<processVars, restartVars, hosted, faults>>

RemoveBox(c) ==
    /\ talk[c].removal = "killing"
    /\ talk' = [talk EXCEPT ![c].removal = "none"]
    /\ DeleteBox(talk[c].box)
    /\ UNCHANGED <<restartVars, faults>>

(***************************************************************************)
(* The container is started again: all processes and requests are gone     *)
(***************************************************************************)
Reboot ==
    /\ Fault
    /\ LoadTable
    /\ lookup' = [l \in Lookups |-> NoSearch]
    /\ restarting' = {} /\ active' = 0
    /\ talk' = [c \in Talks |->
                    [Unborn EXCEPT !.start = IF talk[c].start = "none" THEN "none" ELSE "over",
                                   !.parent = talk[c].parent, !.box = talk[c].box,
                                   !.row = talk[c].row]]
    /\ UNCHANGED <<workspace, persisted, hosted>>

StartStepOf(c) ==
    \/ StartAlone(c) \/ StartGrouped(c) \/ StartNamed(c)
    \/ Spawn(c) \/ Enter(c) \/ Booted(c) \/ BootFails(c)
    \/ Post(c) \/ StoreTalk(c) \/ AbandonStart(c)
    \/ ReportArrives(c) \/ ReportSaved(c)

RemovalStep(c) ==
    \/ BeginRemoval(c) \/ TellAgent(c) \/ CommitRemoval(c) \/ RefuseRemoval(c)
    \/ CountLeft(c) \/ RemoveBox(c)

RestartStep(l) ==
    \/ \E s \in Boxes : ClaimRestart(l, s)
    \/ GiveUpRestart(l) \/ SpawnAgain(l) \/ EnterAgain(l)
    \/ RestartSucceeds(l) \/ RollBackRestart(l)

SandboxNext ==
    \/ \E c \in Talks : StartStepOf(c) \/ RemovalStep(c)
    \/ \E l \in Lookups : RestartStep(l)
    \/ \E s \in Boxes : Die(s) \/ PidReused(s)
    \/ Reload
    \/ Reboot

SandboxSpec == SandboxInit /\ [][SandboxNext]_sandboxVars

(***************************************************************************)
(* Properties                                                              *)
(***************************************************************************)
(* The values of the variables.                                            *)
SandboxTypeOK ==
    /\ table \in [Boxes -> Entries]
    /\ workspace \subseteq Boxes /\ persisted \subseteq workspace
    /\ lookup \in [Lookups -> [at : LookupPhases, box : Boxes \cup {NoBox}]]
    /\ restarting \subseteq Boxes
    /\ active \in 0 .. MaxActive
    /\ talk \in [Talks -> [start : TalkPhases, parent : Talks \cup {NoTalk},
                           box : Boxes \cup {NoBox}, row : Rows, hook : Rows,
                           removal : RemovalPhases, shared : BOOLEAN,
                           along : SUBSET Talks]]
    /\ hosted \subseteq Talks
    /\ faults \in 0 .. MaxFaults

(* Whatever requests find which sandbox dead, and however their restarts   *)
(* end, no sandbox is restarted by two of them, and the counter and the    *)
(* set that keep others off are those of the restarts under way, so that   *)
(* none is kept off for ever.                                              *)
Restarters == {l \in Lookups : lookup[l].at # "idle"}
RestartsAreCounted ==
    /\ restarting = {lookup[l].box : l \in Restarters}
    /\ active = Cardinality(Restarters)
    /\ \A l, m \in Restarters : lookup[l].box = lookup[m].box => l = m

(* Whoever deletes the last conversations of a sandbox, in whatever order  *)
(* and with sub-conversations or without, and whatever starts in it        *)
(* meanwhile: as long as nothing dies, a sandbox that is in use or being   *)
(* finalized does not drop out of use without being deleted.               *)
Finalizing(s) == \E c \in Talks : talk[c].box = s /\ talk[c].removal \in {"counting", "killing"}
InCare(s) == Stored(s) # {} \/ Finalizing(s)
LastOneCleansUp ==
    [][faults' = faults => \A s \in Boxes : InCare(s) => InCare(s)' \/ table'[s] = "none"]_sandboxVars
=============================================================================
