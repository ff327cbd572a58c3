-------------------------- MODULE PendingMessages --------------------------
(***************************************************************************)
(* Messages a user sends to a conversation that is still starting.  The    *)
(* browser (useTaskPolling, the websocket context's sendMessage) queues    *)
(* what it cannot send; the app server (pending_message_router.py and      *)
(* pending_message_service.py) stores it; the background task of           *)
(* start_app_conversation delivers it, once, after the conversation became *)
(* READY.  One conversation and one page showing it.                       *)
(***************************************************************************)
EXTENDS Naturals, FiniteSets, Sequences

CONSTANTS
    Messages,       \* what the user types, in any order
    QueueLimit,     \* the router's limit, 10 in the code
    MaxRequests,    \* requests to queue a message in flight at once
    MaxDrops        \* bound on broken connections

ASSUME PendingAssumption ==
    /\ IsFiniteSet(Messages)
    /\ QueueLimit \in Nat \ {0}
    /\ MaxRequests \in Nat \ {0}
    /\ MaxDrops \in Nat

VARIABLES
    startTask,   \* the background task that starts the conversation
    batch,       \* the messages it read and has not posted yet
    message,     \* what became of each message
    created,     \* the queued messages by created_at
    inbox,       \* the user messages the agent received
    tried,       \* the messages the task has tried to post
    page,        \* the identifier in the page's URL
    link,        \* the page's websocket
    drops        \* connections broken so far

serverVars == <<startTask, batch, tried>>
pageVars == <<page, link, drops>>
pendingVars == <<serverVars, message, created, inbox, pageVars>>

(* A conversation is known as task-<hex>, by its hex identifier in the     *)
(* browser, and with hyphens (str of a UUID) to _process_pending_messages. *)
Keys == {"task", "hex", "hyphens"}

(* working: up to and including the READY status.  updating, reading,      *)
(* posting, deleting: the statements of _process_pending_messages.  lost:  *)
(* the server stopped.                                                     *)
StartPhases == {"working", "updating", "reading", "posting", "deleting",
                "done", "failed", "lost"}

(* draft: not sent.  sent: on the websocket.  counting, inserting: its     *)
(* request is at count_pending_messages or in add_message.  stored: a row  *)
(* of pending_messages under key.                                          *)
MessagePhases == {"draft", "sent", "received", "counting", "inserting",
                  "stored", "deleted", "refused", "dropped"}

PendingInit ==
    /\ startTask = [phase |-> "working", status |-> "WORKING"]
    /\ batch = {}
    /\ message = [m \in Messages |-> [at |-> "draft", key |-> "task"]]
    /\ created = <<>>
    /\ inbox = <<>>
    /\ tried = {}
    /\ page = "task"
    /\ link = "closed"
    /\ drops = 0

MessagesAt(at) == {m \in Messages : message[m].at = at}
StoredUnder(key) == {m \in MessagesAt("stored") : message[m].key = key}
InFlight == MessagesAt("counting") \cup MessagesAt("inserting")
(* m stands before n in s.                                                 *)
Before(s, m, n) == \E i, j \in DOMAIN s : i < j /\ s[i] = m /\ s[j] = n

MoveTo(m, at) == message' = [message EXCEPT ![m].at = at]

(***************************************************************************)
(* The page                                                                *)
(***************************************************************************)
(* A poll finds the task READY and the URL is replaced.                    *)
OpenConversation ==
    /\ page = "task"
    /\ startTask.status = "READY"
    /\ page' = "hex"
    /\ UNCHANGED <<serverVars, message, created, inbox, link, drops>>

(* No connection while the URL names a task: there is no conversation_url. *)
Connect ==
    /\ page = "hex"
    /\ link = "closed"
    /\ link' = "open"
    /\ UNCHANGED <<serverVars, message, created, inbox, page, drops>>

(* What was on the way is lost, whatever the agent had not received.       *)
Disconnect ==
    /\ link = "open"
    /\ drops < MaxDrops
    /\ link' = "closed"
    /\ drops' = drops + 1
    /\ message' = [m \in Messages |-> IF message[m].at = "sent"
                                      THEN [message[m] EXCEPT !.at = "dropped"]
                                      ELSE message[m]]
    /\ UNCHANGED <<serverVars, created, inbox, page>>

(* Mutation: the browser names the conversation the way the server does.   *)
QueueKeyWithHyphens(m) == IF page = "hex" THEN "hyphens" ELSE page

(* The identifier under which a message is queued: the one in the URL.     *)
QueueKey(m) == page

SendMessage(m) ==
    /\ message[m].at = "draft"
    /\ \/ link = "open" /\ MoveTo(m, "sent")
       \/ /\ link = "closed"
          /\ Cardinality(InFlight) < MaxRequests
          /\ message' = [message EXCEPT ![m] = [at |-> "counting", key |-> QueueKey(m)]]
    /\ UNCHANGED <<serverVars, created, inbox, pageVars>>

Received(m) ==
    /\ message[m].at = "sent"
    /\ MoveTo(m, "received")
    /\ inbox' = Append(inbox, m)
    /\ UNCHANGED <<serverVars, created, pageVars>>

(***************************************************************************)
(* POST /conversations/{id}/pending-messages                               *)
(***************************************************************************)
(* Mutation: nobody counts.                                                *)
CountWithoutLimit(m) ==
    /\ message[m].at = "counting"
    /\ MoveTo(m, "inserting")
    /\ created' = Append(created, m)
    /\ UNCHANGED <<serverVars, inbox, pageVars>>

(* The rows are counted, and add_message stamps the new one; 429 if full.  *)
CountPending(m) ==
    /\ message[m].at = "counting"
    /\ \/ /\ Cardinality(StoredUnder(message[m].key)) >= QueueLimit
          /\ MoveTo(m, "refused")
          /\ UNCHANGED created
       \/ /\ Cardinality(StoredUnder(message[m].key)) < QueueLimit
          /\ MoveTo(m, "inserting")
          /\ created' = Append(created, m)
    /\ UNCHANGED <<serverVars, inbox, pageVars>>

(* The row is inserted and committed.                                      *)
InsertPending(m) ==
    /\ message[m].at = "inserting"
    /\ MoveTo(m, "stored")
    /\ UNCHANGED <<serverVars, created, inbox, pageVars>>

(***************************************************************************)
(* start_app_conversation                                                  *)
(***************************************************************************)
StartingAt(phase) == startTask.phase = phase
StartGoes(phase) == startTask' = [startTask EXCEPT !.phase = phase]

(* Without a session key in the sandbox nobody looks at the queue.         *)
BecomeReady ==
    /\ StartingAt("working")
    /\ \E next \in {"updating", "done"} :
            startTask' = [phase |-> next, status |-> "READY"]
    /\ UNCHANGED <<batch, tried, message, created, inbox, pageVars>>

(* Mutation: the messages keep the identifier of the task.                 *)
UpdateNothing ==
    /\ StartingAt("updating")
    /\ StartGoes("reading")
    /\ UNCHANGED <<batch, tried, message, created, inbox, pageVars>>

(* The messages of task-<hex> become those of the conversation.            *)
UpdateConversationId ==
    /\ StartingAt("updating")
    /\ message' = [m \in Messages |-> IF m \in StoredUnder("task")
                                      THEN [message[m] EXCEPT !.key = "hyphens"]
                                      ELSE message[m]]
    /\ StartGoes("reading")
    /\ UNCHANGED <<batch, tried, created, inbox, pageVars>>

(* Nothing to deliver, nothing to delete.                                  *)
GetPending ==
    /\ StartingAt("reading")
    /\ batch' = StoredUnder("hyphens")
    /\ StartGoes(IF batch' = {} THEN "done" ELSE "posting")
    /\ UNCHANGED <<tried, message, created, inbox, pageVars>>

(* Mutation: a post that failed is made again.                             *)
RetryingPost(m) ==
    /\ StartingAt("posting")
    /\ m \in batch
    /\ \E arrived, failed \in BOOLEAN :
        /\ inbox' = IF arrived THEN Append(inbox, m) ELSE inbox
        /\ batch' = IF failed THEN batch ELSE batch \ {m}
    /\ tried' = tried \cup {m}
    /\ Len(inbox) < 4
    /\ UNCHANGED <<startTask, message, created, pageVars>>

(* Mutation: the rows come in no particular order.                         *)
PostAny(m) ==
    /\ StartingAt("posting")
    /\ m \in batch
    /\ \E arrived \in BOOLEAN :
            inbox' = IF arrived THEN Append(inbox, m) ELSE inbox
    /\ batch' = batch \ {m}
    /\ tried' = tried \cup {m}
    /\ UNCHANGED <<startTask, message, created, pageVars>>

(* One after the other, in the order of created_at.  A post that fails, or *)
(* whose answer is lost after the agent took it, is logged and forgotten.  *)
PostMessage(m) ==
    /\ StartingAt("posting")
    /\ m \in batch
    /\ \A n \in batch : ~Before(created, n, m)
    /\ \E arrived \in BOOLEAN :
            inbox' = IF arrived THEN Append(inbox, m) ELSE inbox
    /\ batch' = batch \ {m}
    /\ tried' = tried \cup {m}
    /\ UNCHANGED <<startTask, message, created, pageVars>>

AllPosted ==
    /\ StartingAt("posting")
    /\ batch = {}
    /\ StartGoes("deleting")
    /\ UNCHANGED <<batch, tried, message, created, inbox, pageVars>>

(* All rows of the conversation, whether they were read or not.            *)
DeletePending ==
    /\ StartingAt("deleting")
    /\ message' = [m \in Messages |-> IF m \in StoredUnder("hyphens")
                                      THEN [message[m] EXCEPT !.at = "deleted"]
                                      ELSE message[m]]
    /\ StartGoes("done")
    /\ UNCHANGED <<batch, tried, created, inbox, pageVars>>

(* An exception of a start, or of a statement after READY was published.   *)
StartFails ==
    /\ startTask.phase \in {"working", "updating", "reading", "deleting"}
    /\ startTask' = [phase |-> "failed", status |-> "ERROR"]
    /\ UNCHANGED <<batch, tried, message, created, inbox, pageVars>>

ServerStops ==
    /\ startTask.phase \in StartPhases \ {"done", "failed", "lost"}
    /\ StartGoes("lost")
    /\ UNCHANGED <<batch, tried, message, created, inbox, pageVars>>

PageStep ==
    \/ OpenConversation \/ Connect \/ Disconnect
    \/ \E m \in Messages : SendMessage(m) \/ Received(m)

QueueStep == \E m \in Messages : CountPending(m) \/ InsertPending(m)

StartStep ==
    \/ BecomeReady \/ UpdateConversationId \/ GetPending
    \/ \E m \in Messages : PostMessage(m)
    \/ AllPosted \/ DeletePending

PendingNext == PageStep \/ QueueStep \/ StartStep \/ StartFails \/ ServerStops

PendingSpec == PendingInit /\ [][PendingNext]_pendingVars

(* Requests are served, the background task runs on, the page polls and    *)
(* reconnects every three seconds.  Nobody has to type, fail or disconnect.*)
PendingFairness ==
    /\ WF_pendingVars(StartStep)
    /\ WF_pendingVars(QueueStep)
    /\ WF_pendingVars(OpenConversation \/ Connect)
    /\ WF_pendingVars(\E m \in Messages : Received(m))

FairPendingSpec == PendingSpec /\ PendingFairness

(***************************************************************************)
(* Properties                                                              *)
(***************************************************************************)
(* The values of the variables.                                            *)
PendingTypeOK ==
    /\ startTask \in [phase : StartPhases, status : {"WORKING", "READY", "ERROR"}]
    /\ batch \subseteq Messages
    /\ message \in [Messages -> [at : MessagePhases, key : Keys]]
    /\ created \in Seq(Messages)
    /\ inbox \in Seq(Messages)
    /\ tried \subseteq Messages
    /\ page \in {"task", "hex"}
    /\ link \in {"open", "closed"}
    /\ drops \in 0 .. MaxDrops

(* The delete takes every row of the conversation, also those inserted     *)
(* since they were read, yet a message disappears from the queue only      *)
(* after its post was tried: nothing is queued under the identifier with   *)
(* hyphens while the rows are posted.                                      *)
DeletedWereTried == \A m \in MessagesAt("deleted") : m \in tried

(* No message reaches the agent twice, though posts fail after they        *)
(* arrived, connections break and tasks are lost.                          *)
DeliveredOnce ==
    \A i, j \in DOMAIN inbox : i # j => inbox[i] # inbox[j]

(* Queued messages reach the agent in the order in which they were queued. *)
QueueOrderKept ==
    \A m, n \in Messages : Before(created, m, n) => ~Before(inbox, n, m)

(* The limit is tested before the insert: only requests in flight at the   *)
(* same time can exceed it, each by one.                                   *)
QueueBounded ==
    \A key \in Keys :
        Cardinality(StoredUnder(key)) + 1 =< QueueLimit + MaxRequests

(* A message that is in the queue when the start comes to deliver it is    *)
(* posted, unless the start fails or the server stops on the way.          *)
EarlyMessagesAreTried ==
    \A m \in Messages :
        (m \in StoredUnder("task") /\ StartingAt("updating"))
            ~> (m \in tried \/ startTask.phase \in {"failed", "lost"})

(* "Message will be delivered automatically when conversation becomes      *)
(* ready": what the code says of a message it queues.                      *)
QueuedAreDelivered ==
    \A m \in Messages :
        (message[m].at = "stored")
            ~> (m \in tried \/ startTask.phase \in {"failed", "lost"})
=============================================================================
