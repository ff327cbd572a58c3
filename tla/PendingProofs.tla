--------------------------- MODULE PendingProofs ---------------------------
(***************************************************************************)
(* What holds of the queue of pending messages for any number of messages, *)
(* any limit and any number of requests at once.                           *)
(***************************************************************************)
EXTENDS PendingMessages, FiniteSetTheorems, TLAPS

Queueing == {"inserting", "stored", "deleted"}
Stamped(m) == \E i \in DOMAIN created : created[i] = m

(* Only the start gives a message the identifier with hyphens.             *)
KeysFit ==
    \A m \in Messages : message[m].key = "hyphens" =>
        /\ message[m].at \in {"stored", "deleted"}
        /\ startTask.phase \notin {"working", "updating"}

(* What was read is in the queue until the start has tried it.             *)
BatchFits ==
    /\ batch \subseteq StoredUnder("hyphens")
    /\ batch \cap tried = {}
    /\ batch # {} => startTask.phase \in {"posting", "lost"}
    /\ tried # {} => startTask.phase \notin {"working", "updating", "reading"}
    /\ startTask.phase \in {"posting", "deleting"} =>
            StoredUnder("hyphens") \subseteq tried \cup batch

TriedWereQueued ==
    \A m \in tried : message[m].key = "hyphens"

StampedAreQueued ==
    \A m \in Messages : Stamped(m) => message[m].at \in Queueing

DeliveryInvariant ==
    /\ PendingTypeOK
    /\ KeysFit
    /\ BatchFits
    /\ TriedWereQueued
    /\ StampedAreQueued
    /\ DeletedWereTried

(* Nothing is queued at first.                                             *)
LEMMA DeliveryInitially == PendingInit => DeliveryInvariant
BY PendingAssumption
   DEF PendingInit, DeliveryInvariant, PendingTypeOK, KeysFit, BatchFits, TriedWereQueued,
       StampedAreQueued, DeletedWereTried, Stamped, StoredUnder, MessagesAt, StartPhases,
       MessagePhases, Keys

(* A message that moves on without entering or leaving the table, and      *)
(* without being stamped.                                                  *)
LEMMA MoveKeeps ==
    ASSUME DeliveryInvariant, NEW m \in Messages, NEW at \in MessagePhases,
           NEW key \in {"task", "hex"},
           message' = [message EXCEPT ![m] = [at |-> at, key |-> key]],
           message[m].key # "hyphens", at # "deleted",
           message[m].at \in Queueing => at \in Queueing,
           UNCHANGED <<serverVars, created>>,
           inbox' \in Seq(Messages), page' \in {"task", "hex"},
           link' \in {"open", "closed"}, drops' \in 0 .. MaxDrops
    PROVE  DeliveryInvariant'
<1> USE DEF DeliveryInvariant, PendingTypeOK, serverVars
<1>1. \A n \in Messages : message'[n] = IF n = m THEN [at |-> at, key |-> key]
                                                 ELSE message[n]
  OBVIOUS
<1>2. PendingTypeOK'
  BY DEF Keys
<1>3. StoredUnder("hyphens")' = StoredUnder("hyphens")
  BY <1>1 DEF StoredUnder, MessagesAt
<1>4. KeysFit' /\ TriedWereQueued'
  BY <1>1 DEF KeysFit, TriedWereQueued
<1>5. BatchFits'
  BY <1>3 DEF BatchFits
<1>6. StampedAreQueued'
  BY <1>1 DEF StampedAreQueued, Stamped
<1>7. DeletedWereTried'
  BY <1>1 DEF DeletedWereTried, MessagesAt
<1>. QED  BY <1>2, <1>4, <1>5, <1>6, <1>7
(* The same when only the phase of the message changes.                    *)
LEMMA MoveToKeeps ==
    ASSUME DeliveryInvariant, NEW m \in Messages, NEW at \in MessagePhases,
           MoveTo(m, at), at # "deleted",
           message[m].at \notin {"stored", "deleted"},
           message[m].at \in Queueing => at \in Queueing,
           UNCHANGED <<serverVars, created>>,
           inbox' \in Seq(Messages), page' \in {"task", "hex"},
           link' \in {"open", "closed"}, drops' \in 0 .. MaxDrops
    PROVE  DeliveryInvariant'
<1>1. message[m].key \in {"task", "hex"}
  BY DEF DeliveryInvariant, PendingTypeOK, KeysFit, Keys
<1>2. message' = [message EXCEPT ![m] = [at |-> at, key |-> message[m].key]]
  <2>1. message[m] \in [at : MessagePhases, key : Keys]
    BY DEF DeliveryInvariant, PendingTypeOK
  <2>2. [message[m] EXCEPT !.at = at] = [at |-> at, key |-> message[m].key]
    BY <2>1
  <2>. QED  BY <2>2, Zenon DEF MoveTo
<1>. QED  BY <1>1, <1>2, MoveKeeps

(* What the page does.                                                     *)
LEMMA PageKeeps == DeliveryInvariant /\ PageStep => DeliveryInvariant'
<1> SUFFICES ASSUME DeliveryInvariant, PageStep  PROVE DeliveryInvariant'
  OBVIOUS
<1>1. CASE OpenConversation \/ Connect
  BY <1>1
     DEF OpenConversation, Connect, serverVars, DeliveryInvariant, PendingTypeOK, KeysFit,
         BatchFits, TriedWereQueued, StampedAreQueued, DeletedWereTried, Stamped,
         StoredUnder, MessagesAt
<1>2. CASE Disconnect
  <2> USE DEF DeliveryInvariant, PendingTypeOK
  <2>1. /\ \A n \in Messages : message'[n] = IF message[n].at = "sent"
                                             THEN [message[n] EXCEPT !.at = "dropped"]
                                             ELSE message[n]
        /\ UNCHANGED <<startTask, batch, tried, created, inbox, page>>
        /\ message' \in [Messages -> [at : MessagePhases, key : Keys]]
        /\ link' = "closed" /\ drops' \in 0 .. MaxDrops
    BY <1>2, PendingAssumption DEF Disconnect, serverVars, MessagePhases
  <2>2. \A n \in Messages : /\ message'[n].key = message[n].key
                            /\ message'[n].at = IF message[n].at = "sent" THEN "dropped"
                                                ELSE message[n].at
    BY <2>1
  <2>3. PendingTypeOK'
    BY <2>1
  <2>4. StoredUnder("hyphens")' = StoredUnder("hyphens")
    BY <2>2 DEF StoredUnder, MessagesAt
  <2>5. KeysFit' /\ TriedWereQueued' /\ BatchFits'
    BY <2>1, <2>2, <2>4 DEF KeysFit, TriedWereQueued, BatchFits
  <2>6. StampedAreQueued'
    BY <2>1, <2>2 DEF StampedAreQueued, Stamped, Queueing
  <2>7. DeletedWereTried'
    BY <2>1, <2>2 DEF DeletedWereTried, MessagesAt
  <2>. QED  BY <2>3, <2>5, <2>6, <2>7
<1>3. ASSUME NEW m \in Messages, SendMessage(m)
      PROVE  DeliveryInvariant'
  <2>1. /\ message[m].at = "draft" /\ UNCHANGED <<serverVars, created, inbox, pageVars>>
        /\ message[m].key # "hyphens"
    BY <1>3 DEF SendMessage, DeliveryInvariant, KeysFit
  <2>2. /\ inbox' \in Seq(Messages) /\ page' \in {"task", "hex"}
        /\ link' \in {"open", "closed"} /\ drops' \in 0 .. MaxDrops
    BY <2>1 DEF DeliveryInvariant, PendingTypeOK, pageVars
  <2>3. CASE MoveTo(m, "sent")
    BY <2>1, <2>2, <2>3, MoveToKeeps DEF Queueing, MessagePhases
  <2>4. CASE message' = [message EXCEPT ![m] = [at |-> "counting", key |-> page]]
    <3>1. page \in {"task", "hex"}
      BY DEF DeliveryInvariant, PendingTypeOK
    <3>. QED  BY <2>1, <2>2, <2>4, <3>1, MoveKeeps DEF Queueing, MessagePhases
  <2>. QED  BY <1>3, <2>3, <2>4 DEF SendMessage, QueueKey
<1>4. ASSUME NEW m \in Messages, Received(m)
      PROVE  DeliveryInvariant'
  <2>1. /\ message[m].at = "sent" /\ UNCHANGED <<serverVars, created, pageVars>>
        /\ MoveTo(m, "received")
    BY <1>4 DEF Received
  <2>2. /\ inbox' \in Seq(Messages) /\ page' \in {"task", "hex"}
        /\ link' \in {"open", "closed"} /\ drops' \in 0 .. MaxDrops
    BY <1>4, <2>1 DEF DeliveryInvariant, PendingTypeOK, pageVars, Received
  <2>. QED  BY <2>1, <2>2, MoveToKeeps DEF Queueing, MessagePhases
<1>. QED  BY <1>1, <1>2, <1>3, <1>4 DEF PageStep

(* What a request to queue a message does.                                 *)
LEMMA QueueKeeps == DeliveryInvariant /\ QueueStep => DeliveryInvariant'
<1> SUFFICES ASSUME DeliveryInvariant, NEW m \in Messages,
                    CountPending(m) \/ InsertPending(m)
             PROVE  DeliveryInvariant'
  BY DEF QueueStep
<1>1. UNCHANGED <<serverVars, inbox, pageVars>>
  BY DEF CountPending, InsertPending
<1>2. /\ inbox' \in Seq(Messages) /\ page' \in {"task", "hex"}
      /\ link' \in {"open", "closed"} /\ drops' \in 0 .. MaxDrops
  BY <1>1 DEF DeliveryInvariant, PendingTypeOK, pageVars
<1>3. CASE InsertPending(m)
  BY <1>1, <1>2, <1>3, MoveToKeeps DEF InsertPending, Queueing, MessagePhases
<1>4. CASE message[m].at = "counting" /\ MoveTo(m, "refused") /\ UNCHANGED created
  BY <1>1, <1>2, <1>4, MoveToKeeps DEF Queueing, MessagePhases
<1>5. CASE /\ message[m].at = "counting" /\ MoveTo(m, "inserting")
           /\ created' = Append(created, m)
  <2> USE DEF DeliveryInvariant, PendingTypeOK
  <2>1. /\ message' \in [Messages -> [at : MessagePhases, key : Keys]]
        /\ \A n \in Messages : /\ message'[n].key = message[n].key
                               /\ message'[n].at = IF n = m THEN "inserting"
                                                   ELSE message[n].at
    BY <1>5 DEF MoveTo, MessagePhases
  <2>2. UNCHANGED <<startTask, batch, tried>>
    BY <1>1 DEF serverVars
  <2>3. PendingTypeOK'
    BY <1>2, <1>5, <2>1, <2>2
  <2>4. StoredUnder("hyphens")' = StoredUnder("hyphens")
    BY <1>5, <2>1 DEF StoredUnder, MessagesAt
  <2>5. KeysFit' /\ TriedWereQueued' /\ BatchFits'
    BY <1>5, <2>1, <2>2, <2>4 DEF KeysFit, TriedWereQueued, BatchFits
  <2>6. StampedAreQueued'
    <3>1. \A n \in Messages : Stamped(n)' => Stamped(n) \/ n = m
      BY <1>5 DEF Stamped
    <3>. QED  BY <2>1, <3>1 DEF StampedAreQueued, Queueing
  <2>7. DeletedWereTried'
    BY <2>1, <2>2 DEF DeletedWereTried, MessagesAt
  <2>. QED  BY <2>3, <2>5, <2>6, <2>7
<1>. QED  BY <1>3, <1>4, <1>5 DEF CountPending

(* What the start does until its rows are read.                            *)
LEMMA ReadingKeeps ==
    ASSUME DeliveryInvariant,
           BecomeReady \/ UpdateConversationId \/ GetPending \/ AllPosted
               \/ StartFails \/ ServerStops
    PROVE  DeliveryInvariant'
<1> USE DEF DeliveryInvariant, PendingTypeOK
<1>1. /\ UNCHANGED <<tried, created, inbox, page, link, drops>>
      /\ startTask' \in [phase : StartPhases, status : {"WORKING", "READY", "ERROR"}]
  BY DEF BecomeReady, UpdateConversationId, GetPending, AllPosted, StartFails, ServerStops,
         StartGoes, StartingAt, StartPhases, pageVars
<1>2. CASE UpdateConversationId
  <2>1. /\ message' \in [Messages -> [at : MessagePhases, key : Keys]]
        /\ \A n \in Messages : /\ message'[n].at = message[n].at
                               /\ message'[n].key = IF n \in StoredUnder("task")
                                                    THEN "hyphens" ELSE message[n].key
    BY <1>2 DEF UpdateConversationId, Keys
  <2>2. startTask.phase = "updating" /\ startTask'.phase = "reading" /\ batch' = batch
    BY <1>2 DEF UpdateConversationId, StartingAt, StartGoes
  <2>3. batch = {} /\ tried = {}
    BY <2>2 DEF BatchFits
  <2>4. PendingTypeOK'
    BY <1>1, <2>1, <2>2
  <2>5. KeysFit'
    BY <2>1, <2>2 DEF KeysFit, StoredUnder, MessagesAt
  <2>6. BatchFits' /\ TriedWereQueued'
    BY <1>1, <2>2, <2>3 DEF BatchFits, TriedWereQueued
  <2>7. StampedAreQueued'
    BY <1>1, <2>1 DEF StampedAreQueued, Stamped
  <2>8. DeletedWereTried'
    BY <1>1, <2>1 DEF DeletedWereTried, MessagesAt
  <2>. QED  BY <2>4, <2>5, <2>6, <2>7, <2>8
<1>3. CASE GetPending
  <2>1. /\ message' = message /\ startTask.phase = "reading"
        /\ batch' = StoredUnder("hyphens")
        /\ startTask'.phase = IF batch' = {} THEN "done" ELSE "posting"
    BY <1>3 DEF GetPending, StartingAt, StartGoes
  <2>2. tried = {}
    BY <2>1 DEF BatchFits
  <2>3. StoredUnder("hyphens")' = StoredUnder("hyphens")
    BY <2>1 DEF StoredUnder, MessagesAt
  <2>4. BatchFits'
    BY <1>1, <2>1, <2>2, <2>3 DEF BatchFits
  <2>5. StoredUnder("hyphens") \subseteq Messages
    BY DEF StoredUnder, MessagesAt
  <2>. QED
    BY <1>1, <2>1, <2>4, <2>5
       DEF KeysFit, TriedWereQueued, StampedAreQueued, Stamped, DeletedWereTried, MessagesAt
<1>4. CASE BecomeReady \/ AllPosted \/ StartFails \/ ServerStops
  <2>1. /\ message' = message /\ batch' = batch
        /\ \/ /\ startTask.phase = "working"
              /\ startTask'.phase \in {"updating", "done"}
           \/ startTask.phase = "posting" /\ batch = {} /\ startTask'.phase = "deleting"
           \/ startTask'.phase = "lost"
           \/ /\ startTask.phase \notin {"posting", "lost"}
              /\ startTask'.phase = "failed"
    BY <1>4 DEF BecomeReady, AllPosted, StartFails, ServerStops, StartGoes, StartingAt
  <2>2. StoredUnder("hyphens")' = StoredUnder("hyphens")
    BY <2>1 DEF StoredUnder, MessagesAt
  <2>3. BatchFits'
    <3>1. startTask.phase = "working" => tried = {} /\ batch = {}
      BY DEF BatchFits
    <3>. QED  BY <1>1, <2>1, <2>2, <3>1 DEF BatchFits
  <2>4. KeysFit'
    <3>1. startTask.phase = "working" => \A n \in Messages : message[n].key # "hyphens"
      BY DEF KeysFit
    <3>. QED  BY <2>1, <3>1 DEF KeysFit
  <2>. QED
    BY <1>1, <2>1, <2>3, <2>4
       DEF TriedWereQueued, StampedAreQueued, Stamped, DeletedWereTried, MessagesAt
<1>. QED  BY <1>2, <1>3, <1>4

(* A post, and the deletion that follows the last one.                     *)
LEMMA PostingKeeps ==
    ASSUME DeliveryInvariant,
           (\E m \in Messages : PostMessage(m)) \/ DeletePending
    PROVE  DeliveryInvariant'
<1> USE DEF DeliveryInvariant, PendingTypeOK
<1>1. ASSUME NEW m \in Messages, PostMessage(m)
      PROVE  DeliveryInvariant'
  <2>1. /\ startTask.phase = "posting" /\ m \in batch
        /\ batch' = batch \ {m} /\ tried' = tried \cup {m}
        /\ UNCHANGED <<startTask, message, created, page, link, drops>>
        /\ inbox' \in Seq(Messages)
    BY <1>1 DEF PostMessage, StartingAt, pageVars
  <2>2. StoredUnder("hyphens")' = StoredUnder("hyphens")
    BY <2>1 DEF StoredUnder, MessagesAt
  <2>3. BatchFits'
    BY <2>1, <2>2 DEF BatchFits
  <2>4. TriedWereQueued'
    BY <2>1 DEF TriedWereQueued, BatchFits, StoredUnder
  <2>. QED
    BY <2>1, <2>3, <2>4
       DEF KeysFit, StampedAreQueued, Stamped, DeletedWereTried, MessagesAt
<1>2. CASE DeletePending
  <2>1. /\ message' \in [Messages -> [at : MessagePhases, key : Keys]]
        /\ \A n \in Messages : /\ message'[n].key = message[n].key
                               /\ message'[n].at = IF n \in StoredUnder("hyphens")
                                                   THEN "deleted" ELSE message[n].at
    BY <1>2 DEF DeletePending, MessagePhases
  <2>2. /\ startTask.phase = "deleting" /\ startTask'.phase = "done"
        /\ startTask' \in [phase : StartPhases, status : {"WORKING", "READY", "ERROR"}]
        /\ UNCHANGED <<batch, tried, created, inbox, page, link, drops>>
    BY <1>2 DEF DeletePending, StartingAt, StartGoes, StartPhases, pageVars
  <2>3. batch = {} /\ StoredUnder("hyphens") \subseteq tried
    BY <2>2 DEF BatchFits
  <2>4. PendingTypeOK'
    BY <2>1, <2>2
  <2>5. KeysFit' /\ TriedWereQueued'
    BY <2>1, <2>2 DEF KeysFit, TriedWereQueued
  <2>6. BatchFits'
    BY <2>2, <2>3 DEF BatchFits
  <2>7. StampedAreQueued'
    BY <2>1, <2>2 DEF StampedAreQueued, Stamped, Queueing
  <2>8. DeletedWereTried'
    BY <2>1, <2>2, <2>3 DEF DeletedWereTried, MessagesAt
  <2>. QED  BY <2>4, <2>5, <2>6, <2>7, <2>8
<1>. QED  BY <1>1, <1>2

(* Every step keeps the invariant.                                         *)
LEMMA DeliveryStep ==
    DeliveryInvariant /\ [PendingNext]_pendingVars => DeliveryInvariant'
<1>1. ASSUME DeliveryInvariant, UNCHANGED pendingVars
      PROVE  DeliveryInvariant'
  BY <1>1
     DEF pendingVars, serverVars, pageVars, DeliveryInvariant, PendingTypeOK, KeysFit,
         BatchFits, TriedWereQueued, StampedAreQueued, DeletedWereTried, Stamped,
         StoredUnder, MessagesAt
<1>. QED
  BY <1>1, PageKeeps, QueueKeeps, ReadingKeeps, PostingKeeps DEF PendingNext, StartStep

(* The types, and where messages are by then, hold always.                 *)
THEOREM DeliveryCorrect == PendingSpec => []DeliveryInvariant
BY DeliveryInitially, DeliveryStep, PTL DEF PendingSpec

(* delete_messages_for_conversation takes no message away that was not     *)
(* posted, though it deletes whatever there is.                            *)
THEOREM DeletedOnlyAfterPost == PendingSpec => []DeletedWereTried
<1>1. DeliveryInvariant => DeletedWereTried
  BY DEF DeliveryInvariant
<1>. QED  BY <1>1, DeliveryCorrect, PTL

(***************************************************************************)
(* What the agent receives                                                 *)
(***************************************************************************)
(* A message the agent has came by the websocket or was posted.            *)
InboxFits ==
    \A i \in DOMAIN inbox :
        message[inbox[i]].at = "received" \/ inbox[i] \in tried

(* What was posted was stamped before what waits to be posted, and is in   *)
(* the agent's inbox in the order of the stamps.                           *)
PostedInOrder ==
    /\ \A m \in tried, n \in batch : ~Before(created, n, m)
    /\ \A i, j \in DOMAIN inbox :
            (i < j /\ inbox[i] \in tried /\ inbox[j] \in tried) =>
                ~Before(created, inbox[j], inbox[i])

InboxInvariant ==
    DeliveryInvariant /\ InboxFits /\ DeliveredOnce /\ PostedInOrder

(* Neither a message that was posted nor one that waits to be posted can   *)
(* be sent, received or stamped again.                                     *)
LEMMA QueuedAreQueued ==
    ASSUME DeliveryInvariant, NEW m \in tried \cup batch
    PROVE  m \in Messages /\ message[m].at \in {"stored", "deleted"}
BY DEF DeliveryInvariant, PendingTypeOK, KeysFit, BatchFits, TriedWereQueued, StoredUnder,
       MessagesAt

(* An inbox that grows by a message it does not have stays without         *)
(* duplicates.                                                             *)
LEMMA AppendKeepsOnce ==
    ASSUME inbox \in Seq(Messages), DeliveredOnce, NEW m \in Messages,
           \A i \in DOMAIN inbox : inbox[i] # m,
           inbox' = Append(inbox, m)
    PROVE  /\ DeliveredOnce'
           /\ DOMAIN inbox' = 1 .. Len(inbox) + 1
           /\ DOMAIN inbox = 1 .. Len(inbox)
           /\ \A i \in DOMAIN inbox : inbox'[i] = inbox[i]
           /\ inbox'[Len(inbox) + 1] = m
BY DEF DeliveredOnce

(* A step that leaves inbox, stamps and posts alone.                       *)
LEMMA InboxUntouched ==
    ASSUME InboxInvariant, DeliveryInvariant',
           UNCHANGED <<inbox, created, tried, batch>>,
           \A m \in Messages : message[m].at = "received" => message'[m].at = "received"
    PROVE  InboxInvariant'
<1>1. \A i \in DOMAIN inbox : inbox[i] \in Messages
  BY DEF InboxInvariant, DeliveryInvariant, PendingTypeOK
<1>2. InboxFits'
  BY <1>1 DEF InboxInvariant, InboxFits
<1>. QED  BY <1>2 DEF InboxInvariant, DeliveredOnce, PostedInOrder, Before

(* A message that comes by the websocket.                                  *)
LEMMA ReceivedKeepsInbox ==
    ASSUME InboxInvariant, DeliveryInvariant', NEW m \in Messages, Received(m)
    PROVE  InboxInvariant'
<1> USE DEF InboxInvariant
<1>1. /\ inbox \in Seq(Messages) /\ inbox' = Append(inbox, m)
      /\ message[m].at = "sent" /\ message'[m].at = "received"
      /\ \A n \in Messages \ {m} : message'[n] = message[n]
      /\ UNCHANGED <<created, tried, batch>>
  BY DEF Received, MoveTo, serverVars, DeliveryInvariant, PendingTypeOK
<1>2. m \notin tried \cup batch
  BY <1>1, QueuedAreQueued
<1>3. \A i \in DOMAIN inbox : inbox[i] # m /\ inbox[i] \in Messages
  BY <1>1, <1>2 DEF InboxFits
<1>4. InboxFits'
  BY <1>1, <1>3, AppendKeepsOnce DEF InboxFits
<1>5. PostedInOrder'
  BY <1>1, <1>2, <1>3, AppendKeepsOnce DEF PostedInOrder, Before
<1>. QED  BY <1>1, <1>3, <1>4, <1>5, AppendKeepsOnce

(* A post.                                                                 *)
LEMMA PostKeepsInbox ==
    ASSUME InboxInvariant, DeliveryInvariant', NEW m \in Messages, PostMessage(m)
    PROVE  InboxInvariant'
<1> USE DEF InboxInvariant
<1>1. /\ inbox \in Seq(Messages) /\ inbox' \in {inbox, Append(inbox, m)}
      /\ UNCHANGED <<message, created>>
      /\ m \in batch /\ tried' = tried \cup {m} /\ batch' = batch \ {m}
      /\ \A n \in batch : ~Before(created, n, m)
  BY DEF PostMessage, DeliveryInvariant, PendingTypeOK
<1>2. m \notin tried /\ message[m].at # "received"
  BY <1>1, QueuedAreQueued DEF DeliveryInvariant, BatchFits
<1>3. \A i \in DOMAIN inbox : inbox[i] # m
  BY <1>2 DEF InboxFits
<1>4. \A p \in tried', n \in batch' : ~Before(created, n, p)
  BY <1>1 DEF PostedInOrder, Before
<1>5. CASE inbox' = inbox
  <2>1. InboxFits' /\ DeliveredOnce'
    BY <1>1, <1>5 DEF InboxFits, DeliveredOnce
  <2>2. PostedInOrder'
    BY <1>1, <1>3, <1>4, <1>5 DEF PostedInOrder, Before
  <2>. QED  BY <2>1, <2>2
<1>6. CASE inbox' = Append(inbox, m)
  <2>1. /\ DeliveredOnce' /\ DOMAIN inbox' = 1 .. Len(inbox) + 1
        /\ DOMAIN inbox = 1 .. Len(inbox) /\ inbox'[Len(inbox) + 1] = m
        /\ \A i \in DOMAIN inbox : inbox'[i] = inbox[i]
    BY <1>1, <1>3, <1>6, AppendKeepsOnce
  <2>2. InboxFits'
    BY <1>1, <1>6, <2>1 DEF InboxFits
  <2>3. ASSUME NEW i \in DOMAIN inbox', NEW j \in DOMAIN inbox', i < j,
               inbox'[i] \in tried', inbox'[j] \in tried'
        PROVE  ~Before(created, inbox'[j], inbox'[i])
    <3>1. Len(inbox) \in Nat
      BY <1>1
    <3>2. i \in DOMAIN inbox /\ inbox'[i] = inbox[i] /\ inbox[i] \in tried
      BY <1>1, <1>3, <2>1, <2>3, <3>1
    <3>3. CASE j = Len(inbox) + 1
      <4>1. ~Before(created, m, inbox[i])
        BY <1>1, <3>2 DEF PostedInOrder
      <4>. QED  BY <1>1, <2>1, <3>2, <3>3, <4>1 DEF Before
    <3>4. CASE j \in DOMAIN inbox
      <4>1. inbox'[j] = inbox[j] /\ inbox[j] \in tried
        BY <1>1, <1>3, <2>1, <2>3, <3>4
      <4>2. ~Before(created, inbox[j], inbox[i])
        BY <2>3, <3>2, <3>4, <4>1 DEF PostedInOrder
      <4>. QED  BY <1>1, <3>2, <4>1, <4>2 DEF Before
    <3>. QED  BY <2>1, <3>1, <3>3, <3>4
  <2>4. PostedInOrder'
    <3>1. \A i, j \in DOMAIN inbox' :
            (i < j /\ inbox'[i] \in tried' /\ inbox'[j] \in tried') =>
                ~Before(created, inbox'[j], inbox'[i])
      BY <2>3
    <3>. QED  BY <1>1, <1>4, <3>1 DEF PostedInOrder, Before
  <2>. QED  BY <2>1, <2>2, <2>4
<1>. QED  BY <1>1, <1>5, <1>6

(* A message that enters the queue is stamped after all others.            *)
LEMMA CountKeepsInbox ==
    ASSUME InboxInvariant, DeliveryInvariant', NEW m \in Messages, CountPending(m)
    PROVE  InboxInvariant'
<1> USE DEF InboxInvariant
<1>1. /\ created \in Seq(Messages) /\ message[m].at = "counting"
      /\ UNCHANGED <<inbox, tried, batch>>
      /\ message' \in [Messages -> [at : MessagePhases, key : Keys]]
      /\ \A n \in Messages \ {m} : message'[n] = message[n]
      /\ created' = created \/ created' = Append(created, m)
  BY DEF CountPending, MoveTo, serverVars, DeliveryInvariant, PendingTypeOK
<1>2. m \notin tried \cup batch /\ \A i \in DOMAIN inbox : inbox[i] \in Messages
  BY <1>1, QueuedAreQueued DEF DeliveryInvariant, PendingTypeOK
<1>3. \A i \in DOMAIN inbox : inbox[i] # m
  BY <1>1, <1>2 DEF InboxFits
<1>4. InboxFits' /\ DeliveredOnce'
  BY <1>1, <1>2, <1>3 DEF InboxFits, DeliveredOnce
<1>5. ASSUME NEW x, NEW y, x # m, y # m, Before(created', x, y)
      PROVE  Before(created, x, y)
  <2>1. CASE created' = Append(created, m)
    <3>1. PICK i, j \in DOMAIN created' : i < j /\ created'[i] = x /\ created'[j] = y
      BY <1>5 DEF Before
    <3>2. /\ i \in DOMAIN created /\ created[i] = x
          /\ j \in DOMAIN created /\ created[j] = y
      BY <1>1, <1>5, <2>1, <3>1
    <3>. QED  BY <3>1, <3>2 DEF Before
  <2>. QED  BY <1>1, <1>5, <2>1
<1>6. PostedInOrder'
  <2>1. \A p \in tried, n \in batch : ~Before(created', n, p)
    BY <1>2, <1>5 DEF PostedInOrder
  <2>2. \A i, j \in DOMAIN inbox :
            (i < j /\ inbox[i] \in tried /\ inbox[j] \in tried) =>
                ~Before(created', inbox[j], inbox[i])
    BY <1>3, <1>5 DEF PostedInOrder
  <2>. QED  BY <1>1, <2>1, <2>2 DEF PostedInOrder, Before
<1>. QED  BY <1>4, <1>6

(* Until the rows are read nothing was posted.                             *)
LEMMA ReadKeepsInbox ==
    ASSUME InboxInvariant, DeliveryInvariant', GetPending
    PROVE  InboxInvariant'
<1> USE DEF InboxInvariant
<1>1. tried = {} /\ UNCHANGED <<inbox, tried, created, message>>
  BY DEF GetPending, StartingAt, DeliveryInvariant, BatchFits
<1>. QED  BY <1>1 DEF InboxFits, DeliveredOnce, PostedInOrder

(* Every step keeps what the inbox holds in order.                         *)
LEMMA InboxStep ==
    InboxInvariant /\ [PendingNext]_pendingVars => InboxInvariant'
<1> SUFFICES ASSUME InboxInvariant, [PendingNext]_pendingVars
             PROVE  InboxInvariant'
  OBVIOUS
<1>1. DeliveryInvariant'
  BY DeliveryStep DEF InboxInvariant
<1>2. message \in [Messages -> [at : MessagePhases, key : Keys]]
  BY DEF InboxInvariant, DeliveryInvariant, PendingTypeOK
<1>3. CASE OpenConversation \/ Connect \/ UNCHANGED pendingVars
  BY <1>1, <1>3, InboxUntouched
     DEF OpenConversation, Connect, serverVars, pageVars, pendingVars
<1>4. CASE Disconnect
  BY <1>1, <1>2, <1>4, InboxUntouched DEF Disconnect, serverVars
<1>5. ASSUME NEW m \in Messages, SendMessage(m) \/ InsertPending(m)
      PROVE  InboxInvariant'
  BY <1>1, <1>2, <1>5, InboxUntouched
     DEF SendMessage, InsertPending, MoveTo, serverVars
<1>6. CASE BecomeReady \/ AllPosted \/ StartFails \/ ServerStops
  BY <1>1, <1>6, InboxUntouched DEF BecomeReady, AllPosted, StartFails, ServerStops
<1>7. CASE UpdateConversationId
  BY <1>1, <1>2, <1>7, InboxUntouched DEF UpdateConversationId
<1>8. CASE DeletePending
  BY <1>1, <1>2, <1>8, InboxUntouched DEF DeletePending, StoredUnder, MessagesAt
<1>. QED
  BY <1>1, <1>3, <1>4, <1>5, <1>6, <1>7, <1>8, ReceivedKeepsInbox, PostKeepsInbox,
     CountKeepsInbox, ReadKeepsInbox
     DEF PendingNext, PageStep, QueueStep, StartStep

(* What the agent has of the queue is always in the order of the queue.    *)
THEOREM InboxCorrect == PendingSpec => []InboxInvariant
<1>1. PendingInit => InboxInvariant
  BY DeliveryInitially
     DEF PendingInit, InboxInvariant, InboxFits, DeliveredOnce, PostedInOrder
<1>. QED  BY <1>1, InboxStep, PTL DEF PendingSpec

(* The agent receives no message twice, though a post that failed may have *)
(* arrived.                                                                *)
THEOREM ReceivedOnce == PendingSpec => []DeliveredOnce
<1>1. InboxInvariant => DeliveredOnce
  BY DEF InboxInvariant
<1>. QED  BY <1>1, InboxCorrect, PTL

(* Messages the queue delivers arrive in the order they were queued, which *)
(* the rows' created_at keeps.                                             *)
THEOREM ReceivedInOrder == PendingSpec => []QueueOrderKept
<1>1. ASSUME InboxInvariant, NEW m \in Messages, NEW n \in Messages,
             Before(created, m, n), Before(inbox, n, m)
      PROVE  FALSE
  <2>1. message[m].at # "received" /\ message[n].at # "received"
    BY <1>1 DEF InboxInvariant, DeliveryInvariant, StampedAreQueued, Stamped, Before, Queueing
  <2>2. PICK i, j \in DOMAIN inbox : i < j /\ inbox[i] = n /\ inbox[j] = m
    BY <1>1 DEF Before
  <2>3. m \in tried /\ n \in tried
    BY <1>1, <2>1, <2>2 DEF InboxInvariant, InboxFits
  <2>. QED  BY <1>1, <2>2, <2>3 DEF InboxInvariant, PostedInOrder
<1>2. InboxInvariant => QueueOrderKept
  BY <1>1 DEF QueueOrderKept
<1>. QED  BY <1>2, InboxCorrect, PTL

(***************************************************************************)
(* How full the queue gets                                                 *)
(***************************************************************************)
(* The rows under an identifier, and those about to be inserted.           *)
Queued(key) == {m \in Messages : /\ message[m].at \in {"inserting", "stored"}
                                 /\ message[m].key = key}

(* The requests in flight are what the limit can be exceeded by.           *)
QueueFits ==
    /\ Cardinality(InFlight) =< MaxRequests
    /\ \A key \in Keys : Cardinality(Queued(key)) + 1 =< QueueLimit + MaxRequests

QueueInvariant == DeliveryInvariant /\ QueueFits

(* All these sets are finite, and a smaller set has fewer members.         *)
LEMMA SmallerFits ==
    ASSUME NEW T \in SUBSET Messages, NEW S \in SUBSET T
    PROVE  /\ IsFiniteSet(S) /\ IsFiniteSet(T)
           /\ Cardinality(S) \in Nat /\ Cardinality(T) \in Nat
           /\ Cardinality(S) =< Cardinality(T)
<1>1. IsFiniteSet(T)
  BY PendingAssumption, FS_Subset
<1>. QED  BY <1>1, FS_Subset, FS_CardinalityType

(* They are sets of messages, the rows among what is queued.               *)
LEMMA QueueSetsFinite ==
    /\ InFlight \in SUBSET Messages
    /\ \A key : Queued(key) \in SUBSET Messages /\ StoredUnder(key) \in SUBSET Queued(key)
BY DEF InFlight, MessagesAt, Queued, StoredUnder

(* A step after which no queue has more rows.                              *)
LEMMA QueueShrinks ==
    ASSUME QueueFits,
           InFlight' \subseteq InFlight,
           \A key \in Keys : \E old \in Keys : Queued(key)' \subseteq Queued(old)
    PROVE  QueueFits'
<1>1. Cardinality(InFlight') =< MaxRequests
  <2>1. Cardinality(InFlight') =< Cardinality(InFlight) /\ Cardinality(InFlight) \in Nat
        /\ Cardinality(InFlight') \in Nat
    BY QueueSetsFinite, SmallerFits
  <2>. QED  BY <2>1, PendingAssumption DEF QueueFits
<1>2. ASSUME NEW key \in Keys
      PROVE  Cardinality(Queued(key)') + 1 =< QueueLimit + MaxRequests
  <2>1. PICK old \in Keys : Queued(key)' \subseteq Queued(old)
    OBVIOUS
  <2>2. /\ Cardinality(Queued(key)') =< Cardinality(Queued(old))
        /\ Cardinality(Queued(key)') \in Nat /\ Cardinality(Queued(old)) \in Nat
    BY <2>1, QueueSetsFinite, SmallerFits
  <2>. QED  BY <2>2, PendingAssumption DEF QueueFits
<1>. QED  BY <1>1, <1>2 DEF QueueFits

(* A request that passed the limit.                                        *)
LEMMA CountKeepsFit ==
    ASSUME QueueInvariant, NEW m \in Messages, CountPending(m)
    PROVE  QueueFits'
<1>1. message \in [Messages -> [at : MessagePhases, key : Keys]]
  BY DEF QueueInvariant, DeliveryInvariant, PendingTypeOK
<1>2. CASE MoveTo(m, "refused")
  BY <1>1, <1>2, QueueShrinks
     DEF CountPending, MoveTo, QueueInvariant, InFlight, MessagesAt, Queued
<1>3. CASE /\ Cardinality(StoredUnder(message[m].key)) < QueueLimit
           /\ MoveTo(m, "inserting")
  <2>1. /\ message[m].at = "counting" /\ message'[m].at = "inserting"
        /\ message'[m].key = message[m].key
        /\ \A n \in Messages \ {m} : message'[n] = message[n]
    BY <1>1, <1>3 DEF CountPending, MoveTo
  <2>2. InFlight' = InFlight
    BY <2>1 DEF InFlight, MessagesAt
  <2>3. ASSUME NEW key \in Keys
        PROVE  Cardinality(Queued(key)') + 1 =< QueueLimit + MaxRequests
    <3>1. CASE key = message[m].key
      <4>1. Queued(key)' \subseteq StoredUnder(key) \cup InFlight
        BY <2>1 DEF Queued, StoredUnder, InFlight, MessagesAt
      <4>2. /\ IsFiniteSet(StoredUnder(key)) /\ IsFiniteSet(InFlight)
            /\ Cardinality(StoredUnder(key)) \in Nat /\ Cardinality(InFlight) \in Nat
        BY QueueSetsFinite, SmallerFits
      <4>3. StoredUnder(key) \cap InFlight \subseteq InFlight
            /\ StoredUnder(key) \cap InFlight \in SUBSET Messages
        BY QueueSetsFinite
      <4>4. Cardinality(StoredUnder(key) \cap InFlight) \in Nat
        BY <4>3, SmallerFits
      <4>5. Cardinality(StoredUnder(key) \cup InFlight) =
                Cardinality(StoredUnder(key)) + Cardinality(InFlight)
                    - Cardinality(StoredUnder(key) \cap InFlight)
        BY <4>2, FS_Union
      <4>6. StoredUnder(key) \cup InFlight \in SUBSET Messages
        BY QueueSetsFinite
      <4>7. /\ Cardinality(Queued(key)') =< Cardinality(StoredUnder(key) \cup InFlight)
            /\ Cardinality(Queued(key)') \in Nat
        BY <4>1, <4>6, SmallerFits
      <4>8. Cardinality(StoredUnder(key)) < QueueLimit /\ Cardinality(InFlight) =< MaxRequests
        BY <1>3, <3>1 DEF QueueInvariant, QueueFits
      <4>. QED  BY <4>2, <4>4, <4>5, <4>7, <4>8, PendingAssumption
    <3>2. CASE key # message[m].key
      <4>1. Queued(key)' = Queued(key)
        BY <2>1, <3>2 DEF Queued
      <4>. QED  BY <4>1 DEF QueueInvariant, QueueFits
    <3>. QED  BY <3>1, <3>2
  <2>. QED  BY <2>2, <2>3 DEF QueueInvariant, QueueFits
<1>. QED  BY <1>2, <1>3 DEF CountPending

(* A message that is queued, or sent.                                      *)
LEMMA SendKeepsFit ==
    ASSUME QueueInvariant, NEW m \in Messages, SendMessage(m)
    PROVE  QueueFits'
<1>1. message \in [Messages -> [at : MessagePhases, key : Keys]] /\ message[m].at = "draft"
  BY DEF QueueInvariant, DeliveryInvariant, PendingTypeOK, SendMessage
<1>2. /\ message'[m].at \in {"sent", "counting"}
      /\ message'[m].at = "counting" => Cardinality(InFlight) < MaxRequests
      /\ \A n \in Messages \ {m} : message'[n] = message[n]
  BY <1>1 DEF SendMessage, MoveTo
<1>3. \A key \in Keys : Queued(key)' = Queued(key)
  BY <1>1, <1>2 DEF Queued
<1>4. CASE message'[m].at = "sent"
  <2>1. InFlight' = InFlight
    BY <1>1, <1>2, <1>4 DEF InFlight, MessagesAt
  <2>. QED  BY <1>3, <2>1, QueueShrinks DEF QueueInvariant
<1>5. CASE message'[m].at = "counting"
  <2>1. InFlight' = InFlight \cup {m} /\ m \notin InFlight
    BY <1>1, <1>2, <1>5 DEF InFlight, MessagesAt
  <2>2. IsFiniteSet(InFlight) /\ Cardinality(InFlight) \in Nat
    BY QueueSetsFinite, SmallerFits
  <2>3. Cardinality(InFlight') = Cardinality(InFlight) + 1
    BY <2>1, <2>2, FS_AddElement
  <2>. QED
    BY <1>2, <1>3, <1>5, <2>2, <2>3, PendingAssumption DEF QueueInvariant, QueueFits
<1>. QED  BY <1>2, <1>4, <1>5

(* The queue of the task becomes that of the conversation, which is empty. *)
LEMMA UpdateKeepsFit ==
    ASSUME QueueInvariant, UpdateConversationId
    PROVE  QueueFits'
<1>1. /\ message \in [Messages -> [at : MessagePhases, key : Keys]]
      /\ \A m \in Messages : message[m].key # "hyphens"
  BY DEF QueueInvariant, DeliveryInvariant, PendingTypeOK, KeysFit, UpdateConversationId,
         StartingAt
<1>2. \A n \in Messages : /\ message'[n].at = message[n].at
                          /\ message'[n].key = IF n \in StoredUnder("task")
                                               THEN "hyphens" ELSE message[n].key
  BY <1>1 DEF UpdateConversationId
<1>3. InFlight' = InFlight
  BY <1>2 DEF InFlight, MessagesAt
<1>4. Queued("hyphens")' \subseteq Queued("task")
  BY <1>1, <1>2 DEF Queued, StoredUnder, MessagesAt
<1>5. \A key \in Keys \ {"hyphens"} : Queued(key)' \subseteq Queued(key)
  BY <1>2 DEF Queued
<1>. QED  BY <1>3, <1>4, <1>5, QueueShrinks DEF Keys, QueueInvariant

(* Every step keeps the bound.                                             *)
LEMMA QueueFitsStep ==
    QueueInvariant /\ [PendingNext]_pendingVars => QueueInvariant'
<1> SUFFICES ASSUME QueueInvariant, [PendingNext]_pendingVars
             PROVE  QueueInvariant'
  OBVIOUS
<1>1. DeliveryInvariant'
  BY DeliveryStep DEF QueueInvariant
<1>2. message \in [Messages -> [at : MessagePhases, key : Keys]] /\ QueueFits
  BY DEF QueueInvariant, DeliveryInvariant, PendingTypeOK
<1>3. CASE UNCHANGED message
  <2>1. InFlight' = InFlight /\ \A key \in Keys : Queued(key)' = Queued(key)
    BY <1>3 DEF InFlight, MessagesAt, Queued
  <2>. QED  BY <1>1, <1>2, <2>1, QueueShrinks DEF QueueInvariant
<1>4. CASE Disconnect \/ (\E m \in Messages : Received(m)) \/ DeletePending
  <2>1. /\ InFlight' \subseteq InFlight
        /\ \A key \in Keys : Queued(key)' \subseteq Queued(key)
    BY <1>2, <1>4
       DEF Disconnect, Received, DeletePending, MoveTo, InFlight, Queued, MessagesAt,
           StoredUnder
  <2>. QED  BY <1>1, <1>2, <2>1, QueueShrinks DEF QueueInvariant
<1>5. ASSUME NEW m \in Messages, InsertPending(m)
      PROVE  QueueInvariant'
  <2>1. /\ InFlight' \subseteq InFlight
        /\ \A key \in Keys : Queued(key)' \subseteq Queued(key)
    BY <1>2, <1>5 DEF InsertPending, MoveTo, InFlight, Queued, MessagesAt
  <2>. QED  BY <1>1, <1>2, <2>1, QueueShrinks DEF QueueInvariant
<1>6. CASE OpenConversation \/ Connect \/ BecomeReady \/ GetPending \/ AllPosted
           \/ StartFails \/ ServerStops \/ (\E m \in Messages : PostMessage(m))
           \/ UNCHANGED pendingVars
  BY <1>3, <1>6
     DEF OpenConversation, Connect, BecomeReady, GetPending, AllPosted, StartFails,
         ServerStops, PostMessage, pendingVars
<1>. QED
  BY <1>1, <1>4, <1>5, <1>6, CountKeepsFit, SendKeepsFit, UpdateKeepsFit
     DEF QueueInvariant, PendingNext, PageStep, QueueStep, StartStep

(* Requests in flight at the same time exceed the router's limit by at     *)
(* most one each, whatever else happens to the queue.                      *)
THEOREM LimitAlmostKept == PendingSpec => []QueueBounded
<1>1. PendingInit => QueueInvariant
  <2> SUFFICES ASSUME PendingInit PROVE QueueFits
    BY DeliveryInitially DEF QueueInvariant
  <2>1. InFlight = {} /\ \A key \in Keys : Queued(key) = {}
    BY DEF PendingInit, InFlight, MessagesAt, Queued
  <2>. QED  BY <2>1, FS_EmptySet, PendingAssumption DEF QueueFits
<1>2. ASSUME QueueInvariant, NEW key \in Keys
      PROVE  Cardinality(StoredUnder(key)) + 1 =< QueueLimit + MaxRequests
  <2>1. /\ Cardinality(StoredUnder(key)) =< Cardinality(Queued(key))
        /\ Cardinality(StoredUnder(key)) \in Nat /\ Cardinality(Queued(key)) \in Nat
    BY QueueSetsFinite, SmallerFits
  <2>. QED  BY <1>2, <2>1, PendingAssumption DEF QueueInvariant, QueueFits
<1>3. QueueInvariant => QueueBounded
  BY <1>2 DEF QueueBounded
<1>. QED  BY <1>1, <1>3, QueueFitsStep, PTL DEF PendingSpec
=============================================================================
