------------------------------- MODULE Drafts -------------------------------
(***************************************************************************)
(* What a user types into the chat box and has not sent yet.  The box      *)
(* stays mounted from one conversation to the next; half a second after    *)
(* the last key its text is kept in localStorage for the conversation it   *)
(* was typed at, and put back into the box when that one is shown again    *)
(* (use-draft-persistence.ts).  A text is the set of the pages at which    *)
(* its parts were typed: whose it is, not what it says.  One tab.          *)
(***************************************************************************)
EXTENDS Naturals

CONSTANTS
    Chats,      \* the conversations
    Task,       \* the page of a conversation that is still starting
    NoPage,     \* where there is no chat box
    MaxSends    \* bound on the messages being sent

ASSUME DraftsAssumption ==
    /\ Task \notin Chats
    /\ NoPage \notin Chats \cup {Task}
    /\ MaxSends \in Nat

VARIABLES
    shown,      \* the page shown
    box,       \* the text in its chat box
    saved,     \* the draft kept for each conversation
    timer,     \* the page whose text is to be saved, and the draft it had
    sending    \* submissions that wait for an upload or an answer

draftVars == <<shown, box, saved, timer, sending>>

Pages == Chats \cup {Task}
NoTimer == [at |-> NoPage, draft |-> {}]

(* Nothing is kept for a task.                                             *)
DraftOf(p) == IF p \in Chats THEN saved[p] ELSE {}

DraftsInit ==
    /\ shown = NoPage
    /\ box = {}
    /\ saved = [c \in Chats |-> {}]
    /\ timer = NoTimer
    /\ sending = 0

(***************************************************************************)
(* Pages                                                                   *)
(***************************************************************************)
(* The box is mounted, after a reload too, with the draft that is kept.    *)
EnterPage(p) ==
    /\ shown = NoPage
    /\ shown' = p
    /\ box' = DraftOf(p)
    /\ UNCHANGED <<saved, timer, sending>>

(* A reload also ends what was being sent.                                 *)
LeavePages ==
    /\ shown # NoPage
    /\ shown' = NoPage
    /\ box' = {}
    /\ timer' = NoTimer
    /\ sending' \in {0, sending}
    /\ UNCHANGED saved

(* Mutation: nothing happens when the conversation changes.                *)
SwitchWithoutReset(p) ==
    /\ shown \notin {NoPage, p}
    /\ shown' = p
    /\ UNCHANGED <<box, saved, timer, sending>>

(* The save that is pending is cancelled.  A text typed at a task goes     *)
(* along, and becomes the draft of whichever conversation is next; any     *)
(* other is taken out for the draft of the page.                           *)
SwitchPage(p) ==
    /\ shown \notin {NoPage, p}
    /\ shown' = p
    /\ timer' = NoTimer
    /\ \/ /\ shown = Task /\ box # {}
          /\ saved' = [saved EXCEPT ![p] = box]
          /\ UNCHANGED box
       \/ /\ ~(shown = Task /\ box # {})
          /\ box' = DraftOf(p)
          /\ UNCHANGED saved
    /\ UNCHANGED sending

(***************************************************************************)
(* The chat box                                                            *)
(***************************************************************************)
(* Typing adds to the text, replaces it or takes some of it away; every    *)
(* input starts the half second again.                                     *)
TypeText ==
    /\ shown # NoPage
    /\ box' \in SUBSET (box \cup {shown})
    /\ timer' = [at |-> shown, draft |-> DraftOf(shown)]
    /\ UNCHANGED <<shown, saved, sending>>

(* A prompt chosen from a menu replaces the text, and is no input.         *)
ChoosePrompt ==
    /\ shown # NoPage
    /\ box' = {shown}
    /\ UNCHANGED <<shown, saved, timer, sending>>

(* What is in the box now is kept, if it differs from the draft there was. *)
SaveDraft ==
    /\ timer # NoTimer
    /\ timer' = NoTimer
    /\ \/ /\ timer.at = shown
          /\ shown \in Chats
          /\ box \cup timer.draft # {}
          /\ saved' = [saved EXCEPT ![shown] = box]
       \/ /\ (timer.at # shown \/ shown = Task \/ box = timer.draft)
          /\ UNCHANGED saved
    /\ UNCHANGED <<shown, box, sending>>

(* Commands, and files that are refused, are not sent.                     *)
SubmitText ==
    /\ shown # NoPage
    /\ box # {}
    /\ box' = {}
    /\ \/ UNCHANGED sending
       \/ sending < MaxSends /\ sending' = sending + 1
    /\ UNCHANGED <<shown, saved, timer>>

(* What is in the box by then is taken out, unless an error came instead.  *)
SendEnds ==
    /\ sending > 0
    /\ sending' = sending - 1
    /\ box' \in {{}, box}
    /\ UNCHANGED <<shown, saved, timer>>

(* A user's message comes on the websocket: a new one, or again after a    *)
(* reconnection.  The draft counts as delivered.                           *)
UserMessageArrives ==
    /\ shown \in Chats
    /\ saved' = [saved EXCEPT ![shown] = {}]
    /\ UNCHANGED <<shown, box, timer, sending>>

DraftsNext ==
    \/ LeavePages \/ \E p \in Pages : EnterPage(p) \/ SwitchPage(p)
    \/ TypeText \/ ChoosePrompt \/ SaveDraft
    \/ SubmitText \/ SendEnds \/ UserMessageArrives

DraftsSpec == DraftsInit /\ [][DraftsNext]_draftVars

(***************************************************************************)
(* Properties                                                              *)
(***************************************************************************)
(* The values of the variables.                                            *)
DraftsTypeOK ==
    /\ shown \in Pages \cup {NoPage}
    /\ box \in SUBSET Pages
    /\ saved \in [Chats -> SUBSET Pages]
    /\ timer \in [at : Pages \cup {NoPage}, draft : SUBSET Pages]
    /\ sending \in 0 .. MaxSends

(* What is typed at one conversation never shows up at another, or as its  *)
(* draft, however quickly the user switches.  What is typed at a task may: *)
(* see SwitchPage.                                                         *)
DraftsStayApart ==
    /\ \A c \in Chats : saved[c] \subseteq {c, Task}
    /\ box \subseteq {shown, Task}
=============================================================================
