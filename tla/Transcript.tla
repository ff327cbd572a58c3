---------------------------- MODULE Transcript ----------------------------
(***************************************************************************)
(* What a conversation's page promises, whatever carries the events: it    *)
(* shows events that exist, of the conversation it is at, and takes none   *)
(* back until the reader turns to another one.                             *)
(***************************************************************************)
CONSTANT Desk   \* where a reader is who reads nothing

VARIABLES
    written,   \* the events that exist, as <<conversation, position>>
    read,      \* the events on the page
    at         \* the conversation being read, or Desk

transcriptVars == <<written, read, at>>

EventsOf(conversation) == {e \in written : e[1] = conversation}

TranscriptInit == read = {} /\ at = Desk

Write ==
    /\ written \subseteq written'
    /\ UNCHANGED <<read, at>>

Read ==
    /\ at # Desk
    /\ read \subseteq read'
    /\ read' \subseteq read \cup EventsOf(at)
    /\ UNCHANGED <<written, at>>

(* A page that is opened starts empty; one that is left is not looked at.  *)
Turn ==
    /\ at' # at
    /\ read' = IF at' = Desk THEN read ELSE {}
    /\ UNCHANGED written

TranscriptNext == Write \/ Read \/ Turn

TranscriptSpec == TranscriptInit /\ [][TranscriptNext]_transcriptVars
=============================================================================
