-------------------------- MODULE ConversationView --------------------------
(***************************************************************************)
(* How the browser comes to show a conversation's events: the websocket    *)
(* and its reconnection (use-websocket.ts), the history the app server     *)
(* keeps (use-conversation-history.ts), the end of the loading state       *)
(* (conversation-websocket-context.tsx) and the effects of opening another *)
(* page (routes/conversation.tsx).  The main agent only; the planning      *)
(* agent has a socket of its own with the same code.                       *)
(***************************************************************************)
EXTENDS EventStore, FiniteSets

CONSTANTS
    Home,           \* a page that shows no conversation
    PageSize,       \* events of a history request, 100 in the code
    MaxBreaks,      \* bound on connections that break
    MaxOpenings     \* bound on the pages opened

ASSUME ViewAssumption ==
    /\ Home \notin Conversations
    /\ PageSize \in Nat \ {0}
    /\ MaxBreaks \in Nat
    /\ MaxOpenings \in Nat

VARIABLES
    log,         \* how many events each conversation's agent has produced
    sandbox,     \* whether the agent server of a conversation still exists
    view,        \* the conversation on the page, or Home
    socket,      \* the page's websocket and the events sent on it
    counting,    \* conversations whose event count was asked for
    expected,    \* expectedEventCountMain: no count or one
    received,    \* receivedEventCountRefMain
    loading,     \* isLoadingHistoryMain
    history,     \* the cached answers of the history query
    eventStore,  \* the events, their ids, and what the chat renders
    breaks,      \* connections broken so far
    openings     \* pages opened so far

agentSide == <<log, sandbox>>
loadVars == <<counting, expected, received, loading>>
viewVars == <<agentSide, view, socket, loadVars, history, eventStore, breaks, openings>>

NoCount == {}
NoSocket == [state |-> "none", sent |-> 0]
SocketGoes(state) == socket' = [state |-> state, sent |-> 0]

(* none: never asked for.  asked: the request is under way.  An answer is   *)
(* kept: a session here is shorter than the half hour after which an       *)
(* unused one is dropped.                                                  *)
NotAsked == [is |-> "none", page |-> <<>>]
Asked == [is |-> "asked", page |-> <<>>]
Failed == [is |-> "failed", page |-> <<>>]
Fetched(page) == [is |-> "fetched", page |-> page]

ViewInit ==
    /\ log = [c \in Conversations |-> 0]
    /\ sandbox = [c \in Conversations |-> "running"]
    /\ view = Home
    /\ socket = NoSocket
    /\ counting = {}
    /\ expected = NoCount
    /\ received = 0
    /\ loading = TRUE
    /\ history = [c \in Conversations |-> NotAsked]
    /\ eventStore = EmptyStore
    /\ breaks = 0
    /\ openings = 0

(***************************************************************************)
(* The agent                                                               *)
(***************************************************************************)
AgentActs(c) ==
    /\ sandbox[c] = "running"
    /\ log[c] < Len(Script[c])
    /\ log' = [log EXCEPT ![c] = @ + 1]
    /\ UNCHANGED <<sandbox, view, socket, loadVars, history, eventStore, breaks, openings>>

(* The sandbox is removed, and with it the websocket's other end.          *)
SandboxLost(c) ==
    /\ sandbox[c] = "running"
    /\ sandbox' = [sandbox EXCEPT ![c] = "missing"]
    /\ IF view = c /\ socket.state = "open"
       THEN SocketGoes("waiting") ELSE UNCHANGED socket
    /\ UNCHANGED <<log, view, loadVars, history, eventStore, breaks, openings>>

(***************************************************************************)
(* Opening and leaving a page                                              *)
(***************************************************************************)
ClearEvents == eventStore' = EmptyStore

(* Mutation: the store keeps the events of the page that was left.         *)
OpenWithoutClearing(c) ==
    /\ view # c
    /\ openings < MaxOpenings
    /\ openings' = openings + 1
    /\ view' = c
    /\ SocketGoes(IF sandbox[c] = "running" THEN "connecting" ELSE "none")
    /\ expected' = NoCount
    /\ received' = 0
    /\ loading' = (history[c].is \notin {"fetched", "failed"})
    /\ history' = [history EXCEPT ![c] = IF @.is = "fetched" THEN @ ELSE Asked]
    /\ UNCHANGED <<agentSide, counting, eventStore, breaks>>

(* The provider's effects run before those of the page around it: a        *)
(* history that is cached is added to the store, which is then cleared.    *)
(* A query that had failed counts as fetched while it is made again.       *)
OpenPage(c) ==
    /\ view # c
    /\ openings < MaxOpenings
    /\ openings' = openings + 1
    /\ view' = c
    /\ SocketGoes(IF sandbox[c] = "running" THEN "connecting" ELSE "none")
    /\ expected' = NoCount
    /\ received' = 0
    /\ loading' = (history[c].is \notin {"fetched", "failed"})
    /\ history' = [history EXCEPT ![c] = IF @.is = "fetched" THEN @ ELSE Asked]
    /\ ClearEvents
    /\ UNCHANGED <<agentSide, counting, breaks>>

(* The provider is gone, and with it whoever waits for a count.            *)
LeavePage ==
    /\ view # Home
    /\ view' = Home
    /\ socket' = NoSocket
    /\ counting' = {}
    /\ expected' = NoCount
    /\ received' = 0
    /\ loading' = TRUE
    /\ UNCHANGED <<agentSide, history, eventStore, breaks, openings>>

(***************************************************************************)
(* The websocket                                                           *)
(***************************************************************************)
(* Mutation: resend_all is forgotten, only new events are sent.            *)
OpensWithoutResend ==
    /\ socket.state = "connecting"
    /\ sandbox[view] = "running"
    /\ socket' = [state |-> "open", sent |-> log[view]]
    /\ counting' = counting \cup {view}
    /\ UNCHANGED <<agentSide, view, expected, received, loading, history, eventStore,
                   breaks, openings>>

(* resend_all: a new connection starts with the first event.  onOpen asks  *)
(* how many there are.                                                     *)
SocketOpens ==
    /\ socket.state = "connecting"
    /\ sandbox[view] = "running"
    /\ SocketGoes("open")
    /\ counting' = counting \cup {view}
    /\ UNCHANGED <<agentSide, view, expected, received, loading, history, eventStore,
                   breaks, openings>>

SocketBreaks ==
    /\ socket.state \in {"connecting", "open"}
    /\ sandbox[view] = "running" => breaks < MaxBreaks
    /\ breaks' = IF sandbox[view] = "running" THEN breaks + 1 ELSE breaks
    /\ SocketGoes("waiting")
    /\ UNCHANGED <<agentSide, view, loadVars, history, eventStore, openings>>

(* After three seconds.                                                    *)
SocketRetries ==
    /\ socket.state = "waiting"
    /\ SocketGoes("connecting")
    /\ UNCHANGED <<agentSide, view, loadVars, history, eventStore, breaks, openings>>

AddNew(new) == eventStore' = AddEvents(eventStore, new)

Enough(count, expectation) == \E n \in expectation : count >= n

(* handleMainMessage: the event is counted while the history loads, known  *)
(* or not, and added to the store.                                         *)
ReceiveEvent ==
    /\ socket.state = "open"
    /\ socket.sent < log[view]
    /\ socket' = [socket EXCEPT !.sent = @ + 1]
    /\ received' = IF loading THEN received + 1 ELSE received
    /\ loading' = (loading /\ ~Enough(received', expected))
    /\ AddNew(<<<<view, socket.sent + 1>>>>)
    /\ UNCHANGED <<agentSide, view, counting, expected, history, breaks, openings>>

(* The answer may belong to a page that was left for this one.  Without an *)
(* answer the loading state ends.                                          *)
CountArrives(c) ==
    /\ c \in counting
    /\ counting' = counting \ {c}
    /\ \/ /\ sandbox[c] = "running"
          /\ expected' = {log[c]}
          /\ loading' = (loading /\ ~Enough(received, expected'))
       \/ loading' = FALSE /\ UNCHANGED expected
    /\ UNCHANGED <<agentSide, view, socket, received, history, eventStore, breaks, openings>>

(***************************************************************************)
(* The history of the app server                                           *)
(***************************************************************************)
(* The first page of what the agent server has reported so far, by time.   *)
HistoryPage(c, n) ==
    LET before == Min({CopyAfter, n})
        EventAt(i) == CASE i =< before -> <<c, i>>
                        [] i = before + 1 -> AppEvent(c)
                        [] OTHER -> <<c, i - 1>>
    IN [i \in 1 .. Min({n + 1, PageSize}) |-> EventAt(i)]

HistoryArrives(c) ==
    /\ history[c].is = "asked"
    /\ \E n \in 0 .. log[c] :
        /\ history' = [history EXCEPT ![c] = Fetched(HistoryPage(c, n))]
        /\ IF view = c
           THEN AddNew(HistoryPage(c, n)) /\ loading' = FALSE
           ELSE UNCHANGED <<eventStore, loading>>
    /\ UNCHANGED <<agentSide, view, socket, counting, expected, received, breaks, openings>>

(* Mutation: only an answer, not an error, ends the loading state.         *)
HistoryFailsUnnoticed(c) ==
    /\ history[c].is = "asked"
    /\ history' = [history EXCEPT ![c] = Failed]
    /\ UNCHANGED <<agentSide, view, socket, loadVars, eventStore, breaks, openings>>

HistoryFails(c) ==
    /\ history[c].is = "asked"
    /\ history' = [history EXCEPT ![c] = Failed]
    /\ loading' = (loading /\ view # c)
    /\ UNCHANGED <<agentSide, view, socket, counting, expected, received, eventStore,
                   breaks, openings>>

AgentSideStep == \E c \in Conversations : AgentActs(c) \/ SandboxLost(c)
Navigation == LeavePage \/ \E c \in Conversations : OpenPage(c)
SocketStep == SocketOpens \/ SocketRetries
Answers ==
    \E c \in Conversations : CountArrives(c) \/ HistoryArrives(c) \/ HistoryFails(c)

ViewNext ==
    \/ AgentSideStep \/ Navigation \/ SocketStep \/ SocketBreaks \/ ReceiveEvent
    \/ Answers

ViewSpec == ViewInit /\ [][ViewNext]_viewVars

(* Requests are answered, a socket is opened, read and reopened.  Nothing  *)
(* makes a user navigate or an agent act.                                  *)
ViewFairness ==
    /\ WF_viewVars(SocketStep)
    /\ WF_viewVars(ReceiveEvent)
    /\ WF_viewVars(Answers)

FairViewSpec == ViewSpec /\ ViewFairness

(***************************************************************************)
(* Properties                                                              *)
(***************************************************************************)
Produced == UNION {{AppEvent(c)} \cup AgentEvents(c, log[c]) : c \in Conversations}

(* The values of the variables.                                            *)
ViewTypeOK ==
    /\ log \in [Conversations -> Nat]
    /\ sandbox \in [Conversations -> {"running", "missing"}]
    /\ view \in Conversations \cup {Home}
    /\ socket \in [state : {"none", "connecting", "open", "waiting"}, sent : Nat]
    /\ counting \subseteq Conversations
    /\ expected \subseteq Nat /\ Cardinality(expected) =< 1
    /\ received \in Nat
    /\ loading \in BOOLEAN
    /\ \A c \in Conversations : history[c].is \in {"none", "asked", "failed", "fetched"}
    /\ eventStore.eventIds = Range(eventStore.events)
    /\ Cardinality(eventStore.eventIds) = Len(eventStore.events)

(* The chat shows what the events amount to, each thing once and nothing   *)
(* that was superseded, however history, replays and reconnections mix.    *)
ChatIsRendering ==
    LET chat == eventStore.uiEvents
    IN /\ Range(chat) = Rendered(eventStore.eventIds)
       /\ Cardinality(Range(chat)) = Len(chat)

(* The store's events are in the order of their timestamps, though sorting *)
(* is decided by looking at the last one only.                             *)
StoreIsChronological ==
    LET events == eventStore.events
    IN \A i \in 1 .. Len(events) - 1 : Earlier(events[i], events[i + 1])

(* The page implements the transcript of the conversation it shows.        *)
Page == INSTANCE Transcript
            WITH Desk <- Home, written <- Produced, read <- eventStore.eventIds, at <- view

ImplementsTranscript == Page!TranscriptSpec

(* Whatever breaks on the way, the page catches up with the agent again    *)
(* and again, unless it was left or the sandbox is gone.                   *)
PageCatchesUp ==
    []<>(\/ view = Home
         \/ sandbox[view] = "missing"
         \/ AgentEvents(view, log[view]) \subseteq eventStore.eventIds)

(* A page never loads forever.                                             *)
LoadingEnds == []<>(view = Home \/ ~loading)
=============================================================================
