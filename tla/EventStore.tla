----------------------------- MODULE EventStore -----------------------------
(***************************************************************************)
(* The frontend's event store (stores/use-event-store.ts) as operators on  *)
(* the list of events and the list of what the chat renders                *)
(* (utils/handle-event-for-ui.ts).  No state.                              *)
(***************************************************************************)
EXTENDS Naturals, FiniteSets, SequencesExt

CONSTANTS
    Conversations,
    Script,       \* the events an agent will produce, in order
    CopyAfter     \* how many of them precede the app server's own event

(* silent: the observation of a thought or of the end.  call: an update of *)
(* an ACP tool call.                                                       *)
Kinds == {"message", "action", "observation", "silent", "call"}

(* An observation is about the action at an earlier position (action_id),  *)
(* an update about a call (tool_call_id).                                  *)
ASSUME ScriptAssumption ==
    /\ Script \in [Conversations -> Seq([kind : Kinds, about : Nat])]
    /\ \A c \in Conversations : \A i \in DOMAIN Script[c] :
            Script[c][i].kind = "observation" =>
                /\ Script[c][i].about \in 1 .. i - 1
                /\ Script[c][Script[c][i].about].kind = "action"
    /\ CopyAfter \in Nat

(* An event is its id: the conversation and the position in the agent's    *)
(* log.  Position 0 is the copy of the first message that the app server   *)
(* stores under an id of its own.                                          *)
AgentEvents(c, n) == {<<c, i>> : i \in 1 .. n}
AppEvent(c) == <<c, 0>>

KindOf(e) == IF e[2] = 0 THEN "message" ELSE Script[e[1]][e[2]].kind
ActionOf(e) == <<e[1], Script[e[1]][e[2]].about>>
SameCall(d, e) == KindOf(d) = "call" /\ KindOf(e) = "call" /\ ActionOf(d) = ActionOf(e)
Timestamp(e) == IF e[2] = 0 THEN 2 * CopyAfter + 1 ELSE 2 * e[2]

Earlier(d, e) == Timestamp(d) < Timestamp(e)

(* sort() is stable: of two places with equal timestamps the first stays   *)
(* before the second.                                                      *)
SortsBefore(list, i, j) ==
    Earlier(list[i], list[j]) \/ (~Earlier(list[j], list[i]) /\ i < j)

Rank(list, j) == Cardinality({i \in DOMAIN list : SortsBefore(list, i, j)}) + 1

Sorted(list) ==
    [k \in DOMAIN list |-> list[CHOOSE j \in DOMAIN list : Rank(list, j) = k]]

(* Mutation: sorts nothing.                                                *)
NeverNeedsSorting(list, e) == FALSE

NeedsSorting(list, e) == list # <<>> /\ Earlier(e, Last(list))

(* The list after e was put into it, giving newList.                       *)
SortedIfNeeded(list, newList, e) ==
    IF NeedsSorting(list, e) THEN Sorted(newList) ELSE newList

AddToEvents(list, e) == SortedIfNeeded(list, Append(list, e), e)

(* e in the first of these positions, else at the end.                     *)
ReplaceFirst(list, positions, e) ==
    IF positions = {} THEN Append(list, e) ELSE [list EXCEPT ![Min(positions)] = e]

(* Mutation: an observation does not take the place of its action.         *)
AppendForUI(list, e) == IF KindOf(e) = "silent" THEN list ELSE Append(list, e)

HandleEventForUI(list, e) ==
    CASE KindOf(e) = "call" ->
            ReplaceFirst(list, {i \in DOMAIN list : SameCall(list[i], e)}, e)
      [] KindOf(e) = "observation" ->
            ReplaceFirst(list, {i \in DOMAIN list : list[i] = ActionOf(e)}, e)
      [] KindOf(e) = "silent" -> list
      [] OTHER -> Append(list, e)

AddToUI(list, e) == SortedIfNeeded(list, HandleEventForUI(list, e), e)

EmptyStore == [events |-> <<>>, eventIds |-> {}, uiEvents |-> <<>>]

(* Mutation: addEvent does not look for the event's id.                    *)
AddEventAgain(s, e) ==
    [events |-> AddToEvents(s.events, e),
     eventIds |-> s.eventIds \cup {e},
     uiEvents |-> AddToUI(s.uiEvents, e)]

AddEvent(s, e) ==
    IF e \in s.eventIds THEN s
    ELSE [events |-> AddToEvents(s.events, e),
          eventIds |-> s.eventIds \cup {e},
          uiEvents |-> AddToUI(s.uiEvents, e)]

(* addEvent for each of new, one after the other.                          *)
AddEvents(s, new) ==
    LET after[i \in 0 .. Len(new)] ==
            IF i = 0 THEN s ELSE AddEvent(after[i - 1], new[i])
    IN after[Len(new)]

(***************************************************************************)
(* What a chat with these events should render: every message, an action   *)
(* until it is observed, what was observed, and the last update of each    *)
(* call.                                                                   *)
(***************************************************************************)
Rendered(events) ==
    LET Observed(e) == \E d \in events : KindOf(d) = "observation" /\ ActionOf(d) = e
        Outdated(e) == \E d \in events : SameCall(d, e) /\ Earlier(e, d)
    IN {e \in events : KindOf(e) # "silent" /\ ~Observed(e) /\ ~Outdated(e)}
=============================================================================
