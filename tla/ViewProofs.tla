----------------------------- MODULE ViewProofs -----------------------------
(***************************************************************************)
(* The event store and the conversation's page that feeds it, for any      *)
(* scripts, page size and number of conversations: a sort is a permutation *)
(* that is in order, an event is added once, the chat shows what the       *)
(* events amount to, and the page implements the transcript.               *)
(***************************************************************************)
EXTENDS ConversationView, FiniteSetTheorems, SequenceTheorems, TLAPS

EventIds == Conversations \X Nat

(* No element occurs twice.                                                *)
Once(list) == \A i \in DOMAIN list : \A j \in DOMAIN list : list[i] = list[j] => i = j

Chronological(list) == \A i \in 1 .. Len(list) - 1 : Earlier(list[i], list[i + 1])

(***************************************************************************)
(* Least elements                                                          *)
(***************************************************************************)
(* A set of natural numbers has a least one.                               *)
LEMMA LeastExists ==
    ASSUME NEW T \in SUBSET Nat, T # {}
    PROVE  \E x \in T : \A y \in T : x =< y
<1>1. PICK x \in T : \A y \in T : ~(<<y, x>> \in OpToRel(<, Nat))
  BY WFMin, NatLessThanWellFounded
<1>2. ASSUME NEW m \in Nat, NEW n \in Nat, ~(<<n, m>> \in OpToRel(<, Nat))
      PROVE  ~(n < m)
  BY <1>2, Zenon DEF OpToRel
<1>3. ASSUME NEW y \in T
      PROVE  x =< y
  <2>1. ~(y < x)
    BY <1>1, <1>2, <1>3
  <2>. QED  BY <2>1
<1>. QED  BY <1>3

(* Min is this number.                                                     *)
LEMMA MinIsLeast ==
    ASSUME NEW T \in SUBSET Nat, T # {}
    PROVE  Min(T) \in T /\ \A y \in T : Min(T) =< y
BY LeastExists DEF Min

(***************************************************************************)
(* Sorting                                                                 *)
(***************************************************************************)
(* Timestamps are numbers, and tell the events of a conversation apart.    *)
LEMMA TimestampsDiffer ==
    ASSUME NEW d \in EventIds, NEW e \in EventIds
    PROVE  /\ Timestamp(d) \in Nat
           /\ d[1] = e[1] /\ d # e => Earlier(d, e) \/ Earlier(e, d)
<1>1. CopyAfter \in Nat
  BY ScriptAssumption
<1>2. /\ d = <<d[1], d[2]>> /\ d[2] \in Nat
      /\ e = <<e[1], e[2]>> /\ e[2] \in Nat
  BY DEF EventIds
<1>3. ASSUME NEW m \in Nat, NEW n \in Nat
      PROVE  2 * m + 1 # 2 * n /\ (2 * m = 2 * n => m = n)
  OBVIOUS
<1>. QED  BY <1>1, <1>2, <1>3 DEF Timestamp, Earlier

(* The order of a list's places is strict and total.                       *)
LEMMA PlacesAreOrdered ==
    ASSUME NEW list \in Seq(EventIds),
           NEW i \in DOMAIN list, NEW j \in DOMAIN list
    PROVE  /\ ~SortsBefore(list, i, i)
           /\ i # j => SortsBefore(list, i, j) \/ SortsBefore(list, j, i)
           /\ \A h \in DOMAIN list :
                SortsBefore(list, h, i) /\ SortsBefore(list, i, j) => SortsBefore(list, h, j)
<1>1. \A h \in DOMAIN list : h \in Nat /\ Timestamp(list[h]) \in Nat
  BY TimestampsDiffer, ElementOfSeq, LenProperties
<1>. QED  BY <1>1 DEF SortsBefore, Earlier

(* The number of places before a place is smaller than the list, and grows *)
(* with the order.                                                         *)
LEMMA RanksAreOrdered ==
    ASSUME NEW list \in Seq(EventIds), NEW j \in DOMAIN list
    PROVE  /\ Rank(list, j) \in DOMAIN list
           /\ \A i \in DOMAIN list : SortsBefore(list, i, j) => Rank(list, i) < Rank(list, j)
<1> DEFINE ahead(i) == {h \in DOMAIN list : SortsBefore(list, h, i)}
<1>1. /\ DOMAIN list = 1 .. Len(list) /\ Len(list) \in Nat
      /\ IsFiniteSet(DOMAIN list) /\ Cardinality(DOMAIN list) = Len(list)
  BY LenProperties, FS_Interval
<1>2. \A i \in DOMAIN list : IsFiniteSet(ahead(i)) /\ Cardinality(ahead(i)) \in Nat
  BY <1>1, FS_Subset, FS_CardinalityType
<1>3. Cardinality(ahead(j)) < Len(list)
  <2>1. ahead(j) \in SUBSET DOMAIN list /\ ahead(j) # DOMAIN list
    BY PlacesAreOrdered
  <2>2. Cardinality(ahead(j)) =< Len(list) /\ Cardinality(ahead(j)) # Len(list)
    BY <1>1, <2>1, FS_Subset
  <2>. HIDE DEF ahead
  <2>. QED  BY <1>1, <1>2, <2>2
<1>4. ASSUME NEW i \in DOMAIN list, SortsBefore(list, i, j)
      PROVE  Cardinality(ahead(i)) < Cardinality(ahead(j))
  <2>1. ahead(i) \in SUBSET ahead(j) /\ ahead(i) # ahead(j)
    BY <1>4, PlacesAreOrdered
  <2>2. Cardinality(ahead(i)) =< Cardinality(ahead(j)) /\ Cardinality(ahead(i)) # Cardinality(ahead(j))
    BY <1>2, <2>1, FS_Subset
  <2>. HIDE DEF ahead
  <2>. QED  BY <1>2, <2>2
<1>5. \A i \in DOMAIN list : Rank(list, i) = Cardinality(ahead(i)) + 1
  BY DEF Rank
<1>. HIDE DEF ahead
<1>6. Rank(list, j) \in DOMAIN list
  BY <1>1, <1>2, <1>3, <1>5
<1>. QED  BY <1>2, <1>4, <1>5, <1>6

(* Every place of the sorted list is the rank of one place of the list.    *)
LEMMA RanksAreReached ==
    ASSUME NEW list \in Seq(EventIds)
    PROVE  /\ \A k \in DOMAIN list : \E j \in DOMAIN list : Rank(list, j) = k
           /\ \A i \in DOMAIN list : \A j \in DOMAIN list :
                Rank(list, i) = Rank(list, j) => i = j
<1> DEFINE rank == [j \in DOMAIN list |-> Rank(list, j)]
<1>1. \A i \in DOMAIN list : \A j \in DOMAIN list :
        /\ i # j => SortsBefore(list, i, j) \/ SortsBefore(list, j, i)
        /\ SortsBefore(list, i, j) => Rank(list, i) < Rank(list, j)
        /\ Rank(list, i) \in Nat
  <2>1. DOMAIN list \subseteq Nat
    BY LenProperties
  <2>. QED  BY <2>1, PlacesAreOrdered, RanksAreOrdered
<1>2. \A i \in DOMAIN list : \A j \in DOMAIN list : Rank(list, i) = Rank(list, j) => i = j
  BY <1>1
<1>3. rank \in Injection(DOMAIN list, DOMAIN list)
  BY <1>2, RanksAreOrdered DEF Injection, IsInjective
<1>4. IsFiniteSet(DOMAIN list)
  BY LenProperties, FS_Interval
<1>5. rank \in Surjection(DOMAIN list, DOMAIN list)
  BY <1>3, <1>4, FS_Injection
<1>. QED  BY <1>2, <1>5 DEF Surjection

(* Sorting permutes a list and brings it in order.                         *)
LEMMA SortingSorts ==
    ASSUME NEW list \in Seq(EventIds), Once(list)
    PROVE  /\ Sorted(list) \in Seq(EventIds)
           /\ Len(Sorted(list)) = Len(list)
           /\ Range(Sorted(list)) = Range(list)
           /\ Once(Sorted(list))
           /\ (\A d \in Range(list) : \A e \in Range(list) : d[1] = e[1])
                => Chronological(Sorted(list))
<1> DEFINE place(k) == CHOOSE j \in DOMAIN list : Rank(list, j) = k
<1>1. DOMAIN list = 1 .. Len(list) /\ Len(list) \in Nat /\ \A i \in DOMAIN list : list[i] \in EventIds
  BY LenProperties, ElementOfSeq
<1>2. \A k \in DOMAIN list : place(k) \in DOMAIN list /\ Rank(list, place(k)) = k
  BY RanksAreReached
<1>3. \A j \in DOMAIN list : Rank(list, j) \in DOMAIN list /\ place(Rank(list, j)) = j
  BY <1>2, RanksAreReached, RanksAreOrdered
<1>4. Sorted(list) = [k \in DOMAIN list |-> list[place(k)]]
  BY DEF Sorted
<1>. HIDE DEF place
<1>5. Sorted(list) \in Seq(EventIds) /\ Len(Sorted(list)) = Len(list)
  BY <1>1, <1>2, <1>4, IsASeq, LenProperties
<1>6. Range(Sorted(list)) = Range(list)
  <2>1. \A k \in DOMAIN list : \E j \in DOMAIN list : Sorted(list)[k] = list[j]
    BY <1>2, <1>4
  <2>2. \A j \in DOMAIN list : \E k \in DOMAIN list : Sorted(list)[k] = list[j]
    BY <1>3, <1>4
  <2>3. DOMAIN Sorted(list) = DOMAIN list
    BY <1>4
  <2>. QED  BY <2>1, <2>2, <2>3 DEF Range
<1>7. Once(Sorted(list))
  BY <1>2, <1>4 DEF Once
<1>8. ASSUME \A d \in Range(list) : \A e \in Range(list) : d[1] = e[1],
             NEW k \in 1 .. Len(list) - 1
      PROVE  Earlier(Sorted(list)[k], Sorted(list)[k + 1])
  <2>1. k \in DOMAIN list /\ k + 1 \in DOMAIN list /\ k < k + 1 /\ ~(k + 1 < k)
    BY <1>1
  <2>2. PICK i \in DOMAIN list, j \in DOMAIN list :
            /\ Sorted(list)[k] = list[i] /\ Rank(list, i) = k
            /\ Sorted(list)[k + 1] = list[j] /\ Rank(list, j) = k + 1
    BY <1>2, <1>4, <2>1
  <2>3. i # j /\ ~SortsBefore(list, j, i)
    BY <2>1, <2>2, RanksAreOrdered
  <2>4. SortsBefore(list, i, j) /\ list[i] # list[j]
    BY <2>3, PlacesAreOrdered DEF Once
  <2>5. Earlier(list[i], list[j]) \/ Earlier(list[j], list[i])
    BY <1>1, <1>8, <2>4, TimestampsDiffer DEF Range
  <2>. QED  BY <2>2, <2>4, <2>5 DEF SortsBefore
<1>. QED  BY <1>5, <1>6, <1>7, <1>8 DEF Chronological

(***************************************************************************)
(* Putting an event into a list                                            *)
(***************************************************************************)
(* At the end.                                                             *)
LEMMA AppendingOnce ==
    ASSUME NEW list \in Seq(EventIds), Once(list),
           NEW e \in EventIds, e \notin Range(list)
    PROVE  /\ Append(list, e) \in Seq(EventIds)
           /\ Range(Append(list, e)) = Range(list) \cup {e}
           /\ Once(Append(list, e))
<1>1. /\ DOMAIN list = 1 .. Len(list) /\ Len(list) \in Nat
      /\ Append(list, e) \in Seq(EventIds)
      /\ DOMAIN Append(list, e) = 1 .. Len(list) + 1
      /\ \A i \in 1 .. Len(list) : Append(list, e)[i] = list[i]
      /\ Append(list, e)[Len(list) + 1] = e
  BY LenProperties, AppendProperties
<1>2. \A i \in 1 .. Len(list) : list[i] # e
  BY <1>1 DEF Range
<1>3. \A i \in 1 .. Len(list) + 1 : i \in 1 .. Len(list) \/ i = Len(list) + 1
  BY <1>1
<1>4. Range(Append(list, e)) = Range(list) \cup {e}
  BY <1>1, <1>3 DEF Range
<1>5. Once(Append(list, e))
  BY <1>1, <1>2, <1>3 DEF Once
<1>. QED  BY <1>1, <1>4, <1>5

(* In the place of the only one it may replace.                            *)
LEMMA ReplacingOnce ==
    ASSUME NEW list \in Seq(EventIds), Once(list),
           NEW e \in EventIds, e \notin Range(list),
           NEW positions \in SUBSET DOMAIN list,
           \A i \in positions : \A j \in positions : i = j
    PROVE  /\ ReplaceFirst(list, positions, e) \in Seq(EventIds)
           /\ Range(ReplaceFirst(list, positions, e))
                = {d \in Range(list) : \A i \in positions : d # list[i]} \cup {e}
           /\ Once(ReplaceFirst(list, positions, e))
<1>1. CASE positions = {}
  BY <1>1, AppendingOnce DEF ReplaceFirst
<1>2. CASE positions # {}
  <2>1. DOMAIN list \subseteq Nat
    BY LenProperties
  <2>2. PICK p \in DOMAIN list : positions = {p} /\ Min(positions) = p
    BY <1>2, <2>1, MinIsLeast
  <2>3. ReplaceFirst(list, positions, e) = [list EXCEPT ![p] = e]
    BY <1>2, <2>2 DEF ReplaceFirst
  <2>4. [list EXCEPT ![p] = e] \in Seq(EventIds)
    BY <2>2, ExceptSeq, LenProperties
  <2>5. \A i \in DOMAIN list : list[i] # e
    BY DEF Range
  <2>6. Once([list EXCEPT ![p] = e])
    BY <2>5 DEF Once
  <2>7. Range([list EXCEPT ![p] = e]) = {d \in Range(list) : d # list[p]} \cup {e}
    <3> DEFINE new == [list EXCEPT ![p] = e]
    <3>1. DOMAIN new = DOMAIN list /\ \A i \in DOMAIN list : new[i] = IF i = p THEN e ELSE list[i]
      OBVIOUS
    <3>2. \A i \in DOMAIN list : list[i] = list[p] => i = p
      BY DEF Once
    <3>. HIDE DEF new
    <3>. QED  BY <2>2, <3>1, <3>2 DEF Range
  <2>. QED  BY <2>2, <2>3, <2>4, <2>6, <2>7
<1>. QED  BY <1>1, <1>2

(* Sorting again, when that is needed, does not change what is there.      *)
LEMMA SortingIfNeeded ==
    ASSUME NEW list, NEW new \in Seq(EventIds), Once(new), NEW e
    PROVE  /\ SortedIfNeeded(list, new, e) \in Seq(EventIds)
           /\ Range(SortedIfNeeded(list, new, e)) = Range(new)
           /\ Once(SortedIfNeeded(list, new, e))
BY SortingSorts DEF SortedIfNeeded

(***************************************************************************)
(* What the chat shows                                                     *)
(***************************************************************************)
(* Events of one conversation, none before those it follows.               *)
IdsFit(ids) ==
    /\ ids \subseteq EventIds
    /\ \A e \in ids : e[2] =< Len(Script[e[1]])
    /\ \A d \in ids : \A e \in ids : d[1] = e[1]
    /\ \A e \in ids : \A i \in 1 .. e[2] : <<e[1], i>> \in ids

(* A new event is the app server's or comes after all the others.          *)
LEMMA NewIsLast ==
    ASSUME NEW ids, NEW e, e \notin ids, IdsFit(ids), IdsFit(ids \cup {e}), e[2] # 0,
           NEW d \in ids
    PROVE  d[2] < e[2]
<1>1. e \in EventIds /\ d \in EventIds /\ e[1] = d[1] /\ \A i \in 1 .. d[2] : <<d[1], i>> \in ids
  BY DEF IdsFit
<1>2. e = <<e[1], e[2]>> /\ e[2] \in Nat /\ d[2] \in Nat
  BY <1>1 DEF EventIds
<1>. QED  BY <1>1, <1>2

(* An observation follows the action it is about.                          *)
LEMMA ActionsComeFirst ==
    ASSUME NEW d \in EventIds, d[2] =< Len(Script[d[1]]), KindOf(d) = "observation"
    PROVE  /\ ActionOf(d)[2] \in 1 .. d[2] - 1
           /\ KindOf(ActionOf(d)) = "action"
           /\ d[2] # 0
<1>1. /\ d[1] \in Conversations /\ d[2] \in Nat /\ d[2] # 0
      /\ Script[d[1]] \in Seq([kind : Kinds, about : Nat])
  BY ScriptAssumption DEF EventIds, KindOf
<1>2. d[2] \in DOMAIN Script[d[1]]
  BY <1>1, LenProperties
<1>3. /\ Script[d[1]][d[2]].about \in 1 .. d[2] - 1
      /\ Script[d[1]][Script[d[1]][d[2]].about].kind = "action"
  BY <1>1, <1>2, ScriptAssumption DEF KindOf
<1>. QED  BY <1>1, <1>3 DEF ActionOf, KindOf

(* What a new event changes in what should be rendered: it takes the place *)
(* of the action it observes or of the call's last update.                 *)
LEMMA RenderedWithNew ==
    ASSUME NEW ids, NEW e, e \notin ids, IdsFit(ids), IdsFit(ids \cup {e})
    PROVE  Rendered(ids \cup {e}) =
             {d \in Rendered(ids) : /\ ~SameCall(d, e)
                                    /\ ~(KindOf(e) = "observation" /\ d = ActionOf(e))}
               \cup (IF KindOf(e) = "silent" THEN {} ELSE {e})
<1>1. /\ e \in EventIds /\ e[2] =< Len(Script[e[1]]) /\ e[2] \in Nat
      /\ \A d \in ids : d \in EventIds /\ d[2] =< Len(Script[d[1]]) /\ d[2] \in Nat
  BY DEF IdsFit, EventIds
<1>2. ASSUME NEW d \in ids \cup {e}, KindOf(d) = "observation"
      PROVE  ActionOf(d) # e
  <2>1. ActionOf(d)[2] \in 1 .. d[2] - 1 /\ d[2] \in Nat
    BY <1>1, <1>2, ActionsComeFirst
  <2>2. e[2] # 0 => d[2] =< e[2]
    BY <1>1, NewIsLast
  <2>. QED  BY <1>1, <2>1, <2>2
<1>3. ASSUME NEW d \in ids, SameCall(d, e)
      PROVE  Earlier(d, e) /\ ~Earlier(e, d)
  <2>1. d[2] # 0 /\ e[2] # 0
    BY <1>3 DEF SameCall, KindOf
  <2>2. d[2] < e[2]
    BY <2>1, NewIsLast
  <2>. QED  BY <1>1, <2>1, <2>2 DEF Earlier, Timestamp
<1>4. ~Earlier(e, e)
  BY <1>1, TimestampsDiffer DEF Earlier
<1>5. \A d : SameCall(d, e) <=> SameCall(e, d)
  BY DEF SameCall
<1>6. ASSUME NEW d \in ids
      PROVE  d \in Rendered(ids \cup {e}) <=>
                /\ d \in Rendered(ids) /\ ~SameCall(d, e)
                /\ ~(KindOf(e) = "observation" /\ d = ActionOf(e))
  BY <1>3, <1>5 DEF Rendered
<1>7. e \in Rendered(ids \cup {e}) <=> KindOf(e) # "silent"
  BY <1>2, <1>3, <1>4, <1>5 DEF Rendered
<1>8. Rendered(ids) \subseteq ids /\ Rendered(ids \cup {e}) \subseteq ids \cup {e}
  BY DEF Rendered
<1>. QED  BY <1>6, <1>7, <1>8

(* Two updates of a call are not both rendered.                            *)
LEMMA CallsRenderOnce ==
    ASSUME NEW ids, IdsFit(ids), NEW d \in Rendered(ids), NEW e \in Rendered(ids),
           SameCall(d, e)
    PROVE  d = e
<1>1. d \in ids /\ e \in ids /\ SameCall(e, d)
  BY DEF Rendered, SameCall
<1>2. ~Earlier(d, e) /\ ~Earlier(e, d)
  BY <1>1 DEF Rendered
<1>. QED  BY <1>1, <1>2, TimestampsDiffer DEF IdsFit

(* The list shows what should be rendered.                                 *)
Renders(list, ids) == list \in Seq(EventIds) /\ Once(list) /\ Range(list) = Rendered(ids)

(* Handling a new event keeps this so.                                     *)
LEMMA HandlingRenders ==
    ASSUME NEW ids, NEW e, e \notin ids, IdsFit(ids), IdsFit(ids \cup {e}),
           NEW list, Renders(list, ids)
    PROVE  Renders(HandleEventForUI(list, e), ids \cup {e})
<1> DEFINE calls == {i \in DOMAIN list : SameCall(list[i], e)}
           actions == {i \in DOMAIN list : list[i] = ActionOf(e)}
<1>1. /\ list \in Seq(EventIds) /\ Once(list) /\ e \in EventIds /\ e \notin Range(list)
      /\ \A i \in DOMAIN list : list[i] \in Rendered(ids)
  BY DEF Renders, IdsFit, Rendered, Range
<1>2. \A d \in Range(list) : SameCall(d, e) => KindOf(e) = "call"
  BY DEF SameCall
<1>3. CASE KindOf(e) = "call"
  <2>1. \A i \in calls : \A j \in calls : SameCall(list[i], list[j])
    BY DEF SameCall
  <2>2. \A i \in calls : \A j \in calls : i = j
    BY <1>1, <2>1, CallsRenderOnce DEF Once
  <2>3. HandleEventForUI(list, e) = ReplaceFirst(list, calls, e)
    BY <1>3 DEF HandleEventForUI
  <2>4. \A d \in Range(list) : SameCall(d, e) <=> \E i \in calls : d = list[i]
    BY DEF Range
  <2>5. {d \in Range(list) : \A i \in calls : d # list[i]} \cup {e} = Rendered(ids \cup {e})
    BY <1>3, <2>4, RenderedWithNew DEF Renders
  <2>. HIDE DEF calls
  <2>6. calls \in SUBSET DOMAIN list
    BY DEF calls
  <2>7. /\ ReplaceFirst(list, calls, e) \in Seq(EventIds)
        /\ Range(ReplaceFirst(list, calls, e)) = Rendered(ids \cup {e})
        /\ Once(ReplaceFirst(list, calls, e))
    BY <1>1, <2>2, <2>5, <2>6, ReplacingOnce
  <2>. QED  BY <2>3, <2>7 DEF Renders
<1>4. CASE KindOf(e) = "observation"
  <2>1. \A i \in actions : \A j \in actions : i = j
    BY <1>1 DEF Once
  <2>2. HandleEventForUI(list, e) = ReplaceFirst(list, actions, e)
    BY <1>4 DEF HandleEventForUI
  <2>3. \A d \in Range(list) : d = ActionOf(e) <=> \E i \in actions : d = list[i]
    BY DEF Range
  <2>4. {d \in Range(list) : \A i \in actions : d # list[i]} \cup {e} = Rendered(ids \cup {e})
    BY <1>2, <1>4, <2>3, RenderedWithNew DEF Renders
  <2>5. actions \in SUBSET DOMAIN list
    OBVIOUS
  <2>. HIDE DEF actions
  <2>6. /\ ReplaceFirst(list, actions, e) \in Seq(EventIds)
        /\ Range(ReplaceFirst(list, actions, e)) = Rendered(ids \cup {e})
        /\ Once(ReplaceFirst(list, actions, e))
    BY <1>1, <2>1, <2>4, <2>5, ReplacingOnce
  <2>. QED  BY <2>2, <2>6 DEF Renders
<1>5. CASE KindOf(e) = "silent"
  <2>1. HandleEventForUI(list, e) = list
    BY <1>5 DEF HandleEventForUI
  <2>2. /\ \A d \in Rendered(ids) : ~SameCall(d, e) /\ KindOf(e) # "observation"
        /\ (IF KindOf(e) = "silent" THEN {} ELSE {e}) = {}
    BY <1>2, <1>5 DEF Renders
  <2>3. Rendered(ids \cup {e}) = Rendered(ids)
    BY <2>2, RenderedWithNew
  <2>. QED  BY <2>1, <2>3 DEF Renders
<1>6. CASE KindOf(e) \notin {"call", "observation", "silent"}
  <2>1. HandleEventForUI(list, e) = Append(list, e)
    BY <1>6 DEF HandleEventForUI
  <2>2. Rendered(ids \cup {e}) = Range(list) \cup {e}
    BY <1>2, <1>6, RenderedWithNew DEF Renders
  <2>. QED  BY <1>1, <2>1, <2>2, AppendingOnce DEF Renders
<1>. QED  BY <1>3, <1>4, <1>5, <1>6

(***************************************************************************)
(* The store                                                               *)
(***************************************************************************)
StoreFits(s) ==
    /\ IdsFit(s.eventIds)
    /\ s.events \in Seq(EventIds) /\ Once(s.events) /\ Range(s.events) = s.eventIds
    /\ Chronological(s.events)
    /\ Renders(s.uiEvents, s.eventIds)

(* Nothing fits.                                                           *)
LEMMA EmptyFits == StoreFits(EmptyStore)
<1>1. <<>> \in Seq(EventIds) /\ Once(<<>>) /\ Range(<<>>) = {} /\ Chronological(<<>>)
  BY DEF Once, Range, Chronological
<1>. QED  BY <1>1 DEF StoreFits, EmptyStore, IdsFit, Renders, Rendered

(* The list of events stays in order, though only its end is looked at.    *)
LEMMA AddingKeepsOrder ==
    ASSUME NEW list \in Seq(EventIds), Once(list), Chronological(list),
           NEW e \in EventIds, e \notin Range(list),
           \A c \in Range(list) \cup {e} : \A d \in Range(list) \cup {e} : c[1] = d[1]
    PROVE  /\ AddToEvents(list, e) \in Seq(EventIds) /\ Once(AddToEvents(list, e))
           /\ Range(AddToEvents(list, e)) = Range(list) \cup {e}
           /\ Chronological(AddToEvents(list, e))
<1>1. /\ Append(list, e) \in Seq(EventIds)
      /\ Range(Append(list, e)) = Range(list) \cup {e}
      /\ Once(Append(list, e))
  BY AppendingOnce
<1>2. CASE NeedsSorting(list, e)
  BY <1>1, <1>2, SortingSorts DEF AddToEvents, SortedIfNeeded
<1>3. CASE ~NeedsSorting(list, e)
  <2>1. AddToEvents(list, e) = Append(list, e)
    BY <1>3 DEF AddToEvents, SortedIfNeeded
  <2>2. /\ Len(list) \in Nat /\ DOMAIN list = 1 .. Len(list)
        /\ Len(Append(list, e)) = Len(list) + 1
        /\ \A i \in 1 .. Len(list) : Append(list, e)[i] = list[i]
        /\ Append(list, e)[Len(list) + 1] = e
    BY LenProperties, AppendProperties
  <2>3. ASSUME NEW i \in 1 .. Len(list)
        PROVE  Earlier(Append(list, e)[i], Append(list, e)[i + 1])
    <3>1. CASE i < Len(list)
      <4>1. i \in 1 .. Len(list) - 1 /\ i + 1 \in 1 .. Len(list)
        BY <2>2, <3>1
      <4>. QED  BY <2>2, <4>1 DEF Chronological
    <3>2. CASE i = Len(list)
      <4>1. list # <<>> /\ list[i] \in Range(list) /\ list[i] \in EventIds /\ Last(list) = list[i]
        BY <2>2, <3>2, ElementOfSeq DEF Range, Last
      <4>2. ~Earlier(e, list[i]) /\ list[i] # e /\ list[i][1] = e[1]
        BY <1>3, <4>1 DEF NeedsSorting
      <4>. QED  BY <2>2, <3>2, <4>1, <4>2, TimestampsDiffer
    <3>3. Len(list) \in Nat
      BY LenProperties
    <3>. QED  BY <3>1, <3>2, <3>3
  <2>. QED  BY <1>1, <2>1, <2>2, <2>3 DEF Chronological
<1>. QED  BY <1>2, <1>3

(* One more event, known or not.                                           *)
LEMMA AddingFits ==
    ASSUME NEW s, StoreFits(s), NEW e, IdsFit(s.eventIds \cup {e})
    PROVE  StoreFits(AddEvent(s, e)) /\ AddEvent(s, e).eventIds = s.eventIds \cup {e}
<1>1. CASE e \in s.eventIds
  BY <1>1 DEF AddEvent
<1>2. CASE e \notin s.eventIds
  <2>1. /\ AddEvent(s, e).events = AddToEvents(s.events, e)
        /\ AddEvent(s, e).eventIds = s.eventIds \cup {e}
        /\ AddEvent(s, e).uiEvents = AddToUI(s.uiEvents, e)
    BY <1>2 DEF AddEvent
  <2>2. Renders(HandleEventForUI(s.uiEvents, e), s.eventIds \cup {e})
    BY <1>2, HandlingRenders DEF StoreFits
  <2>3. Renders(AddToUI(s.uiEvents, e), s.eventIds \cup {e})
    BY <2>2, SortingIfNeeded DEF AddToUI, Renders
  <2>4. /\ AddToEvents(s.events, e) \in Seq(EventIds) /\ Once(AddToEvents(s.events, e))
        /\ Range(AddToEvents(s.events, e)) = s.eventIds \cup {e}
        /\ Chronological(AddToEvents(s.events, e))
    BY <1>2, AddingKeepsOrder DEF StoreFits, IdsFit
  <2>. QED  BY <2>1, <2>3, <2>4 DEF StoreFits
<1>. QED  BY <1>1, <1>2

(* addEvent for one event after the other.                                 *)
LEMMA AddingInTurn ==
    ASSUME NEW s, NEW new, Len(new) \in Nat
    PROVE  \E after : /\ AddEvents(s, new) = after[Len(new)]
                      /\ after[0] = s
                      /\ \A i \in 1 .. Len(new) : after[i] = AddEvent(after[i - 1], new[i])
<1> DEFINE n == Len(new)
           Follows(f, m) ==
               f = [i \in 0 .. m |-> IF i = 0 THEN s ELSE AddEvent(f[i - 1], new[i])]
           missing == {m \in 0 .. n : ~\E f : Follows(f, m)}
<1>1. missing = {}
  <2> SUFFICES ASSUME missing # {}  PROVE FALSE
    OBVIOUS
  <2>1. PICK m \in 0 .. n : (~\E f : Follows(f, m)) /\ \A k \in missing : m =< k
    <3>1. missing \in SUBSET Nat
      OBVIOUS
    <3>. QED  BY <3>1, LeastExists
  <2>2. m # 0
    <3>1. Follows([i \in 0 .. 0 |-> s], 0)
      OBVIOUS
    <3>. QED  BY <2>1, <3>1
  <2>3. PICK f : Follows(f, m - 1)
    <3>1. m - 1 \in 0 .. n /\ ~(m =< m - 1)
      BY <2>2
    <3>. QED  BY <2>1, <3>1
  <2> DEFINE g == [i \in 0 .. m |-> IF i = m THEN AddEvent(f[m - 1], new[m]) ELSE f[i]]
  <2>4. ASSUME NEW i \in 0 .. m
        PROVE  g[i] = IF i = 0 THEN s ELSE AddEvent(g[i - 1], new[i])
    <3>1. CASE i = m
      BY <2>2, <3>1
    <3>2. CASE i # m
      <4>1. i \in 0 .. m - 1 /\ (i # 0 => i - 1 \in 0 .. m - 1 /\ i - 1 # m)
        BY <3>2
      <4>. QED  BY <2>3, <3>2, <4>1
    <3>. QED  BY <3>1, <3>2
  <2>5. Follows(g, m)
    BY <2>4
  <2>. QED  BY <2>1, <2>5
<1>2. PICK f : Follows(f, n)
  BY <1>1
<1>3. \A g : Follows(g, n) =>
        g[0] = s /\ \A i \in 1 .. n : g[i] = AddEvent(g[i - 1], new[i])
  OBVIOUS
<1> DEFINE after == CHOOSE g : Follows(g, n)
<1>4. Follows(after, n)
  BY <1>2
<1>5. AddEvents(s, new) = after[n]
  BY DEF AddEvents
<1>. HIDE DEF after, Follows
<1>. QED  BY <1>3, <1>4, <1>5

FirstOf(new, i) == {new[j] : j \in 1 .. i}

(* Many events, of which none comes before those it follows.               *)
LEMMA AddingAllFits ==
    ASSUME NEW s, StoreFits(s), NEW new, Len(new) \in Nat,
           \A i \in 1 .. Len(new) : IdsFit(s.eventIds \cup FirstOf(new, i))
    PROVE  /\ StoreFits(AddEvents(s, new))
           /\ AddEvents(s, new).eventIds = s.eventIds \cup FirstOf(new, Len(new))
<1>1. PICK after : /\ AddEvents(s, new) = after[Len(new)]
                   /\ after[0] = s
                   /\ \A i \in 1 .. Len(new) : after[i] = AddEvent(after[i - 1], new[i])
  BY ONLY AddingInTurn, Len(new) \in Nat
<1> DEFINE n == Len(new)
           right(i) == StoreFits(after[i]) /\ after[i].eventIds = s.eventIds \cup FirstOf(new, i)
           wrong == {i \in 0 .. n : ~right(i)}
<1>2. wrong = {}
  <2> SUFFICES ASSUME wrong # {}  PROVE FALSE
    OBVIOUS
  <2>1. wrong \in SUBSET Nat
    OBVIOUS
  <2>2. PICK m \in 0 .. n : ~right(m) /\ \A k \in wrong : m =< k
    BY <2>1, LeastExists
  <2>3. m # 0
    <3>1. s.eventIds = s.eventIds \cup FirstOf(new, 0)
      BY DEF FirstOf
    <3>. QED  BY <1>1, <2>2, <3>1
  <2>4. m - 1 \in 0 .. n /\ m \in 1 .. n /\ ~(m =< m - 1)
    BY <2>3
  <2>5. right(m - 1)
    BY <2>2, <2>4
  <2>6. FirstOf(new, m) = FirstOf(new, m - 1) \cup {new[m]}
    <3>1. \A j : j \in 1 .. m <=> j \in 1 .. m - 1 \/ j = m
      BY <2>4
    <3>. QED  BY <3>1 DEF FirstOf
  <2>7. after[m - 1].eventIds \cup {new[m]} = s.eventIds \cup FirstOf(new, m)
    BY <2>5, <2>6
  <2>8. IdsFit(after[m - 1].eventIds \cup {new[m]})
    BY <2>4, <2>7
  <2>. QED  BY <1>1, <2>2, <2>4, <2>5, <2>7, <2>8, AddingFits
<1>. QED  BY <1>1, <1>2

(* In a chronological list every event is later than all before it.        *)
LEMMA EarlierComeFirst ==
    ASSUME NEW list \in Seq(EventIds), Chronological(list),
           NEW i \in DOMAIN list, NEW j \in DOMAIN list, i < j
    PROVE  Earlier(list[i], list[j])
<1> DEFINE wrong == {k \in DOMAIN list : i < k /\ ~Earlier(list[i], list[k])}
<1>1. /\ DOMAIN list = 1 .. Len(list) /\ Len(list) \in Nat
      /\ \A k \in DOMAIN list : list[k] \in EventIds
  OBVIOUS
<1>2. SUFFICES ASSUME wrong # {}  PROVE FALSE
  OBVIOUS
<1>3. wrong \in SUBSET Nat
  BY <1>1
<1>4. PICK k \in wrong : \A h \in wrong : k =< h
  BY <1>2, <1>3, LeastExists
<1>5. /\ k - 1 \in DOMAIN list /\ k \in DOMAIN list /\ k - 1 \in 1 .. Len(list) - 1
      /\ k - 1 + 1 = k /\ ~(k =< k - 1) /\ (k - 1 = i \/ i < k - 1)
  BY <1>1, <1>4
<1>6. Earlier(list[k - 1], list[k])
  BY <1>5 DEF Chronological
<1>7. k - 1 = i \/ Earlier(list[i], list[k - 1])
  BY <1>4, <1>5
<1>8. /\ Timestamp(list[i]) \in Nat /\ Timestamp(list[k - 1]) \in Nat
      /\ Timestamp(list[k]) \in Nat
  BY <1>1, <1>5, TimestampsDiffer
<1>9. Earlier(list[i], list[k])
  BY <1>6, <1>7, <1>8 DEF Earlier
<1>. QED  BY <1>4, <1>9

(* Where one of two lists of the same events begins like the other, its    *)
(* next event is not to be found in the beginning of the other.            *)
LEMMA NextIsNew ==
    ASSUME NEW list, NEW other, Once(list), Range(list) \subseteq Range(other),
           NEW k \in DOMAIN list, DOMAIN list \subseteq Nat, DOMAIN other \subseteq Nat,
           \A h \in DOMAIN other : h < k => h \in DOMAIN list /\ list[h] = other[h]
    PROVE  \E j \in DOMAIN other : k =< j /\ other[j] = list[k]
<1>1. list[k] \in Range(other)
  BY DEF Range
<1>2. PICK j \in DOMAIN other : other[j] = list[k]
  BY <1>1 DEF Range
<1>3. ~(j < k)
  BY <1>2 DEF Once
<1>. QED  BY <1>2, <1>3

(* Events can be put into one chronological order only.                    *)
LEMMA OrderIsUnique ==
    ASSUME NEW list \in Seq(EventIds), NEW other \in Seq(EventIds),
           Once(list), Once(other), Chronological(list), Chronological(other),
           Range(list) = Range(other)
    PROVE  list = other
<1> DEFINE places == DOMAIN list \cup DOMAIN other
           agree(k) == k \in DOMAIN list /\ k \in DOMAIN other /\ list[k] = other[k]
           wrong == {k \in places : ~agree(k)}
<1>1. /\ DOMAIN list = 1 .. Len(list) /\ Len(list) \in Nat
      /\ DOMAIN other = 1 .. Len(other) /\ Len(other) \in Nat
      /\ \A k \in DOMAIN list : list[k] \in EventIds
      /\ \A k \in DOMAIN other : other[k] \in EventIds
  OBVIOUS
<1>2. ASSUME wrong # {}
      PROVE  FALSE
  <2>1. wrong \in SUBSET Nat
    BY <1>1
  <2>2. PICK k \in wrong : \A h \in wrong : k =< h
    BY <1>2, <2>1, LeastExists
  <2>3. \A h \in places : h < k => agree(h)
    BY <1>1, <2>2
  <2>4. /\ \A h \in DOMAIN other : h < k => h \in DOMAIN list /\ list[h] = other[h]
        /\ \A h \in DOMAIN list : h < k => h \in DOMAIN other /\ other[h] = list[h]
    BY <2>3
  <2>5. /\ DOMAIN list \subseteq Nat /\ DOMAIN other \subseteq Nat
        /\ Range(list) \subseteq Range(other) /\ Range(other) \subseteq Range(list)
    BY <1>1
  <2>6. ASSUME k \in DOMAIN list
         PROVE  \E j \in DOMAIN other : k =< j /\ other[j] = list[k]
    BY <2>4, <2>5, <2>6, NextIsNew
  <2>7. ASSUME k \in DOMAIN other
         PROVE  \E i \in DOMAIN list : k =< i /\ list[i] = other[k]
    BY <2>4, <2>5, <2>7, NextIsNew
  <2>8. k \in DOMAIN list /\ k \in DOMAIN other
    BY <1>1, <2>2, <2>6, <2>7
  <2>9. PICK j \in DOMAIN other : k < j /\ other[j] = list[k]
    BY <1>1, <2>2, <2>6, <2>8
  <2>10. PICK i \in DOMAIN list : k < i /\ list[i] = other[k]
    BY <1>1, <2>2, <2>7, <2>8
  <2>11. Earlier(other[k], list[k]) /\ Earlier(list[k], other[k])
    BY <2>8, <2>9, <2>10, EarlierComeFirst
  <2>12. Timestamp(list[k]) \in Nat /\ Timestamp(other[k]) \in Nat
    BY <1>1, <2>8, TimestampsDiffer
  <2>. QED  BY <2>11, <2>12 DEF Earlier
<1>3. /\ DOMAIN list = DOMAIN other
      /\ \A k \in DOMAIN list : list[k] = other[k]
  BY <1>2
<1>. QED  BY <1>3

(* Whatever the order in which the history, the socket and the app         *)
(* server's copy of the first message bring the events, addEvent arranges  *)
(* them alike.                                                             *)
THEOREM ArrivalOrderIsForgotten ==
    ASSUME NEW new, Len(new) \in Nat, \A i \in 1 .. Len(new) : IdsFit(FirstOf(new, i)),
           NEW old, Len(old) \in Nat, \A i \in 1 .. Len(old) : IdsFit(FirstOf(old, i)),
           FirstOf(new, Len(new)) = FirstOf(old, Len(old))
    PROVE  AddEvents(EmptyStore, new).events = AddEvents(EmptyStore, old).events
<1>1. ASSUME NEW list, Len(list) \in Nat, \A i \in 1 .. Len(list) : IdsFit(FirstOf(list, i))
      PROVE  /\ StoreFits(AddEvents(EmptyStore, list))
             /\ AddEvents(EmptyStore, list).eventIds = FirstOf(list, Len(list))
  <2>1. \A i \in 1 .. Len(list) : EmptyStore.eventIds \cup FirstOf(list, i) = FirstOf(list, i)
    BY DEF EmptyStore
  <2>2. \A i \in 1 .. Len(list) : IdsFit(EmptyStore.eventIds \cup FirstOf(list, i))
    BY <1>1, <2>1
  <2>3. EmptyStore.eventIds \cup FirstOf(list, Len(list)) = FirstOf(list, Len(list))
    BY DEF EmptyStore
  <2>4. /\ StoreFits(AddEvents(EmptyStore, list))
        /\ AddEvents(EmptyStore, list).eventIds
             = EmptyStore.eventIds \cup FirstOf(list, Len(list))
    BY ONLY EmptyFits, <1>1, <2>2, AddingAllFits
  <2>. QED  BY <2>3, <2>4
<1>2. /\ StoreFits(AddEvents(EmptyStore, new))
      /\ AddEvents(EmptyStore, new).eventIds = FirstOf(new, Len(new))
  BY <1>1
<1>3. /\ StoreFits(AddEvents(EmptyStore, old))
      /\ AddEvents(EmptyStore, old).eventIds = FirstOf(old, Len(old))
  BY <1>1
<1>. QED  BY <1>2, <1>3, OrderIsUnique DEF StoreFits

(***************************************************************************)
(* The history                                                             *)
(***************************************************************************)
(* The smaller of two numbers.                                             *)
LEMMA MinOfTwo ==
    ASSUME NEW m \in Nat, NEW n \in Nat
    PROVE  Min({m, n}) \in {m, n} /\ Min({m, n}) =< m /\ Min({m, n}) =< n
BY DEF Min

(* A page of the history holds events that exist, each after those that    *)
(* precede it.                                                             *)
LEMMA HistoryInOrder ==
    ASSUME NEW c \in Conversations, NEW n \in Nat
    PROVE  /\ Len(HistoryPage(c, n)) \in Nat
           /\ \A i \in 1 .. Len(HistoryPage(c, n)) :
                \/ HistoryPage(c, n)[i] = AppEvent(c)
                \/ \E j \in 1 .. n : /\ HistoryPage(c, n)[i] = <<c, j>>
                                      /\ \A h \in 1 .. j : \E k \in 1 .. i :
                                            HistoryPage(c, n)[k] = <<c, h>>
<1> DEFINE page == HistoryPage(c, n)
           length == Min({n + 1, PageSize})
<1>1. PICK before \in Nat : before = Min({CopyAfter, n}) /\ before =< n
  BY MinOfTwo, ScriptAssumption
<1>2. length \in Nat /\ length =< n + 1
  BY MinOfTwo, ViewAssumption
<1>3. /\ DOMAIN page = 1 .. length
      /\ \A i \in 1 .. length :
            page[i] = CASE i =< before -> <<c, i>>
                        [] i = before + 1 -> AppEvent(c)
                        [] OTHER -> <<c, i - 1>>
  BY <1>1 DEF HistoryPage
<1>. HIDE DEF page, length
<1>4. Len(page) = length
  BY <1>2, <1>3, LenProperties
<1>5. ASSUME NEW i \in 1 .. length
      PROVE  /\ i =< before => page[i] = <<c, i>>
             /\ i = before + 1 => page[i] = AppEvent(c)
             /\ i > before + 1 => page[i] = <<c, i - 1>>
  <2>1. i \in Nat /\ before \in Nat
    BY <1>2
  <2>2. ~(i = before + 1 /\ i =< before) /\ ~(i > before + 1 /\ (i =< before \/ i = before + 1))
    BY <2>1
  <2>. QED  BY <1>3, <2>2
<1>6. ASSUME NEW i \in 1 .. length, i =< before
      PROVE  i \in 1 .. n /\ \A h \in 1 .. i : \E k \in 1 .. i : page[k] = <<c, h>>
  BY <1>1, <1>2, <1>5, <1>6
<1>7. ASSUME NEW i \in 1 .. length, i > before + 1
      PROVE  i - 1 \in 1 .. n /\ \A h \in 1 .. i - 1 : \E k \in 1 .. i : page[k] = <<c, h>>
  <2>1. i - 1 \in 1 .. n
    BY <1>1, <1>2, <1>7
  <2>2. ASSUME NEW h \in 1 .. i - 1
        PROVE  \E k \in 1 .. i : page[k] = <<c, h>>
    <3>1. CASE h =< before
      <4>1. h \in 1 .. i /\ h \in 1 .. length
        BY <1>2
      <4>. QED  BY <1>5, <3>1, <4>1
    <3>2. CASE h > before
      <4>1. h + 1 \in 1 .. i /\ h + 1 \in 1 .. length /\ h + 1 > before + 1 /\ (h + 1) - 1 = h
        BY <1>1, <1>2, <3>2
      <4>. QED  BY <1>5, <4>1
    <3>. QED  BY <1>1, <3>1, <3>2
  <2>. QED  BY <2>1, <2>2
<1>8. \A i \in 1 .. length : i =< before \/ i = before + 1 \/ i > before + 1
  BY <1>1, <1>2
<1>. QED  BY <1>2, <1>4, <1>5, <1>6, <1>7, <1>8 DEF page

(* So the events of a conversation and those of a page of its history are  *)
(* events none of which lacks one it follows, however far one has read.    *)
LEMMA HistoryFits ==
    ASSUME NEW c \in Conversations, NEW n \in Nat, n =< Len(Script[c]),
           NEW ids, IdsFit(ids), \A e \in ids : e[1] = c,
           NEW i \in 1 .. Len(HistoryPage(c, n))
    PROVE  /\ IdsFit(ids \cup FirstOf(HistoryPage(c, n), i))
           /\ FirstOf(HistoryPage(c, n), i) \subseteq {AppEvent(c)} \cup AgentEvents(c, n)
<1> DEFINE page == HistoryPage(c, n)
           new == FirstOf(page, i)
<1>1. Len(page) \in Nat
  BY HistoryInOrder
<1>2. ASSUME NEW e \in new
      PROVE  \/ e = <<c, 0>>
             \/ \E j \in 1 .. n : e = <<c, j>> /\ \A h \in 1 .. j : <<c, h>> \in new
  <2>1. PICK p \in 1 .. i : e = page[p]
    BY DEF FirstOf
  <2>2. p \in 1 .. Len(page) /\ 1 .. p \subseteq 1 .. i
    BY <1>1, <2>1
  <2>3. \A k \in 1 .. i : page[k] \in new
    BY DEF FirstOf
  <2>4. \/ page[p] = AppEvent(c)
        \/ \E j \in 1 .. n : /\ page[p] = <<c, j>>
                             /\ \A h \in 1 .. j : \E k \in 1 .. p : page[k] = <<c, h>>
    BY <2>2, HistoryInOrder
  <2>. HIDE DEF new, page
  <2>. QED  BY <2>1, <2>2, <2>3, <2>4 DEF AppEvent
<1>. HIDE DEF page, new
<1>3. new \subseteq EventIds /\ \A e \in new : e[1] = c /\ e[2] =< Len(Script[c])
  <2>1. Len(Script[c]) \in Nat
    BY ScriptAssumption, LenProperties
  <2>. QED  BY <1>2, <2>1 DEF EventIds
<1>4. \A e \in new : \A h \in 1 .. e[2] : <<e[1], h>> \in new
  BY <1>2
<1>5. IdsFit(ids \cup new)
  BY <1>3, <1>4 DEF IdsFit
<1>6. new \subseteq {AppEvent(c)} \cup AgentEvents(c, n)
  BY <1>2 DEF AppEvent, AgentEvents
<1>. QED  BY <1>5, <1>6 DEF new, page

(***************************************************************************)
(* The page                                                                *)
(***************************************************************************)
(* The variables apart from the store.  A socket belongs to a page that    *)
(* shows a conversation.                                                   *)
PageFits ==
    /\ log \in [Conversations -> Nat]
    /\ \A c \in Conversations : log[c] =< Len(Script[c])
    /\ sandbox \in [Conversations -> {"running", "missing"}]
    /\ view \in Conversations \cup {Home}
    /\ socket \in [state : {"none", "connecting", "open", "waiting"}, sent : Nat]
    /\ socket.state # "none" => view \in Conversations
    /\ counting \subseteq Conversations
    /\ expected = {} \/ \E n \in Nat : expected = {n}
    /\ received \in Nat
    /\ loading \in BOOLEAN
    /\ DOMAIN history = Conversations
    /\ \A c \in Conversations : history[c].is \in {"none", "asked", "failed", "fetched"}

(* The store belongs to the page and has what the socket sent.             *)
ReadingFits ==
    /\ StoreFits(eventStore)
    /\ view # Home => \A e \in eventStore.eventIds : e[1] = view
    /\ \A i \in 1 .. socket.sent : <<view, i>> \in eventStore.eventIds

ViewInvariant == PageFits /\ ReadingFits

(* Nothing is open at first.                                               *)
LEMMA ViewInitially == ViewInit => ViewInvariant
<1> SUFFICES ASSUME ViewInit  PROVE ViewInvariant
  OBVIOUS
<1>1. PageFits
  <2>1. \A c \in Conversations : Len(Script[c]) \in Nat
    BY ScriptAssumption, LenProperties
  <2>. QED  BY <2>1 DEF ViewInit, PageFits, NoSocket, NoCount, NotAsked
<1>2. ReadingFits
  BY EmptyFits DEF ViewInit, ReadingFits, NoSocket, EmptyStore
<1>. QED  BY <1>1, <1>2 DEF ViewInvariant

(* Every step keeps the variables apart from the store.                    *)
LEMMA ViewStep == PageFits /\ [ViewNext]_viewVars => PageFits'
<1> SUFFICES ASSUME PageFits, [ViewNext]_viewVars
             PROVE  PageFits'
  OBVIOUS
<1> USE DEF PageFits
<1>1. CASE UNCHANGED viewVars
  BY <1>1 DEF viewVars, agentSide, loadVars
<1>2. ASSUME NEW c \in Conversations, AgentActs(c)
      PROVE  PageFits'
  <2>1. \A d \in Conversations : log'[d] \in Nat /\ log'[d] =< Len(Script[d])
    <3>1. Len(Script[c]) \in Nat
      BY ScriptAssumption, LenProperties
    <3>. QED  BY <1>2, <3>1 DEF AgentActs
  <2>. QED  BY <1>2, <2>1 DEF AgentActs, loadVars
<1>3. ASSUME NEW c \in Conversations, SandboxLost(c)
      PROVE  PageFits'
  BY <1>3 DEF SandboxLost, SocketGoes, loadVars
<1>4. CASE LeavePage
  BY <1>4 DEF LeavePage, NoSocket, NoCount, agentSide
<1>5. ASSUME NEW c \in Conversations, OpenPage(c)
      PROVE  PageFits'
  BY <1>5 DEF OpenPage, SocketGoes, NoCount, Asked, agentSide
<1>6. CASE SocketOpens \/ SocketRetries \/ SocketBreaks
  BY <1>6 DEF SocketOpens, SocketRetries, SocketBreaks, SocketGoes, agentSide, loadVars
<1>7. CASE ReceiveEvent
  BY <1>7 DEF ReceiveEvent, agentSide
<1>8. ASSUME NEW c \in Conversations, CountArrives(c)
      PROVE  PageFits'
  BY <1>8 DEF CountArrives, agentSide
<1>9. ASSUME NEW c \in Conversations, HistoryArrives(c)
      PROVE  PageFits'
  <2>1. \E page : history' = [history EXCEPT ![c] = Fetched(page)]
    BY <1>9 DEF HistoryArrives
  <2>2. /\ loading' \in BOOLEAN
        /\ UNCHANGED <<log, sandbox, view, socket, counting, expected, received>>
    BY <1>9 DEF HistoryArrives, agentSide
  <2>. QED  BY <2>1, <2>2 DEF Fetched
<1>10. ASSUME NEW c \in Conversations, HistoryFails(c)
       PROVE  PageFits'
  BY <1>10 DEF HistoryFails, Failed, agentSide
<1>. QED
  BY <1>1, <1>2, <1>3, <1>4, <1>5, <1>6, <1>7, <1>8, <1>9, <1>10
     DEF ViewNext, AgentSideStep, Navigation, SocketStep, Answers

(* An event that was sent is the next one, or known.                       *)
LEMMA SentFits ==
    ASSUME PageFits, ReadingFits, ReceiveEvent
    PROVE  /\ view \in Conversations
           /\ socket.sent \in Nat /\ socket.sent + 1 \in 1 .. log[view]
           /\ IdsFit(eventStore.eventIds \cup {<<view, socket.sent + 1>>})
<1> DEFINE e == <<view, socket.sent + 1>>
<1>1. /\ view \in Conversations /\ view # Home
      /\ socket.sent \in Nat /\ log[view] \in Nat
      /\ socket.sent < log[view] /\ log[view] =< Len(Script[view])
      /\ Len(Script[view]) \in Nat
  BY ScriptAssumption, ViewAssumption, LenProperties DEF ReceiveEvent, PageFits
<1>2. e \in EventIds /\ e[1] = view /\ e[2] = socket.sent + 1 /\ e[2] =< Len(Script[view])
  BY <1>1 DEF EventIds
<1>3. /\ IdsFit(eventStore.eventIds)
      /\ \A d \in eventStore.eventIds : d[1] = view
  BY <1>1 DEF ReadingFits, StoreFits
<1>4. \A i \in 1 .. e[2] : <<e[1], i>> \in eventStore.eventIds \cup {e}
  BY <1>1, <1>2 DEF ReadingFits
<1>. HIDE DEF e
<1>5. IdsFit(eventStore.eventIds \cup {e})
  BY <1>2, <1>3, <1>4 DEF IdsFit
<1>6. socket.sent + 1 \in 1 .. log[view]
  BY <1>1
<1>. QED  BY <1>1, <1>5, <1>6 DEF e

(* What is received is added.                                              *)
LEMMA ReceivingAdds ==
    ASSUME PageFits, ReadingFits, ReceiveEvent
    PROVE  /\ StoreFits(eventStore')
           /\ eventStore'.eventIds = eventStore.eventIds \cup {<<view, socket.sent + 1>>}
<1> DEFINE e == <<view, socket.sent + 1>>
<1>1. Len(<<e>>) = 1 /\ FirstOf(<<e>>, 1) = {e}
  BY DEF FirstOf
<1>2. IdsFit(eventStore.eventIds \cup {e})
  BY SentFits
<1>3. eventStore' = AddEvents(eventStore, <<e>>)
  BY DEF ReceiveEvent, AddNew
<1>. HIDE DEF e
<1>4. \A i \in 1 .. Len(<<e>>) : IdsFit(eventStore.eventIds \cup FirstOf(<<e>>, i))
  BY <1>1, <1>2
<1>. QED  BY <1>1, <1>3, <1>4, AddingAllFits DEF ReadingFits, e

(* So is the history, when it is that of the page.                         *)
LEMMA ArrivingAdds ==
    ASSUME PageFits, ReadingFits, NEW c \in Conversations, view = c,
           NEW n \in 0 .. log[c], AddNew(HistoryPage(c, n))
    PROVE  /\ StoreFits(eventStore')
           /\ \E new \in SUBSET ({AppEvent(c)} \cup AgentEvents(c, n)) :
                    eventStore'.eventIds = eventStore.eventIds \cup new
<1> DEFINE page == HistoryPage(c, n)
<1>1. n \in Nat /\ n =< Len(Script[c])
  <2>1. log[c] \in Nat /\ log[c] =< Len(Script[c]) /\ Len(Script[c]) \in Nat
    BY ScriptAssumption, LenProperties DEF PageFits
  <2>. QED  BY <2>1
<1>2. \A e \in eventStore.eventIds : e[1] = c
  BY ViewAssumption DEF ReadingFits
<1>3. IdsFit(eventStore.eventIds)
  BY DEF ReadingFits, StoreFits
<1>4. Len(page) \in Nat
  BY <1>1, HistoryInOrder
<1>5. \A i \in 1 .. Len(page) :
        /\ IdsFit(eventStore.eventIds \cup FirstOf(page, i))
        /\ FirstOf(page, i) \subseteq {AppEvent(c)} \cup AgentEvents(c, n)
  BY <1>1, <1>2, <1>3, HistoryFits
<1>6. eventStore' = AddEvents(eventStore, page)
  BY DEF AddNew
<1>. HIDE DEF page
<1>7. /\ StoreFits(eventStore')
      /\ eventStore'.eventIds = eventStore.eventIds \cup FirstOf(page, Len(page))
  BY <1>4, <1>5, <1>6, AddingAllFits DEF ReadingFits
<1>8. FirstOf(page, Len(page)) \subseteq {AppEvent(c)} \cup AgentEvents(c, n)
  <2>1. CASE Len(page) = 0
    BY <2>1 DEF FirstOf
  <2>2. CASE Len(page) # 0
    <3>1. Len(page) \in 1 .. Len(page)
      BY <1>4, <2>2
    <3>. QED  BY <1>5, <3>1
  <2>. QED  BY <2>1, <2>2
<1>. QED  BY <1>7, <1>8

(* Every step keeps the store.                                             *)
LEMMA ReadingStep ==
    ViewInvariant /\ PageFits' /\ [ViewNext]_viewVars => ReadingFits'
<1> SUFFICES ASSUME PageFits, ReadingFits, PageFits', [ViewNext]_viewVars
             PROVE  ReadingFits'
  BY DEF ViewInvariant
<1>1. ASSUME UNCHANGED <<view, eventStore>>, socket' = socket \/ socket'.sent = 0
      PROVE  ReadingFits'
  BY <1>1 DEF ReadingFits
<1>2. CASE UNCHANGED viewVars
  BY <1>1, <1>2 DEF viewVars
<1>3. ASSUME NEW c \in Conversations, AgentActs(c) \/ SandboxLost(c)
      PROVE  ReadingFits'
  BY <1>1, <1>3 DEF AgentActs, SandboxLost, SocketGoes
<1>4. CASE LeavePage
  <2>1. UNCHANGED eventStore /\ view' = Home /\ socket'.sent = 0
    BY <1>4 DEF LeavePage, NoSocket
  <2>. QED  BY <2>1 DEF ReadingFits
<1>5. ASSUME NEW c \in Conversations, OpenPage(c)
      PROVE  ReadingFits'
  <2>1. eventStore' = EmptyStore /\ socket'.sent = 0
    BY <1>5 DEF OpenPage, ClearEvents, SocketGoes
  <2>2. eventStore'.eventIds = {}
    BY <2>1 DEF EmptyStore
  <2>. QED  BY <2>1, <2>2, EmptyFits DEF ReadingFits
<1>6. CASE SocketOpens \/ SocketRetries \/ SocketBreaks
  BY <1>1, <1>6 DEF SocketOpens, SocketRetries, SocketBreaks, SocketGoes
<1>7. CASE ReceiveEvent
  <2>1. /\ StoreFits(eventStore') /\ UNCHANGED view /\ socket'.sent = socket.sent + 1
        /\ eventStore'.eventIds = eventStore.eventIds \cup {<<view, socket.sent + 1>>}
    BY <1>7, ReceivingAdds DEF ReceiveEvent, PageFits
  <2>2. socket.sent \in Nat
    BY DEF PageFits
  <2>3. \A i \in 1 .. socket.sent + 1 : i \in 1 .. socket.sent \/ i = socket.sent + 1
    BY <2>2
  <2>4. \A e \in eventStore'.eventIds : view # Home => e[1] = view
    BY <2>1 DEF ReadingFits
  <2>5. \A i \in 1 .. socket'.sent : <<view, i>> \in eventStore'.eventIds
    BY <2>1, <2>3 DEF ReadingFits
  <2>. QED  BY <2>1, <2>4, <2>5 DEF ReadingFits
<1>8. ASSUME NEW c \in Conversations, CountArrives(c) \/ HistoryFails(c)
      PROVE  ReadingFits'
  BY <1>1, <1>8 DEF CountArrives, HistoryFails
<1>9. ASSUME NEW c \in Conversations, HistoryArrives(c)
      PROVE  ReadingFits'
  <2>1. CASE view # c
    BY <1>1, <1>9, <2>1 DEF HistoryArrives
  <2>2. CASE view = c
    <3>1. PICK n \in 0 .. log[c] : AddNew(HistoryPage(c, n))
      BY <1>9, <2>2 DEF HistoryArrives
    <3>2. PICK new \in SUBSET ({AppEvent(c)} \cup AgentEvents(c, n)) :
              StoreFits(eventStore') /\ eventStore'.eventIds = eventStore.eventIds \cup new
      BY <2>2, <3>1, ArrivingAdds
    <3>3. \A e \in new : e[1] = c
      BY DEF AppEvent, AgentEvents
    <3>4. UNCHANGED <<view, socket>>
      BY <1>9 DEF HistoryArrives
    <3>. QED  BY <2>2, <3>2, <3>3, <3>4 DEF ReadingFits
  <2>. QED  BY <2>1, <2>2
<1>. QED
  BY <1>2, <1>3, <1>4, <1>5, <1>6, <1>7, <1>8, <1>9
     DEF ViewNext, AgentSideStep, Navigation, SocketStep, Answers

(* Pages, sockets and the store fit together always.                       *)
THEOREM ViewCorrect == ViewSpec => []ViewInvariant
<1>1. ViewInvariant /\ [ViewNext]_viewVars => ViewInvariant'
  BY ViewStep, ReadingStep DEF ViewInvariant
<1>. QED  BY <1>1, ViewInitially, PTL DEF ViewSpec

(* A list without repetitions is as long as the set of its elements.       *)
LEMMA OnceIsCounted ==
    ASSUME NEW list \in Seq(EventIds), Once(list)
    PROVE  Cardinality(Range(list)) = Len(list)
<1>1. list \in Bijection(1 .. Len(list), Range(list))
  BY LenProperties DEF Once, Range, Bijection, Injection, Surjection, IsInjective
<1>2. ExistsBijection(1 .. Len(list), Range(list)) /\ Len(list) \in Nat
  BY <1>1, LenProperties DEF ExistsBijection
<1>. QED  BY <1>2, FS_CountingElements

(* The values of the variables, and no event is in the store twice.        *)
THEOREM ViewTypes == ViewSpec => []ViewTypeOK
<1>1. ASSUME ViewInvariant  PROVE ViewTypeOK
  <2>1. Cardinality(expected) =< 1
    <3>1. Cardinality({}) =< 1
      BY FS_EmptySet
    <3>2. ASSUME NEW n  PROVE Cardinality({n}) =< 1
      <4>1. Cardinality({n}) = 1
        BY FS_Singleton, Zenon
      <4>. QED  BY <4>1
    <3>. QED  BY <1>1, <3>1, <3>2 DEF ViewInvariant, PageFits
  <2>2. Cardinality(eventStore.eventIds) = Len(eventStore.events)
    BY <1>1, OnceIsCounted DEF ViewInvariant, ReadingFits, StoreFits
  <2>. QED  BY <1>1, <2>1, <2>2 DEF ViewInvariant, PageFits, ReadingFits, StoreFits, ViewTypeOK
<1>. QED  BY <1>1, ViewCorrect, PTL

(* Whatever comes through the history, a replay or a live connection, in   *)
(* whatever order, the chat shows what its events amount to: addEvent with *)
(* its in-place handling computes the same as starting from the set.       *)
THEOREM ChatRendersEvents == ViewSpec => []ChatIsRendering
<1>1. ViewInvariant => ChatIsRendering
  BY OnceIsCounted DEF ViewInvariant, ReadingFits, StoreFits, Renders, ChatIsRendering
<1>. QED  BY <1>1, ViewCorrect, PTL

(* Deciding by the last event alone whether to sort keeps the whole list   *)
(* in order.                                                               *)
THEOREM StoreStaysChronological == ViewSpec => []StoreIsChronological
<1>1. ViewInvariant => StoreIsChronological
  BY DEF ViewInvariant, ReadingFits, StoreFits, Chronological, StoreIsChronological
<1>. QED  BY <1>1, ViewCorrect, PTL

(***************************************************************************)
(* The transcript                                                          *)
(***************************************************************************)
(* New events of the page's conversation are a step of its reader.         *)
LEMMA NewIsRead ==
    ASSUME view \in Conversations, UNCHANGED <<log, view>>,
           NEW new \in SUBSET ({AppEvent(view)} \cup AgentEvents(view, log[view])),
           eventStore'.eventIds = eventStore.eventIds \cup new
    PROVE  Page!Read
<1>1. Produced' = Produced
  BY DEF Produced
<1>2. {AppEvent(view)} \cup AgentEvents(view, log[view]) \subseteq Page!EventsOf(view)
  BY DEF Page!EventsOf, Produced, AppEvent, AgentEvents
<1>3. view # Home
  BY ViewAssumption
<1>. QED  BY <1>1, <1>2, <1>3 DEF Page!Read

(* Every step of the page is a step of the transcript, or none.            *)
LEMMA ViewImplements ==
    ViewInvariant /\ [ViewNext]_viewVars => [Page!TranscriptNext]_(Page!transcriptVars)
<1> SUFFICES ASSUME ViewInvariant, [ViewNext]_viewVars
             PROVE  Page!TranscriptNext \/ UNCHANGED Page!transcriptVars
  OBVIOUS
<1>1. ASSUME UNCHANGED <<log, eventStore.eventIds, view>>
      PROVE  UNCHANGED Page!transcriptVars
  BY <1>1 DEF Page!transcriptVars, Produced
<1>2. CASE UNCHANGED viewVars
  BY <1>1, <1>2 DEF viewVars, agentSide
<1>3. ASSUME NEW c \in Conversations, AgentActs(c)
      PROVE  Page!Write
  <2>1. /\ \A d \in Conversations : log[d] \in Nat /\ log'[d] \in Nat /\ log[d] =< log'[d]
        /\ UNCHANGED <<eventStore.eventIds, view>>
    BY <1>3 DEF AgentActs, ViewInvariant, PageFits
  <2>2. \A d \in Conversations : AgentEvents(d, log[d]) \subseteq AgentEvents(d, log'[d])
    BY <2>1 DEF AgentEvents
  <2>3. Produced \subseteq Produced'
    BY <2>2 DEF Produced
  <2>. QED  BY <2>1, <2>3 DEF Page!Write
<1>4. ASSUME NEW c \in Conversations, SandboxLost(c)
      PROVE  UNCHANGED Page!transcriptVars
  BY <1>1, <1>4 DEF SandboxLost
<1>5. CASE LeavePage
  <2>1. Produced' = Produced
    BY <1>5 DEF LeavePage, agentSide, Produced
  <2>. QED  BY <1>5, <2>1 DEF LeavePage, Page!TranscriptNext, Page!Turn
<1>6. ASSUME NEW c \in Conversations, OpenPage(c)
      PROVE  Page!Turn
  <2>1. Produced' = Produced
    BY <1>6 DEF OpenPage, agentSide, Produced
  <2>. QED  BY <1>6, <2>1, ViewAssumption
            DEF OpenPage, ClearEvents, EmptyStore, Page!Turn
<1>7. CASE SocketOpens \/ SocketRetries \/ SocketBreaks
  BY <1>1, <1>7 DEF SocketOpens, SocketRetries, SocketBreaks, agentSide
<1>8. CASE ReceiveEvent
  <2>1. /\ view \in Conversations /\ UNCHANGED <<log, view>>
        /\ socket.sent + 1 \in 1 .. log[view]
        /\ eventStore'.eventIds = eventStore.eventIds \cup {<<view, socket.sent + 1>>}
    BY <1>8, SentFits, ReceivingAdds DEF ReceiveEvent, ViewInvariant, agentSide
  <2>2. {<<view, socket.sent + 1>>} \subseteq AgentEvents(view, log[view])
    BY <2>1 DEF AgentEvents
  <2>. QED  BY <2>1, <2>2, NewIsRead DEF Page!TranscriptNext
<1>9. ASSUME NEW c \in Conversations, CountArrives(c) \/ HistoryFails(c)
      PROVE  UNCHANGED Page!transcriptVars
  BY <1>1, <1>9 DEF CountArrives, HistoryFails, agentSide
<1>10. ASSUME NEW c \in Conversations, HistoryArrives(c)
       PROVE  Page!Read \/ UNCHANGED Page!transcriptVars
  <2>1. CASE view # c
    BY <1>1, <1>10, <2>1 DEF HistoryArrives, agentSide
  <2>2. CASE view = c
    <3>1. PICK n \in 0 .. log[c] : AddNew(HistoryPage(c, n))
      BY <1>10, <2>2 DEF HistoryArrives
    <3>2. /\ n \in Nat /\ log[c] \in Nat /\ n =< log[c] /\ UNCHANGED <<log, view>>
          /\ PageFits /\ ReadingFits
      BY <1>10, <3>1 DEF HistoryArrives, ViewInvariant, PageFits, agentSide
    <3>3. AgentEvents(c, n) \subseteq AgentEvents(c, log[c])
      BY <3>2 DEF AgentEvents
    <3>4. PICK new \in SUBSET ({AppEvent(c)} \cup AgentEvents(c, n)) :
              eventStore'.eventIds = eventStore.eventIds \cup new
      BY <2>2, <3>1, <3>2, ArrivingAdds
    <3>. QED  BY <2>2, <3>2, <3>3, <3>4, NewIsRead
  <2>. QED  BY <2>1, <2>2
<1>. QED
  BY <1>2, <1>3, <1>4, <1>5, <1>6, <1>7, <1>8, <1>9, <1>10
     DEF ViewNext, AgentSideStep, Navigation, SocketStep, Answers, Page!TranscriptNext

(* Whatever the order of history, socket and navigation, a page shows      *)
(* nothing but events of its conversation, and takes none back before the  *)
(* user turns to another one.                                              *)
THEOREM PageImplementsTranscript == ViewSpec => ImplementsTranscript
<1>1. ViewInit => Page!TranscriptInit
  BY DEF ViewInit, EmptyStore, Page!TranscriptInit
<1>. QED
  BY <1>1, ViewCorrect, ViewImplements, PTL
     DEF ViewSpec, ImplementsTranscript, Page!TranscriptSpec
=============================================================================
