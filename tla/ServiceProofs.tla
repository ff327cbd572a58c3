---------------------------- MODULE ServiceProofs ----------------------------
(***************************************************************************)
(* Three services behind the pages: the limit on credential submissions,   *)
(* for any number of submissions and replicas, any limit, window, delay    *)
(* and difference of clocks; the saved profiles, for any names, requests   *)
(* and cap; and the sandboxes, for any conversations, processes, requests  *)
(* and faults.                                                             *)
(***************************************************************************)
EXTENDS RateLimiter, LlmProfiles, Sandboxes, FiniteSetTheorems, TLAPS

(***************************************************************************)
(* The limiter                                                             *)
(***************************************************************************)
(* A stamp lies near the time of the hit, and the transaction follows      *)
(* within the delay, unless its client has given up.                       *)
StampsFit ==
    \A h \in Hits :
        /\ hit[h].stamp =< clock + Skew
        /\ hit[h].at = "sent" => /\ hit[h].stamp + Skew >= hit[h].sent
                                 /\ hit[h].sent + Delay >= clock
        /\ hit[h].at = "allowed" => /\ hit[h].done =< clock
                                    /\ hit[h].stamp + Delay + Skew >= hit[h].done
                                    /\ hit[h].done + Window =< expires

(* Nobody has trimmed, dropped or withdrawn what was allowed recently.     *)
RecentAreKept == RecentlyAllowed \subseteq entries

LimiterInvariant ==
    /\ LimiterTypeOK
    /\ expires =< clock + Window
    /\ StampsFit
    /\ RecentAreKept
    /\ LimitIsKept

(* Nothing was submitted yet.                                              *)
LEMMA LimiterStart == LimiterInit => LimiterInvariant
<1> SUFFICES ASSUME LimiterInit
             PROVE  LimiterInvariant
  OBVIOUS
<1>1. RecentlyAllowed = {}
  BY DEF LimiterInit, RecentlyAllowed
<1>2. LimitIsKept
  BY <1>1, FS_EmptySet, LimiterAssumption DEF LimitIsKept
<1> QED
  BY <1>1, <1>2, LimiterAssumption
     DEF LimiterInit, LimiterInvariant, LimiterTypeOK, HitPhases, StampsFit, RecentAreKept

(* With fewer recent submissions the limit is still kept.                  *)
LEMMA FewerRecent ==
    ASSUME LimitIsKept, RecentlyAllowed' \subseteq RecentlyAllowed
    PROVE  LimitIsKept'
<1>1. IsFiniteSet(RecentlyAllowed)
  BY LimiterAssumption, FS_Subset DEF RecentlyAllowed
<1>2. /\ Cardinality(RecentlyAllowed') \in Nat
      /\ Cardinality(RecentlyAllowed) \in Nat
      /\ Cardinality(RecentlyAllowed') =< Cardinality(RecentlyAllowed)
  BY <1>1, FS_Subset, FS_CardinalityType
<1> QED
  BY <1>2, LimiterAssumption DEF LimitIsKept

(* The transaction of a hit leaves everything in the set that was allowed  *)
(* recently: it is younger than the window even by the stamp of the hit.   *)
LEMMA TrimKeepsRecent ==
    ASSUME LimiterInvariant, NEW h \in Hits
    PROVE  RecentlyAllowed \subseteq InWindow(h)
<1> SUFFICES ASSUME NEW g \in RecentlyAllowed
             PROVE  g \in InWindow(h)
  OBVIOUS
<1>1. /\ g \in Hits
      /\ g \in entries
      /\ hit[g].at = "allowed"
      /\ hit[g].done + Window > clock + Delay + 2 * Skew
  BY DEF RecentlyAllowed, LimiterInvariant, RecentAreKept
<1>2. /\ clock \in Nat /\ expires \in Nat
      /\ hit[g].done \in Nat /\ hit[g].stamp \in Int /\ hit[h].stamp \in Int
  BY <1>1 DEF LimiterInvariant, LimiterTypeOK
<1>3. /\ hit[g].stamp + Delay + Skew >= hit[g].done
      /\ hit[g].done + Window =< expires
      /\ hit[h].stamp =< clock + Skew
  BY <1>1 DEF LimiterInvariant, StampsFit
<1>4. clock < expires
  BY <1>1, <1>2, <1>3, LimiterAssumption
<1>5. hit[g].stamp + Window > hit[h].stamp
  BY <1>1, <1>2, <1>3, LimiterAssumption
<1> QED
  BY <1>1, <1>4, <1>5 DEF InWindow

(* Executing a hit: it is allowed only if the set has room for it.         *)
LEMMA ExecuteStep ==
    ASSUME LimiterInvariant, NEW h \in Hits, Execute(h)
    PROVE  LimiterInvariant'
<1> USE LimiterAssumption
<1>1. /\ entries' = InWindow(h) /\ expires' = clock + Window /\ clock' = clock
      /\ hit[h].at \in {"sent", "lost"}
      /\ hit' = [hit EXCEPT ![h].done = clock,
                            ![h].at = IF hit[h].at = "lost" THEN "failed"
                                      ELSE IF TooMany(h) THEN "excess" ELSE "allowed"]
  BY DEF Execute
<1>2. LimiterTypeOK'
  BY <1>1 DEF LimiterInvariant, LimiterTypeOK, HitPhases, InWindow
<1>3. expires' =< clock' + Window'
  BY <1>1 DEF LimiterInvariant, LimiterTypeOK
<1>4. StampsFit'
  BY <1>1 DEF LimiterInvariant, LimiterTypeOK, StampsFit
<1>5. RecentlyAllowed' \subseteq RecentlyAllowed \cup {h}
  BY <1>1 DEF LimiterInvariant, LimiterTypeOK, RecentlyAllowed
<1>6. RecentAreKept'
  BY <1>1, <1>5, TrimKeepsRecent DEF RecentAreKept, InWindow
<1>7. CASE hit'[h].at = "allowed"
  <2>1. ~TooMany(h)
    BY <1>1, <1>7 DEF LimiterInvariant, LimiterTypeOK
  <2>2. IsFiniteSet(InWindow(h))
    BY FS_Subset DEF LimiterInvariant, LimiterTypeOK, InWindow
  <2>3. /\ Cardinality(RecentlyAllowed') =< Cardinality(InWindow(h))
        /\ Cardinality(RecentlyAllowed') \in Nat
        /\ Cardinality(InWindow(h)) \in Nat
    BY <1>1, <1>6, <2>2, FS_Subset, FS_CardinalityType DEF RecentAreKept
  <2> QED
    BY <1>2, <1>3, <1>4, <1>6, <2>1, <2>3 DEF LimiterInvariant, LimitIsKept, TooMany
<1>8. CASE hit'[h].at # "allowed"
  <2>1. RecentlyAllowed' \subseteq RecentlyAllowed
    BY <1>5, <1>8 DEF RecentlyAllowed
  <2> QED
    BY <1>2, <1>3, <1>4, <1>6, <2>1, FewerRecent DEF LimiterInvariant
<1> QED
  BY <1>7, <1>8

(* Every step keeps the invariant.                                         *)
LEMMA LimiterStep ==
    ASSUME LimiterInvariant, [LimiterNext]_limiterVars
    PROVE  LimiterInvariant'
<1> USE LimiterAssumption
<1>1. CASE Tick
  <2>1. LimiterTypeOK' /\ expires' =< clock' + Window /\ StampsFit'
    BY <1>1 DEF Tick, LimiterInvariant, LimiterTypeOK, StampsFit
  <2>2. RecentlyAllowed' \subseteq RecentlyAllowed
    BY <1>1 DEF Tick, RecentlyAllowed, LimiterInvariant, LimiterTypeOK
  <2>3. RecentAreKept'
    BY <1>1, <2>2 DEF Tick, RecentAreKept, LimiterInvariant
  <2> QED
    BY <2>1, <2>2, <2>3, FewerRecent DEF LimiterInvariant
<1>2. ASSUME NEW h \in Hits, SubmitCredentials(h)
      PROVE  LimiterInvariant'
  <2>1. /\ clock' = clock /\ entries' = entries /\ expires' = expires
        /\ hit[h].at = "idle"
    BY <1>2 DEF SubmitCredentials
  <2>2. PICK now \in clock - Skew .. clock + Skew :
            hit' = [hit EXCEPT ![h] = [at |-> "sent", stamp |-> now,
                                       sent |-> clock, done |-> 0]]
    BY <1>2 DEF SubmitCredentials
  <2>3. LimiterTypeOK'
    BY <2>1, <2>2 DEF LimiterInvariant, LimiterTypeOK, HitPhases
  <2>4. StampsFit'
    BY <2>1, <2>2 DEF LimiterInvariant, LimiterTypeOK, StampsFit
  <2>5. RecentlyAllowed' \subseteq RecentlyAllowed
    BY <2>1, <2>2 DEF RecentlyAllowed, LimiterInvariant, LimiterTypeOK
  <2> QED
    BY <2>1, <2>3, <2>4, <2>5, FewerRecent DEF LimiterInvariant, RecentAreKept
<1>3. ASSUME NEW h \in Hits, Execute(h)
      PROVE  LimiterInvariant'
  BY <1>3, ExecuteStep
<1>4. ASSUME NEW h \in Hits, GiveUp(h)
      PROVE  LimiterInvariant'
  <2>1. LimiterTypeOK' /\ StampsFit' /\ expires' =< clock' + Window
    BY <1>4 DEF GiveUp, LimiterInvariant, LimiterTypeOK, HitPhases, StampsFit
  <2>2. RecentlyAllowed' \subseteq RecentlyAllowed
    BY <1>4 DEF GiveUp, RecentlyAllowed, LimiterInvariant, LimiterTypeOK
  <2> QED
    BY <1>4, <2>1, <2>2, FewerRecent DEF GiveUp, LimiterInvariant, RecentAreKept
<1>5. ASSUME NEW h \in Hits, Withdraw(h)
      PROVE  LimiterInvariant'
  <2>1. /\ clock' = clock /\ expires' = expires
        /\ hit[h].at = "excess"
        /\ entries \ {h} \subseteq entries' /\ entries' \subseteq entries
        /\ \E phase \in {"refused", "failed"} : hit' = [hit EXCEPT ![h].at = phase]
    BY <1>5 DEF Withdraw
  <2>2. LimiterTypeOK' /\ StampsFit'
    BY <2>1 DEF LimiterInvariant, LimiterTypeOK, HitPhases, StampsFit
  <2>3. RecentlyAllowed' \subseteq RecentlyAllowed \ {h}
    BY <2>1 DEF RecentlyAllowed, LimiterInvariant, LimiterTypeOK
  <2>4. RecentAreKept'
    BY <2>1, <2>3 DEF RecentAreKept, LimiterInvariant
  <2> QED
    BY <2>1, <2>2, <2>3, <2>4, FewerRecent DEF LimiterInvariant
<1>6. CASE UNCHANGED limiterVars
  <2>1. LimiterTypeOK' /\ StampsFit' /\ expires' =< clock' + Window
    BY <1>6 DEF limiterVars, LimiterInvariant, LimiterTypeOK, StampsFit
  <2>2. RecentlyAllowed' = RecentlyAllowed
    BY <1>6 DEF limiterVars, RecentlyAllowed
  <2> QED
    BY <1>6, <2>1, <2>2, FewerRecent DEF limiterVars, LimiterInvariant, RecentAreKept
<1> QED
  BY <1>1, <1>2, <1>3, <1>4, <1>5, <1>6 DEF LimiterNext

(* What the sorted set holds in every state.                               *)
THEOREM LimiterCorrect == LimiterSpec => []LimiterInvariant
<1>1. LimiterInvariant /\ [LimiterNext]_limiterVars => LimiterInvariant'
  BY LimiterStep
<1> QED
  BY LimiterStart, <1>1, PTL DEF LimiterSpec

(* No more submissions than the limit are allowed in a window, but for the *)
(* time a transaction takes and the difference of the clocks.              *)
THEOREM LimitIsNeverExceeded == LimiterSpec => []LimitIsKept
<1>1. LimiterInvariant => LimitIsKept
  BY DEF LimiterInvariant
<1> QED
  BY LimiterCorrect, <1>1, PTL

(***************************************************************************)
(* The profiles                                                            *)
(***************************************************************************)
(* Every document, stored or on its way, is truthful: a request stores a   *)
(* change of what it loaded, however old that is.                          *)
ProfilesInvariant ==
    /\ ProfilesTypeOK
    /\ Truthful(settings)
    /\ \A r \in Requests : Truthful(request[r].copy)

(* No document has "nothing" for a model.                                  *)
LEMMA NothingIsNoDocument == Nothing \notin Documents
<1> SUFFICES ASSUME Nothing \in Documents
             PROVE  FALSE
  OBVIOUS
<1>1. Nothing.llm \in Configs
  BY DEF Documents
<1> QED
  BY <1>1 DEF Nothing, Configs

(* Resolving an address gives a configuration.                             *)
LEMMA ResolvedIsConfig ==
    ASSUME NEW config \in Configs
    PROVE  Resolved(config) \in Configs
BY DEF Configs, Resolved

(* What reconciling leaves active is what is run.                          *)
LEMMA ReconciledIsTruthful ==
    ASSUME NEW doc \in Documents
    PROVE  /\ Reconciled(doc) \in Documents
           /\ Reconciled(doc).profiles = doc.profiles
           /\ Reconciled(doc).llm = doc.llm
           /\ Reconciled(doc).active # NoName =>
                 /\ Reconciled(doc).active \in Names
                 /\ doc.profiles[Reconciled(doc).active] = doc.llm
           /\ Truthful(Reconciled(doc))
<1>1. /\ Reconciled(doc) \in Documents
      /\ Reconciled(doc).profiles = doc.profiles
      /\ Reconciled(doc).llm = doc.llm
      /\ Reconciled(doc).active # NoName =>
            /\ Reconciled(doc).active \in Names
            /\ doc.profiles[Reconciled(doc).active] = doc.llm
  BY DEF Documents, Reconciled
<1>2. doc.llm \in Configs /\ NoProfile \notin Configs
  BY DEF Documents, Configs, NoProfile
<1> QED
  BY <1>1, <1>2 DEF Truthful, Saved

(* Merging settings, and fixing up what is run afterwards.                 *)
LEMMA MergingIsTruthful ==
    ASSUME NEW doc \in Documents, NEW llm \in Configs
    PROVE  /\ Merged(doc, llm) \in Documents /\ Truthful(Merged(doc, llm))
           /\ FixedUp(Merged(doc, llm)) \in Documents
           /\ Truthful(FixedUp(Merged(doc, llm)))
<1> DEFINE changed == [doc EXCEPT !.llm = llm]
           merged == Reconciled(changed)
<1>1. changed \in Documents /\ changed.llm = llm
  BY DEF Documents
<1>2. /\ merged \in Documents /\ Truthful(merged)
      /\ merged.llm = llm
      /\ merged.active # NoName => /\ merged.active \in Names
                                   /\ merged.profiles[merged.active] = llm
  BY <1>1, ReconciledIsTruthful
<1>3. /\ FixedUp(merged) \in Documents
      /\ FixedUp(merged).llm = Resolved(llm)
      /\ FixedUp(merged).profiles = merged.profiles
      /\ FixedUp(merged).active = merged.active
  <2> HIDE DEF merged
  <2> QED
    BY <1>2, ResolvedIsConfig DEF FixedUp, Documents
<1>4. NoProfile \notin Configs
  BY DEF Configs, NoProfile
<1>5. Truthful(FixedUp(merged))
  <2> HIDE DEF merged
  <2> QED
    BY <1>2, <1>3, <1>4 DEF Truthful, Saved
<1> QED
  BY <1>2, <1>3, <1>5 DEF Merged

(* Saving, deleting, activating and renaming profiles.                     *)
LEMMA ProfileChangesAreTruthful ==
    ASSUME NEW doc \in Documents, Truthful(doc),
           NEW new \in ProfilesSaved(doc) \cup ProfilesDeleted(doc)
                       \cup ProfilesActivated(doc) \cup ProfilesRenamed(doc)
    PROVE  new \in Documents /\ Truthful(new)
<1>1. CASE new \in ProfilesSaved(doc)
  <2>1. PICK n \in Names :
            new \in {Reconciled([doc EXCEPT !.profiles[n] = config]) : config \in Configs}
    BY <1>1 DEF ProfilesSaved
  <2>2. PICK config \in Configs : new = Reconciled([doc EXCEPT !.profiles[n] = config])
    BY <2>1
  <2>3. [doc EXCEPT !.profiles[n] = config] \in Documents
    BY DEF Documents
  <2> QED
    BY <2>3, <2>2, ReconciledIsTruthful
<1>2. CASE new \in ProfilesDeleted(doc)
  <2>1. PICK n \in Saved(doc) :
            new = [doc EXCEPT !.profiles[n] = NoProfile,
                              !.active = IF @ = n THEN NoName ELSE @]
    BY <1>2 DEF ProfilesDeleted
  <2>2. n \in Names
    BY DEF Saved
  <2>3. /\ new \in Documents
        /\ new.llm = doc.llm
        /\ new.active # NoName => new.active = doc.active /\ new.active # n
        /\ \A m \in Names : m # n => new.profiles[m] = doc.profiles[m]
    BY <2>1, <2>2 DEF Documents
  <2> QED
    BY <2>3, NothingIsNoDocument DEF Truthful, Saved
<1>3. CASE new \in ProfilesActivated(doc)
  <2>1. PICK n \in Saved(doc) :
            new = [doc EXCEPT !.profiles[n] = Resolved(@),
                              !.llm = Resolved(doc.profiles[n]),
                              !.active = n]
    BY <1>3 DEF ProfilesActivated
  <2>2. n \in Names /\ doc.profiles[n] \in Configs
    BY DEF Saved, Documents
  <2>3. /\ new \in Documents
        /\ new.llm = Resolved(doc.profiles[n])
        /\ new.active = n
        /\ new.profiles[n] = Resolved(doc.profiles[n])
    BY <2>1, <2>2, ResolvedIsConfig DEF Documents
  <2>4. Resolved(doc.profiles[n]) # NoProfile
    BY <2>2, ResolvedIsConfig DEF Configs, NoProfile
  <2> QED
    BY <2>2, <2>3, <2>4 DEF Truthful, Saved
<1>4. CASE new \in ProfilesRenamed(doc)
  <2> DEFINE Renaming(n, m) == [doc EXCEPT !.profiles[m] = doc.profiles[n],
                                           !.profiles[n] = NoProfile,
                                           !.active = IF @ = n THEN m ELSE @]
  <2>1. PICK n \in Saved(doc) : new \in {Renaming(n, m) : m \in Names \ Saved(doc)}
    BY <1>4 DEF ProfilesRenamed
  <2>2. PICK m \in Names \ Saved(doc) : new = Renaming(n, m)
    BY <2>1
  <2>3. n \in Names /\ n # m
    BY DEF Saved
  <2>4. /\ new \in Documents
        /\ new.llm = doc.llm
        /\ new.active = IF doc.active = n THEN m ELSE doc.active
        /\ new.profiles[m] = doc.profiles[n]
        /\ \A k \in Names \ {m, n} : new.profiles[k] = doc.profiles[k]
    BY <2>2, <2>3 DEF Documents
  <2> QED
    BY <2>2, <2>3, <2>4, NothingIsNoDocument, ProfilesAssumption DEF Truthful, Saved
<1> QED
  BY <1>1, <1>2, <1>3, <1>4

(* Whatever a request makes of a truthful document is truthful.            *)
LEMMA ChangesAreTruthful ==
    ASSUME NEW doc \in Documents \cup {Nothing}, Truthful(doc),
           NEW kind, NEW new \in ChangesOf(kind, doc)
    PROVE  new \in Documents /\ Truthful(new)
<1> DEFINE base == IF doc = Nothing THEN Fresh ELSE doc
<1>1. base \in Documents
  BY DEF Fresh, Documents, Configs
<1>2. ASSUME new \in SavesOf(base) \cup SeedsOf(base)
      PROVE  new \in Documents /\ Truthful(new)
  <2>1. PICK llm \in Configs : new \in {FixedUp(Merged(base, llm)), Merged(base, llm)}
    BY <1>2 DEF SavesOf, SeedsOf, Configs
  <2> HIDE DEF base
  <2> QED
    BY <1>1, <2>1, MergingIsTruthful
<1>3. CASE kind \notin {"save", "seed"}
  BY <1>3, ProfileChangesAreTruthful DEF ChangesOf
<1> QED
  BY <1>2, <1>3 DEF ChangesOf

(* No step stores or carries an untruthful document.                       *)
LEMMA ProfilesStep ==
    ASSUME ProfilesInvariant, [ProfilesNext]_profileVars
    PROVE  ProfilesInvariant'
<1> USE ProfilesAssumption DEF ProfilesInvariant, ProfilesTypeOK
<1>1. Truthful(Nothing) /\ Idle \in [kind : RequestKinds \cup {"idle"}, copy : Documents \cup {Nothing}]
  BY DEF Truthful, Idle
<1>2. Idle.copy = Nothing
  BY DEF Idle
<1>3. ASSUME NEW r \in Requests, NEW kind \in RequestKinds, Load(r, kind)
      PROVE  ProfilesInvariant'
  <2>1. settings' = settings /\ stores' = stores
    BY <1>3 DEF Load
  <2>2. PICK doc \in {settings, Nothing} :
            request' = [request EXCEPT ![r] = [kind |-> kind, copy |-> doc]]
    BY <1>3 DEF Load
  <2> QED
    BY <1>1, <2>1, <2>2 DEF Truthful, Saved
<1>4. ASSUME NEW r \in Requests, Store(r)
      PROVE  ProfilesInvariant'
  <2>1. /\ settings' \in ChangesOf(request[r].kind, request[r].copy)
        /\ request' = [request EXCEPT ![r] = Idle]
        /\ stores' \in 0 .. MaxStores
    BY <1>4 DEF Store
  <2>2. settings' \in Documents /\ Truthful(settings')
    BY <2>1, ChangesAreTruthful
  <2> QED
    BY <1>1, <1>2, <2>1, <2>2 DEF Truthful, Saved
<1>5. ASSUME NEW r \in Requests, Refuse(r)
      PROVE  ProfilesInvariant'
  BY <1>1, <1>2, <1>5 DEF Refuse, Truthful, Saved
<1>6. CASE UNCHANGED profileVars
  BY <1>6 DEF profileVars, Truthful, Saved
<1> QED
  BY <1>3, <1>4, <1>5, <1>6 DEF ProfilesNext

(* What the stored document and the copies of it are in every state.       *)
THEOREM ProfilesCorrect == ProfilesSpec => []ProfilesInvariant
<1>1. ProfilesInit => ProfilesInvariant
  BY ProfilesAssumption
     DEF ProfilesInit, ProfilesInvariant, ProfilesTypeOK, Idle, Truthful
<1>2. ProfilesInvariant /\ [ProfilesNext]_profileVars => ProfilesInvariant'
  BY ProfilesStep
<1> QED
  BY <1>1, <1>2, PTL DEF ProfilesSpec

(* The profile marked as active exists and is what is run, up to its       *)
(* default address.                                                        *)
THEOREM ActiveIsTrue == ProfilesSpec => []ActiveProfileRuns
<1>1. ProfilesInvariant => ActiveProfileRuns
  BY DEF ProfilesInvariant, ActiveProfileRuns
<1> QED
  BY ProfilesCorrect, <1>1, PTL

(***************************************************************************)
(* The sandboxes                                                           *)
(***************************************************************************)
RestartInvariant ==
    /\ lookup \in [Lookups -> [at : LookupPhases, box : Boxes \cup {NoBox}]]
    /\ active \in Nat
    /\ RestartsAreCounted

(* A request that finds a sandbox dead takes it for itself.                *)
LEMMA ClaimIsCounted ==
    ASSUME RestartInvariant, NEW l \in Lookups, NEW s \in Boxes, ClaimRestart(l, s)
    PROVE  RestartInvariant'
<1> USE SandboxAssumption DEF RestartInvariant, RestartsAreCounted
<1>1. /\ lookup[l].at = "idle" /\ s \notin restarting
      /\ lookup' = [lookup EXCEPT ![l] = [at |-> "claimed", box |-> s]]
      /\ restarting' = restarting \cup {s}
      /\ active' = active + 1
  BY DEF ClaimRestart
<1>2. Restarters' = Restarters \cup {l} /\ l \notin Restarters
  BY <1>1 DEF Restarters
<1>3. IsFiniteSet(Restarters)
  BY FS_Subset DEF Restarters
<1>4. Cardinality(Restarters') = Cardinality(Restarters) + 1
  BY <1>2, <1>3, FS_AddElement
<1>5. lookup' \in [Lookups -> [at : LookupPhases, box : Boxes \cup {NoBox}]]
  BY <1>1 DEF LookupPhases
<1>6. \A m \in Restarters : m # l /\ lookup'[m] = lookup[m] /\ lookup[m].box # s
  BY <1>1, <1>2 DEF Restarters
<1>7. lookup'[l].box = s
  BY <1>1
<1>8. restarting' = {lookup'[m].box : m \in Restarters'}
  BY <1>1, <1>2, <1>6, <1>7
<1>9. \A m, n \in Restarters' : lookup'[m].box = lookup'[n].box => m = n
  BY <1>2, <1>6, <1>7
<1>10. active' \in Nat /\ active' = Cardinality(Restarters')
  BY <1>1, <1>4
<1> QED
  BY <1>5, <1>8, <1>9, <1>10

(* However a restart ends, only its own traces go.                         *)
LEMMA FinishIsCounted ==
    ASSUME RestartInvariant, NEW l \in Lookups, lookup[l].at # "idle", Finish(l)
    PROVE  RestartInvariant'
<1> USE SandboxAssumption DEF RestartInvariant, RestartsAreCounted
<1>1. /\ lookup' = [lookup EXCEPT ![l] = NoSearch]
      /\ restarting' = restarting \ {lookup[l].box}
      /\ active' = active - 1
  BY DEF Finish
<1>2. Restarters' = Restarters \ {l} /\ l \in Restarters
  BY <1>1 DEF Restarters, NoSearch
<1>3. IsFiniteSet(Restarters)
  BY FS_Subset DEF Restarters
<1>4. /\ Cardinality(Restarters') = Cardinality(Restarters) - 1
      /\ Cardinality(Restarters') \in Nat
  BY <1>2, <1>3, FS_RemoveElement, FS_CardinalityType
<1>5. lookup' \in [Lookups -> [at : LookupPhases, box : Boxes \cup {NoBox}]]
  BY <1>1 DEF LookupPhases, NoSearch
<1>6. \A m \in Restarters' : lookup'[m] = lookup[m] /\ lookup[m].box # lookup[l].box
  BY <1>1, <1>2 DEF Restarters
<1>7. restarting' = {lookup'[m].box : m \in Restarters'}
  BY <1>1, <1>2, <1>6
<1>8. \A m, n \in Restarters' : lookup'[m].box = lookup'[n].box => m = n
  BY <1>2, <1>6
<1> QED
  BY <1>1, <1>4, <1>5, <1>7, <1>8

(* A restart that goes on is the same one.                                 *)
LEMMA MovingIsCounted ==
    ASSUME RestartInvariant, NEW l \in Lookups, lookup[l].at # "idle",
           NEW phase \in LookupPhases \ {"idle"},
           lookup' = [lookup EXCEPT ![l].at = phase],
           UNCHANGED <<restarting, active>>
    PROVE  RestartInvariant'
<1>1. lookup' \in [Lookups -> [at : LookupPhases, box : Boxes \cup {NoBox}]]
  BY DEF RestartInvariant
<1>2. \A m \in Lookups : /\ lookup'[m].box = lookup[m].box
                         /\ lookup'[m].at # "idle" <=> lookup[m].at # "idle"
  BY DEF RestartInvariant
<1>3. Restarters' = Restarters
  BY <1>2 DEF Restarters
<1>4. \A m \in Restarters : lookup'[m].box = lookup[m].box
  BY <1>2 DEF Restarters
<1>5. {lookup'[m].box : m \in Restarters} = {lookup[m].box : m \in Restarters}
  BY <1>4
<1> QED
  BY <1>1, <1>3, <1>4, <1>5 DEF RestartInvariant, RestartsAreCounted

(* Every step keeps the books of the restarts.                             *)
LEMMA RestartsStep ==
    ASSUME RestartInvariant, [SandboxNext]_sandboxVars
    PROVE  RestartInvariant'
<1>1. ASSUME UNCHANGED restartVars
      PROVE  RestartInvariant'
  BY <1>1 DEF restartVars, RestartInvariant, RestartsAreCounted, Restarters
<1>2. ASSUME NEW l \in Lookups, RestartStep(l)
      PROVE  RestartInvariant'
  <2>1. ASSUME NEW s \in Boxes, ClaimRestart(l, s)
        PROVE  RestartInvariant'
    BY <2>1, ClaimIsCounted
  <2>2. CASE GiveUpRestart(l) \/ RestartSucceeds(l) \/ RollBackRestart(l)
    BY <2>2, FinishIsCounted DEF GiveUpRestart, RestartSucceeds, RollBackRestart
  <2>3. CASE SpawnAgain(l) \/ EnterAgain(l)
    <3>1. /\ lookup[l].at # "idle"
          /\ UNCHANGED <<restarting, active>>
          /\ \E phase \in LookupPhases \ {"idle"} :
                lookup' = [lookup EXCEPT ![l].at = phase]
      BY <2>3 DEF SpawnAgain, EnterAgain, LookupPhases
    <3> QED
      BY <3>1, MovingIsCounted
  <2> QED
    BY <1>2, <2>1, <2>2, <2>3 DEF RestartStep
<1>3. ASSUME Reboot
      PROVE  RestartInvariant'
  <2>1. /\ lookup' = [l \in Lookups |-> NoSearch]
        /\ restarting' = {} /\ active' = 0
    BY <1>3 DEF Reboot
  <2>2. Restarters' = {}
    BY <2>1 DEF Restarters, NoSearch
  <2>3. lookup' \in [Lookups -> [at : LookupPhases, box : Boxes \cup {NoBox}]]
    BY <2>1 DEF NoSearch, LookupPhases
  <2> QED
    BY <2>1, <2>2, <2>3, FS_EmptySet DEF RestartInvariant, RestartsAreCounted
<1>4. ASSUME NEW c \in Talks, StartStepOf(c) \/ RemovalStep(c)
      PROVE  UNCHANGED restartVars
  BY <1>4 DEF StartStepOf, RemovalStep, StartAlone, StartGrouped, StartNamed, Spawn, Enter,
              Booted, BootFails, Post, StoreTalk, AbandonStart, ReportArrives, ReportSaved,
              BeginRemoval, TellAgent, CommitRemoval, RefuseRemoval, CountLeft, RemoveBox
<1>5. ASSUME (\E s \in Boxes : Die(s) \/ PidReused(s)) \/ Reload \/ UNCHANGED sandboxVars
      PROVE  UNCHANGED restartVars
  BY <1>5 DEF Die, PidReused, Reload, sandboxVars
<1> QED
  BY <1>1, <1>2, <1>3, <1>4, <1>5 DEF SandboxNext

(* Nothing is being restarted at first.                                    *)
LEMMA RestartsStart == SandboxInit => RestartInvariant
<1> SUFFICES ASSUME SandboxInit
             PROVE  RestartInvariant
  OBVIOUS
<1>1. Restarters = {}
  BY DEF SandboxInit, Restarters, NoSearch
<1> QED
  BY <1>1, FS_EmptySet
     DEF SandboxInit, RestartInvariant, RestartsAreCounted, NoSearch, LookupPhases

(* What keeps other requests off a sandbox that is being restarted is      *)
(* there exactly as long as its restart, whatever the requests do.         *)
THEOREM RestartsStayCounted == SandboxSpec => []RestartsAreCounted
<1>1. RestartInvariant /\ [SandboxNext]_sandboxVars => RestartInvariant'
  BY RestartsStep
<1>2. RestartInvariant => RestartsAreCounted
  BY DEF RestartInvariant
<1> QED
  BY RestartsStart, <1>1, <1>2, PTL DEF SandboxSpec

(***************************************************************************)
(* A conversation that did not start has nothing; one that did has a       *)
(* sandbox, a sub-conversation that of its parent; and those that are      *)
(* deleted along with a conversation are in its sandbox.                   *)
(***************************************************************************)
TalkType == [start : TalkPhases, parent : Talks \cup {NoTalk}, box : Boxes \cup {NoBox},
             row : Rows, hook : Rows, removal : RemovalPhases, shared : BOOLEAN,
             along : SUBSET Talks]

Begun(c) == talk[c].start # "none"

TalkInvariant ==
    /\ table \in [Boxes -> Entries] /\ workspace \subseteq Boxes
    /\ talk \in [Talks -> TalkType]
    /\ hosted \subseteq {c \in Talks : Begun(c)}
    /\ \A c \in Talks :
        /\ Begun(c) => talk[c].box \in Boxes
        /\ ~Begun(c) => /\ talk[c].row = "none" /\ talk[c].hook = "none"
                        /\ talk[c].removal = "none" /\ talk[c].along = {}
        /\ talk[c].parent # NoTalk => /\ Begun(talk[c].parent)
                                      /\ talk[talk[c].parent].box = talk[c].box
        /\ \A x \in talk[c].along : Begun(x) /\ talk[x].box = talk[c].box

(* A deletion leaves the table typed, and hosts nobody new.                *)
LEMMA DeletingBox ==
    ASSUME TalkInvariant, NEW s \in Boxes, DeleteBox(s)
    PROVE  /\ table' \in [Boxes -> Entries] /\ workspace' \subseteq Boxes
           /\ hosted' \subseteq hosted
           /\ table'[s] = "none"
BY DEF DeleteBox, TalkInvariant, processVars, Entries

(* A step that moves no conversation to another sandbox or parent keeps    *)
(* the invariant.                                                          *)
LEMMA StayingInPlace ==
    ASSUME TalkInvariant,
           table' \in [Boxes -> Entries], workspace' \subseteq Boxes,
           talk' \in [Talks -> TalkType],
           hosted' \subseteq {c \in Talks : Begun(c)},
           \A c \in Talks :
                /\ talk'[c].start # "none" <=> Begun(c)
                /\ talk'[c].box = talk[c].box /\ talk'[c].parent = talk[c].parent
                /\ ~Begun(c) => talk'[c] = talk[c]
                /\ talk'[c].along \subseteq talk[c].along \cup Subs(c)
    PROVE  TalkInvariant'
<1> USE SandboxAssumption
<1>1. \A c \in Talks : Begun(c)' <=> Begun(c)
  BY DEF Begun
<1>2. hosted' \subseteq {c \in Talks : Begun(c)'}
  BY <1>1
<1> SUFFICES ASSUME NEW c \in Talks
             PROVE  /\ Begun(c)' => talk'[c].box \in Boxes
                    /\ ~Begun(c)' => /\ talk'[c].row = "none" /\ talk'[c].hook = "none"
                                     /\ talk'[c].removal = "none" /\ talk'[c].along = {}
                    /\ talk'[c].parent # NoTalk =>
                            /\ Begun(talk[c].parent)'
                            /\ talk'[talk[c].parent].box = talk'[c].box
                    /\ \A x \in talk'[c].along : Begun(x)' /\ talk'[x].box = talk'[c].box
  BY <1>2 DEF TalkInvariant
<1>3. (Begun(c)' => talk'[c].box \in Boxes)
      /\ (~Begun(c)' => /\ talk'[c].row = "none" /\ talk'[c].hook = "none"
                        /\ talk'[c].removal = "none" /\ talk'[c].along = {})
  BY <1>1 DEF TalkInvariant
<1>4. ASSUME talk'[c].parent # NoTalk
      PROVE  Begun(talk[c].parent)' /\ talk'[talk[c].parent].box = talk'[c].box
  <2>1. talk[c].parent \in Talks
    BY <1>4 DEF TalkInvariant, TalkType
  <2> QED
    BY <1>1, <1>4, <2>1 DEF TalkInvariant
<1>5. ASSUME NEW x \in talk'[c].along
      PROVE  Begun(x)' /\ talk'[x].box = talk'[c].box
  <2>1. x \in Talks /\ x \in talk[c].along \cup Subs(c)
    BY <1>5 DEF TalkType
  <2>2. CASE x \in talk[c].along
    BY <1>1, <2>1, <2>2 DEF TalkInvariant
  <2>3. CASE x \in Subs(c)
    <3>1. talk[x].row = "full" /\ talk[x].parent = c
      BY <2>3 DEF Subs
    <3>2. Begun(x) /\ talk[c].box = talk[x].box
      BY <2>1, <3>1 DEF TalkInvariant
    <3> QED
      BY <1>1, <2>1, <3>2
  <2> QED
    BY <2>1, <2>2, <2>3
<1> QED
  BY <1>3, <1>4, <1>5

(* A conversation that starts takes a sandbox, with a parent that of it.   *)
LEMMA TakingASandbox ==
    ASSUME TalkInvariant, NEW c \in Talks, ~Begun(c),
           NEW s \in Boxes, NEW phase \in TalkPhases \ {"none"},
           NEW parent \in Talks \cup {NoTalk},
           parent # NoTalk => Begun(parent) /\ talk[parent].box = s,
           GoesTo(c, s, parent, phase),
           UNCHANGED <<processVars, hosted>>
    PROVE  TalkInvariant'
<1> USE SandboxAssumption
<1>0. talk \in [Talks -> TalkType] /\ talk[c] \in TalkType /\ talk[c].along = {}
  BY DEF TalkInvariant
<1>1. /\ table' \in [Boxes -> Entries] /\ workspace' \subseteq Boxes
      /\ talk' \in [Talks -> TalkType]
  <2>1. [talk[c] EXCEPT !.start = phase, !.box = s, !.parent = parent] \in TalkType
    BY <1>0 DEF TalkType
  <2>2. talk' = [talk EXCEPT ![c] = [talk[c] EXCEPT !.start = phase, !.box = s,
                                                    !.parent = parent]]
    BY <1>0 DEF TalkType, GoesTo
  <2>3. talk' \in [Talks -> TalkType]
    BY <1>0, <2>1, <2>2
  <2> QED
    BY <2>3 DEF TalkInvariant, processVars
<1>2. /\ \A x \in Talks \ {c} : talk'[x] = talk[x]
      /\ talk'[c].start = phase /\ talk'[c].box = s /\ talk'[c].parent = parent
      /\ talk'[c].along = {}
  BY <1>0 DEF TalkType, GoesTo
<1>3. /\ Begun(c)'
      /\ \A x \in Talks : Begun(x) => Begun(x)' /\ x # c
      /\ \A x \in Talks \ {c} : Begun(x)' <=> Begun(x)
  BY <1>2 DEF Begun
<1>4. hosted' \subseteq {x \in Talks : Begun(x)'}
  BY <1>3 DEF TalkInvariant
<1>5. ASSUME NEW x \in Talks, talk'[x].parent # NoTalk
      PROVE  Begun(talk[x].parent)' /\ talk'[talk'[x].parent].box = talk'[x].box
  <2>1. CASE x = c
    <3>1. /\ parent # NoTalk /\ parent \in Talks
          /\ Begun(parent) /\ talk[parent].box = s
      BY <1>2, <1>5, <2>1
    <3>2. parent # c /\ Begun(parent)' /\ talk'[parent] = talk[parent]
      BY <1>2, <1>3, <3>1
    <3> QED
      BY <1>2, <2>1, <3>1, <3>2 DEF Begun
  <2>2. CASE x # c
    <3>1. talk'[x].parent = talk[x].parent /\ talk[x].parent \in Talks
      BY <1>2, <1>5, <2>2 DEF TalkInvariant, TalkType
    <3>2. Begun(talk[x].parent) /\ talk[talk[x].parent].box = talk[x].box
      BY <1>5, <3>1 DEF TalkInvariant
    <3>3. talk[x].parent # c
      BY <1>3, <3>1, <3>2
    <3>4. talk'[talk[x].parent] = talk[talk[x].parent] /\ talk'[x] = talk[x]
      BY <1>2, <2>2, <3>1, <3>3
    <3> QED
      BY <3>1, <3>2, <3>4 DEF Begun
  <2> QED
    BY <2>1, <2>2
<1>6. ASSUME NEW x \in Talks, NEW y \in talk'[x].along
      PROVE  Begun(y)' /\ talk'[y].box = talk'[x].box
  <2>1. x # c /\ y \in talk[x].along /\ y \in Talks
    BY <1>2, <1>6 DEF TalkInvariant, TalkType
  <2>2. Begun(y) /\ talk[y].box = talk[x].box
    BY <2>1 DEF TalkInvariant
  <2> QED
    BY <1>2, <1>3, <2>1, <2>2
<1>7. ASSUME NEW x \in Talks
      PROVE  /\ Begun(x)' => talk'[x].box \in Boxes
             /\ ~Begun(x)' => /\ talk'[x].row = "none" /\ talk'[x].hook = "none"
                              /\ talk'[x].removal = "none" /\ talk'[x].along = {}
  BY <1>2, <1>3 DEF TalkInvariant
<1>8. \A x \in Talks :
        /\ Begun(x)' => talk'[x].box \in Boxes
        /\ ~Begun(x)' => /\ talk'[x].row = "none" /\ talk'[x].hook = "none"
                         /\ talk'[x].removal = "none" /\ talk'[x].along = {}
        /\ talk'[x].parent # NoTalk => /\ Begun(talk[x].parent)'
                                       /\ talk'[talk'[x].parent].box = talk'[x].box
        /\ \A y \in talk'[x].along : Begun(y)' /\ talk'[y].box = talk'[x].box
  BY <1>5, <1>6, <1>7
<1> QED
  BY ONLY <1>1, <1>4, <1>8 DEF TalkInvariant

(* Every step keeps the invariant.                                         *)
LEMMA TalkStep ==
    ASSUME TalkInvariant, [SandboxNext]_sandboxVars
    PROVE  TalkInvariant'
<1> USE SandboxAssumption
<1>0. /\ table \in [Boxes -> Entries] /\ workspace \subseteq Boxes
      /\ talk \in [Talks -> TalkType]
      /\ hosted \subseteq {c \in Talks : Begun(c)}
  BY DEF TalkInvariant
<1>1. ASSUME UNCHANGED talkVars,
             table' \in [Boxes -> Entries], workspace' \subseteq Boxes
      PROVE  TalkInvariant'
  BY <1>0, <1>1, StayingInPlace DEF talkVars, Begun
<1>2. ASSUME NEW c \in Talks, StartAlone(c) \/ StartGrouped(c) \/ StartNamed(c)
      PROVE  TalkInvariant'
  <2>1. ~Begun(c) /\ UNCHANGED <<processVars, hosted>>
    BY <1>2 DEF StartAlone, StartGrouped, StartNamed, Begun
  <2>2. CASE StartAlone(c) \/ StartGrouped(c)
    <3>1. PICK s \in Boxes, phase \in {"creating", "waking"} : GoesTo(c, s, NoTalk, phase)
      BY <2>2 DEF StartAlone, StartGrouped
    <3> QED
      BY <2>1, <3>1, TakingASandbox DEF TalkPhases
  <2>3. CASE StartNamed(c)
    <3>1. PICK other \in Talks, parent \in Talks \cup {NoTalk},
               phase \in {"creating", "waking"} :
            /\ talk[other].row # "none" /\ parent \in {NoTalk, other}
            /\ GoesTo(c, talk[other].box, parent, phase)
      BY <2>3 DEF StartNamed
    <3>2. Begun(other) /\ talk[other].box \in Boxes
      BY <3>1 DEF TalkInvariant
    <3> QED
      BY <2>1, <3>1, <3>2, TakingASandbox DEF TalkPhases
  <2> QED
    BY <1>2, <2>2, <2>3
<1>3. ASSUME NEW c \in Talks, NEW from \in TalkPhases \ {"none"},
             NEW to \in TalkPhases \ {"none"}, StartMoves(c, from, to),
             table' \in [Boxes -> Entries], workspace' \subseteq Boxes,
             hosted' \subseteq hosted \cup {c}
      PROVE  TalkInvariant'
  <2>1. Begun(c) /\ talk' = [talk EXCEPT ![c].start = to]
    BY <1>3 DEF StartMoves, Begun
  <2>2. talk' \in [Talks -> TalkType]
    BY <1>0, <2>1 DEF TalkType
  <2>3. \A x \in Talks : /\ talk'[x].start # "none" <=> Begun(x)
                         /\ talk'[x].box = talk[x].box /\ talk'[x].parent = talk[x].parent
                         /\ ~Begun(x) => talk'[x] = talk[x]
                         /\ talk'[x].along = talk[x].along
    BY <1>0, <2>1 DEF TalkType, Begun
  <2> QED
    BY <1>0, <1>3, <2>1, <2>2, <2>3, StayingInPlace
<1>4. ASSUME NEW c \in Talks,
             Spawn(c) \/ Enter(c) \/ Booted(c) \/ BootFails(c) \/ Post(c) \/ AbandonStart(c)
      PROVE  TalkInvariant'
  <2>0. talk[c].start # "none" => talk[c].box \in Boxes
    BY DEF TalkInvariant, Begun
  <2>1. CASE Spawn(c)
    BY <1>0, <1>3, <2>0, <2>1 DEF Spawn, StartMoves, TalkPhases
  <2>2. CASE Enter(c)
    <3>1. table' \in [Boxes -> Entries]
      BY <1>0, <2>2 DEF Enter, Entries
    <3> QED
      BY <1>0, <1>3, <2>2, <3>1 DEF Enter, TalkPhases
  <2>3. CASE Booted(c)
    BY <1>0, <1>3, <2>3 DEF Booted, TalkPhases, processVars
  <2>4. CASE BootFails(c)
    <3>1. /\ table' \in [Boxes -> Entries] /\ workspace' \subseteq Boxes
          /\ hosted' \subseteq hosted
      BY <2>0, <2>4, DeletingBox DEF BootFails, StartMoves
    <3> QED
      BY <1>3, <2>4, <3>1 DEF BootFails, TalkPhases
  <2>5. CASE Post(c)
    BY <1>0, <1>3, <2>5 DEF Post, TalkPhases, processVars
  <2>6. CASE AbandonStart(c)
    BY <1>0, <1>3, <2>6 DEF AbandonStart, TalkPhases, processVars
  <2> QED
    BY <1>4, <2>1, <2>2, <2>3, <2>4, <2>5, <2>6
<1> DEFINE Fits(c, new) ==
            /\ new \in TalkType /\ new.start # "none"
            /\ new.box = talk[c].box /\ new.parent = talk[c].parent
            /\ new.along \subseteq talk[c].along \cup Subs(c)
<1>5. ASSUME NEW c \in Talks, Begun(c), NEW new, Fits(c, new),
             talk' = [talk EXCEPT ![c] = new],
             table' \in [Boxes -> Entries], workspace' \subseteq Boxes,
             hosted' \subseteq hosted
      PROVE  TalkInvariant'
  <2>1. talk' \in [Talks -> TalkType]
    BY <1>0, <1>5
  <2>2. \A x \in Talks : /\ talk'[x].start # "none" <=> Begun(x)
                         /\ talk'[x].box = talk[x].box /\ talk'[x].parent = talk[x].parent
                         /\ ~Begun(x) => talk'[x] = talk[x]
                         /\ talk'[x].along \subseteq talk[x].along \cup Subs(x)
    BY <1>0, <1>5 DEF Begun
  <2> QED
    BY <1>0, <1>5, <2>1, <2>2, StayingInPlace
<1> HIDE DEF Fits
<1>6. ASSUME NEW c \in Talks, StoreTalk(c) \/ ReportArrives(c) \/ ReportSaved(c)
      PROVE  TalkInvariant'
  <2>1. talk[c] \in TalkType /\ UNCHANGED <<processVars, hosted>>
    BY <1>0, <1>6 DEF StoreTalk, ReportArrives, ReportSaved
  <2>2. Begun(c)
    BY <1>6 DEF StoreTalk, ReportArrives, ReportSaved, StartMoves, TalkInvariant, Begun
  <2>3. CASE StoreTalk(c)
    <3>1. talk' = [talk EXCEPT ![c] = [talk[c] EXCEPT !.start = "over", !.row = "full"]]
      BY <1>0, <2>1, <2>3 DEF StoreTalk, TalkType
    <3>2. Fits(c, [talk[c] EXCEPT !.start = "over", !.row = "full"])
      BY <1>0, <2>1, <2>2 DEF Fits, TalkType, Begun, TalkPhases, Rows
    <3> QED
      BY <1>0, <1>5, <2>1, <2>2, <3>1, <3>2 DEF processVars
  <2>4. CASE ReportArrives(c)
    <3>1. PICK hook \in Rows : talk' = [talk EXCEPT ![c] = [talk[c] EXCEPT !.hook = hook]]
      BY <1>0, <2>1, <2>4 DEF ReportArrives, TalkType, Rows
    <3>2. Fits(c, [talk[c] EXCEPT !.hook = hook])
      BY <1>0, <2>1, <2>2 DEF Fits, TalkType, Begun, Rows
    <3> QED
      BY <1>0, <1>5, <2>1, <2>2, <3>1, <3>2 DEF processVars
  <2>5. CASE ReportSaved(c)
    <3>1. talk' = [talk EXCEPT ![c] = [talk[c] EXCEPT !.hook = "none", !.row = talk[c].hook]]
      BY <1>0, <2>1, <2>5 DEF ReportSaved, TalkType
    <3>2. Fits(c, [talk[c] EXCEPT !.hook = "none", !.row = talk[c].hook])
      BY <1>0, <2>1, <2>2 DEF Fits, TalkType, Begun, Rows
    <3> QED
      BY <1>0, <1>5, <2>1, <2>2, <3>1, <3>2 DEF processVars
  <2> QED
    BY <1>6, <2>3, <2>4, <2>5
<1>7. ASSUME NEW c \in Talks,
             BeginRemoval(c) \/ TellAgent(c) \/ RefuseRemoval(c) \/ CountLeft(c) \/ RemoveBox(c)
      PROVE  TalkInvariant'
  <2>1. talk[c] \in TalkType
    BY <1>0
  <2>2. Begun(c)
    BY <1>7 DEF BeginRemoval, TellAgent, RefuseRemoval, CountLeft, RemoveBox, TalkInvariant
  <2>3. PICK new : Fits(c, new) /\ talk' = [talk EXCEPT ![c] = new]
    <3>1. Subs(c) \subseteq Talks
      BY DEF Subs
    <3>2. ASSUME NEW removal \in RemovalPhases, NEW shared \in BOOLEAN
          PROVE  Fits(c, [talk[c] EXCEPT !.removal = removal, !.shared = shared])
      BY <2>1, <2>2 DEF Fits, TalkType, Begun
    <3>4. CASE BeginRemoval(c)
      <4> DEFINE shared == Cardinality(Stored(talk[c].box)) > 1
                 new == [talk[c] EXCEPT !.removal = "begun", !.shared = shared]
      <4>1. talk' = [talk EXCEPT ![c] = new]
        BY <1>0, <2>1, <3>4 DEF BeginRemoval, TalkType
      <4>2. shared \in BOOLEAN
        OBVIOUS
      <4> HIDE DEF shared
      <4>3. Fits(c, new)
        BY <3>2, <4>2 DEF RemovalPhases
      <4> QED
        BY <4>1, <4>3
    <3>5. CASE TellAgent(c)
      <4> DEFINE new == [talk[c] EXCEPT !.removal = "deleting", !.along = Subs(c)]
      <4>1. talk' = [talk EXCEPT ![c] = new]
        BY <1>0, <2>1, <3>5 DEF TellAgent, TalkType
      <4>2. Fits(c, new)
        BY <2>1, <2>2, <3>1 DEF Fits, TalkType, Begun, RemovalPhases
      <4> QED
        BY <4>1, <4>2
    <3>6. CASE RefuseRemoval(c)
      <4> DEFINE new == [talk[c] EXCEPT !.removal = "none", !.shared = FALSE,
                                                        !.along = {}]
      <4>1. talk' = [talk EXCEPT ![c] = new]
        BY <1>0, <2>1, <3>6 DEF RefuseRemoval, TalkType
      <4>2. Fits(c, new)
        BY <2>1, <2>2, <3>1 DEF Fits, TalkType, Begun, RemovalPhases
      <4> QED
        BY <4>1, <4>2
    <3>7. CASE CountLeft(c)
      <4> DEFINE new == [talk[c] EXCEPT !.removal = IF Stored(talk[c].box) = {} THEN "killing" ELSE "none",
                              !.shared = FALSE]
      <4>1. talk' = [talk EXCEPT ![c] = new]
        BY <1>0, <2>1, <3>7 DEF CountLeft, TalkType
      <4>2. Fits(c, new)
        BY <2>1, <2>2, <3>1, <3>2 DEF RemovalPhases
      <4> QED
        BY <4>1, <4>2
    <3>8. CASE RemoveBox(c)
      <4> DEFINE new == [talk[c] EXCEPT !.removal = "none"]
      <4>1. talk' = [talk EXCEPT ![c] = new]
        BY <1>0, <2>1, <3>8 DEF RemoveBox, TalkType
      <4>2. Fits(c, new)
        BY <2>1, <2>2, <3>1 DEF Fits, TalkType, Begun, RemovalPhases
      <4> QED
        BY <4>1, <4>2
    <3> QED
      BY <1>7, <3>4, <3>5, <3>6, <3>7, <3>8
  <2>4. /\ table' \in [Boxes -> Entries] /\ workspace' \subseteq Boxes
        /\ hosted' \subseteq hosted
    <3>1. CASE RemoveBox(c)
      BY <2>2, <3>1, DeletingBox DEF RemoveBox, TalkInvariant
    <3> QED
      BY <1>0, <1>7, <3>1 DEF BeginRemoval, TellAgent, RefuseRemoval, CountLeft, processVars
  <2> QED
    BY <1>5, <2>2, <2>3, <2>4
<1>8. ASSUME NEW c \in Talks, CommitRemoval(c)
      PROVE  TalkInvariant'
  <2>1. /\ UNCHANGED <<processVars, hosted>>
        /\ talk[c].row # "none"
        /\ talk' = [x \in Talks |->
                IF x = c THEN [talk[c] EXCEPT !.removal = "counting", !.row = "none",
                                              !.along = {}]
                ELSE IF x \in talk[c].along THEN [talk[x] EXCEPT !.row = "none"]
                ELSE talk[x]]
    BY <1>8 DEF CommitRemoval
  <2>2. Begun(c) /\ \A x \in talk[c].along : Begun(x)
    BY <2>1 DEF TalkInvariant
  <2>3. talk' \in [Talks -> TalkType]
    <3>1. ASSUME NEW x \in Talks
          PROVE  /\ [talk[x] EXCEPT !.row = "none"] \in TalkType
                 /\ [talk[x] EXCEPT !.removal = "counting", !.row = "none",
                                    !.along = {}] \in TalkType
      <4>1. talk[x] \in TalkType
        BY <1>0
      <4>2. [talk[x] EXCEPT !.row = "none"] \in TalkType
        BY <4>1 DEF TalkType, Rows
      <4>3. [talk[x] EXCEPT !.removal = "counting", !.row = "none", !.along = {}] \in TalkType
        BY <4>1 DEF TalkType, Rows, RemovalPhases
      <4> QED
        BY <4>2, <4>3
    <3> QED
      BY <1>0, <2>1, <3>1
  <2>4. \A x \in Talks : /\ talk'[x].start # "none" <=> Begun(x)
                         /\ talk'[x].box = talk[x].box /\ talk'[x].parent = talk[x].parent
                         /\ ~Begun(x) => talk'[x] = talk[x]
                         /\ talk'[x].along \subseteq talk[x].along
    BY <1>0, <2>1, <2>2 DEF TalkType, Begun
  <2> QED
    BY <1>0, <2>1, <2>3, <2>4, StayingInPlace DEF processVars
<1>9. ASSUME Reboot
      PROVE  TalkInvariant'
  <2>1. talk' = [c \in Talks |->
                    [Unborn EXCEPT !.start = IF talk[c].start = "none" THEN "none" ELSE "over",
                                   !.parent = talk[c].parent, !.box = talk[c].box,
                                   !.row = talk[c].row]]
    BY <1>9 DEF Reboot
  <2>2. talk' \in [Talks -> TalkType]
    BY <1>0, <2>1 DEF TalkType, TalkPhases, RemovalPhases, Rows, Unborn
  <2>3. table' \in [Boxes -> Entries] /\ UNCHANGED <<workspace, hosted>>
    BY <1>9 DEF Reboot, LoadTable, Entries
  <2>4. \A x \in Talks : /\ talk'[x].start # "none" <=> Begun(x)
                         /\ talk'[x].box = talk[x].box /\ talk'[x].parent = talk[x].parent
                         /\ talk'[x].hook = "none" /\ talk'[x].removal = "none"
                         /\ talk'[x].row = talk[x].row
                         /\ talk'[x].along = {}
    BY <1>0, <2>1 DEF TalkType, Begun, Unborn
  <2> QED
    BY <1>0, <2>2, <2>3, <2>4 DEF TalkInvariant, Begun, TalkType
<1>10. ASSUME (\E s \in Boxes : Die(s) \/ PidReused(s)) \/ Reload
              \/ (\E l \in Lookups : RestartStep(l)) \/ UNCHANGED sandboxVars
       PROVE  TalkInvariant'
  <2>1. UNCHANGED talkVars
    BY <1>10 DEF Die, PidReused, Reload, sandboxVars, RestartStep, ClaimRestart, GiveUpRestart,
                 SpawnAgain, EnterAgain, RestartSucceeds, RollBackRestart, restartVars
  <2>2. workspace' = workspace
    BY <1>10 DEF Die, PidReused, Reload, sandboxVars, RestartStep, ClaimRestart, GiveUpRestart,
                 SpawnAgain, EnterAgain, RestartSucceeds, RollBackRestart, processVars
  <2>3. table' \in [Boxes -> Entries]
    BY <1>0, <1>10 DEF Die, PidReused, Reload, LoadTable, Entries, sandboxVars, RestartStep,
                 ClaimRestart, GiveUpRestart, SpawnAgain, EnterAgain, RestartSucceeds,
                 RollBackRestart, processVars
  <2> QED
    BY <1>0, <1>1, <2>1, <2>2, <2>3
<1> QED
  BY <1>2, <1>4, <1>6, <1>7, <1>8, <1>9, <1>10 DEF SandboxNext, StartStepOf, RemovalStep

(* A step after which a sandbox is not in care any more deletes it.        *)
LEMMA CareStep ==
    ASSUME TalkInvariant, [SandboxNext]_sandboxVars, faults \in Nat, faults' = faults,
           NEW s \in Boxes, InCare(s)
    PROVE  InCare(s)' \/ table'[s] = "none"
<1>0. talk \in [Talks -> TalkType]
  BY DEF TalkInvariant
<1>1. ASSUME \A c \in Talks :
                /\ talk[c].box = s => talk'[c].box = s
                /\ talk[c].row # "none" => talk'[c].row # "none"
                /\ talk[c].removal \in {"counting", "killing"} =>
                        talk'[c].removal \in {"counting", "killing"}
      PROVE  InCare(s)'
  BY <1>1 DEF InCare, Stored, Finalizing
<1>2. ASSUME NEW c \in Talks, StartStepOf(c)
      PROVE  InCare(s)'
  <2>1. CASE StartAlone(c) \/ StartGrouped(c) \/ StartNamed(c)
    <3>1. ~Begun(c)
      BY <2>1 DEF StartAlone, StartGrouped, StartNamed, Begun
    <3>2. talk[c].row = "none" /\ talk[c].removal = "none"
      BY <3>1 DEF TalkInvariant
    <3>3. \E t, parent, phase : GoesTo(c, t, parent, phase)
      BY <2>1 DEF StartAlone, StartGrouped, StartNamed
    <3>4. \A x \in Talks \ {c} : talk'[x] = talk[x]
      BY <1>0, <3>3 DEF GoesTo
    <3> QED
      BY <3>2, <3>4 DEF InCare, Stored, Finalizing
  <2>2. CASE Spawn(c) \/ Enter(c) \/ Booted(c) \/ BootFails(c) \/ Post(c) \/ AbandonStart(c)
    <3>1. PICK to : talk' = [talk EXCEPT ![c].start = to]
      BY <2>2 DEF Spawn, Enter, Booted, BootFails, Post, AbandonStart, StartMoves
    <3> QED
      BY <1>0, <1>1, <3>1 DEF TalkType
  <2>3. CASE StoreTalk(c) \/ ReportArrives(c) \/ ReportSaved(c)
    BY <1>0, <1>1, <2>3 DEF StoreTalk, StartMoves, ReportArrives, ReportSaved, TalkType
  <2> QED
    BY <1>2, <2>1, <2>2, <2>3 DEF StartStepOf
<1>3. ASSUME NEW c \in Talks, RemovalStep(c)
      PROVE  InCare(s)' \/ table'[s] = "none"
  <2>1. CASE BeginRemoval(c) \/ TellAgent(c) \/ RefuseRemoval(c)
    BY <1>0, <1>1, <2>1 DEF BeginRemoval, TellAgent, RefuseRemoval, TalkType
  <2>2. CASE CommitRemoval(c)
    <3>1. /\ talk[c].row # "none"
          /\ talk' = [x \in Talks |->
                IF x = c THEN [talk[c] EXCEPT !.removal = "counting", !.row = "none",
                                              !.along = {}]
                ELSE IF x \in talk[c].along THEN [talk[x] EXCEPT !.row = "none"]
                ELSE talk[x]]
      BY <2>2 DEF CommitRemoval
    <3>2. \A x \in talk[c].along : talk[x].box = talk[c].box
      BY DEF TalkInvariant
    <3>3. talk'[c].box = talk[c].box /\ talk'[c].removal = "counting"
      <4>1. talk'[c] = [talk[c] EXCEPT !.removal = "counting", !.row = "none", !.along = {}]
        BY <3>1
      <4>2. talk[c] \in TalkType
        BY <1>0
      <4> QED
        BY <4>1, <4>2 DEF TalkType
    <3>4. \A x \in Talks \ {c} :
            /\ talk'[x].box = talk[x].box /\ talk'[x].removal = talk[x].removal
            /\ talk[x].box # talk[c].box => talk'[x].row = talk[x].row
      BY <1>0, <3>1, <3>2 DEF TalkType
    <3>5. CASE talk[c].box = s
      BY <3>3, <3>5 DEF InCare, Finalizing
    <3>6. CASE talk[c].box # s
      BY <3>4, <3>6 DEF InCare, Stored, Finalizing
    <3> QED
      BY <3>5, <3>6
  <2>3. CASE CountLeft(c)
    <3>1. /\ talk[c].removal = "counting"
          /\ \A x \in Talks : talk'[x].box = talk[x].box /\ talk'[x].row = talk[x].row
          /\ \A x \in Talks \ {c} : talk'[x].removal = talk[x].removal
          /\ talk'[c].removal = IF Stored(talk[c].box) = {} THEN "killing" ELSE "none"
      BY <1>0, <2>3 DEF CountLeft, TalkType
    <3> QED
      BY <3>1 DEF InCare, Stored, Finalizing
  <2>4. CASE RemoveBox(c)
    <3>1. /\ \A x \in Talks : talk'[x].box = talk[x].box /\ talk'[x].row = talk[x].row
          /\ \A x \in Talks \ {c} : talk'[x].removal = talk[x].removal
      BY <1>0, <2>4 DEF RemoveBox, TalkType
    <3>2. CASE talk[c].box = s
      BY <2>4, <3>2, DeletingBox DEF RemoveBox
    <3>3. CASE talk[c].box # s
      BY <3>1, <3>3 DEF InCare, Stored, Finalizing
    <3> QED
      BY <3>2, <3>3
  <2> QED
    BY <1>3, <2>1, <2>2, <2>3, <2>4 DEF RemovalStep
<1>4. ASSUME (\E t \in Boxes : Die(t) \/ PidReused(t)) \/ Reload \/ Reboot
             \/ (\E l \in Lookups : RestartStep(l)) \/ UNCHANGED sandboxVars
      PROVE  InCare(s)'
  <2>1. ~Fault
    BY DEF Fault
  <2>2. UNCHANGED talkVars
    BY <1>4, <2>1 DEF Die, PidReused, Reload, Reboot, sandboxVars, RestartStep, ClaimRestart,
                 GiveUpRestart, SpawnAgain, EnterAgain, RestartSucceeds, RollBackRestart,
                 restartVars
  <2> QED
    BY <2>2 DEF talkVars, InCare, Stored, Finalizing
<1> QED
  BY <1>2, <1>3, <1>4 DEF SandboxNext

(* What the conversations and the table are in every state.                *)
THEOREM TalksCorrect == SandboxSpec => []TalkInvariant
<1>1. SandboxInit => TalkInvariant
  BY SandboxAssumption
     DEF SandboxInit, TalkInvariant, TalkType, Unborn, Begun, Entries, TalkPhases,
         RemovalPhases, Rows
<1>2. TalkInvariant /\ [SandboxNext]_sandboxVars => TalkInvariant'
  BY TalkStep
<1> QED
  BY <1>1, <1>2, PTL DEF SandboxSpec

(* The faults are counted.                                                 *)
LEMMA FaultsAreCounted == SandboxSpec => [](faults \in 0 .. MaxFaults)
<1>1. SandboxInit => faults \in 0 .. MaxFaults
  BY SandboxAssumption DEF SandboxInit
<1>2. faults \in 0 .. MaxFaults /\ [SandboxNext]_sandboxVars => (faults \in 0 .. MaxFaults)'
  <2> SUFFICES ASSUME faults \in 0 .. MaxFaults, [SandboxNext]_sandboxVars
               PROVE  UNCHANGED faults \/ Fault
    BY SandboxAssumption DEF Fault
  <2>1. ASSUME NEW c \in Talks, StartStepOf(c)
        PROVE  UNCHANGED faults
    BY <2>1 DEF StartStepOf, StartAlone, StartGrouped, StartNamed, Spawn, Enter, Booted,
                BootFails, Post, StoreTalk, AbandonStart, ReportArrives, ReportSaved
  <2>2. ASSUME NEW c \in Talks, RemovalStep(c)
        PROVE  UNCHANGED faults
    BY <2>2 DEF RemovalStep, BeginRemoval, TellAgent, CommitRemoval, RefuseRemoval, CountLeft,
                RemoveBox
  <2>3. ASSUME NEW l \in Lookups, RestartStep(l)
        PROVE  UNCHANGED faults
    BY <2>3 DEF RestartStep, ClaimRestart, GiveUpRestart, SpawnAgain, EnterAgain,
                RestartSucceeds, RollBackRestart
  <2>4. CASE (\E s \in Boxes : Die(s) \/ PidReused(s)) \/ Reload \/ Reboot
    BY <2>4 DEF Die, PidReused, Reload, Reboot
  <2> QED
    BY <2>1, <2>2, <2>3, <2>4 DEF SandboxNext, sandboxVars
<1> QED
  BY <1>1, <1>2, PTL DEF SandboxSpec

(* Whoever deletes the last conversations of a sandbox, it stays in care   *)
(* until it is deleted, while nothing dies.                                *)
THEOREM SandboxesAreCleanedUp == SandboxSpec => LastOneCleansUp
<1>1. /\ TalkInvariant /\ faults \in 0 .. MaxFaults
      /\ [SandboxNext]_sandboxVars
      => [faults' = faults => \A s \in Boxes : InCare(s) => InCare(s)' \/ table'[s] = "none"]_sandboxVars
  BY CareStep
<1> QED
  BY TalksCorrect, FaultsAreCounted, <1>1, PTL DEF SandboxSpec, LastOneCleansUp

(* What is saved is in a directory, and restarts are of sandboxes and no   *)
(* more than allowed.                                                      *)
RestartsFit ==
    /\ persisted \subseteq workspace
    /\ active =< MaxActive
    /\ \A l \in Lookups : lookup[l].at # "idle" => lookup[l].box \in Boxes

(* Every step keeps this.                                                  *)
LEMMA RestartsFitStep ==
    ASSUME RestartInvariant, RestartsFit, [SandboxNext]_sandboxVars
    PROVE  RestartsFit'
<1> USE SandboxAssumption
<1>1. ASSUME UNCHANGED restartVars, persisted' \subseteq workspace'
      PROVE  RestartsFit'
  BY <1>1 DEF restartVars, RestartsFit
<1>2. ASSUME UNCHANGED processVars
      PROVE  persisted' \subseteq workspace'
  BY <1>2 DEF processVars, RestartsFit
<1>3. ASSUME NEW s, DeleteBox(s)
      PROVE  persisted' \subseteq workspace'
  BY <1>3 DEF DeleteBox, processVars, RestartsFit
<1>4. ASSUME NEW c \in Talks, StartStepOf(c)
      PROVE  RestartsFit'
  <2>1. CASE Spawn(c) \/ Enter(c)
    BY <1>1, <2>1 DEF Spawn, Enter, RestartsFit
  <2>2. CASE BootFails(c)
    BY <1>1, <1>3, <2>2 DEF BootFails
  <2>3. CASE StartAlone(c) \/ StartGrouped(c) \/ StartNamed(c)
    BY <1>1, <1>2, <2>3 DEF StartAlone, StartGrouped, StartNamed
  <2>4. CASE Booted(c) \/ Post(c) \/ StoreTalk(c) \/ AbandonStart(c)
             \/ ReportArrives(c) \/ ReportSaved(c)
    BY <1>1, <1>2, <2>4
       DEF Booted, Post, StoreTalk, AbandonStart, ReportArrives, ReportSaved
  <2>. QED  BY <1>4, <2>1, <2>2, <2>3, <2>4 DEF StartStepOf
<1>5. ASSUME NEW c \in Talks, RemovalStep(c)
      PROVE  RestartsFit'
  <2>1. CASE RemoveBox(c)
    BY <1>1, <1>3, <2>1 DEF RemoveBox
  <2>2. CASE ~RemoveBox(c)
    BY <1>1, <1>2, <1>5, <2>2
       DEF RemovalStep, BeginRemoval, TellAgent, CommitRemoval, RefuseRemoval, CountLeft
  <2>. QED  BY <2>1, <2>2
<1>6. ASSUME NEW l \in Lookups, RestartStep(l)
      PROVE  RestartsFit'
  <2>1. ASSUME NEW s \in Boxes, ClaimRestart(l, s)
        PROVE  RestartsFit'
    BY <2>1 DEF ClaimRestart, processVars, RestartInvariant, RestartsFit
  <2>2. ASSUME Finish(l)
        PROVE  active' =< MaxActive
               /\ \A m \in Lookups : lookup'[m].at # "idle" => lookup'[m].box \in Boxes
    BY <2>2 DEF Finish, NoSearch, RestartInvariant, RestartsFit
  <2>3. CASE GiveUpRestart(l) \/ RestartSucceeds(l) \/ RollBackRestart(l)
    BY <2>2, <2>3
       DEF GiveUpRestart, RestartSucceeds, RollBackRestart, processVars, RestartsFit
  <2>4. CASE SpawnAgain(l) \/ EnterAgain(l)
    BY <2>4 DEF SpawnAgain, EnterAgain, processVars, RestartInvariant, RestartsFit
  <2>. QED  BY <1>6, <2>1, <2>3, <2>4 DEF RestartStep
<1>7. CASE Reboot
  <2>1. /\ active' = 0 /\ workspace' = workspace /\ persisted' = persisted
        /\ lookup' = [l \in Lookups |-> NoSearch]
    BY <1>7 DEF Reboot
  <2>2. \A l \in Lookups : lookup'[l].at = "idle"
    BY <2>1 DEF NoSearch
  <2>3. active' =< MaxActive
    BY <2>1, SandboxAssumption
  <2>. QED  BY <1>7, <2>1, <2>2, <2>3 DEF RestartsFit
<1>8. CASE (\E s \in Boxes : Die(s) \/ PidReused(s)) \/ Reload \/ UNCHANGED sandboxVars
  BY <1>1, <1>8 DEF Die, PidReused, Reload, sandboxVars, processVars, RestartsFit
<1>. QED
  BY <1>4, <1>5, <1>6, <1>7, <1>8 DEF SandboxNext

(* The values of the sandboxes' variables, for any bounds.                 *)
THEOREM SandboxTypes == SandboxSpec => []SandboxTypeOK
<1>1. SandboxInit => RestartInvariant /\ RestartsFit
  <2> SUFFICES ASSUME SandboxInit
               PROVE  RestartInvariant /\ RestartsFit
    OBVIOUS
  <2>1. RestartInvariant
    BY RestartsStart
  <2>2. RestartsFit
    BY SandboxAssumption DEF SandboxInit, RestartsFit, NoSearch
  <2>. QED  BY <2>1, <2>2
<1>2. RestartInvariant /\ RestartsFit /\ [SandboxNext]_sandboxVars
        => (RestartInvariant /\ RestartsFit)'
  BY RestartsStep, RestartsFitStep
<1>3. TalkInvariant /\ RestartInvariant /\ RestartsFit /\ faults \in 0 .. MaxFaults
        => SandboxTypeOK
  <2> SUFFICES ASSUME TalkInvariant, RestartInvariant, RestartsFit, faults \in 0 .. MaxFaults
               PROVE  SandboxTypeOK
    OBVIOUS
  <2>1. restarting \subseteq Boxes
    BY DEF RestartInvariant, RestartsAreCounted, Restarters, RestartsFit
  <2>2. active \in 0 .. MaxActive
    BY SandboxAssumption DEF RestartInvariant, RestartsFit
  <2>3. hosted \subseteq Talks
    BY DEF TalkInvariant
  <2>. QED  BY <2>1, <2>2, <2>3
            DEF TalkInvariant, TalkType, RestartInvariant, RestartsFit, SandboxTypeOK
<1>. QED  BY <1>1, <1>2, <1>3, TalksCorrect, FaultsAreCounted, PTL DEF SandboxSpec
=============================================================================
