------------------------------ MODULE WebProofs ------------------------------
(***************************************************************************)
(* The specifications of the browser's side and of the services it calls,  *)
(* side by side: each of them behaves there as it does alone, so what is   *)
(* proved of each is true of all.                                          *)
(***************************************************************************)
EXTENDS MCWebClients, PendingProofs, ViewProofs, BrowserProofs, ServiceProofs

(* Each machine on its own.                                                *)
Alone ==
    /\ PendingSpec /\ ViewSpec /\ SessionSpec /\ WizardSpec /\ DraftsSpec
    /\ LimiterSpec /\ ProfilesSpec /\ SandboxSpec

(* All of them begin as they do alone.                                     *)
LEMMA BeginAlone ==
    Init => /\ PendingInit /\ ViewInit /\ SessionInit /\ WizardInit
            /\ DraftsInit /\ LimiterInit /\ ProfilesInit /\ SandboxInit
BY DEF Init

(* A step of one of them changes no variable of another.                   *)
LEMMA OthersStay ==
    ASSUME NEW name, Only(name)
    PROVE  /\ name # "pending" => UNCHANGED pendingVars
           /\ name # "view" => UNCHANGED viewVars
           /\ name # "session" => UNCHANGED sessionVars
           /\ name # "wizard" => UNCHANGED wizardVars
           /\ name # "drafts" => UNCHANGED draftVars
           /\ name # "limiter" => UNCHANGED limiterVars
           /\ name # "profiles" => UNCHANGED profileVars
           /\ name # "sandboxes" => UNCHANGED sandboxVars
BY DEF Only

(* So each of them takes a step of its own, or none.                       *)
LEMMA MoveAlone ==
    [Next]_vars => /\ [PendingNext]_pendingVars /\ [ViewNext]_viewVars
                   /\ [SessionNext]_sessionVars /\ [WizardNext]_wizardVars
                   /\ [DraftsNext]_draftVars /\ [LimiterNext]_limiterVars
                   /\ [ProfilesNext]_profileVars /\ [SandboxNext]_sandboxVars
<1> SUFFICES ASSUME [Next]_vars
             PROVE  /\ [PendingNext]_pendingVars /\ [ViewNext]_viewVars
                    /\ [SessionNext]_sessionVars /\ [WizardNext]_wizardVars
                    /\ [DraftsNext]_draftVars /\ [LimiterNext]_limiterVars
                    /\ [ProfilesNext]_profileVars /\ [SandboxNext]_sandboxVars
  OBVIOUS
<1>1. CASE UNCHANGED vars
  BY <1>1 DEF vars
<1>2. CASE Only("pending") /\ PendingNext
  BY <1>2, OthersStay
<1>3. CASE Only("view") /\ ViewNext
  BY <1>3, OthersStay
<1>4. CASE Only("session") /\ SessionNext
  BY <1>4, OthersStay
<1>5. CASE Only("wizard") /\ WizardNext
  BY <1>5, OthersStay
<1>6. CASE Only("drafts") /\ DraftsNext
  BY <1>6, OthersStay
<1>7. CASE Only("limiter") /\ LimiterNext
  BY <1>7, OthersStay
<1>8. CASE Only("profiles") /\ ProfilesNext
  BY <1>8, OthersStay
<1>9. CASE Only("sandboxes") /\ SandboxNext
  BY <1>9, OthersStay
<1>. QED
  BY <1>1, <1>2, <1>3, <1>4, <1>5, <1>6, <1>7, <1>8, <1>9 DEF Next

(* A behaviour of all of them side by side is one of each of them, for any *)
(* constants: what the runs find of one is not an effect of the others.    *)
THEOREM SideBySide == Spec => Alone
<1>. QED
  BY BeginAlone, MoveAlone, PTL
     DEF Spec, Alone, PendingSpec, ViewSpec, SessionSpec, WizardSpec, DraftsSpec,
         LimiterSpec, ProfilesSpec, SandboxSpec

(* The values of the variables, of chat, page, sign-in, wizard, drafts,    *)
(* rate limiter, LLM profiles and sandboxes, for any constants.            *)
THEOREM WebTypesHold == Spec => []WebTypesOK
<1>1. DeliveryInvariant => PendingTypeOK
  BY DEF DeliveryInvariant
<1>2. SessionInvariant => SessionTypeOK
  BY DEF SessionInvariant
<1>3. WizardInvariant => WizardTypeOK
  BY DEF WizardInvariant
<1>4. DraftsInvariant => DraftsTypeOK
  BY DEF DraftsInvariant
<1>5. LimiterInvariant => LimiterTypeOK
  BY DEF LimiterInvariant
<1>6. ProfilesInvariant => ProfilesTypeOK
  BY DEF ProfilesInvariant
<1>. QED
  BY SideBySide, DeliveryCorrect, ViewTypes, SessionCorrect, WizardCorrect, DraftsCorrect,
     LimiterCorrect, ProfilesCorrect, SandboxTypes,
     <1>1, <1>2, <1>3, <1>4, <1>5, <1>6, PTL
     DEF Alone, WebTypesOK

(* What the run WebSafety checks besides of small instances holds of every *)
(* one: of the queue and its delivery, the page, the sign-in, the wizard,  *)
(* the drafts, the rate limiter, the profiles and the sandboxes, and of    *)
(* restarts, which WebLive checks.                                         *)
THEOREM WebIsSafe ==
    Spec => /\ [](DeletedWereTried /\ DeliveredOnce /\ QueueOrderKept /\ QueueBounded)
            /\ [](ChatIsRendering /\ StoreIsChronological)
            /\ [](CookieUsable /\ StoreBeforeBrand /\ DraftsStayApart)
            /\ [](LimitIsKept /\ ActiveProfileRuns /\ RestartsAreCounted)
            /\ ImplementsTranscript
            /\ LastOneCleansUp
<1>1. PendingSpec =>
        [](DeletedWereTried /\ DeliveredOnce /\ QueueOrderKept /\ QueueBounded)
  BY DeletedOnlyAfterPost, ReceivedOnce, ReceivedInOrder, LimitAlmostKept, PTL
<1>2. ViewSpec => [](ChatIsRendering /\ StoreIsChronological) /\ ImplementsTranscript
  BY ChatRendersEvents, StoreStaysChronological, PageImplementsTranscript, PTL
<1>3. SessionSpec /\ WizardSpec /\ DraftsSpec
        => [](CookieUsable /\ StoreBeforeBrand /\ DraftsStayApart)
  BY CookieStaysUsable, StoreCreatedFirst, DraftsAreNotMixed, PTL
<1>4. LimiterSpec /\ ProfilesSpec /\ SandboxSpec
        => [](LimitIsKept /\ ActiveProfileRuns /\ RestartsAreCounted)
  BY LimitIsNeverExceeded, ActiveIsTrue, RestartsStayCounted, PTL
<1>. QED
  BY SideBySide, <1>1, <1>2, <1>3, <1>4, SandboxesAreCleanedUp, PTL DEF Alone
==============================================================================
