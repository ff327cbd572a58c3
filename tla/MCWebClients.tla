--------------------------- MODULE MCWebClients ---------------------------
(***************************************************************************)
(* Instances for TLC of the specifications of the browser's side and of    *)
(* the services it calls.  They have no variable in common, so a behaviour *)
(* of this module is a behaviour of one of them, the one "subject" names,  *)
(* while the others stay as they began: a run checks the state spaces of   *)
(* all side by side.                                                       *)
(***************************************************************************)
EXTENDS PendingMessages, ConversationView, Session, Wizard, Drafts, RateLimiter,
        LlmProfiles, Sandboxes

CONSTANT Subjects   \* those a run is about

VARIABLE subject

vars == <<subject, pendingVars, viewVars, sessionVars, wizardVars, draftVars,
          limiterVars, profileVars, sandboxVars>>

AllSubjects == {"pending", "view", "session", "wizard", "drafts", "limiter", "profiles",
                "sandboxes"}
LiveSubjects == {"pending", "view", "sandboxes"}

Entry(kind, about) == [kind |-> kind, about |-> about]
LongScript ==
    ("c1" :> <<Entry("action", 0), Entry("call", 7), Entry("observation", 1), Entry("call", 7)>>)
        @@ ("c2" :> <<>>)
ShortScript == ("c1" :> <<Entry("action", 0), Entry("call", 7)>>) @@ ("c2" :> <<>>)

Init ==
    /\ subject \in Subjects
    /\ PendingInit /\ ViewInit /\ SessionInit /\ WizardInit
    /\ DraftsInit /\ LimiterInit /\ ProfilesInit /\ SandboxInit

(* Only the machine called name moves.                                     *)
Only(name) ==
    /\ subject = name
    /\ UNCHANGED subject
    /\ name # "pending" => UNCHANGED pendingVars
    /\ name # "view" => UNCHANGED viewVars
    /\ name # "session" => UNCHANGED sessionVars
    /\ name # "wizard" => UNCHANGED wizardVars
    /\ name # "drafts" => UNCHANGED draftVars
    /\ name # "limiter" => UNCHANGED limiterVars
    /\ name # "profiles" => UNCHANGED profileVars
    /\ name # "sandboxes" => UNCHANGED sandboxVars

Next ==
    \/ Only("pending") /\ PendingNext
    \/ Only("view") /\ ViewNext
    \/ Only("session") /\ SessionNext
    \/ Only("wizard") /\ WizardNext
    \/ Only("drafts") /\ DraftsNext
    \/ Only("limiter") /\ LimiterNext
    \/ Only("profiles") /\ ProfilesNext
    \/ Only("sandboxes") /\ SandboxNext

Spec == Init /\ [][Next]_vars

(* PendingFairness and ViewFairness, of the one that takes the steps.      *)
FairSpec ==
    /\ Spec
    /\ WF_vars(Only("pending") /\ StartStep)
    /\ WF_vars(Only("pending") /\ QueueStep)
    /\ WF_vars(Only("pending") /\ (OpenConversation \/ Connect))
    /\ WF_vars(Only("pending") /\ (\E m \in Messages : Received(m)))
    /\ WF_vars(Only("view") /\ SocketStep)
    /\ WF_vars(Only("view") /\ ReceiveEvent)
    /\ WF_vars(Only("view") /\ Answers)

(* The values of the variables of all of them.                             *)
WebTypesOK ==
    /\ PendingTypeOK /\ ViewTypeOK /\ SessionTypeOK /\ WizardTypeOK /\ DraftsTypeOK
    /\ LimiterTypeOK /\ ProfilesTypeOK /\ SandboxTypeOK
=============================================================================
