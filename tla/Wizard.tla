------------------------------ MODULE Wizard ------------------------------
(***************************************************************************)
(* The onboarding wizard (apps/onboarding): one step is on the screen, and *)
(* what its component sent keeps running when the component is gone.  Its  *)
(* answer then still dispatches to the wizard's state, whatever step that  *)
(* is at.  What the user enters is left out: any form may be valid.  The   *)
(* polling of a build that was started is left out as well.                *)
(***************************************************************************)
EXTENDS Naturals

CONSTANT MaxLate   \* bound on the answers that steps no longer shown wait for

ASSUME WizardAssumption == MaxLate \in Nat

VARIABLES
    step,        \* state.stepIndex
    tenant,      \* whether state.tenantId is set: the user's store
    buildId,     \* whether state.buildId is set
    questions,   \* whether state.clarifyQuestions is set
    waiting,     \* what the step shown waits for: its busy flag, or the phase
    late         \* how many answers steps that were left still wait for

wizardVars == <<step, tenant, buildId, questions, waiting, late>>

(* The positions in STEPS; brand, catalog and domain lie between.          *)
Account == 0
Business == 1
Review == 5
Build == 6

Calls == {"signUp", "createTenant", "clarify", "startBuild"}

(* nothing: the form can be used.  The review's phases are the calls it    *)
(* waits for, nothing (clarify-answers and enhance-error), clarify-error   *)
(* and plan (with build-error).  The answer of enhance is used by the      *)
(* review alone, so nobody waits for a late one.                           *)
Waits == Calls \cup {"nothing", "enhance", "clarify-error", "plan"}

WizardInit ==
    /\ step = Account
    /\ tenant = FALSE
    /\ buildId = FALSE
    /\ questions = FALSE
    /\ waiting = "nothing"
    /\ late = [call \in Calls |-> 0]

(* The reducer's next and back.                                            *)
After(i) == IF i = Build THEN Build ELSE i + 1
Preceding(i) == IF i = Account THEN Account ELSE i - 1

LateNow == IF waiting \in Calls THEN [late EXCEPT ![waiting] = @ + 1] ELSE late

(* The step shown is replaced by another.  The review asks for questions   *)
(* when it is mounted, unless they are known.                              *)
Show(i) ==
    /\ step' = i
    /\ waiting' = IF i = Review /\ ~questions THEN "clarify" ELSE "nothing"

Leave(i) == Show(i) /\ late' = LateNow

MayLeave == waiting \in Calls => late[waiting] < MaxLate

(* An answer to the step shown.                                            *)
AnswerHere(call) ==
    /\ waiting = call
    /\ Show(After(step))
    /\ UNCHANGED late

(* An answer to a step that is gone moves on from the one shown now.       *)
AnswerLate(call) ==
    /\ late[call] > 0
    /\ \/ /\ step = Build
          /\ UNCHANGED <<step, waiting>>
          /\ late' = [late EXCEPT ![call] = @ - 1]
       \/ /\ step # Build
          /\ MayLeave
          /\ Show(After(step))
          /\ late' = [LateNow EXCEPT ![call] = @ - 1]

Answer(call) == AnswerHere(call) \/ AnswerLate(call)

(* StepShell: the account has no Back, the build no shell.                 *)
Back ==
    /\ step \notin {Account, Build}
    /\ MayLeave
    /\ Leave(Preceding(step))
    /\ UNCHANGED <<tenant, buildId, questions>>

(* Brand, catalog and domain have nothing to send.                         *)
Continue ==
    /\ step \in Business + 1 .. Review - 1
    /\ Leave(After(step))
    /\ UNCHANGED <<tenant, buildId, questions>>

Submit(call) ==
    /\ waiting = "nothing"
    /\ waiting' = call
    /\ UNCHANGED <<step, tenant, buildId, questions, late>>

SubmitAccount == step = Account /\ Submit("signUp")
SubmitBusiness == step = Business /\ Submit("createTenant")

(* signUp and getMe; an address that is to be confirmed moves on too.      *)
SignedUp ==
    /\ Answer("signUp")
    /\ UNCHANGED <<tenant, buildId, questions>>

(* Mutation: the wizard moves on before it has an answer.                  *)
TenantCreatedEarly ==
    /\ Answer("createTenant")
    /\ UNCHANGED <<tenant, buildId, questions>>

TenantCreated ==
    /\ Answer("createTenant")
    /\ tenant' = TRUE
    /\ UNCHANGED <<buildId, questions>>

(***************************************************************************)
(* The review                                                              *)
(***************************************************************************)
(* setClarify reaches the wizard's state also when the review is gone.     *)
Clarified ==
    /\ \/ /\ waiting = "clarify"
          /\ waiting' = "nothing"
          /\ UNCHANGED late
       \/ /\ late["clarify"] > 0
          /\ late' = [late EXCEPT !["clarify"] = @ - 1]
          /\ UNCHANGED waiting
    /\ questions' = TRUE
    /\ UNCHANGED <<step, tenant, buildId>>

Reviewing(from, to) ==
    /\ step = Review
    /\ waiting = from
    /\ waiting' = to
    /\ UNCHANGED <<step, tenant, buildId, questions, late>>

RetryClarify == Reviewing("clarify-error", "clarify")
SkipQuestions == Reviewing("clarify-error", "nothing")
Enhance == Reviewing("nothing", "enhance")
Enhanced == Reviewing("enhance", "plan") \/ Reviewing("enhance", "nothing")
StartBuild == Reviewing("plan", "startBuild")

BuildStarted ==
    /\ Answer("startBuild")
    /\ buildId' = TRUE
    /\ UNCHANGED <<tenant, questions>>

(* An error: the form can be used again, a late one is not heard.          *)
CallFails(call) ==
    /\ \/ /\ waiting = call
          /\ waiting' = CASE call = "startBuild" -> "plan"
                           [] call = "clarify" -> "clarify-error"
                           [] OTHER -> "nothing"
          /\ UNCHANGED late
       \/ /\ late[call] > 0
          /\ late' = [late EXCEPT ![call] = @ - 1]
          /\ UNCHANGED waiting
    /\ UNCHANGED <<step, tenant, buildId, questions>>

WizardNext ==
    \/ Back \/ Continue \/ SubmitAccount \/ SubmitBusiness
    \/ SignedUp \/ TenantCreated
    \/ Clarified \/ RetryClarify \/ SkipQuestions \/ Enhance \/ Enhanced
    \/ StartBuild \/ BuildStarted
    \/ \E call \in Calls : CallFails(call)

WizardSpec == WizardInit /\ [][WizardNext]_wizardVars

(***************************************************************************)
(* Properties                                                              *)
(***************************************************************************)
(* The values of the variables.                                            *)
WizardTypeOK ==
    /\ step \in Account .. Build
    /\ tenant \in BOOLEAN /\ buildId \in BOOLEAN /\ questions \in BOOLEAN
    /\ waiting \in Waits
    /\ late \in [Calls -> 0 .. MaxLate]

(* Nobody designs, names or builds a store that was not created, though    *)
(* late answers move the wizard on from steps that are not theirs.         *)
StoreBeforeBrand == step > Business => tenant
=============================================================================
