--------------------------- MODULE BuildPipeline ---------------------------
(***************************************************************************)
(* API requests and Celery workers over one database and one broker: the   *)
(* life of a build from start_build to LIVE, FAILED, CANCELLED or deleted, *)
(* and of the credits it costs.                                            *)
(***************************************************************************)
EXTENDS BuildService, BuildTask

ASSUME ProcsAssumption == Procs = Requests \cup Workers
ASSUME DisjointAssumption == Requests \cap Workers = {}

vars == <<build, wallet, ledger, rowLock, walletLock, tx, queue, fresh, task, crashes>>

Init == StoreInit /\ BrokerInit /\ ServiceInit /\ TaskInit

Next ==
    \/ \E r \in Requests : RequestNext(r) /\ UNCHANGED <<task, crashes>>
    \/ \E w \in Workers : WorkerNext(w) /\ UNCHANGED fresh

Spec == Init /\ [][Next]_vars

(* Handlers and workers that are not killed go on.  Strong fairness: a     *)
(* waiter of a PostgreSQL lock is served in turn, so others who take and   *)
(* release the lock for ever do not starve it; the 23 minutes of polling   *)
(* end every build; the deadlock detector resolves every cycle.            *)
Fairness ==
    /\ \A r \in Requests : SF_vars(RequestProgress(r) /\ UNCHANGED <<task, crashes>>)
    /\ \A w \in Workers : SF_vars(WorkerProgress(w) /\ UNCHANGED fresh)

FairSpec == Spec /\ Fairness

(***************************************************************************)
(* Properties                                                              *)
(***************************************************************************)
TypeOK ==
    /\ StoreTypeOK
    /\ queue \in [Messages -> Nat]
    /\ fresh \in SUBSET Builds
    /\ task \in [Workers -> Tasks \cup {Idle}]
    /\ crashes \in Nat

(* The ledger explains the wallet: every row is about the price of a build,*)
(* and the balance is the signup grant less what the RESERVE rows took,    *)
(* plus what the REFUND rows gave back, to the credit.  A read of the      *)
(* wallet without its lock, or an operation applied twice under one key,   *)
(* breaks it (credit_service.py, get_wallet_for_update, UNIQUE             *)
(* idempotency_key).                                                       *)
RowsOf(kind) == {row \in ledger : row.kind = kind}

LedgerExplainsWallet ==
    /\ \A row \in ledger : row.amount = IF row.kind = "REFUND" THEN Cost ELSE -Cost
    /\ wallet.balance = SignupGrant + Cost * (Cardinality(RowsOf("REFUND"))
                                                - Cardinality(RowsOf("RESERVE")))

(* Concurrent starts never spend more credits than there are: each passes  *)
(* its test of the balance on a wallet nobody else is spending from        *)
(* (credit_service.py, reserve).                                           *)
NoOverdraft == wallet.balance >= 0 /\ wallet.reserved >= 0

(* A build nobody paid for is never live: LIVE is committed only together  *)
(* with, or after, the capture of the build's credits, whatever cancels,   *)
(* deletes, retries or crashes the approval races (approve_build).         *)
LiveIsCaptured ==
    \A b \in Builds : build[b].status = "LIVE" => HasKey(ledger, <<"capture", b>>)

(* A build shown as FAILED was refunded: only the soft time limit commits  *)
(* FAILED, in one transaction with the refund (_force_fail_and_refund).    *)
FailedIsRefunded ==
    \A b \in Builds : build[b].status = "FAILED" => HasKey(ledger, <<"refund", b>>)

(* No build disappears with credits still reserved for it: when the row is *)
(* soft-deleted its reserve has been captured or refunded, even if another *)
(* request changed the status between the read and the write               *)
(* (delete_build).                                                         *)
HasSettled(b) ==
    \E name \in {"capture"} \cup RefundNames : HasKey(ledger, <<name, b>>)

DeletedIsSettled ==
    \A b \in Builds : build[b].deleted /\ Cost # 0 => HasSettled(b)

(* Nobody ever sees a build being provisioned, built or tested: the        *)
(* executor's flushes share the transaction that ends in REVIEW or is      *)
(* rolled back (task_session around execute), so a client that polls sees  *)
(* QUEUED until the build is ready for review.                             *)
NoIntermediateStatus ==
    \A b \in Builds : build[b].status \notin {"PROVISIONING", "BUILDING", "TESTING"}

(* Every transaction that writes the wallet computed its new value from    *)
(* the wallet that is committed now: nothing happened to it since the      *)
(* SELECT FOR UPDATE, so the commit loses nobody's update.                 *)
Pays(t) == "credits" \in t.writes

UpToDate(t) ==
    /\ t.wallet = WalletAfter(KeyOf(t), wallet, ledger)
    /\ t.rows = {RowFor(KeyOf(t), ledger)}
    /\ ~HasKey(ledger, KeyOf(t))

NoLostUpdate ==
    \A p \in Procs : InTx(p) /\ Pays(tx[p]) => walletLock = p /\ UpToDate(tx[p])

(***************************************************************************)
(* The inductive invariant                                                 *)
(***************************************************************************)
(* The statements each operation goes through.                             *)
StepsOf == [op \in Ops |->
    CASE op = "start"      -> {"credit-lock", "dispatch", "commit"}
      [] op = "cancel"     -> {"write", "commit"}
      [] op = "delete"     -> {"write", "credit-check", "credit-lock", "delete", "commit"}
      [] op = "approve"    -> {"credit-check", "credit-lock", "write", "commit"}
      [] op = "execute"    -> {"write", "submit", "poll", "commit"}
      [] op = "force-fail" -> {"write", "credit-check", "credit-lock", "commit"}
      [] op = "exhaust"    -> {"credit-check", "credit-lock", "commit"}]

(* What each operation may commit as the status of its build.              *)
Outcome == [op \in Ops |->
    CASE op = "start"      -> "QUEUED"
      [] op = "approve"    -> "LIVE"
      [] op = "execute"    -> "REVIEW"
      [] op = "force-fail" -> "FAILED"
      [] OTHER             -> "CANCELLED"]

(* An open transaction has run the statements before its current one: in   *)
(* particular one that is past its credit call has found the key in the    *)
(* ledger or carries the row that will put it there.                       *)
TxProgress(t) ==
    /\ t.step \in StepsOf[t.op]
    /\ t.status # "ABSENT"
    /\ "status" \in t.writes /\ (t.op = "execute" => t.step = "commit") =>
            t.status = Outcome[t.op]
    /\ t.op = "exhaust" => "status" \notin t.writes
    /\ "deleted" \in t.writes => t.op = "delete" /\ t.step = "commit"
    /\ t.step \in {"credit-check", "credit-lock"} => ~Pays(t)
    /\ t.step = "write" /\ t.op # "approve" => ~Pays(t)
    /\ t.op \in {"cancel", "execute"} => ~Pays(t)

TxCredits(t) ==
    /\ ~Pays(t) => t.rows = {}
    /\ t.op = "start" => /\ t.step # "credit-lock" => Pays(t)
                         /\ Pays(t) => CanReserve(wallet)
    /\ t.op # "start" => build[t.build].status # "ABSENT"
    /\ t.op = "approve" /\ t.step \in {"write", "commit"} =>
            Pays(t) \/ HasKey(ledger, <<"capture", t.build>>)
    /\ t.op = "force-fail" /\ t.step = "commit" =>
            Pays(t) \/ HasKey(ledger, <<"refund", t.build>>)
    /\ t.op = "delete" /\ t.step \in {"delete", "commit"} /\ Cost # 0 =>
            Pays(t) \/ HasSettled(t.build)

TxInv == \A p \in Procs : InTx(p) => TxProgress(tx[p]) /\ TxCredits(tx[p])

(* Only these phases of a task have a transaction open.                    *)
WorkerInv == \A w \in Workers :
    InTx(w) => task[w].phase \in {"execute", "force-fail", "exhaust"}

(* A build exists only with its reserve.                                   *)
StartedIsReserved == \A b \in Builds :
    build[b].status # "ABSENT" => HasKey(ledger, <<"reserve", b>>)

BuildInv ==
    /\ StartedIsReserved
    /\ LiveIsCaptured
    /\ FailedIsRefunded
    /\ DeletedIsSettled
    /\ NoIntermediateStatus

StoreInv == StoreTypeOK /\ TxInv /\ NoLostUpdate /\ BuildInv

IInv == TypeOK /\ WorkerInv /\ StoreInv

(* Requests, retries, crashes and races add up to the abstract ledger:     *)
(* every commit is one of its operations or leaves wallet and ledger       *)
(* alone.                                                                  *)
Ledger == INSTANCE CreditLedger WITH wallet <- wallet, ledger <- ledger
ImplementsLedger == Ledger!Spec

(* Liveness: every request is answered and every message is finally        *)
(* acknowledged, in spite of waiting for each other's locks.               *)
RequestsEnd == \A r \in Requests : InTx(r) ~> ~InTx(r)
QueueDrains == <>[](/\ \A m \in Messages : queue[m] = 0
                    /\ \A w \in Workers : task[w] = Idle)

(***************************************************************************)
(* What the documents say and the code does not do                         *)
(***************************************************************************)
(* docs/SYSTEM-DESIGN.md, failure modes: a build that fails goes to FAILED *)
(* with its credits refunded.  So the task's refund comes with FAILED, or  *)
(* with CANCELLED, which the task leaves alone.                            *)
RefundMeansFailed ==
    \A b \in Builds : HasKey(ledger, <<"refund", b>>) =>
                         build[b].status \in {"FAILED", "CANCELLED"}

(* delete_build's third step: refund reserved credits that were never      *)
(* captured; db/models/credit.py: credits are never double-spent.  So a    *)
(* build's reserve is settled once.                                        *)
SettledOnce ==
    \A b \in Builds : \A one, other \in {"capture"} \cup RefundNames :
        HasKey(ledger, <<one, b>>) /\ HasKey(ledger, <<other, b>>) => one = other

(* control-plane/docs/PHASE-3-ARCHITECTURE.md 3.3: FAILED and CANCELLED    *)
(* are terminal.                                                           *)
TerminalIsFinal ==
    [][\A b \in Builds : build[b].status \in {"FAILED", "CANCELLED"} =>
                            build'[b].status = build[b].status]_vars
=============================================================================
