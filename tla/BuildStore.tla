----------------------------- MODULE BuildStore -----------------------------
(***************************************************************************)
(* The control plane's database as its clients see it: the committed       *)
(* build_runs rows, one organization's credit wallet and ledger, and the   *)
(* open transactions of the API requests and Celery tasks.                 *)
(*                                                                         *)
(* A transaction (get_db_session, task_session) is one record of "tx".     *)
(* What it wrote stays in that record until Commit; Rollback drops it.     *)
(* PostgreSQL runs at READ COMMITTED: a read takes the committed value and *)
(* no lock, so the status a transaction holds in memory may be stale when  *)
(* it writes; an UPDATE takes the row's lock until the transaction ends;   *)
(* the wallet is read with SELECT FOR UPDATE.                              *)
(***************************************************************************)
EXTENDS Credits

CONSTANTS
    Procs,    \* whatever can hold a transaction: API requests, Celery workers
    Nobody    \* the holder of a free lock

ASSUME NobodyAssumption == Nobody \notin Procs

VARIABLES
    build,       \* the committed row of every build
    wallet,      \* the committed wallet
    ledger,      \* the committed credit_transactions rows
    rowLock,     \* who holds the lock of a build's row
    walletLock,  \* who holds the lock of the wallet's row
    tx           \* the transaction of every process

storeVars == <<build, wallet, ledger, rowLock, walletLock, tx>>

Ops == {"start", "cancel", "delete", "approve", "execute", "force-fail", "exhaust"}

(* The statement a transaction is about to run.                            *)
Steps == {"write", "credit-check", "credit-lock", "delete", "dispatch",
          "submit", "poll", "commit"}

(* status is the row in memory; writes names what the transaction has      *)
(* flushed; wallet and rows are the uncommitted wallet and ledger rows.    *)
OpenTx == [op : Ops, build : Builds, step : Steps, status : Statuses,
           writes : SUBSET {"status", "deleted", "credits"},
           wallet : Wallets, rows : SUBSET Rows]
NoTx == [step |-> "none"]
Txs == OpenTx \cup {NoTx}

InTx(p) == tx[p].step # "none"

StoreInit ==
    /\ build = [b \in Builds |-> [status |-> "ABSENT", deleted |-> FALSE]]
    /\ wallet = NewWallet
    /\ ledger = {}
    /\ rowLock = [b \in Builds |-> Nobody]
    /\ walletLock = Nobody
    /\ tx = [p \in Procs |-> NoTx]

StoreTypeOK ==
    /\ build \in [Builds -> BuildRows]
    /\ wallet \in Wallets
    /\ ledger \in SUBSET Rows
    /\ rowLock \in [Builds -> Procs \cup {Nobody}]
    /\ walletLock \in Procs \cup {Nobody}
    /\ tx \in [Procs -> Txs]

(* BaseRepository.get: soft-deleted rows are not found.                    *)
Found(b) == build[b].status # "ABSENT" /\ ~build[b].deleted

OpenedTx(op, b, step, status) ==
    [op |-> op, build |-> b, step |-> step, status |-> status,
     writes |-> {}, wallet |-> NewWallet, rows |-> {}]

(***************************************************************************)
(* The credit half of an operation                                         *)
(***************************************************************************)
KeyNameOf == [op \in Ops |-> CASE op = "start" -> "reserve"
                              [] op = "approve" -> "capture"
                              [] op = "delete" -> "refund-delete"
                              [] OTHER -> "refund"]
KeyOf(t) == <<KeyNameOf[t.op], t.build>>

(* The statement that follows the credit call, and the one after a write   *)
(* of the status.                                                          *)
AfterCredits == [op \in Ops |-> CASE op = "start" -> "dispatch"
                                 [] op = "approve" -> "write"
                                 [] op = "delete" -> "delete"
                                 [] OTHER -> "commit"]
AfterWrite == [op \in Ops |-> CASE op = "execute" -> "submit"
                               [] op = "delete" /\ Cost # 0 -> "credit-check"
                               [] op = "delete" /\ Cost = 0 -> "delete"
                               [] op = "force-fail" -> "credit-check"
                               [] OTHER -> "commit"]
Target == [op \in Ops |-> CASE op \in {"cancel", "delete"} -> "CANCELLED"
                           [] op = "approve" -> "LIVE"
                           [] op = "execute" -> "PROVISIONING"
                           [] op = "force-fail" -> "FAILED"
                           [] OTHER -> "QUEUED"]

(* What ending p's transaction, either way, does to the locks.             *)
ReleaseLocks(p) ==
    /\ rowLock' = [b \in Builds |-> IF rowLock[b] = p THEN Nobody ELSE rowLock[b]]
    /\ walletLock' = IF walletLock = p THEN Nobody ELSE walletLock

Rollback(p) ==
    /\ ReleaseLocks(p)
    /\ tx' = [tx EXCEPT ![p] = NoTx]
    /\ UNCHANGED <<build, wallet, ledger>>

Commit(p) ==
    LET t == tx[p] IN
    /\ t.step = "commit"
    /\ build' = [build EXCEPT
         ![t.build] = [status  |-> IF "status" \in t.writes THEN t.status ELSE @.status,
                       deleted |-> @.deleted \/ "deleted" \in t.writes]]
    /\ wallet' = IF "credits" \in t.writes THEN t.wallet ELSE wallet
    /\ ledger' = ledger \cup t.rows
    /\ ReleaseLocks(p)
    /\ tx' = [tx EXCEPT ![p] = NoTx]

(* The unlocked look-up every CreditService method begins with.            *)
CheckKey(p) ==
    LET t == tx[p] IN
    /\ t.step = "credit-check"
    /\ tx' = [tx EXCEPT ![p].step =
                IF HasKey(ledger, KeyOf(t)) THEN AfterCredits[t.op] ELSE "credit-lock"]
    /\ UNCHANGED <<build, wallet, ledger, rowLock, walletLock>>

(* SELECT FOR UPDATE on the wallet, which waits for its holder, then the   *)
(* arithmetic and the INSERT of the ledger row.                            *)
WalletReadWithoutLock(p) == TRUE   \* mutation: no FOR UPDATE

WalletIsFree(p) == walletLock = Nobody

(* Mutations: no unique key, no test of the balance.                       *)
RefusedWithoutUniqueKey(t) == t.op = "start" /\ ~CanReserve(wallet)
RefusedWithoutBalance(t) == HasKey(ledger, KeyOf(t))

CreditsRefused(t) ==
    \/ HasKey(ledger, KeyOf(t))                  \* UNIQUE(idempotency_key)
    \/ t.op = "start" /\ ~CanReserve(wallet)     \* InsufficientCreditsError

ApplyCredits(p) ==
    LET t == tx[p] IN
    /\ t.step = "credit-lock"
    /\ WalletIsFree(p)
    /\ ~CreditsRefused(t)
    /\ walletLock' = p
    /\ tx' = [tx EXCEPT ![p].step = AfterCredits[t.op],
                        ![p].writes = @ \cup {"credits"},
                        ![p].wallet = WalletAfter(KeyOf(t), wallet, ledger),
                        ![p].rows = {RowFor(KeyOf(t), ledger)}]
    /\ UNCHANGED <<build, wallet, ledger, rowLock>>

(* A refused credit call raises; delete_build's bare except does not help, *)
(* the session is dead after a failed flush and its next statement raises. *)
CreditsFail(p) ==
    /\ tx[p].step = "credit-lock"
    /\ WalletIsFree(p)
    /\ CreditsRefused(tx[p])
    /\ Rollback(p)

(***************************************************************************)
(* Writes of a build's row                                                 *)
(***************************************************************************)
RowIsFree(p, b) == rowLock[b] \in {Nobody, p}

(* BuildRunRepository.transition: no check of the status it replaces.      *)
WriteStatus(p) ==
    LET t == tx[p] IN
    /\ t.step = "write"
    /\ RowIsFree(p, t.build)
    /\ rowLock' = [rowLock EXCEPT ![t.build] = p]
    /\ tx' = [tx EXCEPT ![p].step = AfterWrite[t.op],
                        ![p].status = Target[t.op],
                        ![p].writes = @ \cup {"status"}]
    /\ UNCHANGED <<build, wallet, ledger, walletLock>>

(* BuildRunRepository.delete: a soft delete, whatever the status.          *)
WriteDeleted(p) ==
    LET t == tx[p] IN
    /\ t.step = "delete"
    /\ RowIsFree(p, t.build)
    /\ rowLock' = [rowLock EXCEPT ![t.build] = p]
    /\ tx' = [tx EXCEPT ![p].step = "commit", ![p].writes = @ \cup {"deleted"}]
    /\ UNCHANGED <<build, wallet, ledger, walletLock>>

(***************************************************************************)
(* Deadlock: p waits for the wallet q holds while q waits for the build    *)
(* row p holds.  approve_build locks the wallet first and the row second;  *)
(* delete_build and the forced failure lock them the other way round.      *)
(* PostgreSQL aborts one of the two.                                       *)
(***************************************************************************)
Deadlocked(p, q) ==
    /\ tx[p].step = "credit-lock"
    /\ walletLock = q
    /\ tx[q].step \in {"write", "delete"}
    /\ rowLock[tx[q].build] = p

DeadlockVictim(p) ==
    /\ \E q \in Procs \ {p} : Deadlocked(p, q) \/ Deadlocked(q, p)
    /\ Rollback(p)
=============================================================================
