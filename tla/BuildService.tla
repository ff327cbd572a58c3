---------------------------- MODULE BuildService ----------------------------
(***************************************************************************)
(* The API side of a build's life                                          *)
(* (control-plane/app/services/build_service.py, called by the routes of   *)
(* app/api/v1/routes/builds.py).  Each request handler is one transaction. *)
(* Requests of one organization are authorized for its builds; the tenant  *)
(* look-ups that turn other callers away change nothing and are left out.  *)
(***************************************************************************)
EXTENDS BuildStore, Broker

CONSTANT Requests    \* concurrent API requests, reused one after the other

ASSUME RequestsAssumption == Requests \subseteq Procs

VARIABLE fresh       \* build ids uuid4 has not produced yet

serviceVars == <<storeVars, queue, fresh>>

ServiceInit == fresh = Builds

Begin(r, op, b, step) ==
    /\ ~InTx(r)
    /\ tx' = [tx EXCEPT ![r] = OpenedTx(op, b, step, build[b].status)]
    /\ UNCHANGED <<build, wallet, ledger, walletLock, queue>>

(* Mutation: the message goes out before the credits are reserved.         *)
StartDispatchesFirst(r, b) ==
    /\ ~InTx(r)
    /\ b \in fresh
    /\ fresh' = fresh \ {b}
    /\ rowLock' = [rowLock EXCEPT ![b] = r]
    /\ tx' = [tx EXCEPT ![r] = [OpenedTx("start", b, "dispatch", "QUEUED")
                                  EXCEPT !.writes = {"status"}]]
    /\ UNCHANGED <<build, wallet, ledger, walletLock, queue>>

(* start_build: INSERT the QUEUED row, which nobody else can see yet.      *)
StartBuild(r, b) ==
    /\ ~InTx(r)
    /\ b \in fresh
    /\ fresh' = fresh \ {b}
    /\ rowLock' = [rowLock EXCEPT ![b] = r]
    /\ tx' = [tx EXCEPT ![r] = [OpenedTx("start", b, "credit-lock", "QUEUED")
                                  EXCEPT !.writes = {"status"}]]
    /\ UNCHANGED <<build, wallet, ledger, walletLock, queue>>

(* dispatcher.dispatch: the message is out before the row is committed.    *)
Dispatch(r) ==
    /\ tx[r].step = "dispatch"
    /\ Publish(tx[r].build, 0)
    /\ tx' = [tx EXCEPT ![r].step = "commit"]
    /\ UNCHANGED <<build, wallet, ledger, rowLock, walletLock, fresh>>

(* cancel_build: the status is read here, the row is updated later.        *)
CancelBuild(r, b) ==
    /\ Found(b)
    /\ build[b].status \notin Terminal
    /\ Begin(r, "cancel", b, "write")
    /\ UNCHANGED <<rowLock, fresh>>

(* delete_build: cancel a build that is not terminal, refund a cancelled   *)
(* one, soft-delete the row.                                               *)
(* Mutation: a build cancelled earlier is deleted without its refund.      *)
DeleteForgetsCancelled(status) == IF status \notin Terminal THEN "write" ELSE "delete"

FirstStepOfDelete(status) ==
    CASE status \notin Terminal -> "write"
      [] status = "CANCELLED" /\ Cost # 0 -> "credit-check"
      [] OTHER -> "delete"

DeleteBuild(r, b) ==
    /\ Found(b)
    /\ Begin(r, "delete", b, FirstStepOfDelete(build[b].status))
    /\ UNCHANGED <<rowLock, fresh>>

(* approve_build: only from REVIEW, then capture, then LIVE.               *)
(* Mutation: the capture is forgotten.                                     *)
ApproveWithoutCapture(r, b) ==
    /\ Found(b)
    /\ build[b].status = "REVIEW"
    /\ Begin(r, "approve", b, "write")
    /\ UNCHANGED <<rowLock, fresh>>

ApproveBuild(r, b) ==
    /\ Found(b)
    /\ build[b].status = "REVIEW"
    /\ Begin(r, "approve", b, "credit-check")
    /\ UNCHANGED <<rowLock, fresh>>

(* A statement of the request's transaction.                               *)
RequestStatement(r) ==
    /\ \/ CheckKey(r)
       \/ ApplyCredits(r)
       \/ WriteStatus(r)
       \/ WriteDeleted(r)
    /\ UNCHANGED <<queue, fresh>>

RequestCommit(r) == Commit(r) /\ UNCHANGED <<queue, fresh>>

(* An exception rolls the request back: a refused credit call, a deadlock, *)
(* a broker or database failure, a client or a process that goes away.     *)
(* Mutation: the database does not break deadlocks.                        *)
OnlyRefusalsFail(r) == CreditsFail(r) /\ UNCHANGED <<queue, fresh>>

RequestFails(r) ==
    /\ \/ CreditsFail(r)
       \/ DeadlockVictim(r)
    /\ UNCHANGED <<queue, fresh>>

RequestCrash(r) == InTx(r) /\ Rollback(r) /\ UNCHANGED <<queue, fresh>>

RequestArrives(r) ==
    \E b \in Builds : \/ StartBuild(r, b)
                     \/ CancelBuild(r, b)
                     \/ DeleteBuild(r, b)
                     \/ ApproveBuild(r, b)

(* What the handler does once the request is in.                           *)
RequestProgress(r) ==
    \/ Dispatch(r)
    \/ RequestStatement(r)
    \/ RequestCommit(r)
    \/ RequestFails(r)

RequestNext(r) == RequestArrives(r) \/ RequestProgress(r) \/ RequestCrash(r)
=============================================================================
