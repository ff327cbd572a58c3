------------------------ MODULE BuildPipelineProofs ------------------------
(***************************************************************************)
(* For every set of builds, requests and workers, every price, grant and   *)
(* retry limit: IInv is an inductive invariant of BuildPipeline, and with  *)
(* it the safety properties it names.                                      *)
(***************************************************************************)
EXTENDS BuildPipeline, CreditsProofs

(***************************************************************************)
(* What the tables of operations say                                       *)
(***************************************************************************)
(* The tables of BuildStore: the key, the next statement and the status of *)
(* each operation.                                                         *)
LEMMA OpTables ==
    /\ KeyNameOf["start"] = "reserve"
    /\ KeyNameOf["approve"] = "capture"
    /\ KeyNameOf["delete"] = "refund-delete"
    /\ KeyNameOf["force-fail"] = "refund"
    /\ KeyNameOf["exhaust"] = "refund"
    /\ \A op \in Ops : KeyNameOf[op] \in KeyNames
    /\ \A op \in Ops \ {"start"} : KeyNameOf[op] # "reserve"
    /\ AfterCredits["start"] = "dispatch"
    /\ AfterCredits["approve"] = "write"
    /\ AfterCredits["delete"] = "delete"
    /\ AfterCredits["force-fail"] = "commit"
    /\ AfterCredits["exhaust"] = "commit"
    /\ AfterWrite["execute"] = "submit"
    /\ AfterWrite["cancel"] = "commit"
    /\ AfterWrite["approve"] = "commit"
    /\ AfterWrite["force-fail"] = "credit-check"
    /\ AfterWrite["delete"] = IF Cost # 0 THEN "credit-check" ELSE "delete"
    /\ Target["cancel"] = "CANCELLED"
    /\ Target["delete"] = "CANCELLED"
    /\ Target["approve"] = "LIVE"
    /\ Target["execute"] = "PROVISIONING"
    /\ Target["force-fail"] = "FAILED"
BY DEF KeyNameOf, AfterCredits, AfterWrite, Target, Ops, KeyNames

(* The statements each operation goes through (BuildPipeline).             *)
LEMMA StepTable ==
    /\ StepsOf["start"] = {"credit-lock", "dispatch", "commit"}
    /\ StepsOf["cancel"] = {"write", "commit"}
    /\ StepsOf["delete"] = {"write", "credit-check", "credit-lock", "delete", "commit"}
    /\ StepsOf["approve"] = {"credit-check", "credit-lock", "write", "commit"}
    /\ StepsOf["execute"] = {"write", "submit", "poll", "commit"}
    /\ StepsOf["force-fail"] = {"write", "credit-check", "credit-lock", "commit"}
    /\ StepsOf["exhaust"] = {"credit-check", "credit-lock", "commit"}
BY DEF StepsOf, Ops

(* The status each operation may commit.                                   *)
LEMMA OutcomeTable ==
    /\ Outcome["start"] = "QUEUED"
    /\ Outcome["approve"] = "LIVE"
    /\ Outcome["execute"] = "REVIEW"
    /\ Outcome["force-fail"] = "FAILED"
    /\ Outcome["cancel"] = "CANCELLED"
    /\ Outcome["delete"] = "CANCELLED"
    /\ Outcome["exhaust"] = "CANCELLED"
BY DEF Outcome, Ops

(* A process in a transaction holds a record with all its fields.          *)
LEMMA InTxType ==
    ASSUME StoreTypeOK, NEW p \in Procs
    PROVE  /\ InTx(p) => tx[p] \in OpenTx
           /\ ~InTx(p) => tx[p] = NoTx
<1>1. tx[p] \in Txs
  BY DEF StoreTypeOK
<1>2. \A t \in OpenTx : t.step # "none"
  BY DEF OpenTx, Steps
<1> QED
  BY <1>1, <1>2 DEF InTx, Txs, NoTx

(* The key a transaction uses is one of its build's.                       *)
LEMMA KeyOfType ==
    ASSUME NEW t \in OpenTx
    PROVE  KeyOf(t) \in Keys /\ KeyOf(t)[1] = KeyNameOf[t.op] /\ KeyOf(t)[2] = t.build
BY OpTables DEF KeyOf, Keys, OpenTx

(***************************************************************************)
(* One statement of one transaction                                        *)
(***************************************************************************)
(* A statement that leaves the committed rows alone keeps StoreInv if its  *)
(* new transaction record is in order and it takes the wallet's lock only  *)
(* when it is free.                                                        *)
LEMMA StatementStep ==
    ASSUME StoreInv,
           NEW p \in Procs, NEW t \in OpenTx,
           TxProgress(t), TxCredits(t),
           tx' = [tx EXCEPT ![p] = t],
           UNCHANGED <<build, wallet, ledger>>,
           rowLock' \in [Builds -> Procs \cup {Nobody}],
           \/ walletLock' = walletLock
           \/ walletLock = Nobody /\ walletLock' = p,
           Pays(t) => walletLock' = p /\ UpToDate(t)
    PROVE  StoreInv'
<1>1. StoreTypeOK'
  BY DEF StoreInv, StoreTypeOK, Txs
<1>2. \A q \in Procs : tx'[q] = IF q = p THEN t ELSE tx[q]
  BY DEF StoreInv, StoreTypeOK
<1>3. TxInv'
  <2> SUFFICES ASSUME NEW q \in Procs, InTx(q)'
               PROVE  (TxProgress(tx[q]) /\ TxCredits(tx[q]))'
    BY DEF TxInv
  <2>1. CASE q = p
    BY <2>1, <1>2 DEF TxProgress, TxCredits, Pays, HasSettled
  <2>2. CASE q # p
    <3>1. InTx(q) /\ tx'[q] = tx[q]
      BY <2>2, <1>2 DEF InTx
    <3>2. TxProgress(tx[q]) /\ TxCredits(tx[q])
      BY <3>1 DEF StoreInv, TxInv
    <3> QED
      BY <3>1, <3>2 DEF TxProgress, TxCredits, Pays, HasSettled
  <2> QED
    BY <2>1, <2>2
<1>4. NoLostUpdate'
  <2> SUFFICES ASSUME NEW q \in Procs, InTx(q)', Pays(tx'[q])
               PROVE  (walletLock = q /\ UpToDate(tx[q]))'
    BY DEF NoLostUpdate, Pays
  <2>1. CASE q = p
    BY <2>1, <1>2 DEF UpToDate, KeyOf
  <2>2. CASE q # p
    <3>1. InTx(q) /\ tx'[q] = tx[q] /\ Pays(tx[q])
      BY <2>2, <1>2 DEF InTx
    <3>2. walletLock = q /\ UpToDate(tx[q])
      BY <3>1 DEF StoreInv, NoLostUpdate
    <3>3. walletLock' = walletLock
      BY <3>2, NobodyAssumption
    <3> QED
      BY <3>1, <3>2, <3>3 DEF UpToDate, KeyOf
  <2> QED
    BY <2>1, <2>2
<1>5. BuildInv'
  BY DEF StoreInv, BuildInv, StartedIsReserved, LiveIsCaptured, FailedIsRefunded,
         DeletedIsSettled, HasSettled, NoIntermediateStatus
<1> QED
  BY <1>1, <1>3, <1>4, <1>5 DEF StoreInv

(* A transaction that ends without a commit gives up its locks and leaves  *)
(* no trace.                                                               *)
LEMMA RollbackStep ==
    ASSUME StoreInv, NEW p \in Procs, Rollback(p)
    PROVE  StoreInv' /\ ~InTx(p)' /\ \A q \in Procs \ {p} : tx'[q] = tx[q]
<1> USE DEF Rollback
<1>1. tx'[p] = NoTx /\ \A q \in Procs \ {p} : tx'[q] = tx[q]
  BY DEF StoreInv, StoreTypeOK
<1>2. ~InTx(p)'
  BY <1>1 DEF InTx, NoTx
<1>3. StoreTypeOK'
  BY DEF StoreInv, StoreTypeOK, Txs, ReleaseLocks
<1>4. ASSUME NEW q \in Procs, InTx(q)'
      PROVE  q # p /\ InTx(q) /\ tx'[q] = tx[q]
  BY <1>1, <1>2, <1>4 DEF InTx
<1>5. TxInv'
  <2> SUFFICES ASSUME NEW q \in Procs, InTx(q)'
               PROVE  (TxProgress(tx[q]) /\ TxCredits(tx[q]))'
    BY DEF TxInv
  <2>1. TxProgress(tx[q]) /\ TxCredits(tx[q])
    BY <1>4 DEF StoreInv, TxInv
  <2> QED
    BY <2>1, <1>4 DEF TxProgress, TxCredits, Pays, HasSettled
<1>6. NoLostUpdate'
  <2> SUFFICES ASSUME NEW q \in Procs, InTx(q)', Pays(tx'[q])
               PROVE  (walletLock = q /\ UpToDate(tx[q]))'
    BY DEF NoLostUpdate, Pays
  <2>1. walletLock = q /\ UpToDate(tx[q])
    BY <1>4 DEF StoreInv, NoLostUpdate
  <2>2. walletLock' = q
    BY <2>1, <1>4 DEF ReleaseLocks
  <2> QED
    BY <2>1, <2>2, <1>4 DEF UpToDate, KeyOf
<1>7. BuildInv'
  BY DEF StoreInv, BuildInv, StartedIsReserved, LiveIsCaptured, FailedIsRefunded,
         DeletedIsSettled, HasSettled, NoIntermediateStatus
<1> QED
  BY <1>1, <1>2, <1>3, <1>5, <1>6, <1>7 DEF StoreInv

(* A commit publishes a status the operation is allowed to reach, together *)
(* with the ledger row that justifies it.                                  *)
LEMMA CommitStep ==
    ASSUME StoreInv, NEW p \in Procs, Commit(p)
    PROVE  StoreInv' /\ ~InTx(p)' /\ \A q \in Procs \ {p} : tx'[q] = tx[q]
<1> DEFINE t == tx[p]
<1>1. t.step = "commit" /\ InTx(p)
  BY DEF Commit, InTx
<1>2. t \in OpenTx
  BY <1>1, InTxType DEF StoreInv
<1>3. TxProgress(t) /\ TxCredits(t)
  BY <1>1 DEF StoreInv, TxInv
<1>4. Pays(t) => walletLock = p /\ UpToDate(t)
  BY <1>1 DEF StoreInv, NoLostUpdate
<1>5. tx' = [tx EXCEPT ![p] = NoTx]
  BY DEF Commit
<1>6. tx'[p] = NoTx /\ \A q \in Procs \ {p} : tx'[q] = tx[q]
  BY <1>5 DEF StoreInv, StoreTypeOK
<1>7. ~InTx(p)'
  BY <1>6 DEF InTx, NoTx
<1>8. /\ t.build \in Builds /\ t.op \in Ops /\ t.status \in Statuses
      /\ t.wallet \in Wallets /\ t.rows \in SUBSET Rows
  BY <1>2 DEF OpenTx
<1>9. /\ ledger' = ledger \cup t.rows
      /\ wallet' = IF Pays(t) THEN t.wallet ELSE wallet
  BY DEF Commit, Pays
<1>10. build' = [build EXCEPT
         ![t.build] = [status  |-> IF "status" \in t.writes THEN t.status ELSE @.status,
                       deleted |-> @.deleted \/ "deleted" \in t.writes]]
  BY DEF Commit
<1>11. ReleaseLocks(p)
  BY DEF Commit
<1>12. ~Pays(t) => UNCHANGED <<wallet, ledger>>
  BY <1>3, <1>9 DEF TxCredits
<1>13. Pays(t) => HasKey(ledger', KeyOf(t))
  <2> SUFFICES ASSUME Pays(t)  PROVE HasKey(ledger', KeyOf(t))
    OBVIOUS
  <2>1. RowFor(KeyOf(t), ledger) \in ledger'
    BY <1>4, <1>9 DEF UpToDate
  <2> QED
    BY <2>1 DEF HasKey, RowFor
<1>14. \A key : HasKey(ledger, key) => HasKey(ledger', key)
  BY <1>9, KeysStay
<1>15. ASSUME NEW b \in Builds
       PROVE  /\ build'[b].status = IF b = t.build /\ "status" \in t.writes
                                    THEN t.status ELSE build[b].status
              /\ build'[b].deleted = (build[b].deleted \/ (b = t.build /\ "deleted" \in t.writes))
              /\ build'[b] \in BuildRows
  BY <1>8, <1>10 DEF StoreInv, StoreTypeOK, BuildRows
<1>16. StoreTypeOK'
  <2>1. build' \in [Builds -> BuildRows]
    BY <1>10, <1>15 DEF StoreInv, StoreTypeOK
  <2>2. wallet' \in Wallets /\ ledger' \in SUBSET Rows
    BY <1>8, <1>9 DEF StoreInv, StoreTypeOK
  <2> QED
    BY <2>1, <2>2, <1>5, <1>11 DEF StoreInv, StoreTypeOK, Txs, ReleaseLocks
<1>17. \A b \in Builds : build[b].status # "ABSENT" => build'[b].status # "ABSENT"
  BY <1>3, <1>15 DEF TxProgress
<1>18. ASSUME NEW q \in Procs, InTx(q)'
       PROVE  /\ q # p /\ InTx(q) /\ tx'[q] = tx[q]
              /\ tx[q] \in OpenTx /\ TxProgress(tx[q]) /\ TxCredits(tx[q])
  <2>1. q # p /\ InTx(q) /\ tx'[q] = tx[q]
    BY <1>6, <1>7, <1>18 DEF InTx
  <2> QED
    BY <2>1, InTxType DEF StoreInv, TxInv
<1>19. ASSUME NEW q \in Procs, InTx(q)', Pays(tx[q])
       PROVE  walletLock = q /\ UpToDate(tx[q]) /\ ~Pays(t)
  <2>1. q # p /\ walletLock = q /\ UpToDate(tx[q])
    BY <1>18, <1>19 DEF StoreInv, NoLostUpdate
  <2> QED
    BY <2>1, <1>4
<1>20. TxInv'
  <2> SUFFICES ASSUME NEW q \in Procs, InTx(q)'
               PROVE  (TxProgress(tx[q]) /\ TxCredits(tx[q]))'
    BY DEF TxInv
  <2> DEFINE u == tx[q]
  <2>1. u' = u /\ u.build \in Builds /\ TxProgress(u) /\ TxCredits(u)
    BY <1>18 DEF OpenTx
  <2>2. TxProgress(u)'
    BY <2>1 DEF TxProgress, Pays
  <2>3. Pays(u) => UNCHANGED <<wallet, ledger>>
    BY <1>12, <1>19
  <2>4. u.op # "start" => build'[u.build].status # "ABSENT"
    BY <2>1, <1>17 DEF TxCredits
  <2>5. HasSettled(u.build) => HasSettled(u.build)'
    BY <1>14, <2>1 DEF HasSettled
  <2>6. TxCredits(u)'
    BY <2>1, <2>3, <2>4, <2>5, <1>14 DEF TxCredits, Pays, CanReserve
  <2> QED
    BY <2>2, <2>6
<1>21. NoLostUpdate'
  <2> SUFFICES ASSUME NEW q \in Procs, InTx(q)', Pays(tx'[q])
               PROVE  (walletLock = q /\ UpToDate(tx[q]))'
    BY DEF NoLostUpdate, Pays
  <2>1. q # p /\ tx'[q] = tx[q]
    BY <1>18
  <2>2. walletLock = q /\ UpToDate(tx[q]) /\ UNCHANGED <<wallet, ledger>>
    BY <2>1, <1>19, <1>12
  <2>3. walletLock' = q
    BY <2>1, <2>2, <1>11 DEF ReleaseLocks
  <2> QED
    BY <2>1, <2>2, <2>3 DEF UpToDate, KeyOf
<1>22. "status" \in t.writes => t.status = Outcome[t.op] /\ t.op # "exhaust"
  BY <1>1, <1>3 DEF TxProgress
<1>23. KeyOf(t) = <<KeyNameOf[t.op], t.build>>
  BY DEF KeyOf
<1>24. StartedIsReserved'
  <2> SUFFICES ASSUME NEW b \in Builds, build'[b].status # "ABSENT"
               PROVE  HasKey(ledger', <<"reserve", b>>)
    BY DEF StartedIsReserved, HasKey
  <2>1. CASE b = t.build /\ t.op = "start"
    BY <2>1, <1>1, <1>3, <1>13, <1>23, OpTables DEF TxCredits
  <2>2. CASE ~(b = t.build /\ t.op = "start")
    <3>1. build[b].status # "ABSENT"
      BY <2>2, <1>3, <1>15 DEF TxCredits
    <3> QED
      BY <3>1, <1>14 DEF StoreInv, BuildInv, StartedIsReserved
  <2> QED
    BY <2>1, <2>2
<1>25. LiveIsCaptured'
  <2> SUFFICES ASSUME NEW b \in Builds, build'[b].status = "LIVE"
               PROVE  HasKey(ledger', <<"capture", b>>)
    BY DEF LiveIsCaptured, HasKey
  <2>1. CASE b = t.build /\ "status" \in t.writes
    <3>1. t.op = "approve"
      BY <2>1, <1>8, <1>15, <1>22, OutcomeTable DEF Ops
    <3> QED
      BY <3>1, <2>1, <1>1, <1>3, <1>13, <1>14, <1>23, OpTables DEF TxCredits
  <2>2. CASE ~(b = t.build /\ "status" \in t.writes)
    BY <2>2, <1>14, <1>15 DEF StoreInv, BuildInv, LiveIsCaptured
  <2> QED
    BY <2>1, <2>2
<1>26. FailedIsRefunded'
  <2> SUFFICES ASSUME NEW b \in Builds, build'[b].status = "FAILED"
               PROVE  HasKey(ledger', <<"refund", b>>)
    BY DEF FailedIsRefunded, HasKey
  <2>1. CASE b = t.build /\ "status" \in t.writes
    <3>1. t.op = "force-fail"
      BY <2>1, <1>8, <1>15, <1>22, OutcomeTable DEF Ops
    <3> QED
      BY <3>1, <2>1, <1>1, <1>3, <1>13, <1>14, <1>23, OpTables DEF TxCredits
  <2>2. CASE ~(b = t.build /\ "status" \in t.writes)
    BY <2>2, <1>14, <1>15 DEF StoreInv, BuildInv, FailedIsRefunded
  <2> QED
    BY <2>1, <2>2
<1>27. \A b : HasSettled(b) => HasSettled(b)'
  BY <1>14 DEF HasSettled
<1>28. DeletedIsSettled'
  <2> SUFFICES ASSUME NEW b \in Builds, build'[b].deleted, Cost # 0
               PROVE  HasSettled(b)'
    BY DEF DeletedIsSettled
  <2>1. CASE b = t.build /\ "deleted" \in t.writes
    <3>1. t.op = "delete"
      BY <2>1, <1>3 DEF TxProgress
    <3>2. Pays(t) \/ HasSettled(b)
      BY <3>1, <2>1, <1>1, <1>3 DEF TxCredits
    <3>3. KeyOf(t) = <<"refund-delete", b>>
      BY <3>1, <2>1, <1>23, OpTables
    <3>4. Pays(t) => HasSettled(b)'
      BY <3>3, <1>13 DEF HasSettled, RefundNames
    <3> QED
      BY <3>2, <3>4, <1>27
  <2>2. CASE ~(b = t.build /\ "deleted" \in t.writes)
    <3>1. HasSettled(b)
      BY <2>2, <1>15 DEF StoreInv, BuildInv, DeletedIsSettled
    <3> QED
      BY <3>1, <1>27
  <2> QED
    BY <2>1, <2>2
<1>29. NoIntermediateStatus'
  <2> SUFFICES ASSUME NEW b \in Builds
               PROVE  build'[b].status \notin {"PROVISIONING", "BUILDING", "TESTING"}
    BY DEF NoIntermediateStatus
  <2>1. CASE b = t.build /\ "status" \in t.writes
    BY <2>1, <1>8, <1>15, <1>22, OutcomeTable DEF Ops
  <2>2. CASE ~(b = t.build /\ "status" \in t.writes)
    BY <2>2, <1>15 DEF StoreInv, BuildInv, NoIntermediateStatus
  <2> QED
    BY <2>1, <2>2
<1> QED
  BY <1>6, <1>7, <1>16, <1>20, <1>21, <1>24, <1>25, <1>26, <1>28, <1>29
     DEF StoreInv, BuildInv

(* What the invariant says of a process in a transaction.                  *)
LEMMA OpenTxFacts ==
    ASSUME StoreInv, NEW p \in Procs, InTx(p)
    PROVE  /\ tx[p] \in OpenTx
           /\ TxProgress(tx[p])
           /\ TxCredits(tx[p])
           /\ Pays(tx[p]) => walletLock = p /\ UpToDate(tx[p])
BY InTxType DEF StoreInv, TxInv, NoLostUpdate

(* The look-up of the idempotency key: an operation whose key is in the    *)
(* ledger goes on as if it had paid.                                       *)
LEMMA CheckKeyStep ==
    ASSUME StoreInv, NEW p \in Procs, CheckKey(p)
    PROVE  StoreInv' /\ InTx(p) /\ \A q \in Procs \ {p} : tx'[q] = tx[q]
<1> DEFINE t == tx[p]
           next == IF HasKey(ledger, KeyOf(t)) THEN AfterCredits[t.op] ELSE "credit-lock"
           u == [t EXCEPT !.step = next]
<1>1. t.step = "credit-check" /\ InTx(p)
  BY DEF CheckKey, InTx
<1>2. /\ t \in OpenTx /\ TxProgress(t) /\ TxCredits(t)
      /\ ~Pays(t) /\ "deleted" \notin t.writes
  BY <1>1, OpenTxFacts DEF TxProgress
<1>3. t.op \in {"delete", "approve", "force-fail", "exhaust"}
  BY <1>1, <1>2, StepTable DEF TxProgress, OpenTx, Ops
<1>4. tx' = [tx EXCEPT ![p] = u]
  BY DEF CheckKey, StoreInv, StoreTypeOK
<1>5. next \in Steps \cap StepsOf[t.op]
  BY <1>3, OpTables, StepTable DEF Steps
<1>6. u \in OpenTx
  BY <1>2, <1>5 DEF OpenTx
<1> HIDE DEF next
<1>7. /\ u.op = t.op /\ u.build = t.build /\ u.step = next /\ u.status = t.status
      /\ u.writes = t.writes /\ u.rows = t.rows /\ KeyOf(u) = KeyOf(t)
  BY <1>2 DEF OpenTx, KeyOf
<1> HIDE DEF u
<1>8. TxProgress(u)
  BY <1>1, <1>2, <1>3, <1>5, <1>7, OpTables DEF TxProgress, Pays
<1>9. next # "credit-lock" => HasKey(ledger, <<KeyNameOf[t.op], t.build>>)
  BY DEF next, KeyOf
<1>10. TxCredits(u)
  BY <1>1, <1>2, <1>3, <1>5, <1>7, <1>9, OpTables, StepTable
     DEF TxCredits, Pays, HasSettled, RefundNames
<1>11. ~Pays(u)
  BY <1>2, <1>7 DEF Pays
<1>12. StoreInv'
  BY <1>4, <1>6, <1>8, <1>10, <1>11, StatementStep DEF CheckKey, StoreInv, StoreTypeOK
<1> QED
  BY <1>1, <1>4, <1>12 DEF StoreInv, StoreTypeOK

(* The paid call: nobody else holds the wallet, so what it computes is up  *)
(* to date and stays so until the transaction ends.                        *)
LEMMA ApplyCreditsStep ==
    ASSUME StoreInv, NEW p \in Procs, ApplyCredits(p)
    PROVE  StoreInv' /\ InTx(p) /\ \A q \in Procs \ {p} : tx'[q] = tx[q]
<1> DEFINE t == tx[p]
           w == WalletAfter(KeyOf(t), wallet, ledger)
           rows == {RowFor(KeyOf(t), ledger)}
           u == [t EXCEPT !.step = AfterCredits[t.op], !.writes = @ \cup {"credits"},
                          !.wallet = w, !.rows = rows]
<1>1. t.step = "credit-lock" /\ InTx(p) /\ walletLock = Nobody /\ ~CreditsRefused(t)
  BY DEF ApplyCredits, WalletIsFree, InTx
<1>2. /\ t \in OpenTx /\ TxProgress(t) /\ TxCredits(t)
      /\ ~Pays(t) /\ "deleted" \notin t.writes
  BY <1>1, OpenTxFacts DEF TxProgress
<1>3. t.op \in {"start", "delete", "approve", "force-fail", "exhaust"}
  BY <1>1, <1>2, StepTable DEF TxProgress, OpenTx, Ops
<1>4. tx' = [tx EXCEPT ![p] = u]
  BY DEF ApplyCredits, StoreInv, StoreTypeOK
<1>5. AfterCredits[t.op] \in Steps \cap (StepsOf[t.op] \ {"credit-check", "credit-lock"})
  BY <1>3, OpTables, StepTable DEF Steps
<1>6. w \in Wallets /\ rows \in SUBSET Rows
  BY <1>2, KeyOfType, CallTypes DEF StoreInv, StoreTypeOK
<1> HIDE DEF w, rows
<1>7. u \in OpenTx
  BY <1>2, <1>5, <1>6 DEF OpenTx
<1>8. /\ u.op = t.op /\ u.build = t.build /\ u.step = AfterCredits[t.op]
      /\ u.status = t.status /\ u.writes = t.writes \cup {"credits"}
      /\ u.wallet = w /\ u.rows = rows /\ KeyOf(u) = KeyOf(t)
  BY <1>2 DEF OpenTx, KeyOf
<1> HIDE DEF u
<1>9. TxProgress(u)
  BY <1>1, <1>2, <1>3, <1>5, <1>8, OpTables DEF TxProgress
<1>10. Pays(u)
  BY <1>8 DEF Pays
<1>11. TxCredits(u)
  BY <1>1, <1>2, <1>8, <1>10 DEF TxCredits, CreditsRefused
<1>12. UpToDate(u)
  BY <1>1, <1>8 DEF UpToDate, CreditsRefused, w, rows
<1>13. StoreInv'
  BY <1>1, <1>4, <1>7, <1>9, <1>11, <1>12, StatementStep
     DEF ApplyCredits, StoreInv, StoreTypeOK
<1> QED
  BY <1>1, <1>4, <1>13 DEF StoreInv, StoreTypeOK

(* A write of the status reaches the outcome of the operation, unless the  *)
(* operation is the executor's, which has a long way to go.                *)
LEMMA WriteStatusStep ==
    ASSUME StoreInv, NEW p \in Procs, WriteStatus(p)
    PROVE  StoreInv' /\ InTx(p) /\ \A q \in Procs \ {p} : tx'[q] = tx[q]
<1> DEFINE t == tx[p]
           u == [t EXCEPT !.step = AfterWrite[t.op], !.status = Target[t.op],
                          !.writes = @ \cup {"status"}]
<1>1. t.step = "write" /\ InTx(p)
  BY DEF WriteStatus, InTx
<1>2. /\ t \in OpenTx /\ TxProgress(t) /\ TxCredits(t)
      /\ "deleted" \notin t.writes
      /\ Pays(t) => walletLock = p /\ UpToDate(t)
  BY <1>1, OpenTxFacts DEF TxProgress
<1>3. t.op \in {"cancel", "delete", "approve", "execute", "force-fail"}
  BY <1>1, <1>2, StepTable DEF TxProgress, OpenTx, Ops
<1>4. tx' = [tx EXCEPT ![p] = u]
  BY DEF WriteStatus, StoreInv, StoreTypeOK
<1>5. AfterWrite[t.op] \in Steps \cap StepsOf[t.op]
  BY <1>3, OpTables, StepTable DEF Steps
<1>6. /\ Target[t.op] \in Statuses \ {"ABSENT"}
      /\ t.op # "execute" => Target[t.op] = Outcome[t.op]
  BY <1>3, OpTables, OutcomeTable DEF Statuses
<1>7. u \in OpenTx
  BY <1>2, <1>5, <1>6 DEF OpenTx
<1>8. /\ u.op = t.op /\ u.build = t.build /\ u.step = AfterWrite[t.op]
      /\ u.status = Target[t.op] /\ u.writes = t.writes \cup {"status"}
      /\ u.wallet = t.wallet /\ u.rows = t.rows /\ KeyOf(u) = KeyOf(t)
      /\ Pays(u) = Pays(t)
  BY <1>2 DEF OpenTx, KeyOf, Pays
<1> HIDE DEF u
<1>9. t.op \in {"delete", "force-fail"} => ~Pays(t)
  BY <1>1, <1>2 DEF TxProgress
<1>10. TxProgress(u)
  BY <1>2, <1>3, <1>5, <1>6, <1>8, <1>9, OpTables DEF TxProgress
<1>11. TxCredits(u)
  BY <1>1, <1>2, <1>3, <1>8, OpTables DEF TxCredits
<1>12. Pays(u) => walletLock = p /\ UpToDate(u)
  BY <1>2, <1>8 DEF UpToDate
<1>13. StoreInv'
  BY <1>2, <1>4, <1>7, <1>10, <1>11, <1>12, StatementStep
     DEF WriteStatus, StoreInv, StoreTypeOK, OpenTx
<1> QED
  BY <1>1, <1>4, <1>13 DEF StoreInv, StoreTypeOK

(* The soft delete comes after the refund.                                 *)
LEMMA WriteDeletedStep ==
    ASSUME StoreInv, NEW p \in Procs, WriteDeleted(p)
    PROVE  StoreInv' /\ InTx(p) /\ \A q \in Procs \ {p} : tx'[q] = tx[q]
<1> DEFINE t == tx[p]
           u == [t EXCEPT !.step = "commit", !.writes = @ \cup {"deleted"}]
<1>1. t.step = "delete" /\ InTx(p)
  BY DEF WriteDeleted, InTx
<1>2. /\ t \in OpenTx /\ TxProgress(t) /\ TxCredits(t)
      /\ Pays(t) => walletLock = p /\ UpToDate(t)
  BY <1>1, OpenTxFacts
<1>3. t.op = "delete"
  BY <1>1, <1>2, StepTable DEF TxProgress, OpenTx, Ops
<1>4. tx' = [tx EXCEPT ![p] = u]
  BY DEF WriteDeleted, StoreInv, StoreTypeOK
<1>5. u \in OpenTx
  BY <1>2 DEF OpenTx, Steps
<1>6. /\ u.op = t.op /\ u.build = t.build /\ u.step = "commit"
      /\ u.status = t.status /\ u.writes = t.writes \cup {"deleted"}
      /\ u.wallet = t.wallet /\ u.rows = t.rows /\ KeyOf(u) = KeyOf(t)
      /\ Pays(u) = Pays(t)
  BY <1>2 DEF OpenTx, KeyOf, Pays
<1> HIDE DEF u
<1>7. TxProgress(u)
  BY <1>1, <1>2, <1>3, <1>6, StepTable DEF TxProgress
<1>8. TxCredits(u)
  BY <1>1, <1>2, <1>3, <1>6 DEF TxCredits
<1>9. Pays(u) => walletLock = p /\ UpToDate(u)
  BY <1>2, <1>6 DEF UpToDate
<1>10. StoreInv'
  BY <1>2, <1>4, <1>5, <1>7, <1>8, <1>9, StatementStep
     DEF WriteDeleted, StoreInv, StoreTypeOK, OpenTx
<1> QED
  BY <1>1, <1>4, <1>10 DEF StoreInv, StoreTypeOK

(* A process opens a transaction on a build it has found.                  *)
LEMMA OpenStep ==
    ASSUME StoreInv, NEW p \in Procs, NEW b \in Builds,
           NEW op \in Ops \ {"start"}, NEW step \in Steps \cap StepsOf[op],
           step # "commit",
           build[b].status # "ABSENT",
           op = "approve" => step # "write",
           op = "delete" /\ step = "delete" /\ Cost # 0 => HasSettled(b),
           tx' = [tx EXCEPT ![p] = OpenedTx(op, b, step, build[b].status)],
           UNCHANGED <<build, wallet, ledger, rowLock, walletLock>>
    PROVE  StoreInv' /\ \A q \in Procs \ {p} : tx'[q] = tx[q]
<1> DEFINE u == OpenedTx(op, b, step, build[b].status)
<1>1. NewWallet \in Wallets
  BY GrantAssumption DEF NewWallet, Wallets
<1>2. u \in OpenTx
  BY <1>1 DEF OpenedTx, OpenTx, StoreInv, StoreTypeOK, BuildRows
<1>3. TxProgress(u)
  BY DEF TxProgress, OpenedTx, Pays
<1>4. TxCredits(u)
  BY DEF TxCredits, OpenedTx, Pays
<1>5. ~Pays(u)
  BY DEF OpenedTx, Pays
<1> HIDE DEF u
<1>6. StoreInv'
  BY <1>2, <1>3, <1>4, <1>5, StatementStep DEF StoreInv, StoreTypeOK, u
<1> QED
  BY <1>6 DEF StoreInv, StoreTypeOK

(* A step that touches neither the database nor a transaction.             *)
LEMMA StoreStutter ==
    ASSUME StoreInv, UNCHANGED storeVars
    PROVE  StoreInv'
BY DEF StoreInv, storeVars, StoreTypeOK, TxInv, InTx, TxProgress, TxCredits, Pays,
       HasSettled, NoLostUpdate, UpToDate, KeyOf, BuildInv, StartedIsReserved,
       LiveIsCaptured, FailedIsRefunded, DeletedIsSettled, NoIntermediateStatus, CanReserve

(***************************************************************************)
(* Requests                                                                *)
(***************************************************************************)
(* start_build's INSERT holds the row's lock and will need its reserve.    *)
LEMMA StartBuildStep ==
    ASSUME StoreInv, NEW p \in Procs, NEW b \in Builds, StartBuild(p, b)
    PROVE  StoreInv' /\ \A q \in Procs \ {p} : tx'[q] = tx[q]
<1> DEFINE u == [OpenedTx("start", b, "credit-lock", "QUEUED") EXCEPT !.writes = {"status"}]
<1>1. NewWallet \in Wallets
  BY GrantAssumption DEF NewWallet, Wallets
<1>2. u \in OpenTx
  BY <1>1 DEF OpenedTx, OpenTx, Ops, Steps, Statuses
<1>3. TxProgress(u)
  BY StepTable, OutcomeTable DEF TxProgress, OpenedTx, Pays
<1>4. TxCredits(u)
  BY DEF TxCredits, OpenedTx, Pays
<1>5. ~Pays(u)
  BY DEF OpenedTx, Pays
<1>6. tx' = [tx EXCEPT ![p] = u] /\ UNCHANGED <<build, wallet, ledger, walletLock>>
  BY DEF StartBuild
<1>7. rowLock' \in [Builds -> Procs \cup {Nobody}]
  BY DEF StartBuild, StoreInv, StoreTypeOK
<1> HIDE DEF u
<1>8. StoreInv'
  BY <1>2, <1>3, <1>4, <1>5, <1>6, <1>7, StatementStep
<1> QED
  BY <1>6, <1>8 DEF StoreInv, StoreTypeOK

(* dispatch comes after the reserve, so the commit that follows pays.      *)
LEMMA DispatchStep ==
    ASSUME StoreInv, NEW p \in Procs, Dispatch(p)
    PROVE  StoreInv' /\ tx[p].build \in Builds /\ \A q \in Procs \ {p} : tx'[q] = tx[q]
<1> DEFINE t == tx[p]
           u == [t EXCEPT !.step = "commit"]
<1>1. t.step = "dispatch" /\ InTx(p)
  BY DEF Dispatch, InTx
<1>2. /\ t \in OpenTx /\ TxProgress(t) /\ TxCredits(t)
      /\ Pays(t) => walletLock = p /\ UpToDate(t)
  BY <1>1, OpenTxFacts
<1>3. t.op = "start"
  BY <1>1, <1>2, StepTable DEF TxProgress, OpenTx, Ops
<1>4. tx' = [tx EXCEPT ![p] = u]
  BY DEF Dispatch, StoreInv, StoreTypeOK
<1>5. u \in OpenTx
  BY <1>2 DEF OpenTx, Steps
<1>6. /\ u.op = t.op /\ u.build = t.build /\ u.step = "commit"
      /\ u.status = t.status /\ u.writes = t.writes
      /\ u.wallet = t.wallet /\ u.rows = t.rows /\ KeyOf(u) = KeyOf(t)
      /\ Pays(u) = Pays(t)
  BY <1>2 DEF OpenTx, KeyOf, Pays
<1> HIDE DEF u
<1>7. TxProgress(u)
  BY <1>1, <1>2, <1>3, <1>6, StepTable DEF TxProgress
<1>8. TxCredits(u)
  BY <1>1, <1>2, <1>3, <1>6 DEF TxCredits
<1>9. Pays(u) => walletLock = p /\ UpToDate(u)
  BY <1>2, <1>6 DEF UpToDate
<1>10. StoreInv'
  BY <1>2, <1>4, <1>5, <1>7, <1>8, <1>9, StatementStep
     DEF Dispatch, StoreInv, StoreTypeOK, OpenTx
<1> QED
  BY <1>2, <1>4, <1>10 DEF StoreInv, StoreTypeOK, OpenTx

(* cancel_build, delete_build and approve_build open their transaction on  *)
(* a build whose row they have just read.                                  *)
LEMMA BeginStep ==
    ASSUME StoreInv, NEW p \in Procs, NEW b \in Builds,
           CancelBuild(p, b) \/ DeleteBuild(p, b) \/ ApproveBuild(p, b)
    PROVE  StoreInv' /\ \A q \in Procs \ {p} : tx'[q] = tx[q]
<1> USE DEF Begin, Found
<1>1. CASE CancelBuild(p, b)
  <2>1. /\ build[b].status # "ABSENT"
        /\ tx' = [tx EXCEPT ![p] = OpenedTx("cancel", b, "write", build[b].status)]
        /\ UNCHANGED <<build, wallet, ledger, rowLock, walletLock>>
    BY <1>1 DEF CancelBuild
  <2>2. "cancel" \in Ops \ {"start"} /\ "write" \in Steps \cap StepsOf["cancel"]
    BY StepTable DEF Ops, Steps
  <2> QED
    BY <2>1, <2>2, OpenStep
<1>2. CASE ApproveBuild(p, b)
  BY <1>2, OpenStep, StepTable DEF ApproveBuild, Ops, Steps
<1>3. CASE DeleteBuild(p, b)
  <2> DEFINE step == FirstStepOfDelete(build[b].status)
  <2>1. /\ build[b].status # "ABSENT"
        /\ tx' = [tx EXCEPT ![p] = OpenedTx("delete", b, step, build[b].status)]
        /\ UNCHANGED <<build, wallet, ledger, rowLock, walletLock>>
    BY <1>3 DEF DeleteBuild
  <2>2. step \in Steps \cap StepsOf["delete"] /\ step # "commit"
    BY StepTable DEF Steps, FirstStepOfDelete
  <2>3. step = "delete" /\ Cost # 0 => HasSettled(b)
    <3> SUFFICES ASSUME step = "delete", Cost # 0  PROVE HasSettled(b)
      OBVIOUS
    <3>1. build[b].status \in {"LIVE", "FAILED"}
      BY DEF FirstStepOfDelete, Terminal
    <3> QED
      BY <3>1 DEF StoreInv, BuildInv, LiveIsCaptured, FailedIsRefunded, HasSettled, RefundNames
  <2> HIDE DEF step
  <2> QED
    BY <2>1, <2>2, <2>3, OpenStep DEF Ops
<1> QED
  BY <1>1, <1>2, <1>3

(* Every step of a request keeps StoreInv and touches no other process's   *)
(* transaction.                                                            *)
LEMMA RequestKeepsStore ==
    ASSUME StoreInv, NEW r \in Requests, RequestNext(r)
    PROVE  StoreInv' /\ \A q \in Procs \ {r} : tx'[q] = tx[q]
<1>1. r \in Procs
  BY RequestsAssumption
<1>2. CASE RequestArrives(r)
  BY <1>1, <1>2, StartBuildStep, BeginStep DEF RequestArrives
<1>3. CASE Dispatch(r)
  BY <1>1, <1>3, DispatchStep
<1>4. CASE RequestStatement(r)
  BY <1>1, <1>4, CheckKeyStep, ApplyCreditsStep, WriteStatusStep, WriteDeletedStep
     DEF RequestStatement
<1>5. CASE RequestCommit(r)
  BY <1>1, <1>5, CommitStep DEF RequestCommit
<1>6. CASE RequestFails(r) \/ RequestCrash(r)
  BY <1>1, <1>6, RollbackStep DEF RequestFails, RequestCrash, CreditsFail, DeadlockVictim
<1> QED
  BY <1>2, <1>3, <1>4, <1>5, <1>6 DEF RequestNext, RequestProgress

(***************************************************************************)
(* Workers                                                                 *)
(***************************************************************************)
(* The executor's flushes: only the last one, REVIEW, is followed by a     *)
(* commit.                                                                 *)
LEMMA FlushStep ==
    ASSUME StoreInv, NEW p \in Procs, SubmitToAgent(p) \/ AgentSucceeded(p)
    PROVE  StoreInv' /\ InTx(p) /\ \A q \in Procs \ {p} : tx'[q] = tx[q]
<1> DEFINE t == tx[p]
<1>1. PICK status \in {"BUILDING", "REVIEW"}, step \in {"poll", "commit"} :
        /\ Flush(p, status, step)
        /\ t.step \in {"submit", "poll"}
        /\ step = "commit" => status = "REVIEW"
  BY DEF SubmitToAgent, AgentSucceeded
<1> DEFINE u == [t EXCEPT !.status = status, !.step = step]
<1>2. InTx(p) /\ t \in OpenTx /\ TxProgress(t) /\ TxCredits(t)
  BY <1>1, OpenTxFacts DEF InTx
<1>3. t.op = "execute" /\ ~Pays(t) /\ "deleted" \notin t.writes
  BY <1>1, <1>2, StepTable DEF TxProgress, OpenTx, Ops
<1>4. tx' = [tx EXCEPT ![p] = u]
  BY <1>1 DEF Flush, StoreInv, StoreTypeOK
<1>5. u \in OpenTx
  BY <1>1, <1>2 DEF OpenTx, Steps, Statuses
<1>6. /\ u.op = t.op /\ u.build = t.build /\ u.step = step
      /\ u.status = status /\ u.writes = t.writes /\ u.rows = t.rows
  BY <1>2 DEF OpenTx
<1> HIDE DEF u
<1>7. TxProgress(u)
  BY <1>1, <1>2, <1>3, <1>6, StepTable, OutcomeTable DEF TxProgress, Pays
<1>8. TxCredits(u) /\ ~Pays(u)
  BY <1>2, <1>3, <1>6 DEF TxCredits, Pays
<1>9. StoreInv'
  BY <1>1, <1>4, <1>5, <1>7, <1>8, StatementStep DEF Flush, StoreInv, StoreTypeOK
<1> QED
  BY <1>2, <1>4, <1>9 DEF StoreInv, StoreTypeOK

(* The executor and the two refunds open their transactions.               *)
LEMMA WorkerOpens ==
    ASSUME StoreInv, NEW w \in Workers, NEW b \in Builds,
           NEW op \in {"execute", "force-fail", "exhaust"},
           NEW step \in {"write", "credit-check"},
           step \in StepsOf[op], Found(b),
           tx' = [tx EXCEPT ![w] = OpenedTx(op, b, step, build[b].status)],
           UNCHANGED <<build, wallet, ledger, rowLock, walletLock>>
    PROVE  StoreInv' /\ \A q \in Procs \ {w} : tx'[q] = tx[q]
<1>1. w \in Procs /\ op \in Ops \ {"start"} /\ step \in Steps \cap StepsOf[op]
  BY WorkersAssumption DEF Ops, Steps
<1>2. build[b].status # "ABSENT" /\ step # "commit"
  BY DEF Found
<1>3. op \notin {"approve", "delete"}
  OBVIOUS
<1> QED
  BY <1>1, <1>2, <1>3, OpenStep

(* Every step of a worker keeps StoreInv and touches no other process's    *)
(* transaction.                                                            *)
LEMMA WorkerKeepsStore ==
    ASSUME TypeOK, StoreInv, NEW w \in Workers, WorkerNext(w)
    PROVE  StoreInv' /\ \A q \in Procs \ {w} : tx'[q] = tx[q]
<1>1. w \in Procs
  BY WorkersAssumption
<1>2. ASSUME NEW b \in Builds, NEW n \in Attempts, TaskStart(w, b, n)
      PROVE  StoreInv' /\ \A q \in Procs \ {w} : tx'[q] = tx[q]
  <2>1. CASE Startable(b)
    <3>1. /\ tx' = [tx EXCEPT ![w] = OpenedTx("execute", b, "write", build[b].status)]
          /\ Found(b)
          /\ UNCHANGED <<build, wallet, ledger, rowLock, walletLock>>
      BY <1>2, <2>1 DEF TaskStart, Startable
    <3>2. "write" \in StepsOf["execute"]
      BY StepTable
    <3> QED
      BY <3>1, <3>2, WorkerOpens
  <2>2. CASE ~Startable(b)
    BY <1>2, <2>2, StoreStutter DEF TaskStart, storeVars
  <2> QED
    BY <2>1, <2>2
<1>3. CASE Provision(w) \/ RefundStatement(w)
  BY <1>1, <1>3, CheckKeyStep, ApplyCreditsStep, WriteStatusStep
     DEF Provision, RefundStatement
<1>4. CASE SubmitToAgent(w) \/ AgentSucceeded(w)
  BY <1>1, <1>4, FlushStep
<1>5. CASE CommitReview(w) \/ RefundCommit(w)
  BY <1>1, <1>5, CommitStep DEF CommitReview, RefundCommit
<1>6. CASE RetryTask(w) \/ RetryLost(w) \/ EndTask(w) \/ SoftTimeLimitSwallowed(w)
  BY <1>6, StoreStutter DEF RetryTask, RetryLost, EndTask, SoftTimeLimitSwallowed, storeVars
<1>7. CASE ExhaustRetries(w)
  <2> DEFINE b == task[w].build
  <2>1. b \in Builds
    BY <1>7 DEF ExhaustRetries, TypeOK, Idle, Tasks
  <2>2. CASE Found(b)
    <3>1. /\ tx' = [tx EXCEPT ![w] = OpenedTx("exhaust", b, "credit-check", build[b].status)]
          /\ UNCHANGED <<build, wallet, ledger, rowLock, walletLock>>
      BY <1>7, <2>2 DEF ExhaustRetries
    <3>2. "credit-check" \in StepsOf["exhaust"]
      BY StepTable
    <3> HIDE DEF b
    <3> QED
      BY <3>1, <3>2, <2>1, <2>2, WorkerOpens
  <2>3. CASE ~Found(b)
    BY <1>7, <2>3, StoreStutter DEF ExhaustRetries, storeVars
  <2> QED
    BY <2>2, <2>3
<1>8. CASE ForceFail(w)
  <2> DEFINE b == task[w].build
             step == IF build[b].status \in {"FAILED", "CANCELLED"}
                     THEN "credit-check" ELSE "write"
  <2>1. b \in Builds
    BY <1>8 DEF ForceFail, TypeOK, Idle, Tasks
  <2>2. CASE Found(b)
    <3>1. /\ tx' = [tx EXCEPT ![w] = OpenedTx("force-fail", b, step, build[b].status)]
          /\ UNCHANGED <<build, wallet, ledger, rowLock, walletLock>>
      BY <1>8, <2>2 DEF ForceFail
    <3>2. step \in {"write", "credit-check"} /\ step \in StepsOf["force-fail"]
      BY StepTable
    <3> HIDE DEF b, step
    <3> QED
      BY <3>1, <3>2, <2>1, <2>2, WorkerOpens
  <2>3. CASE ~Found(b)
    BY <1>8, <2>3, StoreStutter DEF ForceFail, storeVars
  <2> QED
    BY <2>2, <2>3
<1>9. CASE \/ AgentFailed(w) \/ ExecutionError(w) \/ SoftTimeLimit(w)
           \/ RefundRefused(w) \/ RefundError(w) \/ HardTimeLimit(w) \/ WorkerLost(w)
  BY <1>1, <1>9, RollbackStep
     DEF AgentFailed, ExecutionError, SoftTimeLimit, RefundRefused, RefundError,
         HardTimeLimit, WorkerLost, CreditsFail, DeadlockVictim
<1> QED
  BY <1>2, <1>3, <1>4, <1>5, <1>6, <1>7, <1>8, <1>9
     DEF WorkerNext, WorkerProgress, WorkerTrouble

(* Publishing and taking a message leave a bag of messages.                *)
LEMMA BrokerTypes ==
    ASSUME queue \in [Messages -> Nat], NEW b \in Builds, NEW n \in Attempts,
           Publish(b, n) \/ Take(b, n)
    PROVE  queue' \in [Messages -> Nat]
<1>1. <<b, n>> \in Messages
  BY DEF Messages
<1>2. queue[<<b, n>>] \in Nat
  BY <1>1
<1>3. queue[<<b, n>>] + 1 \in Nat /\ (queue[<<b, n>>] > 0 => queue[<<b, n>>] - 1 \in Nat)
  BY <1>2
<1> QED
  BY <1>1, <1>3 DEF Publish, Take

(* A worker's step leaves a well-formed queue, task and crash count.       *)
LEMMA WorkerTypes ==
    ASSUME IInv, NEW w \in Workers, WorkerNext(w)
    PROVE  /\ queue' \in [Messages -> Nat]
           /\ task' \in [Workers -> Tasks \cup {Idle}]
           /\ crashes' \in Nat
<1> DEFINE Types == /\ queue' \in [Messages -> Nat]
                    /\ task' \in [Workers -> Tasks \cup {Idle}]
                    /\ crashes' \in Nat
<1>1. /\ queue \in [Messages -> Nat] /\ task \in [Workers -> Tasks \cup {Idle}]
      /\ crashes \in Nat /\ w \in Procs
  BY WorkersAssumption DEF IInv, TypeOK
<1>2. task[w] # Idle => task[w] \in Tasks
  BY <1>1
<1>3. InTx(w) => task[w] \in Tasks
  BY <1>2 DEF IInv, WorkerInv, Idle
<1>4. ASSUME NEW phase \in Phases, task[w] \in Tasks
      PROVE  /\ [task[w] EXCEPT !.phase = phase] \in Tasks
             /\ [task[w] EXCEPT !.phase = phase, !.soft = TRUE] \in Tasks
             /\ GoTo(w, phase) => task' \in [Workers -> Tasks \cup {Idle}]
  BY <1>1, <1>4 DEF Tasks, GoTo
<1>5. ASSUME NEW b \in Builds, NEW n \in Attempts, TaskStart(w, b, n)
      PROVE  Types
  <2>1. queue' \in [Messages -> Nat]
    BY <1>1, <1>5, BrokerTypes DEF TaskStart
  <2>2. [phase |-> IF Startable(b) THEN "execute" ELSE "failed",
         build |-> b, attempt |-> n, soft |-> FALSE] \in Tasks
    BY DEF Tasks, Phases
  <2>3. task' \in [Workers -> Tasks \cup {Idle}]
    BY <1>1, <1>5, <2>2 DEF TaskStart
  <2> QED
    BY <1>1, <1>5, <2>1, <2>3 DEF TaskStart
<1>6. CASE Provision(w) \/ SubmitToAgent(w) \/ AgentSucceeded(w) \/ RefundStatement(w)
  BY <1>1, <1>6 DEF Provision, SubmitToAgent, AgentSucceeded, RefundStatement
<1>7. CASE AgentFailed(w)
  BY <1>1, <1>3, <1>4, <1>7 DEF AgentFailed, Phases, InTx
<1>8. CASE \/ ExecutionError(w) \/ RetryLost(w) \/ CommitReview(w)
           \/ RefundCommit(w) \/ RefundRefused(w) \/ RefundError(w)
  BY <1>1, <1>2, <1>4, <1>8
     DEF ExecutionError, RetryLost, CommitReview, RefundCommit, RefundRefused, RefundError,
         Refunding, Phases, Idle
<1>9. CASE RetryTask(w)
  <2>1. task[w] \in Tasks /\ task[w].attempt < MaxRetries
    BY <1>2, <1>9 DEF RetryTask, Idle
  <2>2. task[w].build \in Builds /\ task[w].attempt + 1 \in Attempts
    BY <2>1, RetriesAssumption DEF Tasks, Attempts
  <2>3. queue' \in [Messages -> Nat]
    BY <1>1, <1>9, <2>2, BrokerTypes DEF RetryTask
  <2> QED
    BY <1>1, <1>4, <1>9, <2>1, <2>3 DEF RetryTask, Phases
<1>10. CASE ExhaustRetries(w)
  BY <1>1, <1>2, <1>4, <1>10 DEF ExhaustRetries, Phases, Idle
<1>11. CASE ForceFail(w)
  BY <1>1, <1>2, <1>4, <1>11 DEF ForceFail, Phases, Idle
<1>12. CASE SoftTimeLimit(w)
  BY <1>1, <1>2, <1>4, <1>12 DEF SoftTimeLimit, Phases, Idle
<1>13. CASE SoftTimeLimitSwallowed(w)
  <2>1. task[w] \in Tasks
    BY <1>3, <1>13 DEF SoftTimeLimitSwallowed, InTx
  <2>2. [task[w] EXCEPT !.soft = TRUE] \in Tasks
    BY <2>1 DEF Tasks
  <2> QED
    BY <1>1, <1>13, <2>2 DEF SoftTimeLimitSwallowed
<1>14. CASE EndTask(w) \/ HardTimeLimit(w)
  BY <1>1, <1>14 DEF EndTask, HardTimeLimit
<1>15. CASE WorkerLost(w)
  <2>1. task[w].build \in Builds /\ task[w].attempt \in Attempts
    BY <1>2, <1>15 DEF WorkerLost, Tasks
  <2>2. queue' \in [Messages -> Nat]
    BY <1>1, <1>15, <2>1, BrokerTypes DEF WorkerLost
  <2> QED
    BY <1>1, <1>15, <2>2 DEF WorkerLost
<1> QED
  BY <1>5, <1>6, <1>7, <1>8, <1>9, <1>10, <1>11, <1>12, <1>13, <1>14, <1>15
     DEF WorkerNext, WorkerProgress, WorkerTrouble

(* A worker leaves no transaction open when its task moves on.             *)
LEMMA WorkerEndsTransaction ==
    ASSUME IInv, NEW w \in Workers, WorkerNext(w)
    PROVE  InTx(w)' => task'[w].phase \in {"execute", "force-fail", "exhaust"}
<1> DEFINE Busy == {"execute", "force-fail", "exhaust"}
           Holds == InTx(w)' => task'[w].phase \in Busy
<1>1. /\ task \in [Workers -> Tasks \cup {Idle}] /\ w \in Procs
      /\ InTx(w) => task[w].phase \in Busy
      /\ StoreInv
  BY WorkersAssumption DEF IInv, TypeOK, WorkerInv
<1>2. ASSUME NEW b \in Builds, NEW n \in Attempts, TaskStart(w, b, n)
      PROVE  Holds
  <2>1. ~InTx(w)
    BY <1>1, <1>2 DEF TaskStart, Idle
  <2>2. CASE Startable(b)
    BY <1>1, <1>2, <2>2 DEF TaskStart
  <2>3. CASE ~Startable(b)
    BY <1>2, <2>1, <2>3 DEF TaskStart, InTx
  <2> QED
    BY <2>2, <2>3
<1>3. CASE Provision(w) \/ SubmitToAgent(w) \/ AgentSucceeded(w) \/ RefundStatement(w)
  BY <1>1, <1>3, CheckKeyStep, ApplyCreditsStep, WriteStatusStep, FlushStep
     DEF Provision, SubmitToAgent, AgentSucceeded, RefundStatement, InTx
<1>4. CASE CommitReview(w) \/ RefundCommit(w)
  BY <1>1, <1>4, CommitStep DEF CommitReview, RefundCommit
<1>5. CASE \/ AgentFailed(w) \/ ExecutionError(w) \/ SoftTimeLimit(w)
           \/ RefundRefused(w) \/ RefundError(w) \/ HardTimeLimit(w) \/ WorkerLost(w)
  BY <1>1, <1>5, RollbackStep
     DEF AgentFailed, ExecutionError, SoftTimeLimit, RefundRefused, RefundError,
         HardTimeLimit, WorkerLost, CreditsFail, DeadlockVictim
<1>6. CASE RetryTask(w) \/ RetryLost(w) \/ EndTask(w)
  BY <1>1, <1>6 DEF RetryTask, RetryLost, EndTask, storeVars, InTx
<1>7. CASE SoftTimeLimitSwallowed(w)
  BY <1>1, <1>7 DEF SoftTimeLimitSwallowed, storeVars, InTx
<1>8. CASE ExhaustRetries(w)
  <2>1. ~InTx(w)
    BY <1>1, <1>8 DEF ExhaustRetries
  <2>2. CASE Found(task[w].build)
    BY <1>1, <1>8, <2>2 DEF ExhaustRetries, GoTo, Idle
  <2>3. CASE ~Found(task[w].build)
    BY <1>8, <2>1, <2>3 DEF ExhaustRetries, InTx
  <2> QED
    BY <2>2, <2>3
<1>9. CASE ForceFail(w)
  <2>1. CASE Found(task[w].build)
    BY <1>9, <2>1 DEF ForceFail
  <2>2. CASE ~Found(task[w].build)
    BY <1>9, <2>2 DEF ForceFail, InTx
  <2> QED
    BY <2>1, <2>2
<1> QED
  BY <1>2, <1>3, <1>4, <1>5, <1>6, <1>7, <1>8, <1>9
     DEF WorkerNext, WorkerProgress, WorkerTrouble

(* Workers do not touch each other's tasks.                                *)
LEMMA WorkersApart ==
    ASSUME IInv, NEW w \in Workers, WorkerNext(w)
    PROVE  \A v \in Workers \ {w} : task'[v] = task[v]
BY DEF IInv, TypeOK, WorkerNext, WorkerProgress, WorkerTrouble, TaskStart, Provision,
       SubmitToAgent, AgentSucceeded, AgentFailed, CommitReview, RetryTask,
       ExhaustRetries, ForceFail, RefundStatement, RefundCommit, RefundRefused, EndTask,
       ExecutionError, RetryLost, SoftTimeLimit, SoftTimeLimitSwallowed, RefundError,
       HardTimeLimit, WorkerLost, GoTo

(***************************************************************************)
(* The invariant and what follows from it                                  *)
(***************************************************************************)
(* The empty database, an empty queue and idle workers satisfy IInv.       *)
LEMMA InitEstablishes == Init => IInv
<1> SUFFICES ASSUME Init  PROVE IInv
  OBVIOUS
<1> USE DEF Init, StoreInit, BrokerInit, ServiceInit, TaskInit
<1>1. \A p \in Procs : ~InTx(p)
  BY DEF InTx, NoTx
<1>2. \A b \in Builds : build[b].status = "ABSENT" /\ build[b].deleted = FALSE
  OBVIOUS
<1>3. StoreTypeOK
  BY GrantAssumption
     DEF StoreTypeOK, BuildRows, Statuses, NewWallet, Wallets, Txs
<1>4. TypeOK
  BY <1>3 DEF TypeOK
<1>5. BuildInv
  BY <1>2 DEF BuildInv, StartedIsReserved, LiveIsCaptured, FailedIsRefunded,
              DeletedIsSettled, NoIntermediateStatus
<1>6. WorkerInv
  BY <1>1, WorkersAssumption DEF WorkerInv
<1> QED
  BY <1>1, <1>3, <1>4, <1>5, <1>6 DEF IInv, StoreInv, TxInv, NoLostUpdate

(* Every step of a request or of a worker keeps IInv.                      *)
LEMMA NextPreserves == IInv /\ [Next]_vars => IInv'
<1> SUFFICES ASSUME IInv, [Next]_vars  PROVE IInv'
  OBVIOUS
<1>1. CASE UNCHANGED vars
  <2>1. StoreInv'
    BY <1>1, StoreStutter DEF IInv, vars, storeVars
  <2>2. TypeOK' /\ WorkerInv'
    BY <1>1, <2>1 DEF IInv, vars, TypeOK, StoreInv, WorkerInv, InTx
  <2> QED
    BY <2>1, <2>2 DEF IInv
<1>2. ASSUME NEW r \in Requests, RequestNext(r), UNCHANGED <<task, crashes>>
      PROVE  IInv'
  <2>1. StoreInv' /\ \A q \in Procs \ {r} : tx'[q] = tx[q]
    BY <1>2, RequestKeepsStore DEF IInv
  <2>2. queue' \in [Messages -> Nat] /\ fresh' \in SUBSET Builds
    <3>1. queue \in [Messages -> Nat] /\ fresh \in SUBSET Builds /\ r \in Procs
      BY RequestsAssumption DEF IInv, TypeOK
    <3>2. CASE Dispatch(r)
      <4>1. tx[r].build \in Builds
        BY <3>1, <3>2, DispatchStep DEF IInv
      <4>2. 0 \in Attempts
        BY RetriesAssumption DEF Attempts
      <4> QED
        BY <3>1, <3>2, <4>1, <4>2, BrokerTypes DEF Dispatch
    <3>3. CASE RequestArrives(r)
      BY <3>1, <3>3 DEF RequestArrives, StartBuild, CancelBuild, DeleteBuild,
                        ApproveBuild, Begin
    <3>4. CASE RequestStatement(r) \/ RequestCommit(r) \/ RequestFails(r) \/ RequestCrash(r)
      BY <3>1, <3>4 DEF RequestStatement, RequestCommit, RequestFails, RequestCrash
    <3> QED
      BY <1>2, <3>2, <3>3, <3>4 DEF RequestNext, RequestProgress
  <2>3. TypeOK'
    BY <1>2, <2>1, <2>2 DEF IInv, TypeOK, StoreInv
  <2>4. WorkerInv'
    <3>1. \A w \in Workers : tx'[w] = tx[w]
      BY <2>1, WorkersAssumption, DisjointAssumption
    <3> QED
      BY <1>2, <3>1 DEF IInv, WorkerInv, InTx
  <2> QED
    BY <2>1, <2>3, <2>4 DEF IInv
<1>3. ASSUME NEW w \in Workers, WorkerNext(w), UNCHANGED fresh
      PROVE  IInv'
  <2>1. StoreInv' /\ \A q \in Procs \ {w} : tx'[q] = tx[q]
    BY <1>3, WorkerKeepsStore DEF IInv
  <2>2. TypeOK'
    BY <1>3, <2>1, WorkerTypes DEF IInv, TypeOK, StoreInv
  <2>3. WorkerInv'
    <3> SUFFICES ASSUME NEW v \in Workers, InTx(v)'
                 PROVE  task'[v].phase \in {"execute", "force-fail", "exhaust"}
      BY DEF WorkerInv
    <3>1. CASE v = w
      BY <1>3, <3>1, WorkerEndsTransaction
    <3>2. CASE v # w
      BY <1>3, <2>1, <3>2, WorkersApart, WorkersAssumption DEF IInv, WorkerInv, InTx
    <3> QED
      BY <3>1, <3>2
  <2> QED
    BY <2>1, <2>2, <2>3 DEF IInv
<1> QED
  BY <1>1, <1>2, <1>3 DEF Next

(* IInv holds in every reachable state: an open transaction has done what  *)
(* its operation does before its current statement.                        *)
THEOREM InvariantHolds == Spec => []IInv
BY InitEstablishes, NextPreserves, PTL DEF Spec

(* The state is well formed, for every set of builds and processes.        *)
THEOREM TypesHold == Spec => []TypeOK
<1>1. IInv => TypeOK
  BY DEF IInv
<1> QED
  BY <1>1, InvariantHolds, PTL

(* No build goes live without the capture of its credits.                  *)
THEOREM LiveBuildsAreCaptured == Spec => []LiveIsCaptured
<1>1. IInv => LiveIsCaptured
  BY DEF IInv, StoreInv, BuildInv
<1> QED
  BY <1>1, InvariantHolds, PTL

(* No build is shown as FAILED without its refund.                         *)
THEOREM FailedBuildsAreRefunded == Spec => []FailedIsRefunded
<1>1. IInv => FailedIsRefunded
  BY DEF IInv, StoreInv, BuildInv
<1> QED
  BY <1>1, InvariantHolds, PTL

(* No build is deleted with its credits still reserved.                    *)
THEOREM DeletedBuildsAreSettled == Spec => []DeletedIsSettled
<1>1. IInv => DeletedIsSettled
  BY DEF IInv, StoreInv, BuildInv
<1> QED
  BY <1>1, InvariantHolds, PTL

(* The executor's intermediate statuses are never committed.               *)
THEOREM IntermediateStatusesAreHidden == Spec => []NoIntermediateStatus
<1>1. IInv => NoIntermediateStatus
  BY DEF IInv, StoreInv, BuildInv
<1> QED
  BY <1>1, InvariantHolds, PTL

(* No commit of a wallet overwrites somebody else's update.                *)
THEOREM NoUpdateIsLost == Spec => []NoLostUpdate
<1>1. IInv => NoLostUpdate
  BY DEF IInv, StoreInv
<1> QED
  BY <1>1, InvariantHolds, PTL

(***************************************************************************)
(* The pipeline implements the abstract ledger                             *)
(***************************************************************************)
(* The instance computes with the same arithmetic.                         *)
LEMMA SameArithmetic ==
    /\ Ledger!KeyNames = KeyNames
    /\ Ledger!NewWallet = NewWallet
    /\ \A w : Ledger!CanReserve(w) = CanReserve(w)
    /\ \A rows, key : Ledger!HasKey(rows, key) = HasKey(rows, key)
    /\ \A rows, key, w : Ledger!WalletAfter(key, w, rows) = WalletAfter(key, w, rows)
    /\ \A rows, key : Ledger!RowFor(key, rows) = RowFor(key, rows)
<1>1. /\ Ledger!KeyNames = KeyNames /\ Ledger!NewWallet = NewWallet
      /\ Ledger!KindOf = KindOf
  BY DEF Ledger!KeyNames, KeyNames, Ledger!NewWallet, NewWallet, Ledger!KindOf, KindOf
<1>2. \A w : Ledger!CanReserve(w) = CanReserve(w)
  BY DEF Ledger!CanReserve, CanReserve
<1>3. \A rows, key : Ledger!HasKey(rows, key) = HasKey(rows, key)
  BY DEF Ledger!HasKey, HasKey
<1>4. \A rows, b : Ledger!ReservedAmount(rows, b) = ReservedAmount(rows, b)
  BY DEF Ledger!ReservedAmount, ReservedAmount, Ledger!Abs, Abs
<1>5. \A w : Ledger!Reserve(w) = Reserve(w)
  BY DEF Ledger!Reserve, Reserve
<1>6. \A w, n : Ledger!Capture(w, n) = Capture(w, n) /\ Ledger!Refund(w, n) = Refund(w, n)
  BY DEF Ledger!Capture, Capture, Ledger!Refund, Refund, Ledger!AtLeastZero, AtLeastZero
<1>7. \A rows, key, w : Ledger!WalletAfter(key, w, rows) = WalletAfter(key, w, rows)
  BY <1>1, <1>4, <1>5, <1>6 DEF Ledger!WalletAfter, WalletAfter
<1>8. \A rows, key : Ledger!RowFor(key, rows) = RowFor(key, rows)
  BY <1>1, <1>4 DEF Ledger!RowFor, RowFor
<1> QED
  BY <1>1, <1>2, <1>3, <1>7, <1>8

(* A commit is one operation of the abstract ledger, or changes neither    *)
(* wallet nor ledger.                                                      *)
LEMMA CommitIsLedgerStep ==
    ASSUME StoreInv, NEW p \in Procs, Commit(p)
    PROVE  Ledger!Next \/ UNCHANGED <<wallet, ledger>>
<1> DEFINE t == tx[p]
<1>1. t.step = "commit" /\ InTx(p)
  BY DEF Commit, InTx
<1>2. /\ t \in OpenTx /\ TxCredits(t)
      /\ Pays(t) => UpToDate(t)
  BY <1>1, OpenTxFacts
<1>3. /\ wallet' = IF Pays(t) THEN t.wallet ELSE wallet
      /\ ledger' = ledger \cup t.rows
  BY DEF Commit, Pays
<1>4. t.op \in Ops /\ t.build \in Builds
  BY <1>2 DEF OpenTx
<1>5. CASE ~Pays(t)
  BY <1>2, <1>3, <1>5 DEF TxCredits
<1>6. CASE Pays(t)
  <2>1. Ledger!Apply(KeyOf(t))
    BY <1>2, <1>3, <1>6, SameArithmetic DEF UpToDate, Ledger!Apply
  <2>2. KeyOf(t) = <<KeyNameOf[t.op], t.build>>
    BY DEF KeyOf
  <2>3. CASE t.op = "start"
    <3>1. CanReserve(wallet)
      BY <1>2, <1>6, <2>3 DEF TxCredits
    <3>2. Ledger!ReserveCredits(t.build)
      BY <2>1, <2>2, <2>3, <3>1, OpTables, SameArithmetic DEF Ledger!ReserveCredits
    <3> QED
      BY <1>4, <3>2 DEF Ledger!Next
  <2>4. CASE t.op # "start"
    <3>1. HasKey(ledger, <<"reserve", t.build>>)
      BY <1>2, <1>4, <2>4 DEF TxCredits, StoreInv, BuildInv, StartedIsReserved
    <3>2. KeyNameOf[t.op] \in KeyNames \ {"reserve"}
      BY <1>4, <2>4, OpTables
    <3>3. Ledger!SettleCredits(KeyNameOf[t.op], t.build)
      BY <2>1, <2>2, <3>1, SameArithmetic DEF Ledger!SettleCredits
    <3> QED
      BY <1>4, <3>2, <3>3, SameArithmetic DEF Ledger!Next
  <2> QED
    BY <2>3, <2>4
<1> QED
  BY <1>5, <1>6

(* So is every step of the pipeline.                                       *)
LEMMA StepIsLedgerStep ==
    ASSUME StoreInv, [Next]_vars
    PROVE  [Ledger!Next]_(Ledger!vars)
<1> SUFFICES Ledger!Next \/ UNCHANGED <<wallet, ledger>>
  BY DEF Ledger!vars
<1>1. CASE UNCHANGED vars
  BY <1>1 DEF vars
<1>2. ASSUME NEW r \in Requests, RequestNext(r)
      PROVE  Ledger!Next \/ UNCHANGED <<wallet, ledger>>
  <2>1. CASE RequestCommit(r)
    BY <2>1, CommitIsLedgerStep, RequestsAssumption DEF RequestCommit
  <2>2. CASE RequestArrives(r)
    BY <2>2 DEF RequestArrives, StartBuild, CancelBuild, DeleteBuild, ApproveBuild, Begin
  <2>3. CASE Dispatch(r) \/ RequestStatement(r) \/ RequestFails(r) \/ RequestCrash(r)
    BY <2>3 DEF Dispatch, RequestStatement, RequestFails, RequestCrash, CheckKey,
                ApplyCredits, WriteStatus, WriteDeleted, CreditsFail, DeadlockVictim, Rollback
  <2> QED
    BY <1>2, <2>1, <2>2, <2>3 DEF RequestNext, RequestProgress
<1>3. ASSUME NEW w \in Workers, WorkerNext(w)
      PROVE  Ledger!Next \/ UNCHANGED <<wallet, ledger>>
  <2>1. CASE CommitReview(w) \/ RefundCommit(w)
    BY <2>1, CommitIsLedgerStep, WorkersAssumption DEF CommitReview, RefundCommit
  <2>2. CASE ~(CommitReview(w) \/ RefundCommit(w))
    BY <1>3, <2>2
       DEF WorkerNext, WorkerProgress, WorkerTrouble, TaskStart, Provision,
           SubmitToAgent, AgentSucceeded, AgentFailed, RetryTask, ExhaustRetries,
           ForceFail, RefundStatement, RefundRefused, EndTask, ExecutionError, RetryLost,
           SoftTimeLimit, SoftTimeLimitSwallowed, RefundError, HardTimeLimit,
           WorkerLost, Flush, CheckKey, ApplyCredits, WriteStatus, CreditsFail,
           DeadlockVictim, Rollback, storeVars
  <2> QED
    BY <2>1, <2>2
<1> QED
  BY <1>1, <1>2, <1>3 DEF Next

(* Requests, workers, retries and crashes add up to the abstract ledger.   *)
THEOREM PipelineImplementsLedger == Spec => ImplementsLedger
<1>1. Init => Ledger!Init
  BY SameArithmetic DEF Init, StoreInit, Ledger!Init
<1>2. IInv /\ [Next]_vars => [Ledger!Next]_(Ledger!vars)
  BY StepIsLedgerStep DEF IInv
<1> QED
  BY <1>1, <1>2, InvariantHolds, PTL DEF Spec, ImplementsLedger, Ledger!Spec

(* No interleaving overdraws the wallet.                                   *)
THEOREM WalletIsNeverOverdrawn == Spec => []NoOverdraft
<1>1. Init => NoOverdraft
  BY GrantAssumption DEF Init, StoreInit, NewWallet, NoOverdraft
<1>2. IInv /\ NoOverdraft /\ [Next]_vars => NoOverdraft'
  <2> SUFFICES ASSUME IInv, NoOverdraft, [Next]_vars  PROVE NoOverdraft'
    OBVIOUS
  <2>1. wallet \in Wallets /\ ledger \in SUBSET Rows
    BY DEF IInv, StoreInv, StoreTypeOK
  <2>2. Ledger!Next \/ UNCHANGED <<wallet, ledger>>
    BY StepIsLedgerStep DEF IInv, Ledger!vars
  <2>3. ASSUME NEW key \in Keys, key[1] = "reserve" => CanReserve(wallet),
               wallet' = WalletAfter(key, wallet, ledger)
        PROVE  NoOverdraft'
    BY <2>1, <2>3, CallKeepsWalletNonNegative DEF NoOverdraft
  <2>4. ASSUME NEW b \in Builds, Ledger!ReserveCredits(b)  PROVE NoOverdraft'
    <3>1. <<"reserve", b>> \in Keys
      BY DEF Keys, KeyNames
    <3> QED
      BY <2>3, <2>4, <3>1, SameArithmetic DEF Ledger!ReserveCredits, Ledger!Apply
  <2>5. ASSUME NEW b \in Builds, NEW name \in KeyNames \ {"reserve"},
               Ledger!SettleCredits(name, b)
        PROVE  NoOverdraft'
    <3>1. <<name, b>> \in Keys /\ <<name, b>>[1] # "reserve"
      BY DEF Keys
    <3> QED
      BY <2>3, <2>5, <3>1, SameArithmetic DEF Ledger!SettleCredits, Ledger!Apply
  <2> QED
    BY <2>2, <2>4, <2>5, SameArithmetic DEF Ledger!Next, NoOverdraft
<1> QED
  BY <1>1, <1>2, InvariantHolds, PTL DEF Spec

(* Every step keeps ledger and wallet in step.                             *)
LEMMA StepKeepsAccounts ==
    IInv /\ Explains(ledger, wallet) /\ [Next]_vars => Explains(ledger, wallet)'
<1> SUFFICES ASSUME IInv, Explains(ledger, wallet), [Next]_vars
             PROVE  Explains(ledger', wallet')
  BY DEF Explains, OfKind
<1>1. wallet \in Wallets /\ ledger \in SUBSET Rows
  BY DEF IInv, StoreInv, StoreTypeOK
<1>2. Ledger!Next \/ UNCHANGED <<wallet, ledger>>
  BY StepIsLedgerStep DEF IInv, Ledger!vars
<1>3. ASSUME NEW key \in Keys, ~HasKey(ledger, key),
             key[1] # "reserve" => HasKey(ledger, <<"reserve", key[2]>>),
             wallet' = WalletAfter(key, wallet, ledger),
             ledger' = ledger \cup {RowFor(key, ledger)}
      PROVE  Explains(ledger', wallet')
  BY <1>1, <1>3, CallKeepsAccounts
<1>4. ASSUME NEW b \in Builds, Ledger!ReserveCredits(b)
      PROVE  Explains(ledger', wallet')
  <2>1. <<"reserve", b>> \in Keys
    BY DEF Keys, KeyNames
  <2>. QED
    BY <1>3, <1>4, <2>1, SameArithmetic DEF Ledger!ReserveCredits, Ledger!Apply
<1>5. ASSUME NEW b \in Builds, NEW name \in KeyNames \ {"reserve"},
             Ledger!SettleCredits(name, b)
      PROVE  Explains(ledger', wallet')
  <2>1. <<name, b>> \in Keys /\ HasKey(ledger, <<"reserve", b>>)
    BY <1>5, SameArithmetic DEF Keys, Ledger!SettleCredits
  <2>. QED
    BY <1>3, <1>5, <2>1, SameArithmetic DEF Ledger!SettleCredits, Ledger!Apply
<1>. QED
  BY <1>2, <1>4, <1>5, SameArithmetic DEF Ledger!Next

(* Whatever retries, crashes and races there are, the wallet is what its   *)
(* ledger adds up to.                                                      *)
THEOREM WalletIsExplained == Spec => []LedgerExplainsWallet
<1>1. Init => Explains(ledger, wallet)
  <2>1. ASSUME Init PROVE ledger = {} /\ wallet.balance = SignupGrant
    BY <2>1 DEF Init, StoreInit, NewWallet
  <2>2. \A kind : OfKind({}, kind) = {}
    BY DEF OfKind
  <2>. QED
    BY <2>1, <2>2, FS_EmptySet, CostAssumption, GrantAssumption DEF Explains
<1>2. Explains(ledger, wallet) => LedgerExplainsWallet
  BY DEF Explains, OfKind, RowsOf, LedgerExplainsWallet
<1>. QED
  BY <1>1, <1>2, StepKeepsAccounts, InvariantHolds, PTL DEF Spec
=============================================================================
