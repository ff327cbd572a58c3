------------------------------ MODULE Credits ------------------------------
(***************************************************************************)
(* The arithmetic of an organization's credit wallet and its ledger        *)
(* (control-plane/app/services/credit_service.py).  No state here: these   *)
(* operators say what one call of CreditService computes from the wallet   *)
(* and the ledger it reads.  The modules that hold the wallet decide when  *)
(* the call reads, when it locks and when its writes become visible.       *)
(*                                                                         *)
(* A ledger row is [key, kind, amount].  The key is the pair               *)
(* <<name, build>> for the string "name:build" the code formats, so a      *)
(* row's build is the second half of its key.                              *)
(***************************************************************************)
EXTENDS BuildRuns, Integers, FiniteSets

CONSTANTS
    Cost,         \* settings.build_credit_cost, the price of every build
    SignupGrant   \* credits the wallet is created with

ASSUME CostAssumption == Cost \in Nat
ASSUME GrantAssumption == SignupGrant \in Nat

(* The four idempotency keys a build can have.  A refund has two: the task *)
(* writes "refund:<b>" and delete_build writes "refund-delete:<b>".        *)
KeyNames == {"reserve", "capture", "refund", "refund-delete"}
RefundNames == {"refund", "refund-delete"}
Keys == KeyNames \X Builds

KindOf == [name \in KeyNames |-> CASE name = "reserve" -> "RESERVE"
                                   [] name = "capture" -> "CAPTURE"
                                   [] OTHER -> "REFUND"]
Kinds == {"RESERVE", "CAPTURE", "REFUND"}

Rows == [key : Keys, kind : Kinds, amount : Int]
Wallets == [balance : Int, reserved : Int]

NewWallet == [balance |-> SignupGrant, reserved |-> 0]

HasKey(rows, key) == \E row \in rows : row.key = key

Abs(n) == IF n < 0 THEN -n ELSE n
AtLeastZero(n) == IF n < 0 THEN 0 ELSE n

(* What capture and refund look up: the RESERVE row of the build, if any.  *)
ReservedAmount(rows, b) ==
    LET reserves == {row \in rows : row.kind = "RESERVE" /\ row.key[2] = b}
    IN  IF reserves = {} THEN 0 ELSE Abs((CHOOSE row \in reserves : TRUE).amount)

CanReserve(w) == w.balance >= Cost

Reserve(w) == [balance |-> w.balance - Cost, reserved |-> w.reserved + Cost]

Capture(w, amount) == [w EXCEPT !.reserved = AtLeastZero(@ - amount)]

Refund(w, amount) == [balance  |-> w.balance + amount,
                      reserved |-> AtLeastZero(w.reserved - amount)]

(* The wallet and the ledger row that the call with this key leaves.       *)
WalletAfter(key, w, rows) ==
    CASE KindOf[key[1]] = "RESERVE" -> Reserve(w)
      [] KindOf[key[1]] = "CAPTURE" -> Capture(w, ReservedAmount(rows, key[2]))
      [] OTHER -> Refund(w, ReservedAmount(rows, key[2]))

RowFor(key, rows) ==
    [key    |-> key,
     kind   |-> KindOf[key[1]],
     amount |-> CASE KindOf[key[1]] = "RESERVE" -> -Cost
                  [] KindOf[key[1]] = "CAPTURE" -> -ReservedAmount(rows, key[2])
                  [] OTHER -> ReservedAmount(rows, key[2])]
=============================================================================
