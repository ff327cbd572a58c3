---------------------------- MODULE CreditLedger ----------------------------
(***************************************************************************)
(* What the credit service promises its callers, without transactions,     *)
(* locks or requests: a wallet and an append-only ledger that move         *)
(* together.  Every logical operation has an idempotency key and is        *)
(* applied at most once; a reserve is applied only if the balance covers   *)
(* it; a build is captured or refunded only after it was reserved.         *)
(***************************************************************************)
EXTENDS Credits

VARIABLES wallet, ledger

vars == <<wallet, ledger>>

Init == wallet = NewWallet /\ ledger = {}

Apply(key) ==
    /\ ~HasKey(ledger, key)
    /\ wallet' = WalletAfter(key, wallet, ledger)
    /\ ledger' = ledger \cup {RowFor(key, ledger)}

ReserveCredits(b) == CanReserve(wallet) /\ Apply(<<"reserve", b>>)

SettleCredits(name, b) ==
    /\ HasKey(ledger, <<"reserve", b>>)
    /\ Apply(<<name, b>>)

Next == \E b \in Builds :
            \/ ReserveCredits(b)
            \/ \E name \in KeyNames \ {"reserve"} : SettleCredits(name, b)

Spec == Init /\ [][Next]_vars
=============================================================================
