--------------------------- MODULE CreditsProofs ---------------------------
(***************************************************************************)
(* Facts about the wallet arithmetic, for every set of builds, price and   *)
(* signup grant.                                                           *)
(***************************************************************************)
EXTENDS Credits, FiniteSetTheorems, TLAPS

(* The reserve a capture or a refund looks up is an amount of credits, 0   *)
(* for a build that has none (get_reserve_for_build).                      *)
LEMMA ReservedAmountType ==
    ASSUME NEW rows \in SUBSET Rows, NEW b
    PROVE  ReservedAmount(rows, b) \in Nat
<1> DEFINE reserves == {row \in rows : row.kind = "RESERVE" /\ row.key[2] = b}
<1>1. CASE reserves = {}
  BY <1>1 DEF ReservedAmount
<1>2. CASE reserves # {}
  <2>1. (CHOOSE row \in reserves : TRUE) \in Rows
    BY <1>2
  <2>2. (CHOOSE row \in reserves : TRUE).amount \in Int
    BY <2>1 DEF Rows
  <2>3. Abs((CHOOSE row \in reserves : TRUE).amount) \in Nat
    BY <2>2 DEF Abs
  <2> QED
    BY <1>2, <2>3 DEF ReservedAmount
<1> QED
  BY <1>1, <1>2

(* One call of the credit service turns a wallet into a wallet and writes  *)
(* a well-formed row (reserve, capture, refund).                           *)
LEMMA CallTypes ==
    ASSUME NEW rows \in SUBSET Rows, NEW w \in Wallets, NEW key \in Keys
    PROVE  /\ WalletAfter(key, w, rows) \in Wallets
           /\ RowFor(key, rows) \in Rows
           /\ RowFor(key, rows).key = key
<1>1. ReservedAmount(rows, key[2]) \in Nat
  BY ReservedAmountType
<1>2. key[1] \in KeyNames /\ KindOf[key[1]] \in Kinds
  BY DEF Keys, KeyNames, KindOf, Kinds
<1> DEFINE n == ReservedAmount(rows, key[2])
<1>3. Reserve(w) \in Wallets /\ Capture(w, n) \in Wallets /\ Refund(w, n) \in Wallets
  <2> HIDE DEF n
  <2>1. n \in Nat
    BY <1>1 DEF n
  <2> QED
    BY <2>1, CostAssumption DEF Wallets, Reserve, Capture, Refund, AtLeastZero
<1>4. WalletAfter(key, w, rows) \in Wallets
  BY <1>2, <1>3 DEF WalletAfter, Kinds
<1>5. RowFor(key, rows) \in Rows
  <2> HIDE DEF n
  <2>1. n \in Nat
    BY <1>1 DEF n
  <2> QED
    BY <2>1, <1>2, CostAssumption DEF RowFor, Rows, Kinds, n
<1> QED
  BY <1>4, <1>5 DEF RowFor

(* A wallet whose columns are not negative keeps them so: a reserve is     *)
(* made only if the balance covers it, and capture and refund stop the     *)
(* reserved column at 0 (max(0, ...)).                                     *)
LEMMA CallKeepsWalletNonNegative ==
    ASSUME NEW rows \in SUBSET Rows, NEW w \in Wallets, NEW key \in Keys,
           w.balance >= 0, w.reserved >= 0,
           key[1] = "reserve" => CanReserve(w)
    PROVE  /\ WalletAfter(key, w, rows).balance >= 0
           /\ WalletAfter(key, w, rows).reserved >= 0
<1> DEFINE n == ReservedAmount(rows, key[2])
<1>1. n \in Nat
  BY ReservedAmountType
<1>2. key[1] \in KeyNames
  BY DEF Keys
<1> HIDE DEF n
<1>3. CASE KindOf[key[1]] = "RESERVE"
  <2>1. key[1] = "reserve"
    BY <1>2, <1>3 DEF KindOf, KeyNames
  <2> QED
    BY <2>1, <1>3, CostAssumption DEF WalletAfter, Reserve, CanReserve, Wallets
<1>4. CASE KindOf[key[1]] = "CAPTURE"
  BY <1>1, <1>4 DEF WalletAfter, Capture, AtLeastZero, Wallets, n
<1>5. CASE KindOf[key[1]] \notin {"RESERVE", "CAPTURE"}
  BY <1>1, <1>5 DEF WalletAfter, Refund, AtLeastZero, Wallets, n
<1> QED
  BY <1>3, <1>4, <1>5

(* The ledger only grows, so a key once found is found for ever.           *)
LEMMA KeysStay ==
    ASSUME NEW rows, NEW more, NEW key, HasKey(rows, key)
    PROVE  HasKey(rows \cup more, key)
BY DEF HasKey

(***************************************************************************)
(* The ledger's accounts                                                   *)
(***************************************************************************)
OfKind(rows, kind) == {row \in rows : row.kind = kind}

(* The rows, each of its key's kind and about the price, explain the       *)
(* wallet.                                                                 *)
Explains(rows, w) ==
    /\ IsFiniteSet(rows)
    /\ \A row \in rows : /\ row.kind = KindOf[row.key[1]]
                         /\ row.amount = IF row.kind = "REFUND" THEN Cost ELSE -Cost
    /\ w.balance = SignupGrant + Cost * (Cardinality(OfKind(rows, "REFUND"))
                                            - Cardinality(OfKind(rows, "RESERVE")))

(* What capture and refund look up for a build that was reserved is the    *)
(* price.                                                                  *)
LEMMA ReservedIsCost ==
    ASSUME NEW rows \in SUBSET Rows, NEW w, Explains(rows, w), NEW b \in Builds,
           HasKey(rows, <<"reserve", b>>)
    PROVE  ReservedAmount(rows, b) = Cost
<1> DEFINE reserves == {row \in rows : row.kind = "RESERVE" /\ row.key[2] = b}
<1>1. reserves # {}
  <2>1. PICK row \in rows : row.key = <<"reserve", b>>
    BY DEF HasKey
  <2>2. KindOf["reserve"] = "RESERVE"
    BY DEF KindOf, KeyNames
  <2>. QED  BY <2>1, <2>2 DEF Explains
<1>2. \A row \in reserves : Abs(row.amount) = Cost
  BY CostAssumption DEF Explains, Abs
<1>3. (CHOOSE row \in reserves : TRUE) \in reserves
  BY <1>1
<1>. QED  BY <1>1, <1>2, <1>3 DEF ReservedAmount

(* A row that is new counts once.                                          *)
LEMMA CountWithRow ==
    ASSUME NEW rows, IsFiniteSet(rows), NEW row, row \notin rows, NEW kind
    PROVE  /\ Cardinality(OfKind(rows, kind)) \in Nat
           /\ Cardinality(OfKind(rows \cup {row}, kind)) =
                IF row.kind = kind THEN Cardinality(OfKind(rows, kind)) + 1
                ELSE Cardinality(OfKind(rows, kind))
<1>1. IsFiniteSet(OfKind(rows, kind))
  BY FS_Subset DEF OfKind
<1>2. CASE row.kind = kind
  <2>1. OfKind(rows \cup {row}, kind) = OfKind(rows, kind) \cup {row}
    BY <1>2 DEF OfKind
  <2>2. row \notin OfKind(rows, kind)
    BY DEF OfKind
  <2>. QED  BY <1>1, <1>2, <2>1, <2>2, FS_AddElement, FS_CardinalityType
<1>3. CASE row.kind # kind
  <2>1. OfKind(rows \cup {row}, kind) = OfKind(rows, kind)
    BY <1>3 DEF OfKind
  <2>. QED  BY <1>1, <1>3, <2>1, FS_CardinalityType
<1>. QED  BY <1>2, <1>3

(* One call of the credit service keeps ledger and wallet in step, if a    *)
(* capture or a refund is of a build that was reserved.                    *)
LEMMA CallKeepsAccounts ==
    ASSUME NEW rows \in SUBSET Rows, NEW w \in Wallets, NEW key \in Keys,
           Explains(rows, w), ~HasKey(rows, key),
           key[1] # "reserve" => HasKey(rows, <<"reserve", key[2]>>)
    PROVE  Explains(rows \cup {RowFor(key, rows)}, WalletAfter(key, w, rows))
<1> DEFINE row == RowFor(key, rows)
<1> DEFINE refunds == Cardinality(OfKind(rows, "REFUND"))
<1> DEFINE reserves == Cardinality(OfKind(rows, "RESERVE"))
<1>1. row.key = key /\ row.kind = KindOf[key[1]]
  BY DEF RowFor
<1>2. row \notin rows
  BY <1>1 DEF HasKey
<1>3. /\ key[1] \in KeyNames /\ key[2] \in Builds /\ key = <<key[1], key[2]>>
      /\ KindOf[key[1]] = "RESERVE" <=> key[1] = "reserve"
      /\ KindOf[key[1]] \in {"RESERVE", "CAPTURE", "REFUND"}
  BY DEF Keys, KeyNames, KindOf
<1>4. KindOf[key[1]] # "RESERVE" => ReservedAmount(rows, key[2]) = Cost
  BY <1>3, ReservedIsCost
<1>5. row.amount = IF row.kind = "REFUND" THEN Cost ELSE -Cost
  BY <1>3, <1>4 DEF RowFor
<1>6. WalletAfter(key, w, rows).balance =
        CASE row.kind = "RESERVE" -> w.balance - Cost
          [] row.kind = "CAPTURE" -> w.balance
          [] OTHER -> w.balance + Cost
  BY <1>1, <1>3, <1>4 DEF WalletAfter, Reserve, Capture, Refund, Wallets
<1>7. IsFiniteSet(rows) /\ IsFiniteSet(rows \cup {row})
  BY FS_AddElement DEF Explains
<1>8. /\ refunds \in Nat /\ reserves \in Nat
      /\ Cardinality(OfKind(rows \cup {row}, "REFUND")) =
            IF row.kind = "REFUND" THEN refunds + 1 ELSE refunds
      /\ Cardinality(OfKind(rows \cup {row}, "RESERVE")) =
            IF row.kind = "RESERVE" THEN reserves + 1 ELSE reserves
  BY <1>2, <1>7, CountWithRow
<1>9. \A r \in rows \cup {row} :
        /\ r.kind = KindOf[r.key[1]]
        /\ r.amount = IF r.kind = "REFUND" THEN Cost ELSE -Cost
  BY <1>1, <1>5 DEF Explains
<1>10. w.balance = SignupGrant + Cost * (refunds - reserves)
  BY DEF Explains
<1> HIDE DEF row, refunds, reserves
<1>11. /\ Cost * ((refunds + 1) - reserves) = Cost * (refunds - reserves) + Cost
       /\ Cost * (refunds - (reserves + 1)) = Cost * (refunds - reserves) - Cost
       /\ Cost * (refunds - reserves) \in Int
  BY <1>8, CostAssumption
<1>12. WalletAfter(key, w, rows).balance =
        SignupGrant + Cost * (Cardinality(OfKind(rows \cup {row}, "REFUND"))
                                - Cardinality(OfKind(rows \cup {row}, "RESERVE")))
  <2>1. row.kind \in {"RESERVE", "CAPTURE", "REFUND"}
    BY <1>1, <1>3
  <2> DEFINE delta == Cost * (refunds - reserves)
  <2>2. w.balance = SignupGrant + delta /\ delta \in Int
    BY <1>10, <1>11
  <2> HIDE DEF delta
  <2>3. CASE row.kind = "RESERVE"
    <3>1. Cost * (refunds - (reserves + 1)) = delta - Cost
      BY <1>11 DEF delta
    <3>. QED  BY <1>6, <1>8, <2>2, <2>3, <3>1, CostAssumption, GrantAssumption
  <2>4. CASE row.kind = "CAPTURE"
    BY <1>6, <1>8, <1>10, <2>4
  <2>5. CASE row.kind = "REFUND"
    <3>1. Cost * ((refunds + 1) - reserves) = delta + Cost
      BY <1>11 DEF delta
    <3>. QED  BY <1>6, <1>8, <2>2, <2>5, <3>1, CostAssumption, GrantAssumption
  <2>. QED  BY <2>1, <2>3, <2>4, <2>5
<1>. QED  BY <1>7, <1>9, <1>12 DEF Explains, row
=============================================================================
