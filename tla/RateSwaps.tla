------------------------------ MODULE RateSwaps ------------------------------
(* The swap manager of interest_rate_swaps/chaincode.  A swap and its payment *)
(* are two keys with one endorsement policy of their own, the parties and     *)
(* perhaps the auditor; a reference rate has its provider's.  A transaction   *)
(* is endorsed on one state and takes effect on a later one, when what it     *)
(* read still holds and the policies of what it writes are met.  Swaps share  *)
(* only rates: the module has one swap and one rate.                          *)
EXTENDS Integers, FiniteSets

CONSTANTS
  Parties,     \* organizations that exchange payments
  Auditor, Provider,
  Principals,  \* principal amounts
  AuditLimit,  \* audit_limit
  Rates,       \* reference rates
  FixedRate, FloatingRate,
  MaxTxs,      \* bound: the transactions
  MaxPending,  \* bound: those endorsed and not yet committed
  Nothing      \* no value under a key

VARIABLES
  swap,        \* [parties, principal] under "swap"
  swapPolicy,  \* the organizations of the policy of "swap"; of none, the chaincode's holds
  payment,     \* the set of the amounts due under "payment": one, or None
  payPolicy,
  rate,        \* the reference rate
  touched,     \* the number of the transaction that last wrote each key
  endorsedTxs, \* transactions that are endorsed and not yet committed
  txNumber

swapVars == <<swap, swapPolicy, payment, payPolicy, rate, touched, endorsedTxs, txNumber>>

SwapKeys == {"swap", "payment", "rate"}

\* "none": the payment has been settled.
None == {}

\* Init puts the limit, which nothing changes, and the rate with its policy.
SwapInit ==
  /\ swap = Nothing
  /\ swapPolicy = {}
  /\ payment = Nothing
  /\ payPolicy = {}
  /\ rate = 0
  /\ touched = [k \in SwapKeys |-> 0]
  /\ endorsedTxs = {}
  /\ txNumber = 0

\* The chaincode's policy: a potential party and the auditor.
Meets(by, policy) ==
  IF policy = {} THEN by \cap Parties # {} /\ Auditor \in by ELSE policy \subseteq by

\* Who a client may ask: as few as some policy takes, or everybody.
Endorsers ==
  {{p, Auditor} : p \in Parties} \cup {swapPolicy, {Provider}, Parties \cup {Auditor, Provider}}

Endorse(fun, reads, new) ==
  /\ txNumber < MaxTxs
  /\ Cardinality(endorsedTxs) < MaxPending
  /\ txNumber' = txNumber + 1
  /\ \E by \in Endorsers :
       endorsedTxs' = endorsedTxs \cup
         {[fun |-> fun, by |-> by, seen |-> [k \in reads |-> touched[k]], new |-> new, tx |-> txNumber']}
  /\ UNCHANGED <<swap, swapPolicy, payment, payPolicy, rate, touched>>

\* A swap that is there is not looked for.
createSwap(parties, principal) ==
  Endorse("createSwap", {}, [parties |-> parties, principal |-> principal])

\* The two rates on the principal, in basis points.
Due(terms, referenceRate) ==
  (terms.principal * FixedRate) \div 100 - (terms.principal * (FloatingRate + referenceRate)) \div 100

calculatePayment ==
  /\ swap # Nothing
  /\ payment = None
  /\ Endorse("calculatePayment", SwapKeys, {Due(swap, rate)})

settlePayment ==
  /\ payment \notin {Nothing, None}
  /\ Endorse("settlePayment", {"payment"}, None)

setReferenceRate(value) == Endorse("setReferenceRate", {}, value)

-----------------------------------------------------------------------------
Touch(t, keys) == touched' = [k \in SwapKeys |-> IF k \in keys THEN t.tx ELSE touched[k]]

EndorsersOf(terms) ==
  terms.parties \cup (IF terms.principal > AuditLimit THEN {Auditor} ELSE {})

\* A plausible mistake: the policy of the payment is forgotten.
PutSwapOnly(t) ==
  /\ swap' = t.new
  /\ swapPolicy' = EndorsersOf(t.new)
  /\ payment' = None
  /\ UNCHANGED payPolicy

PutSwap(t) ==
  /\ swap' = t.new
  /\ swapPolicy' = EndorsersOf(t.new)
  /\ payment' = None
  /\ payPolicy' = EndorsersOf(t.new)

SwapTxValid(t) ==
  /\ \A k \in DOMAIN t.seen : touched[k] = t.seen[k]
  /\ t.fun = "createSwap" => Meets(t.by, swapPolicy)
  /\ t.fun \in {"createSwap", "calculatePayment", "settlePayment"} => Meets(t.by, payPolicy)
  /\ t.fun = "setReferenceRate" => Provider \in t.by

CommitSwapTx(t) ==
  /\ endorsedTxs' = endorsedTxs \ {t}
  /\ UNCHANGED txNumber
  /\ \/ /\ ~SwapTxValid(t)
        /\ UNCHANGED <<swap, swapPolicy, payment, payPolicy, rate, touched>>
     \/ /\ SwapTxValid(t) /\ t.fun = "createSwap"
        /\ PutSwap(t)
        /\ Touch(t, {"swap", "payment"})
        /\ UNCHANGED rate
     \/ /\ SwapTxValid(t) /\ t.fun \in {"calculatePayment", "settlePayment"}
        /\ payment' = t.new
        /\ Touch(t, {"payment"})
        /\ UNCHANGED <<swap, swapPolicy, payPolicy, rate>>
     \/ /\ SwapTxValid(t) /\ t.fun = "setReferenceRate"
        /\ rate' = t.new
        /\ Touch(t, {"rate"})
        /\ UNCHANGED <<swap, swapPolicy, payment, payPolicy>>

SwapNext ==
  \/ \E parties \in {S \in SUBSET Parties : Cardinality(S) = 2}, p \in Principals :
       createSwap(parties, p)
  \/ calculatePayment
  \/ settlePayment
  \/ \E r \in Rates : setReferenceRate(r)
  \/ \E t \in endorsedTxs : CommitSwapTx(t)

(* Once there is a swap, what happens to it and its payment was endorsed by   *)
(* the parties of the swap it happens to, and by the auditor when its         *)
(* principal is above the limit, though another swap may have taken its place *)
(* since the endorsement (createSwap, chaincode.go:130-207); and what becomes *)
(* due is due under the terms and the rate on the ledger then                 *)
(* (calculatePayment, chaincode.go:210-269).                                  *)
PartiesConsent ==
  \A t \in endorsedTxs \ endorsedTxs' :
    /\ swap # Nothing /\ (swap' # swap \/ payment' # payment) => EndorsersOf(swap) \subseteq t.by
    /\ payment' # payment /\ payment' # None =>
         payment = None /\ payment' = {Due(swap, rate)}

=============================================================================
