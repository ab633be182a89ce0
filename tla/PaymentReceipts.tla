-------------------------- MODULE PaymentReceipts --------------------------
(***************************************************************************)
(* Expected payments and the money received against them: confirmReceipt,  *)
(* receiveRemaining and reverseReceipt of the sales module, the legacy     *)
(* forms that edit expected payments and transactions, and the tables      *)
(* expected_payments and txns.                                             *)
(*                                                                         *)
(* A clerk is an HTTP request.  A confirmation first reads the payment     *)
(* outside any lock and decides; the receipt itself is one transaction     *)
(* that locks the row (FOR UPDATE), so it is one step, and so is a         *)
(* reversal.                                                               *)
(*                                                                         *)
(* Abstracted: dates, categories, texts, rights.  Amounts are whole units. *)
(* The status "cancelled" is left out: nothing in the code sets it.        *)
(***************************************************************************)
EXTENDS Integers, FiniteSets

CONSTANTS Payments, Clerks,
          Amounts,      \* amounts a clerk may enter, all positive (min(1))
          MaxTxns,      \* bound: rows of txns
          MaxUnlinked,  \* bound: rows entered by hand
          NoPayment, NoTxn

ASSUME AmountsAssumption == Amounts \subseteq Nat \ {0}
ASSUME BoundsAssumption == MaxTxns \in Nat /\ MaxUnlinked \in Nat
ASSUME NamesAssumption == NoPayment \notin Payments

VARIABLES payments,  \* expected_payments
          txns,      \* txns
          pc, req    \* of a clerk's confirmation: where it is, what it confirms

vars == <<payments, txns, pc, req>>

TxnIds == 1 .. MaxTxns
Nothing == 0
Payment == [amount : Nat, received : Nat, status : {"expected", "partially_received", "received"}]
Txn == [kind : {"income", "expense"}, amount : Nat, payment : Payments \cup {NoPayment},
        reversalOf : TxnIds \cup {Nothing}, reversed : BOOLEAN]
Request == [payment : Payments \cup {NoPayment}, amount : Nat, allow : BOOLEAN]
noRequest == [payment |-> NoPayment, amount |-> 0, allow |-> FALSE]

ASSUME RowsAssumption == NoPayment \notin Payment /\ NoTxn \notin Txn

Init == /\ payments = [p \in Payments |-> NoPayment]
        /\ txns = [x \in TxnIds |-> NoTxn]
        /\ pc = [c \in Clerks |-> "idle"]
        /\ req = [c \in Clerks |-> noRequest]

exists(p) == payments[p] # NoPayment
remaining(p) == payments[p].amount - payments[p].received

(* Answered, with or without an error.                                     *)
reply(c) ==
    /\ pc' = [pc EXCEPT ![c] = "idle"]
    /\ req' = [req EXCEPT ![c] = noRequest]

(* A free id of txns.                                                      *)
freeId == CHOOSE x \in TxnIds : txns[x] = NoTxn
hasRoom == \E x \in TxnIds : txns[x] = NoTxn
-----------------------------------------------------------------------------
(* The legacy forms (business-service.ts, business-repository.ts) *)

createExpectedPayment(c, p, amount) ==
    /\ pc[c] = "idle" /\ ~exists(p)
    /\ payments' = [payments EXCEPT ![p] =
                      [amount |-> amount, received |-> 0, status |-> "expected"]]
    /\ reply(c)
    /\ UNCHANGED txns

(* Neither a lock nor a version, and the status stays.                     *)
updateExpectedPayment(c, p, amount) ==
    /\ pc[c] = "idle" /\ exists(p)
    /\ payments' = [payments EXCEPT ![p].amount = amount]
    /\ reply(c)
    /\ UNCHANGED txns

(* The receipts stay; the foreign key sets their link to null.             *)
deleteExpectedPayment(c, p) ==
    /\ pc[c] = "idle" /\ exists(p)
    /\ payments' = [payments EXCEPT ![p] = NoPayment]
    /\ txns' = [x \in TxnIds |->
                  IF txns[x] # NoTxn /\ txns[x].payment = p
                  THEN [txns[x] EXCEPT !.payment = NoPayment]
                  ELSE txns[x]]
    /\ reply(c)

isLinked(x) == txns[x].payment # NoPayment \/ txns[x].reversalOf # Nothing

createTxn(c, kind, amount) ==
    /\ pc[c] = "idle" /\ hasRoom
    /\ Cardinality({x \in TxnIds : txns[x] # NoTxn /\ ~isLinked(x)}) < MaxUnlinked
    /\ txns' = [txns EXCEPT ![freeId] =
                  [kind |-> kind, amount |-> amount, payment |-> NoPayment,
                   reversalOf |-> Nothing, reversed |-> FALSE]]
    /\ reply(c)
    /\ UNCHANGED payments

(* Seeded defect: a linked receipt may be edited.                          *)
findLinkedReceiptTxn_None(x) == NoTxn

(* The row, whatever it is linked to.                                      *)
findLinkedReceiptTxn(x) == txns[x]

(* Editing and deleting a transaction are refused when the query above     *)
(* returns a row.                                                          *)
editTxn(c, x, rest) ==
    /\ pc[c] = "idle" /\ txns[x] # NoTxn
    /\ txns' = IF findLinkedReceiptTxn(x) # NoTxn THEN txns ELSE [txns EXCEPT ![x] = rest]
    /\ reply(c)
    /\ UNCHANGED payments

updateTxn(c, x, amount) == txns[x] # NoTxn /\ editTxn(c, x, [txns[x] EXCEPT !.amount = amount])
deleteTxn(c, x) == editTxn(c, x, NoTxn)
-----------------------------------------------------------------------------
(* Receipts (sales-service.ts, sales-repository.ts) *)

confirm(c, p, amount, allow) ==
    /\ pc' = [pc EXCEPT ![c] = "confirm"]
    /\ req' = [req EXCEPT ![c] = [payment |-> p, amount |-> amount, allow |-> allow]]
    /\ UNCHANGED <<payments, txns>>

requestReceipt(c, p, amount, allow) == pc[c] = "idle" /\ confirm(c, p, amount, allow)

(* Seeded defect: confirmed even if nothing remains.                       *)
receiveRemaining_Always(c, p) == /\ pc[c] = "idle" /\ exists(p)
                                 /\ confirm(c, p, remaining(p), FALSE)

(* The button "received": what remains now, confirmed without the right to *)
(* overpay.                                                                *)
receiveRemaining(c, p) == /\ pc[c] = "idle" /\ exists(p)
                          /\ remaining(p) > 0
                          /\ confirm(c, p, remaining(p), FALSE)

(* The read before the lock: an unknown payment is refused, a closed one   *)
(* answered without recording anything.                                    *)
confirmReceipt(c) ==
    /\ pc[c] = "confirm"
    /\ LET p == req[c].payment IN
       \/ /\ ~exists(p)
          /\ reply(c)
       \/ /\ exists(p) /\ payments[p].status = "received" /\ ~req[c].allow
          /\ reply(c)
       \/ /\ exists(p)
          /\ payments[p].status = "received" => req[c].allow
          /\ pc' = [pc EXCEPT ![c] = "apply"]
          /\ UNCHANGED req
    /\ UNCHANGED <<payments, txns>>

statusOf(received, amount) == IF received >= amount THEN "received" ELSE "partially_received"

Smaller(a, b) == IF a <= b THEN a ELSE b

(* Seeded defect: an overpayment is cut off at the amount.                 *)
receivedAfter_Capped(c, p) == Smaller(payments[p].received + req[c].amount, payments[p].amount)

receivedAfter(c, p) == payments[p].received + req[c].amount

(* Seeded defect: what the clerk read before the lock is trusted.          *)
fits_Unchecked(c, p) == TRUE

(* Under the lock: no overpayment unless the clerk asked for one.          *)
fits(c, p) == receivedAfter(c, p) <= payments[p].amount \/ req[c].allow

applyReceipt(c) ==
    /\ pc[c] = "apply"
    /\ LET p == req[c].payment IN
       \/ /\ exists(p) => ~fits(c, p)
          /\ reply(c)
          /\ UNCHANGED <<payments, txns>>
       \/ /\ exists(p) /\ fits(c, p) /\ hasRoom
          /\ txns' = [txns EXCEPT ![freeId] =
                        [kind |-> "income", amount |-> req[c].amount, payment |-> p,
                         reversalOf |-> Nothing, reversed |-> FALSE]]
          /\ payments' = [payments EXCEPT ![p] =
                            [amount |-> payments[p].amount, received |-> receivedAfter(c, p),
                             status |-> statusOf(receivedAfter(c, p), payments[p].amount)]]
          /\ reply(c)

alreadyReversed(x) == \E r \in TxnIds : txns[r] # NoTxn /\ txns[r].reversalOf = x

reversible(p, x) == /\ exists(p) /\ txns[x] # NoTxn
                    /\ txns[x].payment = p
                    /\ txns[x].reversalOf = Nothing
                    /\ ~alreadyReversed(x)

(* Seeded defect: "expected" is not restored by the last reversal.         *)
statusAfterReversal_Partial(received, amount) == statusOf(received, amount)

statusAfterReversal(received, amount) ==
    IF received = 0 THEN "expected" ELSE statusOf(received, amount)

(* Reverses what is still counted as received of the receipt.              *)
reverseReceipt(c, p, x) ==
    /\ pc[c] = "idle"
    /\ reversible(p, x) /\ hasRoom
    /\ LET reversed == Smaller(txns[x].amount, payments[p].received)
           left == payments[p].received - reversed IN
       /\ reversed > 0
       /\ txns' = [txns EXCEPT ![freeId] =
                     [kind |-> "expense", amount |-> reversed, payment |-> p,
                      reversalOf |-> x, reversed |-> FALSE],
                               ![x].reversed = TRUE]
       /\ payments' = [payments EXCEPT ![p] =
                         [amount |-> payments[p].amount, received |-> left,
                          status |-> statusAfterReversal(left, payments[p].amount)]]
       /\ reply(c)

request(c) ==
    \/ \E p \in Payments :
         \/ \E a \in Amounts : \/ createExpectedPayment(c, p, a)
                               \/ updateExpectedPayment(c, p, a)
                               \/ \E allow \in BOOLEAN : requestReceipt(c, p, a, allow)
         \/ deleteExpectedPayment(c, p)
         \/ receiveRemaining(c, p)
         \/ \E x \in TxnIds : reverseReceipt(c, p, x)
    \/ \E a \in Amounts :
         \/ \E kind \in {"income", "expense"} : createTxn(c, kind, a)
         \/ \E x \in TxnIds : updateTxn(c, x, a)
    \/ \E x \in TxnIds : deleteTxn(c, x)
    \/ confirmReceipt(c)
    \/ applyReceipt(c)

Next == \E c \in Clerks : request(c)

Spec == Init /\ [][Next]_vars
-----------------------------------------------------------------------------

TypeOK == /\ payments \in [Payments -> Payment \cup {NoPayment}]
          /\ txns \in [TxnIds -> Txn \cup {NoTxn}]
          /\ pc \in [Clerks -> {"idle", "confirm", "apply"}]
          /\ req \in [Clerks -> Request]

linkedTo(p, kind) == {x \in TxnIds : /\ txns[x] # NoTxn
                                     /\ txns[x].payment = p /\ txns[x].kind = kind}

(* The sum of the amounts of S, counted out unit by unit.                  *)
units(book, S) == UNION {{x} \X (1 .. book[x].amount) : x \in S}
sum(book, S) == Cardinality(units(book, S))

(* received is what the ledger says: the receipts of a payment less their  *)
(* reversals, whatever clerks do at the same time.                         *)
ReceivedIsLedger ==
    \A p \in Payments : exists(p) =>
       payments[p].received = sum(txns, linkedTo(p, "income")) - sum(txns, linkedTo(p, "expense"))

(* A receipt is taken back at most once, and then as a whole: the cap at   *)
(* what the payment has received never cuts a reversal short.              *)
ReversalsAreWhole ==
    \A r \in TxnIds : txns[r] # NoTxn /\ txns[r].reversalOf # Nothing =>
       /\ txns[txns[r].reversalOf].amount = txns[r].amount
       /\ txns[txns[r].reversalOf].reversed
       /\ \A s \in TxnIds \ {r} : txns[s] # NoTxn => txns[s].reversalOf # txns[r].reversalOf

(* No receipt lifts a payment above its amount unless that very clerk      *)
(* asked for an overpayment (FIX-04-AC01: 600 + 600 against 1000).         *)
NoSilentOverpayment ==
    [][\A p \in Payments :
         /\ exists(p) /\ payments'[p] # NoPayment
         /\ payments'[p].received > payments[p].received
         /\ payments'[p].received > payments'[p].amount
         => \E c \in Clerks : pc[c] = "apply" /\ req[c].payment = p /\ req[c].allow]_vars

(* "expected" means that nothing is received, whatever was confirmed and   *)
(* reversed in between.                                                    *)
UntouchedIsExpected ==
    \A p \in Payments : exists(p) => (payments[p].status = "expected" <=> payments[p].received = 0)

(* The amount received, the status and the ledger tell one story.          *)
LedgerIsSound == ReceivedIsLedger /\ ReversalsAreWhole /\ UntouchedIsExpected
=============================================================================
