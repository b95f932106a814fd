--------------------------- MODULE CommerceSandbox ---------------------------
(***************************************************************************)
(* The reference sandbox of the commerce module,                           *)
(* src/modules/commerce/src/reference/sandbox.ts: carts, three kinds of    *)
(* checkout, and the stock, budget, payments, orders and quotes they use.  *)
(*                                                                         *)
(* A checkout awaits after each provider it calls.  Its code between two   *)
(* awaits is one step here; steps of several checkouts and calls of other  *)
(* clients interleave in any order, in more than an engine's queue of      *)
(* promises would produce.                                                 *)
(*                                                                         *)
(* The n-th entry of a sequence has the id n; a reservation that was       *)
(* released is Released.                                                   *)
(*                                                                         *)
(* Abstracted: one customer organization with one budget and one contract, *)
(* every product has the price 1 and every checkout gives an idempotency   *)
(* key.  Left out: what is created and not read by an operation modelled   *)
(* here (events, approvals, fulfillments, invoices, returns, checkout      *)
(* sessions), and what no checkout and no client below calls: clients do   *)
(* not confirm orders, refund payments or revise quotes.                   *)
(*                                                                         *)
(* Definitions named Bug... are not the code: each is a mistake that a     *)
(* property below must notice when it replaces the definition after it.    *)
(***************************************************************************)
EXTENDS Naturals, Integers, Sequences, FiniteSets, FiniteSetsExt

CONSTANTS
    Products,
    AllowedProducts,      \* by the contract
    Quantities,
    Keys,                 \* idempotency keys
    InitialStock, InitialBudget,
    Released,
    MaxCarts, MaxLines, MaxCalls

VARIABLES
    carts,
    stock, reservations,             \* inventory
    budget, budgetReservations,
    orders, payments, quotes,
    ordered,       \* ordered[k]: the order stored for key k, or 0
    calls,         \* the checkouts that were begun
    overlapped     \* keys of checkouts that ran at the same time (history)

books == <<stock, reservations, budget, budgetReservations>>
commerceVars == <<carts, books, orders, payments, quotes, ordered, calls, overlapped>>

Line == [product : Products, quantity : Quantities]

(* What was released is not a list of lines or an amount.                  *)
ASSUME CommerceAssumption ==
    /\ AllowedProducts \subseteq Products
    /\ Quantities \subseteq Nat \ {0}
    /\ InitialStock \in [Products -> Nat]
    /\ {InitialBudget, MaxCarts, MaxLines, MaxCalls} \subseteq Nat
    /\ Released \notin Seq(Line) \union Nat

Cart == [open : BOOLEAN, lines : Seq(Line)]

OrderState == {"awaiting_approval", "approved", "payment_pending", "confirmed",
               "in_fulfillment", "fulfilled", "cancelled", "rejected"}

Flow == {"direct", "quote", "approval"}

(* held: the reservation of stock or budget, payment: 0 for none.          *)
(* stale: the cart was changed after the contract was asked (history).     *)
Order == [flow : Flow, key : Keys, state : OrderState, lines : Seq(Line),
          held : Nat, payment : Nat, stale : BOOLEAN]

Payment == [amount : Nat, state : {"created", "authorized", "captured", "cancelled"}]
Quote == [lines : Seq(Line), key : Keys, state : {"draft", "sent", "converted", "rejected"}]

Step == {"price", "reserve", "budget", "order", "authorize", "capture", "approve",
         "confirm", "commit", "create", "send", "accept", "finish", "finished", "failed"}

(* at: the step it takes next, or how it ended; the rest are its locals.   *)
Call == [flow : Flow, key : Keys, cart : Nat, lines : Seq(Line), at : Step,
         held : Nat, order : Nat, quote : Nat, stale : BOOLEAN]

Ids(seq) == {n \in DOMAIN seq : seq[n] # Released}

CommerceTypeOK ==
    /\ carts \in Seq(Cart)
    /\ stock \in [Products -> Int]
    /\ reservations \in Seq(Seq(Line) \cup {Released})
    /\ budget \in Int
    /\ budgetReservations \in Seq(Nat \cup {Released})
    /\ orders \in Seq(Order)
    /\ \A o \in DOMAIN orders : orders[o].payment \in 0..Len(payments)
    /\ payments \in Seq(Payment)
    /\ quotes \in Seq(Quote)
    /\ ordered \in [Keys -> 0..Len(orders)]
    /\ calls \in Seq(Call)
    /\ \A n \in DOMAIN calls : calls[n].cart \in DOMAIN carts
    /\ overlapped \subseteq Keys

CommerceInit ==
    /\ carts = <<>> /\ reservations = <<>> /\ budgetReservations = <<>>
    /\ orders = <<>> /\ payments = <<>> /\ quotes = <<>> /\ calls = <<>>
    /\ stock = InitialStock /\ budget = InitialBudget
    /\ ordered = [k \in Keys |-> 0]
    /\ overlapped = {}

(* price: the grand total of a quote.                                      *)
Total(lines) == MapThenSumSet(LAMBDA i : lines[i].quantity, DOMAIN lines)

Amount(lines, p) ==
    MapThenSumSet(LAMBDA i : lines[i].quantity,
                  {i \in DOMAIN lines : lines[i].product = p})

-----------------------------------------------------------------------------
(* Carts.                                                                  *)

CreateCart ==
    /\ Len(carts) < MaxCarts
    /\ carts' = Append(carts, [open |-> TRUE, lines |-> <<>>])
    /\ UNCHANGED <<books, orders, payments, quotes, ordered, calls, overlapped>>

At(n, at) == n \in DOMAIN calls /\ calls[n].at = at

(* An open cart may be changed while a checkout of it runs.                *)
Change(c, lines) ==
    /\ carts[c].open
    /\ carts' = [carts EXCEPT ![c].lines = lines]
    /\ calls' = [n \in DOMAIN calls |->
                   IF At(n, "price") /\ calls[n].cart = c
                   THEN [calls[n] EXCEPT !.stale = TRUE] ELSE calls[n]]
    /\ UNCHANGED <<books, orders, payments, quotes, ordered, overlapped>>

(* A product that the cart has already becomes one more line.              *)
AddCartLine(c, line) ==
    Len(carts[c].lines) < MaxLines /\ Change(c, Append(carts[c].lines, line))

UpdateCartLine(c, i, quantity) ==
    /\ quantity # carts[c].lines[i].quantity
    /\ Change(c, [carts[c].lines EXCEPT ![i].quantity = quantity])

RemoveCartLine(c, i) ==
    Change(c, [j \in 1..Len(carts[c].lines) - 1 |->
                 carts[c].lines[IF j < i THEN j ELSE j + 1]])

-----------------------------------------------------------------------------
(* Inventory and budgets.  Each line is compared with the stock by itself. *)

InStock(lines) == \A i \in DOMAIN lines : lines[i].quantity <= stock[lines[i].product]

BugStockAfterRelease(r) ==      \* one piece of each line
    [p \in Products |-> stock[p] +
       Cardinality({i \in DOMAIN reservations[r] : reservations[r][i].product = p})]

StockAfterRelease(r) ==
    [p \in Products |-> stock[p] + Amount(reservations[r], p)]

ReleaseInventory(r) ==
    /\ stock' = StockAfterRelease(r)
    /\ reservations' = [reservations EXCEPT ![r] = Released]
    /\ UNCHANGED <<carts, budget, budgetReservations, orders, payments, quotes,
                   ordered, calls, overlapped>>

ReleaseBudget(r) ==
    /\ budget' = budget + budgetReservations[r]
    /\ budgetReservations' = [budgetReservations EXCEPT ![r] = Released]
    /\ UNCHANGED <<carts, stock, reservations, orders, payments, quotes, ordered,
                   calls, overlapped>>

-----------------------------------------------------------------------------
(* A checkout begins: what precedes its first await.                       *)

Running(n) == calls[n].at \notin {"finished", "failed"}

Begin(flow, key, c, at) ==
    /\ Len(calls) < MaxCalls
    /\ calls' = Append(calls,
         [flow |-> flow, key |-> key, cart |-> c, lines |-> carts[c].lines, at |-> at,
          held |-> 0, order |-> 0, quote |-> 0, stale |-> FALSE])
    /\ overlapped' = IF \E n \in DOMAIN calls : Running(n) /\ calls[n].key = key
                     THEN overlapped \cup {key} ELSE overlapped
    /\ UNCHANGED <<carts, books, orders, payments, quotes, ordered>>

BugDirectCheckout(key, c) ==
    /\ carts[c].lines # <<>>
    /\ Begin("direct", key, c, "reserve")

(* With a key that has an order this one is returned.  Whether the cart is *)
(* open is not asked, here and below.                                      *)
DirectCheckout(key, c) ==
    /\ ordered[key] = 0
    /\ carts[c].lines # <<>>
    /\ Begin("direct", key, c, "reserve")

QuoteCheckout(key, c) ==
    /\ carts[c].lines # <<>>
    /\ Begin("quote", key, c, "create")

(* validateContract                                                        *)
WithinContract(lines) == \A i \in DOMAIN lines : lines[i].product \in AllowedProducts

ApprovalCheckout(key, c) ==
    /\ WithinContract(carts[c].lines)
    /\ Begin("approval", key, c, "price")

-----------------------------------------------------------------------------
(* The steps of checkouts.  An exception leaves behind what was done.      *)

Goes(n, at) == calls' = [calls EXCEPT ![n].at = at]

Fails(n) ==
    /\ Goes(n, "failed")
    /\ UNCHANGED <<carts, books, orders, payments, quotes, ordered, overlapped>>

BugReserve(n) ==      \* what the cart holds by now
    LET lines == carts[calls[n].cart].lines IN
    /\ At(n, "reserve") /\ InStock(lines)
    /\ stock' = [p \in Products |-> stock[p] - Amount(lines, p)]
    /\ reservations' = Append(reservations, lines)
    /\ calls' = [calls EXCEPT ![n].at = "order", ![n].held = Len(reservations) + 1]
    /\ UNCHANGED <<carts, budget, budgetReservations, orders, payments, quotes,
                   ordered, overlapped>>

Reserve(n) ==
    LET lines == calls[n].lines IN
    /\ At(n, "reserve") /\ InStock(lines)
    /\ stock' = [p \in Products |-> stock[p] - Amount(lines, p)]
    /\ reservations' = Append(reservations, lines)
    /\ calls' = [calls EXCEPT ![n].at = "order", ![n].held = Len(reservations) + 1]
    /\ UNCHANGED <<carts, budget, budgetReservations, orders, payments, quotes,
                   ordered, overlapped>>

ReserveRefused(n) == At(n, "reserve") /\ ~InStock(calls[n].lines) /\ Fails(n)

(* The lines are those that the cart has now, after the contract was asked.*)
PriceApproval(n) ==
    /\ At(n, "price")
    /\ carts[calls[n].cart].lines # <<>>
    /\ calls' = [calls EXCEPT ![n].at = "budget", ![n].lines = carts[calls[n].cart].lines]
    /\ UNCHANGED <<carts, books, orders, payments, quotes, ordered, overlapped>>

PriceRefused(n) == At(n, "price") /\ carts[calls[n].cart].lines = <<>> /\ Fails(n)

ReserveBudget(n) ==
    LET amount == Total(calls[n].lines) IN
    /\ At(n, "budget") /\ amount <= budget
    /\ budget' = budget - amount
    /\ budgetReservations' = Append(budgetReservations, amount)
    /\ calls' = [calls EXCEPT ![n].at = "order", ![n].held = Len(budgetReservations) + 1]
    /\ UNCHANGED <<carts, stock, reservations, orders, payments, quotes, ordered,
                   overlapped>>

BudgetRefused(n) == At(n, "budget") /\ Total(calls[n].lines) > budget /\ Fails(n)

NewOrder(call, state, payment) ==
    [flow |-> call.flow, key |-> call.key, state |-> state, lines |-> call.lines,
     held |-> call.held, payment |-> payment, stale |-> call.stale]

(* createOrder, with the intent to pay or the request of an approval.      *)
CreateOrder(n) ==
    LET direct == calls[n].flow = "direct" IN
    /\ At(n, "order")
    /\ orders' = Append(orders,
         IF direct THEN NewOrder(calls[n], "payment_pending", Len(payments) + 1)
         ELSE NewOrder(calls[n], "awaiting_approval", 0))
    /\ payments' = IF direct
                   THEN Append(payments,
                          [amount |-> Total(calls[n].lines), state |-> "created"])
                   ELSE payments
    /\ calls' = [calls EXCEPT ![n].at = IF direct THEN "authorize" ELSE "approve",
                              ![n].order = Len(orders) + 1]
    /\ UNCHANGED <<carts, books, quotes, ordered, overlapped>>

PaymentOf(n) == orders[calls[n].order].payment

(* Whatever the state of the payment is.                                   *)
Authorize(n) ==
    /\ At(n, "authorize")
    /\ payments' = [payments EXCEPT ![PaymentOf(n)].state = "authorized"]
    /\ Goes(n, "capture")
    /\ UNCHANGED <<carts, books, orders, quotes, ordered, overlapped>>

Capturable(n) == payments[PaymentOf(n)].state \in {"authorized", "created"}

Capture(n) ==
    /\ At(n, "capture") /\ Capturable(n)
    /\ payments' = [payments EXCEPT ![PaymentOf(n)].state = "captured"]
    /\ Goes(n, "confirm")
    /\ UNCHANGED <<carts, books, orders, quotes, ordered, overlapped>>

CaptureRefused(n) == At(n, "capture") /\ ~Capturable(n) /\ Fails(n)

OrderAllows ==
    [awaiting_approval |-> {"approved", "rejected", "cancelled"},
     approved |-> {"payment_pending", "confirmed", "cancelled"},
     payment_pending |-> {"confirmed", "cancelled"},
     confirmed |-> {"in_fulfillment", "cancelled"},
     in_fulfillment |-> {"fulfilled", "cancelled"},
     fulfilled |-> {}, cancelled |-> {}, rejected |-> {}]

MayBecome(o, state) == state \in OrderAllows[orders[o].state]

(* transitionOrder, by the checkout: to confirmed, before that to approved.*)
Transition(n) ==
    \E step \in {<<"approve", "approved", "confirm">>, <<"confirm", "confirmed", "commit">>} :
      /\ At(n, step[1])
      /\ MayBecome(calls[n].order, step[2])
      /\ orders' = [orders EXCEPT ![calls[n].order].state = step[2]]
      /\ Goes(n, step[3])
      /\ UNCHANGED <<carts, books, payments, quotes, ordered, overlapped>>

TransitionRefused(n) ==
    /\ \/ At(n, "approve") /\ ~MayBecome(calls[n].order, "approved")
       \/ At(n, "confirm") /\ ~MayBecome(calls[n].order, "confirmed")
    /\ Fails(n)

(* commit of the stock or the budget asks only whether it is reserved.     *)
StillHeld(n) ==
    calls[n].held \in Ids(IF calls[n].flow = "direct" THEN reservations
                          ELSE budgetReservations)

Commit(n) ==
    /\ At(n, "commit") /\ StillHeld(n)
    /\ Goes(n, "finish")
    /\ UNCHANGED <<carts, books, orders, payments, quotes, ordered, overlapped>>

CommitRefused(n) == At(n, "commit") /\ ~StillHeld(n) /\ Fails(n)

(* convertCart; a direct checkout stores its order for the key.            *)
Finish(n) ==
    /\ At(n, "finish")
    /\ carts' = [carts EXCEPT ![calls[n].cart].open = FALSE]
    /\ ordered' = IF calls[n].flow = "direct"
                  THEN [ordered EXCEPT ![calls[n].key] = calls[n].order] ELSE ordered
    /\ Goes(n, "finished")
    /\ UNCHANGED <<books, orders, payments, quotes, overlapped>>

-----------------------------------------------------------------------------
(* Quotes.                                                                 *)

CreateQuote(n) ==
    /\ At(n, "create")
    /\ quotes' = Append(quotes, [lines |-> calls[n].lines, key |-> calls[n].key,
                                 state |-> "draft"])
    /\ calls' = [calls EXCEPT ![n].at = "send", ![n].quote = Len(quotes) + 1]
    /\ UNCHANGED <<carts, books, orders, payments, ordered, overlapped>>

SendQuote(n) ==
    /\ At(n, "send")
    /\ quotes' = [quotes EXCEPT ![calls[n].quote].state = "sent"]
    /\ Goes(n, "accept")
    /\ UNCHANGED <<carts, books, orders, payments, ordered, overlapped>>

(* acceptQuote: the quote is converted before a cart is looked for, and    *)
(* any open cart of the organization will do.                              *)
SomeCartIsOpen == \E c \in DOMAIN carts : carts[c].open

AcceptQuote(q) ==
    /\ quotes[q].state = "sent"
    /\ quotes' = [quotes EXCEPT ![q].state = "converted"]
    /\ orders' = IF SomeCartIsOpen
                 THEN Append(orders,
                        [flow |-> "quote", key |-> quotes[q].key, state |-> "confirmed",
                         lines |-> quotes[q].lines, held |-> 0, payment |-> 0,
                         stale |-> FALSE])
                 ELSE orders

Accept(n) ==
    /\ At(n, "accept")
    /\ AcceptQuote(calls[n].quote)
    /\ Goes(n, IF SomeCartIsOpen THEN "finish" ELSE "failed")
    /\ UNCHANGED <<carts, books, payments, ordered, overlapped>>

AcceptRefused(n) ==
    At(n, "accept") /\ quotes[calls[n].quote].state # "sent" /\ Fails(n)

-----------------------------------------------------------------------------
(* What other clients may call in between.                                 *)

ClientAccepts(q) ==
    /\ AcceptQuote(q)
    /\ UNCHANGED <<carts, books, payments, ordered, calls, overlapped>>

ClientRejects(q) ==
    /\ quotes' = [quotes EXCEPT ![q].state = "rejected"]
    /\ UNCHANGED <<carts, books, orders, payments, ordered, calls, overlapped>>

CancelOrder(o) ==
    /\ MayBecome(o, "cancelled")
    /\ orders' = [orders EXCEPT ![o].state = "cancelled"]
    /\ UNCHANGED <<carts, books, payments, quotes, ordered, calls, overlapped>>

CancelPayment(p) ==
    /\ payments' = [payments EXCEPT ![p].state = "cancelled"]
    /\ UNCHANGED <<carts, books, orders, quotes, ordered, calls, overlapped>>

-----------------------------------------------------------------------------
Shop ==
    \/ CreateCart
    \/ \E c \in DOMAIN carts :
         \/ \E line \in Line : AddCartLine(c, line)
         \/ \E i \in DOMAIN carts[c].lines :
              RemoveCartLine(c, i) \/ \E q \in Quantities : UpdateCartLine(c, i, q)

CheckOut ==
    \E key \in Keys, c \in DOMAIN carts :
      DirectCheckout(key, c) \/ QuoteCheckout(key, c) \/ ApprovalCheckout(key, c)

Continue(n) ==
    \/ Reserve(n) \/ PriceApproval(n) \/ ReserveBudget(n) \/ CreateOrder(n)
    \/ Authorize(n) \/ Capture(n) \/ Transition(n) \/ Commit(n) \/ Finish(n)
    \/ CreateQuote(n) \/ SendQuote(n) \/ Accept(n)

Refused(n) ==
    \/ ReserveRefused(n) \/ PriceRefused(n) \/ BudgetRefused(n) \/ CaptureRefused(n)
    \/ TransitionRefused(n) \/ CommitRefused(n) \/ AcceptRefused(n)

Intervene ==
    \/ \E r \in Ids(reservations) : ReleaseInventory(r)
    \/ \E r \in Ids(budgetReservations) : ReleaseBudget(r)
    \/ \E q \in DOMAIN quotes : ClientAccepts(q) \/ ClientRejects(q)
    \/ \E o \in DOMAIN orders : CancelOrder(o)
    \/ \E p \in DOMAIN payments : CancelPayment(p)

CommerceNext ==
    Shop \/ CheckOut \/ (\E n \in DOMAIN calls : Continue(n) \/ Refused(n)) \/ Intervene

CommerceSpec == CommerceInit /\ [][CommerceNext]_commerceVars

-----------------------------------------------------------------------------
(* What reservations that were not released hold.                          *)
Reserved(p) ==
    MapThenSumSet(LAMBDA r : Amount(reservations[r], p), Ids(reservations))

BudgetReserved ==
    MapThenSumSet(LAMBDA r : budgetReservations[r], Ids(budgetReservations))

(* Stock and budget are neither lost nor made, however checkouts, failures *)
(* and releases interleave: what is not there is reserved.  And no more is *)
(* reserved than there is, but for one case, in which the code sells what  *)
(* it has not: several lines of one product are each in stock.             *)
BooksBalance ==
    /\ \A p \in Products :
         /\ stock[p] + Reserved(p) = InitialStock[p]
         /\ \/ stock[p] >= 0
            \/ \E r \in Ids(reservations) :
                 \E i, j \in DOMAIN reservations[r] :
                   i # j /\ reservations[r][i].product = p /\ reservations[r][j].product = p
    /\ budget + BudgetReserved = InitialBudget
    /\ budget >= 0

(* An order is for what was reserved for it, and paid for in full when it  *)
(* is confirmed, though the cart is changed while the checkout runs; only  *)
(* who releases a reservation or cancels a payment takes that away.  An    *)
(* order under a contract keeps to it, unless the cart was changed between *)
(* its validation and its pricing.                                         *)
ConfirmedIsBacked ==
    \A o \in DOMAIN orders :
      LET order == orders[o] IN
      /\ order.flow = "direct" =>
           /\ reservations[order.held] \in {order.lines, Released}
           /\ payments[order.payment].amount = Total(order.lines)
           /\ order.state = "confirmed" =>
                payments[order.payment].state \in {"captured", "cancelled"}
      /\ order.flow = "approval" =>
           /\ budgetReservations[order.held] \in {Total(order.lines), Released}
           /\ WithinContract(order.lines) \/ order.stale

(* Direct checkouts with one idempotency key confirm one order at most, if *)
(* they follow one another and nobody releases the stock of an order that  *)
(* is being confirmed.  The key is looked up at the beginning and stored at *)
(* the end: of two that overlap both go through.                           *)
ConfirmedFor(key) ==
    {o \in DOMAIN orders :
       /\ orders[o].flow = "direct" /\ orders[o].key = key
       /\ orders[o].state = "confirmed"}

OneOrderPerKey ==
    \A key \in Keys \ overlapped :
      \/ Cardinality(ConfirmedFor(key)) <= 1
      \/ \E o \in ConfirmedFor(key) : reservations[orders[o].held] = Released
=============================================================================
