-------------------------------- MODULE Wallet ---------------------------------
(***************************************************************************)
(* The balance of one user and the requests that move it: charges of model *)
(* calls (BillingService), Alipay notifications and payment checks of      *)
(* recharge orders (RechargeService), top-ups, invitation awards           *)
(* (UsersService) and an administrator's edit (AdminService).              *)
(*                                                                         *)
(* Except for the top-up and the edit these are read-modify-write          *)
(* sequences of separate SQL statements on the pool, with no transaction   *)
(* and no row lock, so every statement is an action and requests           *)
(* interleave between them, on one backend or on several.                  *)
(*                                                                         *)
(* Alipay and the mysql2 driver are external.  The driver returns a        *)
(* DECIMAL column as text unless decimalNumbers is set, which the adapter  *)
(* does not do; order.amount.toFixed therefore throws in handleNotify.     *)
(***************************************************************************)
EXTENDS Naturals, Integers, FiniteSets, FiniteSetsExt

CONSTANTS
    Request,     \* HTTP requests and model calls; each is handled once
    Order,       \* recharge orders the user may create
    None,        \* no order
    Amount,      \* [Order -> amount of the order]
    Costs,       \* what a model call may cost
    Gifts,       \* amounts of top-ups and awards
    Edits,       \* balances an administrator may set
    Initial      \* balance of a new user

ASSUME NoOrderAssumption == None \notin Order
ASSUME MoneyAssumption ==
    /\ Amount \in [Order -> Nat \ {0}]
    /\ Costs \subseteq Nat /\ Gifts \subseteq Nat /\ Edits \subseteq Nat
    /\ Initial \in Nat

VARIABLES
    credits, spent,     \* users.credits, users.total_spent
    ledger,             \* sum of the billing_ledger rows
    order,              \* recharge_orders.status, "none" before the insert
    trade,              \* what Alipay knows of the order
    req,                \* where each request is, and what it has read
    intake, charged,    \* history: money put in, money charged to users
    credited,           \* history: how often each order was credited
    raced, contended,   \* history: see Post and TouchOrder
    unbilled            \* history: charges whose ledger row was never written

row  == <<credits, spent>>
pay  == <<order, trade>>
hist == <<intake, charged, credited, raced, contended, unbilled>>
vars == <<row, ledger, pay, req, hist>>

HoldsBalance == {"charge", "credit"}     \* between SELECT credits and UPDATE
OnOrder == {"markPending", "markPaid", "query", "settle", "readBalance", "credit"}
Places  == {"new", "ledger", "ended"} \cup HoldsBalance \cup OnOrder
Fresh == [at |-> "new", order |-> None, amount |-> 0, credits |-> 0, spent |-> 0]

TypeOK ==
    /\ credits \in Nat /\ spent \in Nat /\ ledger \in Nat
    /\ order \in [Order -> {"none", "pending", "paid"}]
    /\ trade \in [Order -> {"waiting", "success"}]
    /\ req \in [Request -> [at : Places, order : Order \cup {None}, amount : Nat,
                            credits : Nat, spent : Nat]]
    /\ intake \in Int /\ charged \in Nat /\ unbilled \in Nat
    /\ credited \in [Order -> Nat]
    /\ raced \in BOOLEAN /\ contended \subseteq Order

Init ==
    /\ credits = Initial /\ spent = 0 /\ ledger = 0
    /\ order = [o \in Order |-> "none"]
    /\ trade = [o \in Order |-> "waiting"]
    /\ req = [r \in Request |-> Fresh]
    /\ intake = 0 /\ charged = 0 /\ unbilled = 0
    /\ credited = [o \in Order |-> 0]
    /\ raced = FALSE /\ contended = {}
-----------------------------------------------------------------------------
At(r, place) == req[r].at = place
Goto(r, place) == req' = [req EXCEPT ![r].at = place]

\* The users row is written.  A request that read the balance before and
\* writes it later races with r.
Post(r, balance, total) ==
    /\ credits' = balance /\ spent' = total
    /\ raced' = (raced \/ \E q \in Request \ {r} : req[q].at \in HoldsBalance)

\* r starts to work on order o; another request may be at it already.
TouchOrder(r, o) ==
    contended' = IF \E q \in Request \ {r} : req[q].at \in OnOrder /\ req[q].order = o
                 THEN contended \cup {o} ELSE contended

\* charge: SELECT credits, total_spent; a balance below the cost is refused.
Affordable(cost) == credits >= cost
ChargeRead(r, cost) ==
    /\ At(r, "new")
    /\ Affordable(cost)
    /\ req' = [req EXCEPT ![r] = [at |-> "charge", order |-> None, amount |-> cost,
                                  credits |-> credits, spent |-> spent]]
    /\ UNCHANGED <<row, ledger, pay, hist>>

\* mutant: total_spent is left alone
ChargeWriteKeepsTotal(r) ==
    /\ At(r, "charge")
    /\ Post(r, req[r].credits - req[r].amount, req[r].spent)
    /\ charged' = charged + req[r].amount
    /\ Goto(r, "ledger")
    /\ UNCHANGED <<ledger, pay, intake, credited, contended, unbilled>>
ChargeWrite(r) ==
    /\ At(r, "charge")
    /\ Post(r, req[r].credits - req[r].amount, req[r].spent + req[r].amount)
    /\ charged' = charged + req[r].amount
    /\ Goto(r, "ledger")
    /\ UNCHANGED <<ledger, pay, intake, credited, contended, unbilled>>

\* mutant: the insert is tried again after it succeeded
ChargeLedgerAgain(r) ==
    /\ At(r, "ledger")
    /\ ledger' = ledger + req[r].amount
    /\ \/ Goto(r, "ended") \/ UNCHANGED req
    /\ UNCHANGED <<row, pay, hist>>
ChargeLedger(r) ==
    /\ At(r, "ledger")
    /\ ledger' = ledger + req[r].amount
    /\ Goto(r, "ended")
    /\ UNCHANGED <<row, pay, hist>>
-----------------------------------------------------------------------------
\* createOrder inserts the order once Alipay returned its QR code.
CreateOrder(o) ==
    /\ order[o] = "none"
    /\ order' = [order EXCEPT ![o] = "pending"]
    /\ UNCHANGED <<row, ledger, trade, req, hist>>

\* The user pays at Alipay.
Pay(o) ==
    /\ order[o] # "none" /\ trade[o] = "waiting"
    /\ trade' = [trade EXCEPT ![o] = "success"]
    /\ UNCHANGED <<row, ledger, order, req, hist>>

OpenOrderAlways(o) == order[o] # "none"     \* mutant: a paid order is processed again
OpenOrder(o) == order[o] = "pending"
TakeOrder(r, o, place) ==
    /\ At(r, "new")
    /\ OpenOrder(o)
    /\ req' = [req EXCEPT ![r] = [Fresh EXCEPT !.at = place, !.order = o,
                                               !.amount = Amount[o]]]
    /\ TouchOrder(r, o)
    /\ UNCHANGED <<row, ledger, pay, intake, charged, credited, raced, unbilled>>

\* handleNotify with any status the trade has had: Alipay repeats and delays
\* its notifications.  A paid order is answered without a change.
NotifyPlace(told) == IF told = "success" THEN "markPaid" ELSE "markPending"
NotifyRead(r, o, told) ==
    /\ told = "success" => trade[o] = "success"
    /\ TakeOrder(r, o, NotifyPlace(told))

SetStatus(r, s) == order' = [order EXCEPT ![req[r].order] = s]

NotifyPending(r) ==
    /\ At(r, "markPending")
    /\ SetStatus(r, "pending")
    /\ Goto(r, "ended")
    /\ UNCHANGED <<row, ledger, trade, hist>>

\* The order is marked paid; then order.amount.toFixed throws on the text the
\* driver returned, and the request ends before the balance is read.
NotifyPaid(r) ==
    /\ At(r, "markPaid")
    /\ SetStatus(r, "paid")
    /\ Goto(r, "ended")
    /\ UNCHANGED <<row, ledger, trade, hist>>

\* checkPayment reads the order, asks Alipay and settles what is paid.
CheckRead(r, o) == TakeOrder(r, o, "query")
\* mutant: any answer of Alipay settles the order
CheckQueryAnswered(r) ==
    /\ At(r, "query")
    /\ Goto(r, "settle")
    /\ UNCHANGED <<row, ledger, pay, hist>>
CheckQuery(r) ==
    /\ At(r, "query")
    /\ Goto(r, IF trade[req[r].order] = "success" THEN "settle" ELSE "ended")
    /\ UNCHANGED <<row, ledger, pay, hist>>

CheckPaid(r) ==
    /\ At(r, "settle")
    /\ SetStatus(r, "paid")
    /\ Goto(r, "readBalance")
    /\ UNCHANGED <<row, ledger, trade, hist>>

CheckBalance(r) ==
    /\ At(r, "readBalance")
    /\ req' = [req EXCEPT ![r] = [@ EXCEPT !.at = "credit", !.credits = credits]]
    /\ UNCHANGED <<row, ledger, pay, hist>>

\* The last statement of checkPayment and of awardInvitationCredits.
Credit(r) ==
    /\ At(r, "credit")
    /\ Post(r, req[r].credits + req[r].amount, spent)
    /\ intake' = intake + req[r].amount
    /\ credited' = [o \in Order |-> credited[o] + (IF o = req[r].order THEN 1 ELSE 0)]
    /\ Goto(r, "ended")
    /\ UNCHANGED <<ledger, pay, charged, contended, unbilled>>
-----------------------------------------------------------------------------
AwardRead(r, gift) ==
    /\ At(r, "new")
    /\ req' = [req EXCEPT ![r] = [at |-> "credit", order |-> None, amount |-> gift,
                                  credits |-> credits, spent |-> 0]]
    /\ UNCHANGED <<row, ledger, pay, hist>>

\* topUpCredits is one UPDATE; updateUser locks the row in a transaction and
\* refuses an edit whose expectedCredits is given and stale.
Replace(r, balance) ==
    /\ At(r, "new")
    /\ Post(r, balance, spent)
    /\ intake' = intake + balance - credits
    /\ Goto(r, "ended")
    /\ UNCHANGED <<ledger, pay, charged, credited, contended, unbilled>>
TopUp(r, gift) == Replace(r, credits + gift)
AdminEdit(r, balance) == Replace(r, balance)

\* The process dies, the connection is lost or a statement is refused.
Fail(r) ==
    /\ req[r].at \notin {"new", "ended"}
    /\ Goto(r, "ended")
    /\ unbilled' = unbilled + (IF At(r, "ledger") THEN req[r].amount ELSE 0)
    /\ UNCHANGED <<row, ledger, pay, intake, charged, credited, raced, contended>>

RechargeStep(r) ==
    \/ \E o \in Order : CheckRead(r, o) \/ \E told \in {"waiting", "success"} : NotifyRead(r, o, told)
    \/ NotifyPending(r) \/ NotifyPaid(r)
    \/ CheckQuery(r) \/ CheckPaid(r) \/ CheckBalance(r) \/ Credit(r)
BalanceStep(r) ==
    \/ \E cost \in Costs : ChargeRead(r, cost)
    \/ ChargeWrite(r) \/ ChargeLedger(r)
    \/ \E gift \in Gifts : AwardRead(r, gift) \/ TopUp(r, gift)
    \/ \E balance \in Edits : AdminEdit(r, balance)

Next ==
    \/ \E o \in Order : CreateOrder(o) \/ Pay(o)
    \/ \E r \in Request : RechargeStep(r) \/ BalanceStep(r) \/ Fail(r)

Spec == Init /\ [][Next]_vars
-----------------------------------------------------------------------------
\* The balance is what came in less what was charged, and total_spent is what
\* was charged, as long as no request wrote the users row between the read and
\* the write of another (charge, checkPayment and awardInvitationCredits write
\* back a balance they computed from an earlier read).
BooksBalance ==
    ~raced => credits = Initial + intake - charged /\ spent = charged

\* Every charge of a user has its ledger row, is about to get it, or belongs to
\* a request that failed in between (charge inserts the row last).
LedgerExplainsCharges ==
    charged = ledger + unbilled + MapThenSumSet(LAMBDA r : req[r].amount,
                                                {r \in Request : At(r, "ledger")})

\* Only an order that Alipay reports as paid is credited, whatever
\* notifications arrive and in whatever order (handleNotify, checkPayment).
OnlyPaidIsCredited == \A o \in Order : credited[o] > 0 => trade[o] = "success"

\* Repeated and late notifications and checks credit an order at most once when
\* each of them finds no other request at work on the order ("Already processed").
CreditedOnceAlone == \A o \in Order : o \notin contended => credited[o] <= 1

\* An order shown as paid, on which no request is at work any more, was credited
\* once: "Update order & user credits (1:1 RMB to credits)" of handleNotify.
PaidMeansCredited ==
    \A o \in Order :
        order[o] = "paid" /\ (\A r \in Request : req[r].order = o => At(r, "ended"))
        => credited[o] = 1
=============================================================================
