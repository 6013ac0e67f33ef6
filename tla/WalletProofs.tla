------------------------------ MODULE WalletProofs -------------------------------
(***************************************************************************)
(* For any number of requests and orders, any amounts and any initial       *)
(* balance: the books balance while nothing wrote in between, only orders   *)
(* that were paid are credited, and an order at which requests work one     *)
(* after another is credited once.                                          *)
(***************************************************************************)
EXTENDS Wallet, FiniteSetTheorems, WellFoundedInduction, TLAPS

USE MoneyAssumption, NoOrderAssumption

Reading == [at : Places, order : Order \cup {None}, amount : Nat, credits : Nat, spent : Nat]

-----------------------------------------------------------------------------
(* What the steps do to the requests.                                      *)

\* A request that goes on keeps what it has read.
LEMMA GotoEffect ==
    ASSUME TypeOK, NEW r \in Request, NEW place \in Places, Goto(r, place)
    PROVE  /\ req' \in [Request -> Reading]
           /\ \A q \in Request \ {r} : req'[q] = req[q]
           /\ req'[r].at = place
           /\ req'[r].order = req[r].order /\ req'[r].amount = req[r].amount
           /\ req'[r].credits = req[r].credits /\ req'[r].spent = req[r].spent
<1> DEFINE moved == [req[r] EXCEPT !.at = place]
<1>1. req[r] \in Reading
  BY DEF TypeOK, Reading
<1>2. /\ moved \in Reading /\ moved.at = place /\ moved.order = req[r].order
      /\ moved.amount = req[r].amount /\ moved.credits = req[r].credits
      /\ moved.spent = req[r].spent
  BY <1>1 DEF Reading
<1>3. req' = [req EXCEPT ![r] = moved]
  BY DEF Goto, TypeOK
<1> HIDE DEF moved
<1>4. \A q \in Request : req'[q] = IF q = r THEN moved ELSE req[q]
  BY <1>3 DEF TypeOK
<1>5. req' \in [Request -> Reading]
  BY <1>2, <1>3 DEF TypeOK, Reading
<1> QED BY <1>2, <1>4, <1>5

\* A request that begins, or reads the balance, has a new record.
LEMMA ReadEffect ==
    ASSUME TypeOK, NEW r \in Request, NEW e \in Reading, req' = [req EXCEPT ![r] = e]
    PROVE  /\ req' \in [Request -> Reading]
           /\ \A q \in Request : req'[q] = IF q = r THEN e ELSE req[q]
BY DEF TypeOK, Reading

\* checkPayment has read the balance.
LEMMA CheckBalanceEffect ==
    ASSUME TypeOK, NEW r \in Request, CheckBalance(r)
    PROVE  /\ req' \in [Request -> Reading]
           /\ \A q \in Request \ {r} : req'[q] = req[q]
           /\ req'[r].at = "credit" /\ req'[r].credits = credits
           /\ req'[r].order = req[r].order /\ req'[r].amount = req[r].amount
<1> DEFINE moved == [req[r] EXCEPT !.at = "credit"]
           e == [moved EXCEPT !.credits = credits]
<1>1. req[r] \in Reading /\ credits \in Nat /\ "credit" \in Places
  BY DEF TypeOK, Reading, Places, HoldsBalance
<1>2. /\ moved \in Reading /\ moved.at = "credit" /\ moved.order = req[r].order
      /\ moved.amount = req[r].amount
  BY <1>1 DEF Reading
<1>3. req' = [req EXCEPT ![r] = e]
  BY DEF CheckBalance, TypeOK
<1> HIDE DEF moved
<1>4. /\ e \in Reading /\ e.at = "credit" /\ e.order = req[r].order
      /\ e.amount = req[r].amount /\ e.credits = credits
  BY <1>1, <1>2 DEF Reading
<1> HIDE DEF e
<1> QED BY <1>3, <1>4, ReadEffect

\* A request that takes an order has the order and its amount.
LEMMA TakeEffect ==
    ASSUME TypeOK, NEW r \in Request, NEW o \in Order, NEW place \in Places, TakeOrder(r, o, place)
    PROVE  /\ req' \in [Request -> Reading]
           /\ \A q \in Request \ {r} : req'[q] = req[q]
           /\ req'[r].at = place /\ req'[r].order = o
<1> DEFINE f == [Fresh EXCEPT !.at = place]
           g == [f EXCEPT !.order = o]
           e == [g EXCEPT !.amount = Amount[o]]
<1>1. f \in Reading /\ f.at = place
  BY DEF Fresh, Reading
<1>2. req' = [req EXCEPT ![r] = e]
  BY DEF TakeOrder
<1> HIDE DEF f
<1>3. g \in Reading /\ g.at = place /\ g.order = o
  BY <1>1 DEF Reading
<1> HIDE DEF g
<1>4. e \in Reading /\ e.at = place /\ e.order = o
  BY <1>3 DEF Reading
<1> HIDE DEF e
<1> QED BY <1>2, <1>4, ReadEffect

\* The first reads of charge and of awardInvitationCredits.
LEMMA ChargeReadEffect ==
    ASSUME TypeOK, NEW r \in Request, NEW cost \in Costs, ChargeRead(r, cost)
    PROVE  /\ req' \in [Request -> Reading]
           /\ \A q \in Request \ {r} : req'[q] = req[q]
           /\ req'[r] = [at |-> "charge", order |-> None, amount |-> cost,
                         credits |-> credits, spent |-> spent]
<1> DEFINE e == [at |-> "charge", order |-> None, amount |-> cost, credits |-> credits, spent |-> spent]
<1>1. e \in Reading
  BY DEF Reading, TypeOK, Places, HoldsBalance
<1>2. req' = [req EXCEPT ![r] = e]
  BY DEF ChargeRead
<1> QED BY <1>1, <1>2, ReadEffect

\* A gift is read into one request and nothing else.
LEMMA AwardReadEffect ==
    ASSUME TypeOK, NEW r \in Request, NEW gift \in Gifts, AwardRead(r, gift)
    PROVE  /\ req' \in [Request -> Reading]
           /\ \A q \in Request \ {r} : req'[q] = req[q]
           /\ req'[r] = [at |-> "credit", order |-> None, amount |-> gift,
                         credits |-> credits, spent |-> 0]
<1> DEFINE e == [at |-> "credit", order |-> None, amount |-> gift, credits |-> credits, spent |-> 0]
<1>1. e \in Reading
  BY DEF Reading, TypeOK, Places, HoldsBalance
<1>2. req' = [req EXCEPT ![r] = e]
  BY DEF AwardRead
<1> QED BY <1>1, <1>2, ReadEffect

\* Neither of them is about an order.
LEMMA NoOrderRead ==
    ASSUME TypeOK, NEW r \in Request,
           \/ \E cost \in Costs : ChargeRead(r, cost)
           \/ \E gift \in Gifts : AwardRead(r, gift)
    PROVE  (\A q \in Request \ {r} : req'[q] = req[q]) /\ req'[r].order = None
<1>1. ASSUME NEW cost \in Costs, ChargeRead(r, cost)
      PROVE  (\A q \in Request \ {r} : req'[q] = req[q]) /\ req'[r].order = None
  <2>1. /\ \A q \in Request \ {r} : req'[q] = req[q]
        /\ req'[r] = [at |-> "charge", order |-> None, amount |-> cost,
                      credits |-> credits, spent |-> spent]
    BY <1>1, ChargeReadEffect
  <2> QED BY <2>1
<1>2. ASSUME NEW gift \in Gifts, AwardRead(r, gift)
      PROVE  (\A q \in Request \ {r} : req'[q] = req[q]) /\ req'[r].order = None
  <2>1. /\ \A q \in Request \ {r} : req'[q] = req[q]
        /\ req'[r] = [at |-> "credit", order |-> None, amount |-> gift,
                      credits |-> credits, spent |-> 0]
    BY <1>2, AwardReadEffect
  <2> QED BY <2>1
<1> QED BY <1>1, <1>2

\* The steps that take a request from one place to another and read nothing.
Moves(r) ==
    \/ ChargeWrite(r) \/ ChargeLedger(r) \/ NotifyPending(r) \/ NotifyPaid(r)
    \/ CheckQuery(r) \/ CheckPaid(r) \/ Credit(r) \/ Fail(r)
    \/ \E gift \in Gifts : TopUp(r, gift)
    \/ \E balance \in Edits : AdminEdit(r, balance)

\* What a step of a request that has changed no balance leaves in it.
LEMMA MovesEffect ==
    ASSUME TypeOK, NEW r \in Request, Moves(r)
    PROVE  /\ req' \in [Request -> Reading]
           /\ \A q \in Request \ {r} : req'[q] = req[q]
           /\ req'[r].at \in {"ledger", "settle", "readBalance", "ended"}
           /\ req'[r].order = req[r].order /\ req'[r].amount = req[r].amount
<1>1. PICK place \in {"ledger", "settle", "readBalance", "ended"} : Goto(r, place)
  BY DEF Moves, ChargeWrite, ChargeLedger, NotifyPending, NotifyPaid, CheckQuery, CheckPaid,
         Credit, Fail, TopUp, AdminEdit, Replace
<1>2. place \in Places
  BY DEF Places, OnOrder
<1> QED BY <1>1, <1>2, GotoEffect

\* Every step is one of these.
LEMMA StepKinds ==
    ASSUME Next
    PROVE  \/ \E o \in Order : CreateOrder(o) \/ Pay(o)
           \/ \E r \in Request :
                \/ Moves(r) \/ CheckBalance(r)
                \/ \E o \in Order, place \in {"markPaid", "markPending", "query"} :
                     TakeOrder(r, o, place) /\ (place = "markPaid" => trade[o] = "success")
                \/ \E cost \in Costs : ChargeRead(r, cost)
                \/ \E gift \in Gifts : AwardRead(r, gift)
BY DEF Next, RechargeStep, BalanceStep, Moves, CheckRead, NotifyRead, NotifyPlace
-----------------------------------------------------------------------------
(* Types; a charge never exceeds the balance it has read.                  *)

Covered == \A r \in Request : At(r, "charge") => req[r].amount <= req[r].credits
TypeInv == TypeOK /\ Covered

\* At the start every request is new.
LEMMA TypeInit == Init => TypeInv
<1> SUFFICES ASSUME Init PROVE TypeInv
  OBVIOUS
<1>1. Fresh \in Reading /\ Fresh.at = "new"
  BY DEF Fresh, Reading, Places
<1>2. req \in [Request -> Reading] /\ \A r \in Request : req[r].at = "new"
  BY <1>1 DEF Init
<1>3. Covered
  BY <1>2 DEF Covered, At
<1>4. TypeOK
  <2>1. /\ credits \in Nat /\ spent \in Nat /\ ledger \in Nat
        /\ intake \in Int /\ charged \in Nat /\ unbilled \in Nat
    BY DEF Init
  <2>2. /\ order \in [Order -> {"none", "pending", "paid"}]
        /\ trade \in [Order -> {"waiting", "success"}]
        /\ credited \in [Order -> Nat] /\ raced \in BOOLEAN /\ contended \subseteq Order
    BY DEF Init
  <2> QED BY <1>2, <2>1, <2>2 DEF TypeOK, Reading
<1> QED BY <1>3, <1>4 DEF TypeInv

\* The steps of MovesEffect keep types and what is covered.
LEMMA TypeMoves ==
    ASSUME TypeInv, NEW r \in Request, Moves(r)
    PROVE  TypeInv'
<1> USE DEF TypeInv
<1>1. req[r] \in Reading /\ req' \in [Request -> Reading]
  BY MovesEffect DEF TypeOK, Reading
<1>2. Covered'
  BY MovesEffect DEF Covered, At
<1>3. /\ order' \in [Order -> {"none", "pending", "paid"}]
      /\ trade' \in [Order -> {"waiting", "success"}]
  BY DEF TypeOK, Moves, ChargeWrite, ChargeLedger, NotifyPending, NotifyPaid, CheckQuery, CheckPaid,
         Credit, Fail, TopUp, AdminEdit, Replace, SetStatus, pay
<1>4. credited' \in [Order -> Nat] /\ contended' \subseteq Order
  BY DEF TypeOK, Moves, ChargeWrite, ChargeLedger, NotifyPending, NotifyPaid, CheckQuery, CheckPaid,
         Credit, Fail, TopUp, AdminEdit, Replace, hist
<1>5. raced' \in BOOLEAN
  BY DEF TypeOK, Moves, ChargeWrite, ChargeLedger, NotifyPending, NotifyPaid, CheckQuery, CheckPaid,
         Credit, Fail, TopUp, AdminEdit, Replace, Post, hist
<1>6. /\ req[r].amount \in Nat /\ req[r].credits \in Nat /\ req[r].spent \in Nat
      /\ At(r, "charge") => req[r].amount <= req[r].credits
  BY <1>1 DEF Reading, Covered
<1>7. /\ credits' \in Nat /\ spent' \in Nat /\ ledger' \in Nat
      /\ intake' \in Int /\ charged' \in Nat /\ unbilled' \in Nat
  <2>1. CASE ChargeWrite(r)
    BY <1>6, <2>1 DEF TypeOK, ChargeWrite, Post
  <2>2. CASE ChargeLedger(r) \/ NotifyPending(r) \/ NotifyPaid(r) \/ CheckQuery(r) \/ CheckPaid(r)
    BY <1>6, <2>2 DEF TypeOK, ChargeLedger, NotifyPending, NotifyPaid, CheckQuery, CheckPaid, row, hist
  <2>3. CASE Credit(r)
    BY <1>6, <2>3 DEF TypeOK, Credit, Post
  <2>4. CASE Fail(r)
    BY <1>6, <2>4 DEF TypeOK, Fail, row
  <2>5. ASSUME NEW balance \in Nat, Replace(r, balance)
        PROVE  /\ credits' \in Nat /\ spent' \in Nat /\ ledger' \in Nat
               /\ intake' \in Int /\ charged' \in Nat /\ unbilled' \in Nat
    BY <2>5 DEF TypeOK, Replace, Post
  <2>6. CASE \/ \E gift \in Gifts : TopUp(r, gift)
             \/ \E balance \in Edits : AdminEdit(r, balance)
    <3>1. PICK balance \in Nat : Replace(r, balance)
      BY <2>6 DEF TopUp, AdminEdit, TypeOK
    <3> QED BY <2>5, <3>1
  <2> QED BY <2>1, <2>2, <2>3, <2>4, <2>6 DEF Moves
<1> QED BY <1>1, <1>2, <1>3, <1>4, <1>5, <1>7 DEF TypeOK, Reading

\* So does every other step.
LEMMA TypeNext == TypeInv /\ [Next]_vars => TypeInv'
<1> SUFFICES ASSUME TypeInv, [Next]_vars PROVE TypeInv'
  OBVIOUS
<1> USE DEF TypeInv
<1>1. ASSUME UNCHANGED <<row, ledger, trade, intake, charged, credited, raced, unbilled>>,
             order' \in [Order -> {"none", "pending", "paid"}], contended' \subseteq Order,
             req' \in [Request -> Reading],
             \A r \in Request : req'[r].at = "charge" => req'[r].amount <= req'[r].credits
      PROVE  TypeInv'
  BY <1>1 DEF TypeOK, Reading, Covered, At, row
<1>2. req \in [Request -> Reading] /\ contended \subseteq Order
      /\ \A r \in Request : req[r].at = "charge" => req[r].amount <= req[r].credits
  BY DEF TypeOK, Reading, Covered, At
<1>3. ASSUME NEW o \in Order, CreateOrder(o) \/ Pay(o) PROVE TypeInv'
  BY <1>3 DEF CreateOrder, Pay, TypeOK, Covered, At, row, hist
<1>4. ASSUME NEW r \in Request, CheckBalance(r) PROVE TypeInv'
  <2>1. UNCHANGED <<row, ledger, pay, hist>>
    BY <1>4 DEF CheckBalance
  <2> QED BY <1>1, <1>2, <1>4, <2>1, CheckBalanceEffect DEF hist, pay, TypeOK
<1>5. ASSUME NEW r \in Request, NEW o \in Order, NEW place \in {"markPaid", "markPending", "query"},
             TakeOrder(r, o, place)
      PROVE  TypeInv'
  <2>1. /\ UNCHANGED <<row, ledger, pay, intake, charged, credited, raced, unbilled>>
        /\ contended' \subseteq Order
    BY <1>2, <1>5 DEF TakeOrder, TouchOrder
  <2>2. place \in Places /\ place # "charge"
    BY DEF Places, OnOrder
  <2> QED BY <1>1, <1>2, <1>5, <2>1, <2>2, TakeEffect DEF pay, TypeOK
<1>6. ASSUME NEW r \in Request, NEW cost \in Costs, ChargeRead(r, cost) PROVE TypeInv'
  <2>1. UNCHANGED <<row, ledger, pay, hist>> /\ cost <= credits
    BY <1>6 DEF ChargeRead, Affordable, TypeOK
  <2>2. /\ req' \in [Request -> Reading] /\ \A q \in Request \ {r} : req'[q] = req[q]
        /\ req'[r].at = "charge" => req'[r].amount <= req'[r].credits
    <3>1. /\ req' \in [Request -> Reading] /\ \A q \in Request \ {r} : req'[q] = req[q]
          /\ req'[r] = [at |-> "charge", order |-> None, amount |-> cost,
                     credits |-> credits, spent |-> spent]
      BY <1>6, ChargeReadEffect
    <3> QED BY <2>1, <3>1
  <2> QED BY <1>1, <1>2, <2>1, <2>2 DEF hist, pay, TypeOK
<1>7. ASSUME NEW r \in Request, NEW gift \in Gifts, AwardRead(r, gift) PROVE TypeInv'
  <2>1. UNCHANGED <<row, ledger, pay, hist>>
    BY <1>7 DEF AwardRead
  <2>2. /\ req' \in [Request -> Reading] /\ \A q \in Request \ {r} : req'[q] = req[q]
        /\ req'[r].at = "charge" => req'[r].amount <= req'[r].credits
    <3>1. /\ req' \in [Request -> Reading] /\ \A q \in Request \ {r} : req'[q] = req[q]
          /\ req'[r] = [at |-> "credit", order |-> None, amount |-> gift,
                     credits |-> credits, spent |-> 0]
      BY <1>7, AwardReadEffect
    <3> QED BY <2>1, <3>1
  <2> QED BY <1>1, <1>2, <2>1, <2>2 DEF hist, pay, TypeOK
<1>8. CASE UNCHANGED vars
  BY <1>8 DEF vars, row, pay, hist, TypeOK, Covered, At
<1> QED BY <1>3, <1>4, <1>5, <1>6, <1>7, <1>8, TypeMoves, StepKinds

\* Hence both hold throughout.
LEMMA TypeInvAlways == Spec => []TypeInv
BY TypeInit, TypeNext, PTL DEF Spec

\* Balances, totals, orders and requests keep their types, and no balance is
\* ever negative: a charge is refused above the balance it has read.
THEOREM TypeCorrect == Spec => []TypeOK
BY TypeInvAlways, PTL DEF TypeInv
-----------------------------------------------------------------------------
(* The books.                                                              *)

\* While no write has raced, what a request has read is what the row says.
FreshRead(r) ==
    /\ At(r, "charge") => req[r].credits = credits /\ req[r].spent = spent
    /\ At(r, "credit") => req[r].credits = credits
BooksInv == ~raced => /\ credits = Initial + intake - charged /\ spent = charged
                      /\ \A r \in Request : FreshRead(r)

\* A step that leaves the row alone, after which r alone may have read it.
LEMMA RowStays ==
    ASSUME TypeInv, BooksInv, NEW r \in Request, UNCHANGED <<row, intake, charged, raced>>,
           \A q \in Request \ {r} : req'[q] = req[q],
           \/ req'[r] = req[r]
           \/ req'[r].at \notin {"charge", "credit"}
           \/ req'[r].at = "credit" /\ req'[r].credits = credits
           \/ req'[r].at = "charge" /\ req'[r].credits = credits /\ req'[r].spent = spent
    PROVE  BooksInv'
<1>1. ASSUME ~raced, NEW q \in Request PROVE FreshRead(q)'
  BY <1>1 DEF BooksInv, FreshRead, At, row
<1> QED BY <1>1 DEF BooksInv, row

\* A write of the row by r: a race if another request has read it, and otherwise
\* nobody else has.
LEMMA PostKeeps ==
    ASSUME TypeInv, BooksInv, NEW r \in Request, NEW balance, NEW total, Post(r, balance, total),
           \A q \in Request \ {r} : req'[q] = req[q],
           req'[r].at \notin {"charge", "credit"},
           ~raced => balance = Initial + intake' - charged' /\ total = charged'
    PROVE  BooksInv'
<1>1. ASSUME ~raced' PROVE ~raced /\ \A q \in Request : FreshRead(q)'
  <2>1. ~raced /\ \A q \in Request \ {r} : req[q].at \notin HoldsBalance
    BY <1>1 DEF Post, TypeInv, TypeOK
  <2> QED BY <2>1 DEF FreshRead, At, HoldsBalance
<1> QED BY <1>1 DEF BooksInv, Post

\* The steps of MovesEffect post nothing.
LEMMA BooksMoves ==
    ASSUME TypeInv, BooksInv, NEW r \in Request, Moves(r)
    PROVE  BooksInv'
<1>1. /\ \A q \in Request \ {r} : req'[q] = req[q]
      /\ req'[r].at \notin {"charge", "credit"}
  BY MovesEffect DEF TypeInv
<1>2. /\ req[r].amount \in Nat /\ req[r].credits \in Nat /\ req[r].spent \in Nat
      /\ credits \in Nat /\ spent \in Nat /\ intake \in Int /\ charged \in Nat
  BY DEF TypeInv, TypeOK
<1>3. CASE ChargeWrite(r)
  <2>1. Post(r, req[r].credits - req[r].amount, req[r].spent + req[r].amount)
        /\ charged' = charged + req[r].amount /\ intake' = intake
    BY <1>3 DEF ChargeWrite
  <2>2. ~raced => /\ req[r].credits = credits /\ req[r].spent = spent
                  /\ credits = Initial + intake - charged /\ spent = charged
    BY <1>3 DEF ChargeWrite, BooksInv, FreshRead
  <2>3. ~raced => /\ req[r].credits - req[r].amount = Initial + intake' - charged'
                  /\ req[r].spent + req[r].amount = charged'
    BY <1>2, <2>1, <2>2
  <2> QED BY <1>1, <2>1, <2>3, PostKeeps
<1>4. CASE Credit(r)
  <2>1. Post(r, req[r].credits + req[r].amount, spent)
        /\ intake' = intake + req[r].amount /\ charged' = charged
    BY <1>4 DEF Credit
  <2>2. ~raced => /\ req[r].credits = credits
                  /\ credits = Initial + intake - charged /\ spent = charged
    BY <1>4 DEF Credit, BooksInv, FreshRead
  <2>3. ~raced => /\ req[r].credits + req[r].amount = Initial + intake' - charged'
                  /\ spent = charged'
    BY <1>2, <2>1, <2>2
  <2> QED BY <1>1, <2>1, <2>3, PostKeeps
<1>5. ASSUME NEW balance \in Nat, Replace(r, balance) PROVE BooksInv'
  <2>1. Post(r, balance, spent) /\ intake' = intake + balance - credits /\ charged' = charged
    BY <1>5 DEF Replace
  <2>2. ~raced => balance = Initial + intake' - charged' /\ spent = charged'
    BY <1>2, <2>1 DEF BooksInv
  <2> QED BY <1>1, <2>1, <2>2, PostKeeps
<1>6. CASE \/ \E gift \in Gifts : TopUp(r, gift)
           \/ \E balance \in Edits : AdminEdit(r, balance)
  <2>1. PICK balance \in Nat : Replace(r, balance)
    BY <1>2, <1>6 DEF TopUp, AdminEdit
  <2> QED BY <1>5, <2>1
<1>7. CASE \/ ChargeLedger(r) \/ NotifyPending(r) \/ NotifyPaid(r) \/ CheckQuery(r)
           \/ CheckPaid(r) \/ Fail(r)
  <2>1. UNCHANGED <<row, intake, charged, raced>>
    BY <1>7 DEF ChargeLedger, NotifyPending, NotifyPaid, CheckQuery, CheckPaid, Fail, hist
  <2> QED BY <1>1, <2>1, RowStays
<1> QED BY <1>3, <1>4, <1>6, <1>7 DEF Moves

\* Each step posts to the balance what it adds to the totals.
LEMMA BooksNext == TypeInv /\ BooksInv /\ [Next]_vars => BooksInv'
<1> SUFFICES ASSUME TypeInv, BooksInv, [Next]_vars PROVE BooksInv'
  OBVIOUS
<1>1. CASE UNCHANGED <<row, intake, charged, raced, req>>
  BY <1>1 DEF BooksInv, FreshRead, At, row
<1>2. ASSUME NEW o \in Order, CreateOrder(o) \/ Pay(o) PROVE BooksInv'
  BY <1>1, <1>2 DEF CreateOrder, Pay, hist
<1>3. ASSUME NEW r \in Request, CheckBalance(r) PROVE BooksInv'
  BY <1>3, CheckBalanceEffect, RowStays DEF CheckBalance, hist, TypeInv
<1>4. ASSUME NEW r \in Request, NEW o \in Order, NEW place \in {"markPaid", "markPending", "query"},
             TakeOrder(r, o, place)
      PROVE  BooksInv'
  <2>1. UNCHANGED <<row, intake, charged, raced>>
    BY <1>4 DEF TakeOrder
  <2>2. (\A q \in Request \ {r} : req'[q] = req[q]) /\ req'[r].at = place
    BY <1>4, TakeEffect DEF TypeInv, Places, OnOrder
  <2> QED BY <2>1, <2>2, RowStays
<1>5. ASSUME NEW r \in Request, NEW cost \in Costs, ChargeRead(r, cost) PROVE BooksInv'
  <2>1. UNCHANGED <<row, intake, charged, raced>>
    BY <1>5 DEF ChargeRead, hist
  <2>2. /\ \A q \in Request \ {r} : req'[q] = req[q]
        /\ req'[r] = [at |-> "charge", order |-> None, amount |-> cost,
                      credits |-> credits, spent |-> spent]
    BY <1>5, ChargeReadEffect DEF TypeInv
  <2> QED BY <2>1, <2>2, RowStays
<1>6. ASSUME NEW r \in Request, NEW gift \in Gifts, AwardRead(r, gift) PROVE BooksInv'
  <2>1. UNCHANGED <<row, intake, charged, raced>>
    BY <1>6 DEF AwardRead, hist
  <2>2. /\ \A q \in Request \ {r} : req'[q] = req[q]
        /\ req'[r] = [at |-> "credit", order |-> None, amount |-> gift,
                      credits |-> credits, spent |-> 0]
    BY <1>6, AwardReadEffect DEF TypeInv
  <2> QED BY <2>1, <2>2, RowStays
<1>7. CASE UNCHANGED vars
  BY <1>1, <1>7 DEF vars, hist
<1> QED BY <1>2, <1>3, <1>4, <1>5, <1>6, <1>7, BooksMoves, StepKinds

\* As long as no request writes the row between the read and the write of another,
\* the balance is what came in less what was charged.
THEOREM BooksBalanceCorrect == Spec => []BooksBalance
<1>1. Init => BooksInv
  BY DEF Init, BooksInv, FreshRead, At, Fresh
<1>2. BooksInv => BooksBalance
  BY DEF BooksInv, BooksBalance
<1> QED BY <1>1, <1>2, BooksNext, TypeInvAlways, PTL DEF Spec
-----------------------------------------------------------------------------
(* Orders.                                                                 *)

\* A request that will mark an order paid, or credit it, knows from Alipay that
\* it is, and so does an order that was credited.
PaidInv ==
    /\ \A r \in Request : req[r].at \in {"markPaid", "settle", "readBalance", "credit"}
                          /\ req[r].order \in Order => trade[req[r].order] = "success"
    /\ OnlyPaidIsCredited

\* A payment is never taken back.
LEMMA TradeStays ==
    ASSUME TypeInv, [Next]_vars, NEW o \in Order, trade[o] = "success"
    PROVE  trade'[o] = "success"
<1>1. ASSUME NEW p \in Order, Pay(p) PROVE trade'[o] = "success"
  BY <1>1 DEF Pay, TypeInv, TypeOK
<1>2. CASE UNCHANGED trade
  BY <1>2
<1>3. ASSUME NEW r \in Request, Moves(r) PROVE UNCHANGED trade
  BY <1>3 DEF Moves, ChargeWrite, ChargeLedger, NotifyPending, NotifyPaid, CheckQuery, CheckPaid,
              Credit, Fail, TopUp, AdminEdit, Replace, pay
<1> QED BY <1>1, <1>2, <1>3, StepKinds
        DEF CreateOrder, CheckBalance, TakeOrder, ChargeRead, AwardRead, pay, vars

\* Only the last statement of checkPayment credits an order.
LEMMA CreditedOnlyByCredit ==
    ASSUME TypeInv, [Next]_vars, NEW o \in Order
    PROVE  \/ credited'[o] = credited[o]
           \/ \E r \in Request : /\ Credit(r) /\ req[r].order = o
                                 /\ credited'[o] = credited[o] + 1
<1>1. CASE UNCHANGED credited
  BY <1>1
<1>2. ASSUME NEW r \in Request, Moves(r), ~Credit(r) PROVE UNCHANGED credited
  BY <1>2 DEF Moves, ChargeWrite, ChargeLedger, NotifyPending, NotifyPaid, CheckQuery, CheckPaid,
              Fail, TopUp, AdminEdit, Replace, hist
<1>3. ASSUME NEW r \in Request, Credit(r)
      PROVE  \/ credited'[o] = credited[o]
             \/ req[r].order = o /\ credited'[o] = credited[o] + 1
  BY <1>3 DEF Credit, TypeInv, TypeOK
<1> QED BY <1>1, <1>2, <1>3, StepKinds
        DEF CreateOrder, Pay, CheckBalance, TakeOrder, ChargeRead, AwardRead, hist, vars

\* An order is credited only by the request that has seen it paid.
LEMMA PaidNext == TypeInv /\ PaidInv /\ [Next]_vars => PaidInv'
<1> SUFFICES ASSUME TypeInv, PaidInv, [Next]_vars PROVE PaidInv'
  OBVIOUS
<1>1. OnlyPaidIsCredited'
  <2> SUFFICES ASSUME NEW o \in Order, credited'[o] > 0 PROVE trade'[o] = "success"
    BY DEF OnlyPaidIsCredited
  <2>1. CASE credited'[o] = credited[o]
    BY <2>1, TradeStays DEF PaidInv, OnlyPaidIsCredited
  <2>2. ASSUME NEW r \in Request, Credit(r), req[r].order = o PROVE trade'[o] = "success"
    BY <2>2, TradeStays DEF PaidInv, Credit, At
  <2> QED BY <2>1, <2>2, CreditedOnlyByCredit
<1>2. ASSUME NEW q \in Request, req'[q].at \in {"markPaid", "settle", "readBalance", "credit"},
             req'[q].order \in Order
      PROVE  trade'[req'[q].order] = "success"
  <2>1. CASE req'[q] = req[q]
    BY <1>2, <2>1, TradeStays DEF PaidInv
  <2>2. ASSUME NEW r \in Request, Moves(r) PROVE trade'[req'[q].order] = "success"
    <3>1. CASE q = r
      <4>1. req'[r].at \in {"settle", "readBalance"} /\ req'[r].order = req[r].order
        BY <1>2, <2>2, <3>1, MovesEffect DEF TypeInv
      <4>2. \/ CheckQuery(r) /\ trade[req[r].order] = "success"
            \/ CheckPaid(r)
        <5>1. ~Goto(r, "ended") /\ ~Goto(r, "ledger")
          <6>1. \A place \in Places : Goto(r, place) => req'[r].at = place
            BY GotoEffect DEF TypeInv
          <6> QED BY <4>1, <6>1 DEF Places
        <5> QED BY <2>2, <5>1 DEF Moves, ChargeWrite, ChargeLedger, NotifyPending, NotifyPaid,
                                  CheckQuery, Credit, Fail, TopUp, AdminEdit, Replace
      <4> QED BY <1>2, <3>1, <4>1, <4>2, TradeStays DEF PaidInv, CheckPaid, At
    <3>2. CASE q # r
      BY <2>1, <2>2, <3>2, MovesEffect DEF TypeInv
    <3> QED BY <3>1, <3>2
  <2>3. ASSUME NEW r \in Request, CheckBalance(r) PROVE trade'[req'[q].order] = "success"
    <3>1. CASE q = r
      <4>1. req'[r].order = req[r].order /\ req[r].at = "readBalance"
        BY <2>3, CheckBalanceEffect DEF TypeInv, CheckBalance, At
      <4> QED BY <1>2, <3>1, <4>1, TradeStays DEF PaidInv
    <3>2. CASE q # r
      BY <2>1, <2>3, <3>2, CheckBalanceEffect DEF TypeInv
    <3> QED BY <3>1, <3>2
  <2>4. ASSUME NEW r \in Request, NEW o \in Order, NEW place \in {"markPaid", "markPending", "query"},
               TakeOrder(r, o, place), place = "markPaid" => trade[o] = "success"
        PROVE  trade'[req'[q].order] = "success"
    <3>1. /\ \A p \in Request \ {r} : req'[p] = req[p]
          /\ req'[r].at = place /\ req'[r].order = o
      BY <2>4, TakeEffect DEF TypeInv, Places, OnOrder
    <3>2. CASE q = r
      BY <1>2, <2>4, <3>1, <3>2, TradeStays
    <3> QED BY <2>1, <3>1, <3>2
  <2>5. ASSUME NEW r \in Request, \/ \E cost \in Costs : ChargeRead(r, cost)
                                  \/ \E gift \in Gifts : AwardRead(r, gift)
        PROVE  trade'[req'[q].order] = "success"
    <3>1. (\A p \in Request \ {r} : req'[p] = req[p]) /\ req'[r].order = None
      BY <2>5, NoOrderRead DEF TypeInv
    <3> QED BY <1>2, <2>1, <3>1
  <2>6. ASSUME NEW o \in Order, CreateOrder(o) \/ Pay(o) PROVE trade'[req'[q].order] = "success"
    BY <2>1, <2>6 DEF CreateOrder, Pay
  <2> QED BY <2>1, <2>2, <2>3, <2>4, <2>5, <2>6, StepKinds DEF vars
<1> QED BY <1>1, <1>2 DEF PaidInv

\* handleNotify, checkPayment: only what Alipay reports as paid is credited.
THEOREM OnlyPaidIsCreditedCorrect == Spec => []OnlyPaidIsCredited
<1>1. Init => PaidInv
  BY DEF Init, PaidInv, OnlyPaidIsCredited, Fresh
<1>2. PaidInv => OnlyPaidIsCredited
  BY DEF PaidInv
<1> QED BY <1>1, <1>2, PaidNext, TypeInvAlways, PTL DEF Spec
-----------------------------------------------------------------------------
(* Orders at which requests work one after another.                        *)

\* Request r is at work on order o.
On(r, o) == req[r].at \in OnOrder /\ req[r].order = o

\* At most one request is at work on the order; until it has marked it paid the
\* order is pending, and until it is done with it the order is not credited.
Alone(o) ==
    /\ \A q, r \in Request : On(q, o) /\ On(r, o) => q = r
    /\ order[o] # "paid" => credited[o] = 0
    /\ credited[o] <= 1
    /\ \A r \in Request : On(r, o) =>
         /\ credited[o] = 0
         /\ order[o] = IF req[r].at \in {"readBalance", "credit"} THEN "paid" ELSE "pending"
AloneInv == \A o \in Order : o \notin contended => Alone(o)

\* An order that was contended stays so.
LEMMA ContendedStays ==
    ASSUME [Next]_vars
    PROVE  contended \subseteq contended'
<1>1. CASE UNCHANGED contended
  BY <1>1
<1>2. ASSUME NEW r \in Request, Moves(r) PROVE UNCHANGED contended
  BY <1>2 DEF Moves, ChargeWrite, ChargeLedger, NotifyPending, NotifyPaid, CheckQuery, CheckPaid,
              Credit, Fail, TopUp, AdminEdit, Replace, hist
<1>3. ASSUME NEW r \in Request, NEW o \in Order, NEW place, TakeOrder(r, o, place)
      PROVE  contended \subseteq contended'
  BY <1>3 DEF TakeOrder, TouchOrder
<1> QED BY <1>1, <1>2, <1>3, StepKinds DEF CreateOrder, Pay, CheckBalance, ChargeRead, AwardRead, hist, vars

\* A step that leaves the order alone, after which the same requests at most are
\* at work on it, at the same places.
LEMMA AloneStays ==
    ASSUME NEW o \in Order, Alone(o), order'[o] = order[o], credited'[o] = credited[o],
           \A q \in Request : On(q, o)' => On(q, o) /\ (req'[q].at \in {"readBalance", "credit"}
                                                        <=> req[q].at \in {"readBalance", "credit"})
    PROVE  Alone(o)'
<1>1. \A q, r \in Request : On(q, o)' /\ On(r, o)' => q = r
  BY DEF Alone
<1>2. \A r \in Request : On(r, o)' =>
         /\ credited'[o] = 0
         /\ order'[o] = IF req'[r].at \in {"readBalance", "credit"} THEN "paid" ELSE "pending"
  BY DEF Alone
<1> QED BY <1>1, <1>2 DEF Alone

\* The same when only request r moved, off the order or within its half of the work.
LEMMA AloneStaysMove ==
    ASSUME NEW o \in Order, Alone(o), order'[o] = order[o], credited'[o] = credited[o],
           NEW r \in Request, \A q \in Request \ {r} : req'[q] = req[q],
           ~On(r, o)' \/ (On(r, o) /\ (req'[r].at \in {"readBalance", "credit"}
                                       <=> req[r].at \in {"readBalance", "credit"}))
    PROVE  Alone(o)'
<1>1. \A q \in Request \ {r} : On(q, o)' <=> On(q, o)
  BY DEF On
<1> QED BY <1>1, AloneStays

\* The steps of a request that works on an order, or leaves it.
LEMMA AloneMoves ==
    ASSUME TypeInv, NEW o \in Order, Alone(o), NEW r \in Request, Moves(r)
    PROVE  Alone(o)'
<1>1. /\ \A q \in Request \ {r} : req'[q] = req[q]
      /\ req'[r].at \in {"ledger", "settle", "readBalance", "ended"}
      /\ req'[r].order = req[r].order
  BY MovesEffect DEF TypeInv
<1>2. {"ledger", "ended"} \cap OnOrder = {}
  BY DEF OnOrder
<1>3. \A place \in Places : Goto(r, place) => req'[r].at = place
  BY GotoEffect DEF TypeInv
<1>4. CASE UNCHANGED <<order, credited>> /\ (Goto(r, "ledger") \/ Goto(r, "ended"))
  <2>1. req'[r].at \in {"ledger", "ended"}
    BY <1>3, <1>4 DEF Places
  <2>2. ~On(r, o)'
    BY <1>2, <2>1 DEF On
  <2> QED BY <1>1, <1>4, <2>2, AloneStaysMove
<1>5. CASE CheckQuery(r)
  <2>1. UNCHANGED <<order, credited>>
    BY <1>5 DEF CheckQuery, pay, hist
  <2>2. req[r].at = "query" /\ req'[r].at \in {"settle", "ended"}
    BY <1>3, <1>5 DEF CheckQuery, At, Places, OnOrder
  <2>3. ~On(r, o)' \/ (On(r, o) /\ (req'[r].at \in {"readBalance", "credit"}
                                    <=> req[r].at \in {"readBalance", "credit"}))
    BY <1>1, <1>2, <2>2 DEF On, OnOrder
  <2> QED BY <1>1, <2>1, <2>3, AloneStaysMove
<1>6. ASSUME req[r].order # o, \A p \in Order \ {req[r].order} : order'[p] = order[p] /\ credited'[p] = credited[p]
      PROVE  Alone(o)'
  <2>1. ~On(r, o)'
    BY <1>1, <1>6 DEF On
  <2> QED BY <1>1, <1>6, <2>1, AloneStaysMove
<1>7. ASSUME req[r].order = o, On(r, o)
      PROVE  /\ \A q \in Request \ {r} : ~On(q, o)' /\ ~On(q, o)
             /\ credited[o] = 0
             /\ order[o] = IF req[r].at \in {"readBalance", "credit"} THEN "paid" ELSE "pending"
  BY <1>1, <1>7 DEF Alone, On
<1>8. CASE NotifyPending(r) \/ NotifyPaid(r) \/ CheckPaid(r)
  <2>1. PICK status \in {"pending", "paid"} : SetStatus(r, status) /\ credited' = credited
            /\ (status = "pending" <=> NotifyPending(r))
    BY <1>8 DEF NotifyPending, NotifyPaid, CheckPaid, hist, At
  <2>2. \A p \in Order : order'[p] = IF p = req[r].order THEN status ELSE order[p]
    BY <2>1 DEF SetStatus, TypeInv, TypeOK
  <2>3. CASE req[r].order # o
    BY <1>6, <2>1, <2>2, <2>3
  <2>4. CASE req[r].order = o
    <3>1. req[r].at \in {"markPending", "markPaid", "settle"} /\ On(r, o)
      BY <1>8, <2>4 DEF NotifyPending, NotifyPaid, CheckPaid, At, On, OnOrder
    <3>2. credited'[o] = 0 /\ order'[o] = status /\ \A q \in Request \ {r} : ~On(q, o)'
      BY <1>7, <2>1, <2>2, <2>4, <3>1
    <3>3. On(r, o)' => req'[r].at = "readBalance" /\ status = "paid"
      <4>1. NotifyPending(r) \/ NotifyPaid(r) => req'[r].at = "ended"
        BY <1>3 DEF NotifyPending, NotifyPaid, Places
      <4>2. CheckPaid(r) => req'[r].at = "readBalance" /\ req[r].at = "settle"
        BY <1>3 DEF CheckPaid, At, Places, OnOrder
      <4>3. On(r, o)' => CheckPaid(r)
        BY <1>2, <1>8, <4>1 DEF On
      <4>4. CheckPaid(r) => status = "paid"
        BY <2>1, <4>2 DEF NotifyPending, At
      <4> QED BY <4>2, <4>3, <4>4
    <3> QED BY <3>2, <3>3 DEF Alone
  <2> QED BY <2>3, <2>4
<1>9. CASE Credit(r)
  <2>1. order' = order /\ req'[r].at = "ended" /\ req[r].at = "credit"
    BY <1>3, <1>9 DEF Credit, pay, At, Places
  <2>2. \A p \in Order : credited'[p] = credited[p] + (IF p = req[r].order THEN 1 ELSE 0)
    BY <1>9 DEF Credit
  <2>3. \A p \in Order : credited[p] \in Nat
    BY DEF TypeInv, TypeOK
  <2>4. CASE req[r].order # o
    <3>1. credited'[o] = credited[o] /\ ~On(r, o)'
      BY <1>1, <2>2, <2>3, <2>4 DEF On
    <3> QED BY <1>1, <2>1, <3>1, AloneStaysMove
  <2>5. CASE req[r].order = o
    <3>1. On(r, o) /\ ~On(r, o)'
      BY <1>2, <2>1, <2>5 DEF On, OnOrder
    <3>2. /\ \A q \in Request : ~On(q, o)'
          /\ order'[o] = "paid" /\ credited'[o] = 1
      BY <1>7, <2>1, <2>2, <2>5, <3>1
    <3> QED BY <3>2 DEF Alone
  <2> QED BY <2>4, <2>5
<1>10. CASE ChargeWrite(r) \/ ChargeLedger(r) \/ Fail(r)
  BY <1>4, <1>10 DEF ChargeWrite, ChargeLedger, Fail, pay, hist
<1>11. CASE \/ \E gift \in Gifts : TopUp(r, gift)
            \/ \E balance \in Edits : AdminEdit(r, balance)
  BY <1>4, <1>11 DEF TopUp, AdminEdit, Replace, pay, hist
<1> QED BY <1>5, <1>8, <1>9, <1>10, <1>11 DEF Moves

\* A request that takes a pending order has it for itself, or it is contended.
LEMMA AloneTake ==
    ASSUME TypeInv, AloneInv, NEW o \in Order, o \notin contended', NEW r \in Request,
           NEW p \in Order, NEW place \in {"markPaid", "markPending", "query"},
           TakeOrder(r, p, place), contended \subseteq contended'
    PROVE  Alone(o)'
<1>1. /\ \A q \in Request \ {r} : req'[q] = req[q]
      /\ req'[r].at = place /\ req'[r].order = p
  BY TakeEffect DEF TypeInv, Places, OnOrder
<1>2. Alone(o) /\ UNCHANGED <<order, credited>>
  BY DEF AloneInv, TakeOrder, pay
<1>3. CASE o # p
  <2>1. ~On(r, o)'
    BY <1>1, <1>3 DEF On
  <2> QED BY <1>1, <1>2, <2>1, AloneStaysMove
<1>4. CASE o = p
  <2>1. \A q \in Request \ {r} : ~On(q, o)
    BY <1>4 DEF TakeOrder, TouchOrder, On
  <2>2. \A q \in Request \ {r} : ~On(q, o)'
    BY <1>1, <2>1 DEF On
  <2>3. order'[o] = "pending" /\ credited'[o] = 0
    BY <1>2, <1>4 DEF TakeOrder, OpenOrder, Alone
  <2> QED BY <1>1, <2>2, <2>3 DEF Alone
<1> QED BY <1>3, <1>4

\* The status of the order lets one request through to the credit.
LEMMA AloneNext == TypeInv /\ AloneInv /\ [Next]_vars => AloneInv'
<1> SUFFICES ASSUME TypeInv, AloneInv, [Next]_vars, NEW o \in Order, o \notin contended'
             PROVE  Alone(o)'
  BY DEF AloneInv
<1>0. Alone(o) /\ contended \subseteq contended'
  BY ContendedStays DEF AloneInv
<1>1. CASE UNCHANGED <<order, credited, req>>
  BY <1>0, <1>1 DEF Alone, On
<1>2. ASSUME NEW p \in Order, CreateOrder(p) PROVE Alone(o)'
  <2>1. UNCHANGED <<credited, req>> /\ order[p] = "none"
        /\ \A q \in Order : order'[q] = IF q = p THEN "pending" ELSE order[q]
    BY <1>2 DEF CreateOrder, hist, TypeInv, TypeOK
  <2>2. CASE o # p
    BY <1>0, <1>1, <2>1, <2>2, AloneStays DEF On
  <2>3. CASE o = p
    <3>1. \A r \in Request : ~On(r, o)
      BY <1>0, <2>1, <2>3 DEF Alone
    <3>2. \A r \in Request : ~On(r, o)'
      BY <2>1, <3>1 DEF On
    <3>3. credited'[o] = 0
      BY <1>0, <2>1, <2>3 DEF Alone
    <3> QED BY <3>2, <3>3 DEF Alone
  <2> QED BY <2>2, <2>3
<1>3. ASSUME NEW p \in Order, Pay(p) PROVE Alone(o)'
  BY <1>1, <1>3 DEF Pay, hist
<1>4. ASSUME NEW r \in Request, CheckBalance(r) PROVE Alone(o)'
  <2>1. UNCHANGED <<order, credited>> /\ req[r].at = "readBalance"
    BY <1>4 DEF CheckBalance, At, pay, hist
  <2>2. /\ \A q \in Request \ {r} : req'[q] = req[q]
        /\ req'[r].at = "credit" /\ req'[r].order = req[r].order
    BY <1>4, CheckBalanceEffect DEF TypeInv
  <2>3. ~On(r, o)' \/ (On(r, o) /\ (req'[r].at \in {"readBalance", "credit"}
                                    <=> req[r].at \in {"readBalance", "credit"}))
    BY <2>1, <2>2 DEF On, OnOrder
  <2> QED BY <1>0, <2>1, <2>2, <2>3, AloneStaysMove
<1>5. ASSUME NEW r \in Request, NEW p \in Order, NEW place \in {"markPaid", "markPending", "query"},
             TakeOrder(r, p, place)
      PROVE  Alone(o)'
  BY <1>0, <1>5, AloneTake
<1>6. ASSUME NEW r \in Request, \/ \E cost \in Costs : ChargeRead(r, cost)
                                \/ \E gift \in Gifts : AwardRead(r, gift)
      PROVE  Alone(o)'
  <2>1. (\A q \in Request \ {r} : req'[q] = req[q]) /\ req'[r].order = None
    BY <1>6, NoOrderRead DEF TypeInv
  <2>2. UNCHANGED <<order, credited>>
    BY <1>6 DEF ChargeRead, AwardRead, pay, hist
  <2>3. ~On(r, o)'
    BY <2>1 DEF On
  <2> QED BY <1>0, <2>1, <2>2, <2>3, AloneStaysMove
<1>7. CASE UNCHANGED vars
  BY <1>1, <1>7 DEF vars, pay, hist
<1> QED BY <1>0, <1>2, <1>3, <1>4, <1>5, <1>6, <1>7, AloneMoves, StepKinds

\* handleNotify, checkPayment ("Already processed"): however often Alipay notifies
\* and the user asks, an order is credited at most once as long as no two
\* requests are at work on it at the same time.
THEOREM CreditedOnceAloneCorrect == Spec => []CreditedOnceAlone
<1>1. Init => AloneInv
  BY DEF Init, AloneInv, Alone, On, Fresh, OnOrder
<1>2. AloneInv => CreditedOnceAlone
  BY DEF AloneInv, Alone, CreditedOnceAlone
<1> QED BY <1>1, <1>2, AloneNext, TypeInvAlways, PTL DEF Spec
-----------------------------------------------------------------------------
(* The sum of the amounts of some requests, MapThenSumSet, is defined by a *)
(* recursion over the subsets.  That it has a solution, what the solution  *)
(* is and that the order does not matter follow from smallest              *)
(* counterexamples among the subsets of a finite set.                      *)

\* The sum of the property, for any requests; and the recursion it is defined by.
Bill(rq, S) == MapThenSumSet(LAMBDA r : rq[r].amount, S)
Chosen(S) == CHOOSE r \in S : TRUE
Others(S) == S \ {Chosen(S)}
SumsBody(rq, S, sum) == [T \in SUBSET S |-> IF T = {} THEN 0 ELSE rq[Chosen(T)].amount + sum[Others(T)]]
Sums(rq, S, sum) == sum = SumsBody(rq, S, sum)

\* Of the subsets of a finite set some are minimal.
LEMMA MinimalSubset ==
    ASSUME NEW S, IsFiniteSet(S), NEW W \in SUBSET SUBSET S, W # {}
    PROVE  \E T \in W : \A U \in W : U \subseteq T => U = T
<1>1. IsWellFoundedOn(StrictSubsetOrdering(S), SUBSET S)
  BY FS_StrictSubsetOrderingWellFounded, FS_FiniteSubsetsOfFinite
<1>2. PICK T \in W : \A U \in W : <<U, T>> \notin StrictSubsetOrdering(S)
  BY <1>1, WFMin
<1>3. \A U \in W : U \subseteq T => U = T
  BY <1>2 DEF StrictSubsetOrdering
<1> QED BY <1>3

\* The recursion of a sum takes a smaller set each time.
LEMMA OthersSmaller ==
    ASSUME NEW S, S # {}
    PROVE  Chosen(S) \in S /\ Others(S) \subseteq S /\ Others(S) # S /\ Chosen(S) \notin Others(S)
BY DEF Chosen, Others

\* The sums over the subsets of a part are among those of the whole.
LEMMA SumsOfPart ==
    ASSUME NEW rq, NEW S, NEW sum, Sums(rq, S, sum), NEW T \in SUBSET S
    PROVE  Sums(rq, T, [U \in SUBSET T |-> sum[U]])
<1> DEFINE part == [U \in SUBSET T |-> sum[U]]
<1>1. ASSUME NEW U \in SUBSET T
      PROVE  part[U] = IF U = {} THEN 0 ELSE rq[Chosen(U)].amount + part[Others(U)]
  <2>1. U \in SUBSET S
    OBVIOUS
  <2>2. sum[U] = IF U = {} THEN 0 ELSE rq[Chosen(U)].amount + sum[Others(U)]
    BY <2>1 DEF Sums, SumsBody
  <2>3. U # {} => Others(U) \in SUBSET T
    BY OthersSmaller
  <2> QED BY <2>2, <2>3
<1>2. part = [U \in SUBSET T |-> part[U]]
  OBVIOUS
<1> HIDE DEF part
<1>3. part = SumsBody(rq, T, part)
  BY <1>1, <1>2 DEF SumsBody
<1> QED BY <1>3 DEF Sums, part

\* There is at most one such function for a finite set.
LEMMA SumsUnique ==
    ASSUME NEW rq, NEW S, IsFiniteSet(S), NEW sum, Sums(rq, S, sum), NEW tot, Sums(rq, S, tot)
    PROVE  sum = tot
<1> DEFINE W == {T \in SUBSET S : sum[T] # tot[T]}
<1>1. \A T \in SUBSET S : /\ sum[T] = IF T = {} THEN 0 ELSE rq[Chosen(T)].amount + sum[Others(T)]
                          /\ tot[T] = IF T = {} THEN 0 ELSE rq[Chosen(T)].amount + tot[Others(T)]
  BY DEF Sums, SumsBody
<1>2. ASSUME W # {} PROVE FALSE
  <2>0. W \in SUBSET SUBSET S
    OBVIOUS
  <2> HIDE DEF W
  <2>1. PICK T \in W : \A U \in W : U \subseteq T => U = T
    BY <1>2, <2>0, MinimalSubset
  <2>2. T \in SUBSET S /\ sum[T] # tot[T]
    BY DEF W
  <2>3. T # {}
    BY <1>1, <2>2
  <2>4. Others(T) \in SUBSET S /\ Others(T) \subseteq T /\ Others(T) # T
    BY <2>2, <2>3, OthersSmaller
  <2>5. sum[Others(T)] = tot[Others(T)]
    BY <2>1, <2>4 DEF W
  <2> QED BY <1>1, <2>2, <2>3, <2>5
<1>3. sum = [T \in SUBSET S |-> sum[T]] /\ tot = [T \in SUBSET S |-> tot[T]]
  BY DEF Sums, SumsBody
<1> QED BY <1>2, <1>3

\* And there is one.
LEMMA SumsExist ==
    ASSUME NEW rq, NEW S, IsFiniteSet(S)
    PROVE  \E sum : Sums(rq, S, sum)
<1> DEFINE W == {T \in SUBSET S : ~\E sum : Sums(rq, T, sum)}
           best(T) == CHOOSE sum : Sums(rq, T, sum)
<1>1. SUFFICES ASSUME W # {} PROVE FALSE
  OBVIOUS
<1>0. W \in SUBSET SUBSET S
  OBVIOUS
<1> HIDE DEF W
<1>2. PICK S1 \in W : \A U \in W : U \subseteq S1 => U = S1
  BY <1>0, <1>1, MinimalSubset
<1>3. S1 \in SUBSET S /\ (\A sum : ~Sums(rq, S1, sum)) /\ \A T \in SUBSET S1 : T # S1 => Sums(rq, T, best(T))
  BY <1>2 DEF W
<1> HIDE DEF best
<1> DEFINE all == [T \in SUBSET S1 |-> IF T = {} THEN 0
                                       ELSE rq[Chosen(T)].amount + best(Others(T))[Others(T)]]
<1>4. ASSUME NEW T \in SUBSET S1, T # S1
      PROVE  best(T)[T] = IF T = {} THEN 0 ELSE rq[Chosen(T)].amount + best(Others(T))[Others(T)]
  <2>1. Sums(rq, T, best(T))
    BY <1>3, <1>4
  <2>2. best(T)[T] = IF T = {} THEN 0 ELSE rq[Chosen(T)].amount + best(T)[Others(T)]
    BY <2>1 DEF Sums, SumsBody
  <2>3. ASSUME T # {} PROVE best(T)[Others(T)] = best(Others(T))[Others(T)]
    <3>1. Others(T) \in SUBSET T /\ Others(T) \in SUBSET S1 /\ Others(T) # S1 /\ IsFiniteSet(Others(T))
      BY <1>3, <2>3, OthersSmaller, FS_Subset
    <3>2. Sums(rq, Others(T), [U \in SUBSET Others(T) |-> best(T)[U]])
      BY <2>1, <3>1, SumsOfPart
    <3>3. Sums(rq, Others(T), best(Others(T)))
      BY <1>3, <3>1
    <3>4. best(Others(T)) = [U \in SUBSET Others(T) |-> best(T)[U]]
      BY <3>1, <3>2, <3>3, SumsUnique
    <3> QED BY <3>4
  <2> QED BY <2>2, <2>3
<1>5. ASSUME NEW T \in SUBSET S1
      PROVE  all[T] = IF T = {} THEN 0 ELSE rq[Chosen(T)].amount + all[Others(T)]
  <2>1. CASE T = {}
    BY <2>1
  <2>2. CASE T # {}
    <3>1. Others(T) \in SUBSET S1 /\ Others(T) # S1
      BY <2>2, OthersSmaller
    <3>2. all[Others(T)] = best(Others(T))[Others(T)]
      BY <1>4, <3>1
    <3> QED BY <2>2, <3>2
  <2> QED BY <2>1, <2>2
<1>6. all = [T \in SUBSET S1 |-> all[T]]
  OBVIOUS
<1> HIDE DEF all
<1>7. Sums(rq, S1, all)
  BY <1>5, <1>6 DEF Sums, SumsBody
<1> QED BY <1>3, <1>7

\* So the sum is what its recursion says.
LEMMA BillChosen ==
    ASSUME NEW rq, NEW S, IsFiniteSet(S)
    PROVE  Bill(rq, S) = IF S = {} THEN 0 ELSE rq[Chosen(S)].amount + Bill(rq, Others(S))
<1> DEFINE best(T) == CHOOSE sum : Sums(rq, T, sum)
<1>1. \A T : Bill(rq, T) = best(T)[T]
  BY DEF Bill, Sums, SumsBody, Chosen, Others, MapThenSumSet, MapThenFoldSet
<1>2. Sums(rq, S, best(S))
  BY SumsExist
<1>3. Bill(rq, S) = IF S = {} THEN 0 ELSE rq[Chosen(S)].amount + best(S)[Others(S)]
  BY <1>1, <1>2 DEF Sums, SumsBody
<1>4. ASSUME S # {} PROVE best(S)[Others(S)] = Bill(rq, Others(S))
  <2>1. Others(S) \in SUBSET S /\ IsFiniteSet(Others(S))
    BY <1>4, OthersSmaller, FS_Subset
  <2>2. Sums(rq, Others(S), [U \in SUBSET Others(S) |-> best(S)[U]])
    BY <1>2, <2>1, SumsOfPart
  <2>3. Sums(rq, Others(S), best(Others(S)))
    BY <2>1, SumsExist
  <2>4. best(Others(S)) = [U \in SUBSET Others(S) |-> best(S)[U]]
    BY <2>1, <2>2, <2>3, SumsUnique
  <2> QED BY <1>1, <2>4
<1> QED BY <1>3, <1>4

\* Amounts add up to an amount.
LEMMA BillNat ==
    ASSUME NEW rq, NEW S, IsFiniteSet(S), \A r \in S : rq[r].amount \in Nat
    PROVE  Bill(rq, S) \in Nat
<1> DEFINE W == {T \in SUBSET S : Bill(rq, T) \notin Nat}
<1>0. W \in SUBSET SUBSET S
  OBVIOUS
<1>1. SUFFICES ASSUME W # {} PROVE FALSE
  <2>1. S \in SUBSET S
    OBVIOUS
  <2> QED BY <2>1
<1> HIDE DEF W
<1>2. PICK T \in W : \A U \in W : U \subseteq T => U = T
  BY <1>0, <1>1, MinimalSubset
<1>3. T \in SUBSET S /\ Bill(rq, T) \notin Nat /\ IsFiniteSet(T)
  BY <1>2, FS_Subset DEF W
<1>4. Bill(rq, T) = IF T = {} THEN 0 ELSE rq[Chosen(T)].amount + Bill(rq, Others(T))
  BY <1>3, BillChosen
<1>5. T # {}
  BY <1>3, <1>4
<1>6. Chosen(T) \in S /\ Others(T) \in SUBSET S /\ Others(T) \notin W
  BY <1>2, <1>3, <1>5, OthersSmaller
<1>7. Bill(rq, Others(T)) \in Nat /\ rq[Chosen(T)].amount \in Nat
  BY <1>6 DEF W
<1> QED BY <1>3, <1>4, <1>5, <1>7

\* Only the amounts matter.
LEMMA BillSame ==
    ASSUME NEW rq, NEW rr, NEW S, IsFiniteSet(S), \A r \in S : rr[r].amount = rq[r].amount
    PROVE  Bill(rr, S) = Bill(rq, S)
<1> DEFINE W == {T \in SUBSET S : Bill(rr, T) # Bill(rq, T)}
<1>0. W \in SUBSET SUBSET S
  OBVIOUS
<1>1. SUFFICES ASSUME W # {} PROVE FALSE
  <2>1. S \in SUBSET S
    OBVIOUS
  <2> QED BY <2>1
<1> HIDE DEF W
<1>2. PICK T \in W : \A U \in W : U \subseteq T => U = T
  BY <1>0, <1>1, MinimalSubset
<1>3. T \in SUBSET S /\ Bill(rr, T) # Bill(rq, T) /\ IsFiniteSet(T)
  BY <1>2, FS_Subset DEF W
<1>4. /\ Bill(rq, T) = IF T = {} THEN 0 ELSE rq[Chosen(T)].amount + Bill(rq, Others(T))
      /\ Bill(rr, T) = IF T = {} THEN 0 ELSE rr[Chosen(T)].amount + Bill(rr, Others(T))
  BY <1>3, BillChosen
<1>5. T # {}
  BY <1>3, <1>4
<1>6. Chosen(T) \in S /\ Others(T) \in SUBSET S /\ Others(T) \notin W
  BY <1>2, <1>3, <1>5, OthersSmaller
<1>7. Bill(rr, Others(T)) = Bill(rq, Others(T)) /\ rr[Chosen(T)].amount = rq[Chosen(T)].amount
  BY <1>6 DEF W
<1> QED BY <1>3, <1>4, <1>5, <1>7

\* Any member can be added last.
LEMMA BillWithout ==
    ASSUME NEW rq, NEW S, IsFiniteSet(S), \A r \in S : rq[r].amount \in Nat, NEW x \in S
    PROVE  Bill(rq, S) = rq[x].amount + Bill(rq, S \ {x})
<1> DEFINE Splits(T) == \A a \in T : Bill(rq, T) = rq[a].amount + Bill(rq, T \ {a})
           W == {T \in SUBSET S : ~Splits(T)}
<1>0. W \in SUBSET SUBSET S
  OBVIOUS
<1>1. SUFFICES ASSUME W # {} PROVE FALSE
  <2>1. S \in SUBSET S
    OBVIOUS
  <2> QED BY <2>1
<1> HIDE DEF W
<1>2. PICK T \in W : \A U \in W : U \subseteq T => U = T
  BY <1>0, <1>1, MinimalSubset
<1>3. T \in SUBSET S /\ ~Splits(T) /\ \A U \in SUBSET T : U # T => Splits(U)
  BY <1>2 DEF W
<1>4. PICK a \in T : Bill(rq, T) # rq[a].amount + Bill(rq, T \ {a})
  BY <1>3
<1> DEFINE b == Chosen(T)
<1>5. IsFiniteSet(T) /\ T # {}
  BY <1>3, <1>4, FS_Subset
<1>6. b \in T /\ Bill(rq, T) = rq[b].amount + Bill(rq, T \ {b})
  BY <1>5, BillChosen, OthersSmaller DEF Others
<1> HIDE DEF b
<1>7. a # b
  BY <1>4, <1>6
<1>8. Splits(T \ {a}) /\ Splits(T \ {b})
  BY <1>3, <1>4, <1>6
<1>9. b \in T \ {a} /\ a \in T \ {b}
  BY <1>4, <1>6, <1>7
<1>10. Bill(rq, T \ {b}) = rq[a].amount + Bill(rq, (T \ {b}) \ {a})
  BY <1>8, <1>9
<1>11. Bill(rq, T \ {a}) = rq[b].amount + Bill(rq, (T \ {a}) \ {b})
  BY <1>8, <1>9
<1>12. (T \ {b}) \ {a} = (T \ {a}) \ {b}
  OBVIOUS
<1>13. Bill(rq, (T \ {a}) \ {b}) \in Nat /\ rq[a].amount \in Nat /\ rq[b].amount \in Nat
  <2>1. (T \ {a}) \ {b} \in SUBSET S /\ IsFiniteSet((T \ {a}) \ {b})
    BY <1>3, <1>5, FS_Subset
  <2>2. Bill(rq, (T \ {a}) \ {b}) \in Nat
    BY <2>1, BillNat
  <2> QED BY <1>3, <1>4, <1>6, <2>2
<1>14. \A m, n, k \in Nat : m + (n + k) = n + (m + k)
  OBVIOUS
<1> HIDE DEF Splits
<1>15. Bill(rq, T) = rq[b].amount + (rq[a].amount + Bill(rq, (T \ {a}) \ {b}))
  BY <1>6, <1>10, <1>12
<1>16. rq[a].amount + Bill(rq, T \ {a}) = rq[a].amount + (rq[b].amount + Bill(rq, (T \ {a}) \ {b}))
  BY <1>11
<1> QED BY <1>4, <1>13, <1>14, <1>15, <1>16
-----------------------------------------------------------------------------
(* The ledger.                                                             *)

\* The charges whose ledger row is still to be written.
Due == {r \in Request : At(r, "ledger")}
LedgerInv == IsFiniteSet(Due) /\ charged = ledger + unbilled + Bill(req, Due)

\* What is still to be written to the ledger is an amount.
LEMMA DueSum ==
    ASSUME TypeInv, IsFiniteSet(Due)
    PROVE  Bill(req, Due) \in Nat
BY BillNat DEF Due, TypeInv, TypeOK

\* A step that neither charges nor writes a ledger row, of a request that is not
\* about to write one.
LEMMA DueStays ==
    ASSUME LedgerInv, UNCHANGED <<charged, ledger, unbilled>>, NEW r \in Request,
           \A q \in Request \ {r} : req'[q] = req[q],
           req[r].at # "ledger", req'[r].at # "ledger"
    PROVE  LedgerInv'
<1>1. Due' = Due /\ \A q \in Due : req'[q].amount = req[q].amount
  BY DEF Due, At
<1>2. Bill(req', Due) = Bill(req, Due)
  BY <1>1, BillSame DEF LedgerInv
<1> QED BY <1>1, <1>2 DEF LedgerInv

\* The balance is charged: the request will write the row.
LEMMA DueCharge ==
    ASSUME TypeInv, LedgerInv, NEW r \in Request, ChargeWrite(r)
    PROVE  LedgerInv'
<1> DEFINE amount == req[r].amount
<1>1. /\ \A q \in Request \ {r} : req'[q] = req[q]
      /\ req'[r].at = "ledger" /\ req'[r].amount = amount /\ amount \in Nat
      /\ req' \in [Request -> Reading]
  BY GotoEffect DEF ChargeWrite, TypeInv, TypeOK, Places
<1>2. r \notin Due /\ Due' = Due \cup {r}
  BY <1>1 DEF Due, At, ChargeWrite
<1>3. IsFiniteSet(Due')
  BY <1>2, FS_AddElement DEF LedgerInv
<1>4. Bill(req', Due') = req'[r].amount + Bill(req', Due' \ {r})
  <2>1. \A q \in Due' : req'[q].amount \in Nat
    BY <1>1 DEF Due, Reading
  <2>2. r \in Due'
    BY <1>2
  <2> QED BY <1>3, <2>1, <2>2, BillWithout
<1>5. Due' \ {r} = Due /\ Bill(req', Due) = Bill(req, Due)
  <2>1. \A q \in Due : req'[q].amount = req[q].amount
    BY <1>1, <1>2 DEF Due
  <2> QED BY <1>2, <2>1, BillSame DEF LedgerInv
<1>6. charged' = charged + amount /\ ledger' = ledger /\ unbilled' = unbilled
  BY DEF ChargeWrite
<1>7. Bill(req', Due') = amount + Bill(req, Due)
  BY <1>1, <1>4, <1>5
<1>8. charged \in Nat /\ ledger \in Nat /\ unbilled \in Nat /\ Bill(req, Due) \in Nat
  BY DueSum DEF LedgerInv, TypeInv, TypeOK
<1> HIDE DEF amount
<1>9. charged' = ledger' + unbilled' + Bill(req', Due')
  BY <1>1, <1>6, <1>7, <1>8 DEF LedgerInv
<1> QED BY <1>3, <1>9 DEF LedgerInv

\* A request writes its row, or fails before it does.
LEMMA DueDone ==
    ASSUME TypeInv, LedgerInv, NEW r \in Request, At(r, "ledger"), ChargeLedger(r) \/ Fail(r)
    PROVE  LedgerInv'
<1> DEFINE amount == req[r].amount
<1>1. /\ \A q \in Request \ {r} : req'[q] = req[q]
      /\ req'[r].at = "ended" /\ amount \in Nat
  BY GotoEffect DEF ChargeLedger, Fail, TypeInv, TypeOK, Places
<1>2. r \in Due /\ Due' = Due \ {r}
  BY <1>1 DEF Due, At
<1>3. IsFiniteSet(Due')
  BY <1>2, FS_RemoveElement DEF LedgerInv
<1>4. Bill(req, Due) = amount + Bill(req, Due \ {r})
  <2>1. \A q \in Due : req[q].amount \in Nat
    BY DEF Due, TypeInv, TypeOK
  <2> QED BY <1>2, <2>1, BillWithout DEF LedgerInv
<1>5. Bill(req', Due') = Bill(req, Due')
  <2>1. \A q \in Due' : req'[q].amount = req[q].amount
    BY <1>1, <1>2 DEF Due
  <2> QED BY <1>3, <2>1, BillSame
<1>6. charged' = charged /\ ledger' + unbilled' = ledger + unbilled + amount
  <2>1. ledger \in Nat /\ unbilled \in Nat
    BY DEF TypeInv, TypeOK
  <2> QED BY <1>1, <2>1 DEF ChargeLedger, Fail, hist
<1>7. Bill(req, Due') \in Nat
  <2>1. \A q \in Due' : req[q].amount \in Nat
    BY <1>2 DEF Due, TypeInv, TypeOK
  <2> QED BY <1>3, <2>1, BillNat
<1>8. charged \in Nat /\ ledger \in Nat /\ unbilled \in Nat
  BY DEF TypeInv, TypeOK
<1>9. charged = ledger + unbilled + (amount + Bill(req, Due'))
  BY <1>2, <1>4 DEF LedgerInv
<1> HIDE DEF amount
<1>10. charged' = ledger' + unbilled' + Bill(req', Due')
  BY <1>1, <1>5, <1>6, <1>7, <1>8, <1>9
<1> QED BY <1>3, <1>10 DEF LedgerInv

\* A charge adds to what is due, its ledger row moves it from there.
LEMMA LedgerNext == TypeInv /\ LedgerInv /\ [Next]_vars => LedgerInv'
<1> SUFFICES ASSUME TypeInv, LedgerInv, [Next]_vars PROVE LedgerInv'
  OBVIOUS
<1>1. CASE UNCHANGED <<req, charged, ledger, unbilled>>
  BY <1>1 DEF LedgerInv, Due, At
<1>2. ASSUME NEW o \in Order, CreateOrder(o) \/ Pay(o) PROVE LedgerInv'
  BY <1>1, <1>2 DEF CreateOrder, Pay, hist
<1>3. ASSUME NEW r \in Request, Moves(r) PROVE LedgerInv'
  <2>1. CASE ChargeWrite(r)
    BY <2>1, DueCharge
  <2>2. CASE ChargeLedger(r)
    BY <2>2, DueDone DEF ChargeLedger
  <2>3. CASE Fail(r) /\ At(r, "ledger")
    BY <2>3, DueDone
  <2>4. ASSUME ~ChargeWrite(r), ~ChargeLedger(r), ~(Fail(r) /\ At(r, "ledger"))
        PROVE  LedgerInv'
    <3>1. /\ UNCHANGED <<ledger, charged>> /\ req[r].at # "ledger"
          /\ \E place \in {"settle", "readBalance", "ended"} : Goto(r, place)
      BY <1>3, <2>4 DEF Moves, NotifyPending, NotifyPaid, CheckQuery, CheckPaid, Credit, Fail, TopUp,
             AdminEdit, Replace, At, hist
    <3>2. unbilled' = unbilled
      <4>1. unbilled \in Nat
        BY DEF TypeInv, TypeOK
      <4> QED BY <1>3, <2>4, <4>1 DEF Moves, NotifyPending, NotifyPaid, CheckQuery, CheckPaid, Credit,
             Fail, TopUp, AdminEdit, Replace, At, hist
    <3>3. (\A q \in Request \ {r} : req'[q] = req[q]) /\ req'[r].at # "ledger"
      BY <3>1, GotoEffect DEF TypeInv, Places, OnOrder
    <3> QED BY <3>1, <3>2, <3>3, DueStays
  <2> QED BY <2>1, <2>2, <2>3, <2>4
<1>4. ASSUME NEW r \in Request, CheckBalance(r) PROVE LedgerInv'
  <2>1. UNCHANGED <<charged, ledger, unbilled>> /\ req[r].at = "readBalance"
    BY <1>4 DEF CheckBalance, At, hist
  <2> QED BY <1>4, <2>1, CheckBalanceEffect, DueStays DEF TypeInv
<1>5. ASSUME NEW r \in Request, NEW o \in Order, NEW place \in {"markPaid", "markPending", "query"},
             TakeOrder(r, o, place)
      PROVE  LedgerInv'
  <2>1. UNCHANGED <<charged, ledger, unbilled>> /\ req[r].at = "new"
    BY <1>5 DEF TakeOrder, At
  <2>2. (\A q \in Request \ {r} : req'[q] = req[q]) /\ req'[r].at = place
    BY <1>5, TakeEffect DEF TypeInv, Places, OnOrder
  <2> QED BY <2>1, <2>2, DueStays
<1>6. ASSUME NEW r \in Request, NEW cost \in Costs, ChargeRead(r, cost) PROVE LedgerInv'
  <2>1. UNCHANGED <<charged, ledger, unbilled>> /\ req[r].at = "new"
    BY <1>6 DEF ChargeRead, At, hist
  <2>2. /\ \A q \in Request \ {r} : req'[q] = req[q]
        /\ req'[r] = [at |-> "charge", order |-> None, amount |-> cost,
                      credits |-> credits, spent |-> spent]
    BY <1>6, ChargeReadEffect DEF TypeInv
  <2>3. req'[r].at = "charge"
    BY <2>2
  <2> QED BY <2>1, <2>2, <2>3, DueStays
<1>7. ASSUME NEW r \in Request, NEW gift \in Gifts, AwardRead(r, gift) PROVE LedgerInv'
  <2>1. UNCHANGED <<charged, ledger, unbilled>> /\ req[r].at = "new"
    BY <1>7 DEF AwardRead, At, hist
  <2>2. /\ \A q \in Request \ {r} : req'[q] = req[q]
        /\ req'[r] = [at |-> "credit", order |-> None, amount |-> gift,
                      credits |-> credits, spent |-> 0]
    BY <1>7, AwardReadEffect DEF TypeInv
  <2>3. req'[r].at = "credit"
    BY <2>2
  <2> QED BY <2>1, <2>2, <2>3, DueStays
<1>8. CASE UNCHANGED vars
  BY <1>1, <1>8 DEF vars, hist
<1> QED BY <1>2, <1>3, <1>4, <1>5, <1>6, <1>7, <1>8, StepKinds

\* charge, statement by statement: every amount charged to a user has its ledger
\* row, or the request is about to write it or failed before it could.
THEOREM LedgerExplainsChargesCorrect == Spec => []LedgerExplainsCharges
<1>1. Init => LedgerInv
  <2> SUFFICES ASSUME Init PROVE LedgerInv
    OBVIOUS
  <2>1. Due = {} /\ IsFiniteSet({})
    BY FS_EmptySet DEF Init, Due, At, Fresh
  <2>2. Bill(req, {}) = 0
    BY <2>1, BillChosen
  <2> QED BY <2>1, <2>2 DEF Init, LedgerInv
<1>2. LedgerInv => LedgerExplainsCharges
  BY DEF LedgerInv, LedgerExplainsCharges, Due, Bill
<1> QED BY <1>1, <1>2, LedgerNext, TypeInvAlways, PTL DEF Spec
=============================================================================
