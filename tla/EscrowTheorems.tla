--------------------------- MODULE EscrowTheorems ---------------------------
(* Cash moves with fills only; the order management core implements Escrow,   *)
(* for any number of accounts and orders and any amounts; and reservations    *)
(* move with orders only.                                                     *)
EXTENDS SafetyTheorems, OrderEscrow

(* How a step may change the rows of the accounts table.                      *)
CashKept == \A a \in DOMAIN accounts : accounts'[a].cash = accounts[a].cash

LEMMA SavedAccount ==
    ASSUME TypeOK, NEW a \in DOMAIN accounts, NEW row, SaveAccount(a, row)
    PROVE  \A b \in DOMAIN accounts : accounts'[b] = IF b = a THEN row ELSE accounts[b]
  BY DEF SaveAccount, TypeOK, AccountsTypeOK

(* A row computed from an unchanged balance is stored with that balance.      *)
LEMMA StoredCashKept ==
    ASSUME TypeOK, NEW a \in DOMAIN accounts, NEW reserved,
           SaveAccount(a, StoredAccount(Wide(accounts[a].cash), reserved))
    PROVE  CashKept
<1> DEFINE row == StoredAccount(Wide(accounts[a].cash), reserved)
<1>1. row.cash = accounts[a].cash
  <2>1. accounts[a].cash \in Int
    BY DEF TypeOK, AccountsTypeOK, Account
  <2> QED
    BY <2>1, StoredWide DEF StoredAccount
<1> HIDE DEF row
<1>2. \A b \in DOMAIN accounts : accounts'[b] = IF b = a THEN row ELSE accounts[b]
  BY SavedAccount DEF row
<1> QED
  BY <1>1, <1>2 DEF CashKept

(* What an applied fill does to the accounts.                                 *)
LEMMA FillPays ==
    ASSUME TypeOK, NEW e \in FillEvent,
           CompleteFill(e) \/ PartialFill(e) \/ IocPartialFill(e)
    PROVE  /\ ApplyFill(e)
           /\ LET a == orders[e.order].req.account
              IN  \A b \in DOMAIN accounts :
                     accounts'[b].cash = IF b = a
                                         THEN Stored(CashAfter(accounts[a], orders[e.order].req, e))
                                         ELSE accounts[b].cash
<1> DEFINE req == orders[e.order].req
           a == req.account
<1>1. ApplyFill(e)
  BY DEF CompleteFill, PartialFill, IocPartialFill
<1>2. a \in DOMAIN accounts
  BY <1>1, FillContext
<1>3. PICK reserved : SaveAccount(a, StoredAccount(CashAfter(accounts[a], req, e), reserved))
  BY DEF CompleteFill, PartialFill, IocPartialFill, FillAccount, SettledAccount
<1> DEFINE row == StoredAccount(CashAfter(accounts[a], req, e), reserved)
<1>4. row.cash = Stored(CashAfter(accounts[a], req, e))
  BY DEF StoredAccount
<1> HIDE DEF row
<1>5. \A b \in DOMAIN accounts : accounts'[b] = IF b = a THEN row ELSE accounts[b]
  BY <1>2, <1>3, SavedAccount DEF row
<1> QED
  BY <1>1, <1>4, <1>5

LEMMA CashShape ==
    ASSUME TypeOK, [Next]_vars
    PROVE  \/ UNCHANGED fills /\ CashKept
           \/ \E e \in FillEvent : CompleteFill(e) \/ PartialFill(e) \/ IocPartialFill(e)
<1> DEFINE Goal == \/ UNCHANGED fills /\ CashKept
                   \/ \E e \in FillEvent : CompleteFill(e) \/ PartialFill(e) \/ IocPartialFill(e)
<1>1. ASSUME NEW a \in Accounts, NEW d \in Deposits, CreateAccount(a, d) PROVE Goal
  BY <1>1 DEF CreateAccount, Put, CashKept
<1>2. ASSUME NEW o \in OrderIds, NEW req \in Requests, RejectNewOrder(o, req) PROVE Goal
  BY <1>2 DEF RejectNewOrder, AddOrder, CashKept
<1>3. ASSUME NEW o \in OrderIds, NEW req \in Requests, RouteNewOrder(o, req) PROVE Goal
  <2>1. /\ UNCHANGED fills /\ req.account \in DOMAIN accounts
        /\ SaveAccount(req.account,
               StoredAccount(Wide(accounts[req.account].cash),
                             Wide(accounts[req.account].reserved) + RequiredBuyingPower(req)))
    BY <1>3 DEF RouteNewOrder, AddOrder
  <2> QED
    BY <2>1, StoredCashKept
<1>4. ASSUME NEW o \in DOMAIN orders, MarkRoutingFailure(o) PROVE Goal
  <2> DEFINE a == orders[o].req.account
             row == IF orders[o].req.side = "BUY"
                    THEN [accounts[a] EXCEPT !.reserved = submission[o].reservedBefore]
                    ELSE accounts[a]
  <2>1. UNCHANGED fills /\ (SaveAccount(a, row) \/ UNCHANGED accounts)
    BY <1>4 DEF MarkRoutingFailure
  <2>2. a \in DOMAIN accounts /\ row.cash = accounts[a].cash
    BY DEF TypeOK, OrdersTypeOK, AccountsTypeOK, Account
  <2> HIDE DEF row
  <2>3. SaveAccount(a, row) => \A b \in DOMAIN accounts : accounts'[b] = IF b = a THEN row ELSE accounts[b]
    BY <2>2, SavedAccount
  <2> QED
    BY <2>1, <2>2, <2>3 DEF CashKept
<1>5. ASSUME NEW o \in DOMAIN orders, OrderStep(o) PROVE Goal
  BY <1>4, <1>5 DEF OrderStep, Submit, SubmitRaises, RequestCancellation, NotifyCancel,
                    ledgerVars, CashKept
<1>6. ASSUME NEW e, BrokerRejects(e) \/ BrokerCancels(e) PROVE Goal
  <2>1. UNCHANGED fills /\ ReleaseRemaining(orders[e.order]) /\ e.order \in DOMAIN orders
    BY <1>6, FreshKnown DEF BrokerRejects, BrokerCancels
  <2>2. orders[e.order].req.account \in DOMAIN accounts
    BY <2>1 DEF TypeOK, OrdersTypeOK
  <2> QED
    BY <2>1, <2>2, StoredCashKept DEF ReleaseRemaining
<1>7. ASSUME NEW e, IgnoreEvent(e) PROVE Goal
  BY <1>7 DEF IgnoreEvent, CashKept
<1>8. CASE MarketTick \/ UNCHANGED vars
  BY <1>8 DEF MarketTick, vars, ledgerVars, CashKept
<1> QED
  BY <1>1, <1>2, <1>3, <1>5, <1>6, <1>7, <1>8 DEF Next, FillStep, StatusStep

LEMMA CashMoveStep ==
    ASSUME TypeOK, [Next]_vars
    PROVE  CashMove
<1>1. CASE UNCHANGED fills /\ CashKept
  BY <1>1 DEF CashMove, CashKept
<1>2. ASSUME NEW e \in FillEvent, CompleteFill(e) \/ PartialFill(e) \/ IocPartialFill(e)
      PROVE  CashMove
  <2> DEFINE new == [order |-> e.order, event |-> e.id, exec |-> e.exec,
                     quantity |-> e.quantity, price |-> e.price]
             b == orders[e.order].req.account
  <2>1. /\ new.order = e.order /\ new.event = e.id
        /\ new.quantity = e.quantity /\ new.price = e.price
    OBVIOUS
  <2>2. /\ fills' = fills \cup {new} /\ \A f \in fills : f.event # e.id
    BY <1>2, FillPays DEF ApplyFill
  <2>3. \A a \in DOMAIN accounts :
            accounts'[a].cash = IF a = b
                                THEN Stored(CashAfter(accounts[b], orders[e.order].req, e))
                                ELSE accounts[a].cash
    BY <1>2, FillPays
  <2>4. CashAfter(accounts[b], orders[e.order].req, e) = Wide(accounts[b].cash) + Notional(new)
    BY <2>1 DEF CashAfter, Payment, Notional
  <2> HIDE DEF new
  <2>5. fills' \ fills = {new}
    BY <2>1, <2>2
  <2> SUFFICES ASSUME NEW a \in DOMAIN accounts
               PROVE  LET booked == {f \in fills' \ fills : orders[f.order].req.account = a}
                      IN  \/ booked = {} /\ accounts'[a].cash = accounts[a].cash
                          \/ \E f \in booked :
                                 /\ booked = {f}
                                 /\ accounts'[a].cash = Stored(Wide(accounts[a].cash) + Notional(f))
    BY DEF CashMove
  <2>6. CASE a = b
    <3>1. {f \in fills' \ fills : orders[f.order].req.account = a} = {new}
      BY <2>1, <2>5, <2>6
    <3>2. accounts'[a].cash = Stored(Wide(accounts[a].cash) + Notional(new))
      BY <2>3, <2>4, <2>6
    <3> QED
      BY <3>1, <3>2
  <2>7. CASE a # b
    <3>1. {f \in fills' \ fills : orders[f.order].req.account = a} = {}
      BY <2>1, <2>5, <2>7
    <3> QED
      BY <2>3, <2>7, <3>1
  <2> QED
    BY <2>6, <2>7
<1> QED
  BY <1>1, <1>2, CashShape

(* Whatever the broker reports, cash moves only with a fill of the account,   *)
(* by that fill's notional as the column stores it.                           *)
THEOREM CashOnlyMovesWithFills == Spec => CashMovesWithFills
  BY TypeCorrect, CashMoveStep, PTL DEF Spec, CashMovesWithFills

-----------------------------------------------------------------------------
(* What accounts leave free and orders hold.                                  *)

LEMMA ProductPositive ==
    ASSUME NEW m \in Nat \ {0}, NEW n \in Nat \ {0}
    PROVE  m * n \in Nat \ {0}
<1>1. 1 * n <= m * n
  BY ProductMonotone
<1> QED
  BY <1>1, ProductNat

(* The money an account row leaves free, when nothing is rounded.             *)
LEMMA FreeCashValue ==
    ASSUME ExactCash, TypeOK
    PROVE  /\ DOMAIN FreeCash = DOMAIN accounts
           /\ \A a \in DOMAIN accounts :
                  /\ FreeCash[a] = accounts[a].cash - accounts[a].reserved
                  /\ FreeCash[a] \in Nat
<1>1. ASSUME NEW a \in DOMAIN accounts
      PROVE  /\ FreeCash[a] = accounts[a].cash - accounts[a].reserved
             /\ FreeCash[a] \in Nat
  <2>1. /\ accounts[a].cash \in Nat /\ accounts[a].reserved \in Nat
        /\ accounts[a].reserved <= accounts[a].cash
    BY DEF TypeOK, AccountsTypeOK, Account
  <2> QED
    BY <2>1 DEF FreeCash, AvailableCash, Wide, ExactCash
<1> QED
  BY <1>1 DEF FreeCash

(* What an order holds.                                                       *)
LEMMA HeldType ==
    ASSUME NEW row \in Order
    PROVE  /\ Held(row) \in Nat
           /\ row.req.side = "SELL" => Held(row) = 0
           /\ row.status \in TERMINAL_ORDER_STATUSES => Held(row) = 0
           /\ row.status \in OPEN_ORDER_STATUSES =>
                  Held(row) = Release(row.req, row.remaining)
<1>1. row.req \in Requests /\ row.remaining \in Nat
  BY DEF Order
<1>2. row.remaining * row.req.price \in Nat
  BY <1>1, RequestType, ProductNat
<1> QED
  BY <1>2 DEF Held, Release, TERMINAL_ORDER_STATUSES, OPEN_ORDER_STATUSES

LEMMA SavedAccountFree ==
    ASSUME ExactCash, TypeOK, NEW a \in DOMAIN accounts, NEW row \in Account, SaveAccount(a, row)
    PROVE  FreeCash' = [FreeCash EXCEPT ![a] = row.cash - row.reserved]
<1>1. DOMAIN accounts' = DOMAIN accounts
  BY DEF SaveAccount, TypeOK, AccountsTypeOK
<1>2. \A b \in DOMAIN accounts : accounts'[b] = IF b = a THEN row ELSE accounts[b]
  BY SavedAccount
<1>3. row.cash - row.reserved \in Int /\ Wide(row.cash - row.reserved) = row.cash - row.reserved
  BY DEF Wide, ExactCash, Account
<1>4. FreeCash' = [b \in DOMAIN accounts |->
                      IF b = a THEN Wide(row.cash - row.reserved)
                               ELSE Wide(accounts[b].cash - accounts[b].reserved)]
  BY <1>1, <1>2 DEF FreeCash, AvailableCash
<1> QED
  BY <1>3, <1>4 DEF FreeCash, AvailableCash

LEMMA SavedOrderHeld ==
    ASSUME TypeOK, NEW o \in DOMAIN orders, NEW new \in Order, new.req = orders[o].req,
           NEW audit, SaveOrder(o, new, audit)
    PROVE  HeldCash' = [HeldCash EXCEPT ![o].amount = Held(new)]
<1> DEFINE entry == [account |-> orders[o].req.account, amount |-> Held(new)]
<1>1. /\ DOMAIN orders' = DOMAIN orders
      /\ \A p \in DOMAIN orders : orders'[p] = IF p = o THEN new ELSE orders[p]
  BY SavedOrder
<1>2. [HeldCash[o] EXCEPT !.amount = Held(new)] = entry
  BY DEF HeldCash
<1>3. HeldCash' = [p \in DOMAIN orders |-> IF p = o THEN entry ELSE HeldCash[p]]
  BY <1>1 DEF HeldCash
<1> HIDE DEF entry
<1> QED
  BY <1>2, <1>3 DEF HeldCash

LEMMA HeldKept ==
    ASSUME TypeOK, NEW o \in DOMAIN orders, NEW new \in Order, new.req = orders[o].req,
           NEW audit, SaveOrder(o, new, audit), Held(new) = Held(orders[o])
    PROVE  HeldCash' = HeldCash
<1>1. /\ DOMAIN orders' = DOMAIN orders
      /\ \A p \in DOMAIN orders : orders'[p] = IF p = o THEN new ELSE orders[p]
  BY SavedOrder
<1>2. \A p \in DOMAIN orders :
          orders'[p].req.account = orders[p].req.account /\ Held(orders'[p]) = Held(orders[p])
  BY <1>1
<1> QED
  BY <1>1, <1>2 DEF HeldCash

-----------------------------------------------------------------------------
(* The ways a step moves escrowed money.                                      *)

LEMMA SettleMove ==
    ASSUME ExactCash, TypeOK, NEW o \in DOMAIN orders,
           NEW new \in Order, new.req = orders[o].req, NEW audit, SaveOrder(o, new, audit),
           NEW row \in Account, SaveAccount(orders[o].req.account, row),
           NEW used \in Nat, NEW paid \in Nat, paid > 0 => used > 0,
           Held(new) = Held(orders[o]) - used,
           row.cash = accounts[orders[o].req.account].cash - paid,
           row.reserved = accounts[orders[o].req.account].reserved - used
    PROVE  AbstractEscrow!Settle(o, used, paid)
<1> DEFINE a == orders[o].req.account
           free == FreeCash[a]
<1>1. a \in DOMAIN accounts /\ orders[o] \in Order /\ accounts[a] \in Account
  BY DEF TypeOK, OrdersTypeOK, AccountsTypeOK
<1>2. HeldCash[o].account = a /\ HeldCash[o].amount = Held(orders[o])
  BY DEF HeldCash
<1>3. Held(orders[o]) \in Nat /\ Held(new) \in Nat
  BY <1>1, HeldType
<1>4. /\ accounts[a].cash \in Nat /\ accounts[a].reserved \in Nat
      /\ row.cash \in Nat /\ row.reserved \in Nat /\ row.reserved <= row.cash
  BY <1>1 DEF Account, SaveAccount, AccountChecks
<1>5. free = accounts[a].cash - accounts[a].reserved
  BY <1>1, FreeCashValue
<1>6. row.cash - row.reserved = free + used - paid /\ paid <= free + used
  BY <1>4, <1>5
<1>7. FreeCash' = [FreeCash EXCEPT ![a] = free + used - paid]
  BY <1>1, <1>6, SavedAccountFree
<1>8. HeldCash' = [HeldCash EXCEPT ![o].amount = HeldCash[o].amount - used]
  BY <1>2, SavedOrderHeld
<1>9. used <= HeldCash[o].amount
  BY <1>2, <1>3
<1> QED
  BY <1>2, <1>6, <1>7, <1>8, <1>9 DEF AbstractEscrow!Settle

LEMMA CreditMove ==
    ASSUME ExactCash, TypeOK, NEW o \in DOMAIN orders,
           NEW new \in Order, new.req = orders[o].req, NEW audit, SaveOrder(o, new, audit),
           NEW row \in Account, SaveAccount(orders[o].req.account, row),
           NEW amount \in Nat, Held(new) = Held(orders[o]),
           row.cash = accounts[orders[o].req.account].cash + amount,
           row.reserved = accounts[orders[o].req.account].reserved
    PROVE  AbstractEscrow!Credit(orders[o].req.account, amount)
<1> DEFINE a == orders[o].req.account
           free == FreeCash[a]
<1>1. a \in DOMAIN accounts /\ accounts[a] \in Account
  BY DEF TypeOK, OrdersTypeOK, AccountsTypeOK
<1>2. free = accounts[a].cash - accounts[a].reserved
  BY <1>1, FreeCashValue
<1>3. row.cash - row.reserved = free + amount
  BY <1>1, <1>2 DEF Account
<1>4. FreeCash' = [FreeCash EXCEPT ![a] = free + amount]
  BY <1>1, <1>3, SavedAccountFree
<1>5. HeldCash' = HeldCash
  BY HeldKept
<1> QED
  BY <1>4, <1>5 DEF AbstractEscrow!Credit

LEMMA NoMove ==
    ASSUME TypeOK, NEW o \in DOMAIN orders,
           NEW new \in Order, new.req = orders[o].req, NEW audit, SaveOrder(o, new, audit),
           accounts' = accounts, Held(new) = Held(orders[o])
    PROVE  UNCHANGED <<FreeCash, HeldCash>>
<1>1. HeldCash' = HeldCash
  BY HeldKept
<1> QED
  BY <1>1 DEF FreeCash, AvailableCash

-----------------------------------------------------------------------------
(* The actions of the core that touch money.                                  *)

LEMMA OpenAccount ==
    ASSUME ExactCash, TypeOK, NEW a \in Accounts, NEW d \in Deposits, CreateAccount(a, d)
    PROVE  d \in Nat /\ AbstractEscrow!Open(a, d)
<1> DEFINE row == [cash |-> d, reserved |-> 0]
<1>1. d \in Nat /\ row.cash - row.reserved = d
  BY DepositsAssumption
<1>2. a \notin DOMAIN accounts /\ accounts' = Put(accounts, a, row) /\ orders' = orders
  BY DEF CreateAccount, orderVars
<1> HIDE DEF row
<1>3. FreeCash' = [b \in DOMAIN accounts \cup {a} |->
                      IF b = a THEN Wide(d) ELSE Wide(accounts[b].cash - accounts[b].reserved)]
  BY <1>1, <1>2 DEF FreeCash, AvailableCash, Put
<1>4. Wide(d) = d
  BY <1>1 DEF Wide, ExactCash
<1>5. FreeCash' = Put(FreeCash, a, d)
  BY <1>2, <1>3, <1>4 DEF FreeCash, AvailableCash, Put
<1>6. HeldCash' = HeldCash
  BY <1>2 DEF HeldCash
<1> QED
  BY <1>1, <1>2, <1>5, <1>6 DEF AbstractEscrow!Open, AbstractEscrow!Put, Put, FreeCash

(* A new order enters the table holding some amount.                          *)
LEMMA AddedOrderHeld ==
    ASSUME TypeOK, NEW o \in OrderIds, NEW req \in Requests, NEW status, NEW audit, NEW call,
           AddOrder(o, req, status, audit, call)
    PROVE  /\ o \notin DOMAIN HeldCash /\ req.account \in DOMAIN accounts
           /\ HeldCash' = Put(HeldCash, o, [account |-> req.account,
                                            amount |-> Held(NewOrder(req, status))])
<1> DEFINE row == NewOrder(req, status)
<1>1. /\ o \notin DOMAIN orders /\ req.account \in DOMAIN accounts
      /\ orders' = Put(orders, o, row) /\ row.req = req
  BY DEF AddOrder, NewOrder
<1> HIDE DEF row
<1>2. HeldCash' = Put(HeldCash, o, [account |-> req.account, amount |-> Held(row)])
  BY <1>1 DEF HeldCash, Put
<1> QED
  BY <1>1, <1>2 DEF row, HeldCash

LEMMA RejectNewHolds ==
    ASSUME ExactCash, TypeOK, NEW o \in OrderIds, NEW req \in Requests, RejectNewOrder(o, req)
    PROVE  AbstractEscrow!Hold(req.account, o, 0)
<1> DEFINE audit == <<Created, Transition("VALIDATION_FAILED", "NEW", "REJECTED")>>
<1>1. AddOrder(o, req, "REJECTED", audit, Finished) /\ accounts' = accounts
  BY DEF RejectNewOrder
<1>2. Held(NewOrder(req, "REJECTED")) = 0
  BY DEF Held, NewOrder, OPEN_ORDER_STATUSES
<1>3. /\ o \notin DOMAIN HeldCash /\ req.account \in DOMAIN accounts
      /\ HeldCash' = Put(HeldCash, o, [account |-> req.account, amount |-> 0])
  <2> HIDE DEF audit
  <2> QED
    BY <1>1, <1>2, AddedOrderHeld
<1>4. FreeCash' = FreeCash
  BY <1>1 DEF FreeCash, AvailableCash
<1>5. /\ req.account \in DOMAIN FreeCash /\ FreeCash[req.account] \in Nat
      /\ FreeCash = [FreeCash EXCEPT ![req.account] = FreeCash[req.account] - 0]
  BY <1>3, FreeCashValue DEF FreeCash
<1> QED
  BY <1>3, <1>4, <1>5 DEF AbstractEscrow!Hold, AbstractEscrow!Put, Put

(* With exact cash an account row is stored as it was computed.               *)
LEMMA ExactAccount ==
    ASSUME ExactCash, NEW a, NEW c \in Int, NEW r \in Int, SaveAccount(a, StoredAccount(c, r))
    PROVE  /\ StoredAccount(c, r) \in Account
           /\ StoredAccount(c, r).cash = c /\ StoredAccount(c, r).reserved = r
<1> DEFINE row == StoredAccount(c, r)
<1>1. row = [cash |-> c, reserved |-> r]
  BY StoredExact DEF StoredAccount, ExactCash
<1>2. 0 <= row.reserved /\ row.reserved <= row.cash
  BY DEF SaveAccount, AccountChecks
<1> QED
  BY <1>1, <1>2 DEF Account

(* The account a routed order is reserved on, and what the order holds.        *)
LEMMA RoutedAccount ==
    ASSUME ExactCash, TypeOK, NEW o \in OrderIds, NEW req \in Requests, RouteNewOrder(o, req),
           NEW row, row = StoredAccount(Wide(accounts[req.account].cash),
                                        Wide(accounts[req.account].reserved)
                                            + RequiredBuyingPower(req))
    PROVE  /\ req.account \in DOMAIN accounts
           /\ row \in Account /\ SaveAccount(req.account, row)
           /\ row.cash = accounts[req.account].cash
           /\ row.reserved = accounts[req.account].reserved + RequiredBuyingPower(req)
           /\ RequiredBuyingPower(req) \in Nat
           /\ Held(NewOrder(req, "ROUTED")) = RequiredBuyingPower(req)
<1> DEFINE a == req.account
           need == RequiredBuyingPower(req)
<1>1. a \in DOMAIN accounts /\ SaveAccount(a, row)
  BY DEF RouteNewOrder, AddOrder
<1>2. need \in Nat /\ Held(NewOrder(req, "ROUTED")) = need
  BY RequestType DEF Held, NewOrder, OPEN_ORDER_STATUSES, RequiredBuyingPower, Request
<1>3. accounts[a].cash \in Nat /\ accounts[a].reserved \in Nat
  BY <1>1 DEF TypeOK, AccountsTypeOK, Account
<1>4. row = StoredAccount(accounts[a].cash, accounts[a].reserved + need)
  BY <1>3 DEF Wide, ExactCash
<1> HIDE DEF need
<1>5. accounts[a].cash \in Int /\ accounts[a].reserved + need \in Int
  BY <1>2, <1>3
<1>6. row \in Account /\ row.cash = accounts[a].cash /\ row.reserved = accounts[a].reserved + need
  BY <1>1, <1>4, <1>5, ExactAccount
<1> QED
  BY <1>1, <1>2, <1>6 DEF need

LEMMA RouteNewHolds ==
    ASSUME ExactCash, TypeOK, NEW o \in OrderIds, NEW req \in Requests, RouteNewOrder(o, req)
    PROVE  AbstractEscrow!Hold(req.account, o, RequiredBuyingPower(req))
<1> DEFINE audit == <<Created, Transition("ORDER_VALIDATED", "NEW", "VALIDATED"),
                      Transition("ORDER_ROUTED", "VALIDATED", "ROUTED")>>
           call == [stage |-> "submitting", reservedBefore |-> accounts[req.account].reserved]
           a == req.account
           need == RequiredBuyingPower(req)
           row == StoredAccount(Wide(accounts[a].cash), Wide(accounts[a].reserved) + need)
<1>1. AddOrder(o, req, "ROUTED", audit, call) /\ HasBuyingPower(req)
  BY DEF RouteNewOrder
<1>2. /\ row \in Account /\ SaveAccount(a, row)
      /\ row.cash = accounts[a].cash /\ row.reserved = accounts[a].reserved + need
      /\ need \in Nat /\ Held(NewOrder(req, "ROUTED")) = need
  BY RoutedAccount
<1>3. /\ o \notin DOMAIN HeldCash /\ a \in DOMAIN accounts
      /\ HeldCash' = Put(HeldCash, o, [account |-> a, amount |-> need])
  <2> HIDE DEF audit, call, need, row
  <2> QED
    BY <1>1, <1>2, AddedOrderHeld
<1>4. /\ accounts[a].cash \in Nat /\ accounts[a].reserved \in Nat
      /\ FreeCash[a] = accounts[a].cash - accounts[a].reserved
  BY <1>3, FreeCashValue DEF TypeOK, AccountsTypeOK, Account
<1>5. need <= FreeCash[a]
  BY <1>1, <1>4 DEF HasBuyingPower, AvailableCash, Wide, ExactCash
<1> HIDE DEF row, need, audit, call
<1>6. FreeCash' = [FreeCash EXCEPT ![a] = row.cash - row.reserved]
  BY <1>2, <1>3, SavedAccountFree
<1>7. row.cash - row.reserved = FreeCash[a] - need
  BY <1>2, <1>4
<1> QED
  BY <1>3, <1>5, <1>6, <1>7 DEF AbstractEscrow!Hold, AbstractEscrow!Put, Put, FreeCash, need

LEMMA ExactAfter ==
    ASSUME ExactCash, NEW account \in Account, NEW req \in Requests, NEW e \in FillEvent,
           NEW quantity \in Nat
    PROVE  /\ Wide(account.cash) = account.cash /\ Wide(account.reserved) = account.reserved
           /\ CashAfter(account, req, e) = account.cash + Payment(req, e)
           /\ ReservedAfter(account, req, quantity) = account.reserved - Release(req, quantity)
<1>1. account.cash \in Nat /\ account.reserved \in Nat
  BY DEF Account
<1>2. Wide(account.cash) = account.cash /\ Wide(account.reserved) = account.reserved
  BY <1>1 DEF Wide, ExactCash
<1> QED
  BY <1>2 DEF CashAfter, ReservedAfter

(* The reservation of an order's account gives up what the order does.        *)
HoldingMoves(o) ==
    \E new \in Order, row \in Account, used \in Nat : \E audit :
        /\ SaveOrder(o, new, audit) /\ new.req = orders[o].req
        /\ SaveAccount(orders[o].req.account, row)
        /\ row.reserved = accounts[orders[o].req.account].reserved - used
        /\ Held(new) = Held(orders[o]) - used

(* A rejection or cancellation frees what the order held.                     *)
LEMMA ReleaseMoves ==
    ASSUME ExactCash, TypeOK, NEW o \in DOMAIN orders, ReleaseRemaining(orders[o]),
           orders[o].status \in EXECUTABLE_STATUSES,
           NEW new \in Order, new.req = orders[o].req, new.status \in TERMINAL_ORDER_STATUSES,
           NEW audit, SaveOrder(o, new, audit)
    PROVE  HoldingMoves(o) /\ \E used \in Nat : AbstractEscrow!Settle(o, used, 0)
<1> DEFINE row == orders[o]
           a == row.req.account
           used == Release(row.req, row.remaining)
           after == StoredAccount(Wide(accounts[a].cash), ReservedAfter(accounts[a], row.req, row.remaining))
<1>1. row \in Order /\ a \in DOMAIN accounts /\ accounts[a] \in Account
  BY DEF TypeOK, OrdersTypeOK, AccountsTypeOK
<1>2. row.req \in Requests /\ row.remaining \in Nat /\ used \in Nat
  BY <1>1, ReleaseType DEF Order
<1>3. SaveAccount(a, after)
  BY DEF ReleaseRemaining
<1>4. /\ accounts[a].cash \in Nat /\ accounts[a].reserved \in Nat
      /\ Wide(accounts[a].cash) = accounts[a].cash
      /\ ReservedAfter(accounts[a], row.req, row.remaining) = accounts[a].reserved - used
  BY <1>1, <1>2 DEF Account, Wide, ExactCash, ReservedAfter
<1>5. after \in Account /\ after.cash = accounts[a].cash - 0 /\ after.reserved = accounts[a].reserved - used
  <2> HIDE DEF used
  <2>1. /\ accounts[a].cash \in Int /\ accounts[a].reserved - used \in Int
        /\ after = StoredAccount(accounts[a].cash, accounts[a].reserved - used)
    BY <1>2, <1>4
  <2> HIDE DEF after
  <2>2. /\ after \in Account /\ after.cash = accounts[a].cash
        /\ after.reserved = accounts[a].reserved - used
    BY <1>3, <2>1, ExactAccount
  <2> QED
    BY <1>4, <2>2
<1>6. Held(new) = Held(row) - used
  <2>1. Held(row) = used
    BY <1>1, HeldType DEF EXECUTABLE_STATUSES, OPEN_ORDER_STATUSES
  <2>2. Held(new) = 0
    BY HeldType
  <2> HIDE DEF used
  <2> QED
    BY <1>2, <2>1, <2>2
<1> HIDE DEF used, after, a
<1>7. AbstractEscrow!Settle(o, used, 0)
  BY <1>1, <1>2, <1>3, <1>5, <1>6, SettleMove DEF a
<1>8. HoldingMoves(o)
  BY <1>2, <1>3, <1>5, <1>6 DEF HoldingMoves, a
<1> QED
  BY <1>2, <1>7, <1>8

(* A fill of a purchase pays out of what the order holds; a fill of a sale is *)
(* credited.  Whatever is released leaves the order with the rest.            *)
LEMMA FillMoves ==
    ASSUME ExactCash, TypeOK, NEW e \in FillEvent, e.order \in DOMAIN orders,
           NEW released \in Nat, e.quantity <= released, released <= orders[e.order].remaining,
           SaveAccount(orders[e.order].req.account,
               StoredAccount(CashAfter(accounts[orders[e.order].req.account], orders[e.order].req, e),
                             ReservedAfter(accounts[orders[e.order].req.account],
                                           orders[e.order].req, released))),
           NEW new \in Order, new.req = orders[e.order].req, NEW audit,
           SaveOrder(e.order, new, audit),
           Held(new) = Held(orders[e.order]) - Release(orders[e.order].req, released)
    PROVE  /\ HoldingMoves(e.order)
           /\ \/ \E used, paid \in Nat : AbstractEscrow!Settle(e.order, used, paid)
              \/ \E amount \in Nat : AbstractEscrow!Credit(orders[e.order].req.account, amount)
<1> DEFINE row == orders[e.order]
           req == row.req
           a == req.account
           cost == e.quantity * e.price
           used == Release(req, released)
           after == StoredAccount(CashAfter(accounts[a], req, e), ReservedAfter(accounts[a], req, released))
<1>1. row \in Order /\ a \in DOMAIN accounts /\ accounts[a] \in Account /\ req \in Requests
  BY DEF TypeOK, OrdersTypeOK, AccountsTypeOK, Order
<1>2. cost \in Nat /\ used \in Nat /\ Payment(req, e) \in Int
  BY <1>1, EventType, ReleaseType DEF Payment
<1>3. accounts[a].cash \in Nat /\ accounts[a].reserved \in Nat
  BY <1>1 DEF Account
<1>4. /\ CashAfter(accounts[a], req, e) = accounts[a].cash + Payment(req, e)
      /\ ReservedAfter(accounts[a], req, released) = accounts[a].reserved - used
  BY <1>1, ExactAfter
<1>5. /\ after \in Account
      /\ after.cash = accounts[a].cash + Payment(req, e)
      /\ after.reserved = accounts[a].reserved - used
  <2> HIDE DEF used
  <2>1. /\ accounts[a].cash + Payment(req, e) \in Int /\ accounts[a].reserved - used \in Int
        /\ after = StoredAccount(accounts[a].cash + Payment(req, e), accounts[a].reserved - used)
    BY <1>2, <1>3, <1>4
  <2> QED
    BY <2>1, ExactAccount
<1>6. HoldingMoves(e.order)
  <2> HIDE DEF used, after
  <2>1. SaveAccount(a, after) /\ Held(new) = Held(row) - used
    BY DEF after, used
  <2> QED
    BY <1>2, <1>5, <2>1 DEF HoldingMoves
<1>7. CASE req.side = "BUY"
  <2>1. after.cash = accounts[a].cash - cost
    BY <1>2, <1>3, <1>5, <1>7 DEF Payment
  <2>2. used > 0
    <3>1. released \in Nat \ {0} /\ req.price \in Nat \ {0}
      BY <1>1, EventType, RequestType
    <3>2. released * req.price \in Nat \ {0}
      BY <3>1, ProductPositive
    <3> QED
      BY <1>7, <3>2 DEF Release
  <2> HIDE DEF used, after, cost, a, req
  <2>3. AbstractEscrow!Settle(e.order, used, cost)
    BY <1>1, <1>2, <1>5, <2>1, <2>2, SettleMove DEF a, req, used, after
  <2> QED
    BY <1>2, <1>6, <2>3
<1>8. CASE req.side # "BUY"
  <2>1. after.cash = accounts[a].cash + cost /\ used = 0
    BY <1>5, <1>8 DEF Payment, Release
  <2>2. after.reserved = accounts[a].reserved /\ Held(new) = Held(row)
    <3>1. Held(row) \in Nat
      BY <1>1, HeldType
    <3>2. Held(new) = Held(row) - 0 /\ after.reserved = accounts[a].reserved - 0
      BY <1>5, <2>1
    <3> QED
      BY <1>3, <3>1, <3>2
  <2> HIDE DEF used, after, cost, a, req
  <2>3. AbstractEscrow!Credit(a, cost)
    BY <1>1, <1>2, <1>5, <2>1, <2>2, CreditMove DEF a, req, used, after
  <2> QED
    BY <1>2, <1>6, <2>3 DEF a, req
<1> QED
  BY <1>7, <1>8

LEMMA ReleaseSplit ==
    ASSUME NEW req \in Requests, NEW m \in Nat, NEW n \in Nat
    PROVE  Release(req, m - n) = Release(req, m) - Release(req, n)
<1>1. req.price \in Nat /\ m * req.price \in Nat /\ n * req.price \in Nat
  BY RequestType, ProductNat
<1>2. (m - n) * req.price = m * req.price - n * req.price
  BY <1>1
<1> QED
  BY <1>1, <1>2 DEF Release

LEMMA FillStepMoves ==
    ASSUME ExactCash, TypeOK, NEW e \in FillEvent,
           CompleteFill(e) \/ PartialFill(e) \/ IocPartialFill(e)
    PROVE  /\ e.order \in DOMAIN orders /\ HoldingMoves(e.order)
           /\ \/ \E used, paid \in Nat : AbstractEscrow!Settle(e.order, used, paid)
              \/ \E amount \in Nat : AbstractEscrow!Credit(orders[e.order].req.account, amount)
<1> DEFINE row == orders[e.order]
           req == row.req
           account == accounts[req.account]
           filled == FilledOrder(row, e)
<1>1. ApplyFill(e)
  BY DEF CompleteFill, PartialFill, IocPartialFill
<1>2. e.order \in DOMAIN orders /\ row \in Order /\ FillAccepted(row, e) /\ req \in Requests
  BY <1>1, FillContext
<1>3. /\ filled \in Order /\ filled.remaining = row.remaining - e.quantity
      /\ filled.req = req /\ filled.status = row.status
  BY <1>2, FilledOrderType
<1>4. /\ row.remaining \in Nat /\ e.quantity \in Nat \ {0} /\ e.quantity <= row.remaining
      /\ row.status \in EXECUTABLE_STATUSES
  BY <1>2, EventType DEF FillAccepted, Order
<1>5. Held(row) = Release(req, row.remaining) /\ Held(row) \in Nat
  BY <1>2, <1>4, HeldType DEF EXECUTABLE_STATUSES, OPEN_ORDER_STATUSES
<1> HIDE DEF filled
<1>6. CASE CompleteFill(e)
  <2> DEFINE new == [filled EXCEPT !.status = "FILLED"]
  <2>1. PICK audit : SaveOrder(e.order, new, audit)
    BY <1>6 DEF CompleteFill, filled
  <2>2. SaveAccount(req.account, StoredAccount(CashAfter(account, req, e),
                                               ReservedAfter(account, req, e.quantity)))
    BY <1>6 DEF CompleteFill, FillAccount, SettledAccount
  <2>3. new \in Order /\ new.req = req /\ new.status = "FILLED"
    BY <1>3 DEF Order, OrderStatus
  <2>4. e.quantity = row.remaining
    BY <1>6 DEF CompleteFill
  <2> HIDE DEF new
  <2>5. Held(new) = 0
    BY <2>3, HeldType DEF TERMINAL_ORDER_STATUSES
  <2>6. Held(new) = Held(row) - Release(req, e.quantity)
    BY <1>5, <2>4, <2>5
  <2> QED
    BY <1>2, <1>4, <2>1, <2>2, <2>3, <2>6, FillMoves
<1>7. CASE PartialFill(e)
  <2> DEFINE status == IF row.status = "ROUTED" THEN "PARTIALLY_FILLED" ELSE row.status
             new == [filled EXCEPT !.status = status]
  <2>1. PICK audit : SaveOrder(e.order, new, audit)
    BY <1>7 DEF PartialFill, filled
  <2>2. SaveAccount(req.account, StoredAccount(CashAfter(account, req, e),
                                               ReservedAfter(account, req, e.quantity)))
    BY <1>7 DEF PartialFill, FillAccount, SettledAccount
  <2>3. status \in OrderStatus /\ status \in OPEN_ORDER_STATUSES
    BY <1>4 DEF EXECUTABLE_STATUSES, OPEN_ORDER_STATUSES, OrderStatus
  <2> HIDE DEF status
  <2>4. new \in Order /\ new.req = req /\ new.status = status /\ new.remaining = filled.remaining
    BY <1>3, <2>3 DEF Order
  <2> HIDE DEF new
  <2>5. Held(new) = Release(req, row.remaining - e.quantity)
    BY <1>3, <2>3, <2>4, HeldType
  <2>6. Held(new) = Held(row) - Release(req, e.quantity)
    BY <1>2, <1>4, <1>5, <2>5, ReleaseSplit
  <2> QED
    BY <1>2, <1>4, <2>1, <2>2, <2>4, <2>6, FillMoves
<1>8. CASE IocPartialFill(e)
  <2> DEFINE new == CancelledOrder(filled)
  <2>1. PICK audit : SaveOrder(e.order, new, audit)
    BY <1>8 DEF IocPartialFill, filled
  <2>2. SaveAccount(req.account, StoredAccount(CashAfter(account, req, e),
                                               ReservedAfter(account, req, row.remaining)))
    BY <1>8 DEF IocPartialFill
  <2>3. new \in Order /\ new.req = req /\ new.status = "CANCELLED"
    BY <1>3, CancelledOrderType
  <2> HIDE DEF new
  <2>4. Held(new) = 0
    BY <2>3, HeldType DEF TERMINAL_ORDER_STATUSES
  <2>5. Held(new) = Held(row) - Release(req, row.remaining)
    BY <1>5, <2>4
  <2> QED
    BY <1>2, <1>4, <2>1, <2>2, <2>3, <2>5, FillMoves
<1> QED
  BY <1>2, <1>6, <1>7, <1>8

LEMMA StatusStepMoves ==
    ASSUME ExactCash, TypeOK, NEW e, BrokerRejects(e) \/ BrokerCancels(e)
    PROVE  /\ e.order \in DOMAIN orders /\ HoldingMoves(e.order)
           /\ \E used \in Nat : AbstractEscrow!Settle(e.order, used, 0)
<1> DEFINE row == orders[e.order]
<1>1. e.order \in DOMAIN orders /\ ReleaseRemaining(row)
  BY FreshKnown DEF BrokerRejects, BrokerCancels
<1>2. row \in Order
  BY <1>1 DEF TypeOK, OrdersTypeOK
<1>3. CASE BrokerRejects(e)
  <2> DEFINE new == [row EXCEPT !.status = "REJECTED"]
  <2>1. row.status \in EXECUTABLE_STATUSES /\ \E audit : SaveOrder(e.order, new, audit)
    BY <1>3 DEF BrokerRejects, EXECUTABLE_STATUSES
  <2>2. new \in Order /\ new.req = row.req /\ new.status \in TERMINAL_ORDER_STATUSES
    BY <1>2 DEF Order, OrderStatus, TERMINAL_ORDER_STATUSES
  <2> HIDE DEF new
  <2> QED
    BY <1>1, <2>1, <2>2, ReleaseMoves
<1>4. CASE BrokerCancels(e)
  <2> DEFINE new == CancelledOrder(row)
  <2>1. row.status \in EXECUTABLE_STATUSES /\ \E audit : SaveOrder(e.order, new, audit)
    BY <1>4 DEF BrokerCancels
  <2>2. new \in Order /\ new.req = row.req /\ new.status \in TERMINAL_ORDER_STATUSES
    BY <1>2, CancelledOrderType DEF TERMINAL_ORDER_STATUSES
  <2> HIDE DEF new
  <2> QED
    BY <1>1, <2>1, <2>2, ReleaseMoves
<1> QED
  BY <1>3, <1>4

(* Every step of the core is a step of the escrow, or leaves it alone.        *)
LEMMA EscrowStep ==
    ASSUME ExactCash, Amounts = Nat, TypeOK, NoCallFails, [Next]_vars
    PROVE  [AbstractEscrow!EscrowNext]_(AbstractEscrow!escrowVars)
<1> DEFINE Goal == AbstractEscrow!EscrowNext \/ UNCHANGED <<FreeCash, HeldCash>>
<1>1. ASSUME NEW a \in Accounts, NEW d \in Deposits, CreateAccount(a, d) PROVE Goal
  BY <1>1, OpenAccount DEF AbstractEscrow!EscrowNext
<1>2. ASSUME NEW o \in OrderIds, NEW req \in Requests,
             RejectNewOrder(o, req) \/ RouteNewOrder(o, req)
      PROVE  Goal
  <2>1. req.account \in Accounts /\ RequiredBuyingPower(req) \in Nat
    BY RequestType DEF Request
  <2> QED
    BY <1>2, <2>1, RejectNewHolds, RouteNewHolds DEF AbstractEscrow!EscrowNext
<1>3. ASSUME NEW o \in DOMAIN orders, OrderStep(o) PROVE Goal
  <2>1. ~MarkRoutingFailure(o)
    BY DEF MarkRoutingFailure, NoCallFails
  <2>2. CASE Submit(o) \/ NotifyCancel(o) \/ \E failure \in SubmitFailures : SubmitRaises(o, failure)
    BY <2>2 DEF Submit, NotifyCancel, SubmitRaises, ledgerVars, FreeCash, AvailableCash, HeldCash
  <2>3. CASE RequestCancellation(o)
    <3> DEFINE new == [orders[o] EXCEPT !.status = "CANCEL_PENDING"]
    <3>1. /\ orders[o].status \in CANCELLABLE_ORDER_STATUSES /\ accounts' = accounts
          /\ \E audit : SaveOrder(o, new, audit)
      BY <2>3 DEF RequestCancellation, ledgerVars
    <3>2. orders[o] \in Order
      BY DEF TypeOK, OrdersTypeOK
    <3>3. /\ new \in Order /\ new.req = orders[o].req /\ new.remaining = orders[o].remaining
          /\ new.status \in OPEN_ORDER_STATUSES /\ orders[o].status \in OPEN_ORDER_STATUSES
      BY <3>1, <3>2 DEF Order, OrderStatus, OPEN_ORDER_STATUSES, CANCELLABLE_ORDER_STATUSES
    <3> HIDE DEF new
    <3>4. Held(new) = Held(orders[o])
      BY <3>3 DEF Held
    <3> QED
      BY <3>1, <3>3, <3>4, NoMove
  <2> QED
    BY <1>3, <2>1, <2>2, <2>3 DEF OrderStep
<1>4. ASSUME NEW e \in FillEvent, CompleteFill(e) \/ PartialFill(e) \/ IocPartialFill(e)
      PROVE  Goal
  <2>1. /\ e.order \in DOMAIN orders
        /\ \/ \E used, paid \in Nat : AbstractEscrow!Settle(e.order, used, paid)
           \/ \E amount \in Nat : AbstractEscrow!Credit(orders[e.order].req.account, amount)
    BY <1>4, FillStepMoves
  <2>2. orders[e.order].req.account \in DOMAIN FreeCash /\ e.order \in DOMAIN HeldCash
    BY <2>1 DEF FreeCash, HeldCash, TypeOK, OrdersTypeOK
  <2> QED
    BY <2>1, <2>2 DEF AbstractEscrow!EscrowNext
<1>5. ASSUME NEW e, BrokerRejects(e) \/ BrokerCancels(e) PROVE Goal
  <2>1. e.order \in DOMAIN orders /\ \E used \in Nat : AbstractEscrow!Settle(e.order, used, 0)
    BY <1>5, StatusStepMoves
  <2>2. e.order \in DOMAIN HeldCash
    BY <2>1 DEF HeldCash
  <2> QED
    BY <2>1, <2>2 DEF AbstractEscrow!EscrowNext
<1>6. ASSUME NEW e, IgnoreEvent(e) PROVE Goal
  <2>1. /\ e.order \in DOMAIN orders /\ accounts' = accounts
        /\ \E audit : SaveOrder(e.order, orders[e.order], audit)
    BY <1>6, FreshKnown DEF IgnoreEvent
  <2>2. orders[e.order] \in Order
    BY <2>1 DEF TypeOK, OrdersTypeOK
  <2> QED
    BY <2>1, <2>2, NoMove
<1>7. ASSUME MarketTick \/ UNCHANGED vars PROVE Goal
  BY <1>7 DEF MarketTick, vars, orderVars, ledgerVars, FreeCash, AvailableCash, HeldCash
<1> HIDE DEF Goal
<1>8. Goal
  BY <1>1, <1>2, <1>3, <1>4, <1>5, <1>6, <1>7 DEF Next, FillStep, StatusStep
<1> QED
  BY <1>8 DEF Goal, AbstractEscrow!escrowVars

(* With exact cash and no submission failures the core implements the escrow: *)
(* no placement, fill, rejection or cancellation, in any interleaving, ever   *)
(* spends money an order of the account still holds or moves another order's. *)
THEOREM CoreImplementsEscrow ==
    ASSUME ExactCash, ReliableSubmission, Amounts = Nat
    PROVE  Spec => ImplementsEscrow
<1>1. Init => AbstractEscrow!EscrowInit
  BY DEF Init, NoRows, AbstractEscrow!EscrowInit, AbstractEscrow!NoRows, FreeCash, HeldCash
<1>2. OrdersInv /\ [Next]_vars => [AbstractEscrow!EscrowNext]_(AbstractEscrow!escrowVars)
  BY EscrowStep DEF OrdersInv
<1> QED
  BY <1>1, <1>2, OrdersInvInductive, PTL DEF Spec, ImplementsEscrow, AbstractEscrow!EscrowSpec

-----------------------------------------------------------------------------
(* Reservations, step by step.                                                *)

LEMMA HoldingMovesReserved ==
    ASSUME ExactCash, TypeOK, NEW o \in DOMAIN orders, HoldingMoves(o)
    PROVE  ReservationMove
<1>1. PICK new \in Order, row \in Account, used \in Nat :
          \E audit :
              /\ SaveOrder(o, new, audit) /\ new.req = orders[o].req
              /\ SaveAccount(orders[o].req.account, row)
              /\ row.reserved = accounts[orders[o].req.account].reserved - used
              /\ Held(new) = Held(orders[o]) - used
  BY DEF HoldingMoves
<1> DEFINE a == orders[o].req.account
<1>2. a \in DOMAIN accounts /\ accounts[a].reserved \in Nat
  BY DEF TypeOK, OrdersTypeOK, AccountsTypeOK, Account
<1>3. /\ DOMAIN orders' = DOMAIN orders
      /\ \A p \in DOMAIN orders : orders'[p] = IF p = o THEN new ELSE orders[p]
  BY <1>1, SavedOrder
<1>4. \A b \in DOMAIN accounts : accounts'[b] = IF b = a THEN row ELSE accounts[b]
  BY <1>1, <1>2, SavedAccount
<1>5. Held(orders[o]) \in Nat
  BY HeldType DEF TypeOK, OrdersTypeOK
<1>6. Wide(row.reserved - accounts[a].reserved) = Held(new) - Held(orders[o])
  <2>1. row.reserved - accounts[a].reserved = -used
    BY <1>1, <1>2
  <2>2. Held(new) - Held(orders[o]) = -used
    BY <1>1, <1>5
  <2> QED
    BY <2>1, <2>2 DEF Wide, ExactCash
<1> SUFFICES ASSUME NEW b \in DOMAIN accounts, accounts'[b].reserved # accounts[b].reserved
             PROVE  /\ orders'[o].req.account = b
                    /\ Wide(accounts'[b].reserved - accounts[b].reserved)
                           = HeldBy(o, orders') - HeldBy(o, orders)
                    /\ \A other \in DOMAIN orders \ {o} :
                           Held(orders'[other]) = Held(orders[other])
  BY <1>3 DEF ReservationMove
<1>7. b = a /\ accounts'[b] = row /\ orders'[o] = new
  BY <1>3, <1>4
<1> QED
  BY <1>1, <1>3, <1>6, <1>7 DEF HeldBy

LEMMA RoutedReserved ==
    ASSUME ExactCash, TypeOK, NEW o \in OrderIds, NEW req \in Requests, RouteNewOrder(o, req)
    PROVE  ReservationMove
<1> DEFINE a == req.account
           need == RequiredBuyingPower(req)
           row == StoredAccount(Wide(accounts[a].cash), Wide(accounts[a].reserved) + need)
           new == NewOrder(req, "ROUTED")
<1>1. /\ a \in DOMAIN accounts /\ row \in Account /\ SaveAccount(a, row)
      /\ row.reserved = accounts[a].reserved + need
      /\ need \in Nat /\ Held(new) = need
  BY RoutedAccount
<1>2. o \notin DOMAIN orders /\ orders' = Put(orders, o, new) /\ new.req = req
  BY DEF RouteNewOrder, AddOrder, NewOrder
<1> HIDE DEF row, new, need
<1>3. \A b \in DOMAIN accounts : accounts'[b] = IF b = a THEN row ELSE accounts[b]
  BY <1>1, SavedAccount
<1>4. accounts[a].reserved \in Nat
  BY <1>1 DEF TypeOK, AccountsTypeOK, Account
<1>5. /\ o \in DOMAIN orders' /\ orders'[o] = new
      /\ \A p \in DOMAIN orders : orders'[p] = orders[p]
  BY <1>2 DEF Put
<1>6. Wide(row.reserved - accounts[a].reserved) = HeldBy(o, orders') - HeldBy(o, orders)
  <2>1. row.reserved - accounts[a].reserved = need
    BY <1>1, <1>4
  <2>2. HeldBy(o, orders') = need /\ HeldBy(o, orders) = 0
    BY <1>1, <1>2, <1>5 DEF HeldBy
  <2> QED
    BY <1>1, <2>1, <2>2 DEF Wide, ExactCash
<1> SUFFICES ASSUME NEW b \in DOMAIN accounts, accounts'[b].reserved # accounts[b].reserved
             PROVE  /\ orders'[o].req.account = b
                    /\ Wide(accounts'[b].reserved - accounts[b].reserved)
                           = HeldBy(o, orders') - HeldBy(o, orders)
                    /\ \A other \in DOMAIN orders \ {o} :
                           Held(orders'[other]) = Held(orders[other])
  BY <1>5 DEF ReservationMove
<1>7. b = a /\ accounts'[b] = row
  BY <1>3
<1> QED
  BY <1>2, <1>5, <1>6, <1>7

LEMMA ReservationStep ==
    ASSUME ExactCash, TypeOK, NoCallFails, [Next]_vars
    PROVE  ReservationMove
<1> DEFINE Kept == \A a \in DOMAIN accounts : accounts'[a].reserved = accounts[a].reserved
<1>1. ASSUME NEW a \in Accounts, NEW d \in Deposits, CreateAccount(a, d) PROVE Kept
  BY <1>1 DEF CreateAccount, Put
<1>2. ASSUME NEW o \in OrderIds, NEW req \in Requests, RejectNewOrder(o, req) PROVE Kept
  BY <1>2 DEF RejectNewOrder
<1>3. ASSUME NEW o \in OrderIds, NEW req \in Requests, RouteNewOrder(o, req)
      PROVE  ReservationMove
  BY <1>3, RoutedReserved
<1>4. ASSUME NEW o \in DOMAIN orders, OrderStep(o) PROVE Kept
  BY <1>4 DEF OrderStep, MarkRoutingFailure, NoCallFails, Submit, SubmitRaises,
              RequestCancellation, NotifyCancel, ledgerVars
<1>5. ASSUME NEW e \in FillEvent, CompleteFill(e) \/ PartialFill(e) \/ IocPartialFill(e)
      PROVE  ReservationMove
  BY <1>5, FillStepMoves, HoldingMovesReserved
<1>6. ASSUME NEW e, BrokerRejects(e) \/ BrokerCancels(e) PROVE ReservationMove
  BY <1>6, StatusStepMoves, HoldingMovesReserved
<1>7. ASSUME NEW e, IgnoreEvent(e) PROVE Kept
  BY <1>7 DEF IgnoreEvent
<1>8. CASE MarketTick \/ UNCHANGED vars
  <2>1. Kept
    BY <1>8 DEF MarketTick, vars, ledgerVars
  <2> QED
    BY <2>1 DEF ReservationMove
<1>9. Kept => ReservationMove
  BY DEF ReservationMove
<1> HIDE DEF Kept
<1> QED
  BY <1>1, <1>2, <1>3, <1>4, <1>5, <1>6, <1>7, <1>8, <1>9 DEF Next, FillStep, StatusStep

(* Under the same conditions as the refinement, reserved_cash of an account   *)
(* moves only together with what one of its orders holds, and by the same     *)
(* amount: the releases of fills, rejections and cancellations never touch    *)
(* another order's share, whatever order they come in.                        *)
THEOREM ReservationsFollowOrders ==
    ASSUME ExactCash, ReliableSubmission
    PROVE  Spec => ReservationFollowsOrders
<1>1. OrdersInv /\ [Next]_vars => ReservationMove
  BY ReservationStep DEF OrdersInv
<1> QED
  BY <1>1, OrdersInvInductive, PTL DEF Spec, ReservationFollowsOrders
=============================================================================
