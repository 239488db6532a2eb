---------------------------- MODULE LockTheorems ----------------------------
(* The statement-level model for every set of calls: what the row locks       *)
(* protect while statements of other calls run in between.                    *)
EXTENDS RowLocks, OrderTheorems, SequenceTheorems

-----------------------------------------------------------------------------
(* The rows of a call's statements.                                           *)
AccountOf(req) == <<"account", req.account>>
RequestOf(req) == <<"request", req>>
ClientOf(req) == <<"client", req>>
OrderOf(o) == <<"order", o>>
DeliveryOf(e) == <<"processed", e.id>>
PositionKey(req) == <<req.account, req.symbol>>
PositionOf(req) == <<"position", PositionKey(req)>>
PriceOf(symbol) == <<"price", symbol>>
KeysOf(symbol) == <<"keys", symbol>>

(* What a call that has locked a row knows: the row as it is in the table.    *)
HoldsAccount(c, req) ==
    /\ AccountOf(req) \in held[c]
    /\ req.account \in DOMAIN accounts
    /\ seen[c][AccountOf(req)] = accounts[req.account]

HoldsOrder(c, o) ==
    /\ OrderOf(o) \in held[c]
    /\ o \in DOMAIN orders
    /\ seen[c][OrderOf(o)] = orders[o]

(* A position that does not exist is protected by the lock of its account.    *)
HoldsPosition(c, req) ==
    /\ PositionKey(req) \in DOMAIN positions => PositionOf(req) \in held[c]
    /\ seen[c][PositionOf(req)] = Rows(positions, PositionKey(req))

(* The rows each kind of call has read: a beginning of its statements, and    *)
(* what it read from the rows that nobody else can change.                    *)
CreateReads(c) ==
    LET req  == Asks[c].req
        rows == DOMAIN seen[c]
    IN  /\ rows \subseteq {AccountOf(req), RequestOf(req), ClientOf(req)}
        /\ rows # {} => HoldsAccount(c, req) /\ AccountOf(req) \in rows
        /\ RequestOf(req) \in rows /\ ~seen[c][RequestOf(req)] => NewKey(req)
        /\ ClientOf(req) \in rows /\ ~seen[c][ClientOf(req)] => NewClient(req)

CancelReads(c) ==
    LET o    == Asks[c].order
        rows == DOMAIN seen[c]
    IN  rows \subseteq {OrderOf(o)} /\ (rows # {} => HoldsOrder(c, o))

FailureReads(c) ==
    LET o    == Asks[c].order
        req  == orders[o].req
        rows == DOMAIN seen[c]
    IN  /\ rows \subseteq {OrderOf(o), AccountOf(req)}
        /\ rows # {} => HoldsOrder(c, o) /\ OrderOf(o) \in rows
        /\ AccountOf(req) \in rows => HoldsAccount(c, req)

EventReads(c) ==
    LET e    == Asks[c].event
        req  == orders[e.order].req
        rows == DOMAIN seen[c]
    IN  /\ rows \subseteq {OrderOf(e.order), DeliveryOf(e), AccountOf(req), PositionOf(req),
                           PriceOf(req.symbol)}
        /\ rows # {} => HoldsOrder(c, e.order) /\ OrderOf(e.order) \in rows
        /\ DeliveryOf(e) \in rows /\ ~seen[c][DeliveryOf(e)] => e.id \notin DOMAIN processed
        /\ AccountOf(req) \in rows => HoldsAccount(c, req) /\ DeliveryOf(e) \in rows
        /\ PositionOf(req) \in rows => HoldsPosition(c, req) /\ AccountOf(req) \in rows
        /\ PriceOf(req.symbol) \in rows => PositionOf(req) \in rows

TickReads(c) ==
    LET symbol == Asks[c].symbol
        rows   == DOMAIN seen[c]
    IN  /\ rows # {} => PriceOf(symbol) \in rows
        /\ PriceOf(symbol) \in rows => seen[c][PriceOf(symbol)] = Rows(marketPrices, symbol)
        /\ KeysOf(symbol) \in rows =>
               seen[c][KeysOf(symbol)] \subseteq {k \in DOMAIN positions : k[2] = symbol}
        /\ \A row \in rows \ {PriceOf(symbol), KeysOf(symbol)} :
               \E k \in DOMAIN positions :
                   /\ row = <<"position", k>> /\ row \in held[c]
                   /\ KeysOf(symbol) \in rows /\ k \in seen[c][KeysOf(symbol)]
                   /\ seen[c][row] = {positions[k]}

CallReads(c) ==
    /\ Asks[c].kind = "create" => CreateReads(c)
    /\ Asks[c].kind = "cancel" => CancelReads(c)
    /\ Asks[c].kind = "event" => EventReads(c)
    /\ Asks[c].kind = "tick" => TickReads(c)
    /\ Asks[c].kind = "failure" => FailureReads(c)
    /\ DOMAIN seen[c] # {} => c \notin ended /\ After[c] \subseteq ended

(* Calls hold different rows, and what they have read under a lock stays.     *)
LocksInv ==
    /\ DOMAIN seen = Calls /\ DOMAIN held = Calls
    /\ DOMAIN accounts = Accounts
    /\ orders \in [DOMAIN orders -> Order]
    /\ atBroker \subseteq DOMAIN orders
    /\ \A c, d \in Calls : c # d => held[c] \cap held[d] = {}
    /\ \A c \in Calls : CallReads(c)

-----------------------------------------------------------------------------
(* What a call does next.                                                     *)

(* The only row of its table that a call has read.                            *)
LEMMA GotIs ==
    ASSUME NEW c, NEW t, NEW row \in DOMAIN seen[c], row[1] = t,
           \A r \in DOMAIN seen[c] : r[1] = t => r = row
    PROVE  Has(c, t) /\ Got(c, t) = seen[c][row]
  BY DEF Has, Got

LEMMA LeastOf ==
    ASSUME NEW S \in SUBSET Nat, S # {}
    PROVE  \E i \in S : \A j \in S : i <= j
<1>1. \E i \in S : \A j \in S : ~(<<j, i>> \in OpToRel(<, Nat))
  BY NatLessThanWellFounded, WFMin, Zenon
<1>2. PICK i \in S : \A j \in S : ~(<<j, i>> \in OpToRel(<, Nat))
  BY <1>1, Zenon
<1>3. \A j \in S : ~(j < i)
  BY <1>2, Zenon DEF OpToRel
<1> QED
  BY <1>3

LEMMA NextStatement ==
    ASSUME NEW c \in Calls, NEW n \in Nat, DOMAIN Statements(c) = 1 .. n
    PROVE  LET run == Statements(c)
           IN  /\ \A row \in Pending(c) :
                     \/ \E i \in 1 .. n :
                            /\ row = run[i] /\ row \notin DOMAIN seen[c]
                            /\ \A j \in 1 .. n : j < i => run[j] \in DOMAIN seen[c]
                     \/ /\ \A i \in 1 .. n : run[i] \in DOMAIN seen[c]
                        /\ Asks[c].kind = "tick" /\ row \notin DOMAIN seen[c]
                        /\ \E k \in Got(c, "keys") : row = <<"position", k>>
               /\ Pending(c) = {} =>
                     /\ \A i \in 1 .. n : run[i] \in DOMAIN seen[c]
                     /\ Asks[c].kind = "tick" /\ TickApplies(c) =>
                            \A k \in Got(c, "keys") : <<"position", k>> \in DOMAIN seen[c]
<1> DEFINE run == Statements(c)
           left == {i \in 1 .. n : run[i] \notin DOMAIN seen[c]}
           rest == {<<"position", k>> : k \in Got(c, "keys")} \ DOMAIN seen[c]
<1>1. Pending(c) = IF left # {} THEN {run[i] : i \in {j \in left : \A k \in left : j <= k}}
                   ELSE IF Asks[c].kind = "tick" /\ TickApplies(c) THEN rest ELSE {}
  BY DEF Pending
<1>2. CASE left # {}
  <2>1. PICK i \in left : \A j \in left : i <= j
    <3>1. left \in SUBSET Nat
      OBVIOUS
    <3> HIDE DEF left
    <3> QED
      BY <1>2, <3>1, LeastOf
  <2>2. Pending(c) # {}
    BY <1>1, <1>2, <2>1
  <2>3. ASSUME NEW row \in Pending(c)
        PROVE  \E m \in 1 .. n : /\ row = run[m] /\ row \notin DOMAIN seen[c]
                                 /\ \A j \in 1 .. n : j < m => run[j] \in DOMAIN seen[c]
    <3>1. PICK m \in left : row = run[m] /\ \A k \in left : m <= k
      BY <1>1, <1>2
    <3>2. ASSUME NEW j \in 1 .. n, j < m PROVE run[j] \in DOMAIN seen[c]
      BY <3>1, <3>2
    <3> QED
      BY <3>1, <3>2
  <2> QED
    BY <2>2, <2>3
<1>3. CASE left = {}
  BY <1>1, <1>3
<1> QED
  BY <1>2, <1>3

(* One sequence of statements after another.                                  *)
LEMMA TwoAndOne ==
    ASSUME NEW a, NEW b, NEW c
    PROVE  <<a, b>> \o <<c>> = <<a, b, c>>
<1> DEFINE S == {a, b, c}
           s == <<a, b>>
           t == <<c>>
<1>1. s \in Seq(S) /\ t \in Seq(S) /\ Len(s) = 2 /\ Len(t) = 1
  OBVIOUS
<1>2. /\ s \o t \in Seq(S) /\ Len(s \o t) = 3
      /\ \A i \in 1 .. 3 : (s \o t)[i] = IF i <= 2 THEN s[i] ELSE t[i - 2]
  <2> HIDE DEF S, s, t
  <2>1. /\ s \o t \in Seq(S) /\ Len(s \o t) = Len(s) + Len(t)
        /\ \A i \in 1 .. Len(s) + Len(t) :
               (s \o t)[i] = IF i <= Len(s) THEN s[i] ELSE t[i - Len(s)]
    BY <1>1, ConcatProperties, Zenon
  <2> QED
    BY <1>1, <2>1
<1>3. \A i \in 1 .. 3 : (s \o t)[i] = <<a, b, c>>[i]
  BY <1>2
<1>4. <<a, b, c>> \in Seq(S) /\ Len(<<a, b, c>>) = 3
  OBVIOUS
<1> HIDE DEF S, s, t
<1>5. s \o t = <<a, b, c>>
  BY <1>2, <1>3, <1>4, SeqEqual
<1> QED
  BY <1>5 DEF s, t

LEMMA TwoAndThree ==
    ASSUME NEW a, NEW b, NEW c, NEW d, NEW e
    PROVE  <<a, b>> \o <<c, d, e>> = <<a, b, c, d, e>>
<1> DEFINE S == {a, b, c, d, e}
           s == <<a, b>>
           t == <<c, d, e>>
<1>1. s \in Seq(S) /\ t \in Seq(S) /\ Len(s) = 2 /\ Len(t) = 3
  OBVIOUS
<1>2. /\ s \o t \in Seq(S) /\ Len(s \o t) = 5
      /\ \A i \in 1 .. 5 : (s \o t)[i] = IF i <= 2 THEN s[i] ELSE t[i - 2]
  <2> HIDE DEF S, s, t
  <2>1. /\ s \o t \in Seq(S) /\ Len(s \o t) = Len(s) + Len(t)
        /\ \A i \in 1 .. Len(s) + Len(t) :
               (s \o t)[i] = IF i <= Len(s) THEN s[i] ELSE t[i - Len(s)]
    BY <1>1, ConcatProperties, Zenon
  <2> QED
    BY <1>1, <2>1
<1>3. \A i \in 1 .. 5 : (s \o t)[i] = <<a, b, c, d, e>>[i]
  BY <1>2
<1>4. <<a, b, c, d, e>> \in Seq(S) /\ Len(<<a, b, c, d, e>>) = 5
  OBVIOUS
<1> HIDE DEF S, s, t
<1>5. s \o t = <<a, b, c, d, e>>
  BY <1>2, <1>3, <1>4, SeqEqual
<1> QED
  BY <1>5 DEF s, t

(* The statements of an event, by what the first two have found.              *)
Settles(c) ==
    /\ Has(c, "processed") /\ ~Got(c, "processed")
    /\ ~NotAdmitted(Got(c, "order"), Asks[c].event)

LEMMA EventRuns ==
    ASSUME NEW c \in Calls, Asks[c].kind = "event",
           NEW e, e = Asks[c].event, NEW req, req = Got(c, "order").req
    PROVE  /\ ~Settles(c) => Statements(c) = <<OrderOf(e.order), DeliveryOf(e)>>
           /\ Settles(c) /\ ~IsFill(e) =>
                  Statements(c) = <<OrderOf(e.order), DeliveryOf(e), AccountOf(req)>>
           /\ Settles(c) /\ IsFill(e) =>
                  Statements(c) = <<OrderOf(e.order), DeliveryOf(e), AccountOf(req),
                                    PositionOf(req), PriceOf(req.symbol)>>
<1> DEFINE first == <<OrderOf(e.order), DeliveryOf(e)>>
           one == <<AccountOf(req)>>
           three == <<AccountOf(req), PositionOf(req), PriceOf(req.symbol)>>
<1>1. Statements(c) = EventStatements(c, e)
  BY DEF Statements
<1>2. EventStatements(c, e) = first \o (IF Settles(c) THEN Settlement(Got(c, "order"), e)
                                                      ELSE <<>>)
  BY DEF EventStatements, Settles, OrderOf, DeliveryOf
<1>3. Settlement(Got(c, "order"), e) = IF IsFill(e) THEN three ELSE one
  BY DEF Settlement, AccountOf, PositionOf, PositionKey, PriceOf
<1>4. first \o <<>> = first
  OBVIOUS
<1>5. first \o one = <<OrderOf(e.order), DeliveryOf(e), AccountOf(req)>>
  BY TwoAndOne
<1>6. first \o three = <<OrderOf(e.order), DeliveryOf(e), AccountOf(req),
                         PositionOf(req), PriceOf(req.symbol)>>
  BY TwoAndThree
<1> HIDE DEF first, one, three
<1> QED
  BY <1>1, <1>2, <1>3, <1>4, <1>5, <1>6 DEF first

-----------------------------------------------------------------------------
(* A statement keeps the invariant: it reads a row as it is and locks it      *)
(* before another call can change it.                                         *)
Runs(c, row) ==
    /\ row \in Pending(c)
    /\ c \notin ended /\ Made(c)
    /\ held' = [held EXCEPT ![c] = @ \cup Locks(row[1], row[2])]
    /\ seen' = [seen EXCEPT ![c] = Put(@, row, Read(row[1], row[2]))]
    /\ UNCHANGED <<vars, ended>>

LEMMA RunEffect ==
    ASSUME LocksInv, NEW c \in Calls, NEW row, Runs(c, row)
    PROVE  /\ DOMAIN seen'[c] = DOMAIN seen[c] \cup {row}
           /\ seen'[c][row] = Read(row[1], row[2])
           /\ \A r \in DOMAIN seen[c] \ {row} : seen'[c][r] = seen[c][r]
           /\ held'[c] = held[c] \cup Locks(row[1], row[2])
           /\ \A d \in Calls \ {c} : seen'[d] = seen[d] /\ held'[d] = held[d]
           /\ DOMAIN seen' = Calls /\ DOMAIN held' = Calls
           /\ c \notin ended' /\ After[c] \subseteq ended'
  BY DEF Runs, LocksInv, Put, Made

(* The statements of create_order, by whether it has found the key.           *)
Searches(c) == Has(c, "request") /\ ~Got(c, "request")

LEMMA CreateRuns ==
    ASSUME NEW c \in Calls, Asks[c].kind = "create", NEW req, req = Asks[c].req
    PROVE  /\ ~Searches(c) => Statements(c) = <<AccountOf(req), RequestOf(req)>>
           /\ Searches(c) => Statements(c) = <<AccountOf(req), RequestOf(req), ClientOf(req)>>
<1> DEFINE first == <<AccountOf(req), RequestOf(req)>>
           one == <<ClientOf(req)>>
<1>1. Statements(c) = CreateStatements(c, req)
  BY DEF Statements
<1>2. CreateStatements(c, req) = first \o (IF Searches(c) THEN one ELSE <<>>)
  BY DEF CreateStatements, Searches, AccountOf, RequestOf, ClientOf
<1>3. first \o <<>> = first
  OBVIOUS
<1>4. first \o one = <<AccountOf(req), RequestOf(req), ClientOf(req)>>
  BY TwoAndOne
<1> HIDE DEF first, one
<1> QED
  BY <1>1, <1>2, <1>3, <1>4 DEF first

LEMMA CreateNext ==
    ASSUME LocksInv, NEW c \in Calls, NEW row, Runs(c, row), Asks[c].kind = "create",
           NEW req, req = Asks[c].req
    PROVE  LET rows == DOMAIN seen[c]
           IN  /\ row \notin rows
               /\ \/ row = AccountOf(req)
                  \/ row = RequestOf(req) /\ AccountOf(req) \in rows
                  \/ row = ClientOf(req) /\ AccountOf(req) \in rows
<1> DEFINE rows == DOMAIN seen[c]
           run == Statements(c)
<1>1. ASSUME NEW n \in Nat, DOMAIN run = 1 .. n
      PROVE  \E i \in 1 .. n : /\ row = run[i] /\ row \notin rows
                               /\ \A j \in 1 .. n : j < i => run[j] \in rows
  BY <1>1, NextStatement DEF Runs
<1>2. CASE run = <<AccountOf(req), RequestOf(req)>>
  <2>1. DOMAIN run = 1 .. 2
    BY <1>2
  <2>2. PICK i \in 1 .. 2 : /\ row = run[i] /\ row \notin rows
                            /\ \A j \in 1 .. 2 : j < i => run[j] \in rows
    BY <1>1, <2>1
  <2> QED
    BY <1>2, <2>2
<1>3. CASE run = <<AccountOf(req), RequestOf(req), ClientOf(req)>>
  <2>1. DOMAIN run = 1 .. 3
    BY <1>3
  <2>2. PICK i \in 1 .. 3 : /\ row = run[i] /\ row \notin rows
                            /\ \A j \in 1 .. 3 : j < i => run[j] \in rows
    BY <1>1, <2>1
  <2> QED
    BY <1>3, <2>2
<1> HIDE DEF run
<1>4. \/ run = <<AccountOf(req), RequestOf(req)>>
      \/ run = <<AccountOf(req), RequestOf(req), ClientOf(req)>>
  <2>1. CASE Searches(c)
    BY <2>1, CreateRuns DEF run
  <2>2. CASE ~Searches(c)
    BY <2>2, CreateRuns DEF run
  <2> QED
    BY <2>1, <2>2
<1> QED
  BY <1>2, <1>3, <1>4

LEMMA CreateReadsNext ==
    ASSUME LocksInv, NEW c \in Calls, NEW row, Runs(c, row), Asks[c].kind = "create"
    PROVE  CreateReads(c)'
<1> DEFINE req == Asks[c].req
           rows == DOMAIN seen[c]
<1>1. CreateReads(c) /\ req \in Requests
  BY CallsAssumption DEF LocksInv, CallReads
<1>2. req.account \in DOMAIN accounts
  BY <1>1, RequestType DEF LocksInv, Request
<1>3. /\ row \notin rows
      /\ \/ row = AccountOf(req)
         \/ row = RequestOf(req) /\ AccountOf(req) \in rows
         \/ row = ClientOf(req) /\ AccountOf(req) \in rows
  BY CreateNext
<1>4. UNCHANGED <<accounts, orders>>
  BY DEF Runs, vars, orderVars, ledgerVars
<1>5. /\ DOMAIN seen'[c] = rows \cup {row}
      /\ \A r \in rows : seen'[c][r] = seen[c][r]
      /\ seen'[c][row] = Read(row[1], row[2])
      /\ held'[c] = held[c] \cup Locks(row[1], row[2])
  BY <1>3, RunEffect
<1>6. HoldsAccount(c, req)' /\ AccountOf(req) \in rows'
  <2>1. CASE row = AccountOf(req)
    <3>1. Read(row[1], row[2]) = accounts[req.account] /\ row \in Locks(row[1], row[2])
      BY <2>1 DEF Read, Locks, AccountOf
    <3> QED
      BY <1>2, <1>4, <1>5, <2>1, <3>1 DEF HoldsAccount
  <2>2. CASE AccountOf(req) \in rows
    <3>1. HoldsAccount(c, req)
      BY <1>1, <2>2 DEF CreateReads
    <3> QED
      BY <1>4, <1>5, <2>2, <3>1 DEF HoldsAccount
  <2> QED
    BY <1>3, <2>1, <2>2
<1>7. NewKey(req)' = NewKey(req) /\ NewClient(req)' = NewClient(req)
  BY <1>4 DEF NewKey, NewClient
<1>8. ASSUME RequestOf(req) \in rows', ~seen'[c][RequestOf(req)] PROVE NewKey(req)'
  <2>1. CASE row = RequestOf(req)
    <3>1. Read(row[1], row[2]) = ~NewKey(req)
      BY <2>1 DEF Read, RequestOf
    <3> QED
      BY <1>5, <1>7, <1>8, <2>1, <3>1, Zenon
  <2>2. CASE row # RequestOf(req)
    <3>1. RequestOf(req) \in rows /\ seen'[c][RequestOf(req)] = seen[c][RequestOf(req)]
      BY <1>5, <1>8, <2>2
    <3> QED
      BY <1>1, <1>7, <1>8, <3>1, Zenon DEF CreateReads
  <2> QED
    BY <2>1, <2>2
<1>9. ASSUME ClientOf(req) \in rows', ~seen'[c][ClientOf(req)] PROVE NewClient(req)'
  <2>1. CASE row = ClientOf(req)
    <3>1. Read(row[1], row[2]) = ~NewClient(req)
      BY <2>1 DEF Read, ClientOf
    <3> QED
      BY <1>5, <1>7, <1>9, <2>1, <3>1, Zenon
  <2>2. CASE row # ClientOf(req)
    <3>1. ClientOf(req) \in rows /\ seen'[c][ClientOf(req)] = seen[c][ClientOf(req)]
      BY <1>5, <1>9, <2>2
    <3> QED
      BY <1>1, <1>7, <1>9, <3>1, Zenon DEF CreateReads
  <2> QED
    BY <2>1, <2>2
<1>10. rows' \subseteq {AccountOf(req), RequestOf(req), ClientOf(req)}
  BY <1>1, <1>3, <1>5 DEF CreateReads
<1>11. /\ RequestOf(req) \in rows' /\ ~seen'[c][RequestOf(req)] => NewKey(req)'
       /\ ClientOf(req) \in rows' /\ ~seen'[c][ClientOf(req)] => NewClient(req)'
  BY <1>8, <1>9, Zenon
<1> QED
  BY <1>6, <1>10, <1>11, Zenon DEF CreateReads

LEMMA CancelReadsNext ==
    ASSUME LocksInv, NEW c \in Calls, NEW row, Runs(c, row), Asks[c].kind = "cancel"
    PROVE  CancelReads(c)'
<1> DEFINE o == Asks[c].order
           rows == DOMAIN seen[c]
<1>1. CancelReads(c) /\ o \in DOMAIN orders
  BY DEF LocksInv, CallReads, Runs, Made
<1>2. Statements(c) = <<OrderOf(o)>>
  BY DEF Statements, CancelStatements, OrderOf
<1>3. row = OrderOf(o) /\ row \notin rows
  <2>1. DOMAIN Statements(c) = 1 .. 1 /\ row \in Pending(c)
    BY <1>2 DEF Runs
  <2>2. PICK i \in 1 .. 1 : row = Statements(c)[i] /\ row \notin rows
    BY <2>1, NextStatement
  <2> QED
    BY <1>2, <2>2
<1>4. Read(row[1], row[2]) = orders[o] /\ OrderOf(o) \in Locks(row[1], row[2])
  BY <1>3 DEF Read, Locks, OrderOf
<1>5. UNCHANGED orders
  BY DEF Runs, vars, orderVars
<1> QED
  BY <1>1, <1>3, <1>4, <1>5, RunEffect DEF CancelReads, HoldsOrder

LEMMA FailureReadsNext ==
    ASSUME LocksInv, NEW c \in Calls, NEW row, Runs(c, row), Asks[c].kind = "failure"
    PROVE  FailureReads(c)'
<1> DEFINE o == Asks[c].order
           req == orders[o].req
           rows == DOMAIN seen[c]
<1>1. FailureReads(c) /\ o \in DOMAIN orders
  BY DEF LocksInv, CallReads, Runs, Made
<1>2. req.account \in DOMAIN accounts
  <2>1. orders[o] \in Order
    BY <1>1 DEF LocksInv
  <2> QED
    BY <2>1, RequestType DEF LocksInv, Order, Request
<1>3. Statements(c) = <<OrderOf(o), AccountOf(req)>>
  BY DEF Statements, FailureStatements, OrderOf, AccountOf
<1>4. /\ row \notin rows
      /\ \/ row = OrderOf(o) /\ rows = {}
         \/ row = AccountOf(req) /\ OrderOf(o) \in rows
  <2>1. DOMAIN Statements(c) = 1 .. 2 /\ row \in Pending(c)
    BY <1>3 DEF Runs
  <2>2. PICK i \in 1 .. 2 : /\ row = Statements(c)[i] /\ row \notin rows
                            /\ \A j \in 1 .. 2 : j < i => Statements(c)[j] \in rows
    BY <2>1, NextStatement
  <2>3. row = OrderOf(o) \/ (row = AccountOf(req) /\ OrderOf(o) \in rows)
    BY <1>3, <2>2
  <2> QED
    BY <1>1, <2>2, <2>3 DEF FailureReads
<1>5. UNCHANGED <<accounts, orders>>
  BY DEF Runs, vars, orderVars, ledgerVars
<1>6. /\ DOMAIN seen'[c] = rows \cup {row}
      /\ \A r \in rows : seen'[c][r] = seen[c][r]
      /\ seen'[c][row] = Read(row[1], row[2])
      /\ held'[c] = held[c] \cup Locks(row[1], row[2])
  BY <1>4, RunEffect
<1>7. OrderOf(o) # AccountOf(req)
  BY DEF OrderOf, AccountOf
<1>8. HoldsOrder(c, o)' /\ OrderOf(o) \in rows'
  <2>1. CASE row = OrderOf(o) /\ rows = {}
    <3>1. Read(row[1], row[2]) = orders[o] /\ OrderOf(o) \in Locks(row[1], row[2])
      BY <2>1 DEF Read, Locks, OrderOf
    <3> QED
      BY <1>1, <1>5, <1>6, <2>1, <3>1 DEF HoldsOrder
  <2>2. CASE OrderOf(o) \in rows
    BY <1>1, <1>5, <1>6, <2>2 DEF FailureReads, HoldsOrder
  <2> QED
    BY <1>4, <2>1, <2>2
<1>9. ASSUME AccountOf(req) \in rows' PROVE HoldsAccount(c, req)'
  <2>1. row = AccountOf(req) \/ AccountOf(req) \in rows
    BY <1>6, <1>9
  <2>2. CASE row = AccountOf(req)
    <3>1. Read(row[1], row[2]) = accounts[req.account] /\ row \in Locks(row[1], row[2])
      BY <2>2 DEF Read, Locks, AccountOf
    <3> QED
      BY <1>2, <1>5, <1>6, <2>2, <3>1 DEF HoldsAccount
  <2>3. CASE AccountOf(req) \in rows
    <3>1. HoldsAccount(c, req)
      BY <1>1, <2>3 DEF FailureReads
    <3> QED
      BY <1>5, <1>6, <2>3, <3>1 DEF HoldsAccount
  <2> QED
    BY <2>1, <2>2, <2>3
<1>10. req' = req /\ rows' \subseteq {OrderOf(o), AccountOf(req)}
  BY <1>1, <1>4, <1>5, <1>6 DEF FailureReads
<1> QED
  BY <1>8, <1>9, <1>10 DEF FailureReads

(* What a call that has read its order row finds there.                       *)
LEMMA EventOrder ==
    ASSUME LocksInv, NEW c \in Calls, Asks[c].kind = "event", DOMAIN seen[c] # {},
           NEW o, o = Asks[c].event.order
    PROVE  /\ EventReads(c) /\ OrderOf(o) \in DOMAIN seen[c]
           /\ o \in DOMAIN orders /\ orders[o] \in Order
           /\ orders[o].req \in Requests /\ orders[o].req.account \in DOMAIN accounts
           /\ Has(c, "order") /\ Got(c, "order") = orders[o]
<1>1. EventReads(c)
  BY DEF LocksInv, CallReads
<1>2. OrderOf(o) \in DOMAIN seen[c] /\ HoldsOrder(c, o)
  BY <1>1 DEF EventReads
<1>3. \A r \in DOMAIN seen[c] : r[1] = "order" => r = OrderOf(o)
  BY <1>1 DEF EventReads, OrderOf, DeliveryOf, AccountOf, PositionOf, PriceOf
<1>4. Has(c, "order") /\ Got(c, "order") = seen[c][OrderOf(o)]
  <2>1. OrderOf(o)[1] = "order"
    BY DEF OrderOf
  <2> QED
    BY <1>2, <1>3, <2>1, GotIs
<1>5. o \in DOMAIN orders /\ seen[c][OrderOf(o)] = orders[o] /\ orders[o] \in Order
  BY <1>2 DEF HoldsOrder, LocksInv
<1>6. orders[o].req \in Requests /\ orders[o].req.account \in DOMAIN accounts
  <2>1. orders[o].req \in Requests
    BY <1>5 DEF Order
  <2> QED
    BY <2>1, RequestType DEF LocksInv, Request
<1> QED
  BY <1>1, <1>2, <1>4, <1>5, <1>6

(* The rows of an event in the order in which it reads them.                  *)
LEMMA EventNext ==
    ASSUME LocksInv, NEW c \in Calls, NEW row, Runs(c, row), Asks[c].kind = "event",
           NEW e, e = Asks[c].event, NEW req, req = orders[e.order].req
    PROVE  LET rows == DOMAIN seen[c]
           IN  /\ row \notin rows
               /\ \/ row = OrderOf(e.order) /\ rows = {}
                  \/ row = DeliveryOf(e) /\ rows # {}
                  \/ row = AccountOf(req) /\ DeliveryOf(e) \in rows
                  \/ row = PositionOf(req) /\ AccountOf(req) \in rows
                  \/ row = PriceOf(req.symbol) /\ PositionOf(req) \in rows
<1> DEFINE rows == DOMAIN seen[c]
           run == Statements(c)
           known == Got(c, "order").req
<1>1. rows # {} => known = req /\ OrderOf(e.order) \in rows
  BY EventOrder
<1>2. \/ run = <<OrderOf(e.order), DeliveryOf(e)>>
      \/ run = <<OrderOf(e.order), DeliveryOf(e), AccountOf(known)>>
      \/ run = <<OrderOf(e.order), DeliveryOf(e), AccountOf(known),
                 PositionOf(known), PriceOf(known.symbol)>>
  <2> HIDE DEF run
  <2>1. CASE ~Settles(c)
    BY <2>1, EventRuns DEF run
  <2>2. CASE Settles(c) /\ ~IsFill(e)
    BY <2>2, EventRuns DEF run
  <2>3. CASE Settles(c) /\ IsFill(e)
    BY <2>3, EventRuns DEF run
  <2> QED
    BY <2>1, <2>2, <2>3
<1>3. ASSUME NEW n \in Nat, DOMAIN run = 1 .. n
      PROVE  \E i \in 1 .. n : /\ row = run[i] /\ row \notin rows
                               /\ \A j \in 1 .. n : j < i => run[j] \in rows
  BY <1>3, NextStatement DEF Runs
<1>4. CASE run = <<OrderOf(e.order), DeliveryOf(e)>>
  <2>1. DOMAIN run = 1 .. 2
    BY <1>4
  <2>2. PICK i \in 1 .. 2 : /\ row = run[i] /\ row \notin rows
                            /\ \A j \in 1 .. 2 : j < i => run[j] \in rows
    BY <1>3, <2>1
  <2> QED
    BY <1>1, <1>4, <2>2
<1>5. CASE run = <<OrderOf(e.order), DeliveryOf(e), AccountOf(known)>>
  <2>1. DOMAIN run = 1 .. 3
    BY <1>5
  <2>2. PICK i \in 1 .. 3 : /\ row = run[i] /\ row \notin rows
                            /\ \A j \in 1 .. 3 : j < i => run[j] \in rows
    BY <1>3, <2>1
  <2> QED
    BY <1>1, <1>5, <2>2
<1>6. CASE run = <<OrderOf(e.order), DeliveryOf(e), AccountOf(known),
                   PositionOf(known), PriceOf(known.symbol)>>
  <2>1. DOMAIN run = 1 .. 5
    BY <1>6
  <2>2. PICK i \in 1 .. 5 : /\ row = run[i] /\ row \notin rows
                            /\ \A j \in 1 .. 5 : j < i => run[j] \in rows
    BY <1>3, <2>1
  <2>3. /\ run[1] = OrderOf(e.order) /\ run[2] = DeliveryOf(e) /\ run[3] = AccountOf(known)
        /\ run[4] = PositionOf(known) /\ run[5] = PriceOf(known.symbol)
    BY <1>6
  <2> HIDE DEF run, known
  <2>4. i = 1 \/ i = 2 \/ i = 3 \/ i = 4 \/ i = 5
    OBVIOUS
  <2> QED
    BY <1>1, <2>2, <2>3, <2>4
<1> QED
  BY <1>2, <1>4, <1>5, <1>6

LEMMA EventReadsNext ==
    ASSUME LocksInv, NEW c \in Calls, NEW row, Runs(c, row), Asks[c].kind = "event"
    PROVE  EventReads(c)'
<1> DEFINE e == Asks[c].event
           o == e.order
           req == orders[o].req
           rows == DOMAIN seen[c]
<1>1. EventReads(c) /\ o \in DOMAIN orders
  BY DEF LocksInv, CallReads, Runs, Made, KnownToBroker
<1>2. /\ row \notin rows
      /\ \/ row = OrderOf(o) /\ rows = {}
         \/ row = DeliveryOf(e) /\ rows # {}
         \/ row = AccountOf(req) /\ DeliveryOf(e) \in rows
         \/ row = PositionOf(req) /\ AccountOf(req) \in rows
         \/ row = PriceOf(req.symbol) /\ PositionOf(req) \in rows
  BY EventNext
<1>3. UNCHANGED <<accounts, orders, processed, positions, marketPrices>>
  BY DEF Runs, vars, orderVars, ledgerVars, bookVars
<1>4. /\ DOMAIN seen'[c] = rows \cup {row}
      /\ \A r \in rows : seen'[c][r] = seen[c][r]
      /\ seen'[c][row] = Read(row[1], row[2])
      /\ held'[c] = held[c] \cup Locks(row[1], row[2])
  BY <1>2, RunEffect
<1>5. OrderOf(o) \in rows' /\ HoldsOrder(c, o)'
  <2>1. CASE rows = {}
    <3>1. row = OrderOf(o)
      BY <1>1, <1>2, <2>1
    <3>2. Read(row[1], row[2]) = orders[o] /\ OrderOf(o) \in Locks(row[1], row[2])
      BY <3>1 DEF Read, Locks, OrderOf
    <3> QED
      BY <1>1, <1>3, <1>4, <3>1, <3>2 DEF HoldsOrder
  <2>2. CASE rows # {}
    BY <1>1, <1>3, <1>4, <2>2 DEF EventReads, HoldsOrder
  <2> QED
    BY <2>1, <2>2
<1>6. ASSUME DeliveryOf(e) \in rows', ~seen'[c][DeliveryOf(e)]
      PROVE  e.id \notin DOMAIN processed'
  <2>1. CASE row = DeliveryOf(e)
    <3>1. Read(row[1], row[2]) = (e.id \in DOMAIN processed)
      BY <2>1 DEF Read, DeliveryOf
    <3> QED
      BY <1>3, <1>4, <1>6, <2>1, <3>1, Zenon
  <2>2. CASE row # DeliveryOf(e)
    <3>1. DeliveryOf(e) \in rows /\ seen'[c][DeliveryOf(e)] = seen[c][DeliveryOf(e)]
      BY <1>4, <1>6, <2>2
    <3>2. ~seen[c][DeliveryOf(e)]
      BY <1>6, <3>1, Zenon
    <3>3. e.id \notin DOMAIN processed
      BY <1>1, <3>1, <3>2, Zenon DEF EventReads
    <3> QED
      BY <1>3, <3>3
  <2> QED
    BY <2>1, <2>2
<1>7. ASSUME AccountOf(req) \in rows'
      PROVE  HoldsAccount(c, req)' /\ DeliveryOf(e) \in rows'
  <2>1. CASE row = AccountOf(req)
    <3>1. DeliveryOf(e) \in rows
      BY <1>2, <2>1 DEF OrderOf, DeliveryOf, AccountOf, PositionOf, PriceOf
    <3>2. req.account \in DOMAIN accounts
      BY <3>1, EventOrder
    <3>3. Read(row[1], row[2]) = accounts[req.account] /\ row \in Locks(row[1], row[2])
      BY <2>1 DEF Read, Locks, AccountOf
    <3> QED
      BY <1>3, <1>4, <2>1, <3>1, <3>2, <3>3 DEF HoldsAccount
  <2>2. CASE row # AccountOf(req)
    <3>1. AccountOf(req) \in rows /\ DeliveryOf(e) \in rows /\ HoldsAccount(c, req)
      BY <1>1, <1>4, <1>7, <2>2 DEF EventReads
    <3> QED
      BY <1>3, <1>4, <3>1 DEF HoldsAccount
  <2> QED
    BY <2>1, <2>2
<1>8. ASSUME PositionOf(req) \in rows'
      PROVE  HoldsPosition(c, req)' /\ AccountOf(req) \in rows'
  <2>1. CASE row = PositionOf(req)
    <3>1. AccountOf(req) \in rows
      BY <1>2, <2>1 DEF OrderOf, DeliveryOf, AccountOf, PositionOf, PriceOf
    <3>2. /\ Read(row[1], row[2]) = Rows(positions, PositionKey(req))
          /\ PositionKey(req) \in DOMAIN positions => row \in Locks(row[1], row[2])
      BY <2>1 DEF Read, Locks, PositionOf
    <3>3. Rows(positions, PositionKey(req))' = Rows(positions, PositionKey(req))
      BY <1>3 DEF Rows, PositionKey
    <3>4. PositionKey(req)' = PositionKey(req) /\ PositionOf(req)' = PositionOf(req)
      BY <1>3 DEF PositionKey, PositionOf
    <3> QED
      BY <1>3, <1>4, <2>1, <3>1, <3>2, <3>3, <3>4 DEF HoldsPosition
  <2>2. CASE row # PositionOf(req)
    <3>1. PositionOf(req) \in rows /\ AccountOf(req) \in rows /\ HoldsPosition(c, req)
      BY <1>1, <1>4, <1>8, <2>2 DEF EventReads
    <3>2. seen'[c][PositionOf(req)] = seen[c][PositionOf(req)] /\ held[c] \subseteq held'[c]
      BY <1>4, <3>1
    <3>3. Rows(positions, PositionKey(req))' = Rows(positions, PositionKey(req))
      BY <1>3 DEF Rows, PositionKey
    <3>4. PositionKey(req)' = PositionKey(req) /\ PositionOf(req)' = PositionOf(req)
      BY <1>3 DEF PositionKey, PositionOf
    <3> QED
      BY <1>3, <1>4, <3>1, <3>2, <3>3, <3>4 DEF HoldsPosition
  <2> QED
    BY <2>1, <2>2
<1>9. PriceOf(req.symbol) \in rows' => PositionOf(req) \in rows'
  <2>1. CASE row = PriceOf(req.symbol)
    BY <1>2, <1>4, <2>1 DEF OrderOf, DeliveryOf, AccountOf, PositionOf, PriceOf
  <2>2. CASE row # PriceOf(req.symbol)
    BY <1>1, <1>4, <2>2 DEF EventReads
  <2> QED
    BY <2>1, <2>2
<1>10. rows' \subseteq {OrderOf(o), DeliveryOf(e), AccountOf(req), PositionOf(req),
                        PriceOf(req.symbol)}
  BY <1>1, <1>2, <1>4 DEF EventReads
<1>11. req' = req
  BY <1>3
<1> QED
  BY <1>5, <1>6, <1>7, <1>8, <1>9, <1>10, <1>11 DEF EventReads

(* What a tick has read of the price and of the keys of its symbol.           *)
LEMMA TickGot ==
    ASSUME NEW c \in Calls, TickReads(c), NEW symbol, symbol = Asks[c].symbol
    PROVE  /\ PriceOf(symbol) \in DOMAIN seen[c] =>
                  Has(c, "price") /\ Got(c, "price") = seen[c][PriceOf(symbol)]
           /\ KeysOf(symbol) \in DOMAIN seen[c] =>
                  Has(c, "keys") /\ Got(c, "keys") = seen[c][KeysOf(symbol)]
<1>1. PriceOf(symbol)[1] = "price" /\ KeysOf(symbol)[1] = "keys"
  BY DEF PriceOf, KeysOf
<1>2. \A r \in DOMAIN seen[c] :
          /\ r[1] = "price" => r = PriceOf(symbol)
          /\ r[1] = "keys" => r = KeysOf(symbol)
  BY <1>1 DEF TickReads
<1> QED
  BY <1>1, <1>2, GotIs

LEMMA TickReadsNext ==
    ASSUME LocksInv, NEW c \in Calls, NEW row, Runs(c, row), Asks[c].kind = "tick"
    PROVE  TickReads(c)'
<1> DEFINE symbol == Asks[c].symbol
           rows == DOMAIN seen[c]
           run == Statements(c)
<1>1. TickReads(c)
  BY DEF LocksInv, CallReads
<1>2. run = <<PriceOf(symbol), KeysOf(symbol)>>
  BY DEF Statements, PriceOf, KeysOf
<1>3. /\ row \notin rows
      /\ \/ row = PriceOf(symbol)
         \/ row = KeysOf(symbol) /\ PriceOf(symbol) \in rows
         \/ /\ PriceOf(symbol) \in rows /\ KeysOf(symbol) \in rows
            /\ \E k \in Got(c, "keys") : row = <<"position", k>>
  <2>1. DOMAIN run = 1 .. 2 /\ run[1] = PriceOf(symbol) /\ run[2] = KeysOf(symbol)
    BY <1>2
  <2> HIDE DEF run
  <2>2. \/ \E i \in 1 .. 2 : /\ row = run[i] /\ row \notin rows
                             /\ \A j \in 1 .. 2 : j < i => run[j] \in rows
        \/ /\ \A i \in 1 .. 2 : run[i] \in rows
           /\ row \notin rows
           /\ \E k \in Got(c, "keys") : row = <<"position", k>>
    BY <2>1, NextStatement DEF Runs, run
  <2> QED
    BY <2>1, <2>2
<1>4. UNCHANGED <<positions, marketPrices>>
  BY DEF Runs, vars, bookVars
<1>5. /\ DOMAIN seen'[c] = rows \cup {row}
      /\ \A r \in rows : seen'[c][r] = seen[c][r]
      /\ seen'[c][row] = Read(row[1], row[2])
      /\ held'[c] = held[c] \cup Locks(row[1], row[2])
  BY <1>3, RunEffect
<1>6. /\ PriceOf(symbol) # KeysOf(symbol)
      /\ \A k : <<"position", k>> # PriceOf(symbol) /\ <<"position", k>> # KeysOf(symbol)
  BY DEF PriceOf, KeysOf
<1>7. /\ Rows(marketPrices, symbol)' = Rows(marketPrices, symbol)
      /\ DOMAIN positions' = DOMAIN positions
      /\ \A k \in DOMAIN positions : positions'[k] = positions[k]
  BY <1>4 DEF Rows
<1>8. PriceOf(symbol) \in rows'
  BY <1>1, <1>3, <1>5 DEF TickReads
<1>9. seen'[c][PriceOf(symbol)] = Rows(marketPrices', symbol)
  <2>1. CASE row = PriceOf(symbol)
    <3>1. Read(row[1], row[2]) = Rows(marketPrices, symbol)
      BY <2>1 DEF Read, PriceOf
    <3> QED
      BY <1>4, <1>5, <2>1, <3>1
  <2>2. CASE row # PriceOf(symbol)
    BY <1>1, <1>4, <1>5, <1>8, <2>2 DEF TickReads
  <2> QED
    BY <2>1, <2>2
<1>10. KeysOf(symbol) \in rows' =>
           seen'[c][KeysOf(symbol)] \subseteq {k \in DOMAIN positions' : k[2] = symbol}
  <2>1. CASE row = KeysOf(symbol)
    <3>1. Read(row[1], row[2]) = {k \in DOMAIN positions : k[2] = symbol}
      BY <2>1 DEF Read, KeysOf
    <3> QED
      BY <1>4, <1>5, <2>1, <3>1
  <2>2. CASE row # KeysOf(symbol)
    BY <1>1, <1>4, <1>5, <2>2 DEF TickReads
  <2> QED
    BY <2>1, <2>2
<1>11. ASSUME NEW r \in rows' \ {PriceOf(symbol), KeysOf(symbol)}
       PROVE  \E k \in DOMAIN positions' :
                  /\ r = <<"position", k>> /\ r \in held'[c]
                  /\ KeysOf(symbol) \in rows' /\ k \in seen'[c][KeysOf(symbol)]
                  /\ seen'[c][r] = {positions'[k]}
  <2>1. CASE r \in rows
    <3>1. PICK k \in DOMAIN positions :
              /\ r = <<"position", k>> /\ r \in held[c]
              /\ KeysOf(symbol) \in rows /\ k \in seen[c][KeysOf(symbol)]
              /\ seen[c][r] = {positions[k]}
      BY <1>1, <1>11, <2>1 DEF TickReads
    <3> QED
      BY <1>4, <1>5, <2>1, <3>1
  <2>2. CASE r \notin rows
    <3>1. r = row /\ KeysOf(symbol) \in rows /\ \E k \in Got(c, "keys") : row = <<"position", k>>
      BY <1>3, <1>5, <1>11, <2>2
    <3>2. PICK k \in seen[c][KeysOf(symbol)] : row = <<"position", k>>
      BY <1>1, <3>1, TickGot
    <3>3. k \in DOMAIN positions
      BY <1>1, <3>1, <3>2 DEF TickReads
    <3>4. Read(row[1], row[2]) = {positions[k]} /\ row \in Locks(row[1], row[2])
      BY <3>2, <3>3 DEF Read, Rows, Locks
    <3>5. seen'[c][KeysOf(symbol)] = seen[c][KeysOf(symbol)]
      BY <1>5, <3>1
    <3> QED
      BY <1>4, <1>5, <3>1, <3>2, <3>3, <3>4, <3>5
  <2> QED
    BY <2>1, <2>2
<1> QED
  BY <1>8, <1>9, <1>10, <1>11 DEF TickReads, PriceOf, KeysOf, Rows

(* The tables and what a call has seen and holds determine CallReads.         *)
LEMMA ReadsStay ==
    ASSUME NEW c \in Calls, CallReads(c),
           UNCHANGED <<accounts, orders, processed, positions, marketPrices>>,
           seen'[c] = seen[c], held'[c] = held[c], ended' = ended
    PROVE  CallReads(c)'
<1>1. UNCHANGED <<accounts, orders, processed, positions, marketPrices>>
  OBVIOUS
<1>2. CreateReads(c) => CreateReads(c)'
  BY <1>1 DEF CreateReads, HoldsAccount, NewKey, NewClient
<1>3. CancelReads(c) => CancelReads(c)'
  BY <1>1 DEF CancelReads, HoldsOrder
<1>4. EventReads(c) => EventReads(c)'
  BY <1>1 DEF EventReads, HoldsOrder, HoldsAccount, HoldsPosition, Rows
<1>5. TickReads(c) => TickReads(c)'
  BY <1>1 DEF TickReads, Rows
<1>6. FailureReads(c) => FailureReads(c)'
  BY <1>1 DEF FailureReads, HoldsOrder, HoldsAccount
<1> QED
  BY <1>2, <1>3, <1>4, <1>5, <1>6 DEF CallReads

LEMMA RunsKeep ==
    ASSUME LocksInv, NEW c \in Calls, RunStatement(c)
    PROVE  LocksInv'
<1>1. PICK row \in Pending(c) :
          /\ \A other \in Calls \ {c} : Locks(row[1], row[2]) \cap held[other] = {}
          /\ Runs(c, row)
  BY DEF RunStatement, Runs
<1>2. CallReads(c)'
  <2>1. After[c] \subseteq ended' /\ c \notin ended'
    BY <1>1, RunEffect
  <2> QED
    BY <1>1, <2>1, CreateReadsNext, CancelReadsNext, EventReadsNext, TickReadsNext,
       FailureReadsNext DEF CallReads
<1>3. ASSUME NEW d \in Calls, d # c PROVE CallReads(d)'
  <2>1. /\ seen'[d] = seen[d] /\ held'[d] = held[d] /\ ended' = ended
        /\ UNCHANGED <<accounts, orders, processed, positions, marketPrices>>
    BY <1>1, <1>3, RunEffect DEF Runs, vars, orderVars, ledgerVars, bookVars
  <2> QED
    BY <2>1, ReadsStay DEF LocksInv
<1>4. ASSUME NEW d \in Calls, NEW b \in Calls, b # d PROVE held'[b] \cap held'[d] = {}
  <2>1. \A x \in Calls \ {c} : held'[x] = held[x] /\ held'[x] \cap held'[c] = {}
    BY <1>1, RunEffect DEF LocksInv
  <2> QED
    BY <1>4, <2>1 DEF LocksInv
<1>5. DOMAIN seen' = Calls /\ DOMAIN held' = Calls
  BY <1>1, RunEffect
<1>6. UNCHANGED <<accounts, orders, atBroker>>
  BY <1>1 DEF Runs, vars, orderVars, ledgerVars
<1> QED
  BY <1>2, <1>3, <1>4, <1>5, <1>6 DEF LocksInv

-----------------------------------------------------------------------------
(* A call that is ready to commit has read and locked what it writes.         *)

LEMMA CreateReady ==
    ASSUME LocksInv, NEW c \in Calls, Asks[c].kind = "create", Pending(c) = {},
           NEW req, req = Asks[c].req
    PROVE  /\ req \in Requests
           /\ HoldsAccount(c, req) /\ Got(c, "account") = accounts[req.account]
           /\ DOMAIN seen[c] # {}
<1> DEFINE run == Statements(c)
<1>1. CreateReads(c) /\ req \in Requests
  BY CallsAssumption DEF LocksInv, CallReads
<1>2. AccountOf(req) \in DOMAIN seen[c]
  <2>1. PICK n \in Nat : DOMAIN run = 1 .. n /\ 1 \in 1 .. n /\ run[1] = AccountOf(req)
    <3>1. CASE Searches(c)
      <4>1. run = <<AccountOf(req), RequestOf(req), ClientOf(req)>>
        BY <3>1, CreateRuns
      <4>2. DOMAIN run = 1 .. 3 /\ 1 \in 1 .. 3 /\ run[1] = AccountOf(req)
        BY <4>1
      <4> QED
        BY <4>2
    <3>2. CASE ~Searches(c)
      <4>1. run = <<AccountOf(req), RequestOf(req)>>
        BY <3>2, CreateRuns
      <4>2. DOMAIN run = 1 .. 2 /\ 1 \in 1 .. 2 /\ run[1] = AccountOf(req)
        BY <4>1
      <4> QED
        BY <4>2
    <3> QED
      BY <3>1, <3>2
  <2> HIDE DEF run
  <2> QED
    BY <2>1, NextStatement DEF run
<1>3. Got(c, "account") = seen[c][AccountOf(req)]
  <2>1. /\ AccountOf(req)[1] = "account"
        /\ \A r \in DOMAIN seen[c] : r[1] = "account" => r = AccountOf(req)
    BY <1>1 DEF CreateReads, AccountOf, RequestOf, ClientOf
  <2> QED
    BY <1>2, <2>1, GotIs
<1> QED
  BY <1>1, <1>2, <1>3 DEF CreateReads, HoldsAccount

LEMMA CancelReady ==
    ASSUME LocksInv, NEW c \in Calls, Asks[c].kind = "cancel", Pending(c) = {},
           NEW o, o = Asks[c].order
    PROVE  /\ HoldsOrder(c, o) /\ orders[o] \in Order
           /\ Got(c, "order") = orders[o]
           /\ DOMAIN seen[c] # {}
<1> DEFINE run == Statements(c)
<1>1. CancelReads(c)
  BY DEF LocksInv, CallReads
<1>2. run = <<OrderOf(o)>>
  BY DEF Statements, CancelStatements, OrderOf
<1>3. OrderOf(o) \in DOMAIN seen[c]
  <2>1. DOMAIN run = 1 .. 1 /\ run[1] = OrderOf(o)
    BY <1>2
  <2>2. \A i \in 1 .. 1 : run[i] \in DOMAIN seen[c]
    <3> HIDE DEF run
    <3> QED
      BY <2>1, NextStatement DEF run
  <2> QED
    BY <2>1, <2>2
<1>4. Got(c, "order") = seen[c][OrderOf(o)]
  <2>1. OrderOf(o)[1] = "order" /\ \A r \in DOMAIN seen[c] : r[1] = "order" => r = OrderOf(o)
    BY <1>1 DEF CancelReads, OrderOf
  <2> QED
    BY <1>3, <2>1, GotIs
<1> QED
  BY <1>1, <1>3, <1>4 DEF CancelReads, HoldsOrder, LocksInv

LEMMA FailureReady ==
    ASSUME LocksInv, NEW c \in Calls, Asks[c].kind = "failure", Pending(c) = {},
           NEW o, o = Asks[c].order, NEW req, req = orders[o].req
    PROVE  /\ HoldsOrder(c, o) /\ orders[o] \in Order
           /\ HoldsAccount(c, req)
           /\ DOMAIN seen[c] # {}
<1> DEFINE run == Statements(c)
<1>1. FailureReads(c)
  BY DEF LocksInv, CallReads
<1>2. DOMAIN run = 1 .. 2 /\ run[1] = OrderOf(o) /\ run[2] = AccountOf(req)
  <2>1. run = <<OrderOf(o), AccountOf(req)>>
    BY DEF Statements, FailureStatements, OrderOf, AccountOf
  <2> QED
    BY <2>1
<1>3. \A i \in 1 .. 2 : run[i] \in DOMAIN seen[c]
  <2> HIDE DEF run
  <2> QED
    BY <1>2, NextStatement DEF run
<1>4. OrderOf(o) \in DOMAIN seen[c] /\ AccountOf(req) \in DOMAIN seen[c]
  BY <1>2, <1>3
<1> QED
  BY <1>1, <1>4 DEF FailureReads, HoldsOrder, LocksInv

LEMMA EventReady ==
    ASSUME LocksInv, NEW c \in Calls, Asks[c].kind = "event", Pending(c) = {},
           NEW e, e = Asks[c].event, NEW req, req = orders[e.order].req
    PROVE  /\ HoldsOrder(c, e.order) /\ orders[e.order] \in Order
           /\ req \in Requests /\ req.account \in DOMAIN accounts
           /\ Got(c, "order") = orders[e.order]
           /\ DOMAIN seen[c] # {}
           /\ ~Got(c, "processed") => e.id \notin DOMAIN processed
           /\ ~Got(c, "processed") /\ ~NotAdmitted(orders[e.order], e) =>
                  /\ HoldsAccount(c, req) /\ Got(c, "account") = accounts[req.account]
                  /\ IsFill(e) =>
                         /\ PositionOf(req) \in DOMAIN seen[c]
                         /\ PriceOf(req.symbol) \in DOMAIN seen[c]
                         /\ HoldsPosition(c, req)
                         /\ Has(c, "position")
                         /\ Got(c, "position") = Rows(positions, PositionKey(req))
                         /\ Has(c, "price")
                         /\ Got(c, "price") = seen[c][PriceOf(req.symbol)]
<1> DEFINE run == Statements(c)
           rows == DOMAIN seen[c]
           o == e.order
           known == Got(c, "order").req
<1>1. EventReads(c)
  BY DEF LocksInv, CallReads
<1>2. /\ ~Settles(c) => run = <<OrderOf(o), DeliveryOf(e)>>
      /\ Settles(c) /\ ~IsFill(e) => run = <<OrderOf(o), DeliveryOf(e), AccountOf(known)>>
      /\ Settles(c) /\ IsFill(e) => run = <<OrderOf(o), DeliveryOf(e), AccountOf(known),
                                            PositionOf(known), PriceOf(known.symbol)>>
  BY EventRuns
<1>3. ASSUME NEW n \in Nat, DOMAIN run = 1 .. n PROVE \A i \in 1 .. n : run[i] \in rows
  BY <1>3, NextStatement
<1>4. /\ OrderOf(o) \in rows /\ DeliveryOf(e) \in rows
      /\ Settles(c) => AccountOf(known) \in rows
      /\ Settles(c) /\ IsFill(e) => PositionOf(known) \in rows /\ PriceOf(known.symbol) \in rows
  <2>1. CASE ~Settles(c)
    <3>1. DOMAIN run = 1 .. 2 /\ run[1] = OrderOf(o) /\ run[2] = DeliveryOf(e)
      BY <1>2, <2>1
    <3> QED
      BY <1>3, <2>1, <3>1
  <2>2. CASE Settles(c) /\ ~IsFill(e)
    <3>1. /\ DOMAIN run = 1 .. 3 /\ run[1] = OrderOf(o) /\ run[2] = DeliveryOf(e)
          /\ run[3] = AccountOf(known)
      BY <1>2, <2>2
    <3> QED
      BY <1>3, <2>2, <3>1
  <2>3. CASE Settles(c) /\ IsFill(e)
    <3>1. /\ DOMAIN run = 1 .. 5 /\ run[1] = OrderOf(o) /\ run[2] = DeliveryOf(e)
          /\ run[3] = AccountOf(known) /\ run[4] = PositionOf(known)
          /\ run[5] = PriceOf(known.symbol)
      BY <1>2, <2>3
    <3> QED
      BY <1>3, <2>3, <3>1
  <2> QED
    BY <2>1, <2>2, <2>3
<1>5. /\ HoldsOrder(c, o) /\ orders[o] \in Order
      /\ req \in Requests /\ req.account \in DOMAIN accounts
      /\ Got(c, "order") = orders[o] /\ known = req
  <2>1. rows # {}
    BY <1>4
  <2> QED
    BY <1>1, <2>1, EventOrder DEF EventReads
<1>6. /\ DeliveryOf(e)[1] = "processed" /\ AccountOf(req)[1] = "account"
      /\ PositionOf(req)[1] = "position" /\ PriceOf(req.symbol)[1] = "price"
      /\ OrderOf(o)[1] = "order"
  BY DEF DeliveryOf, AccountOf, PositionOf, PriceOf, OrderOf
<1>7. rows \subseteq {OrderOf(o), DeliveryOf(e), AccountOf(req), PositionOf(req),
                      PriceOf(req.symbol)}
  BY <1>1 DEF EventReads
<1>8. Has(c, "processed") /\ Got(c, "processed") = seen[c][DeliveryOf(e)]
  <2>1. \A r \in rows : r[1] = "processed" => r = DeliveryOf(e)
    BY <1>6, <1>7
  <2> QED
    BY <1>4, <1>6, <2>1, GotIs
<1>9. ~Got(c, "processed") => e.id \notin DOMAIN processed
  <2>1. ~seen[c][DeliveryOf(e)] => e.id \notin DOMAIN processed
    BY <1>1, <1>4, Zenon DEF EventReads
  <2> QED
    BY <1>8, <2>1, Zenon
<1>10. ASSUME ~Got(c, "processed"), ~NotAdmitted(orders[o], e)
       PROVE  /\ HoldsAccount(c, req) /\ Got(c, "account") = accounts[req.account]
              /\ IsFill(e) =>
                     /\ PositionOf(req) \in rows /\ PriceOf(req.symbol) \in rows
                     /\ HoldsPosition(c, req)
                     /\ Has(c, "position")
                     /\ Got(c, "position") = Rows(positions, PositionKey(req))
                     /\ Has(c, "price")
                     /\ Got(c, "price") = seen[c][PriceOf(req.symbol)]
  <2>1. Settles(c)
    BY <1>5, <1>8, <1>10, Zenon DEF Settles
  <2>2. AccountOf(req) \in rows /\ HoldsAccount(c, req)
    BY <1>1, <1>4, <1>5, <2>1 DEF EventReads
  <2>3. Got(c, "account") = accounts[req.account]
    <3>1. \A r \in rows : r[1] = "account" => r = AccountOf(req)
      BY <1>6, <1>7
    <3> QED
      BY <1>6, <2>2, <3>1, GotIs DEF HoldsAccount
  <2>4. ASSUME IsFill(e)
        PROVE  /\ PositionOf(req) \in rows /\ PriceOf(req.symbol) \in rows
               /\ HoldsPosition(c, req)
               /\ Has(c, "position")
               /\ Got(c, "position") = Rows(positions, PositionKey(req))
               /\ Has(c, "price")
               /\ Got(c, "price") = seen[c][PriceOf(req.symbol)]
    <3>1. PositionOf(req) \in rows /\ PriceOf(req.symbol) \in rows
      BY <1>4, <1>5, <2>1, <2>4
    <3>2. HoldsPosition(c, req)
      BY <1>1, <3>1 DEF EventReads
    <3>3. Has(c, "position") /\ Got(c, "position") = Rows(positions, PositionKey(req))
      <4>1. \A r \in rows : r[1] = "position" => r = PositionOf(req)
        BY <1>6, <1>7
      <4> QED
        BY <1>6, <3>1, <3>2, <4>1, GotIs DEF HoldsPosition
    <3>4. Has(c, "price") /\ Got(c, "price") = seen[c][PriceOf(req.symbol)]
      <4>1. \A r \in rows : r[1] = "price" => r = PriceOf(req.symbol)
        BY <1>6, <1>7
      <4> QED
        BY <1>6, <3>1, <4>1, GotIs
    <3> QED
      BY <3>1, <3>2, <3>3, <3>4
  <2> QED
    BY <2>2, <2>3, <2>4
<1> QED
  BY <1>4, <1>5, <1>9, <1>10

LEMMA TickReady ==
    ASSUME LocksInv, NEW c \in Calls, Asks[c].kind = "tick", Pending(c) = {},
           NEW symbol, symbol = Asks[c].symbol
    PROVE  /\ PriceOf(symbol) \in DOMAIN seen[c] /\ KeysOf(symbol) \in DOMAIN seen[c]
           /\ Has(c, "price") /\ Got(c, "price") = Rows(marketPrices, symbol)
           /\ Got(c, "keys") = seen[c][KeysOf(symbol)]
           /\ TickApplies(c) =>
                  \A k \in Got(c, "keys") : <<"position", k>> \in DOMAIN seen[c]
           /\ \A k : <<"position", k>> \in DOMAIN seen[c] =>
                  /\ k \in DOMAIN positions /\ k[2] = symbol
                  /\ <<"position", k>> \in held[c]
                  /\ seen[c][<<"position", k>>] = {positions[k]}
<1> DEFINE run == Statements(c)
<1>1. TickReads(c)
  BY DEF LocksInv, CallReads
<1>2. DOMAIN run = 1 .. 2 /\ run[1] = PriceOf(symbol) /\ run[2] = KeysOf(symbol)
  <2>1. run = <<PriceOf(symbol), KeysOf(symbol)>>
    BY DEF Statements, PriceOf, KeysOf
  <2> QED
    BY <2>1
<1>3. /\ \A i \in 1 .. 2 : run[i] \in DOMAIN seen[c]
      /\ TickApplies(c) => \A k \in Got(c, "keys") : <<"position", k>> \in DOMAIN seen[c]
  <2> HIDE DEF run
  <2> QED
    BY <1>2, NextStatement DEF run
<1>4. PriceOf(symbol) \in DOMAIN seen[c] /\ KeysOf(symbol) \in DOMAIN seen[c]
  BY <1>2, <1>3
<1>5. ASSUME NEW k, <<"position", k>> \in DOMAIN seen[c]
      PROVE  /\ k \in DOMAIN positions /\ k[2] = symbol
             /\ <<"position", k>> \in held[c]
             /\ seen[c][<<"position", k>>] = {positions[k]}
  <2>1. <<"position", k>> \notin {PriceOf(symbol), KeysOf(symbol)}
    BY DEF PriceOf, KeysOf
  <2>2. PICK j \in DOMAIN positions :
            /\ <<"position", k>> = <<"position", j>> /\ <<"position", k>> \in held[c]
            /\ j \in seen[c][KeysOf(symbol)]
            /\ seen[c][<<"position", k>>] = {positions[j]}
    BY <1>1, <1>5, <2>1 DEF TickReads
  <2>3. j = k /\ j[2] = symbol
    BY <1>1, <1>4, <2>2 DEF TickReads
  <2> QED
    BY <2>2, <2>3
<1> QED
  BY <1>1, <1>3, <1>4, <1>5, TickGot DEF TickReads

-----------------------------------------------------------------------------
(* A commit changes no row but those its call has locked, and adds rows only  *)
(* under the lock of the account or of the order they belong to.              *)
OnlyLockedRows(c) ==
    /\ DOMAIN accounts' = DOMAIN accounts
    /\ \A a \in DOMAIN accounts : <<"account", a>> \notin held[c] => accounts'[a] = accounts[a]
    /\ orders' \in [DOMAIN orders' -> Order]
    /\ \A p \in DOMAIN orders :
           /\ p \in DOMAIN orders' /\ orders'[p].req = orders[p].req
           /\ OrderOf(p) \notin held[c] => orders'[p] = orders[p]
    /\ \A p \in DOMAIN orders' \ DOMAIN orders : AccountOf(orders'[p].req) \in held[c]
    /\ \A x \in DOMAIN processed' \ DOMAIN processed :
           /\ Asks[c].kind = "event" /\ x = Asks[c].event.id
           /\ OrderOf(Asks[c].event.order) \in held[c]
    /\ \A k \in DOMAIN positions :
           /\ k \in DOMAIN positions'
           /\ <<"position", k>> \notin held[c] => positions'[k] = positions[k]
    /\ \A k \in DOMAIN positions' \ DOMAIN positions : <<"account", k[1]>> \in held[c]
    /\ Asks[c].kind # "tick" => marketPrices' = marketPrices
    /\ atBroker' = atBroker

(* An update of a row computed from what is still in the table stores the     *)
(* computed row.                                                              *)
LEMMA UpdatedIs ==
    ASSUME NEW table, NEW key \in DOMAIN table, NEW read, read = table[key],
           NEW new, new = [k \in DOMAIN new |-> new[k]]
    PROVE  Updated(table, key, read, new) = [table EXCEPT ![key] = new]
<1>1. UpdatedRow(read, read, new) = [k \in DOMAIN new |-> new[k]]
  BY DEF UpdatedRow
<1> QED
  BY <1>1 DEF Updated

LEMMA OrderIsRow ==
    ASSUME NEW row \in Order
    PROVE  row = [k \in DOMAIN row |-> row[k]]
  BY DEF Order

(* What an admitted event makes of an order.                                  *)
LEMMA RowAfterIs ==
    ASSUME NEW row \in Order, NEW e \in FillEvent \cup StatusEvent, ~NotAdmitted(row, e)
    PROVE  /\ IsFill(e) => /\ e \in FillEvent /\ FillAccepted(row, e)
                           /\ e.quantity = row.remaining =>
                                  RowAfter(row, e) = [FilledOrder(row, e) EXCEPT !.status = "FILLED"]
                           /\ e.quantity # row.remaining /\ row.req.tif = "IOC" =>
                                  RowAfter(row, e) = CancelledOrder(FilledOrder(row, e))
                           /\ e.quantity # row.remaining /\ row.req.tif # "IOC" =>
                                  RowAfter(row, e) = Resting(FilledOrder(row, e))
                           /\ e.quantity # row.remaining => e.quantity < row.remaining
           /\ ~IsFill(e) => /\ e \in StatusEvent
                            /\ \/ /\ e.type = "REJECTED" /\ row.status = "ROUTED"
                                  /\ RowAfter(row, e) = [row EXCEPT !.status = "REJECTED"]
                               \/ /\ e.type = "CANCELLED" /\ row.status \in EXECUTABLE_STATUSES
                                  /\ RowAfter(row, e) = CancelledOrder(row)
<1>1. CASE IsFill(e)
  <2>1. e \in FillEvent /\ FillAccepted(row, e)
    BY <1>1 DEF IsFill, FillEvent, StatusEvent, NotAdmitted
  <2>2. /\ row.remaining \in Nat /\ e.quantity \in Nat \ {0} /\ e.quantity <= row.remaining
        /\ FilledOrder(row, e).remaining = row.remaining - e.quantity
        /\ FilledOrder(row, e).req = row.req
    BY <2>1, EventType, FilledOrderType DEF Order, FillAccepted
  <2>3. e.type # "REJECTED" /\ e.type # "CANCELLED"
    BY <1>1 DEF IsFill
  <2>4. CASE e.quantity = row.remaining
    BY <1>1, <2>1, <2>2, <2>3, <2>4 DEF RowAfter
  <2>5. CASE e.quantity # row.remaining
    <3>1. /\ FilledOrder(row, e).remaining > 0 /\ FilledOrder(row, e).remaining # 0
          /\ e.quantity < row.remaining
      BY <2>2, <2>5
    <3>2. RowAfter(row, e) = IF row.req.tif = "IOC" THEN CancelledOrder(FilledOrder(row, e))
                                                    ELSE Resting(FilledOrder(row, e))
      BY <1>1, <2>3, <3>1 DEF RowAfter
    <3> QED
      BY <1>1, <2>1, <2>5, <3>1, <3>2
  <2> QED
    BY <2>4, <2>5
<1>2. CASE ~IsFill(e)
  <2>1. e \in StatusEvent /\ (e.type = "REJECTED" \/ e.type = "CANCELLED")
    BY <1>2 DEF IsFill, FillEvent, StatusEvent
  <2> QED
    BY <1>2, <2>1 DEF NotAdmitted, RowAfter
<1> QED
  BY <1>1, <1>2

LEMMA RowAfterType ==
    ASSUME NEW row \in Order, NEW e \in FillEvent \cup StatusEvent, ~NotAdmitted(row, e)
    PROVE  RowAfter(row, e) \in Order /\ RowAfter(row, e).req = row.req
<1>1. ASSUME NEW r \in Order, NEW status \in OrderStatus
      PROVE  [r EXCEPT !.status = status] \in Order /\ [r EXCEPT !.status = status].req = r.req
  BY DEF Order
<1>2. ASSUME NEW r \in Order
      PROVE  CancelledOrder(r) \in Order /\ CancelledOrder(r).req = r.req
  BY CancelledOrderType
<1>3. CASE IsFill(e)
  <2> DEFINE f == FilledOrder(row, e)
  <2>1. e \in FillEvent /\ FillAccepted(row, e)
    BY <1>3, RowAfterIs
  <2>2. f \in Order /\ f.req = row.req
    BY <2>1, FilledOrderType
  <2>3. \/ RowAfter(row, e) = [f EXCEPT !.status = "FILLED"]
        \/ RowAfter(row, e) = CancelledOrder(f)
        \/ RowAfter(row, e) = Resting(f)
    <3> HIDE DEF f
    <3> QED
      BY <1>3, RowAfterIs DEF f
  <2>4. \E status \in OrderStatus : Resting(f) = [f EXCEPT !.status = status]
    <3>1. f.status \in OrderStatus
      BY <2>2 DEF Order
    <3> HIDE DEF f
    <3>2. f.status = "ROUTED" => Resting(f) = [f EXCEPT !.status = "PARTIALLY_FILLED"]
      BY DEF Resting
    <3>3. f.status # "ROUTED" => Resting(f) = [f EXCEPT !.status = f.status]
      BY DEF Resting
    <3>4. "PARTIALLY_FILLED" \in OrderStatus
      BY DEF OrderStatus
    <3> QED
      BY <3>1, <3>2, <3>3, <3>4, Zenon
  <2>5. "FILLED" \in OrderStatus
    BY DEF OrderStatus
  <2> HIDE DEF f
  <2>6. ASSUME NEW status \in OrderStatus, RowAfter(row, e) = [f EXCEPT !.status = status]
        PROVE  RowAfter(row, e) \in Order /\ RowAfter(row, e).req = row.req
    BY <1>1, <2>2, <2>6
  <2>7. ASSUME RowAfter(row, e) = CancelledOrder(f)
        PROVE  RowAfter(row, e) \in Order /\ RowAfter(row, e).req = row.req
    BY <1>2, <2>2, <2>7
  <2> QED
    BY <2>3, <2>4, <2>5, <2>6, <2>7
<1>4. CASE ~IsFill(e)
  <2>1. "REJECTED" \in OrderStatus
    BY DEF OrderStatus
  <2>2. \/ RowAfter(row, e) = [row EXCEPT !.status = "REJECTED"]
        \/ RowAfter(row, e) = CancelledOrder(row)
    BY <1>4, RowAfterIs
  <2> QED
    BY <1>1, <1>2, <2>1, <2>2
<1> QED
  BY <1>3, <1>4

(* What an admitted event writes, told from the tables as they are.           *)
Mark(c, e) == IF Got(c, "price") = {} THEN e.price ELSE Only(Got(c, "price")).price

LEMMA SettleWrites ==
    ASSUME LocksInv, NEW c \in Calls, Asks[c].kind = "event", Pending(c) = {},
           NEW e, e = Asks[c].event, ~Got(c, "processed"), ~NotAdmitted(Got(c, "order"), e),
           CanSettle(c, e), Settle(c, e),
           NEW row, row = orders[e.order], NEW req, req = row.req,
           NEW account, account = accounts[req.account]
    PROVE  /\ ReservedAfter(account, req, Closed(row, e)) >= 0
           /\ AccountChecks(ChargedAccount(account, row, e))
           /\ accounts' = [accounts EXCEPT ![req.account] = ChargedAccount(account, row, e)]
           /\ orders' = [orders EXCEPT ![e.order] = RowAfter(row, e)]
           /\ history' = [history EXCEPT ![e.order] = @ \o Audit(row, e, RowAfter(row, e))]
           /\ ~IsFill(e) => UNCHANGED <<fills, positions>>
           /\ IsFill(e) =>
                  /\ FillSettles(account, req, e) /\ IsNewFill(e)
                  /\ fills' = fills \cup {[order |-> e.order, event |-> e.id, exec |-> e.exec,
                                           quantity |-> e.quantity, price |-> e.price]}
                  /\ positions' = Put(positions, PositionKey(req),
                         ExecutedPosition(IF PositionKey(req) \in DOMAIN positions
                                          THEN positions[PositionKey(req)]
                                          ELSE FlatPosition(Mark(c, e)),
                                          req.side, e.quantity, e.price, Mark(c, e)))
           /\ Record(e, "APPLIED")
           /\ UNCHANGED <<submission, cancellation, atBroker, marketPrices>>
<1>1. /\ HoldsOrder(c, e.order) /\ row \in Order
      /\ req \in Requests /\ req.account \in DOMAIN accounts
      /\ Got(c, "order") = row
  BY EventReady
<1>2. ~NotAdmitted(row, e)
  BY <1>1, Zenon
<1>3. /\ Got(c, "account") = account
      /\ IsFill(e) => /\ HoldsPosition(c, req)
                      /\ Got(c, "position") = Rows(positions, PositionKey(req))
  BY <1>2, EventReady
<1>4. e.order \in DOMAIN orders /\ e \in FillEvent \cup StatusEvent
  BY <1>1, CallsAssumption DEF HoldsOrder
<1> DEFINE new == ChargedAccount(account, row, e)
<1>5. /\ IsFill(e) => FillSettles(account, req, e) /\ IsNewFill(e)
      /\ ReservedAfter(account, req, Closed(row, e)) >= 0
      /\ AccountChecks(new)
      /\ accounts' = Updated(accounts, req.account, account, new)
      /\ orders' = Updated(orders, e.order, row, RowAfter(row, e))
      /\ history' = [history EXCEPT ![e.order] = @ \o Audit(row, e, RowAfter(row, e))]
      /\ IF IsFill(e) THEN ExecuteFill(c, e, req) ELSE UNCHANGED <<fills, positions>>
      /\ Record(e, "APPLIED")
      /\ UNCHANGED <<submission, cancellation, atBroker, marketPrices>>
  <2>1. CanSettle(c, e) /\ Settle(c, e)
    OBVIOUS
  <2> HIDE DEF new
  <2> QED
    BY <1>1, <1>3, <2>1 DEF CanSettle, Settle, new
<1>6. accounts' = [accounts EXCEPT ![req.account] = new]
  <2>1. new = [k \in DOMAIN new |-> new[k]]
    BY DEF ChargedAccount, StoredAccount
  <2> HIDE DEF new
  <2>2. req.account \in DOMAIN accounts /\ account = accounts[req.account]
    BY <1>1
  <2>3. Updated(accounts, req.account, account, new) = [accounts EXCEPT ![req.account] = new]
    BY <2>1, <2>2, UpdatedIs
  <2> QED
    BY <1>5, <2>3, Zenon
<1>7. orders' = [orders EXCEPT ![e.order] = RowAfter(row, e)]
  <2>1. RowAfter(row, e) = [k \in DOMAIN RowAfter(row, e) |-> RowAfter(row, e)[k]]
    BY <1>1, <1>2, <1>4, RowAfterType, OrderIsRow
  <2>2. Updated(orders, e.order, row, RowAfter(row, e))
            = [orders EXCEPT ![e.order] = RowAfter(row, e)]
    <3> DEFINE after == RowAfter(row, e)
    <3>1. e.order \in DOMAIN orders /\ row = orders[e.order]
      BY <1>4
    <3>2. after = [k \in DOMAIN after |-> after[k]]
      BY <2>1
    <3> HIDE DEF after
    <3>3. Updated(orders, e.order, row, after) = [orders EXCEPT ![e.order] = after]
      BY <3>1, <3>2, UpdatedIs
    <3> QED
      BY <3>3 DEF after
  <2> QED
    BY <1>5, <2>2, Zenon
<1>8. ASSUME IsFill(e)
      PROVE  /\ fills' = fills \cup {[order |-> e.order, event |-> e.id, exec |-> e.exec,
                                      quantity |-> e.quantity, price |-> e.price]}
             /\ positions' = Put(positions, PositionKey(req),
                    ExecutedPosition(IF PositionKey(req) \in DOMAIN positions
                                     THEN positions[PositionKey(req)]
                                     ELSE FlatPosition(Mark(c, e)),
                                     req.side, e.quantity, e.price, Mark(c, e)))
  <2> DEFINE key == PositionKey(req)
             found == Got(c, "position")
             read == IF found = {} THEN FlatPosition(Mark(c, e)) ELSE Only(found)
             next == ExecutedPosition(read, req.side, e.quantity, e.price, Mark(c, e))
  <2>1. /\ fills' = fills \cup {[order |-> e.order, event |-> e.id, exec |-> e.exec,
                                 quantity |-> e.quantity, price |-> e.price]}
        /\ positions' = IF found = {} THEN Put(positions, key, next)
                                      ELSE Updated(positions, key, read, next)
    BY <1>5, <1>8 DEF ExecuteFill, Mark, PositionKey
  <2>2. found = Rows(positions, key)
    BY <1>3, <1>8
  <2>3. next = [k \in DOMAIN next |-> next[k]]
    BY DEF ExecutedPosition
  <2>4. CASE key \in DOMAIN positions
    <3>1. found = {positions[key]} /\ Only(found) = positions[key]
      BY <2>2, <2>4 DEF Rows, Only
    <3>2. positions' = [positions EXCEPT ![key] = next]
      <4> HIDE DEF next
      <4> QED
        BY <2>1, <2>3, <2>4, <3>1, UpdatedIs
    <3>3. positions' = Put(positions, key, next)
      <4> HIDE DEF next, key
      <4> QED
        BY <2>4, <3>2 DEF Put
    <3> QED
      BY <2>1, <2>4, <3>1, <3>3
  <2>5. CASE key \notin DOMAIN positions
    <3>1. found = {}
      BY <2>2, <2>5 DEF Rows
    <3> QED
      BY <2>1, <2>5, <3>1
  <2> QED
    BY <2>4, <2>5
<1> QED
  BY <1>5, <1>6, <1>7, <1>8

LEMMA UnchangedOnlyLocked ==
    ASSUME LocksInv, NEW c \in Calls, UNCHANGED vars
    PROVE  OnlyLockedRows(c)
  BY DEF OnlyLockedRows, LocksInv, vars, orderVars, ledgerVars, bookVars

LEMMA CreateOnlyLocked ==
    ASSUME LocksInv, NEW c \in Calls, Asks[c].kind = "create", Pending(c) = {},
           CommitOrder(c, Asks[c].order, Asks[c].req)
    PROVE  OnlyLockedRows(c)
<1> DEFINE o == Asks[c].order
           req == Asks[c].req
           account == Got(c, "account")
<1>1. req \in Requests /\ HoldsAccount(c, req) /\ account = accounts[req.account]
  BY CreateReady
<1>2. AccountOf(req) \in held[c] /\ req.account \in DOMAIN accounts
  BY <1>1 DEF HoldsAccount
<1>3. CASE UNCHANGED vars
  BY <1>3, UnchangedOnlyLocked
<1>4. ASSUME NEW status \in OrderStatus, NEW audit, NEW call, AddOrder(o, req, status, audit, call),
             \/ UNCHANGED accounts
             \/ \E read, new : accounts' = Updated(accounts, req.account, read, new)
      PROVE  OnlyLockedRows(c)
  <2>1. /\ DOMAIN accounts' = DOMAIN accounts
        /\ \A a \in DOMAIN accounts : <<"account", a>> \notin held[c] => accounts'[a] = accounts[a]
    BY <1>2, <1>4 DEF Updated, AccountOf
  <2>2. /\ o \notin DOMAIN orders
        /\ orders' = Put(orders, o, NewOrder(req, status))
        /\ UNCHANGED <<processed, atBroker, positions, marketPrices>>
    BY <1>4 DEF AddOrder, bookVars
  <2> DEFINE new == NewOrder(req, status)
  <2>3. new \in Order /\ new.req = req
    BY <1>1, <1>4, NewOrderType DEF NewOrder
  <2> HIDE DEF new
  <2>4. /\ DOMAIN orders' = DOMAIN orders \cup {o}
        /\ orders'[o] = new
        /\ \A p \in DOMAIN orders : orders'[p] = orders[p]
        /\ orders' \in [DOMAIN orders' -> Order]
    BY <2>2, <2>3 DEF Put, LocksInv, new
  <2>5. \A p \in DOMAIN orders' \ DOMAIN orders : AccountOf(orders'[p].req) \in held[c]
    BY <1>2, <2>3, <2>4
  <2> QED
    BY <2>1, <2>2, <2>4, <2>5 DEF OnlyLockedRows
<1>5. "ROUTED" \in OrderStatus /\ "REJECTED" \in OrderStatus
  BY DEF OrderStatus
<1> QED
  BY <1>3, <1>4, <1>5 DEF CommitOrder

LEMMA CancelOnlyLocked ==
    ASSUME LocksInv, NEW c \in Calls, Asks[c].kind = "cancel", Pending(c) = {},
           CommitCancellation(c, Asks[c].order)
    PROVE  OnlyLockedRows(c)
<1> DEFINE o == Asks[c].order
           row == orders[o]
           new == [row EXCEPT !.status = "CANCEL_PENDING"]
<1>1. HoldsOrder(c, o) /\ row \in Order /\ Got(c, "order") = row
  BY CancelReady
<1>2. CASE UNCHANGED vars
  BY <1>2, UnchangedOnlyLocked
<1>3. ASSUME orders' = Updated(orders, o, row, new),
             UNCHANGED <<accounts, processed, positions, marketPrices, atBroker>>
      PROVE  OnlyLockedRows(c)
  <2>1. new \in Order /\ new.req = row.req
    BY <1>1 DEF Order, OrderStatus
  <2>2. new = [k \in DOMAIN new |-> new[k]]
    OBVIOUS
  <2>3. o \in DOMAIN orders /\ OrderOf(o) \in held[c]
    BY <1>1 DEF HoldsOrder
  <2> HIDE DEF new
  <2>4. orders' = [orders EXCEPT ![o] = new]
    BY <1>3, <2>2, <2>3, UpdatedIs
  <2>5. /\ DOMAIN orders' = DOMAIN orders
        /\ orders' \in [DOMAIN orders' -> Order]
        /\ orders'[o] = new
        /\ \A p \in DOMAIN orders \ {o} : orders'[p] = orders[p]
    BY <2>1, <2>3, <2>4 DEF LocksInv
  <2> QED
    BY <1>3, <2>1, <2>3, <2>5 DEF OnlyLockedRows
<1> QED
  BY <1>1, <1>2, <1>3 DEF CommitCancellation, ledgerVars, bookVars

LEMMA FailureOnlyLocked ==
    ASSUME LocksInv, NEW c \in Calls, Asks[c].kind = "failure", Pending(c) = {},
           MarkRoutingFailure(Asks[c].order)
    PROVE  OnlyLockedRows(c)
<1> DEFINE o == Asks[c].order
           req == orders[o].req
           new == [orders[o] EXCEPT !.status = "REJECTED"]
<1>1. HoldsOrder(c, o) /\ orders[o] \in Order /\ HoldsAccount(c, req)
  BY FailureReady
<1>2. /\ o \in DOMAIN orders /\ OrderOf(o) \in held[c]
      /\ req.account \in DOMAIN accounts /\ <<"account", req.account>> \in held[c]
  BY <1>1 DEF HoldsOrder, HoldsAccount, AccountOf
<1>3. new \in Order /\ new.req = req
  BY <1>1 DEF Order, OrderStatus
<1>4. /\ accounts' = accounts \/ \E row : accounts' = [accounts EXCEPT ![req.account] = row]
      /\ orders' = orders \/ orders' = [orders EXCEPT ![o] = new]
      /\ UNCHANGED <<atBroker, processed, positions, marketPrices>>
  BY DEF MarkRoutingFailure, SaveAccount, SaveOrder, bookVars
<1>5. /\ DOMAIN accounts' = DOMAIN accounts
      /\ \A a \in DOMAIN accounts : <<"account", a>> \notin held[c] => accounts'[a] = accounts[a]
  BY <1>2, <1>4
<1> HIDE DEF new
<1>6. /\ DOMAIN orders' = DOMAIN orders
      /\ orders' \in [DOMAIN orders' -> Order]
      /\ orders'[o].req = req
      /\ \A p \in DOMAIN orders \ {o} : orders'[p] = orders[p]
  BY <1>2, <1>3, <1>4 DEF LocksInv
<1>7. \A p \in DOMAIN orders :
          /\ p \in DOMAIN orders' /\ orders'[p].req = orders[p].req
          /\ OrderOf(p) \notin held[c] => orders'[p] = orders[p]
  BY <1>2, <1>6
<1> QED
  BY <1>4, <1>5, <1>6, <1>7 DEF OnlyLockedRows

LEMMA RecordAdds ==
    ASSUME NEW e, NEW outcome, Record(e, outcome)
    PROVE  DOMAIN processed' = DOMAIN processed \cup {e.id}
  BY DEF Record, Put

LEMMA EventOnlyLocked ==
    ASSUME LocksInv, NEW c \in Calls, Asks[c].kind = "event", Pending(c) = {},
           CommitEvent(c, Asks[c].event)
    PROVE  OnlyLockedRows(c)
<1> DEFINE e == Asks[c].event
           o == e.order
           row == orders[o]
           req == row.req
<1>1. /\ HoldsOrder(c, o) /\ row \in Order /\ req \in Requests
      /\ req.account \in DOMAIN accounts /\ Got(c, "order") = row
  BY EventReady
<1>2. e \in FillEvent \cup StatusEvent /\ o \in DOMAIN orders /\ OrderOf(o) \in held[c]
  BY <1>1, CallsAssumption DEF HoldsOrder
<1>3. CASE UNCHANGED vars
  BY <1>3, UnchangedOnlyLocked
<1>4. ASSUME Record(e, "IGNORED"),
             UNCHANGED <<accounts, orders, fills, submission, cancellation, atBroker, bookVars>>
      PROVE  OnlyLockedRows(c)
  BY <1>2, <1>4, RecordAdds DEF OnlyLockedRows, LocksInv, bookVars
<1>5. ASSUME ~Got(c, "processed"), ~NotAdmitted(Got(c, "order"), e),
             CanSettle(c, e), Settle(c, e)
      PROVE  OnlyLockedRows(c)
  <2> DEFINE after == RowAfter(row, e)
             key == PositionKey(req)
             account == ChargedAccount(accounts[req.account], row, e)
             position == ExecutedPosition(IF key \in DOMAIN positions THEN positions[key]
                                                                      ELSE FlatPosition(Mark(c, e)),
                                          req.side, e.quantity, e.price, Mark(c, e))
  <2>1. /\ accounts' = [accounts EXCEPT ![req.account] = account]
        /\ orders' = [orders EXCEPT ![o] = after]
        /\ ~IsFill(e) => UNCHANGED positions
        /\ IsFill(e) => positions' = Put(positions, key, position)
        /\ Record(e, "APPLIED")
        /\ UNCHANGED <<atBroker, marketPrices>>
    BY <1>5, SettleWrites
  <2> HIDE DEF account, position
  <2>2. ~NotAdmitted(row, e)
    BY <1>1, <1>5, Zenon
  <2>3. HoldsAccount(c, req) /\ (IsFill(e) => HoldsPosition(c, req))
    BY <2>2, <1>5, EventReady
  <2>4. after \in Order /\ after.req = req
    BY <1>1, <1>2, <2>2, RowAfterType
  <2>5. /\ DOMAIN accounts' = DOMAIN accounts
        /\ \A a \in DOMAIN accounts : <<"account", a>> \notin held[c] => accounts'[a] = accounts[a]
    BY <1>1, <2>1, <2>3 DEF HoldsAccount, AccountOf
  <2>6. /\ DOMAIN orders' = DOMAIN orders
        /\ orders' \in [DOMAIN orders' -> Order]
        /\ orders'[o] = after
        /\ \A p \in DOMAIN orders \ {o} : orders'[p] = orders[p]
    <3> HIDE DEF after
    <3> QED
      BY <1>2, <2>1, <2>4 DEF LocksInv
  <2>7. \A k \in DOMAIN positions :
            k \in DOMAIN positions' /\ (<<"position", k>> \notin held[c] => positions'[k] = positions[k])
    BY <2>1, <2>3 DEF Put, HoldsPosition, PositionOf
  <2>8. \A k \in DOMAIN positions' \ DOMAIN positions : <<"account", k[1]>> \in held[c]
    <3>1. key[1] = req.account
      BY DEF PositionKey
    <3> HIDE DEF key
    <3>2. \A k \in DOMAIN positions' \ DOMAIN positions : k = key
      BY <2>1 DEF Put
    <3> QED
      BY <2>3, <3>1, <3>2 DEF HoldsAccount, AccountOf
  <2>10. DOMAIN processed' = DOMAIN processed \cup {e.id}
    BY <2>1, RecordAdds
  <2> HIDE DEF after
  <2>9. \A p \in DOMAIN orders :
            /\ p \in DOMAIN orders' /\ orders'[p].req = orders[p].req
            /\ OrderOf(p) \notin held[c] => orders'[p] = orders[p]
    BY <1>2, <2>4, <2>6
  <2> QED
    BY <1>2, <2>1, <2>5, <2>6, <2>7, <2>8, <2>9, <2>10 DEF OnlyLockedRows
<1> QED
  BY <1>3, <1>4, <1>5 DEF CommitEvent

LEMMA TickOnlyLocked ==
    ASSUME LocksInv, NEW c \in Calls, Asks[c].kind = "tick", Pending(c) = {},
           CommitTick(c, Asks[c])
    PROVE  OnlyLockedRows(c)
<1>1. CASE UNCHANGED vars
  BY <1>1, UnchangedOnlyLocked
<1>2. CASE ~UNCHANGED vars
  <2>1. PICK new : positions' = [k \in DOMAIN positions |->
                IF <<"position", k>> \in DOMAIN seen[c] THEN new[k] ELSE positions[k]]
    <3> DEFINE new == [k \in DOMAIN positions |->
                          LET read == Only(seen[c][<<"position", k>>])
                          IN  UpdatedRow(positions[k], read, MarkedPosition(read, Asks[c].price))]
    <3>1. positions' = [k \in DOMAIN positions |->
                IF <<"position", k>> \in DOMAIN seen[c] THEN new[k] ELSE positions[k]]
      BY <1>2 DEF CommitTick
    <3> QED
      BY <3>1
  <2>2. UNCHANGED <<orderVars, ledgerVars>>
    BY <1>2 DEF CommitTick
  <2>3. \A k : <<"position", k>> \in DOMAIN seen[c] => <<"position", k>> \in held[c]
    BY TickReady
  <2> QED
    BY <2>1, <2>2, <2>3 DEF OnlyLockedRows, LocksInv, orderVars, ledgerVars
<1> QED
  BY <1>1, <1>2

LEMMA CommitOnlyLocked ==
    ASSUME LocksInv, NEW c \in Calls, Commit(c)
    PROVE  /\ OnlyLockedRows(c) /\ DOMAIN seen[c] # {}
           /\ ended' = ended \cup {c}
           /\ DOMAIN seen' = Calls /\ DOMAIN held' = Calls
           /\ DOMAIN seen'[c] = {} /\ held'[c] = {}
           /\ \A d \in Calls \ {c} : seen'[d] = seen[d] /\ held'[d] = held[d]
<1>1. OnlyLockedRows(c)
  BY CreateOnlyLocked, CancelOnlyLocked, EventOnlyLocked, TickOnlyLocked, FailureOnlyLocked
     DEF Commit
<1>2. DOMAIN seen[c] # {}
  <2>1. Pending(c) = {}
    BY DEF Commit
  <2> QED
    BY <2>1, CreateReady, CancelReady, EventReady, TickReady, FailureReady, CallsAssumption
<1>3. /\ ended' = ended \cup {c}
      /\ seen' = [seen EXCEPT ![c] = NoRows] /\ held' = [held EXCEPT ![c] = {}]
  BY DEF Commit
<1> QED
  BY <1>1, <1>2, <1>3 DEF LocksInv, NoRows

-----------------------------------------------------------------------------
(* What one call commits is nothing another call has read under a lock.       *)

LEMMA CreateUndisturbed ==
    ASSUME LocksInv, NEW c \in Calls, NEW d \in Calls, c # d, OnlyLockedRows(c),
           Asks[d].kind = "create", seen'[d] = seen[d], held'[d] = held[d]
    PROVE  CreateReads(d)'
<1> DEFINE req == Asks[d].req
           rows == DOMAIN seen[d]
<1>1. CreateReads(d) /\ held[c] \cap held[d] = {}
  BY DEF LocksInv, CallReads
<1>2. CASE rows = {}
  BY <1>2 DEF CreateReads
<1>3. CASE rows # {}
  <2>1. /\ AccountOf(req) \in rows /\ HoldsAccount(d, req)
        /\ AccountOf(req) \in held[d] /\ AccountOf(req) \notin held[c]
    BY <1>1, <1>3 DEF CreateReads, HoldsAccount
  <2>2. HoldsAccount(d, req)'
    BY <2>1 DEF OnlyLockedRows, HoldsAccount, AccountOf
  <2>3. ASSUME NEW p \in DOMAIN orders', orders'[p].req.account = req.account
        PROVE  p \in DOMAIN orders /\ orders'[p].req = orders[p].req
    <3>1. AccountOf(orders'[p].req) = AccountOf(req)
      BY <2>3 DEF AccountOf
    <3> QED
      BY <2>1, <3>1 DEF OnlyLockedRows
  <2>4. (NewKey(req) => NewKey(req)') /\ (NewClient(req) => NewClient(req)')
    BY <2>3 DEF NewKey, NewClient
  <2>5. /\ RequestOf(req) \in rows /\ ~seen'[d][RequestOf(req)] => NewKey(req)'
        /\ ClientOf(req) \in rows /\ ~seen'[d][ClientOf(req)] => NewClient(req)'
    <3>1. seen'[d] = seen[d]
      OBVIOUS
    <3> QED
      BY <1>1, <2>4, <3>1, Zenon DEF CreateReads
  <2>6. rows' = rows /\ rows \subseteq {AccountOf(req), RequestOf(req), ClientOf(req)}
    BY <1>1 DEF CreateReads
  <2> QED
    BY <2>1, <2>2, <2>5, <2>6, Zenon DEF CreateReads
<1> QED
  BY <1>2, <1>3

LEMMA CancelUndisturbed ==
    ASSUME LocksInv, NEW c \in Calls, NEW d \in Calls, c # d, OnlyLockedRows(c),
           Asks[d].kind = "cancel", seen'[d] = seen[d], held'[d] = held[d]
    PROVE  CancelReads(d)'
<1>1. CancelReads(d) /\ held[c] \cap held[d] = {}
  BY DEF LocksInv, CallReads
<1> QED
  BY <1>1 DEF CancelReads, HoldsOrder, OnlyLockedRows

LEMMA FailureUndisturbed ==
    ASSUME LocksInv, NEW c \in Calls, NEW d \in Calls, c # d, OnlyLockedRows(c),
           Asks[d].kind = "failure", seen'[d] = seen[d], held'[d] = held[d]
    PROVE  FailureReads(d)'
<1> DEFINE o == Asks[d].order
           req == orders[o].req
           rows == DOMAIN seen[d]
<1>1. FailureReads(d) /\ held[c] \cap held[d] = {}
  BY DEF LocksInv, CallReads
<1>2. CASE rows = {}
  BY <1>2 DEF FailureReads
<1>3. CASE rows # {}
  <2>1. OrderOf(o) \in rows /\ HoldsOrder(d, o)
    BY <1>1, <1>3 DEF FailureReads
  <2>2. HoldsOrder(d, o)' /\ req' = req
    BY <1>1, <2>1 DEF HoldsOrder, OnlyLockedRows
  <2>3. ASSUME AccountOf(req) \in rows PROVE HoldsAccount(d, req)'
    <3>1. HoldsAccount(d, req) /\ AccountOf(req) \notin held[c]
      BY <1>1, <2>3 DEF FailureReads, HoldsAccount
    <3> QED
      BY <2>2, <3>1 DEF OnlyLockedRows, HoldsAccount, AccountOf
  <2>4. rows' = rows /\ rows \subseteq {OrderOf(o), AccountOf(req)}
    BY <1>1 DEF FailureReads
  <2> HIDE DEF req, rows
  <2> QED
    BY <2>1, <2>2, <2>3, <2>4 DEF FailureReads, req, rows
<1> QED
  BY <1>2, <1>3

LEMMA EventUndisturbed ==
    ASSUME LocksInv, NEW c \in Calls, NEW d \in Calls, c # d, OnlyLockedRows(c),
           Asks[d].kind = "event", seen'[d] = seen[d], held'[d] = held[d]
    PROVE  EventReads(d)'
<1> DEFINE e == Asks[d].event
           o == e.order
           req == orders[o].req
           rows == DOMAIN seen[d]
<1>1. EventReads(d) /\ held[c] \cap held[d] = {}
  BY DEF LocksInv, CallReads
<1>2. CASE rows = {}
  BY <1>2 DEF EventReads
<1>3. CASE rows # {}
  <2>1. OrderOf(o) \in rows /\ OrderOf(o) \in held[d] /\ o \in DOMAIN orders /\ HoldsOrder(d, o)
    BY <1>1, <1>3 DEF EventReads, HoldsOrder
  <2>2. HoldsOrder(d, o)' /\ orders'[o].req = req
    BY <1>1, <2>1 DEF HoldsOrder, OnlyLockedRows
  <2>3. ASSUME DeliveryOf(e) \in rows, ~seen'[d][DeliveryOf(e)]
        PROVE  e.id \notin DOMAIN processed'
    <3>1. ~seen[d][DeliveryOf(e)]
      <4>1. seen'[d][DeliveryOf(e)] = seen[d][DeliveryOf(e)]
        OBVIOUS
      <4> QED
        BY <2>3, <4>1, Zenon
    <3>2. e.id \notin DOMAIN processed
      BY <1>1, <2>3, <3>1, Zenon DEF EventReads
    <3>3. ASSUME e.id \in DOMAIN processed' PROVE FALSE
      <4>1. /\ Asks[c].kind = "event" /\ e.id = Asks[c].event.id
            /\ OrderOf(Asks[c].event.order) \in held[c]
        BY <3>2, <3>3 DEF OnlyLockedRows
      <4>2. Asks[c].event.order = o
        BY <4>1, EventIdsAssumption
      <4> QED
        BY <1>1, <2>1, <4>1, <4>2
    <3> QED
      BY <3>3
  <2>4. ASSUME AccountOf(req) \in rows
        PROVE  HoldsAccount(d, req)' /\ DeliveryOf(e) \in rows
    <3>1. HoldsAccount(d, req) /\ DeliveryOf(e) \in rows
      BY <1>1, <2>4 DEF EventReads
    <3>2. AccountOf(req) \notin held[c] /\ req' = req
      BY <1>1, <2>2, <3>1 DEF HoldsAccount
    <3> QED
      BY <3>1, <3>2 DEF OnlyLockedRows, HoldsAccount, AccountOf
  <2>5. ASSUME PositionOf(req) \in rows
        PROVE  HoldsPosition(d, req)' /\ AccountOf(req) \in rows
    <3> DEFINE key == PositionKey(req)
    <3>1. HoldsPosition(d, req) /\ AccountOf(req) \in rows /\ AccountOf(req) \in held[d]
      BY <1>1, <2>5 DEF EventReads, HoldsAccount
    <3>2. key' = key /\ PositionOf(req)' = PositionOf(req) /\ key[1] = req.account
      BY <2>2 DEF PositionKey, PositionOf
    <3>3. CASE key \in DOMAIN positions
      <4>1. PositionOf(req) \in held[d] /\ PositionOf(req) \notin held[c]
        BY <1>1, <3>1, <3>3 DEF HoldsPosition
      <4>2. key \in DOMAIN positions' /\ positions'[key] = positions[key]
        BY <3>3, <4>1 DEF OnlyLockedRows, PositionOf
      <4>3. Rows(positions, key)' = Rows(positions, key)
        <5> HIDE DEF key
        <5> QED
          BY <3>2, <3>3, <4>2 DEF Rows
      <4> QED
        BY <2>2, <3>1, <3>2, <4>1, <4>3 DEF HoldsPosition
    <3>4. CASE key \notin DOMAIN positions
      <4>1. <<"account", key[1]>> \notin held[c]
        BY <1>1, <3>1, <3>2 DEF AccountOf
      <4>2. key \notin DOMAIN positions'
        <5> HIDE DEF key
        <5> QED
          BY <3>4, <4>1 DEF OnlyLockedRows
      <4>3. Rows(positions, key) = {} /\ Rows(positions, key)' = {}
        <5> HIDE DEF key
        <5> QED
          BY <3>2, <3>4, <4>2 DEF Rows
      <4> QED
        BY <2>2, <3>1, <3>2, <4>2, <4>3 DEF HoldsPosition
    <3> QED
      BY <3>3, <3>4
  <2>6. req' = req /\ rows' = rows
    BY <2>2
  <2>7. /\ rows \subseteq {OrderOf(o), DeliveryOf(e), AccountOf(req), PositionOf(req),
                           PriceOf(req.symbol)}
        /\ PriceOf(req.symbol) \in rows => PositionOf(req) \in rows
    BY <1>1 DEF EventReads
  <2>8. DeliveryOf(e) \in rows /\ ~seen'[d][DeliveryOf(e)] => e.id \notin DOMAIN processed'
    BY <2>3, Zenon
  <2> HIDE DEF req, rows
  <2>9. /\ AccountOf(req) \in rows => HoldsAccount(d, req)' /\ DeliveryOf(e) \in rows
        /\ PositionOf(req) \in rows => HoldsPosition(d, req)' /\ AccountOf(req) \in rows
    BY <2>4, <2>5
  <2> QED
    BY <2>1, <2>2, <2>6, <2>7, <2>8, <2>9 DEF EventReads, req, rows
<1> QED
  BY <1>2, <1>3

LEMMA TickUndisturbed ==
    ASSUME LocksInv, NEW c \in Calls, NEW d \in Calls, c # d, OnlyLockedRows(c),
           Asks[d].kind = "tick", seen'[d] = seen[d], held'[d] = held[d],
           Asks[c].kind = "tick" => DOMAIN seen[d] = {}
    PROVE  TickReads(d)'
<1> DEFINE symbol == Asks[d].symbol
           rows == DOMAIN seen[d]
<1>1. TickReads(d) /\ held[c] \cap held[d] = {}
  BY DEF LocksInv, CallReads
<1>2. CASE rows = {}
  BY <1>2 DEF TickReads
<1>3. CASE rows # {}
  <2>1. PriceOf(symbol) \in rows /\ seen[d][PriceOf(symbol)] = Rows(marketPrices, symbol)
    BY <1>1, <1>3 DEF TickReads
  <2>2. Rows(marketPrices, symbol)' = Rows(marketPrices, symbol)
    BY <1>3 DEF OnlyLockedRows, Rows
  <2>3. KeysOf(symbol) \in rows =>
            seen[d][KeysOf(symbol)] \subseteq {k \in DOMAIN positions' : k[2] = symbol}
    BY <1>1 DEF TickReads, OnlyLockedRows
  <2>4. ASSUME NEW row \in rows \ {PriceOf(symbol), KeysOf(symbol)}
        PROVE  \E k \in DOMAIN positions' :
                   /\ row = <<"position", k>> /\ row \in held[d]
                   /\ KeysOf(symbol) \in rows /\ k \in seen[d][KeysOf(symbol)]
                   /\ seen[d][row] = {positions'[k]}
    <3>1. PICK k \in DOMAIN positions :
              /\ row = <<"position", k>> /\ row \in held[d]
              /\ KeysOf(symbol) \in rows /\ k \in seen[d][KeysOf(symbol)]
              /\ seen[d][row] = {positions[k]}
      BY <1>1, <2>4 DEF TickReads
    <3>2. k \in DOMAIN positions' /\ positions'[k] = positions[k]
      BY <1>1, <3>1 DEF OnlyLockedRows
    <3> QED
      BY <3>1, <3>2
  <2> QED
    BY <2>1, <2>2, <2>3, <2>4 DEF TickReads, PriceOf, KeysOf
<1> QED
  BY <1>2, <1>3

LEMMA CommitKeeps ==
    ASSUME LocksInv, NEW c \in Calls, Commit(c)
    PROVE  LocksInv'
<1>1. /\ OnlyLockedRows(c) /\ DOMAIN seen[c] # {}
      /\ ended' = ended \cup {c}
      /\ DOMAIN seen' = Calls /\ DOMAIN held' = Calls
      /\ DOMAIN seen'[c] = {} /\ held'[c] = {}
      /\ \A d \in Calls \ {c} : seen'[d] = seen[d] /\ held'[d] = held[d]
  BY CommitOnlyLocked
<1>2. CallReads(c)'
  BY <1>1 DEF CallReads, CreateReads, CancelReads, EventReads, TickReads, FailureReads
<1>3. ASSUME NEW d \in Calls, d # c PROVE CallReads(d)'
  <2>1. seen'[d] = seen[d] /\ held'[d] = held[d]
    BY <1>1, <1>3
  <2>2. ASSUME Asks[c].kind = "tick", Asks[d].kind = "tick" PROVE DOMAIN seen[d] = {}
    <3>1. c \in After[d] \/ d \in After[c]
      BY <1>3, <2>2, TicksAssumption
    <3>2. c \notin ended /\ After[c] \subseteq ended
      BY <1>1 DEF LocksInv, CallReads
    <3>3. DOMAIN seen[d] # {} => d \notin ended /\ After[d] \subseteq ended
      BY DEF LocksInv, CallReads
    <3> QED
      BY <3>1, <3>2, <3>3
  <2>3. DOMAIN seen'[d] # {} => d \notin ended' /\ After[d] \subseteq ended'
    BY <1>1, <1>3, <2>1 DEF LocksInv, CallReads
  <2>4. /\ Asks[d].kind = "create" => CreateReads(d)'
        /\ Asks[d].kind = "cancel" => CancelReads(d)'
        /\ Asks[d].kind = "event" => EventReads(d)'
        /\ Asks[d].kind = "tick" => TickReads(d)'
        /\ Asks[d].kind = "failure" => FailureReads(d)'
    BY <1>1, <1>3, <2>1, <2>2,
       CreateUndisturbed, CancelUndisturbed, EventUndisturbed, TickUndisturbed, FailureUndisturbed
  <2> QED
    BY <2>3, <2>4 DEF CallReads
<1>4. \A b, d \in Calls : b # d => held'[b] \cap held'[d] = {}
  BY <1>1 DEF LocksInv
<1>5. /\ DOMAIN accounts' = Accounts /\ orders' \in [DOMAIN orders' -> Order]
      /\ atBroker' \subseteq DOMAIN orders'
  BY <1>1 DEF OnlyLockedRows, LocksInv
<1> QED
  BY <1>1, <1>2, <1>3, <1>4, <1>5 DEF LocksInv

LEMMA BrokerCallsKeep ==
    ASSUME LocksInv, NEW o \in DOMAIN orders, CallBroker(o)
    PROVE  LocksInv'
<1>1. /\ UNCHANGED <<accounts, orders, processed, positions, marketPrices>>
      /\ UNCHANGED <<seen, held, ended>>
      /\ atBroker' \subseteq atBroker \cup {o}
  BY DEF CallBroker, Submit, SubmitRaises, NotifyCancel, ledgerVars, bookVars, lockVars
<1>2. \A c \in Calls : CallReads(c)'
  BY <1>1, ReadsStay DEF LocksInv
<1> QED
  BY <1>1, <1>2 DEF LocksInv

LEMMA LocksInvInit ==
    ASSUME LocksInit
    PROVE  LocksInv
<1>1. DOMAIN NoRows = {} /\ NoRows \in [DOMAIN NoRows -> Order]
  BY NoRowsType
<1>2. \A c \in Calls : DOMAIN seen[c] = {}
  BY <1>1 DEF LocksInit
<1>3. \A c \in Calls : CallReads(c)
  BY <1>2 DEF CallReads, CreateReads, CancelReads, EventReads, TickReads, FailureReads
<1> QED
  BY <1>1, <1>3 DEF LocksInit, LocksInv

LEMMA LocksInvStep ==
    ASSUME LocksInv, [LocksNext]_lockedVars
    PROVE  LocksInv'
<1>1. CASE LocksNext
  BY <1>1, RunsKeep, CommitKeeps, BrokerCallsKeep DEF LocksNext
<1>2. CASE UNCHANGED lockedVars
  <2>1. /\ UNCHANGED <<accounts, orders, processed, positions, marketPrices, atBroker>>
        /\ UNCHANGED <<seen, held, ended>>
    BY <1>2 DEF lockedVars, lockVars, vars, orderVars, ledgerVars, bookVars
  <2>2. \A c \in Calls : CallReads(c)'
    BY <2>1, ReadsStay DEF LocksInv
  <2> QED
    BY <2>1, <2>2 DEF LocksInv
<1> QED
  BY <1>1, <1>2

(* The tables each kind of call reads.                                        *)
LEMMA RowTables ==
    ASSUME LocksInv, NEW c \in Calls, NEW row \in DOMAIN seen[c]
    PROVE  /\ Asks[c].kind = "create" => row[1] \in {"account", "request", "client"}
           /\ Asks[c].kind = "cancel" => row[1] = "order"
           /\ Asks[c].kind = "event" =>
                  row[1] \in {"order", "processed", "account", "position", "price"}
           /\ Asks[c].kind = "tick" => row[1] \in {"price", "keys", "position"}
           /\ Asks[c].kind = "failure" => row[1] \in {"order", "account"}
<1>1. CallReads(c)
  BY DEF LocksInv
<1>2. CreateReads(c) => row[1] \in {"account", "request", "client"}
  BY DEF CreateReads, AccountOf, RequestOf, ClientOf
<1>3. CancelReads(c) => row[1] = "order"
  BY DEF CancelReads, OrderOf
<1>4. EventReads(c) => row[1] \in {"order", "processed", "account", "position", "price"}
  BY DEF EventReads, OrderOf, DeliveryOf, AccountOf, PositionOf, PriceOf
<1>5. TickReads(c) => row[1] \in {"price", "keys", "position"}
  BY DEF TickReads, PriceOf, KeysOf
<1>6. FailureReads(c) => row[1] \in {"order", "account"}
  BY DEF FailureReads, OrderOf, AccountOf
<1> QED
  BY <1>1, <1>2, <1>3, <1>4, <1>5, <1>6 DEF CallReads

LEMMA LookupsFollow ==
    ASSUME LocksInv
    PROVE  LookupsStayTrue
<1>1. ASSUME NEW c \in Calls, Has(c, "request"), ~Got(c, "request")
      PROVE  NewKey(Asks[c].req)
  <2>1. Asks[c].kind = "create" /\ CreateReads(c)
    BY <1>1, RowTables, CallsAssumption DEF LocksInv, CallReads, Has
  <2> DEFINE row == RequestOf(Asks[c].req)
  <2>2. row[1] = "request" /\ \A r \in DOMAIN seen[c] : r[1] = "request" => r = row
    BY <2>1 DEF CreateReads, RequestOf, ClientOf, AccountOf
  <2>3. row \in DOMAIN seen[c]
    BY <1>1, <2>2 DEF Has
  <2>4. Got(c, "request") = seen[c][row]
    <3> HIDE DEF row
    <3> QED
      BY <2>2, <2>3, GotIs
  <2>5. ~seen[c][row]
    BY <1>1, <2>4, Zenon
  <2> QED
    BY <2>1, <2>3, <2>5, Zenon DEF CreateReads
<1>2. ASSUME NEW c \in Calls, Has(c, "client"), ~Got(c, "client")
      PROVE  NewClient(Asks[c].req)
  <2>1. Asks[c].kind = "create" /\ CreateReads(c)
    BY <1>2, RowTables, CallsAssumption DEF LocksInv, CallReads, Has
  <2> DEFINE row == ClientOf(Asks[c].req)
  <2>2. row[1] = "client" /\ \A r \in DOMAIN seen[c] : r[1] = "client" => r = row
    BY <2>1 DEF CreateReads, RequestOf, ClientOf, AccountOf
  <2>3. row \in DOMAIN seen[c]
    BY <1>2, <2>2 DEF Has
  <2>4. Got(c, "client") = seen[c][row]
    <3> HIDE DEF row
    <3> QED
      BY <2>2, <2>3, GotIs
  <2>5. ~seen[c][row]
    BY <1>2, <2>4, Zenon
  <2> QED
    BY <2>1, <2>3, <2>5, Zenon DEF CreateReads
<1>3. ASSUME NEW c \in Calls, Has(c, "processed"), ~Got(c, "processed")
      PROVE  Asks[c].event.id \notin DOMAIN processed
  <2>1. Asks[c].kind = "event" /\ EventReads(c)
    BY <1>3, RowTables, CallsAssumption DEF LocksInv, CallReads, Has
  <2> DEFINE row == DeliveryOf(Asks[c].event)
  <2>2. row[1] = "processed" /\ \A r \in DOMAIN seen[c] : r[1] = "processed" => r = row
    BY <2>1 DEF EventReads, OrderOf, DeliveryOf, AccountOf, PositionOf, PriceOf
  <2>3. row \in DOMAIN seen[c]
    BY <1>3, <2>2 DEF Has
  <2>4. Got(c, "processed") = seen[c][row]
    <3> HIDE DEF row
    <3> QED
      BY <2>2, <2>3, GotIs
  <2>5. ~seen[c][row]
    BY <1>3, <2>4, Zenon
  <2> QED
    BY <2>1, <2>3, <2>5, Zenon DEF EventReads
<1> QED
  BY <1>1, <1>2, <1>3 DEF LookupsStayTrue

LEMMA LocksInvInductive == LocksSpec => []LocksInv
  BY LocksInvInit, LocksInvStep, PTL DEF LocksSpec

(* However the statements of any calls interleave, a lookup that found no     *)
(* earlier order with the idempotency key or the client order id of the       *)
(* request, or no earlier delivery of the event, is still right when the      *)
(* transaction commits: create_order looks under its lock of the account,     *)
(* process_event under its lock of the order, and who inserts what they       *)
(* looked for needs the same lock.                                            *)
THEOREM LookupsAreStable == LocksSpec => []LookupsStayTrue
  BY LocksInvInductive, LookupsFollow, PTL

-----------------------------------------------------------------------------
(* A commit is one action of OrderManagement.                                 *)

(* What else an event and a tick have read is as it is in the tables: the     *)
(* price a fill marks with, and the positions a tick will mark.               *)
PricesCurrent ==
    \A c \in Calls :
        LET symbol == orders[Asks[c].event.order].req.symbol
        IN  Asks[c].kind = "event" /\ PriceOf(symbol) \in DOMAIN seen[c] =>
                seen[c][PriceOf(symbol)] = Rows(marketPrices, symbol)

KeysCurrent ==
    \A c \in Calls :
        LET symbol == Asks[c].symbol
        IN  Asks[c].kind = "tick" /\ KeysOf(symbol) \in DOMAIN seen[c] =>
                {k \in DOMAIN positions : k[2] = symbol} \subseteq seen[c][KeysOf(symbol)]

SerialInv == TypeOK /\ PricesCurrent /\ KeysCurrent

LEMMA AppendIs ==
    ASSUME TypeOK, NEW o \in DOMAIN orders,
           NEW type \in OrderEventType, NEW previous \in OrderStatus, NEW new \in OrderStatus
    PROVE  Append(history[o], Transition(type, previous, new))
               = history[o] \o <<Transition(type, previous, new)>>
<1>1. Transition(type, previous, new) \in OrderEvent /\ history[o] \in Seq(OrderEvent)
  BY TransitionType DEF TypeOK, OrdersTypeOK
<1> QED
  BY <1>1, AppendIsConcat

(* The room create_order checks is enough for the row it stores.              *)
LEMMA RoutedAccount ==
    ASSUME NEW account \in Account, account.reserved <= account.cash,
           NEW need \in Nat, need <= Wide(account.cash - account.reserved)
    PROVE  AccountChecks(StoredAccount(Wide(account.cash), Wide(account.reserved) + need))
<1> DEFINE cash == account.cash
           reserved == account.reserved
<1>1. Scale \in Nat \ {0} /\ cash \in Nat /\ reserved \in Nat
  BY ScaleAssumption DEF Account
<1>2. /\ Wide(cash) \in Nat /\ Wide(reserved) \in Nat
      /\ Wide(cash - reserved) = Wide(cash) - Wide(reserved)
  BY <1>1 DEF Wide
<1>3. Wide(reserved) + need \in Nat /\ Wide(reserved) + need <= Wide(cash)
  BY <1>1, <1>2
<1>4. 0 <= Stored(Wide(reserved) + need) /\ Stored(Wide(reserved) + need) <= Stored(Wide(cash))
  BY <1>2, <1>3, StoredMonotone
<1> QED
  BY <1>4 DEF AccountChecks, StoredAccount

LEMMA CreateIsSerial ==
    ASSUME LocksInv, TypeOK, NEW c \in Calls, Asks[c].kind = "create", Pending(c) = {},
           CommitOrder(c, Asks[c].order, Asks[c].req)
    PROVE  [Next]_vars
<1> DEFINE o == Asks[c].order
           req == Asks[c].req
           account == accounts[req.account]
           new == StoredAccount(Wide(account.cash),
                                Wide(account.reserved) + RequiredBuyingPower(req))
<1>1. o \in OrderIds /\ req \in Requests
  BY CallsAssumption
<1>2. /\ req.account \in DOMAIN accounts /\ Got(c, "account") = account
      /\ account \in Account /\ account.reserved <= account.cash
  BY CreateReady DEF HoldsAccount, TypeOK, AccountsTypeOK
<1>3. HasBuyingPower(req) <=> RequiredBuyingPower(req) <= Wide(account.cash - account.reserved)
  BY DEF HasBuyingPower, AvailableCash
<1>4. CASE UNCHANGED vars
  BY <1>4
<1>5. CASE /\ RequiredBuyingPower(req) <= Wide(account.cash - account.reserved)
           /\ AddOrder(o, req, "ROUTED",
                  <<Created, Transition("ORDER_VALIDATED", "NEW", "VALIDATED"),
                    Transition("ORDER_ROUTED", "VALIDATED", "ROUTED")>>,
                  [stage |-> "submitting", reservedBefore |-> account.reserved])
           /\ accounts' = Updated(accounts, req.account, account, new)
  <2>1. accounts' = [accounts EXCEPT ![req.account] = new]
    <3>1. new = [k \in DOMAIN new |-> new[k]]
      BY DEF StoredAccount
    <3> DEFINE read == account
    <3>2. req.account \in DOMAIN accounts /\ read = accounts[req.account]
      BY <1>2
    <3>3. accounts' = Updated(accounts, req.account, read, new)
      BY <1>5
    <3> HIDE DEF new, read, account
    <3>4. Updated(accounts, req.account, read, new) = [accounts EXCEPT ![req.account] = new]
      BY <3>1, <3>2, UpdatedIs
    <3> QED
      BY <3>3, <3>4, Zenon
  <2>2. AccountChecks(new)
    BY <1>1, <1>2, <1>5, RequestType, RoutedAccount
  <2>3. RouteNewOrder(o, req)
    BY <1>3, <1>5, <2>1, <2>2 DEF RouteNewOrder, SaveAccount
  <2> QED
    BY <1>1, <2>3 DEF Next
<1>6. CASE /\ ~(RequiredBuyingPower(req) <= Wide(account.cash - account.reserved))
           /\ AddOrder(o, req, "REJECTED",
                  <<Created, Transition("VALIDATION_FAILED", "NEW", "REJECTED")>>, Finished)
           /\ UNCHANGED accounts
  <2>1. RejectNewOrder(o, req)
    BY <1>3, <1>6 DEF RejectNewOrder
  <2> QED
    BY <1>1, <2>1 DEF Next
<1> QED
  BY <1>2, <1>4, <1>5, <1>6 DEF CommitOrder

LEMMA CancelIsSerial ==
    ASSUME LocksInv, TypeOK, NEW c \in Calls, Asks[c].kind = "cancel", Pending(c) = {},
           CommitCancellation(c, Asks[c].order)
    PROVE  [Next]_vars
<1> DEFINE o == Asks[c].order
           row == orders[o]
           new == [row EXCEPT !.status = "CANCEL_PENDING"]
           audit == Transition("CANCEL_REQUESTED", row.status, "CANCEL_PENDING")
<1>1. o \in DOMAIN orders /\ row \in Order /\ Got(c, "order") = row
  BY CancelReady DEF HoldsOrder
<1>2. CASE UNCHANGED vars
  BY <1>2
<1>3. CASE /\ row.status \in CANCELLABLE_ORDER_STATUSES
           /\ orders' = Updated(orders, o, row, new)
           /\ history' = [history EXCEPT ![o] = Append(@, audit)]
           /\ cancellation' = [cancellation EXCEPT ![o].pending = @ + 1]
           /\ UNCHANGED <<submission, atBroker, ledgerVars, bookVars>>
  <2>1. orders' = [orders EXCEPT ![o] = new]
    <3>1. new = [k \in DOMAIN new |-> new[k]] /\ orders' = Updated(orders, o, row, new)
      BY <1>3
    <3> DEFINE read == row
    <3>2. o \in DOMAIN orders /\ read = orders[o] /\ orders' = Updated(orders, o, read, new)
      BY <1>1, <1>3
    <3> HIDE DEF new, read, row
    <3>3. Updated(orders, o, read, new) = [orders EXCEPT ![o] = new]
      BY <3>1, <3>2, UpdatedIs
    <3> QED
      BY <3>2, <3>3, Zenon
  <2>2. Append(history[o], audit) = history[o] \o <<audit>>
    <3>1. row.status \in OrderStatus /\ "CANCEL_PENDING" \in OrderStatus
          /\ "CANCEL_REQUESTED" \in OrderEventType
      BY <1>1 DEF Order, OrderStatus, OrderEventType
    <3> QED
      BY <1>1, <3>1, AppendIs
  <2>3. history' = [history EXCEPT ![o] = @ \o <<audit>>]
    <3> HIDE DEF audit
    <3> QED
      BY <1>3, <2>2
  <2>4. RequestCancellation(o)
    BY <1>3, <2>1, <2>3 DEF RequestCancellation, SaveOrder
  <2> QED
    BY <1>1, <2>4 DEF Next, OrderStep
<1> QED
  BY <1>1, <1>2, <1>3 DEF CommitCancellation

(* An event of process_event, applied or ignored, with the order unlocked     *)
(* from anybody else and its id unknown.                                      *)
LEMMA CommittedEventIsFresh ==
    ASSUME LocksInv, NEW c \in Calls, Asks[c].kind = "event", Pending(c) = {}, Made(c),
           NEW e, e = Asks[c].event, ~Got(c, "processed")
    PROVE  Fresh(e)
<1>1. e.id \notin DOMAIN processed
  BY EventReady
<1> QED
  BY <1>1 DEF Fresh, Made

LEMMA IgnoredIsSerial ==
    ASSUME LocksInv, TypeOK, NEW c \in Calls, Asks[c].kind = "event", Pending(c) = {}, Made(c),
           NEW e, e = Asks[c].event, ~Got(c, "processed"),
           NEW row, row = orders[e.order], NotAdmitted(row, e),
           history' = [history EXCEPT ![e.order] =
               Append(@, Transition("BROKER_EVENT_IGNORED", row.status, row.status))],
           Record(e, "IGNORED"),
           UNCHANGED <<accounts, orders, fills, submission, cancellation, atBroker, bookVars>>
    PROVE  IgnoreEvent(e)
<1> DEFINE o == e.order
           audit == Transition("BROKER_EVENT_IGNORED", row.status, row.status)
<1>1. o \in DOMAIN orders /\ row \in Order
  BY EventReady DEF HoldsOrder
<1>2. orders' = [orders EXCEPT ![o] = row]
  BY <1>1 DEF TypeOK, OrdersTypeOK
<1>3. Append(history[o], audit) = history[o] \o <<audit>>
  <2>1. row.status \in OrderStatus /\ "BROKER_EVENT_IGNORED" \in OrderEventType
    BY <1>1 DEF Order, OrderEventType
  <2> QED
    BY <1>1, <2>1, AppendIs
<1>4. history' = [history EXCEPT ![o] = @ \o <<audit>>]
  <2>1. history' = [history EXCEPT ![o] = Append(@, audit)]
    OBVIOUS
  <2> HIDE DEF audit
  <2> QED
    BY <1>3, <2>1
<1>5. Fresh(e)
  BY CommittedEventIsFresh
<1> QED
  BY <1>2, <1>4, <1>5 DEF IgnoreEvent, SaveOrder

(* The part every applied fill shares.                                        *)
LEMMA SettledFillApplies ==
    ASSUME LocksInv, TypeOK, PricesCurrent,
           NEW c \in Calls, Asks[c].kind = "event", Pending(c) = {}, Made(c),
           NEW e, e = Asks[c].event, IsFill(e), ~Got(c, "processed"),
           NEW row, row = orders[e.order], ~NotAdmitted(row, e), CanSettle(c, e), Settle(c, e)
    PROVE  ApplyFill(e)
<1> DEFINE req == row.req
           account == accounts[req.account]
           key == PositionKey(req)
<1>1. Got(c, "order") = row /\ row \in Order
  BY EventReady
<1>2. ~NotAdmitted(Got(c, "order"), e)
  BY <1>1, Zenon
<1>3. /\ FillSettles(account, req, e) /\ IsNewFill(e)
      /\ fills' = fills \cup {[order |-> e.order, event |-> e.id, exec |-> e.exec,
                               quantity |-> e.quantity, price |-> e.price]}
      /\ positions' = Put(positions, key,
             ExecutedPosition(IF key \in DOMAIN positions THEN positions[key]
                                                          ELSE FlatPosition(Mark(c, e)),
                              req.side, e.quantity, e.price, Mark(c, e)))
      /\ Record(e, "APPLIED")
      /\ UNCHANGED <<submission, cancellation, atBroker, marketPrices>>
  BY <1>2, SettleWrites
<1>4. Mark(c, e) = IF req.symbol \in DOMAIN marketPrices THEN marketPrices[req.symbol].price
                                                        ELSE e.price
  <2>1. PriceOf(req.symbol) \in DOMAIN seen[c] /\ Got(c, "price") = seen[c][PriceOf(req.symbol)]
    BY EventReady
  <2>2. Got(c, "price") = Rows(marketPrices, req.symbol)
    BY <2>1 DEF PricesCurrent
  <2>3. CASE req.symbol \in DOMAIN marketPrices
    <3>1. Got(c, "price") = {marketPrices[req.symbol]}
      BY <2>2, <2>3 DEF Rows
    <3>2. Only(Got(c, "price")) = marketPrices[req.symbol]
      BY <3>1 DEF Only
    <3> QED
      BY <2>3, <3>1, <3>2 DEF Mark
  <2>4. CASE req.symbol \notin DOMAIN marketPrices
    <3>1. Got(c, "price") = {}
      BY <2>2, <2>4 DEF Rows
    <3> QED
      BY <2>4, <3>1 DEF Mark
  <2> QED
    BY <2>3, <2>4
<1>5. ApplyExecution(req.account, req.symbol, req.side, e.quantity, e.price)
  <2> DEFINE mark == Mark(c, e)
  <2>1. mark = IF req.symbol \in DOMAIN marketPrices THEN marketPrices[req.symbol].price
                                                    ELSE e.price
    BY <1>4
  <2>2. positions' = Put(positions, key,
             ExecutedPosition(IF key \in DOMAIN positions THEN positions[key]
                                                          ELSE FlatPosition(mark),
                              req.side, e.quantity, e.price, mark))
    BY <1>3
  <2> HIDE DEF mark
  <2> QED
    BY <1>3, <2>1, <2>2 DEF ApplyExecution, PositionKey
<1>6. Fresh(e)
  BY CommittedEventIsFresh
<1>7. FillAccepted(row, e)
  BY DEF NotAdmitted, IsFill
<1>8. \A f \in fills : f.event # e.id /\ f.exec # e.exec
  BY <1>3 DEF IsNewFill
<1> QED
  BY <1>3, <1>5, <1>6, <1>7, <1>8 DEF ApplyFill

(* The quantity a settled event closes.                                       *)
LEMMA ClosedIs ==
    ASSUME NEW row \in Order, NEW e \in FillEvent \cup StatusEvent, ~NotAdmitted(row, e)
    PROVE  /\ IsFill(e) /\ e.quantity = row.remaining => Closed(row, e) = e.quantity
           /\ IsFill(e) /\ e.quantity # row.remaining /\ row.req.tif # "IOC" =>
                  Closed(row, e) = e.quantity
           /\ IsFill(e) /\ e.quantity # row.remaining /\ row.req.tif = "IOC" =>
                  Closed(row, e) = row.remaining
           /\ ~IsFill(e) => Closed(row, e) = row.remaining
<1>1. row.remaining \in Nat
  BY DEF Order
<1>2. CASE IsFill(e)
  <2> DEFINE f == FilledOrder(row, e)
  <2>1. e \in FillEvent /\ FillAccepted(row, e) /\ e.type # "REJECTED" /\ e.quantity \in Nat
    BY <1>2, RowAfterIs, EventType DEF IsFill
  <2>2. f \in Order /\ f.remaining = row.remaining - e.quantity
    BY <2>1, FilledOrderType
  <2>3. Closed(row, e) = row.remaining - RowAfter(row, e).remaining
    BY <2>1 DEF Closed
  <2>4. /\ e.quantity = row.remaining => RowAfter(row, e) = [f EXCEPT !.status = "FILLED"]
        /\ e.quantity # row.remaining /\ row.req.tif = "IOC" => RowAfter(row, e) = CancelledOrder(f)
        /\ e.quantity # row.remaining /\ row.req.tif # "IOC" => RowAfter(row, e) = Resting(f)
    BY <1>2, RowAfterIs
  <2> HIDE DEF f
  <2>5. /\ [f EXCEPT !.status = "FILLED"].remaining = f.remaining
        /\ Resting(f).remaining = f.remaining
        /\ CancelledOrder(f).remaining = 0
    BY <2>2, CancelledOrderType DEF Resting, Order
  <2>6. CASE e.quantity = row.remaining
    <3>1. RowAfter(row, e).remaining = row.remaining - e.quantity
      BY <2>2, <2>4, <2>5, <2>6
    <3> QED
      BY <1>1, <1>2, <2>1, <2>3, <2>6, <3>1
  <2>7. CASE e.quantity # row.remaining /\ row.req.tif = "IOC"
    BY <1>1, <1>2, <2>3, <2>4, <2>5, <2>7
  <2>8. CASE e.quantity # row.remaining /\ row.req.tif # "IOC"
    <3>1. RowAfter(row, e).remaining = row.remaining - e.quantity
      BY <2>2, <2>4, <2>5, <2>8
    <3> QED
      BY <1>1, <1>2, <2>1, <2>3, <2>8, <3>1
  <2> QED
    BY <1>2, <2>6, <2>7, <2>8
<1>3. CASE ~IsFill(e)
  <2>1. \/ e.type = "REJECTED"
        \/ e.type = "CANCELLED" /\ RowAfter(row, e) = CancelledOrder(row)
    BY <1>3, RowAfterIs
  <2>2. CancelledOrder(row).remaining = 0
    BY CancelledOrderType
  <2> QED
    BY <1>1, <1>3, <2>1, <2>2 DEF Closed
<1> QED
  BY <1>2, <1>3

LEMMA FillWrites ==
    ASSUME LocksInv, NEW c \in Calls, Asks[c].kind = "event", Pending(c) = {},
           NEW e, e = Asks[c].event, IsFill(e), ~Got(c, "processed"),
           NEW row, row = orders[e.order], ~NotAdmitted(row, e), CanSettle(c, e), Settle(c, e),
           NEW req, req = row.req, NEW account, account = accounts[req.account],
           NEW after, RowAfter(row, e) = after, NEW closed, Closed(row, e) = closed
    PROVE  /\ FillSettles(account, req, e) /\ ReservedAfter(account, req, closed) >= 0
           /\ AccountChecks(StoredAccount(CashAfter(account, req, e),
                                          ReservedAfter(account, req, closed)))
           /\ accounts' = [accounts EXCEPT ![req.account] =
                  StoredAccount(CashAfter(account, req, e), ReservedAfter(account, req, closed))]
           /\ orders' = [orders EXCEPT ![e.order] = after]
<1>1. Got(c, "order") = row
  BY EventReady
<1>2. ~NotAdmitted(Got(c, "order"), e)
  BY <1>1, Zenon
<1>3. ReservedAfter(account, req, Closed(row, e)) >= 0 /\ FillSettles(account, req, e)
  BY <1>2, SettleWrites
<1>4. /\ accounts' = [accounts EXCEPT ![req.account] = ChargedAccount(account, row, e)]
      /\ AccountChecks(ChargedAccount(account, row, e))
  BY <1>2, SettleWrites
<1>5. orders' = [orders EXCEPT ![e.order] = RowAfter(row, e)]
  BY <1>2, SettleWrites
<1> QED
  BY <1>3, <1>4, <1>5 DEF ChargedAccount

LEMMA AuditWrites ==
    ASSUME LocksInv, NEW c \in Calls, Asks[c].kind = "event", Pending(c) = {},
           ~Got(c, "processed"), ~NotAdmitted(orders[Asks[c].event.order], Asks[c].event),
           CanSettle(c, Asks[c].event), Settle(c, Asks[c].event), NEW e, e = Asks[c].event
    PROVE  history' = [history EXCEPT ![e.order] =
               @ \o Audit(orders[e.order], e, RowAfter(orders[e.order], e))]
<1> DEFINE row == orders[e.order]
<1>1. Got(c, "order") = row
  BY EventReady
<1>2. ~NotAdmitted(Got(c, "order"), e)
  BY <1>1, Zenon
<1> QED
  BY <1>2, SettleWrites

LEMMA CompleteFillIsSerial ==
    ASSUME LocksInv, TypeOK, PricesCurrent,
           NEW c \in Calls, Asks[c].kind = "event", Pending(c) = {}, Made(c),
           NEW e, e = Asks[c].event, IsFill(e), ~Got(c, "processed"),
           NEW row, row = orders[e.order], ~NotAdmitted(row, e), CanSettle(c, e), Settle(c, e),
           e.quantity = row.remaining
    PROVE  CompleteFill(e)
<1> DEFINE req == row.req
           account == accounts[req.account]
           filled == [FilledOrder(row, e) EXCEPT !.status = "FILLED"]
<1>1. Got(c, "order") = row /\ row \in Order
  BY EventReady
<1>2. e \in FillEvent \cup StatusEvent
  BY CallsAssumption
<1>3. RowAfter(row, e) = filled /\ Closed(row, e) = e.quantity
  BY <1>1, <1>2, RowAfterIs, ClosedIs
<1>4. FillSettles(account, req, e)
      /\ accounts' = [accounts EXCEPT ![req.account] = SettledAccount(account, req, e)]
      /\ orders' = [orders EXCEPT ![e.order] = filled]
      /\ history' = [history EXCEPT ![e.order] = @ \o Audit(row, e, filled)]
  <2>1. RowAfter(row, e) = filled /\ Closed(row, e) = e.quantity
    BY <1>3
  <2> HIDE DEF filled
  <2>2. FillSettles(account, req, e)
    BY <2>1, FillWrites
  <2>3. accounts' = [accounts EXCEPT ![req.account] = SettledAccount(account, req, e)]
    BY <2>1, FillWrites DEF SettledAccount
  <2>4. orders' = [orders EXCEPT ![e.order] = filled]
    BY <2>1, FillWrites
  <2>5. history' = [history EXCEPT ![e.order] = @ \o Audit(row, e, filled)]
    <3>1. history' = [history EXCEPT ![e.order] = @ \o Audit(row, e, RowAfter(row, e))]
      BY AuditWrites
    <3> QED
      BY <2>1, <3>1
  <2> QED
    BY <2>2, <2>3, <2>4, <2>5
<1>5. Audit(row, e, filled) = <<Transition("FULL_FILL_RECEIVED", row.status, "FILLED")>>
  <2>1. FilledOrder(row, e) \in Order
    BY <1>1, <1>2, RowAfterIs, FilledOrderType
  <2>2. filled.status = "FILLED"
    BY <2>1 DEF Order
  <2>3. e.type # "REJECTED" /\ e.type # "CANCELLED"
    BY DEF IsFill
  <2> HIDE DEF filled
  <2> QED
    BY <2>2, <2>3 DEF Audit
<1>6. FillAccount(e)
  BY <1>4 DEF FillAccount, SaveAccount, FillSettles
<1>7. SaveOrder(e.order, filled, <<Transition("FULL_FILL_RECEIVED", row.status, "FILLED")>>)
  BY <1>4, <1>5 DEF SaveOrder
<1>8. ApplyFill(e)
  BY SettledFillApplies
<1> QED
  BY <1>6, <1>7, <1>8 DEF CompleteFill

LEMMA PartialFillIsSerial ==
    ASSUME LocksInv, TypeOK, PricesCurrent,
           NEW c \in Calls, Asks[c].kind = "event", Pending(c) = {}, Made(c),
           NEW e, e = Asks[c].event, IsFill(e), ~Got(c, "processed"),
           NEW row, row = orders[e.order], ~NotAdmitted(row, e), CanSettle(c, e), Settle(c, e),
           e.quantity # row.remaining, row.req.tif # "IOC"
    PROVE  PartialFill(e)
<1> DEFINE req == row.req
           account == accounts[req.account]
           status == IF row.status = "ROUTED" THEN "PARTIALLY_FILLED" ELSE row.status
           filled == FilledOrder(row, e)
           resting == [filled EXCEPT !.status = status]
<1>1. Got(c, "order") = row /\ row \in Order
  BY EventReady
<1>2. e \in FillEvent \cup StatusEvent
  BY CallsAssumption
<1>3. /\ RowAfter(row, e) = Resting(filled) /\ Closed(row, e) = e.quantity
      /\ e.quantity < row.remaining
      /\ filled \in Order /\ filled.status = row.status
      /\ row.status \in {"ROUTED", "PARTIALLY_FILLED", "CANCEL_PENDING"}
  BY <1>1, <1>2, RowAfterIs, ClosedIs, FilledOrderType DEF FillAccepted, EXECUTABLE_STATUSES
<1>4. Resting(filled) = resting
  <2> HIDE DEF filled
  <2> QED
    BY <1>3 DEF Resting
<1>5. FillSettles(account, req, e)
      /\ accounts' = [accounts EXCEPT ![req.account] = SettledAccount(account, req, e)]
      /\ orders' = [orders EXCEPT ![e.order] = resting]
      /\ history' = [history EXCEPT ![e.order] = @ \o Audit(row, e, resting)]
  <2>1. RowAfter(row, e) = resting /\ Closed(row, e) = e.quantity
    BY <1>3, <1>4
  <2> HIDE DEF resting
  <2>2. FillSettles(account, req, e)
    BY <2>1, FillWrites
  <2>3. accounts' = [accounts EXCEPT ![req.account] = SettledAccount(account, req, e)]
    BY <2>1, FillWrites DEF SettledAccount
  <2>4. orders' = [orders EXCEPT ![e.order] = resting]
    BY <2>1, FillWrites
  <2>5. history' = [history EXCEPT ![e.order] = @ \o Audit(row, e, resting)]
    <3>1. history' = [history EXCEPT ![e.order] = @ \o Audit(row, e, RowAfter(row, e))]
      BY AuditWrites
    <3> QED
      BY <2>1, <3>1
  <2> QED
    BY <2>2, <2>3, <2>4, <2>5
<1>6. Audit(row, e, resting) = <<Transition("PARTIAL_FILL_RECEIVED", row.status, status)>>
  <2>1. resting.status = status /\ status # "FILLED" /\ status # "CANCELLED"
    BY <1>3 DEF Order
  <2>2. e.type # "REJECTED" /\ e.type # "CANCELLED"
    BY DEF IsFill
  <2> HIDE DEF resting, status
  <2> QED
    BY <2>1, <2>2 DEF Audit
<1>7. FillAccount(e)
  BY <1>5 DEF FillAccount, SaveAccount, FillSettles
<1>8. SaveOrder(e.order, resting, <<Transition("PARTIAL_FILL_RECEIVED", row.status, status)>>)
  BY <1>5, <1>6 DEF SaveOrder
<1>9. ApplyFill(e)
  BY SettledFillApplies
<1> QED
  BY <1>3, <1>7, <1>8, <1>9 DEF PartialFill

LEMMA IocPartialFillIsSerial ==
    ASSUME LocksInv, TypeOK, PricesCurrent,
           NEW c \in Calls, Asks[c].kind = "event", Pending(c) = {}, Made(c),
           NEW e, e = Asks[c].event, IsFill(e), ~Got(c, "processed"),
           NEW row, row = orders[e.order], ~NotAdmitted(row, e), CanSettle(c, e), Settle(c, e),
           e.quantity # row.remaining, row.req.tif = "IOC"
    PROVE  IocPartialFill(e)
<1> DEFINE req == row.req
           account == accounts[req.account]
           left == CancelledOrder(FilledOrder(row, e))
           cash == CashAfter(account, req, e)
           less == ReservedAfter(account, req, row.remaining)
<1>1. Got(c, "order") = row /\ row \in Order
  BY EventReady
<1>2. e \in FillEvent \cup StatusEvent
  BY CallsAssumption
<1>3. /\ RowAfter(row, e) = left /\ Closed(row, e) = row.remaining
      /\ e.quantity < row.remaining
      /\ FilledOrder(row, e) \in Order /\ e \in FillEvent
  BY <1>1, <1>2, RowAfterIs, ClosedIs, FilledOrderType
<1>4. /\ less >= 0 /\ AccountChecks(StoredAccount(cash, less))
      /\ accounts' = [accounts EXCEPT ![req.account] = StoredAccount(cash, less)]
      /\ orders' = [orders EXCEPT ![e.order] = left]
      /\ history' = [history EXCEPT ![e.order] = @ \o Audit(row, e, left)]
  <2>1. RowAfter(row, e) = left /\ Closed(row, e) = row.remaining
    BY <1>3
  <2> HIDE DEF left
  <2>2. less >= 0 /\ AccountChecks(StoredAccount(cash, less))
    BY <2>1, FillWrites
  <2>3. accounts' = [accounts EXCEPT ![req.account] = StoredAccount(cash, less)]
    BY <2>1, FillWrites
  <2>4. orders' = [orders EXCEPT ![e.order] = left]
    BY <2>1, FillWrites
  <2>5. history' = [history EXCEPT ![e.order] = @ \o Audit(row, e, left)]
    <3>1. history' = [history EXCEPT ![e.order] = @ \o Audit(row, e, RowAfter(row, e))]
      BY AuditWrites
    <3> QED
      BY <2>1, <3>1
  <2> QED
    BY <2>2, <2>3, <2>4, <2>5
<1>5. Audit(row, e, left) = <<Transition("PARTIAL_FILL_RECEIVED", row.status, row.status),
                              Transition("ORDER_CANCELLED", row.status, "CANCELLED")>>
  <2>1. left.status = "CANCELLED"
    <3> DEFINE f == FilledOrder(row, e)
    <3>1. f \in Order
      BY <1>3
    <3> HIDE DEF f
    <3> QED
      BY <3>1, CancelledOrderType DEF f
  <2>2. e.type # "REJECTED" /\ e.type # "CANCELLED"
    BY DEF IsFill
  <2> HIDE DEF left
  <2> QED
    BY <2>1, <2>2 DEF Audit
<1>6. SaveAccount(req.account, StoredAccount(cash, less))
  BY <1>4 DEF SaveAccount
<1>7. SaveOrder(e.order, left, <<Transition("PARTIAL_FILL_RECEIVED", row.status, row.status),
                                 Transition("ORDER_CANCELLED", row.status, "CANCELLED")>>)
  BY <1>4, <1>5 DEF SaveOrder
<1>8. ApplyFill(e)
  BY SettledFillApplies
<1> QED
  BY <1>3, <1>4, <1>6, <1>7, <1>8 DEF IocPartialFill

LEMMA StatusWrites ==
    ASSUME LocksInv, TypeOK, NEW c \in Calls, Asks[c].kind = "event", Pending(c) = {}, Made(c),
           NEW e, e = Asks[c].event, ~IsFill(e), ~Got(c, "processed"),
           NEW row, row = orders[e.order], ~NotAdmitted(row, e), CanSettle(c, e), Settle(c, e)
    PROVE  /\ Fresh(e)
           /\ ReleaseRemaining(row)
           /\ orders' = [orders EXCEPT ![e.order] = RowAfter(row, e)]
           /\ Record(e, "APPLIED")
           /\ UNCHANGED <<fills, submission, cancellation, atBroker, bookVars>>
<1> DEFINE req == row.req
           account == accounts[req.account]
           reserved == ReservedAfter(account, req, row.remaining)
           closed == Closed(row, e)
<1>1. /\ Got(c, "order") = row /\ row \in Order
      /\ req \in Requests /\ req.account \in DOMAIN accounts
  BY EventReady
<1>2. ~NotAdmitted(Got(c, "order"), e)
  BY <1>1, Zenon
<1>3. closed = row.remaining
  <2>1. e \in FillEvent \cup StatusEvent
    BY CallsAssumption
  <2> QED
    BY <1>1, <2>1, ClosedIs
<1>4. /\ ReservedAfter(account, req, Closed(row, e)) >= 0
      /\ orders' = [orders EXCEPT ![e.order] = RowAfter(row, e)]
      /\ UNCHANGED <<fills, positions>> /\ Record(e, "APPLIED")
      /\ UNCHANGED <<submission, cancellation, atBroker, marketPrices>>
  BY <1>2, SettleWrites
<1>5. ChargedAccount(account, row, e) = StoredAccount(Wide(account.cash), reserved)
  BY <1>3 DEF ChargedAccount
<1>6. ReleaseRemaining(row)
  <2>1. /\ accounts' = [accounts EXCEPT ![req.account] = ChargedAccount(account, row, e)]
        /\ AccountChecks(ChargedAccount(account, row, e))
    BY <1>2, SettleWrites
  <2> QED
    BY <1>3, <1>4, <1>5, <2>1 DEF ReleaseRemaining, SaveAccount
<1>7. Fresh(e)
  BY CommittedEventIsFresh
<1> QED
  BY <1>4, <1>6, <1>7 DEF bookVars

LEMMA StatusIsSerial ==
    ASSUME LocksInv, TypeOK, NEW c \in Calls, Asks[c].kind = "event", Pending(c) = {}, Made(c),
           NEW e, e = Asks[c].event, ~IsFill(e), ~Got(c, "processed"),
           NEW row, row = orders[e.order], ~NotAdmitted(row, e), CanSettle(c, e), Settle(c, e)
    PROVE  e \in StatusEvent /\ StatusStep(e)
<1>1. /\ Fresh(e) /\ ReleaseRemaining(row) /\ Record(e, "APPLIED")
      /\ orders' = [orders EXCEPT ![e.order] = RowAfter(row, e)]
      /\ UNCHANGED <<fills, submission, cancellation, atBroker, bookVars>>
  BY StatusWrites
<1>2. row \in Order /\ e \in FillEvent \cup StatusEvent
  BY EventReady, CallsAssumption
<1>3. history' = [history EXCEPT ![e.order] = @ \o Audit(row, e, RowAfter(row, e))]
  BY AuditWrites
<1>4. e \in StatusEvent
  BY <1>2, RowAfterIs
<1>5. CASE e.type = "REJECTED"
  <2> DEFINE new == [row EXCEPT !.status = "REJECTED"]
  <2>1. row.status = "ROUTED" /\ RowAfter(row, e) = new
    BY <1>2, <1>5, RowAfterIs
  <2>2. new.status = "REJECTED"
    BY <1>2 DEF Order
  <2> HIDE DEF new
  <2>3. Audit(row, e, new) = <<Transition("ORDER_REJECTED", "ROUTED", "REJECTED")>>
    BY <1>5, <2>1, <2>2 DEF Audit
  <2>4. SaveOrder(e.order, new, <<Transition("ORDER_REJECTED", "ROUTED", "REJECTED")>>)
    BY <1>1, <1>3, <2>1, <2>3 DEF SaveOrder
  <2>5. BrokerRejects(e)
    BY <1>1, <1>5, <2>1, <2>4 DEF BrokerRejects, new
  <2> QED
    BY <1>4, <2>5 DEF StatusStep
<1>6. CASE e.type = "CANCELLED"
  <2> DEFINE new == CancelledOrder(row)
  <2>1. row.status \in EXECUTABLE_STATUSES /\ RowAfter(row, e) = new
    BY <1>2, <1>6, RowAfterIs
  <2>2. new.status = "CANCELLED"
    BY <1>2, CancelledOrderType
  <2> HIDE DEF new
  <2>3. Audit(row, e, new) = <<Transition("ORDER_CANCELLED", row.status, "CANCELLED")>>
    BY <1>6, <2>1, <2>2 DEF Audit
  <2>4. SaveOrder(e.order, new, <<Transition("ORDER_CANCELLED", row.status, "CANCELLED")>>)
    BY <1>1, <1>3, <2>1, <2>3 DEF SaveOrder
  <2>5. BrokerCancels(e)
    BY <1>1, <1>6, <2>1, <2>4 DEF BrokerCancels, new
  <2> QED
    BY <1>4, <2>5 DEF StatusStep
<1> QED
  BY <1>4, <1>5, <1>6 DEF StatusEvent

(* A duplicate or an event that raises changes nothing; any other is one of   *)
(* the event actions.                                                         *)
LEMMA EventIsSerial ==
    ASSUME LocksInv, TypeOK, PricesCurrent,
           NEW c \in Calls, Asks[c].kind = "event", Pending(c) = {}, Made(c),
           CommitEvent(c, Asks[c].event)
    PROVE  [Next]_vars
<1> DEFINE e == Asks[c].event
           row == orders[e.order]
<1>1. /\ Got(c, "order") = row /\ row \in Order
      /\ e \in FillEvent \cup StatusEvent
  BY EventReady, CallsAssumption
<1>2. CASE UNCHANGED vars
  BY <1>2
<1>3. CASE /\ ~Got(c, "processed") /\ NotAdmitted(row, e)
           /\ history' = [history EXCEPT ![e.order] =
                  Append(@, Transition("BROKER_EVENT_IGNORED", row.status, row.status))]
           /\ Record(e, "IGNORED")
           /\ UNCHANGED <<accounts, orders, fills, submission, cancellation, atBroker, bookVars>>
  <2>1. IgnoreEvent(e)
    BY <1>3, IgnoredIsSerial
  <2> QED
    BY <1>1, <2>1 DEF Next, FillStep, StatusStep
<1>4. CASE ~Got(c, "processed") /\ ~NotAdmitted(row, e) /\ CanSettle(c, e) /\ Settle(c, e)
  <2>1. CASE ~IsFill(e)
    <3>1. e \in StatusEvent /\ StatusStep(e)
      BY <1>4, <2>1, StatusIsSerial
    <3> QED
      BY <3>1 DEF Next
  <2>2. CASE IsFill(e)
    <3>1. CompleteFill(e) \/ PartialFill(e) \/ IocPartialFill(e)
      <4>1. CASE e.quantity = row.remaining
        BY <1>4, <2>2, <4>1, CompleteFillIsSerial
      <4>2. CASE e.quantity # row.remaining /\ row.req.tif # "IOC"
        BY <1>4, <2>2, <4>2, PartialFillIsSerial
      <4>3. CASE e.quantity # row.remaining /\ row.req.tif = "IOC"
        BY <1>4, <2>2, <4>3, IocPartialFillIsSerial
      <4> QED
        BY <4>1, <4>2, <4>3
    <3>2. e \in FillEvent
      BY <1>1, <1>4, <2>2, RowAfterIs
    <3> QED
      BY <3>1, <3>2 DEF Next, FillStep
  <2> QED
    BY <2>1, <2>2
<1> QED
  <2>1. \/ UNCHANGED vars
        \/ /\ ~Got(c, "processed") /\ NotAdmitted(Got(c, "order"), e)
           /\ history' = [history EXCEPT ![e.order] =
                  Append(@, Transition("BROKER_EVENT_IGNORED", Got(c, "order").status,
                                       Got(c, "order").status))]
           /\ Record(e, "IGNORED")
           /\ UNCHANGED <<accounts, orders, fills, submission, cancellation, atBroker, bookVars>>
        \/ /\ ~Got(c, "processed") /\ ~NotAdmitted(Got(c, "order"), e)
           /\ CanSettle(c, e) /\ Settle(c, e)
    BY Zenon DEF CommitEvent
  <2> HIDE DEF e, row
  <2> QED
    BY <1>1, <1>2, <1>3, <1>4, <2>1, Zenon

(* A tick that has found every position of its symbol marks those and no      *)
(* other.                                                                     *)
LEMMA TickIsSerial ==
    ASSUME LocksInv, TypeOK, KeysCurrent,
           NEW c \in Calls, Asks[c].kind = "tick", Pending(c) = {},
           CommitTick(c, Asks[c])
    PROVE  [Next]_vars
<1> DEFINE symbol == Asks[c].symbol
           price == Asks[c].price
           time == Asks[c].time
<1>1. symbol \in Symbols /\ price \in TickPrices /\ time \in TickTimes
  BY CallsAssumption
<1>2. /\ KeysOf(symbol) \in DOMAIN seen[c]
      /\ Got(c, "price") = Rows(marketPrices, symbol)
      /\ Got(c, "keys") = seen[c][KeysOf(symbol)]
      /\ TickApplies(c) => \A k \in Got(c, "keys") : <<"position", k>> \in DOMAIN seen[c]
      /\ \A k : <<"position", k>> \in DOMAIN seen[c] =>
             k \in DOMAIN positions /\ k[2] = symbol
             /\ seen[c][<<"position", k>>] = {positions[k]}
  BY TickReady
<1>3. CASE UNCHANGED vars
  BY <1>3
<1>4. CASE ~UNCHANGED vars
  <2>1. /\ TickApplies(c)
        /\ marketPrices' = Put(marketPrices, symbol, [price |-> price, observedAt |-> time])
        /\ positions' = [k \in DOMAIN positions |->
               IF <<"position", k>> \in DOMAIN seen[c]
               THEN LET read == Only(seen[c][<<"position", k>>])
                    IN  UpdatedRow(positions[k], read, MarkedPosition(read, price))
               ELSE positions[k]]
        /\ UNCHANGED <<orderVars, ledgerVars>>
    BY <1>4 DEF CommitTick
  <2>2. TickAccepted(symbol, time)
    BY <1>2, <2>1 DEF TickApplies, Rows, TickAccepted
  <2>3. \A k \in DOMAIN positions : <<"position", k>> \in DOMAIN seen[c] <=> k[2] = symbol
    <3>1. {k \in DOMAIN positions : k[2] = symbol} \subseteq Got(c, "keys")
      BY <1>2 DEF KeysCurrent
    <3> QED
      BY <1>2, <2>1, <3>1
  <2>4. ASSUME NEW k \in DOMAIN positions, k[2] = symbol
        PROVE  /\ Only(seen[c][<<"position", k>>]) = positions[k]
               /\ UpdatedRow(positions[k], positions[k], MarkedPosition(positions[k], price))
                      = MarkedPosition(positions[k], price)
    <3>1. seen[c][<<"position", k>>] = {positions[k]}
      BY <1>2, <2>3, <2>4
    <3>2. Only(seen[c][<<"position", k>>]) = positions[k]
      BY <3>1 DEF Only
    <3> DEFINE row == positions[k]
               new == MarkedPosition(row, price)
    <3>3. new \in Position
      BY <1>1, MarkedPositionType, TickPricesAssumption DEF TypeOK, PositionsTypeOK
    <3>4. new = [column \in DOMAIN new |-> new[column]]
      <4> HIDE DEF new
      <4> QED
        BY <3>3 DEF Position
    <3> HIDE DEF new, row
    <3>5. UpdatedRow(row, row, new) = [column \in DOMAIN new |-> new[column]]
      BY DEF UpdatedRow
    <3>6. UpdatedRow(row, row, new) = new
      BY <3>4, <3>5, Zenon
    <3> QED
      BY <3>2, <3>6 DEF row, new
  <2>5. positions' = [k \in DOMAIN positions |->
                          IF k[2] = symbol THEN MarkedPosition(positions[k], price)
                                           ELSE positions[k]]
    BY <2>1, <2>3, <2>4
  <2>6. ApplyTick(symbol, price, time)
    BY <2>1, <2>2, <2>5 DEF ApplyTick
  <2> QED
    BY <1>1, <2>1, <2>6 DEF Next, MarketTick, Tick
<1> QED
  BY <1>3, <1>4

LEMMA StepIsSerial ==
    ASSUME LocksInv, SerialInv, [LocksNext]_lockedVars
    PROVE  [Next]_vars
<1>1. ASSUME NEW c \in Calls, RunStatement(c) PROVE [Next]_vars
  BY <1>1 DEF RunStatement
<1>2. ASSUME NEW c \in Calls, Commit(c) PROVE [Next]_vars
  <2>1. Pending(c) = {} /\ Made(c)
    BY <1>2 DEF Commit
  <2>2. \/ Asks[c].kind = "create" /\ CommitOrder(c, Asks[c].order, Asks[c].req)
        \/ Asks[c].kind = "cancel" /\ CommitCancellation(c, Asks[c].order)
        \/ Asks[c].kind = "event" /\ CommitEvent(c, Asks[c].event)
        \/ Asks[c].kind = "tick" /\ CommitTick(c, Asks[c])
        \/ Asks[c].kind = "failure" /\ MarkRoutingFailure(Asks[c].order)
    BY <1>2 DEF Commit
  <2>3. Asks[c].kind = "failure" => Asks[c].order \in DOMAIN orders
    BY <2>1 DEF Made
  <2>4. CASE Asks[c].kind = "failure" /\ MarkRoutingFailure(Asks[c].order)
    BY <2>3, <2>4 DEF Next, OrderStep
  <2> QED
    BY <2>1, <2>2, <2>4, CreateIsSerial, CancelIsSerial, EventIsSerial, TickIsSerial DEF SerialInv
<1>3. ASSUME NEW o \in DOMAIN orders, CallBroker(o) PROVE [Next]_vars
  <2>1. \/ Submit(o)
        \/ NotifyCancel(o)
        \/ \E how \in SubmitFailures : SubmitRaises(o, how)
    BY <1>3, CallsAssumption DEF CallBroker
  <2> QED
    BY <2>1 DEF Next, OrderStep
<1>4. CASE UNCHANGED lockedVars
  BY <1>4 DEF lockedVars
<1> QED
  BY <1>1, <1>2, <1>3, <1>4 DEF LocksNext

-----------------------------------------------------------------------------
(* What events and ticks have read stays current while a first fill and a     *)
(* tick of its symbol do not overlap.                                         *)
LEMMA NewPositionIs ==
    ASSUME LocksInv, NEW c \in Calls, Commit(c), NEW k \in DOMAIN positions' \ DOMAIN positions
    PROVE  /\ Asks[c].kind = "event" /\ Has(c, "position") /\ Got(c, "position") = {}
           /\ k[2] = orders[Asks[c].event.order].req.symbol
<1>1. Pending(c) = {}
  BY DEF Commit
<1>2. ~UNCHANGED positions
  OBVIOUS
<1>3. Asks[c].kind \in {"event", "tick"}
  BY <1>2, CallsAssumption
     DEF Commit, CommitOrder, CommitCancellation, AddOrder, MarkRoutingFailure, vars, bookVars
<1>4. Asks[c].kind # "tick"
  BY <1>2 DEF Commit, CommitTick, vars, bookVars
<1>5. Asks[c].kind = "event" /\ CommitEvent(c, Asks[c].event)
  BY <1>3, <1>4 DEF Commit
<1> DEFINE e == Asks[c].event
           row == orders[e.order]
           req == row.req
<1>6. Got(c, "order") = row
  BY <1>1, <1>5, EventReady
<1>7. /\ ~Got(c, "processed") /\ ~NotAdmitted(Got(c, "order"), e)
      /\ CanSettle(c, e) /\ Settle(c, e)
  <2>1. ~UNCHANGED vars /\ ~UNCHANGED bookVars
    BY <1>2 DEF vars, bookVars
  <2> QED
    BY <1>5, <2>1, Zenon DEF CommitEvent
<1>8. ~NotAdmitted(row, e)
  BY <1>6, <1>7, Zenon
<1>9. IsFill(e)
  BY <1>2, <1>7 DEF Settle
<1>10. Has(c, "position") /\ Got(c, "position") = Rows(positions, PositionKey(req))
  BY <1>1, <1>5, <1>7, <1>8, <1>9, EventReady
<1>11. DOMAIN positions' = DOMAIN positions \cup {PositionKey(req)}
  <2> DEFINE new == ExecutedPosition(IF PositionKey(req) \in DOMAIN positions
                                     THEN positions[PositionKey(req)]
                                     ELSE FlatPosition(Mark(c, e)),
                                     req.side, e.quantity, e.price, Mark(c, e))
  <2>1. positions' = Put(positions, PositionKey(req), new)
    BY <1>1, <1>5, <1>7, <1>9, SettleWrites
  <2> HIDE DEF new
  <2> QED
    BY <2>1 DEF Put
<1>12. k = PositionKey(req)
  BY <1>11
<1> QED
  BY <1>5, <1>10, <1>12 DEF Rows, PositionKey

LEMMA KeysStay ==
    ASSUME LocksInv, KeysCurrent, FirstFillAlone, [LocksNext]_lockedVars
    PROVE  KeysCurrent'
<1> SUFFICES ASSUME NEW d \in Calls, NEW symbol, symbol = Asks[d].symbol, Asks[d].kind = "tick",
                    KeysOf(symbol) \in DOMAIN seen'[d], NEW k \in DOMAIN positions', k[2] = symbol
             PROVE  k \in seen'[d][KeysOf(symbol)]
  BY DEF KeysCurrent
<1>1. ASSUME NEW c \in Calls, RunStatement(c) PROVE k \in seen'[d][KeysOf(symbol)]
  <2>1. PICK row : Runs(c, row)
    BY <1>1 DEF RunStatement, Runs
  <2>2. positions' = positions
    BY <2>1 DEF Runs, vars, bookVars
  <2>3. CASE c = d /\ row = KeysOf(symbol)
    <3>1. Read(row[1], row[2]) = {j \in DOMAIN positions : j[2] = symbol}
      BY <2>3 DEF Read, KeysOf
    <3> QED
      BY <2>1, <2>2, <2>3, <3>1, RunEffect
  <2>4. CASE ~(c = d /\ row = KeysOf(symbol))
    <3>1. KeysOf(symbol) \in DOMAIN seen[d] /\ seen'[d][KeysOf(symbol)] = seen[d][KeysOf(symbol)]
      BY <2>1, <2>4, RunEffect
    <3> QED
      BY <2>2, <3>1 DEF KeysCurrent
  <2> QED
    BY <2>3, <2>4
<1>2. ASSUME NEW c \in Calls, Commit(c) PROVE k \in seen'[d][KeysOf(symbol)]
  <2>1. c # d /\ seen'[d] = seen[d]
    BY <1>2, CommitOnlyLocked
  <2>2. CASE k \in DOMAIN positions
    BY <2>1, <2>2 DEF KeysCurrent
  <2>3. CASE k \notin DOMAIN positions
    <3>1. Has(d, "price")
      <4>1. PriceOf(symbol) \in DOMAIN seen[d] /\ PriceOf(symbol)[1] = "price"
        BY <2>1 DEF LocksInv, CallReads, TickReads, PriceOf
      <4> QED
        BY <4>1 DEF Has
    <3>2. /\ Asks[c].kind = "event" /\ Has(c, "position") /\ Got(c, "position") = {}
          /\ symbol = orders[Asks[c].event.order].req.symbol
      BY <1>2, <2>3, NewPositionIs
    <3> QED
      BY <3>1, <3>2 DEF FirstFillAlone
  <2> QED
    BY <2>2, <2>3
<1>3. ASSUME positions' = positions, seen' = seen PROVE k \in seen'[d][KeysOf(symbol)]
  BY <1>3 DEF KeysCurrent
<1>4. ASSUME NEW o \in DOMAIN orders, CallBroker(o) PROVE positions' = positions /\ seen' = seen
  BY <1>4 DEF CallBroker, Submit, SubmitRaises, NotifyCancel, bookVars, lockVars
<1>5. ASSUME UNCHANGED lockedVars PROVE positions' = positions /\ seen' = seen
  BY <1>5 DEF lockedVars, lockVars, vars, bookVars
<1> QED
  BY <1>1, <1>2, <1>3, <1>4, <1>5 DEF LocksNext

LEMMA PricesStay ==
    ASSUME LocksInv, PricesCurrent, KeysCurrent, FirstFillAlone, [LocksNext]_lockedVars
    PROVE  PricesCurrent'
<1> SUFFICES ASSUME NEW d \in Calls, Asks[d].kind = "event",
                    NEW symbol, symbol = orders'[Asks[d].event.order].req.symbol,
                    PriceOf(symbol) \in DOMAIN seen'[d]
             PROVE  seen'[d][PriceOf(symbol)] = Rows(marketPrices', symbol)
  BY DEF PricesCurrent, Rows
<1> DEFINE o == Asks[d].event.order
           req == orders[o].req
<1>1. ASSUME symbol = req.symbol, PriceOf(symbol) \in DOMAIN seen[d],
             seen'[d] = seen[d], marketPrices' = marketPrices
      PROVE  seen'[d][PriceOf(symbol)] = Rows(marketPrices', symbol)
  BY <1>1 DEF PricesCurrent
<1>2. ASSUME NEW c \in Calls, RunStatement(c)
      PROVE  seen'[d][PriceOf(symbol)] = Rows(marketPrices', symbol)
  <2>1. PICK row : Runs(c, row)
    BY <1>2 DEF RunStatement, Runs
  <2>2. marketPrices' = marketPrices /\ orders' = orders
    BY <2>1 DEF Runs, vars, bookVars, orderVars
  <2>3. CASE c = d /\ row = PriceOf(symbol)
    <3>1. Read(row[1], row[2]) = Rows(marketPrices, symbol)
      BY <2>3 DEF Read, PriceOf
    <3> QED
      BY <2>1, <2>2, <2>3, <3>1, RunEffect
  <2>4. CASE ~(c = d /\ row = PriceOf(symbol))
    <3>1. PriceOf(symbol) \in DOMAIN seen[d] /\ seen'[d][PriceOf(symbol)] = seen[d][PriceOf(symbol)]
      BY <2>1, <2>4, RunEffect
    <3> QED
      BY <2>2, <3>1 DEF PricesCurrent
  <2> QED
    BY <2>3, <2>4
<1>3. ASSUME NEW c \in Calls, Commit(c)
      PROVE  seen'[d][PriceOf(symbol)] = Rows(marketPrices', symbol)
  <2>1. c # d /\ seen'[d] = seen[d] /\ OnlyLockedRows(c)
    BY <1>3, CommitOnlyLocked
  <2>2. EventReads(d) /\ o \in DOMAIN orders
    BY <2>1 DEF LocksInv, CallReads, EventReads, HoldsOrder
  <2>3. symbol = req.symbol
    BY <2>1, <2>2 DEF OnlyLockedRows
  <2>4. CASE marketPrices' = marketPrices
    BY <1>1, <2>1, <2>3, <2>4
  <2>5. CASE marketPrices' # marketPrices
    <3>1. Asks[c].kind = "tick" /\ Pending(c) = {} /\ CommitTick(c, Asks[c])
      BY <1>3, <2>1, <2>5 DEF OnlyLockedRows, Commit
    <3> DEFINE ticked == Asks[c].symbol
    <3>2. /\ TickApplies(c)
          /\ marketPrices' = Put(marketPrices, ticked,
                                 [price |-> Asks[c].price, observedAt |-> Asks[c].time])
      BY <2>5, <3>1 DEF CommitTick, vars, bookVars
    <3>3. ticked # symbol
      <4> SUFFICES ASSUME ticked = symbol PROVE FALSE
        OBVIOUS
      <4>1. /\ KeysOf(symbol) \in DOMAIN seen[c] /\ Has(c, "price")
            /\ \A k \in seen[c][KeysOf(symbol)] : <<"position", k>> \in DOMAIN seen[c]
            /\ \A k : <<"position", k>> \in DOMAIN seen[c] => <<"position", k>> \in held[c]
        BY <3>1, <3>2, TickReady
      <4>2. PositionOf(req) \in DOMAIN seen[d] /\ HoldsPosition(d, req)
        BY <2>1, <2>2, <2>3 DEF EventReads
      <4>3. Has(d, "position") /\ Got(d, "position") = Rows(positions, PositionKey(req))
        <5>1. PositionOf(req)[1] = "position"
              /\ \A r \in DOMAIN seen[d] : r[1] = "position" => r = PositionOf(req)
          BY <2>2 DEF EventReads, OrderOf, DeliveryOf, AccountOf, PositionOf, PriceOf
        <5> DEFINE row == PositionOf(req)
        <5> HIDE DEF row
        <5>2. row[1] = "position" /\ row \in DOMAIN seen[d]
              /\ \A r \in DOMAIN seen[d] : r[1] = "position" => r = row
          BY <4>2, <5>1 DEF row
        <5>3. Has(d, "position") /\ Got(d, "position") = seen[d][row]
          BY <5>2, GotIs
        <5> QED
          BY <4>2, <5>3 DEF HoldsPosition, row
      <4>4. Got(d, "position") # {}
        BY <2>3, <3>1, <4>1, <4>3 DEF FirstFillAlone
      <4>5. PositionKey(req) \in DOMAIN positions /\ PositionKey(req)[2] = symbol
        BY <2>3, <4>3, <4>4 DEF Rows, PositionKey
      <4>6. PositionOf(req) \in held[d]
        BY <4>2, <4>5 DEF HoldsPosition
      <4>7. PositionKey(req) \in seen[c][KeysOf(symbol)]
        BY <3>1, <4>1, <4>5 DEF KeysCurrent
      <4>8. PositionOf(req) \in held[c]
        BY <4>1, <4>7 DEF PositionOf
      <4> QED
        BY <2>1, <4>6, <4>8 DEF LocksInv
    <3>4. Rows(marketPrices', symbol) = Rows(marketPrices, symbol)
      BY <3>2, <3>3 DEF Rows, Put
    <3> QED
      BY <2>1, <2>3, <3>4 DEF PricesCurrent
  <2> QED
    BY <2>4, <2>5
<1>4. ASSUME orders' = orders, seen' = seen, marketPrices' = marketPrices
      PROVE  seen'[d][PriceOf(symbol)] = Rows(marketPrices', symbol)
  BY <1>1, <1>4
<1>5. ASSUME NEW p \in DOMAIN orders, CallBroker(p)
      PROVE  orders' = orders /\ seen' = seen /\ marketPrices' = marketPrices
  BY <1>5 DEF CallBroker, Submit, SubmitRaises, NotifyCancel, bookVars, lockVars
<1>6. ASSUME UNCHANGED lockedVars
      PROVE  orders' = orders /\ seen' = seen /\ marketPrices' = marketPrices
  BY <1>6 DEF lockedVars, lockVars, vars, orderVars, bookVars
<1> QED
  BY <1>2, <1>3, <1>4, <1>5, <1>6 DEF LocksNext

LEMMA SerialInvInit ==
    ASSUME LocksInit
    PROVE  SerialInv
<1>1. Only(Deposits) \in Deposits
  BY OpenedAssumption DEF Only
<1>2. Only(Deposits) \in Nat
  BY <1>1, DepositsAssumption
<1>3. AccountsTypeOK
  <2>1. [cash |-> Only(Deposits), reserved |-> 0] \in Account
    BY <1>2 DEF Account
  <2>2. /\ DOMAIN accounts = Accounts
        /\ \A a \in Accounts : accounts[a] = [cash |-> Only(Deposits), reserved |-> 0]
    BY DEF LocksInit
  <2>3. accounts = [a \in DOMAIN accounts |-> accounts[a]]
    BY DEF LocksInit
  <2>4. accounts \in [DOMAIN accounts -> Account]
    BY <2>1, <2>2, <2>3
  <2>5. \A a \in Accounts : accounts[a].reserved <= accounts[a].cash
    BY <1>2, <2>2
  <2> QED
    BY <2>2, <2>4, <2>5 DEF AccountsTypeOK
<1>4. PositionsTypeOK
  BY BookInitType DEF LocksInit
<1>5. DOMAIN NoRows = {}
  BY DEF NoRows
<1>6. OrdersTypeOK /\ EventsTypeOK /\ HandlersTypeOK
  BY <1>5 DEF LocksInit, OrdersTypeOK, EventsTypeOK, HandlersTypeOK, NoRows
<1>7. \A c \in Calls : DOMAIN seen[c] = {}
  BY <1>5 DEF LocksInit
<1> QED
  BY <1>3, <1>4, <1>6, <1>7 DEF TypeOK, SerialInv, PricesCurrent, KeysCurrent

LEMMA SerialInvStep ==
    ASSUME LocksInv, SerialInv, FirstFillAlone, [LocksNext]_lockedVars
    PROVE  SerialInv'
<1>1. TypeOK'
  BY StepIsSerial, TypeCorrectStep DEF SerialInv
<1>2. KeysCurrent' /\ PricesCurrent'
  BY KeysStay, PricesStay DEF SerialInv
<1> QED
  BY <1>1, <1>2 DEF SerialInv

LEMMA SerialInvariant == LocksSpec /\ []FirstFillAlone => []SerialInv
<1>1. LocksInit => SerialInv
  BY SerialInvInit
<1>2. LocksInv /\ SerialInv /\ FirstFillAlone /\ [LocksNext]_lockedVars => SerialInv'
  BY SerialInvStep
<1> QED
  BY <1>1, <1>2, LocksInvInductive, PTL DEF LocksSpec

(* However the statements of any calls interleave, every commit of            *)
(* create_order, _mark_routing_failure, request_cancellation, process_event   *)
(* or apply_tick is one action of OrderManagement on the tables as they are   *)
(* then: the row locks make the transactions serial, whatever was read        *)
(* several statements before.  The one exception is a first fill that         *)
(* overlaps a tick of its symbol, which finds no position row to lock.        *)
THEOREM TransactionsSerialise == LocksSpec /\ []FirstFillAlone => TransactionsAreSerial
<1>1. LocksInv /\ SerialInv /\ [LocksNext]_lockedVars => [UNCHANGED vars \/ Next]_vars
  BY StepIsSerial
<1> QED
  BY <1>1, SerialInvariant, LocksInvInductive, PTL DEF LocksSpec, TransactionsAreSerial

(* With the same exception every position is marked at the latest price of    *)
(* its symbol although process_event reads the price and apply_tick the       *)
(* positions without a lock on what they did not find.                        *)
THEOREM LockedPositionsAreMarked ==
    LocksSpec /\ []FirstFillAlone => []PositionsAreMarkedToMarket
<1>1. LocksInit => PositionsAreMarkedToMarket
  BY DEF LocksInit, BookInit, NoRows, PositionsAreMarkedToMarket
<1>2. LocksInv /\ SerialInv /\ PositionsAreMarkedToMarket /\ [LocksNext]_lockedVars
          => PositionsAreMarkedToMarket'
  BY StepIsSerial, MarkedStep DEF SerialInv
<1> QED
  BY <1>1, <1>2, SerialInvariant, LocksInvInductive, PTL DEF LocksSpec
=============================================================================
