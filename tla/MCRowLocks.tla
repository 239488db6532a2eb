----------------------------- MODULE MCRowLocks -----------------------------
(* Small instances of the statement-level model for TLC.                     *)
EXTENDS RowLocks, TLC

CONSTANTS a1, a2, s1, k1, k2, o1, o2, o3, e1, e2, e3, e4, e5

MCRequest(account, key, tif, quantity, price) ==
    [account |-> account, key |-> key, client |-> key, symbol |-> s1,
     side |-> "BUY", tif |-> tif, quantity |-> quantity, price |-> price]

First == MCRequest(a1, k1, "GTC", 2, 2)
Second == MCRequest(a1, k2, "IOC", 2, 2)
Small == MCRequest(a1, k2, "GTC", 1, 2)
Theirs == MCRequest(a2, k2, "GTC", 2, 2)
LockRequests == {First, Second, Small, Theirs}

CreateCall(order, req) == [kind |-> "create", order |-> order, req |-> req]
CancelCall(order) == [kind |-> "cancel", order |-> order]
EventCall(event) == [kind |-> "event", event |-> event]
FailureCall(order, how) == [kind |-> "failure", order |-> order, how |-> how]
TickCall(price, time) == [kind |-> "tick", symbol |-> s1, price |-> price, time |-> time]

FillOf(order, id, type, quantity, price) ==
    [id |-> id, order |-> order, type |-> type,
     quantity |-> quantity, price |-> price, exec |-> id]
StatusOf(order, id, type) == [id |-> id, order |-> order, type |-> type]

LockAsks ==
    ("create" :> CreateCall(o1, First)) @@ ("retry" :> CreateCall(o2, First))
 @@ ("other" :> CreateCall(o3, Second)) @@ ("small" :> CreateCall(o3, Small))
 @@ ("theirs" :> CreateCall(o3, Theirs))
 @@ ("fill" :> EventCall(FillOf(o1, e1, "PARTIAL_FILL", 1, 2)))
 @@ ("again" :> EventCall(FillOf(o1, e1, "PARTIAL_FILL", 1, 2)))
 @@ ("close" :> EventCall(FillOf(o1, e2, "FULL_FILL", 1, 2)))
 @@ ("cancel" :> CancelCall(o1)) @@ ("twice" :> CancelCall(o1))
 @@ ("withdraw" :> CancelCall(o3))
 @@ ("cancelled" :> EventCall(StatusOf(o1, e3, "CANCELLED")))
 @@ ("dear" :> EventCall(FillOf(o3, e4, "FULL_FILL", 2, 9)))
 @@ ("part" :> EventCall(FillOf(o3, e4, "PARTIAL_FILL", 1, 2)))
 @@ ("deliver" :> EventCall(FillOf(o3, e4, "PARTIAL_FILL", 1, 2)))
 @@ ("whole" :> EventCall(FillOf(o3, e4, "FULL_FILL", 1, 2)))
 @@ ("rest" :> EventCall(FillOf(o3, e5, "FULL_FILL", 1, 2)))
 @@ ("refused" :> EventCall(StatusOf(o3, e5, "REJECTED")))
 @@ ("failure" :> FailureCall(o3, "lost_reply"))
 @@ ("tick" :> TickCall(8, 2)) @@ ("late" :> TickCall(1, 1))

LockCalls == DOMAIN LockAsks

(* A request, its retry and another that contends for the same cash; a fill   *)
(* delivered twice, one that closes the order, the broker's cancellation and  *)
(* the client's; a fill of the other order, a fill nobody can pay for and a   *)
(* rejection that comes late; and, once the position exists, a tick that      *)
(* races the fills and an older one.                                          *)
Contention ==
    LockCalls \ {"small", "theirs", "deliver", "rest", "twice", "whole", "failure", "withdraw"}

(* The reply to a submission is lost while the order is filled and another    *)
(* order of the account is placed, filled and cancelled, twice.               *)
LostReply == {"small", "failure", "whole", "create", "fill", "cancel", "twice", "cancelled"}

(* The order whose submission seems to have failed is filled and cancelled.  *)
FailedOrCancelled == {"small", "failure", "whole", "withdraw"}

(* A tick for the positions of two accounts races fills of both.              *)
TwoPositions == {"create", "fill", "close", "theirs", "deliver", "rest", "tick"}

LockScenarios == {Contention, LostReply, FailedOrCancelled, TwoPositions}

LockAfter ==
    [c \in LockCalls |-> CASE c \in {"cancel", "twice", "close"} -> {"fill"}
                           [] c = "tick" -> {"fill", "deliver"}
                           [] c = "cancelled" -> {"cancel", "twice", "again"}
                           [] c = "late" -> Contention \ {"late", "dear", "part", "refused"}
                           [] c = "part" -> {"dear"}
                           [] c = "refused" -> {"part"}
                           [] c = "rest" -> {"deliver"}
                           [] OTHER -> {}]

(* The tick races the first fill of the account in its symbol.               *)
FirstFillCalls == {"create", "fill", "tick"}
FirstFillAfter == [c \in FirstFillCalls |-> {}]
FirstFillScenarios == {FirstFillCalls}
=============================================================================
