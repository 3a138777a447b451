------------------------------ MODULE OrderTools ------------------------------
(***************************************************************************)
(* The tool calls of the MCP service that read and write one order: cancel *)
(* it, start a refund of it, list orders, list refunds (src/tools_mcp).    *)
(* Every call has a database session of its own.  PostgreSQL runs them at  *)
(* READ COMMITTED: a statement sees what is committed when it starts, an   *)
(* UPDATE waits for the row's writer and then overwrites what it finds.    *)
(* The reads go through cache_aside and the writes end in invalidate, both *)
(* of app/cache/strategies.py.                                             *)
(*                                                                         *)
(* A call is one attempt: a retry after a lost or late answer is another   *)
(* call.  The warehouse and the refund desk write to the same tables and   *)
(* are no part of the repository; their steps are marked external.         *)
(* A cached or answered view is abstracted to the set of calls whose       *)
(* writes it shows.                                                        *)
(***************************************************************************)
EXTENDS FiniteSets, Naturals

CONSTANTS
    Calls,            \* tool calls, each run once
    InitialStatuses,  \* statuses the order may have at first
    PaymentStatuses,  \* statuses its payment may have
    MaxMoves          \* bound: steps of the warehouse and the refund desk

None == "none"

\* Mutant: an order can be cancelled until it is delivered.
UntilDelivered == {"pending", "confirmed", "processing", "shipped"}

CANCELLABLE_STATUSES == {"pending", "confirmed", "processing"}
\* Mutant: shipped counts as delivered.
ShippedOrDelivered == {"delivered", "shipped"}

REFUNDABLE_STATUSES == {"delivered"}
ACTIVE_REFUND_STATUSES == {"pending", "approved", "processing", "completed"}
RefundStatuses == ACTIVE_REFUND_STATUSES \cup {"rejected"}
OrderStatuses == CANCELLABLE_STATUSES \cup REFUNDABLE_STATUSES
                   \cup {"shipped", "cancelled", "returned"}

ASSUME ConfigAssumption ==
    /\ MaxMoves \in Nat
    /\ None \notin Calls
    /\ InitialStatuses \subseteq OrderStatuses

(* What the warehouse and the refund desk do next with a status.           *)
WarehouseMoves == {<<"pending", "confirmed">>, <<"confirmed", "processing">>,
                   <<"processing", "shipped">>, <<"shipped", "delivered">>,
                   <<"delivered", "returned">>}
DeskMoves == {<<"pending", "approved">>, <<"pending", "rejected">>,
              <<"approved", "processing">>, <<"processing", "completed">>}

Keys == {"orders", "refunds"}
Writes == {"cancel", "refund"}
Reads == {"list_orders", "list_refunds"}
Kinds == Writes \cup Reads

(* The cache key a read uses, and the keys a write deletes.                *)
KeyOf(k) == IF k = "list_orders" THEN "orders" ELSE "refunds"

\* Mutant: a refund leaves the list of refunds alone.
OrdersOnly(k) == {"orders"}

StaleKeys(k) == IF k = "cancel" THEN {"orders"} ELSE {"refunds", "orders"}

VARIABLES
    status,     \* orders.status as committed
    payment,    \* payments.status of the order's payment
    writer,     \* the call whose uncommitted UPDATE locks the row, or None
    history,    \* calls with a committed "cancelled" row in the status history
    refunds,    \* the committed refund row of each call, or None
    cache,      \* per key {} or the one view Redis holds
    available,  \* is_redis_available(): fixed by the ping at start-up
    kind,       \* the tool a call invokes
    pc,         \* its next statement
    view,       \* what a read is about to answer
    answer,     \* what a call returned
    moves,      \* external steps taken
    rivals,     \* history variable: refund calls past their check at this one's
    known,      \* history variable: calls confirmed before this one began
    raced,      \* history variable: keys committed to while a read held a view
    missed      \* history variable: an invalidation did not reach Redis

database == <<status, payment, writer, history, refunds>>
redis    == <<cache, available>>
local    == <<kind, pc, view, answer>>
ghosts   == <<rivals, known, raced, missed>>
vars     == <<database, redis, local, moves, ghosts>>

Answers == {None, "ok", "auth_error", "permission_denied", "invalid_request",
            "db_error", "lost"}
Labels == {"idle", "order", "active", "payment", "amount", "flush", "commit",
           "invalidate", "lookup", "fetch", "fill", "done"}

TypeOK ==
    /\ status \in OrderStatuses
    /\ payment \in PaymentStatuses
    /\ writer \in Calls \cup {None}
    /\ history \subseteq Calls
    /\ refunds \in [Calls -> RefundStatuses \cup {None}]
    /\ cache \in [Keys -> SUBSET SUBSET Calls]
    /\ available \in BOOLEAN
    /\ kind \in [Calls -> Kinds \cup {None}]
    /\ pc \in [Calls -> Labels]
    /\ view \in [Calls -> SUBSET Calls]
    /\ answer \in [Calls -> Answers]
    /\ moves \in 0 .. MaxMoves
    /\ rivals \in [Calls -> SUBSET Calls]
    /\ known \in [Calls -> SUBSET Calls]
    /\ raced \subseteq Keys
    /\ missed \in BOOLEAN

Init ==
    /\ status \in InitialStatuses
    /\ payment \in PaymentStatuses
    /\ writer = None
    /\ history = {}
    /\ refunds = [c \in Calls |-> None]
    /\ cache = [k \in Keys |-> {}]
    /\ available \in BOOLEAN
    /\ kind = [c \in Calls |-> None]
    /\ pc = [c \in Calls |-> "idle"]
    /\ view = [c \in Calls |-> {}]
    /\ answer = [c \in Calls |-> None]
    /\ moves = 0
    /\ rivals = [c \in Calls |-> {}]
    /\ known = [c \in Calls |-> {}]
    /\ raced = {}
    /\ missed = FALSE

-----------------------------------------------------------------------------
(* What the tables say *)

RefundRows == {c \in Calls : refunds[c] # None}
ActiveRefunds == {c \in Calls : refunds[c] \in ACTIVE_REFUND_STATUSES}

\* Mutants: the search finds undecided refunds only; there is no search.
PendingOnly == {c \in Calls : refunds[c] = "pending"}
NoSearch == {}

(* What the search for an active refund of the order returns.              *)
Found == ActiveRefunds

(* The writes a view of the database shows under a key.                    *)
Shown(k) == IF k = "orders" THEN history ELSE RefundRows

Confirmed == {c \in Calls : kind[c] \in Writes /\ answer[c] = "ok"}

(* A refund call that has looked for other refunds and not ended.          *)
PastItsCheck(c) == kind[c] = "refund" /\ pc[c] \in {"payment", "amount", "flush", "commit"}

Goto(c, label) == pc' = [pc EXCEPT ![c] = label]
Return(c, a) == Goto(c, "done") /\ answer' = [answer EXCEPT ![c] = a]

\* Mutant: the session is never closed and its lock stays.
KeepLock(c) == UNCHANGED writer

(* The end of a transaction frees the row.                                 *)
Unlock(c) == writer' = IF writer = c THEN None ELSE writer

-----------------------------------------------------------------------------
(* Beginning a call *)

Begin(c, k) ==
    /\ pc[c] = "idle"
    /\ kind' = [kind EXCEPT ![c] = k]
    /\ known' = [known EXCEPT ![c] = Confirmed]
    /\ Goto(c, IF k \in Writes THEN "order"
               ELSE IF available THEN "lookup" ELSE "fetch")
    /\ UNCHANGED <<database, redis, view, answer, moves, rivals, raced, missed>>

(* No user in the headers, or a refund without a reason.                   *)
TurnAway(c, k) ==
    /\ pc[c] = "idle"
    /\ kind' = [kind EXCEPT ![c] = k]
    /\ \E a \in {"auth_error"} \cup (IF k = "refund" THEN {"invalid_request"} ELSE {}) :
         Return(c, a)
    /\ UNCHANGED <<database, redis, view, moves, ghosts>>

-----------------------------------------------------------------------------
(* Write transactions *)

Allowed(k) == IF k = "cancel" THEN CANCELLABLE_STATUSES ELSE REFUNDABLE_STATUSES

(* verify_order_belongs_to_user and the test of the order's status.        *)
ReadOrder(c) ==
    /\ pc[c] = "order"
    /\ \/ Return(c, "permission_denied")
       \/ status \notin Allowed(kind[c]) /\ Return(c, "invalid_request")
       \/ /\ status \in Allowed(kind[c])
          /\ Goto(c, IF kind[c] = "cancel" THEN "flush" ELSE "active")
          /\ UNCHANGED answer
    /\ UNCHANGED <<database, redis, kind, view, moves, ghosts>>

(* The search for an active refund.  scalar_one_or_none raises on two rows *)
(* and the tool answers db_error.                                          *)
CheckActive(c) ==
    /\ pc[c] = "active"
    /\ \/ Found = {} /\ Goto(c, "payment") /\ UNCHANGED answer
       \/ Cardinality(Found) = 1 /\ Return(c, "invalid_request")
       \/ Cardinality(Found) > 1 /\ Return(c, "db_error")
    /\ rivals' = [rivals EXCEPT ![c] = {d \in Calls \ {c} : PastItsCheck(d)}]
    /\ UNCHANGED <<database, redis, kind, view, moves, known, raced, missed>>

(* The search for a paid payment.                                          *)
FindPayment(c) ==
    /\ pc[c] = "payment"
    /\ \/ payment = "paid" /\ Goto(c, "amount") /\ UNCHANGED answer
       \/ payment # "paid" /\ Return(c, "invalid_request")
    /\ UNCHANGED <<database, redis, kind, view, moves, ghosts>>

(* The amount asked for, or else the order's total, against the payment's. *)
CheckAmount(c) ==
    /\ pc[c] = "amount"
    /\ \/ Goto(c, "flush") /\ UNCHANGED answer
       \/ Return(c, "invalid_request")
    /\ UNCHANGED <<database, redis, kind, view, moves, ghosts>>

(* db.flush(): the UPDATE of the order waits for the row; the INSERT of a  *)
(* refund waits for nothing.  Neither is visible before the commit.        *)
Flush(c) ==
    /\ pc[c] = "flush"
    /\ \/ kind[c] = "refund" /\ UNCHANGED writer
       \/ kind[c] = "cancel" /\ writer = None /\ writer' = c
    /\ Goto(c, "commit")
    /\ UNCHANGED <<status, payment, history, refunds, redis, kind, view, answer, moves, ghosts>>

\* Mutant: the tool forgets db.commit().
NothingApplied(c) == UNCHANGED <<status, history, refunds, raced>>

NewRefundStatus == "pending"

(* The commit reaches the tables.                                          *)
Apply(c) ==
    /\ IF kind[c] = "cancel"
         THEN /\ status' = "cancelled"
              /\ history' = history \cup {c}
              /\ UNCHANGED refunds
         ELSE /\ refunds' = [refunds EXCEPT ![c] = NewRefundStatus]
              /\ UNCHANGED <<status, history>>
    /\ raced' = raced \cup
         {k \in StaleKeys(kind[c]) : \E d \in Calls : pc[d] = "fill" /\ KeyOf(kind[d]) = k}

(* db.commit().  When the connection breaks its outcome is unknown: the    *)
(* tool answers db_error, whether the commit took effect or not.           *)
Commit(c) ==
    /\ pc[c] = "commit"
    /\ Apply(c)
    /\ \/ Goto(c, "invalidate") /\ UNCHANGED answer
       \/ Return(c, "db_error")
    /\ Unlock(c)
    /\ UNCHANGED <<payment, redis, kind, view, moves, rivals, known, missed>>

(* A statement or the commit fails and the session rolls back.             *)
RollBack(c) ==
    /\ pc[c] \in {"order", "active", "payment", "amount", "flush", "commit"}
    /\ Return(c, "db_error")
    /\ Unlock(c)
    /\ UNCHANGED <<status, payment, history, refunds, redis, kind, view, moves, ghosts>>

(* invalidate(): a RedisError is logged, and the answer is given all the   *)
(* same.                                                                   *)
Invalidate(c) ==
    /\ pc[c] = "invalidate"
    /\ \/ /\ cache' = [k \in Keys |-> IF k \in StaleKeys(kind[c]) THEN {} ELSE cache[k]]
          /\ UNCHANGED missed
       \/ UNCHANGED cache /\ missed' = TRUE
    /\ Return(c, "ok")
    /\ UNCHANGED <<database, available, kind, view, moves, rivals, known, raced>>

-----------------------------------------------------------------------------
(* Reads: cache_aside *)

(* The cache read: a hit is the answer, a miss or a RedisError falls       *)
(* through to the database.                                                *)
Lookup(c) ==
    /\ pc[c] = "lookup"
    /\ \/ /\ cache[KeyOf(kind[c])] # {}
          /\ \E v \in cache[KeyOf(kind[c])] : view' = [view EXCEPT ![c] = v]
          /\ Return(c, "ok")
       \/ Goto(c, "fetch") /\ UNCHANGED <<view, answer>>
    /\ UNCHANGED <<database, redis, kind, moves, ghosts>>

Fetch(c) ==
    /\ pc[c] = "fetch"
    /\ \/ /\ view' = [view EXCEPT ![c] = Shown(KeyOf(kind[c]))]
          /\ IF available THEN Goto(c, "fill") /\ UNCHANGED answer
                          ELSE Return(c, "ok")
       \/ Return(c, "db_error") /\ UNCHANGED view
    /\ UNCHANGED <<database, redis, kind, moves, ghosts>>

(* The cache write, with a time to live; a RedisError is logged.           *)
Fill(c) ==
    /\ pc[c] = "fill"
    /\ \/ cache' = [cache EXCEPT ![KeyOf(kind[c])] = {view[c]}]
       \/ UNCHANGED cache
    /\ Return(c, "ok")
    /\ UNCHANGED <<database, available, kind, view, moves, ghosts>>

-----------------------------------------------------------------------------
(* The service and the world *)

(* The process of a call dies, or its task is cancelled: PostgreSQL rolls  *)
(* its transaction back.                                                   *)
Crash(c) ==
    /\ pc[c] \notin {"idle", "done"}
    /\ Return(c, "lost")
    /\ Unlock(c)
    /\ UNCHANGED <<status, payment, history, refunds, redis, kind, view, moves, ghosts>>

(* The time to live of an entry is up.                                     *)
Expire(k) ==
    /\ cache[k] # {}
    /\ cache' = [cache EXCEPT ![k] = {}]
    /\ UNCHANGED <<database, available, local, moves, ghosts>>

(* External: the warehouse moves the order on, waiting for the row.        *)
Warehouse ==
    /\ moves < MaxMoves
    /\ writer = None
    /\ \E m \in WarehouseMoves : status = m[1] /\ status' = m[2]
    /\ moves' = moves + 1
    /\ UNCHANGED <<payment, writer, history, refunds, redis, local, ghosts>>

(* External: the refund desk decides on a refund.                          *)
RefundDesk ==
    /\ moves < MaxMoves
    /\ \E c \in Calls, m \in DeskMoves :
         /\ refunds[c] = m[1]
         /\ refunds' = [refunds EXCEPT ![c] = m[2]]
    /\ moves' = moves + 1
    /\ UNCHANGED <<status, payment, writer, history, redis, local, ghosts>>

CallStep(c) ==
    \/ ReadOrder(c)
    \/ CheckActive(c)
    \/ FindPayment(c)
    \/ CheckAmount(c)
    \/ Flush(c)
    \/ Commit(c)
    \/ Invalidate(c)
    \/ Lookup(c)
    \/ Fetch(c)
    \/ Fill(c)

Next ==
    \/ \E c \in Calls, k \in Kinds : Begin(c, k) \/ TurnAway(c, k)
    \/ \E c \in Calls : CallStep(c) \/ RollBack(c) \/ Crash(c)
    \/ \E k \in Keys : Expire(k)
    \/ Warehouse
    \/ RefundDesk

Spec == Init /\ [][Next]_vars

(* A call runs on until it returns.  Nothing is owed to failures: no       *)
(* time-out ends the wait for a row.                                       *)
FairSpec == Spec /\ \A c \in Calls : WF_vars(CallStep(c))

-----------------------------------------------------------------------------
(* Properties *)

(* The row lock is held by exactly the cancellation that has flushed and   *)
(* not committed, so no other UPDATE of the order comes between the two.   *)
LockIsTheFlushedCancel ==
    \A c \in Calls : writer = c <=> kind[c] = "cancel" /\ pc[c] = "commit"

(* initiate_refund checks for an active refund without locking anything:   *)
(* two active refunds of the order come only of two calls that were past   *)
(* that check at the same time.                                            *)
OnlyRivalsRefundTwice ==
    \A c, d \in ActiveRefunds : c # d => c \in rivals[d] \/ d \in rivals[c]

(* A refund asked for again after it was confirmed is not paid twice.      *)
RetriesAreRefused ==
    \A c, d \in ActiveRefunds : d \notin known[c]

(* A write tool answers ok only for what is committed, and refuses only    *)
(* what is not; of db_error and a lost answer nothing can be concluded.    *)
AnswersMatchTheTables ==
    \A c \in Calls : kind[c] \in Writes =>
        /\ answer[c] = "ok" => c \in history \cup RefundRows
        /\ answer[c] \in {"auth_error", "permission_denied", "invalid_request"} =>
               c \notin history \cup RefundRows

(* The confirmed writes a read must show: those its key holds.             *)
Due(c) == {d \in known[c] : KeyOf(kind[c]) = IF kind[d] = "cancel" THEN "orders" ELSE "refunds"}

(* A read shows every write confirmed before it began, unless Redis missed *)
(* an invalidation, or a write committed while a read of the key was on    *)
(* its way from the database to the cache.                                 *)
ReadsShowConfirmed ==
    \A c \in Calls :
        kind[c] \in Reads /\ answer[c] = "ok" =>
            missed \/ KeyOf(kind[c]) \in raced \/ Due(c) \subseteq view[c]

(* An order with a refund has been delivered: the refund desk never finds  *)
(* a row for an order that is still on its way.                            *)
RefundsFollowDelivery ==
    RefundRows # {} => status \in {"delivered", "returned", "cancelled"}

(* Every call returns: it waits only for the row, and whoever holds the    *)
(* row commits, rolls back or dies.                                        *)
CallsReturn == \A c \in Calls : pc[c] # "idle" ~> pc[c] = "done"

(* The write calls as the requests of a ledger: a call is qualified once   *)
(* its order has passed verify_order_belongs_to_user and the status test.  *)
Wants == [c \in Calls |-> IF kind[c] \in Writes THEN kind[c] ELSE "nothing"]

Stage ==
    [c \in Calls |-> IF kind[c] \notin Writes THEN "new"
                     ELSE IF pc[c] = "order" THEN "open"
                     ELSE IF pc[c] = "done" THEN "closed" ELSE "qualified"]

Told ==
    [c \in Calls |->
        IF kind[c] \notin Writes \/ answer[c] = None THEN "nothing"
        ELSE IF answer[c] = "ok" THEN "ok"
        ELSE IF answer[c] \in {"db_error", "lost"} THEN "unknown" ELSE "refused"]

Ledger == INSTANCE OrderLedger WITH
    Requests <- Calls, Statuses <- OrderStatuses,
    Cancellable <- {"pending", "confirmed", "processing"}, Refundable <- {"delivered"},
    order <- status, wants <- Wants, stage <- Stage, done <- history \cup RefundRows,
    told <- Told

(* A write call takes effect at most once and all at once, after the order *)
(* qualified for it and before it is answered, and it is answered          *)
(* truthfully: through concurrent calls, locks, roll-backs, commits whose  *)
(* outcome is lost, and crashes.                                           *)
WritesKeepTheLedger == Ledger!Spec

=============================================================================
