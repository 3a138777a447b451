--------------------------- MODULE OrderToolsProofs ---------------------------
(***************************************************************************)
(* Theorems of OrderTools: what the tools guarantee for every set of calls *)
(* and every number of outside steps.                                      *)
(***************************************************************************)
EXTENDS OrderTools, TLAPS


(* The service starts with every variable of its type.                     *)
LEMMA TypeInit == Init => TypeOK
<1> SUFFICES ASSUME Init PROVE TypeOK
  OBVIOUS
<1>1. status \in OrderStatuses /\ moves \in 0 .. MaxMoves
  BY ConfigAssumption DEF ConfigAssumption, Init
<1>2. available \in BOOLEAN /\ missed \in BOOLEAN
  BY DEF Init
<1>3. kind \in [Calls -> Kinds \cup {None}] /\ pc \in [Calls -> Labels] /\ answer \in [Calls -> Answers]
  BY DEF Init, Labels, Answers
<1> QED
  BY <1>1, <1>2, <1>3 DEF Init, TypeOK

(* No step of a call, of Redis or of the world leaves the types.           *)
LEMMA TypeStep == TypeOK /\ [Next]_vars => TypeOK'
<1> SUFFICES ASSUME TypeOK, [Next]_vars PROVE TypeOK'
  OBVIOUS
<1> USE ConfigAssumption DEF ConfigAssumption
<1>1. CASE UNCHANGED vars
  BY <1>1 DEF vars, database, redis, local, ghosts, TypeOK
<1>2. ASSUME NEW c \in Calls, NEW k \in Kinds, Begin(c, k) PROVE TypeOK'
  <2>1. Confirmed \subseteq Calls
    BY DEF Confirmed
  <2> QED
    BY <1>2, <2>1 DEF Begin, Goto, database, redis, TypeOK, Labels, Kinds
<1>3. ASSUME NEW c \in Calls, NEW k \in Kinds, TurnAway(c, k) PROVE TypeOK'
  BY <1>3 DEF TurnAway, Goto, Return, database, redis, ghosts, TypeOK, Labels, Kinds, Answers
<1>4. ASSUME NEW c \in Calls, ReadOrder(c) PROVE TypeOK'
  BY <1>4 DEF ReadOrder, Goto, Return, database, redis, ghosts, TypeOK, Labels, Answers
<1>5. ASSUME NEW c \in Calls, CheckActive(c) PROVE TypeOK'
  BY <1>5 DEF CheckActive, Goto, Return, database, redis, TypeOK, Labels, Answers
<1>6. ASSUME NEW c \in Calls, FindPayment(c) \/ CheckAmount(c) PROVE TypeOK'
  BY <1>6 DEF FindPayment, CheckAmount, Goto, Return, database, redis, ghosts, TypeOK, Labels, Answers
<1>7. ASSUME NEW c \in Calls, Flush(c) PROVE TypeOK'
  BY <1>7 DEF Flush, Goto, redis, ghosts, TypeOK, Labels
<1>8. ASSUME NEW c \in Calls, Commit(c) PROVE TypeOK'
  <2>1. status' \in OrderStatuses /\ history' \subseteq Calls
        /\ refunds' \in [Calls -> RefundStatuses \cup {None}] /\ raced' \subseteq Keys
    BY <1>8 DEF Commit, Apply, StaleKeys, Keys, TypeOK, OrderStatuses, RefundStatuses,
       ACTIVE_REFUND_STATUSES, NewRefundStatus
  <2>2. pc' \in [Calls -> Labels] /\ answer' \in [Calls -> Answers] /\ writer' \in Calls \cup {None}
    BY <1>8 DEF Commit, Goto, Return, Unlock, TypeOK, Labels, Answers
  <2> QED
    BY <1>8, <2>1, <2>2 DEF Commit, redis, TypeOK
<1>9. ASSUME NEW c \in Calls, RollBack(c) \/ Crash(c) PROVE TypeOK'
  BY <1>9 DEF RollBack, Crash, Goto, Return, Unlock, redis, ghosts, TypeOK, Labels, Answers
<1>10. ASSUME NEW c \in Calls, Invalidate(c) PROVE TypeOK'
  <2>1. cache' \in [Keys -> SUBSET SUBSET Calls]
    BY <1>10 DEF Invalidate, TypeOK
  <2>2. pc' \in [Calls -> Labels] /\ answer' \in [Calls -> Answers]
    BY <1>10 DEF Invalidate, Goto, Return, TypeOK, Labels, Answers
  <2>3. missed' \in BOOLEAN
    BY <1>10 DEF Invalidate, TypeOK
  <2> QED
    BY <1>10, <2>1, <2>2, <2>3 DEF Invalidate, database, TypeOK
<1>11. ASSUME NEW c \in Calls, Lookup(c) PROVE TypeOK'
  <2>1. KeyOf(kind[c]) \in Keys
    BY DEF KeyOf, Keys
  <2> QED
    BY <1>11, <2>1 DEF Lookup, Goto, Return, database, redis, ghosts, TypeOK, Labels, Answers
<1>12. ASSUME NEW c \in Calls, Fetch(c) PROVE TypeOK'
  <2>1. Shown(KeyOf(kind[c])) \subseteq Calls
    BY DEF Shown, RefundRows, TypeOK
  <2> QED
    BY <1>12, <2>1 DEF Fetch, Goto, Return, database, redis, ghosts, TypeOK, Labels, Answers
<1>13. ASSUME NEW c \in Calls, Fill(c) PROVE TypeOK'
  BY <1>13 DEF Fill, Goto, Return, database, ghosts, TypeOK, Labels, Answers
<1>14. ASSUME NEW k \in Keys, Expire(k) PROVE TypeOK'
  BY <1>14 DEF Expire, database, local, ghosts, TypeOK
<1>15. CASE Warehouse
  <2>1. status' \in OrderStatuses
    BY <1>15 DEF Warehouse, WarehouseMoves, OrderStatuses, CANCELLABLE_STATUSES, REFUNDABLE_STATUSES
  <2> QED
    BY <1>15, <2>1 DEF Warehouse, redis, local, ghosts, TypeOK
<1>16. CASE RefundDesk
  <2>1. refunds' \in [Calls -> RefundStatuses \cup {None}]
    BY <1>16 DEF RefundDesk, DeskMoves, RefundStatuses, ACTIVE_REFUND_STATUSES, TypeOK
  <2> QED
    BY <1>16, <2>1 DEF RefundDesk, redis, local, ghosts, TypeOK
<1> QED
  BY <1>1, <1>2, <1>3, <1>4, <1>5, <1>6, <1>7, <1>8, <1>9, <1>10, <1>11, <1>12, <1>13,
     <1>14, <1>15, <1>16 DEF Next, CallStep

(* Every variable keeps its type.                                          *)
THEOREM TypeCorrect == Spec => []TypeOK
<1>1. Init => TypeOK
  BY TypeInit
<1>2. TypeOK /\ [Next]_vars => TypeOK'
  BY TypeStep
<1> QED
  BY <1>1, <1>2, PTL DEF Spec

-----------------------------------------------------------------------------
(* What the place of a call says of its kind, its answer, its writes and   *)
(* the lock.                                                               *)

Written == history \cup RefundRows

PlaceInv ==
    \A c \in Calls :
        /\ pc[c] = "idle" => kind[c] = None
        /\ pc[c] \in {"order", "flush", "commit", "invalidate"} => kind[c] \in Writes
        /\ pc[c] \in {"active", "payment", "amount"} => kind[c] = "refund"
        /\ pc[c] \in {"lookup", "fetch", "fill"} => kind[c] \in Reads
        /\ pc[c] # "done" => answer[c] = None

WriteInv ==
    \A c \in Calls :
        /\ c \in history => kind[c] = "cancel"
        /\ refunds[c] # None => kind[c] = "refund"
        /\ c \in Written => pc[c] \in {"invalidate", "done"}
        /\ pc[c] = "invalidate" => c \in Written
        /\ c \in Written => answer[c] \in {None, "ok", "db_error", "lost"}
        /\ kind[c] \in Writes /\ answer[c] = "ok" => c \in Written

ShapeInv == PlaceInv /\ WriteInv /\ LockIsTheFlushedCancel

(* Before the first call nothing is written and nothing is locked.         *)
LEMMA ShapeInit == Init => ShapeInv
<1> SUFFICES ASSUME Init PROVE ShapeInv
  OBVIOUS
<1>1. Written = {}
  BY DEF Init, Written, RefundRows
<1> QED
  BY <1>1, ConfigAssumption DEF ConfigAssumption, None, Init, ShapeInv, PlaceInv, WriteInv, LockIsTheFlushedCancel

(* Every step keeps place, writes and lock of a call in agreement.         *)
LEMMA ShapeStep == TypeOK /\ ShapeInv /\ [Next]_vars => ShapeInv'
<1> SUFFICES ASSUME TypeOK, ShapeInv, [Next]_vars PROVE ShapeInv'
  OBVIOUS
<1> USE ConfigAssumption DEF ConfigAssumption
<1>1. CASE UNCHANGED vars
  BY <1>1 DEF vars, database, redis, local, ghosts, ShapeInv, PlaceInv, WriteInv, LockIsTheFlushedCancel, Written, RefundRows
<1>2. ASSUME NEW c \in Calls, NEW k \in Kinds, Begin(c, k) PROVE ShapeInv'
  <2>1. \/ pc'[c] = "order" /\ k \in Writes
        \/ pc'[c] \in {"lookup", "fetch"} /\ k \in Reads
    BY <1>2 DEF Begin, Goto, TypeOK, Kinds
  <2>2. /\ pc[c] = "idle" /\ kind'[c] = k
        /\ \A d \in Calls \ {c} : pc'[d] = pc[d] /\ kind'[d] = kind[d]
        /\ UNCHANGED <<writer, history, refunds, answer>>
    BY <1>2 DEF Begin, Goto, TypeOK, database
  <2>3. answer[c] = None /\ answer[c] # "ok"
    BY <2>2 DEF ShapeInv, PlaceInv, None
  <2>4. c \notin Written /\ writer # c /\ Written' = Written /\ c \notin history /\ refunds[c] = None
    BY <2>2 DEF ShapeInv, WriteInv, LockIsTheFlushedCancel, Written, RefundRows
  <2>5. PlaceInv'
    BY <2>1, <2>2, <2>3 DEF ShapeInv, PlaceInv
  <2>6. WriteInv'
    BY <2>1, <2>2, <2>3, <2>4 DEF ShapeInv, WriteInv
  <2>7. LockIsTheFlushedCancel'
    BY <2>1, <2>2, <2>4 DEF ShapeInv, LockIsTheFlushedCancel
  <2> QED
    BY <2>5, <2>6, <2>7 DEF ShapeInv
<1>3. ASSUME NEW c \in Calls, NEW k \in Kinds, TurnAway(c, k) PROVE ShapeInv'
  <2>1. pc'[c] = "done" /\ pc[c] = "idle"
    BY <1>3 DEF TurnAway, Goto, Return, TypeOK
  <2>3. answer'[c] \in {"auth_error", "invalid_request"}
    <3>1. PICK a \in {"auth_error"} \cup (IF k = "refund" THEN {"invalid_request"} ELSE {}) : Return(c, a)
      BY <1>3 DEF TurnAway
    <3> QED
      BY <3>1 DEF Return, TypeOK
  <2>2. /\ \A d \in Calls \ {c} : pc'[d] = pc[d] /\ kind'[d] = kind[d] /\ answer'[d] = answer[d]
        /\ UNCHANGED <<writer, history, refunds>>
    BY <1>3 DEF TurnAway, Goto, Return, TypeOK, database
  <2>4. c \notin Written /\ writer # c /\ Written' = Written /\ c \notin history /\ refunds[c] = None
    BY <2>1, <2>2 DEF ShapeInv, WriteInv, LockIsTheFlushedCancel, Written, RefundRows
  <2>5. PlaceInv'
    BY <2>1, <2>2 DEF ShapeInv, PlaceInv
  <2>6. WriteInv'
    BY <2>1, <2>2, <2>3, <2>4 DEF ShapeInv, WriteInv
  <2>7. LockIsTheFlushedCancel'
    BY <2>1, <2>2, <2>4 DEF ShapeInv, LockIsTheFlushedCancel
  <2> QED
    BY <2>5, <2>6, <2>7 DEF ShapeInv
<1>4. ASSUME NEW c \in Calls, ReadOrder(c) \/ CheckActive(c) \/ FindPayment(c) \/ CheckAmount(c) PROVE ShapeInv'
  BY <1>4 DEF ReadOrder, CheckActive, FindPayment, CheckAmount, Goto, Return, database, redis, ghosts, TypeOK, Writes, Reads, ShapeInv, PlaceInv, WriteInv, LockIsTheFlushedCancel, Written, RefundRows
<1>7. ASSUME NEW c \in Calls, Flush(c) PROVE ShapeInv'
  BY <1>7 DEF Flush, Goto, redis, ghosts, TypeOK, Writes, Reads, ShapeInv, PlaceInv, WriteInv, LockIsTheFlushedCancel, Written, RefundRows
<1>8. ASSUME NEW c \in Calls, Commit(c) PROVE ShapeInv'
  BY <1>8 DEF Commit, Apply, Goto, Return, Unlock, redis, TypeOK, Writes, Reads, NewRefundStatus, None, ShapeInv, PlaceInv, WriteInv, LockIsTheFlushedCancel, Written, RefundRows
<1>9. ASSUME NEW c \in Calls, RollBack(c) \/ Crash(c) PROVE ShapeInv'
  BY <1>9 DEF RollBack, Crash, Goto, Return, Unlock, redis, ghosts, TypeOK, Writes, Reads, ShapeInv, PlaceInv, WriteInv, LockIsTheFlushedCancel, Written, RefundRows
<1>10. ASSUME NEW c \in Calls, Invalidate(c) PROVE ShapeInv'
  BY <1>10 DEF Invalidate, Goto, Return, database, TypeOK, Writes, Reads, ShapeInv, PlaceInv, WriteInv, LockIsTheFlushedCancel, Written, RefundRows
<1>11. ASSUME NEW c \in Calls, Lookup(c) \/ Fetch(c) \/ Fill(c) PROVE ShapeInv'
  BY <1>11 DEF Lookup, Fetch, Fill, Goto, Return, database, redis, ghosts, TypeOK, Writes, Reads, ShapeInv, PlaceInv, WriteInv, LockIsTheFlushedCancel, Written, RefundRows
<1>14. ASSUME NEW k \in Keys, Expire(k) PROVE ShapeInv'
  BY <1>14 DEF Expire, database, local, ghosts, ShapeInv, PlaceInv, WriteInv, LockIsTheFlushedCancel, Written, RefundRows
<1>15. CASE Warehouse
  BY <1>15 DEF Warehouse, redis, local, ghosts, ShapeInv, PlaceInv, WriteInv, LockIsTheFlushedCancel, Written, RefundRows
<1>16. CASE RefundDesk
  BY <1>16 DEF RefundDesk, DeskMoves, TypeOK, None, redis, local, ghosts, ShapeInv, PlaceInv, WriteInv, LockIsTheFlushedCancel, Written, RefundRows
<1> QED
  BY <1>1, <1>2, <1>3, <1>4, <1>7, <1>8, <1>9, <1>10, <1>11, <1>14, <1>15, <1>16 DEF Next, CallStep

(* Place, answer, writes and lock of a call agree in every reachable state. *)
THEOREM ShapeCorrect == Spec => [](TypeOK /\ ShapeInv)
<1>1. Init => TypeOK /\ ShapeInv
  BY TypeInit, ShapeInit
<1>2. TypeOK /\ ShapeInv /\ [Next]_vars => (TypeOK /\ ShapeInv)'
  BY TypeStep, ShapeStep
<1> QED
  BY <1>1, <1>2, PTL DEF Spec

(* A write tool says ok only of what is in the tables, and refuses only    *)
(* what is not.                                                            *)
THEOREM AnswersAreTrue == Spec => []AnswersMatchTheTables
<1>1. ShapeInv => AnswersMatchTheTables
  BY DEF ShapeInv, WriteInv, Written, AnswersMatchTheTables, None
<1> QED
  BY <1>1, ShapeCorrect, PTL

-----------------------------------------------------------------------------
(* Two refunds of one order.  A call past its check has looked while no    *)
(* other refund was active; whoever was past the check then is its rival,  *)
(* and whoever looks later has it as a rival.                              *)

Unchecked == {"idle", "order", "active"}

RivalInv ==
    /\ \A c \in Calls : pc[c] \in Unchecked => rivals[c] = {}
    /\ \A c, d \in Calls : c \in rivals[d] => pc[c] \notin Unchecked
    /\ \A c, d \in Calls : PastItsCheck(c) /\ PastItsCheck(d) /\ c # d =>
           c \in rivals[d] \/ d \in rivals[c]
    /\ \A c \in Calls, d \in ActiveRefunds : PastItsCheck(c) =>
           c \in rivals[d] \/ d \in rivals[c]
    /\ OnlyRivalsRefundTwice

(* A call confirmed before another began is no rival of it.                *)
KnownInv ==
    \A c, d \in Calls : d \in known[c] =>
        /\ d # c
        /\ pc[c] # "idle"
        /\ pc[d] = "done" /\ answer[d] = "ok" /\ kind[d] \in Writes
        /\ d \notin rivals[c] /\ c \notin rivals[d]

(* At first no call has looked for refunds and none is known.              *)
LEMMA RivalInit == Init => RivalInv /\ KnownInv
<1> SUFFICES ASSUME Init PROVE RivalInv /\ KnownInv
  OBVIOUS
<1>1. ActiveRefunds = {}
  BY DEF Init, ActiveRefunds, ACTIVE_REFUND_STATUSES, None
<1>2. \A c \in Calls : ~PastItsCheck(c) /\ rivals[c] = {} /\ known[c] = {}
  BY DEF Init, PastItsCheck
<1> QED
  BY <1>1, <1>2 DEF Init, RivalInv, KnownInv, OnlyRivalsRefundTwice, Unchecked

(* Steps that leave the refunds, the rivals and the calls past the check   *)
(* alone, or only take calls out of them.                                  *)
LEMMA RivalFrame ==
  ASSUME RivalInv,
         \A c \in Calls : pc'[c] \in Unchecked => pc[c] \in Unchecked,
         \A c \in Calls : PastItsCheck(c)' => PastItsCheck(c),
         ActiveRefunds' \subseteq ActiveRefunds,
         rivals' = rivals
  PROVE  RivalInv'
BY DEF RivalInv, OnlyRivalsRefundTwice

(* Steps of a call that is under way, and steps of nobody.                 *)
LEMMA KnownFrame ==
  ASSUME KnownInv,
         \A c \in Calls : pc'[c] = "idle" => pc[c] = "idle",
         \A d \in Calls : pc[d] = "done" => pc'[d] = "done" /\ answer'[d] = answer[d] /\ kind'[d] = kind[d],
         known' = known, rivals' = rivals
  PROVE  KnownInv'
BY DEF KnownInv

(* CheckActive makes rivals, Commit needs them, and a call confirmed       *)
(* before another begins can never become one.                             *)
LEMMA RivalStep == TypeOK /\ ShapeInv /\ RivalInv /\ KnownInv /\ [Next]_vars => RivalInv' /\ KnownInv'
<1> SUFFICES ASSUME TypeOK, ShapeInv, RivalInv, KnownInv, [Next]_vars PROVE RivalInv' /\ KnownInv'
  OBVIOUS
<1>1. CASE UNCHANGED vars
  <2>1. /\ \A c \in Calls : PastItsCheck(c)' = PastItsCheck(c)
        /\ ActiveRefunds' = ActiveRefunds
        /\ pc' = pc /\ kind' = kind /\ answer' = answer /\ rivals' = rivals /\ known' = known
    BY <1>1 DEF vars, database, local, ghosts, PastItsCheck, ActiveRefunds
  <2> QED
    BY <2>1, RivalFrame, KnownFrame
<1>2. ASSUME NEW c \in Calls, NEW k \in Kinds, Begin(c, k) PROVE RivalInv' /\ KnownInv'
  <2>1. /\ pc[c] = "idle" /\ pc'[c] \in {"order", "lookup", "fetch"}
        /\ kind'[c] = k /\ known'[c] = Confirmed
        /\ \A d \in Calls \ {c} : pc'[d] = pc[d] /\ kind'[d] = kind[d] /\ known'[d] = known[d]
        /\ answer' = answer /\ rivals' = rivals /\ refunds' = refunds
    BY <1>2 DEF Begin, Goto, TypeOK, database
  <2>2. RivalInv'
    <3>1. \A d \in Calls : PastItsCheck(d)' => PastItsCheck(d)
      BY <2>1 DEF PastItsCheck
    <3>2. ActiveRefunds' = ActiveRefunds
      BY <2>1 DEF ActiveRefunds
    <3>3. \A d \in Calls : pc'[d] \in Unchecked => pc[d] \in Unchecked
      BY <2>1 DEF Unchecked
    <3> QED
      BY <2>1, <3>1, <3>2, <3>3, RivalFrame
  <2>3. \A d \in Confirmed : /\ d \in Calls /\ d # c
                             /\ pc[d] = "done" /\ answer[d] = "ok" /\ kind[d] \in Writes
    BY <2>1 DEF Confirmed, ShapeInv, PlaceInv, None
  <2>4. rivals[c] = {} /\ \A d \in Calls : c \notin rivals[d]
    BY <2>1 DEF RivalInv, Unchecked
  <2>5. KnownInv'
    BY <2>1, <2>3, <2>4 DEF KnownInv
  <2> QED
    BY <2>2, <2>5
<1>3. ASSUME NEW c \in Calls, NEW k \in Kinds, TurnAway(c, k) PROVE RivalInv' /\ KnownInv'
  <2>1. /\ pc[c] = "idle" /\ pc'[c] = "done"
        /\ \A d \in Calls \ {c} : pc'[d] = pc[d] /\ kind'[d] = kind[d] /\ answer'[d] = answer[d]
        /\ rivals' = rivals /\ known' = known /\ refunds' = refunds
    BY <1>3 DEF TurnAway, Goto, Return, TypeOK, database, ghosts
  <2>2. \A d \in Calls : PastItsCheck(d)' => PastItsCheck(d)
    BY <2>1 DEF PastItsCheck
  <2>3. ActiveRefunds' = ActiveRefunds
    BY <2>1 DEF ActiveRefunds
  <2>4. \A d \in Calls : pc'[d] \in Unchecked => pc[d] \in Unchecked
    BY <2>1 DEF Unchecked
  <2> QED
    BY <2>1, <2>2, <2>3, <2>4, RivalFrame, KnownFrame
<1>4. ASSUME NEW c \in Calls, CheckActive(c) PROVE RivalInv' /\ KnownInv'
  <2>1. /\ pc[c] = "active" /\ kind[c] = "refund" /\ kind' = kind
        /\ (pc'[c] = "payment" /\ ActiveRefunds = {}) \/ pc'[c] = "done"
        /\ \A d \in Calls \ {c} : pc'[d] = pc[d] /\ answer'[d] = answer[d]
        /\ known' = known /\ refunds' = refunds
    BY <1>4 DEF CheckActive, Found, Goto, Return, TypeOK, database, ShapeInv, PlaceInv
  <2>2. /\ rivals'[c] = {d \in Calls \ {c} : PastItsCheck(d)}
        /\ \A d \in Calls \ {c} : rivals'[d] = rivals[d]
    BY <1>4 DEF CheckActive, TypeOK
  <2>3. ActiveRefunds' = ActiveRefunds
    BY <2>1 DEF ActiveRefunds
  <2>4. \A d \in Calls \ {c} : PastItsCheck(d)' <=> PastItsCheck(d)
    BY <2>1 DEF PastItsCheck
  <2>5. c \notin ActiveRefunds
    BY <2>1 DEF ActiveRefunds, ACTIVE_REFUND_STATUSES, ShapeInv, WriteInv, Written, RefundRows, None
  <2>6. \A d \in Calls : PastItsCheck(d) => pc[d] \notin Unchecked /\ pc[d] # "done"
    BY DEF PastItsCheck, Unchecked
  <2>7. \A d \in Calls : c \notin rivals[d]
    BY <2>1 DEF RivalInv, Unchecked
  <2>8. RivalInv'
    <3>1. \A d \in Calls : pc'[d] \in Unchecked => rivals'[d] = {}
      BY <2>1, <2>2 DEF RivalInv, Unchecked
    <3>2. \A d, e \in Calls : d \in rivals'[e] => pc'[d] \notin Unchecked
      BY <2>1, <2>2, <2>6 DEF RivalInv, Unchecked
    <3>3. \A d, e \in Calls : PastItsCheck(d)' /\ PastItsCheck(e)' /\ d # e =>
             d \in rivals'[e] \/ e \in rivals'[d]
      BY <2>2, <2>4 DEF RivalInv
    <3>4. PastItsCheck(c)' => ActiveRefunds = {}
      BY <2>1 DEF PastItsCheck
    <3>5. \A d \in Calls, e \in ActiveRefunds' : PastItsCheck(d)' =>
             d \in rivals'[e] \/ e \in rivals'[d]
      BY <2>2, <2>3, <2>4, <2>5, <3>4 DEF RivalInv, ActiveRefunds
    <3>6. OnlyRivalsRefundTwice'
      BY <2>2, <2>3, <2>5 DEF RivalInv, OnlyRivalsRefundTwice, ActiveRefunds
    <3> QED
      BY <3>1, <3>2, <3>3, <3>5, <3>6 DEF RivalInv
  <2>9. KnownInv'
    <3>1. \A d \in Calls : pc[d] = "done" => d \notin rivals'[c]
      BY <2>2, <2>6
    <3>2. \A d \in Calls : pc[d] = "done" => d # c
      BY <2>1
    <3> QED
      BY <2>1, <2>2, <3>1, <3>2 DEF KnownInv
  <2> QED
    BY <2>8, <2>9
<1>5. ASSUME NEW c \in Calls, Commit(c) PROVE RivalInv' /\ KnownInv'
  <2>1. /\ pc[c] = "commit" /\ pc'[c] \in {"invalidate", "done"} /\ kind' = kind
        /\ \A d \in Calls \ {c} : pc'[d] = pc[d] /\ answer'[d] = answer[d]
        /\ known' = known /\ rivals' = rivals
    BY <1>5 DEF Commit, Goto, Return, TypeOK
  <2>2. KnownInv'
    BY <2>1, KnownFrame
  <2>3. ~PastItsCheck(c)' /\ \A d \in Calls \ {c} : PastItsCheck(d)' <=> PastItsCheck(d)
    BY <2>1 DEF PastItsCheck
  <2>4. \A d \in Calls : pc'[d] \in Unchecked => pc[d] \in Unchecked
    BY <2>1 DEF Unchecked
  <2>5. CASE kind[c] = "cancel"
    <3>1. refunds' = refunds
      BY <1>5, <2>5 DEF Commit, Apply
    <3>2. ActiveRefunds' = ActiveRefunds
      BY <3>1 DEF ActiveRefunds
    <3> QED
      BY <2>1, <2>2, <2>3, <2>4, <3>2, RivalFrame
  <2>6. CASE kind[c] # "cancel"
    <3>1. PastItsCheck(c)
      BY <2>1, <2>6 DEF PastItsCheck, ShapeInv, PlaceInv, Writes
    <3>2. refunds' = [refunds EXCEPT ![c] = "pending"]
      BY <1>5, <2>6 DEF Commit, Apply, NewRefundStatus
    <3>3. ActiveRefunds' \subseteq ActiveRefunds \cup {c}
      BY <3>2 DEF ActiveRefunds, TypeOK
    <3>4. /\ \A d \in Calls : pc'[d] \in Unchecked => rivals'[d] = {}
          /\ \A d, e \in Calls : d \in rivals'[e] => pc'[d] \notin Unchecked
          /\ \A d, e \in Calls : PastItsCheck(d)' /\ PastItsCheck(e)' /\ d # e =>
                d \in rivals'[e] \/ e \in rivals'[d]
      BY <2>1, <2>3, <2>4 DEF RivalInv
    <3>5. \A d \in Calls, e \in ActiveRefunds' : PastItsCheck(d)' =>
             d \in rivals'[e] \/ e \in rivals'[d]
      BY <2>1, <2>3, <3>1, <3>3 DEF RivalInv
    <3>6. OnlyRivalsRefundTwice'
      BY <2>1, <3>1, <3>3 DEF RivalInv, OnlyRivalsRefundTwice, ActiveRefunds
    <3> QED
      BY <2>2, <3>4, <3>5, <3>6 DEF RivalInv
  <2> QED
    BY <2>5, <2>6
<1>6. ASSUME NEW c \in Calls,
             \/ ReadOrder(c) \/ FindPayment(c) \/ CheckAmount(c) \/ Flush(c)
             \/ RollBack(c) \/ Invalidate(c) \/ Lookup(c) \/ Fetch(c) \/ Fill(c) \/ Crash(c)
      PROVE  RivalInv' /\ KnownInv'
  <2>1. /\ pc[c] \notin {"idle", "done"} /\ kind' = kind
        /\ pc'[c] \in Unchecked => pc[c] \in Unchecked
        /\ pc'[c] # "idle"
        /\ PastItsCheck(c)' => PastItsCheck(c)
        /\ \A d \in Calls \ {c} : pc'[d] = pc[d] /\ answer'[d] = answer[d]
        /\ known' = known /\ rivals' = rivals /\ refunds' = refunds
    BY <1>6 DEF ReadOrder, FindPayment, CheckAmount, Flush, RollBack, Invalidate, Lookup, Fetch,
       Fill, Crash, Goto, Return, TypeOK, database, ghosts, Unchecked, PastItsCheck, ShapeInv, PlaceInv
  <2>2. \A d \in Calls : PastItsCheck(d)' => PastItsCheck(d)
    BY <2>1 DEF PastItsCheck
  <2>3. ActiveRefunds' = ActiveRefunds
    BY <2>1 DEF ActiveRefunds
  <2>4. \A d \in Calls : pc'[d] \in Unchecked => pc[d] \in Unchecked
    BY <2>1
  <2> QED
    BY <2>1, <2>2, <2>3, <2>4, RivalFrame, KnownFrame
<1>7. ASSUME \/ \E k \in Keys : Expire(k)
             \/ Warehouse \/ RefundDesk
      PROVE  RivalInv' /\ KnownInv'
  <2>1. pc' = pc /\ kind' = kind /\ answer' = answer /\ rivals' = rivals /\ known' = known
    BY <1>7 DEF Expire, Warehouse, RefundDesk, local, ghosts
  <2>2. \A d \in Calls : PastItsCheck(d)' = PastItsCheck(d)
    BY <2>1 DEF PastItsCheck
  <2>3. ActiveRefunds' \subseteq ActiveRefunds
    BY <1>7 DEF Expire, Warehouse, RefundDesk, DeskMoves, ActiveRefunds, ACTIVE_REFUND_STATUSES, TypeOK, database
  <2> QED
    BY <2>1, <2>2, <2>3, RivalFrame, KnownFrame
<1> QED
  BY <1>1, <1>2, <1>3, <1>4, <1>5, <1>6, <1>7 DEF Next, CallStep

(* Every pair of refund calls past the check, or past it and paid, or both *)
(* paid, is a pair of rivals.                                              *)
THEOREM RivalCorrect == Spec => [](RivalInv /\ KnownInv)
<1>1. Init => TypeOK /\ ShapeInv /\ RivalInv /\ KnownInv
  BY TypeInit, ShapeInit, RivalInit
<1>2. TypeOK /\ ShapeInv /\ RivalInv /\ KnownInv /\ [Next]_vars
        => (TypeOK /\ ShapeInv /\ RivalInv /\ KnownInv)'
  BY TypeStep, ShapeStep, RivalStep
<1> QED
  BY <1>1, <1>2, PTL DEF Spec

(* Two active refunds of an order come only of two calls that were past    *)
(* the check at the same time.                                             *)
THEOREM DoublesAreRivals == Spec => []OnlyRivalsRefundTwice
<1>1. RivalInv => OnlyRivalsRefundTwice
  BY DEF RivalInv
<1> QED
  BY <1>1, RivalCorrect, PTL

(* A refund asked for again after it was confirmed is not given twice.     *)
THEOREM RetriesNeverPayTwice == Spec => []RetriesAreRefused
<1>1. RivalInv /\ KnownInv => RetriesAreRefused
  BY DEF RivalInv, KnownInv, OnlyRivalsRefundTwice, RetriesAreRefused, ActiveRefunds
<1> QED
  BY <1>1, RivalCorrect, PTL

-----------------------------------------------------------------------------
(* Refunds and delivery                                                    *)

Arrived == {"delivered", "returned", "cancelled"}

DeliveryInv ==
    /\ RefundsFollowDelivery
    /\ \A c \in Calls :
         kind[c] = "refund" /\ pc[c] \in {"active", "payment", "amount", "flush", "commit"} =>
             status \in Arrived

(* ReadOrder lets a refund through only when the order has arrived, and    *)
(* nothing but a late cancellation changes the status of one that has.     *)
LEMMA DeliveryStep == TypeOK /\ ShapeInv /\ DeliveryInv /\ [Next]_vars => DeliveryInv'
<1> SUFFICES ASSUME TypeOK, ShapeInv, DeliveryInv, [Next]_vars PROVE DeliveryInv'
  OBVIOUS
<1> USE DEF Arrived
<1> DEFINE InCourse(c) == kind[c] = "refund" /\ pc[c] \in {"active", "payment", "amount", "flush", "commit"}
<1>1. ASSUME status \in Arrived => status' \in Arrived,
             \A c \in Calls : InCourse(c)' => InCourse(c) \/ status' \in Arrived,
             RefundRows' # {} => RefundRows # {} \/ status' \in Arrived
      PROVE  DeliveryInv'
  BY <1>1 DEF DeliveryInv, RefundsFollowDelivery
<1>2. CASE UNCHANGED vars
  BY <1>2 DEF vars, database, local, DeliveryInv, RefundsFollowDelivery, RefundRows
<1>3. ASSUME NEW c \in Calls, NEW k \in Kinds, Begin(c, k) \/ TurnAway(c, k) PROVE DeliveryInv'
  <2>1. /\ pc'[c] \in {"order", "lookup", "fetch", "done"}
        /\ \A d \in Calls \ {c} : pc'[d] = pc[d] /\ kind'[d] = kind[d]
        /\ refunds' = refunds /\ status' = status
    BY <1>3 DEF Begin, TurnAway, Goto, Return, TypeOK, database
  <2> QED
    BY <1>1, <2>1 DEF RefundRows
<1>4. ASSUME NEW c \in Calls, ReadOrder(c) PROVE DeliveryInv'
  <2>1. /\ \A d \in Calls \ {c} : pc'[d] = pc[d]
        /\ kind' = kind /\ refunds' = refunds /\ status' = status
        /\ kind[c] = "refund" /\ pc'[c] # "done" => status \in REFUNDABLE_STATUSES
    BY <1>4 DEF ReadOrder, Allowed, Goto, Return, TypeOK, database
  <2> QED
    BY <1>1, <2>1 DEF RefundRows, REFUNDABLE_STATUSES
<1>5. ASSUME NEW c \in Calls, Commit(c) PROVE DeliveryInv'
  <2>1. kind' = kind /\ \A d \in Calls : InCourse(d)' => InCourse(d)
    BY <1>5 DEF Commit, Goto, Return, TypeOK
  <2>2. CASE kind[c] = "cancel"
    <3>1. status' = "cancelled" /\ refunds' = refunds
      BY <1>5, <2>2 DEF Commit, Apply
    <3> QED
      BY <1>1, <2>1, <3>1
  <2>3. CASE kind[c] # "cancel"
    <3>1. InCourse(c)
      BY <1>5, <2>3 DEF Commit, ShapeInv, PlaceInv, Writes
    <3>2. status' = status
      BY <1>5, <2>3 DEF Commit, Apply
    <3> QED
      BY <1>1, <2>1, <3>1, <3>2 DEF DeliveryInv
  <2> QED
    BY <2>2, <2>3
<1>6. ASSUME NEW c \in Calls,
             \/ CheckActive(c) \/ FindPayment(c) \/ CheckAmount(c) \/ Flush(c) \/ RollBack(c)
             \/ Invalidate(c) \/ Lookup(c) \/ Fetch(c) \/ Fill(c) \/ Crash(c)
      PROVE  DeliveryInv'
  <2>1. /\ \A d \in Calls : InCourse(d)' => InCourse(d)
        /\ refunds' = refunds /\ status' = status
    BY <1>6 DEF CheckActive, FindPayment, CheckAmount, Flush, RollBack, Invalidate, Lookup, Fetch,
       Fill, Crash, Goto, Return, TypeOK, database, ShapeInv, PlaceInv
  <2> QED
    BY <1>1, <2>1 DEF RefundRows
<1>7. ASSUME \/ \E k \in Keys : Expire(k)
             \/ Warehouse \/ RefundDesk
      PROVE  DeliveryInv'
  <2>1. pc' = pc /\ kind' = kind
    BY <1>7 DEF Expire, Warehouse, RefundDesk, local
  <2>2. status \in Arrived => status' \in Arrived
    BY <1>7 DEF Expire, Warehouse, WarehouseMoves, RefundDesk, database
  <2>3. RefundRows' # {} => RefundRows # {}
    BY <1>7 DEF Expire, Warehouse, RefundDesk, DeskMoves, RefundRows, TypeOK, None, database
  <2> QED
    BY <1>1, <2>1, <2>2, <2>3
<1> QED
  BY <1>2, <1>3, <1>4, <1>5, <1>6, <1>7 DEF Next, CallStep

(* A refund is a refund of an order that had been delivered.               *)
THEOREM RefundsAreOfDeliveredOrders == Spec => []RefundsFollowDelivery
<1>1. Init => TypeOK /\ ShapeInv /\ DeliveryInv
  <2>1. Init => DeliveryInv
    BY DEF Init, DeliveryInv, RefundsFollowDelivery, RefundRows
  <2> QED
    BY <2>1, TypeInit, ShapeInit
<1>2. TypeOK /\ ShapeInv /\ DeliveryInv /\ [Next]_vars => (TypeOK /\ ShapeInv /\ DeliveryInv)'
  BY TypeStep, ShapeStep, DeliveryStep
<1>3. DeliveryInv => RefundsFollowDelivery
  BY DEF DeliveryInv
<1> QED
  BY <1>1, <1>2, <1>3, PTL DEF Spec

-----------------------------------------------------------------------------
(* Reads.  A read between the database and the cache holds a view that     *)
(* lacks nothing, unless a write of its key has committed meanwhile; the   *)
(* cache lacks nothing that is confirmed, unless it was filled by such a   *)
(* read or missed an invalidation.                                         *)

DueOn(k) == {d \in Confirmed : k = IF kind[d] = "cancel" THEN "orders" ELSE "refunds"}

FillInv ==
    \A c \in Calls : pc[c] = "fill" =>
        KeyOf(kind[c]) \in raced \/ Shown(KeyOf(kind[c])) \subseteq view[c]

CacheInv ==
    \A k \in Keys : \A v \in cache[k] : missed \/ k \in raced \/ DueOn(k) \subseteq v

ReadInv == FillInv /\ CacheInv /\ ReadsShowConfirmed

(* What is confirmed is in the tables.                                     *)
LEMMA DueIsShown == ASSUME ShapeInv, NEW k \in Keys PROVE DueOn(k) \subseteq Shown(k)
BY DEF DueOn, Shown, Keys, Confirmed, ShapeInv, WriteInv, Written, RefundRows, Writes, None

(* What a read must show is confirmed.                                     *)
LEMMA DueIsConfirmed ==
  ASSUME TypeOK, KnownInv, NEW c \in Calls
  PROVE  Due(c) \subseteq DueOn(KeyOf(kind[c]))
BY DEF Due, DueOn, Confirmed, KnownInv, TypeOK

(* An empty cache lacks nothing.                                           *)
LEMMA ReadInit == Init => ReadInv
BY DEF Init, ReadInv, FillInv, CacheInv, ReadsShowConfirmed, None

(* Steps that confirm nothing, commit nothing and answer no read.          *)
LEMMA ReadFrame ==
  ASSUME ReadInv,
         \A c \in Calls : pc'[c] = "fill" => pc[c] = "fill" /\ view'[c] = view[c] /\ kind'[c] = kind[c],
         \A c \in Calls : kind'[c] \in Reads /\ answer'[c] = "ok" =>
             kind'[c] = kind[c] /\ answer'[c] = answer[c] /\ view'[c] = view[c] /\ Due(c)' = Due(c),
         \A k \in Keys : Shown(k)' = Shown(k) /\ DueOn(k)' = DueOn(k) /\ cache'[k] \subseteq cache[k],
         raced' = raced, missed' = missed
  PROVE  ReadInv'
<1>0. \A k \in Kinds \cup {None} : KeyOf(k) \in Keys
  BY DEF KeyOf, Keys
<1>1. FillInv'
  BY <1>0 DEF ReadInv, FillInv, KeyOf, Keys
<1>2. CacheInv'
  BY DEF ReadInv, CacheInv
<1>3. ReadsShowConfirmed'
  BY DEF ReadInv, ReadsShowConfirmed
<1> QED
  BY <1>1, <1>2, <1>3 DEF ReadInv

(* Commit takes from the tables' side what Invalidate takes from the       *)
(* cache's, and Fill puts back only what Fetch found.                      *)
LEMMA ReadStep == TypeOK /\ ShapeInv /\ KnownInv /\ ReadInv /\ [Next]_vars => ReadInv'
<1> SUFFICES ASSUME TypeOK, ShapeInv, KnownInv, ReadInv, [Next]_vars PROVE ReadInv'
  OBVIOUS
<1>1. ASSUME pc' = pc, kind' = kind, view' = view, answer' = answer, known' = known,
             history' = history, RefundRows' = RefundRows,
             \A k \in Keys : cache'[k] \subseteq cache[k], raced' = raced, missed' = missed
      PROVE  ReadInv'
  <2>1. \A k \in Keys : Shown(k)' = Shown(k) /\ DueOn(k)' = DueOn(k)
    BY <1>1 DEF Shown, DueOn, Confirmed
  <2>2. \A c \in Calls : Due(c)' = Due(c)
    BY <1>1 DEF Due
  <2> QED
    BY <1>1, <2>1, <2>2, ReadFrame
<1>2. CASE UNCHANGED vars
  BY <1>1, <1>2 DEF vars, database, redis, local, ghosts, RefundRows
<1>3. ASSUME NEW k \in Keys, Expire(k) PROVE ReadInv'
  <2>1. \A l \in Keys : cache'[l] \subseteq cache[l]
    BY <1>3 DEF Expire, TypeOK
  <2> QED
    BY <1>1, <1>3, <2>1 DEF Expire, database, local, ghosts, RefundRows
<1>4. CASE Warehouse
  BY <1>1, <1>4 DEF Warehouse, redis, local, ghosts, RefundRows
<1>5. CASE RefundDesk
  <2>1. RefundRows' = RefundRows
    BY <1>5 DEF RefundDesk, DeskMoves, RefundRows, TypeOK, None
  <2> QED
    BY <1>1, <1>5, <2>1 DEF RefundDesk, redis, local, ghosts
<1>6. ASSUME NEW c \in Calls, answer[c] = None, pc[c] # "done",
             answer'[c] # "ok", pc'[c] # "fill",
             \A d \in Calls \ {c} : /\ pc'[d] = pc[d] /\ kind'[d] = kind[d] /\ view'[d] = view[d]
                                    /\ answer'[d] = answer[d] /\ known'[d] = known[d],
             history' = history, RefundRows' = RefundRows, cache' = cache,
             raced' = raced, missed' = missed
      PROVE  ReadInv'
  <2>1. c \notin Confirmed /\ c \notin Confirmed'
    BY <1>6 DEF Confirmed, None
  <2>2. Confirmed' = Confirmed
    BY <1>6, <2>1 DEF Confirmed
  <2>3. \A k \in Keys : Shown(k)' = Shown(k) /\ DueOn(k)' = DueOn(k)
    BY <1>6, <2>1, <2>2 DEF Shown, DueOn, Confirmed
  <2>4. \A d \in Calls \ {c} : c \notin known[d] /\ known[d] \subseteq Calls
    BY <1>6 DEF KnownInv, TypeOK
  <2>5. \A d \in Calls \ {c} : Due(d)' = Due(d)
    BY <1>6, <2>4 DEF Due
  <2> QED
    BY <1>6, <2>3, <2>5, ReadFrame
<1>7. ASSUME NEW c \in Calls, NEW k \in Kinds, Begin(c, k) PROVE ReadInv'
  <2>1. answer[c] = None /\ pc[c] # "done"
    BY <1>7 DEF Begin, ShapeInv, PlaceInv
  <2>2. /\ answer'[c] # "ok" /\ pc'[c] # "fill"
        /\ \A d \in Calls \ {c} : /\ pc'[d] = pc[d] /\ kind'[d] = kind[d] /\ view'[d] = view[d]
                               /\ answer'[d] = answer[d] /\ known'[d] = known[d]
    BY <1>7, <2>1 DEF Begin, Goto, TypeOK, None
  <2> QED
    BY <1>6, <1>7, <2>1, <2>2 DEF Begin, database, redis, RefundRows
<1>8. ASSUME NEW c \in Calls, NEW k \in Kinds, TurnAway(c, k) PROVE ReadInv'
  <2>1. answer[c] = None /\ pc[c] # "done"
    BY <1>8 DEF TurnAway, ShapeInv, PlaceInv
  <2>2. /\ answer'[c] # "ok" /\ pc'[c] # "fill"
        /\ \A d \in Calls \ {c} : /\ pc'[d] = pc[d] /\ kind'[d] = kind[d] /\ view'[d] = view[d]
                               /\ answer'[d] = answer[d] /\ known'[d] = known[d]
    <3>1. PICK a \in {"auth_error"} \cup (IF k = "refund" THEN {"invalid_request"} ELSE {}) : Return(c, a)
      BY <1>8 DEF TurnAway
    <3> QED
      BY <1>8, <3>1 DEF TurnAway, Return, Goto, TypeOK, ghosts
  <2> QED
    BY <1>6, <1>8, <2>1, <2>2 DEF TurnAway, database, redis, ghosts, RefundRows
<1>9. ASSUME NEW c \in Calls,
             \/ ReadOrder(c) \/ CheckActive(c) \/ FindPayment(c) \/ CheckAmount(c) \/ Flush(c)
             \/ RollBack(c) \/ Crash(c)
      PROVE  ReadInv'
  <2>1. pc[c] # "done"
    BY <1>9 DEF ReadOrder, CheckActive, FindPayment, CheckAmount, Flush, RollBack, Crash
  <2>2. answer[c] = None
    BY <2>1 DEF ShapeInv, PlaceInv
  <2>3. /\ answer'[c] # "ok" /\ pc'[c] # "fill"
        /\ \A d \in Calls \ {c} : pc'[d] = pc[d] /\ answer'[d] = answer[d]
    BY <1>9, <2>2 DEF ReadOrder, CheckActive, FindPayment, CheckAmount, Flush, RollBack, Crash,
       Goto, Return, TypeOK, None
  <2>4. kind' = kind /\ view' = view /\ known' = known /\ history' = history /\ refunds' = refunds
        /\ cache' = cache /\ raced' = raced
    BY <1>9 DEF ReadOrder, CheckActive, FindPayment, CheckAmount, Flush, RollBack, Crash,
       database, redis, ghosts
  <2>5. missed' = missed
    BY <1>9 DEF ReadOrder, CheckActive, FindPayment, CheckAmount, Flush, RollBack, Crash, ghosts
  <2> QED
    BY <1>6, <2>1, <2>2, <2>3, <2>4, <2>5 DEF RefundRows
<1>10. ASSUME NEW c \in Calls, Commit(c) PROVE ReadInv'
  <2>1. /\ pc[c] = "commit" /\ pc'[c] \in {"invalidate", "done"} /\ answer'[c] \in {None, "db_error"}
        /\ \A d \in Calls \ {c} : pc'[d] = pc[d] /\ answer'[d] = answer[d]
        /\ kind' = kind /\ view' = view /\ known' = known /\ cache' = cache
    BY <1>10 DEF Commit, Goto, Return, TypeOK, redis, ShapeInv, PlaceInv
  <2>2. missed' = missed
    BY <1>10 DEF Commit
  <2>3. kind[c] \in Writes /\ answer[c] = None
    BY <2>1 DEF ShapeInv, PlaceInv
  <2>4. raced' = raced \cup
          {k \in StaleKeys(kind[c]) : \E d \in Calls : pc[d] = "fill" /\ KeyOf(kind[d]) = k}
    BY <1>10 DEF Commit, Apply
  <2>5. /\ kind[c] = "cancel" => history' = history \cup {c} /\ refunds' = refunds
        /\ kind[c] = "refund" => history' = history /\ RefundRows' \subseteq RefundRows \cup {c}
    BY <1>10 DEF Commit, Apply, RefundRows, TypeOK
  <2>6. \A k \in Keys : k \notin StaleKeys(kind[c]) => Shown(k)' = Shown(k)
    BY <2>3, <2>5 DEF Shown, StaleKeys, Keys, Writes, RefundRows
  <2>7. FillInv'
    <3> SUFFICES ASSUME NEW d \in Calls, pc'[d] = "fill", KeyOf(kind[d]) \notin raced'
                 PROVE  Shown(KeyOf(kind[d]))' \subseteq view[d]
      BY <2>1 DEF FillInv, KeyOf, Shown
    <3>1. pc[d] = "fill" /\ KeyOf(kind[d]) \in Keys
      BY <2>1 DEF KeyOf, Keys
    <3>2. KeyOf(kind[d]) \notin raced /\ KeyOf(kind[d]) \notin StaleKeys(kind[c])
      BY <2>4, <3>1
    <3>3. KeyOf(kind'[d]) = KeyOf(kind[d])
      BY <2>1
    <3>4. Shown(KeyOf(kind[d]))' = Shown(KeyOf(kind[d]))
      BY <2>6, <3>1, <3>2, <3>3 DEF Shown
    <3> QED
      BY <3>1, <3>2, <3>4 DEF ReadInv, FillInv
  <2>8. Confirmed' = Confirmed
    BY <2>1, <2>3 DEF Confirmed, None
  <2>9. CacheInv'
    BY <2>1, <2>2, <2>4, <2>8 DEF ReadInv, CacheInv, DueOn
  <2>10. ReadsShowConfirmed'
    <3>1. \A d \in Calls : Due(d)' = Due(d)
      BY <2>1 DEF Due
    <3>2. \A d \in Calls : answer'[d] = "ok" => answer[d] = "ok"
      BY <2>1 DEF None
    <3> QED
      BY <2>1, <2>2, <2>4, <3>1, <3>2 DEF ReadInv, ReadsShowConfirmed
  <2> QED
    BY <2>7, <2>9, <2>10 DEF ReadInv
<1>11. ASSUME NEW c \in Calls, Invalidate(c) PROVE ReadInv'
  <2>1. /\ pc[c] = "invalidate" /\ pc'[c] = "done" /\ answer'[c] = "ok"
        /\ \A d \in Calls \ {c} : pc'[d] = pc[d] /\ answer'[d] = answer[d]
        /\ kind' = kind /\ view' = view /\ known' = known /\ raced' = raced
        /\ history' = history /\ refunds' = refunds
    BY <1>11 DEF Invalidate, Goto, Return, TypeOK, database
  <2>2. kind[c] \in Writes
    BY <2>1 DEF ShapeInv, PlaceInv
  <2>3. FillInv'
    <3>1. \A k \in Keys : Shown(k)' = Shown(k)
      BY <2>1 DEF Shown, RefundRows
    <3> QED
      BY <2>1, <3>1 DEF ReadInv, FillInv, KeyOf, Keys
  <2>4. Confirmed' = Confirmed \cup {c}
    BY <2>1, <2>2 DEF Confirmed
  <2>5. \A k \in Keys : k \notin StaleKeys(kind[c]) => DueOn(k)' = DueOn(k)
    BY <2>1, <2>2, <2>4 DEF DueOn, StaleKeys, Keys, Writes
  <2>6. \/ missed'
        \/ /\ missed' = missed
           /\ cache' = [k \in Keys |-> IF k \in StaleKeys(kind[c]) THEN {} ELSE cache[k]]
    BY <1>11 DEF Invalidate
  <2>7. CacheInv'
    BY <2>1, <2>5, <2>6 DEF ReadInv, CacheInv
  <2>8. ReadsShowConfirmed'
    <3>1. \A d \in Calls : Due(d)' = Due(d)
      BY <2>1 DEF Due
    <3>2. missed => missed'
      BY <2>6
    <3>3. \A d \in Calls : kind[d] \in Reads => d # c
      BY <2>2 DEF Reads, Writes
    <3> QED
      BY <2>1, <3>1, <3>2, <3>3 DEF ReadInv, ReadsShowConfirmed
  <2> QED
    BY <2>3, <2>7, <2>8 DEF ReadInv
<1>12. ASSUME NEW c \in Calls, kind[c] \in Reads, pc[c] # "done",
              \A d \in Calls \ {c} : pc'[d] = pc[d] /\ answer'[d] = answer[d] /\ view'[d] = view[d],
              kind' = kind, known' = known, history' = history, refunds' = refunds,
              raced' = raced, missed' = missed,
              \A k \in Keys : cache'[k] \subseteq cache[k] \cup (IF k = KeyOf(kind[c]) THEN {view[c]} ELSE {}),
              cache' = cache \/ pc[c] = "fill",
              pc'[c] = "fill" => Shown(KeyOf(kind[c])) \subseteq view'[c],
              answer'[c] = "ok" => \/ missed \/ KeyOf(kind[c]) \in raced
                                   \/ DueOn(KeyOf(kind[c])) \subseteq view'[c]
       PROVE  ReadInv'
  <2>1. \A k \in Keys : Shown(k)' = Shown(k)
    BY <1>12 DEF Shown, RefundRows
  <2>2. KeyOf(kind[c]) \in Keys
    BY DEF KeyOf, Keys
  <2>3. FillInv'
    <3>1. \A d \in Calls : KeyOf(kind[d]) \in Keys
      BY DEF KeyOf, Keys
    <3>2. \A d \in Calls : KeyOf(kind'[d]) = KeyOf(kind[d])
      BY <1>12
    <3>3. \A d \in Calls : Shown(KeyOf(kind[d]))' = Shown(KeyOf(kind[d]))
      BY <1>12, <2>1, <3>1 DEF Shown, RefundRows
    <3> QED
      BY <1>12, <3>2, <3>3 DEF ReadInv, FillInv
  <2>4. c \notin Confirmed /\ c \notin Confirmed'
    BY <1>12 DEF Confirmed, Reads, Writes
  <2>5. Confirmed' = Confirmed
    BY <1>12, <2>4 DEF Confirmed
  <2>6. \A k \in Keys : DueOn(k)' = DueOn(k)
    BY <1>12, <2>5 DEF DueOn
  <2>7. CacheInv'
    <3> SUFFICES ASSUME NEW k \in Keys, NEW v \in cache'[k]
                 PROVE  missed \/ k \in raced \/ DueOn(k) \subseteq v
      BY <1>12, <2>6 DEF CacheInv
    <3>1. CASE v \in cache[k]
      BY <3>1 DEF ReadInv, CacheInv
    <3>2. CASE v \notin cache[k]
      <4>1. pc[c] = "fill" /\ k = KeyOf(kind[c]) /\ v = view[c]
        BY <1>12, <3>2
      <4> QED
        BY <4>1, DueIsShown DEF ReadInv, FillInv
    <3> QED
      BY <3>1, <3>2
  <2>8. ReadsShowConfirmed'
    <3>1. \A d \in Calls : Due(d)' = Due(d)
      BY <1>12 DEF Due
    <3>2. Due(c) \subseteq DueOn(KeyOf(kind[c]))
      BY DueIsConfirmed
    <3> QED
      BY <1>12, <3>1, <3>2 DEF ReadInv, ReadsShowConfirmed
  <2> QED
    BY <2>3, <2>7, <2>8 DEF ReadInv
<1>13. ASSUME NEW c \in Calls, Lookup(c) \/ Fetch(c) \/ Fill(c) PROVE ReadInv'
  <2>1. pc[c] # "done" /\ kind[c] \in Reads /\ KeyOf(kind[c]) \in Keys
    BY <1>13 DEF Lookup, Fetch, Fill, ShapeInv, PlaceInv, KeyOf, Keys
  <2>2. answer[c] = None
    BY <2>1 DEF ShapeInv, PlaceInv
  <2>3. /\ \A d \in Calls \ {c} : pc'[d] = pc[d] /\ answer'[d] = answer[d] /\ view'[d] = view[d]
        /\ kind' = kind /\ known' = known /\ history' = history /\ refunds' = refunds /\ raced' = raced
    BY <1>13 DEF Lookup, Fetch, Fill, Goto, Return, TypeOK, database, ghosts
  <2>4. missed' = missed
    BY <1>13 DEF Lookup, Fetch, Fill, ghosts
  <2>5. CASE Lookup(c)
    <3>1. cache' = cache /\ pc'[c] # "fill"
      BY <2>5 DEF Lookup, Goto, Return, TypeOK, redis
    <3>2. answer'[c] = "ok" => view'[c] \in cache[KeyOf(kind[c])]
      BY <2>2, <2>5 DEF Lookup, Return, TypeOK, None
    <3> QED
      BY <1>12, <2>1, <2>3, <2>4, <3>1, <3>2 DEF ReadInv, CacheInv
  <2>6. CASE Fetch(c)
    <3>1. cache' = cache
      BY <2>6 DEF Fetch, redis
    <3>2. pc'[c] = "fill" \/ answer'[c] = "ok" => view'[c] = Shown(KeyOf(kind[c]))
      BY <2>2, <2>6 DEF Fetch, Goto, Return, TypeOK, None
    <3> QED
      BY <1>12, <2>1, <2>3, <2>4, <3>1, <3>2, DueIsShown
  <2>7. CASE Fill(c)
    <3>1. pc[c] = "fill" /\ pc'[c] = "done" /\ view' = view
      BY <2>7 DEF Fill, Goto, Return, TypeOK
    <3>2. \A k \in Keys : cache'[k] \subseteq cache[k] \cup (IF k = KeyOf(kind[c]) THEN {view[c]} ELSE {})
      BY <2>7 DEF Fill, TypeOK
    <3>3. KeyOf(kind[c]) \in raced \/ DueOn(KeyOf(kind[c])) \subseteq view[c]
      BY <2>1, <3>1, DueIsShown DEF ReadInv, FillInv
    <3> QED
      BY <1>12, <2>1, <2>3, <2>4, <3>1, <3>2, <3>3
  <2> QED
    BY <1>13, <2>5, <2>6, <2>7
<1> QED
  BY <1>2, <1>3, <1>4, <1>5, <1>7, <1>8, <1>9, <1>10, <1>11, <1>13 DEF Next, CallStep

(* A read shows what was confirmed before it began, unless Redis missed an *)
(* invalidation or a write committed while a read was on its way from the  *)
(* database to the cache.                                                  *)
THEOREM ReadsAreFresh == Spec => []ReadsShowConfirmed
<1>1. Init => TypeOK /\ ShapeInv /\ RivalInv /\ KnownInv /\ ReadInv
  BY TypeInit, ShapeInit, RivalInit, ReadInit
<1>2. TypeOK /\ ShapeInv /\ RivalInv /\ KnownInv /\ ReadInv /\ [Next]_vars
        => (TypeOK /\ ShapeInv /\ RivalInv /\ KnownInv /\ ReadInv)'
  BY TypeStep, ShapeStep, RivalStep, ReadStep
<1>3. ReadInv => ReadsShowConfirmed
  BY DEF ReadInv
<1> QED
  BY <1>1, <1>2, <1>3, PTL DEF Spec

-----------------------------------------------------------------------------
(* The write calls implement the ledger.  The shape of a call says at      *)
(* which steps it is qualified, that it has written nothing before its     *)
(* commit, and that it is told nothing before its last step.               *)

(* What the caller can conclude of an answer.                              *)
Meaning(a) ==
    IF a = "ok" THEN "ok" ELSE IF a \in {"db_error", "lost"} THEN "unknown" ELSE "refused"

AbstractState == <<status, Wants, Stage, history \cup RefundRows, Told>>

(* Steps that move no write call to another stage change nothing in the    *)
(* ledger.                                                                 *)
LEMMA LedgerStutter ==
  ASSUME \A d \in Calls : (kind'[d] \in Writes) = (kind[d] \in Writes),
         \A d \in Calls : kind[d] \in Writes =>
             /\ kind'[d] = kind[d] /\ answer'[d] = answer[d]
             /\ (pc'[d] = "order") = (pc[d] = "order")
             /\ (pc'[d] = "done") = (pc[d] = "done"),
         status' = status, history' = history, RefundRows' = RefundRows
  PROVE  UNCHANGED AbstractState
<1>1. Wants' = Wants
  BY DEF Wants
<1>2. Stage' = Stage
  BY DEF Stage
<1>3. Told' = Told
  BY DEF Told
<1> QED
  BY <1>1, <1>2, <1>3 DEF AbstractState

(* The last step of a write call closes its request with the meaning of    *)
(* its answer.                                                             *)
LEMMA LedgerClose ==
  ASSUME TypeOK, NEW c \in Calls, kind[c] \in Writes, NEW a \in Answers \ {None},
         Return(c, a), kind' = kind
  PROVE  Wants' = Wants /\ Ledger!Close(c, Meaning(a))
<1>1. Wants' = Wants
  BY DEF Wants
<1>2. /\ pc'[c] = "done" /\ answer'[c] = a
      /\ \A d \in Calls \ {c} : pc'[d] = pc[d] /\ answer'[d] = answer[d]
  BY DEF Return, Goto, TypeOK
<1>3. Stage' = [Stage EXCEPT ![c] = "closed"]
  BY <1>2 DEF Stage
<1>4. Told' = [Told EXCEPT ![c] = Meaning(a)]
  BY <1>2 DEF Told, Meaning
<1> QED
  BY <1>1, <1>3, <1>4 DEF Ledger!Close

(* A write call that ends without touching the tables answers its request: *)
(* with "refused" only if it wrote nothing, with "ok" only if it wrote.    *)
LEMMA LedgerAnswer ==
  ASSUME TypeOK, ShapeInv, NEW c \in Calls, kind[c] \in Writes, pc[c] \notin {"idle", "done"},
         NEW a \in Answers \ {None}, Return(c, a), kind' = kind,
         status' = status, history' = history, refunds' = refunds,
         Meaning(a) = "ok" => pc[c] = "invalidate",
         Meaning(a) = "refused" => pc[c] # "invalidate"
  PROVE  Ledger!Next
<1>1. Wants' = Wants /\ Ledger!Close(c, Meaning(a))
  BY LedgerClose
<1>2. Stage[c] \in {"open", "qualified"}
  BY DEF Stage
<1>3. c \in Written <=> pc[c] = "invalidate"
  BY DEF ShapeInv, WriteInv
<1>4. RefundRows' = RefundRows
  BY DEF RefundRows
<1>5. Ledger!Answer(c, Meaning(a))
  BY <1>1, <1>2, <1>3, <1>4 DEF Ledger!Answer, Written
<1>6. Meaning(a) \in {"ok", "refused", "unknown"}
  BY DEF Meaning
<1> QED
  BY <1>5, <1>6 DEF Ledger!Next

(* Every step of the tools is a step of the ledger, or none.               *)
LEMMA LedgerStep == TypeOK /\ ShapeInv /\ [Next]_vars => [Ledger!Next]_AbstractState
<1> SUFFICES ASSUME TypeOK, ShapeInv, [Next]_vars PROVE Ledger!Next \/ UNCHANGED AbstractState
  OBVIOUS
<1>1. ASSUME pc' = pc, kind' = kind, answer' = answer,
             status' = status, history' = history, RefundRows' = RefundRows
      PROVE  UNCHANGED AbstractState
  BY <1>1, LedgerStutter
<1>2. CASE UNCHANGED vars
  BY <1>1, <1>2 DEF vars, database, local, RefundRows
<1>3. ASSUME NEW k \in Keys, Expire(k) PROVE UNCHANGED AbstractState
  BY <1>1, <1>3 DEF Expire, database, local, RefundRows
<1>4. CASE RefundDesk
  <2>1. RefundRows' = RefundRows
    BY <1>4 DEF RefundDesk, DeskMoves, RefundRows, TypeOK, None
  <2> QED
    BY <1>1, <1>4, <2>1 DEF RefundDesk, local
<1>5. CASE Warehouse
  <2>1. status' \in OrderStatuses
    BY <1>5, TypeStep DEF TypeOK
  <2>2. /\ UNCHANGED <<Wants, Stage, Told>>
        /\ (history \cup RefundRows)' = history \cup RefundRows
    BY <1>5 DEF Warehouse, local, Wants, Stage, Told, RefundRows
  <2>3. Ledger!Move
    BY <2>1, <2>2 DEF Ledger!Move
  <2> QED
    BY <2>3 DEF Ledger!Next
<1>6. ASSUME NEW c \in Calls, NEW k \in Kinds, Begin(c, k) PROVE Ledger!Next \/ UNCHANGED AbstractState
  <2>1. /\ pc[c] = "idle" /\ kind'[c] = k
        /\ pc'[c] = IF k \in Writes THEN "order" ELSE IF available THEN "lookup" ELSE "fetch"
        /\ \A d \in Calls \ {c} : pc'[d] = pc[d] /\ kind'[d] = kind[d]
        /\ status' = status /\ history' = history /\ RefundRows' = RefundRows /\ answer' = answer
    BY <1>6 DEF Begin, Goto, TypeOK, database, RefundRows
  <2>2. kind[c] \notin Writes /\ answer[c] = None
    BY <2>1 DEF ShapeInv, PlaceInv, Writes, None
  <2>3. CASE k \notin Writes
    BY <2>1, <2>2, <2>3, LedgerStutter
  <2>4. CASE k \in Writes
    <3>1. Wants' = [Wants EXCEPT ![c] = k]
      BY <2>1, <2>4 DEF Wants
    <3>2. Stage' = [Stage EXCEPT ![c] = "open"] /\ Stage[c] = "new"
      BY <2>1, <2>2, <2>4 DEF Stage
    <3>3. Told' = Told
      BY <2>1, <2>2, <2>4 DEF Told
    <3>4. Ledger!Ask(c, k)
      BY <2>1, <3>1, <3>2, <3>3 DEF Ledger!Ask
    <3> QED
      BY <2>4, <3>4 DEF Ledger!Next, Writes
  <2> QED
    BY <2>3, <2>4
<1>7. ASSUME NEW c \in Calls, NEW k \in Kinds, TurnAway(c, k) PROVE Ledger!Next \/ UNCHANGED AbstractState
  <2>1. PICK a \in {"auth_error"} \cup (IF k = "refund" THEN {"invalid_request"} ELSE {}) : Return(c, a)
    BY <1>7 DEF TurnAway
  <2>2. /\ pc[c] = "idle" /\ kind'[c] = k /\ pc'[c] = "done" /\ answer'[c] = a
        /\ \A d \in Calls \ {c} : pc'[d] = pc[d] /\ kind'[d] = kind[d] /\ answer'[d] = answer[d]
        /\ status' = status /\ history' = history /\ RefundRows' = RefundRows
    BY <1>7, <2>1 DEF TurnAway, Return, Goto, TypeOK, database, RefundRows
  <2>3. kind[c] \notin Writes /\ answer[c] = None
    BY <2>2 DEF ShapeInv, PlaceInv, Writes, None
  <2>4. CASE k \notin Writes
    BY <2>2, <2>3, <2>4, LedgerStutter
  <2>5. CASE k \in Writes
    <3>1. Wants' = [Wants EXCEPT ![c] = k]
      BY <2>2, <2>5 DEF Wants
    <3>2. Stage' = [Stage EXCEPT ![c] = "closed"] /\ Stage[c] = "new"
      BY <2>2, <2>3, <2>5 DEF Stage
    <3>3. Told' = [Told EXCEPT ![c] = "refused"]
      BY <2>2, <2>3, <2>5 DEF Told, None
    <3>4. Ledger!TurnAway(c, k)
      BY <2>2, <3>1, <3>2, <3>3 DEF Ledger!TurnAway
    <3> QED
      BY <2>5, <3>4 DEF Ledger!Next, Writes
  <2> QED
    BY <2>4, <2>5
<1>8. ASSUME NEW c \in Calls, ReadOrder(c) PROVE Ledger!Next
  <2>1. /\ pc[c] = "order" /\ kind[c] \in Writes /\ kind' = kind
        /\ status' = status /\ history' = history /\ refunds' = refunds
    BY <1>8 DEF ReadOrder, database, ShapeInv, PlaceInv
  <2>2. CASE Return(c, "permission_denied") \/ Return(c, "invalid_request")
    BY <2>1, <2>2, LedgerAnswer DEF Meaning, Answers, None
  <2>3. CASE /\ status \in Allowed(kind[c])
             /\ Goto(c, IF kind[c] = "cancel" THEN "flush" ELSE "active")
             /\ UNCHANGED answer
    <3>1. pc'[c] \in {"flush", "active"} /\ \A d \in Calls \ {c} : pc'[d] = pc[d]
      BY <2>3 DEF Goto, TypeOK
    <3>2. Stage' = [Stage EXCEPT ![c] = "qualified"] /\ Stage[c] = "open"
      BY <2>1, <3>1 DEF Stage
    <3>3. UNCHANGED <<Wants, Told>> /\ Wants[c] = kind[c]
      BY <2>1, <2>3 DEF Wants, Told
    <3>4. (history \cup RefundRows)' = history \cup RefundRows
      BY <2>1 DEF RefundRows
    <3>5. Ledger!Qualify(c)
      BY <2>1, <2>3, <3>2, <3>3, <3>4
      DEF Ledger!Qualify, Allowed, CANCELLABLE_STATUSES, REFUNDABLE_STATUSES
    <3> QED
      BY <3>5 DEF Ledger!Next
  <2> QED
    BY <1>8, <2>2, <2>3 DEF ReadOrder
<1>9. ASSUME NEW c \in Calls, CheckActive(c) \/ FindPayment(c) \/ CheckAmount(c) \/ Flush(c)
      PROVE  Ledger!Next \/ UNCHANGED AbstractState
  <2>1. /\ pc[c] \in {"active", "payment", "amount", "flush"} /\ kind[c] \in Writes /\ kind' = kind
        /\ status' = status /\ history' = history /\ refunds' = refunds
    BY <1>9 DEF CheckActive, FindPayment, CheckAmount, Flush, database, ShapeInv, PlaceInv, Writes
  <2>2. \/ \E l \in {"payment", "amount", "flush", "commit"} : Goto(c, l) /\ answer' = answer
        \/ Return(c, "invalid_request") \/ Return(c, "db_error")
    BY <1>9 DEF CheckActive, FindPayment, CheckAmount, Flush, ghosts
  <2>3. CASE Return(c, "invalid_request") \/ Return(c, "db_error")
    BY <2>1, <2>3, LedgerAnswer DEF Meaning, Answers, None
  <2>4. ASSUME NEW l \in {"payment", "amount", "flush", "commit"}, Goto(c, l), answer' = answer
        PROVE  UNCHANGED AbstractState
    <3>1. \A d \in Calls : (pc'[d] = "order") = (pc[d] = "order") /\ (pc'[d] = "done") = (pc[d] = "done")
      BY <2>1, <2>4 DEF Goto, TypeOK
    <3>2. RefundRows' = RefundRows
      BY <2>1 DEF RefundRows
    <3> QED
      BY <2>1, <2>4, <3>1, <3>2, LedgerStutter
  <2> QED
    BY <2>2, <2>3, <2>4
<1>10. ASSUME NEW c \in Calls, Commit(c) PROVE Ledger!Next
  <2>1. /\ pc[c] = "commit" /\ kind[c] \in Writes /\ kind' = kind
    BY <1>10 DEF Commit, ShapeInv, PlaceInv
  <2>2. Stage[c] = "qualified" /\ c \notin history \cup RefundRows /\ Wants[c] = kind[c]
    BY <2>1 DEF Stage, Wants, ShapeInv, WriteInv, Written
  <2>3. /\ (history \cup RefundRows)' = (history \cup RefundRows) \cup {c}
        /\ status' = IF kind[c] = "cancel" THEN "cancelled" ELSE status
    BY <1>10, <2>1 DEF Commit, Apply, RefundRows, Writes, NewRefundStatus, None, TypeOK
  <2>4. Wants' = Wants
    BY <2>1 DEF Wants
  <2>5. Ledger!Effect(c)
    BY <2>2, <2>3, <2>4 DEF Ledger!Effect
  <2>6. CASE Goto(c, "invalidate") /\ UNCHANGED answer
    <3>1. \A d \in Calls : (pc'[d] = "order") = (pc[d] = "order") /\ (pc'[d] = "done") = (pc[d] = "done")
      BY <2>1, <2>6 DEF Goto, TypeOK
    <3>2. UNCHANGED <<Stage, Told>>
      BY <2>1, <2>6, <3>1 DEF Stage, Told
    <3> QED
      BY <2>5, <3>2 DEF Ledger!TakeEffect, Ledger!Next
  <2>7. CASE Return(c, "db_error")
    <3>1. Ledger!Close(c, "unknown")
      BY <2>1, <2>7, LedgerClose DEF Meaning, Answers, None
    <3> QED
      BY <2>5, <3>1 DEF Ledger!EffectUnheard, Ledger!Next
  <2> QED
    BY <1>10, <2>6, <2>7 DEF Commit
<1>11. ASSUME NEW c \in Calls, Invalidate(c) PROVE Ledger!Next
  <2>1. /\ pc[c] = "invalidate" /\ kind[c] \in Writes /\ kind' = kind /\ Return(c, "ok")
        /\ status' = status /\ history' = history /\ refunds' = refunds
    BY <1>11 DEF Invalidate, database, ShapeInv, PlaceInv
  <2> QED
    BY <2>1, LedgerAnswer DEF Meaning, Answers, None
<1>12. ASSUME NEW c \in Calls, RollBack(c) \/ Crash(c) PROVE Ledger!Next \/ UNCHANGED AbstractState
  <2>1. /\ pc[c] \notin {"idle", "done"} /\ kind' = kind
        /\ status' = status /\ history' = history /\ refunds' = refunds
        /\ Return(c, "db_error") \/ Return(c, "lost")
    BY <1>12 DEF RollBack, Crash
  <2>2. CASE kind[c] \in Writes
    BY <2>1, <2>2, LedgerAnswer DEF Meaning, Answers, None
  <2>3. CASE kind[c] \notin Writes
    <3>1. \A d \in Calls \ {c} : pc'[d] = pc[d] /\ answer'[d] = answer[d]
      BY <2>1 DEF Return, Goto, TypeOK
    <3>2. RefundRows' = RefundRows
      BY <2>1 DEF RefundRows
    <3> QED
      BY <2>1, <2>3, <3>1, <3>2, LedgerStutter
  <2> QED
    BY <2>2, <2>3
<1>13. ASSUME NEW c \in Calls, Lookup(c) \/ Fetch(c) \/ Fill(c) PROVE UNCHANGED AbstractState
  <2>1. /\ kind[c] \notin Writes /\ kind' = kind
        /\ status' = status /\ history' = history /\ refunds' = refunds
    BY <1>13 DEF Lookup, Fetch, Fill, database, ShapeInv, PlaceInv, Reads, Writes
  <2>2. \A d \in Calls \ {c} : pc'[d] = pc[d] /\ answer'[d] = answer[d]
    BY <1>13 DEF Lookup, Fetch, Fill, Return, Goto, TypeOK
  <2>3. RefundRows' = RefundRows
    BY <2>1 DEF RefundRows
  <2> QED
    BY <2>1, <2>2, <2>3, LedgerStutter
<1> QED
  BY <1>2, <1>3, <1>4, <1>5, <1>6, <1>7, <1>8, <1>9, <1>10, <1>11, <1>12, <1>13 DEF Next, CallStep

(* The tools start with an empty ledger.                                   *)
LEMMA LedgerInit == Init => Ledger!Init
<1> SUFFICES ASSUME Init PROVE Ledger!Init
  OBVIOUS
<1>1. \A c \in Calls : kind[c] = None /\ None \notin Writes
  BY DEF Init, None, Writes
<1>2. /\ Wants = [c \in Calls |-> "nothing"] /\ Stage = [c \in Calls |-> "new"]
      /\ Told = [c \in Calls |-> "nothing"]
  BY <1>1 DEF Wants, Stage, Told
<1>3. history \cup RefundRows = {}
  BY DEF Init, RefundRows
<1> QED
  BY <1>2, <1>3, TypeInit DEF Ledger!Init, TypeOK

(* The write tools keep the ledger's promise: each request takes effect at *)
(* most once and all at once, after it qualified and before its answer,    *)
(* and is answered truthfully, whatever fails or runs beside it.           *)
THEOREM ToolsImplementTheLedger == Spec => WritesKeepTheLedger
<1>1. Init => Ledger!Init
  BY LedgerInit
<1>2. TypeOK /\ ShapeInv /\ [Next]_vars => [Ledger!Next]_(Ledger!ledgerVars)
  BY LedgerStep DEF AbstractState, Ledger!ledgerVars
<1> QED
  BY <1>1, <1>2, ShapeCorrect, PTL DEF Spec, WritesKeepTheLedger, Ledger!Spec

-----------------------------------------------------------------------------
(* What the ledger promises, and with it the write tools.                  *)

Effects == history \cup RefundRows

(* No effect is undone, and a call whose handler has returned, with        *)
(* whatever answer, takes no effect any more and keeps its answer.         *)
EffectsAreFinal ==
    /\ Effects \subseteq Effects'
    /\ \A c \in Calls : Stage[c] = "closed" =>
          /\ c \in Effects' => c \in Effects
          /\ Told'[c] = Told[c]

(* Only a qualified request takes effect, and by its answer at the latest. *)
EffectsWereQualified ==
    \A c \in Calls : c \in Effects => Stage[c] \in {"qualified", "closed"}

(* The answer of a write call does not lie about its effect.               *)
AnswersDoNotLie ==
    \A c \in Calls :
        /\ Told[c] = "ok" => c \in Effects
        /\ Told[c] = "refused" => Stage[c] = "closed" /\ c \notin Effects

LedgerInv ==
    /\ Stage = [c \in Calls |-> Stage[c]] /\ Told = [c \in Calls |-> Told[c]]
    /\ EffectsWereQualified /\ AnswersDoNotLie

LEMMA LedgerFacts ==
    ASSUME LedgerInv, [Ledger!Next]_(Ledger!ledgerVars)
    PROVE  LedgerInv' /\ EffectsAreFinal
<1> DEFINE st == Stage
           told == Told
           done == Effects
<1>1. /\ st = [c \in Calls |-> st[c]] /\ told = [c \in Calls |-> told[c]]
      /\ \A c \in Calls : c \in done => st[c] \in {"qualified", "closed"}
      /\ \A c \in Calls : told[c] = "ok" => c \in done
      /\ \A c \in Calls : told[c] = "refused" => st[c] = "closed" /\ c \notin done
  BY DEF LedgerInv, EffectsWereQualified, AnswersDoNotLie
<1>2. SUFFICES /\ st' = [c \in Calls |-> st'[c]] /\ told' = [c \in Calls |-> told'[c]]
               /\ \A c \in Calls : c \in done' => st'[c] \in {"qualified", "closed"}
               /\ \A c \in Calls : told'[c] = "ok" => c \in done'
               /\ \A c \in Calls : told'[c] = "refused" => st'[c] = "closed" /\ c \notin done'
               /\ done \subseteq done'
               /\ \A c \in Calls : st[c] = "closed" => (c \in done' => c \in done) /\ told'[c] = told[c]
  BY DEF LedgerInv, EffectsWereQualified, AnswersDoNotLie, EffectsAreFinal
<1>3. CASE Ledger!Move \/ UNCHANGED Ledger!ledgerVars
  <2>1. st' = st /\ told' = told /\ done' = done
    BY <1>3 DEF Ledger!Move, Ledger!ledgerVars, Effects
  <2> HIDE DEF st, told, done
  <2> QED
    BY <1>1, <2>1
<1>4. ASSUME NEW r \in Calls, Ledger!Qualify(r) PROVE <1>2!1
  <2>1. st[r] = "open" /\ st' = [st EXCEPT ![r] = "qualified"] /\ told' = told /\ done' = done
    BY <1>4 DEF Ledger!Qualify, Effects
  <2> HIDE DEF st, told, done
  <2> QED
    BY <1>1, <2>1
<1>5. ASSUME NEW r \in Calls, Ledger!TakeEffect(r) PROVE <1>2!1
  <2>1. st[r] = "qualified" /\ st' = st /\ told' = told /\ done' = done \cup {r}
    BY <1>5 DEF Ledger!TakeEffect, Ledger!Effect, Effects
  <2> HIDE DEF st, told, done
  <2> QED
    BY <1>1, <2>1
<1>6. ASSUME NEW r \in Calls, Ledger!EffectUnheard(r) PROVE <1>2!1
  <2>1. /\ st[r] = "qualified" /\ st' = [st EXCEPT ![r] = "closed"]
        /\ told' = [told EXCEPT ![r] = "unknown"] /\ done' = done \cup {r}
    BY <1>6 DEF Ledger!EffectUnheard, Ledger!Effect, Ledger!Close, Effects
  <2> HIDE DEF st, told, done
  <2> QED
    BY <1>1, <2>1
<1>7. ASSUME NEW r \in Calls, NEW a \in {"ok", "refused", "unknown"}, Ledger!Answer(r, a)
      PROVE  <1>2!1
  <2>1. /\ st[r] \in {"open", "qualified"} /\ st' = [st EXCEPT ![r] = "closed"]
        /\ told' = [told EXCEPT ![r] = a] /\ done' = done
        /\ a = "ok" => r \in done
        /\ a = "refused" => r \notin done
    BY <1>7 DEF Ledger!Answer, Ledger!Close, Effects
  <2> HIDE DEF st, told, done
  <2> QED
    BY <1>1, <2>1
<1>8. ASSUME NEW r \in Calls, NEW want, Ledger!Ask(r, want) PROVE <1>2!1
  <2>1. st[r] = "new" /\ st' = [st EXCEPT ![r] = "open"] /\ told' = told /\ done' = done
    BY <1>8 DEF Ledger!Ask, Effects
  <2> HIDE DEF st, told, done
  <2> QED
    BY <1>1, <2>1
<1>9. ASSUME NEW r \in Calls, NEW want, Ledger!TurnAway(r, want) PROVE <1>2!1
  <2>1. /\ st[r] = "new" /\ st' = [st EXCEPT ![r] = "closed"]
        /\ told' = [told EXCEPT ![r] = "refused"] /\ done' = done
    BY <1>9 DEF Ledger!TurnAway, Effects
  <2> HIDE DEF st, told, done
  <2> QED
    BY <1>1, <2>1
<1> QED
  BY <1>3, <1>4, <1>5, <1>6, <1>7, <1>8, <1>9 DEF Ledger!Next

LEMMA LedgerBegins == Ledger!Init => LedgerInv
BY DEF Ledger!Init, LedgerInv, EffectsWereQualified, AnswersDoNotLie, Effects

(* Nothing that was committed is taken back by a later call, a roll-back   *)
(* or a crash, and nothing is committed for a call that has returned.      *)
THEOREM NothingIsUndone == Spec => [][EffectsAreFinal]_AbstractState
<1>1. LedgerInv /\ [Ledger!Next]_(Ledger!ledgerVars)
      => LedgerInv' /\ [EffectsAreFinal]_AbstractState
  BY LedgerFacts
<1> QED
  BY <1>1, LedgerBegins, ToolsImplementTheLedger, PTL
  DEF WritesKeepTheLedger, Ledger!Spec

=============================================================================
