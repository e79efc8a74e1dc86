----------------------- MODULE DocumentDeliveryProofs -----------------------
(***************************************************************************)
(* Proofs about DocumentDelivery, for any finite sets of requesters,       *)
(* workers and scanners, any retry horizon and any number of disturbances. *)
(***************************************************************************)
EXTENDS DocumentDelivery, FiniteSetTheorems, TLAPS

\* The classifier answers with a status of a delivery that is not finished well,
\* and an unknown outcome of the mail is left to an operator.
LEMMA ClassifyRange ==
    ASSUME NEW error, NEW count \in Nat, NEW max \in Nat
    PROVE  /\ Classify(error, count, max) \in Statuses \ {"DELIVERED"}
           /\ error = "UNKNOWN_EXTERNAL_OUTCOME"
                => Classify(error, count, max) = "MANUAL_REVIEW_REQUIRED"
BY DEF Classify, Blocked, Permanent, Transient, Statuses

\* A finished execution is idle and holds nothing.
LEMMA FinishType ==
    ASSUME TypeOK, NEW a \in Actors, Finish(a)
    PROVE  /\ pc' \in [Actors -> Labels]
           /\ mem' \in [Actors -> Memory]
BY DEF TypeOK, Finish, Goto, Labels, Memory, NoMemory, None

\* A worker that handles a failure remembers a known class of it.
LEMMA FailType ==
    ASSUME TypeOK, NEW w \in Actors, NEW error \in ErrorClasses, NEW caught \in BOOLEAN,
           Fail(w, error, caught)
    PROVE  /\ pc' \in [Actors -> Labels]
           /\ mem' \in [Actors -> Memory]
BY DEF TypeOK, Fail, Goto, Labels, Memory

\* A publication keeps the types.
LEMMA PublishType ==
    ASSUME TypeOK, NEW a \in Actors, Publish(a)
    PROVE  TypeOK'
<1>1. pc' \in [Actors -> Labels] /\ mem' \in [Actors -> Memory]
  BY FinishType DEF Publish
<1>2. queue' \in Nat /\ slot' \in BOOLEAN
  <2>1. CASE queue' = queue + 1 /\ slot' = TRUE
    BY <2>1 DEF TypeOK
  <2>2. CASE UNCHANGED <<queue, slot>>
    BY <2>2 DEF TypeOK
  <2> QED
    BY <2>1, <2>2 DEF Publish
<1>3. row' \in Row /\ mails' \in Nat /\ spent' \in [Disturbances -> Nat]
  BY DEF TypeOK, Publish
<1> QED
  BY <1>1, <1>2, <1>3 DEF TypeOK

\* Counting a disturbance keeps the counters natural numbers.
LEMMA SpendType ==
    ASSUME TypeOK, NEW cost \in Disturbances, Spend(cost)
    PROVE  spent' \in [Disturbances -> Nat]
BY DEF TypeOK, Spend

\* The writes of the row that the handlers make give a row again.
LEMMA RowWriteType ==
    ASSUME TypeOK, NEW status \in Statuses, NEW flag \in BOOLEAN, NEW count \in Nat
    PROVE  /\ [row EXCEPT !.status = status] \in Row
           /\ [row EXCEPT !.status = status, !.due = flag] \in Row
           /\ [row EXCEPT !.status = status, !.fresh = flag] \in Row
           /\ [row EXCEPT !.status = status, !.count = count + 1] \in Row
           /\ [row EXCEPT !.status = status, !.due = flag, !.count = count + 1] \in Row
<1>1. row \in Row /\ count + 1 \in Nat
  BY DEF TypeOK
<1>2. [row EXCEPT !.status = status] \in Row
  BY <1>1 DEF Row
<1>3. [row EXCEPT !.status = status, !.due = flag] \in Row
  BY <1>1 DEF Row
<1>4. [row EXCEPT !.status = status, !.fresh = flag] \in Row
  BY <1>1 DEF Row
<1>5. [row EXCEPT !.status = status, !.count = count + 1] \in Row
  BY <1>1 DEF Row
<1>6. [row EXCEPT !.status = status, !.due = flag, !.count = count + 1] \in Row
  BY <1>1 DEF Row
<1> QED
  BY <1>2, <1>3, <1>4, <1>5, <1>6

\* Everything a requester does keeps the types.
LEMMA RequesterType ==
    ASSUME TypeOK, NEW r \in Requesters,
           \/ EnsureRead(r) \/ EnsureWithoutPdf(r) \/ ResendRead(r) \/ AcceptedRead(r)
           \/ RequesterStep(r)
    PROVE  TypeOK'
<1>0. r \in Actors /\ {"ensure", "resend"} \subseteq Disturbances
  BY DEF Actors, Disturbances
<1>00. mem[r] \in Memory /\ row \in Row
  BY <1>0 DEF TypeOK
<1>1. CASE EnsureRead(r)
  <2>1. spent' \in [Disturbances -> Nat]
    BY <1>0, <1>1, SpendType DEF EnsureRead
  <2> QED
    BY <1>0, <1>1, <2>1 DEF TypeOK, EnsureRead, Goto, Labels
<1>2. CASE EnsureWithoutPdf(r)
  <2>1. spent' \in [Disturbances -> Nat]
    BY <1>0, <1>2, SpendType DEF EnsureWithoutPdf
  <2>2. mem' \in [Actors -> Memory]
    <3>1. PICK error \in {"PDF_NOT_YET_GENERATED", "ARTIFACT_CORRUPT"} :
             mem' = [mem EXCEPT ![r] = [@ EXCEPT !.count = row.count, !.error = error,
                                                 !.exists = row.status # None]]
      BY <1>2 DEF EnsureWithoutPdf
    <3>2. error \in ErrorClasses
      BY DEF ErrorClasses, Blocked, Transient
    <3>3. row.count \in Nat /\ (row.status # None) \in BOOLEAN
      BY <1>00 DEF Row
    <3>4. ASSUME NEW exists \in BOOLEAN
          PROVE  [mem[r] EXCEPT !.count = row.count, !.error = error, !.exists = exists]
                   \in Memory
      BY <1>00, <3>2, <3>3 DEF Memory
    <3>5. [mem[r] EXCEPT !.count = row.count, !.error = error, !.exists = row.status # None]
            \in Memory
      BY <3>3, <3>4
    <3> QED
      BY <1>0, <3>1, <3>5 DEF TypeOK
  <2> QED
    BY <1>0, <1>2, <2>1, <2>2 DEF TypeOK, EnsureWithoutPdf, Goto, Labels
<1>3. CASE ResendRead(r)
  <2>1. spent' \in [Disturbances -> Nat]
    BY <1>0, <1>3, SpendType DEF ResendRead
  <2>2. mem' \in [Actors -> Memory]
    BY <1>0, <1>00, <1>3 DEF TypeOK, ResendRead, Memory, Row
  <2> QED
    BY <1>0, <1>3, <2>1, <2>2 DEF TypeOK, ResendRead, Goto, Labels
<1>4. CASE AcceptedRead(r)
  <2>1. spent' \in [Disturbances -> Nat]
    BY <1>0, <1>4, SpendType DEF AcceptedRead
  <2> QED
    BY <1>0, <1>4, <2>1 DEF TypeOK, AcceptedRead, Goto, Labels
<1>5. CASE EnsureCreate(r)
  <2>1. row' \in Row
    BY <1>00, <1>5, RowWriteType DEF EnsureCreate, Statuses
  <2> QED
    BY <1>0, <1>5, <2>1 DEF TypeOK, EnsureCreate, Goto, Labels
<1>6. CASE EnsureRequeue(r)
  <2>1. row' \in Row
    BY <1>00, <1>6, RowWriteType DEF EnsureRequeue, Statuses
  <2> QED
    BY <1>0, <1>6, <2>1 DEF TypeOK, EnsureRequeue, Goto, Labels
<1>7. CASE RecordPdfFailure(r)
  <2> DEFINE status == Classify(mem[r].error, mem[r].count, MaxRetries)
  <2>1. mem[r].count \in Nat
    BY <1>00 DEF Memory
  <2>2. status \in Statuses
    BY <2>1, ClassifyRange, DeliveryBoundsAreNat
  <2>3. [row EXCEPT !.status = status, !.due = FALSE, !.count = mem[r].count + 1] \in Row
    BY <2>1, <2>2, RowWriteType
  <2>4. row' \in Row
    BY <1>00, <1>7, <2>3 DEF RecordPdfFailure
  <2> QED
    BY <1>0, <1>7, <2>4, FinishType DEF TypeOK, RecordPdfFailure
<1>8. CASE ResendWrite(r)
  <2>1. mem[r].count \in Nat
    BY <1>00 DEF Memory
  <2>2. row' \in Row
    BY <1>8, <2>1, RowWriteType DEF ResendWrite, Statuses
  <2> QED
    BY <1>0, <1>8, <2>2 DEF TypeOK, ResendWrite, Goto, Labels
<1>9. CASE PublishAnew(r)
  BY <1>0, <1>9, FinishType DEF TypeOK, PublishAnew
<1>10. CASE AcceptedClaim(r)
  <2>1. row' \in Row
    BY <1>00, <1>10, RowWriteType DEF AcceptedClaim, Statuses
  <2>2. pc' \in [Actors -> Labels] /\ mem' \in [Actors -> Memory]
    <3>1. CASE Finish(r)
      BY <1>0, <3>1, FinishType
    <3>2. CASE Goto(r, "publish") /\ UNCHANGED mem
      BY <1>0, <3>2 DEF TypeOK, Goto, Labels
    <3> QED
      BY <1>10, <3>1, <3>2 DEF AcceptedClaim
  <2> QED
    BY <1>10, <2>1, <2>2 DEF TypeOK, AcceptedClaim
<1>11. CASE Publish(r)
  BY <1>0, <1>11, PublishType
<1> QED
  BY <1>1, <1>2, <1>3, <1>4, <1>5, <1>6, <1>7, <1>8, <1>9, <1>10, <1>11
     DEF RequesterStep

\* Everything a worker does keeps the types.
LEMMA WorkerType ==
    ASSUME TypeOK, NEW w \in Workers, WorkerStep(w) \/ CatchFailure(w)
    PROVE  TypeOK'
<1>0. w \in Actors /\ "local" \in Disturbances
  BY DEF Actors, Disturbances
<1>00. mem[w] \in Memory /\ row \in Row /\ mem[w].count \in Nat /\ row.count \in Nat
  BY <1>0 DEF TypeOK, Memory, Row
<1>1. CASE TakeJob(w)
  <2>1. pc' \in [Actors -> Labels] /\ mem' \in [Actors -> Memory]
    BY <1>0, <1>00, <1>1 DEF TypeOK, TakeJob, Goto, Labels, Memory
  <2>2. queue' \in Nat
    BY <1>1 DEF TypeOK, TakeJob
  <2> QED
    BY <1>1, <2>1, <2>2 DEF TypeOK, TakeJob
<1>2. CASE Claim(w)
  <2>1. row' \in Row
    BY <1>00, <1>2, RowWriteType DEF Claim, Statuses
  <2>2. pc' \in [Actors -> Labels] /\ mem' \in [Actors -> Memory]
    <3>1. CASE Finish(w)
      BY <1>0, <3>1, FinishType
    <3>2. CASE Goto(w, "send") /\ UNCHANGED mem
      BY <1>0, <3>2 DEF TypeOK, Goto, Labels
    <3> QED
      BY <1>2, <3>1, <3>2 DEF Claim
  <2> QED
    BY <1>2, <2>1, <2>2 DEF TypeOK, Claim
<1>3. CASE BuildAttachmentsFails(w)
  <2>1. AttachmentErrors \subseteq ErrorClasses
    BY DEF AttachmentErrors, ErrorClasses, Blocked, Transient
  <2>2. pc' \in [Actors -> Labels] /\ mem' \in [Actors -> Memory]
    BY <1>0, <1>3, <2>1, FailType DEF BuildAttachmentsFails
  <2> QED
    BY <1>3, <2>2 DEF TypeOK, BuildAttachmentsFails
<1>4. CASE SendEmail(w)
  <2>1. \A outcome \in {"TRANSIENT_FAILURE", "PERMANENT_FAILURE", "RATE_LIMITED", "UNKNOWN"} :
           ErrorClassOfOutcome[outcome] \in ErrorClasses
    BY DEF ErrorClassOfOutcome, ErrorClasses, Transient, Permanent
  <2>2. pc' \in [Actors -> Labels] /\ mem' \in [Actors -> Memory]
    <3>1. CASE Goto(w, "delivered") /\ UNCHANGED mem
      BY <1>0, <3>1 DEF TypeOK, Goto, Labels
    <3>2. ASSUME NEW outcome \in {"TRANSIENT_FAILURE", "PERMANENT_FAILURE",
                                   "RATE_LIMITED", "UNKNOWN"},
                 Fail(w, ErrorClassOfOutcome[outcome], FALSE)
          PROVE  pc' \in [Actors -> Labels] /\ mem' \in [Actors -> Memory]
      BY <1>0, <2>1, <3>2, FailType
    <3> QED
      BY <1>4, <3>1, <3>2 DEF SendEmail
  <2>3. mails' \in Nat
    <3>1. mails \in Nat /\ mails + 1 \in Nat
      BY DEF TypeOK
    <3>2. mails' = mails \/ mails' = mails + 1
      BY <1>4 DEF SendEmail
    <3> QED
      BY <3>1, <3>2
  <2> QED
    BY <1>4, <2>2, <2>3 DEF TypeOK, SendEmail
<1>5. CASE MarkDelivered(w)
  <2>1. [row EXCEPT !.status = "DELIVERED", !.count = mem[w].count + 1] \in Row
    BY <1>00, RowWriteType DEF Statuses
  <2>2. row' \in Row
    BY <1>00, <1>5, <2>1 DEF MarkDelivered
  <2> QED
    BY <1>0, <1>5, <2>2 DEF TypeOK, MarkDelivered, Goto, Labels
<1>6. CASE MarkFailed(w)
  <2> DEFINE status == Classify(mem[w].error, mem[w].count, MaxRetries)
  <2>1. status \in Statuses
    BY <1>00, ClassifyRange, DeliveryBoundsAreNat
  <2>2. [row EXCEPT !.status = status, !.due = FALSE, !.count = mem[w].count + 1] \in Row
    BY <1>00, <2>1, RowWriteType
  <2>3. row' \in Row
    BY <1>00, <1>6, <2>2 DEF MarkFailed
  <2> QED
    BY <1>0, <1>6, <2>3 DEF TypeOK, MarkFailed, Goto, Labels
<1>7. CASE CloseAttempt(w)
  BY <1>0, <1>7, FinishType DEF TypeOK, CloseAttempt
<1>8. CASE CatchFailure(w)
  <2>1. spent' \in [Disturbances -> Nat]
    BY <1>0, <1>8, SpendType DEF CatchFailure
  <2>2. pc' \in [Actors -> Labels] /\ mem' \in [Actors -> Memory]
    BY <1>0, <1>8, FailType DEF CatchFailure, ErrorClasses
  <2> QED
    BY <1>8, <2>1, <2>2 DEF TypeOK, CatchFailure
<1> QED
  BY <1>1, <1>2, <1>3, <1>4, <1>5, <1>6, <1>7, <1>8 DEF WorkerStep

\* The recovery scan, crashes and time keep the types.
LEMMA RestType ==
    ASSUME TypeOK,
           \/ \E s \in Scanners : ScannerStep(s)
           \/ \E a \in Actors : Crash(a)
           \/ TimeStep
    PROVE  TypeOK'
<1>1. ASSUME NEW s \in Scanners, ScannerStep(s)
      PROVE  TypeOK'
  <2>0. s \in Actors
    BY DEF Actors
  <2>1. CASE ScanStale(s)
    <3>1. row' \in Row
      BY <2>1, RowWriteType DEF TypeOK, ScanStale, Statuses
    <3> QED
      BY <2>0, <2>1, <3>1 DEF TypeOK, ScanStale, Goto, Labels
  <2>2. CASE ScanDue(s)
    <3>1. row' \in Row
      BY <2>2, RowWriteType DEF TypeOK, ScanDue, Statuses
    <3> QED
      BY <2>0, <2>2, <3>1 DEF TypeOK, ScanDue, Goto, Labels
  <2>3. CASE ScanFind(s)
    BY <2>0, <2>3 DEF TypeOK, ScanFind, Goto, Labels
  <2>4. CASE Publish(s)
    BY <2>0, <2>4, PublishType
  <2> QED
    BY <1>1, <2>1, <2>2, <2>3, <2>4 DEF ScannerStep
<1>2. ASSUME NEW a \in Actors, Crash(a)
      PROVE  TypeOK'
  <2>1. spent' \in [Disturbances -> Nat]
    BY <1>2, SpendType DEF Crash, Disturbances
  <2>2. pc' \in [Actors -> Labels] /\ mem' \in [Actors -> Memory]
    BY <1>2, FinishType DEF Crash, Abandon
  <2>3. queue' \in Nat
    BY <1>2 DEF TypeOK, Crash, Abandon
  <2> QED
    BY <1>2, <2>1, <2>2, <2>3 DEF TypeOK, Crash, Abandon
<1>3. CASE TimeStep
  BY <1>3 DEF TypeOK, TimeStep, RetryBecomesDue, LeaseEnds, SlotEnds, Row
<1> QED
  BY <1>1, <1>2, <1>3

\* The values of the variables always have their types.
THEOREM DeliveryTypeCorrect == Spec => []TypeOK
<1>1. Init => TypeOK
  <2> SUFFICES ASSUME Init
               PROVE  TypeOK
    OBVIOUS
  <2>1. row \in Row
    BY DEF Init, Row, Statuses
  <2>2. NoMemory \in Memory
    BY DEF NoMemory, Memory
  <2> QED
    BY <2>1, <2>2 DEF Init, TypeOK, Labels
<1>2. TypeOK /\ [Next]_vars => TypeOK'
  <2> SUFFICES ASSUME TypeOK, [Next]_vars
               PROVE  TypeOK'
    OBVIOUS
  <2>1. CASE Next
    BY <2>1, RequesterType, WorkerType, RestType DEF Next, Disturbance
  <2>2. CASE UNCHANGED vars
    BY <2>2 DEF TypeOK, vars
  <2> QED
    BY <2>1, <2>2
<1> QED
  BY <1>1, <1>2, PTL DEF Spec

-----------------------------------------------------------------------------
(* Each trigger pays for at most one mail.  The right to send is held by an   *)
(* actor or by the row; a step moves it, spends it, or creates it together    *)
(* with its trigger.                                                          *)

Weight(a) == IF IsEntitled(a) THEN 1 ELSE 0

\* The step touches nobody's local state but a's.
Alone(a) == \A b \in Actors \ {a} : pc'[b] = pc[b] /\ mem'[b] = mem[b]

\* The step creates no right to send beyond the triggers it counts.
Balanced(a) ==
    mails' + Weight(a)' + RowEntitles' + Triggers <= mails + Weight(a) + RowEntitles + Triggers'

\* The step reports success only for a mail accepted before or in it.
Honest(a) ==
    /\ mails' >= mails
    /\ row'.status = "DELIVERED" => row.status = "DELIVERED" \/ pc[a] = "delivered"
    /\ pc'[a] = "delivered" => pc[a] = "delivered" \/ mails' > mails

\* What the assembly of the invariant needs to know of a step of actor a.
Sound(a) == Alone(a) /\ Balanced(a) /\ Honest(a)

\* The number of entitled actors changes exactly by what the acting one gains or loses.
LEMMA EntitledChange ==
    ASSUME NEW a \in Actors, Alone(a)
    PROVE  /\ Cardinality(Entitled) \in Nat
           /\ Cardinality(Entitled') \in Nat
           /\ Cardinality(Entitled') + Weight(a) = Cardinality(Entitled) + Weight(a)'
<1> DEFINE rest == Entitled \ {a}
<1>1. rest = Entitled' \ {a}
  BY DEF Alone, Entitled, IsEntitled
<1>2. IsFiniteSet(rest)
  BY FS_Subset, DeliveryActorsDisjoint DEF Entitled
<1>3. a \notin rest /\ Cardinality(rest) \in Nat /\ Cardinality(rest \cup {a}) = Cardinality(rest) + 1
  BY <1>2, FS_AddElement, FS_CardinalityType
<1>4. Cardinality(Entitled) = Cardinality(rest) + Weight(a)
  <2>1. CASE IsEntitled(a)
    <3>1. Entitled = rest \cup {a}
      BY <2>1 DEF Entitled
    <3> QED
      BY <1>3, <2>1, <3>1 DEF Weight
  <2>2. CASE ~IsEntitled(a)
    <3>1. Entitled = rest
      BY <2>2 DEF Entitled
    <3> QED
      BY <1>3, <2>2, <3>1 DEF Weight
  <2> QED
    BY <2>1, <2>2
<1>5. Cardinality(Entitled') = Cardinality(rest) + Weight(a)'
  <2>1. CASE IsEntitled(a)'
    <3>1. Entitled' = rest \cup {a}
      BY <1>1, <2>1 DEF Entitled
    <3> QED
      BY <1>3, <2>1, <3>1 DEF Weight
  <2>2. CASE ~IsEntitled(a)'
    <3>1. Entitled' = rest
      BY <1>1, <2>2 DEF Entitled
    <3> QED
      BY <1>3, <2>2, <3>1 DEF Weight
  <2> QED
    BY <2>1, <2>2
<1>6. Weight(a) \in {0, 1} /\ Weight(a)' \in {0, 1}
  BY DEF Weight
<1> HIDE DEF rest
<1> QED
  BY <1>3, <1>4, <1>5, <1>6

\* A sound step keeps the inductive invariant.
LEMMA SoundStep ==
    ASSUME DeliveryInv, TypeOK', NEW a \in Actors, Sound(a)
    PROVE  DeliveryInv'
<1>1. EntitlementsAreTriggered'
  <2>1. /\ mails \in Nat /\ mails' \in Nat
        /\ Triggers \in Nat /\ Triggers' \in Nat
    BY DEF DeliveryInv, TypeOK, Triggers, Disturbances
  <2>2. /\ Weight(a) \in {0, 1} /\ Weight(a)' \in {0, 1}
        /\ RowEntitles \in {0, 1} /\ RowEntitles' \in {0, 1}
    BY DEF Weight, RowEntitles
  <2>3. mails + Cardinality(Entitled) + RowEntitles <= Triggers
    BY DEF DeliveryInv, EntitlementsAreTriggered
  <2>4. mails' + Cardinality(Entitled') + RowEntitles' <= Triggers'
    BY <2>1, <2>2, <2>3, EntitledChange DEF Sound, Balanced
  <2> QED
    BY <2>4 DEF EntitlementsAreTriggered
<1>2. SuccessIsTrue'
  <2>1. mails \in Nat /\ mails' \in Nat /\ mails' >= mails
    BY DEF DeliveryInv, TypeOK, Sound, Honest
  <2>2. DeliveredIsTrue'
    BY <2>1 DEF DeliveryInv, SuccessIsTrue, DeliveredIsTrue, Sound, Honest
  <2>3. ASSUME NEW b \in Actors, pc'[b] = "delivered"
        PROVE  mails' > 0
    <3>1. CASE b = a
      BY <2>1, <2>3, <3>1 DEF DeliveryInv, SuccessIsTrue, Sound, Honest
    <3>2. CASE b # a
      BY <2>1, <2>3, <3>2 DEF DeliveryInv, SuccessIsTrue, Sound, Alone
    <3> QED
      BY <3>1, <3>2
  <2> QED
    BY <2>2, <2>3 DEF SuccessIsTrue
<1> QED
  BY <1>1, <1>2 DEF DeliveryInv

\* An actor that goes somewhere is there, and the others stay where they are.
LEMMA GotoPlace ==
    ASSUME TypeOK, NEW a \in Actors, NEW label, Goto(a, label)
    PROVE  pc'[a] = label /\ \A b \in Actors \ {a} : pc'[b] = pc[b]
BY DEF TypeOK, Goto

\* A finished execution leaves the others alone and is entitled to nothing.
LEMMA FinishPlace ==
    ASSUME TypeOK, NEW a \in Actors, Finish(a)
    PROVE  pc'[a] = "idle" /\ Weight(a)' = 0 /\ Alone(a)
<1>1. pc'[a] = "idle" /\ \A b \in Actors \ {a} : pc'[b] = pc[b]
  BY GotoPlace DEF Finish
<1>2. \A b \in Actors \ {a} : mem'[b] = mem[b]
  BY DEF TypeOK, Finish
<1> QED
  BY <1>1, <1>2 DEF Alone, Weight, IsEntitled

\* A worker that turns to a failure may have the right to send again, unless the
\* outcome of the mail is unknown.
LEMMA FailPlace ==
    ASSUME TypeOK, NEW w \in Actors, NEW error, NEW caught, Fail(w, error, caught)
    PROVE  /\ pc'[w] = "fail" /\ Alone(w)
           /\ Weight(w)' = IF error = "UNKNOWN_EXTERNAL_OUTCOME" THEN 0 ELSE 1
<1>1. pc'[w] = "fail" /\ \A b \in Actors \ {w} : pc'[b] = pc[b]
  BY GotoPlace DEF Fail
<1>2. \A b \in Actors \ {w} : mem'[b] = mem[b]
  BY DEF TypeOK, Fail
<1>3. mem'[w].error = error
  BY DEF TypeOK, Fail, Memory
<1> QED
  BY <1>1, <1>2, <1>3 DEF Alone, Weight, IsEntitled

\* A counted disturbance is a trigger, except for a crash.
LEMMA SpendTriggers ==
    ASSUME TypeOK, NEW cost \in Disturbances, Spend(cost)
    PROVE  Triggers' = IF cost = "crash" THEN Triggers ELSE Triggers + 1
<1>1. \A c \in Disturbances : spent[c] \in Nat /\ spent'[c] = IF c = cost THEN spent[c] + 1 ELSE spent[c]
  BY DEF TypeOK, Spend
<1>2. cost \in {"ensure", "resend", "crash", "local"}
  BY DEF Disturbances
<1> QED
  BY <1>1, <1>2 DEF Triggers, Disturbances

\* The weights are 0 or 1 and the sums are of natural numbers.
LEMMA Weights ==
    ASSUME TypeOK, NEW a
    PROVE  /\ mails \in Nat /\ Triggers \in Nat
           /\ Weight(a) \in {0, 1} /\ RowEntitles \in {0, 1}
           /\ Weight(a)' \in {0, 1} /\ RowEntitles' \in {0, 1}
BY DEF TypeOK, Triggers, Disturbances, Weight, RowEntitles

\* Nothing a requester does sends a mail, reports success, or creates a right to send
\* without having been asked.
LEMMA RequesterSound ==
    ASSUME TypeOK, TypeOK', NEW r \in Requesters,
           \/ EnsureRead(r) \/ EnsureWithoutPdf(r) \/ ResendRead(r) \/ AcceptedRead(r)
           \/ RequesterStep(r)
    PROVE  Sound(r)
<1>0. r \in Actors /\ {"ensure", "resend"} \subseteq Disturbances
  BY DEF Actors, Disturbances
<1>00. row \in Row /\ mails \in Nat
  BY DEF TypeOK
<1> USE <1>0, Weights
<1>1. CASE EnsureRead(r) \/ AcceptedRead(r)
  <2>1. Triggers' = Triggers + 1
    BY <1>1, SpendTriggers DEF EnsureRead, AcceptedRead
  <2>2. pc'[r] # "delivered" /\ Alone(r)
    BY <1>1, GotoPlace DEF EnsureRead, AcceptedRead, Alone
  <2>3. mails' = mails /\ row' = row
    BY <1>1 DEF EnsureRead, AcceptedRead
  <2> QED
    BY <2>1, <2>2, <2>3 DEF Sound, Balanced, Honest, RowEntitles
<1>2. CASE EnsureWithoutPdf(r) \/ ResendRead(r)
  <2>1. Triggers' = Triggers + 1
    BY <1>2, SpendTriggers DEF EnsureWithoutPdf, ResendRead
  <2>2. pc'[r] # "delivered" /\ \A b \in Actors \ {r} : pc'[b] = pc[b]
    BY <1>2, GotoPlace DEF EnsureWithoutPdf, ResendRead
  <2>3. \A b \in Actors \ {r} : mem'[b] = mem[b]
    BY <1>2 DEF TypeOK, EnsureWithoutPdf, ResendRead
  <2>4. mails' = mails /\ row' = row
    BY <1>2 DEF EnsureWithoutPdf, ResendRead
  <2> QED
    BY <2>1, <2>2, <2>3, <2>4 DEF Sound, Balanced, Honest, Alone, RowEntitles
<1>3. CASE EnsureCreate(r) \/ EnsureRequeue(r) \/ ResendWrite(r)
  <2>1. pc'[r] \in {"publish", "publishAnew"} /\ Alone(r)
    BY <1>3, GotoPlace DEF EnsureCreate, EnsureRequeue, ResendWrite, Alone
  <2>2. Weight(r) = 1 /\ Weight(r)' = 0
    BY <1>3, <2>1 DEF Weight, IsEntitled, EnsureCreate, EnsureRequeue, ResendWrite
  <2>3. row' = row \/ row'.status = "QUEUED"
    BY <1>00, <1>3 DEF EnsureCreate, EnsureRequeue, ResendWrite, Row
  <2>4. mails' = mails /\ Triggers' = Triggers
    BY <1>3 DEF EnsureCreate, EnsureRequeue, ResendWrite, Triggers
  <2> QED
    BY <2>1, <2>2, <2>3, <2>4 DEF Sound, Balanced, Honest, RowEntitles
<1>4. CASE RecordPdfFailure(r)
  <2>1. pc'[r] = "idle" /\ Alone(r) /\ Weight(r) = 1 /\ Weight(r)' = 0
    BY <1>4, FinishPlace DEF RecordPdfFailure, Weight, IsEntitled
  <2>2. mem[r].count \in Nat
    BY DEF TypeOK, Memory
  <2>3. row' = row \/ row'.status # "DELIVERED"
    BY <1>00, <1>4, <2>2, ClassifyRange, DeliveryBoundsAreNat DEF RecordPdfFailure, Row
  <2>4. mails' = mails /\ Triggers' = Triggers
    BY <1>4 DEF RecordPdfFailure, Triggers
  <2> QED
    BY <2>1, <2>3, <2>4 DEF Sound, Balanced, Honest
<1>5. CASE PublishAnew(r) \/ Publish(r)
  <2>1. pc'[r] = "idle" /\ Alone(r) /\ Weight(r)' = 0
    BY <1>5, FinishPlace DEF PublishAnew, Publish
  <2>2. mails' = mails /\ row' = row /\ Triggers' = Triggers
    BY <1>5 DEF PublishAnew, Publish, Triggers
  <2> QED
    BY <2>1, <2>2 DEF Sound, Balanced, Honest, RowEntitles
<1>6. CASE AcceptedClaim(r)
  <2>1. pc'[r] \in {"publish", "idle"} /\ Alone(r)
    BY <1>6, GotoPlace, FinishPlace DEF AcceptedClaim, Alone
  <2>2. Weight(r) = 1 /\ Weight(r)' = 0
    BY <1>6, <2>1 DEF Weight, IsEntitled, AcceptedClaim
  <2>3. row' = row \/ row'.status = "QUEUED"
    BY <1>00, <1>6 DEF AcceptedClaim, Row
  <2>4. mails' = mails /\ Triggers' = Triggers
    BY <1>6 DEF AcceptedClaim, Triggers
  <2> QED
    BY <2>1, <2>2, <2>3, <2>4 DEF Sound, Balanced, Honest, RowEntitles
<1> QED
  BY <1>1, <1>2, <1>3, <1>4, <1>5, <1>6 DEF RequesterStep

\* A worker sends on the right it took from the row, and gives it back only when the
\* mail was not accepted; what the catch hides has its own trigger.
LEMMA WorkerSound ==
    ASSUME TypeOK, TypeOK', NEW w \in Workers, WorkerStep(w) \/ CatchFailure(w)
    PROVE  Sound(w)
<1>0. w \in Actors /\ "local" \in Disturbances
  BY DEF Actors, Disturbances
<1>00. row \in Row /\ mails \in Nat /\ mem[w].count \in Nat
  BY <1>0 DEF TypeOK, Memory
<1> USE <1>0, Weights
<1>1. CASE TakeJob(w)
  <2>1. pc'[w] \in {"claim", "idle"} /\ \A b \in Actors \ {w} : pc'[b] = pc[b]
    BY <1>1, GotoPlace DEF TakeJob
  <2>2. \A b \in Actors \ {w} : mem'[b] = mem[b]
    BY <1>1 DEF TypeOK, TakeJob
  <2>3. Weight(w)' = 0
    BY <2>1 DEF Weight, IsEntitled
  <2>4. mails' = mails /\ row' = row /\ Triggers' = Triggers
    BY <1>1 DEF TakeJob, Triggers
  <2> QED
    BY <2>1, <2>2, <2>3, <2>4 DEF Sound, Balanced, Honest, Alone, RowEntitles
<1>2. CASE Claim(w)
  <2>1. pc[w] = "claim" /\ mails' = mails /\ Triggers' = Triggers
    BY <1>2 DEF Claim, Triggers
  <2>2. Weight(w) = 0
    BY <2>1 DEF Weight, IsEntitled
  <2>3. CASE row.status \in ClaimableStatuses
    <3>1. pc'[w] = "send" /\ Alone(w)
      BY <1>2, <2>3, GotoPlace DEF Claim, Alone
    <3>2. row'.status = "SENDING"
      BY <1>00, <1>2, <2>3 DEF Claim, Row
    <3>3. RowEntitles = 1 /\ RowEntitles' = 0
      BY <2>3, <3>2 DEF RowEntitles, ClaimableStatuses
    <3> QED
      BY <2>1, <2>2, <3>1, <3>2, <3>3 DEF Sound, Balanced, Honest
  <2>4. CASE row.status \notin ClaimableStatuses
    <3>1. pc'[w] = "idle" /\ Alone(w) /\ Weight(w)' = 0 /\ row' = row
      BY <1>2, <2>4, FinishPlace DEF Claim
    <3> QED
      BY <2>1, <3>1 DEF Sound, Balanced, Honest, RowEntitles
  <2> QED
    BY <2>3, <2>4
<1>3. CASE BuildAttachmentsFails(w)
  <2>1. pc'[w] = "fail" /\ Alone(w)
    BY <1>3, FailPlace DEF BuildAttachmentsFails
  <2>2. Weight(w) = 1
    BY <1>3 DEF BuildAttachmentsFails, Weight, IsEntitled
  <2>3. mails' = mails /\ row' = row /\ Triggers' = Triggers
    BY <1>3 DEF BuildAttachmentsFails, Triggers
  <2> QED
    BY <2>1, <2>2, <2>3 DEF Sound, Balanced, Honest, RowEntitles
<1>4. CASE SendEmail(w)
  <2>1. Weight(w) = 1 /\ row' = row /\ Triggers' = Triggers
    BY <1>4 DEF SendEmail, Weight, IsEntitled, Triggers
  <2>2. CASE mails' = mails + 1 /\ Goto(w, "delivered") /\ UNCHANGED mem
    <3>1. pc'[w] = "delivered" /\ Alone(w)
      BY <2>2, GotoPlace DEF Alone
    <3>2. Weight(w)' = 0
      BY <3>1 DEF Weight, IsEntitled
    <3> QED
      BY <1>00, <2>1, <2>2, <3>1, <3>2 DEF Sound, Balanced, Honest, RowEntitles
  <2>3. CASE mails' \in {mails, mails + 1} /\ Fail(w, ErrorClassOfOutcome["UNKNOWN"], FALSE)
    <3>1. pc'[w] = "fail" /\ Alone(w) /\ Weight(w)' = 0
      BY <2>3, FailPlace DEF ErrorClassOfOutcome
    <3> QED
      BY <1>00, <2>1, <2>3, <3>1 DEF Sound, Balanced, Honest, RowEntitles
  <2>4. CASE /\ mails' = mails
             /\ \E outcome \in {"TRANSIENT_FAILURE", "PERMANENT_FAILURE", "RATE_LIMITED"} :
                   Fail(w, ErrorClassOfOutcome[outcome], FALSE)
    <3>1. pc'[w] = "fail" /\ Alone(w)
      BY <2>4, FailPlace
    <3> QED
      BY <1>00, <2>1, <2>4, <3>1 DEF Sound, Balanced, Honest, RowEntitles
  <2> QED
    BY <1>4, <2>2, <2>3, <2>4 DEF SendEmail
<1>5. CASE MarkDelivered(w)
  <2>1. pc[w] = "delivered" /\ pc'[w] = "close" /\ Alone(w)
    BY <1>5, GotoPlace DEF MarkDelivered, Alone
  <2>2. Weight(w)' = 0
    BY <2>1 DEF Weight, IsEntitled
  <2>3. row'.status = "DELIVERED"
    BY <1>00, <1>5 DEF MarkDelivered, Row
  <2>4. mails' = mails /\ Triggers' = Triggers /\ RowEntitles' = 0
    BY <1>5, <2>3 DEF MarkDelivered, Triggers, RowEntitles, ClaimableStatuses
  <2> QED
    BY <2>1, <2>2, <2>4 DEF Sound, Balanced, Honest
<1>6. CASE MarkFailed(w)
  <2>1. pc[w] = "fail" /\ pc'[w] = "close" /\ Alone(w)
    BY <1>6, GotoPlace DEF MarkFailed, Alone
  <2>2. Weight(w)' = 0 /\ mails' = mails /\ Triggers' = Triggers
    BY <1>6, <2>1 DEF Weight, IsEntitled, MarkFailed, Triggers
  <2>3. row' = row \/ row'.status = Classify(mem[w].error, mem[w].count, MaxRetries)
    BY <1>00, <1>6 DEF MarkFailed, Row
  <2>4. row'.status = "DELIVERED" => row.status = "DELIVERED"
    BY <1>00, <2>3, ClassifyRange, DeliveryBoundsAreNat
  <2>5. CASE mem[w].error = "UNKNOWN_EXTERNAL_OUTCOME"
    <3>1. row' = row \/ row'.status = "MANUAL_REVIEW_REQUIRED"
      BY <1>00, <2>3, <2>5, ClassifyRange, DeliveryBoundsAreNat
    <3>2. RowEntitles' <= RowEntitles
      BY <3>1 DEF RowEntitles, ClaimableStatuses
    <3> QED
      BY <2>1, <2>2, <2>4, <3>2 DEF Sound, Balanced, Honest
  <2>6. CASE mem[w].error # "UNKNOWN_EXTERNAL_OUTCOME"
    <3>1. Weight(w) = 1
      BY <2>1, <2>6 DEF Weight, IsEntitled
    <3> QED
      BY <2>1, <2>2, <2>4, <3>1 DEF Sound, Balanced, Honest
  <2> QED
    BY <2>5, <2>6
<1>7. CASE CloseAttempt(w)
  <2>1. pc'[w] = "idle" /\ Alone(w) /\ Weight(w)' = 0
    BY <1>7, FinishPlace DEF CloseAttempt
  <2>2. mails' = mails /\ row' = row /\ Triggers' = Triggers
    BY <1>7 DEF CloseAttempt, Triggers
  <2> QED
    BY <2>1, <2>2 DEF Sound, Balanced, Honest, RowEntitles
<1>8. CASE CatchFailure(w)
  <2>1. Triggers' = Triggers + 1
    BY <1>8, SpendTriggers DEF CatchFailure
  <2>2. pc'[w] = "fail" /\ Alone(w)
    BY <1>8, FailPlace DEF CatchFailure
  <2>3. mails' = mails /\ row' = row
    BY <1>8 DEF CatchFailure
  <2> QED
    BY <2>1, <2>2, <2>3 DEF Sound, Balanced, Honest, RowEntitles
<1> QED
  BY <1>1, <1>2, <1>3, <1>4, <1>5, <1>6, <1>7, <1>8 DEF WorkerStep

\* A scan replays only rows whose last mail is known not to have been accepted.
LEMMA ScannerSound ==
    ASSUME TypeOK, TypeOK', NEW s \in Scanners, ScannerStep(s)
    PROVE  Sound(s)
<1>0. s \in Actors /\ row \in Row
  BY DEF Actors, TypeOK
<1> USE <1>0, Weights
<1>1. CASE ScanStale(s) \/ ScanDue(s) \/ ScanFind(s)
  <2>1. pc'[s] \in {"due", "find", "publish", "idle"} /\ Alone(s)
    BY <1>1, GotoPlace DEF ScanStale, ScanDue, ScanFind, Alone
  <2>2. Weight(s)' = 0
    BY <2>1 DEF Weight, IsEntitled
  <2>3. \/ row' = row
        \/ row'.status = "MANUAL_REVIEW_REQUIRED"
        \/ row.status = "RETRY_PENDING" /\ row'.status = "QUEUED"
    BY <1>1 DEF ScanStale, ScanDue, ScanFind, Row
  <2>4. RowEntitles' <= RowEntitles
    BY <2>3 DEF RowEntitles, ClaimableStatuses
  <2>5. mails' = mails /\ Triggers' = Triggers
    BY <1>1 DEF ScanStale, ScanDue, ScanFind, Triggers
  <2> QED
    BY <2>1, <2>2, <2>3, <2>4, <2>5 DEF Sound, Balanced, Honest
<1>2. CASE Publish(s)
  <2>1. pc'[s] = "idle" /\ Alone(s) /\ Weight(s)' = 0
    BY <1>2, FinishPlace DEF Publish
  <2>2. mails' = mails /\ row' = row /\ Triggers' = Triggers
    BY <1>2 DEF Publish, Triggers
  <2> QED
    BY <2>1, <2>2 DEF Sound, Balanced, Honest, RowEntitles
<1> QED
  BY <1>1, <1>2 DEF ScannerStep

\* A crash forgets a right to send and creates none.
LEMMA CrashSound ==
    ASSUME TypeOK, TypeOK', NEW a \in Actors, Crash(a)
    PROVE  Sound(a)
<1>1. pc'[a] = "idle" /\ Alone(a) /\ Weight(a)' = 0
  BY FinishPlace DEF Crash, Abandon
<1>2. Triggers' = Triggers
  BY SpendTriggers DEF Crash, Disturbances
<1>3. mails' = mails /\ row' = row
  BY DEF Crash, Abandon
<1> QED
  BY <1>1, <1>2, <1>3, Weights DEF Sound, Balanced, Honest, RowEntitles

\* A step that touches neither mails, actors nor the row's status keeps the invariant.
LEMMA QuietStep ==
    ASSUME DeliveryInv, TypeOK', row'.status = row.status, UNCHANGED <<mails, pc, mem, spent>>
    PROVE  DeliveryInv'
<1>1. Entitled' = Entitled
  BY DEF Entitled, IsEntitled
<1>2. RowEntitles' = RowEntitles /\ Triggers' = Triggers
  BY DEF RowEntitles, Triggers
<1> QED
  BY <1>1, <1>2 DEF DeliveryInv, EntitlementsAreTriggered, SuccessIsTrue, DeliveredIsTrue

\* Every behaviour keeps the inductive invariant: mails, rights to send and triggers balance.
THEOREM DeliveryCorrect == Spec => []DeliveryInv
<1>1. Init /\ TypeOK => DeliveryInv
  <2> SUFFICES ASSUME Init, TypeOK
               PROVE  DeliveryInv
    OBVIOUS
  <2>1. Entitled = {}
    BY DEF Init, Entitled, IsEntitled
  <2>2. Cardinality(Entitled) = 0
    BY <2>1, FS_EmptySet
  <2>3. row.status # "DELIVERED" /\ RowEntitles = 0
    BY DEF Init, None, RowEntitles, ClaimableStatuses
  <2>4. mails = 0 /\ Triggers = 0
    BY DEF Init, Triggers, Disturbances
  <2>5. \A a \in Actors : pc[a] # "delivered"
    BY DEF Init
  <2> QED
    BY <2>2, <2>3, <2>4, <2>5 DEF DeliveryInv, EntitlementsAreTriggered, SuccessIsTrue,
                                  DeliveredIsTrue
<1>2. DeliveryInv /\ TypeOK' /\ [Next]_vars => DeliveryInv'
  <2> SUFFICES ASSUME DeliveryInv, TypeOK', [Next]_vars
               PROVE  DeliveryInv'
    OBVIOUS
  <2>0. TypeOK
    BY DEF DeliveryInv
  <2>1. ASSUME NEW r \in Requesters,
               \/ EnsureRead(r) \/ EnsureWithoutPdf(r) \/ ResendRead(r) \/ AcceptedRead(r)
               \/ RequesterStep(r)
        PROVE  DeliveryInv'
    BY <2>0, <2>1, RequesterSound, SoundStep DEF Actors
  <2>2. ASSUME NEW w \in Workers, WorkerStep(w) \/ CatchFailure(w)
        PROVE  DeliveryInv'
    BY <2>0, <2>2, WorkerSound, SoundStep DEF Actors
  <2>3. ASSUME NEW s \in Scanners, ScannerStep(s)
        PROVE  DeliveryInv'
    BY <2>0, <2>3, ScannerSound, SoundStep DEF Actors
  <2>4. ASSUME NEW a \in Actors, Crash(a)
        PROVE  DeliveryInv'
    BY <2>0, <2>4, CrashSound, SoundStep
  <2>5. CASE TimeStep
    <3>1. row'.status = row.status /\ UNCHANGED <<mails, pc, mem, spent>>
      BY <2>0, <2>5 DEF TypeOK, Row, TimeStep, RetryBecomesDue, LeaseEnds, SlotEnds
    <3> QED
      BY <3>1, QuietStep
  <2>6. CASE UNCHANGED vars
    BY <2>6, QuietStep DEF vars
  <2> QED
    BY <2>1, <2>2, <2>3, <2>4, <2>5, <2>6 DEF Next, Disturbance
<1> QED
  BY <1>1, <1>2, DeliveryTypeCorrect, PTL DEF Spec

\* Retries, scans, crashes and expired leases never send a mail nobody asked for.
THEOREM MailIsTriggeredHolds == Spec => []MailIsTriggered
<1>1. DeliveryInv => MailIsTriggered
  <2> SUFFICES ASSUME DeliveryInv
               PROVE  MailIsTriggered
    OBVIOUS
  <2>1. Entitled \subseteq Actors /\ IsFiniteSet(Actors)
    BY DeliveryActorsDisjoint DEF Entitled
  <2>2. Cardinality(Entitled) \in Nat
    BY <2>1, FS_Subset, FS_CardinalityType
  <2>3. mails \in Nat /\ RowEntitles \in Nat /\ Triggers \in Nat
    BY DEF DeliveryInv, TypeOK, RowEntitles, Triggers, Disturbances
  <2> QED
    BY <2>2, <2>3 DEF DeliveryInv, EntitlementsAreTriggered, MailIsTriggered
<1> QED
  BY <1>1, DeliveryCorrect, PTL

\* A delivery is reported only after the mail server accepted a mail.
THEOREM DeliveredIsTrueHolds == Spec => []DeliveredIsTrue
<1>1. DeliveryInv => DeliveredIsTrue
  BY DEF DeliveryInv, SuccessIsTrue
<1> QED
  BY <1>1, DeliveryCorrect, PTL

-----------------------------------------------------------------------------

\* No stale worker and no scan takes a package away from DELIVERED.
THEOREM DeliveredIsKeptHolds == Spec => DeliveredIsKept
<1> DEFINE Kept ==
      row.status = "DELIVERED" /\ row'.status # "DELIVERED"
        => \E r \in Requesters : pc[r] \in {"requeue", "record", "resend", "reclaim"}
                                    /\ pc'[r] # pc[r]
<1>1. TypeOK /\ [Next]_vars => [Kept]_vars
  <2> SUFFICES ASSUME TypeOK, Next, row.status = "DELIVERED", row'.status # "DELIVERED"
               PROVE  \E r \in Requesters : /\ pc[r] \in {"requeue", "record", "resend", "reclaim"}
                                            /\ pc'[r] # pc[r]
    OBVIOUS
  <2>0. row \in Row
    BY DEF TypeOK
  <2>1. ASSUME NEW r \in Requesters, RequesterStep(r)
        PROVE  pc[r] \in {"requeue", "record", "resend", "reclaim"} /\ pc'[r] # pc[r]
    <3>0. r \in Actors
      BY DEF Actors
    <3>1. ~EnsureCreate(r) /\ ~PublishAnew(r) /\ ~Publish(r)
      BY DEF EnsureCreate, PublishAnew, Publish, None
    <3>2. CASE EnsureRequeue(r) \/ ResendWrite(r)
      BY <3>0, <3>2, GotoPlace DEF EnsureRequeue, ResendWrite
    <3>3. CASE RecordPdfFailure(r)
      BY <3>0, <3>3, FinishPlace DEF RecordPdfFailure
    <3>4. CASE AcceptedClaim(r)
      BY <3>0, <3>4, GotoPlace, FinishPlace DEF AcceptedClaim
    <3> QED
      BY <2>1, <3>1, <3>2, <3>3, <3>4 DEF RequesterStep
  <2>2. ASSUME NEW w \in Workers
        PROVE  ~WorkerStep(w) /\ ~CatchFailure(w)
    BY <2>0 DEF WorkerStep, TakeJob, Claim, ClaimableStatuses, BuildAttachmentsFails, SendEmail,
                MarkDelivered, MarkFailed, CloseAttempt, CatchFailure
  <2>3. ASSUME NEW s \in Scanners
        PROVE  ~ScannerStep(s)
    BY DEF ScannerStep, ScanStale, ScanDue, ScanFind, Publish
  <2>4. ~TimeStep
    BY DEF TimeStep, RetryBecomesDue, LeaseEnds, SlotEnds
  <2>5. ~Disturbance
    BY <2>2 DEF Disturbance, EnsureRead, EnsureWithoutPdf, ResendRead, AcceptedRead, Crash,
                Abandon
  <2> QED
    BY <2>1, <2>2, <2>3, <2>4, <2>5 DEF Next
<1> QED
  BY <1>1, DeliveryTypeCorrect, PTL DEF Spec, DeliveredIsKept
=============================================================================
