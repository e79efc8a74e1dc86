-------------------------- MODULE DocumentDelivery --------------------------
(***************************************************************************)
(* The delivery of one fiscal package by email: one DocumentDelivery row,  *)
(* its pg-boss queue, the hooks and requests that ask for a delivery, the  *)
(* worker that sends, the periodic recovery scan, and the mail server.     *)
(*                                                                         *)
(* The unique index on document, kind, channel and recipient makes the row *)
(* the only one of its package, and rows share nothing.  A step is the     *)
(* stretch of code between two awaits that touch shared state.             *)
(***************************************************************************)
EXTENDS DeliveryRetryClassifier, Naturals, FiniteSets

CONSTANTS
    Requesters,   \* concurrent calls of the ensure services and resend requests
    Workers,      \* concurrent executions of delivery jobs
    Scanners,     \* concurrent executions of recoverOnce
    MaxRetries,   \* DEFAULT_MAX_DELIVERY_RETRIES
    MaxPending,   \* bound: jobs waiting in the queue
    Limit         \* bound: how often each kind of disturbance may happen

Actors == Requesters \cup Workers \cup Scanners

\* "ensure": an automatic call of an ensure service; "resend": somebody asks for
\* the mail; "crash" ends one execution; "local" is an error the worker catches.
Disturbances == {"ensure", "resend", "crash", "local"}

ASSUME DeliveryActorsDisjoint ==
    /\ IsFiniteSet(Actors)
    /\ Requesters \cap Workers = {}
    /\ Requesters \cap Scanners = {}
    /\ Workers \cap Scanners = {}
ASSUME DeliveryBoundsAreNat ==
    /\ MaxRetries \in Nat
    /\ MaxPending \in Nat
    /\ Limit \in [Disturbances -> Nat]

VARIABLES
    row,       \* the DocumentDelivery row; status None before it is created
    mails,     \* external: messages the mail server has accepted
    queue,     \* delivery jobs waiting
    slot,      \* the singleton key of the delivery is taken in the current slot
    pc,        \* where each actor stands
    mem,       \* the local variables of each actor
    spent      \* disturbances used up

vars == <<row, mails, queue, slot, pc, mem, spent>>

-----------------------------------------------------------------------------
(* Types *)

None == "NONE"

Kinds == {"INITIAL_DOCUMENT", "HACIENDA_RESPONSE", "ACCEPTED_FISCAL_PACKAGE"}

Statuses == {"QUEUED", "SENDING", "DELIVERED", "RETRY_PENDING", "FAILED",
             "MANUAL_REVIEW_REQUIRED"}

\* kind: part of the row's key, fixed.  due: nextAttemptAt is past.  fresh:
\* lastAttemptAt is within the lease, looked at only while SENDING.  count:
\* attemptCount.
Row == [kind : Kinds, status : Statuses \cup {None}, due : BOOLEAN,
        fresh : BOOLEAN, count : Nat]

\* count: the attemptCount that was read.  error: the class of the failure being
\* handled.  caught: inside the catch block.  exists: a row was found.
Memory == [count : Nat, error : ErrorClasses \cup {None}, caught : BOOLEAN,
           exists : BOOLEAN]

NoMemory == [count |-> 0, error |-> None, caught |-> FALSE, exists |-> FALSE]

Labels == {"idle", "create", "requeue", "record", "reclaim", "resend", "publish",
           "publishAnew", "claim", "send", "delivered", "fail", "close", "due", "find"}

TypeOK ==
    /\ row \in Row
    /\ mails \in Nat
    /\ queue \in Nat
    /\ slot \in BOOLEAN
    /\ pc \in [Actors -> Labels]
    /\ mem \in [Actors -> Memory]
    /\ spent \in [Disturbances -> Nat]

-----------------------------------------------------------------------------
(* Shared pieces of the handlers *)

Spend(cost) ==
    /\ spent[cost] < Limit[cost]
    /\ spent' = [spent EXCEPT ![cost] = @ + 1]

Goto(a, label) == pc' = [pc EXCEPT ![a] = label]

Finish(a) ==
    /\ Goto(a, "idle")
    /\ mem' = [mem EXCEPT ![a] = NoMemory]

\* Statuses the worker may claim.
ClaimableStatuses == {"QUEUED", "RETRY_PENDING"}

\* publish with the singleton key: pg-boss answers null, taken as success, while
\* the key is used in the current slot.
Publish(a) ==
    /\ pc[a] = "publish"
    /\ \/ /\ ~slot
          /\ queue' = queue + 1
          /\ slot' = TRUE
       \/ /\ slot
          /\ UNCHANGED <<queue, slot>>
    /\ Finish(a)
    /\ UNCHANGED <<row, mails, spent>>

-----------------------------------------------------------------------------
(* ensure of the initial package and of the Hacienda response; a call that    *)
(* finds nothing to do changes nothing and is left out.                       *)

Ensured == {"INITIAL_DOCUMENT", "HACIENDA_RESPONSE"}

\* findOrCreateDelivery reads the row.
EnsureRead(r) ==
    /\ pc[r] = "idle"
    /\ row.kind \in Ensured
    /\ row.status \notin {"DELIVERED", "QUEUED", "SENDING"}
    /\ Spend("ensure")
    /\ Goto(r, IF row.status = None THEN "create" ELSE "requeue")
    /\ UNCHANGED <<row, mails, queue, slot, mem>>

\* The unique index lets one create through; the loser takes the winner's id.
EnsureCreate(r) ==
    /\ pc[r] = "create"
    /\ row' = IF row.status = None THEN [row EXCEPT !.status = "QUEUED"] ELSE row
    /\ Goto(r, "publish")
    /\ UNCHANGED <<mails, queue, slot, mem, spent>>

\* An update by id alone, decided by the status read.
EnsureRequeue(r) ==
    /\ pc[r] = "requeue"
    /\ row' = [row EXCEPT !.status = "QUEUED"]
    /\ Goto(r, "publish")
    /\ UNCHANGED <<mails, queue, slot, mem, spent>>

\* recordPdfPrerequisiteFailure: without a PDF the row, found or not, only records
\* the failure, one class that is retried and one that is not standing for all.
EnsureWithoutPdf(r) ==
    /\ pc[r] = "idle"
    /\ row.kind = "INITIAL_DOCUMENT"
    /\ row.status \notin {"DELIVERED", "QUEUED", "SENDING"}
    /\ Spend("ensure")
    /\ Goto(r, "record")
    /\ \E error \in {"PDF_NOT_YET_GENERATED", "ARTIFACT_CORRUPT"} :
          mem' = [mem EXCEPT ![r] = [@ EXCEPT !.count = row.count, !.error = error,
                                              !.exists = row.status # None]]
    /\ UNCHANGED <<row, mails, queue, slot>>

\* The update is by id alone; the create fails when another call was first.
RecordPdfFailure(r) ==
    /\ pc[r] = "record"
    /\ row' = IF mem[r].exists \/ row.status = None
              THEN [row EXCEPT !.status = Classify(mem[r].error, mem[r].count, MaxRetries),
                               !.due = FALSE,
                               !.count = mem[r].count + 1]
              ELSE row
    /\ Finish(r)
    /\ UNCHANGED <<mails, queue, slot, spent>>

-----------------------------------------------------------------------------
(* Requests: resend of an existing delivery, and the accepted package *)

ResendRead(r) ==
    /\ pc[r] = "idle"
    /\ row.kind \in Ensured
    /\ row.status # None
    /\ Spend("resend")
    /\ Goto(r, "resend")
    /\ mem' = [mem EXCEPT ![r].count = row.count]
    /\ UNCHANGED <<row, mails, queue, slot>>

\* Whatever the row has become; published without a singleton key.
ResendWrite(r) ==
    /\ pc[r] = "resend"
    /\ row' = [row EXCEPT !.status = "QUEUED", !.due = FALSE, !.count = mem[r].count + 1]
    /\ Goto(r, "publishAnew")
    /\ UNCHANGED <<mails, queue, slot, mem, spent>>

PublishAnew(r) ==
    /\ pc[r] = "publishAnew"
    /\ queue < MaxPending
    /\ queue' = queue + 1
    /\ Finish(r)
    /\ UNCHANGED <<row, mails, slot, spent>>

\* claimDelivery of the accepted package.  A delivered package may still be cooling
\* down; that request is refused and left out.
AcceptedRead(r) ==
    /\ pc[r] = "idle"
    /\ row.kind = "ACCEPTED_FISCAL_PACKAGE"
    /\ row.status \notin {"QUEUED", "SENDING", "RETRY_PENDING"}
    /\ Spend("resend")
    /\ Goto(r, "reclaim")
    /\ UNCHANGED <<row, mails, queue, slot, mem>>

Reclaimable == {"DELIVERED", "FAILED", "MANUAL_REVIEW_REQUIRED"}

\* A create, or an update guarded by the status, which a lost create falls back to.
AcceptedClaim(r) ==
    /\ pc[r] = "reclaim"
    /\ \/ /\ row.status = None
          /\ row' = [row EXCEPT !.status = "QUEUED"]
          /\ Goto(r, "publish")
          /\ UNCHANGED mem
       \/ /\ row.status \in Reclaimable
          /\ row' = [row EXCEPT !.status = "QUEUED", !.due = FALSE]
          /\ Goto(r, "publish")
          /\ UNCHANGED mem
       \/ /\ row.status \in Statuses \ Reclaimable
          /\ Finish(r)
          /\ UNCHANGED row
    /\ UNCHANGED <<mails, queue, slot, spent>>

-----------------------------------------------------------------------------
(* processDelivery *)

\* The job finds the row; one that is DELIVERED by then is a duplicate trigger.
TakeJob(w) ==
    /\ pc[w] = "idle"
    /\ queue > 0
    /\ queue' = queue - 1
    /\ \/ /\ row.status # "DELIVERED"
          /\ Goto(w, "claim")
          /\ mem' = [mem EXCEPT ![w].count = row.count]
       \/ /\ row.status = "DELIVERED"
          /\ UNCHANGED <<pc, mem>>
    /\ UNCHANGED <<row, mails, slot, spent>>

\* Variant of Claim: the row is claimed as it was read.
ClaimAsRead(w) ==
    /\ pc[w] = "claim"
    /\ row' = [row EXCEPT !.status = "SENDING", !.fresh = TRUE]
    /\ Goto(w, "send")
    /\ UNCHANGED <<mem, mails, queue, slot, spent>>

\* The claim is one conditional update; a job that loses it completes.
Claim(w) ==
    /\ pc[w] = "claim"
    /\ \/ /\ row.status \in ClaimableStatuses
          /\ row' = [row EXCEPT !.status = "SENDING", !.fresh = TRUE]
          /\ Goto(w, "send")
          /\ UNCHANGED mem
       \/ /\ row.status \notin ClaimableStatuses
          /\ Finish(w)
          /\ UNCHANGED row
    /\ UNCHANGED <<mails, queue, slot, spent>>

Fail(w, error, caught) ==
    /\ Goto(w, "fail")
    /\ mem' = [mem EXCEPT ![w] = [@ EXCEPT !.error = error, !.caught = caught]]

\* buildAttachments throws: a PDF that is missing or wrong has a class of its own,
\* one of the blocked ones standing for all; everything else is an unknown response.
AttachmentErrors ==
    IF row.kind = "INITIAL_DOCUMENT"
    THEN {"ARTIFACT_HASH_MISMATCH", "ARTIFACT_MISSING", "UNKNOWN_PROVIDER_RESPONSE"}
    ELSE {"UNKNOWN_PROVIDER_RESPONSE"}

BuildAttachmentsFails(w) ==
    /\ pc[w] = "send"
    /\ \E error \in AttachmentErrors : Fail(w, error, TRUE)
    /\ UNCHANGED <<row, mails, queue, slot, spent>>

\* Variant of SendEmail: a lost acknowledgement is taken for acceptance.
SendOptimistically(w) ==
    /\ pc[w] = "send"
    /\ mails' \in {mails, mails + 1}
    /\ Goto(w, "delivered")
    /\ UNCHANGED <<row, queue, slot, mem, spent>>

\* The server confirms; or the acknowledgement is lost, with or without the mail
\* accepted; or the mail is refused or never offered.
SendEmail(w) ==
    /\ pc[w] = "send"
    /\ \/ /\ mails' = mails + 1
          /\ Goto(w, "delivered")
          /\ UNCHANGED mem
       \/ /\ mails' \in {mails, mails + 1}
          /\ Fail(w, ErrorClassOfOutcome["UNKNOWN"], FALSE)
       \/ /\ mails' = mails
          /\ \E outcome \in {"TRANSIENT_FAILURE", "PERMANENT_FAILURE", "RATE_LIMITED"} :
                Fail(w, ErrorClassOfOutcome[outcome], FALSE)
    /\ UNCHANGED <<row, queue, slot, spent>>

MarkDelivered(w) ==
    /\ pc[w] = "delivered"
    /\ row' = IF row.status = "DELIVERED" THEN row
              ELSE [row EXCEPT !.status = "DELIVERED", !.count = mem[w].count + 1]
    /\ Goto(w, "close")
    /\ UNCHANGED <<mails, queue, slot, mem, spent>>

\* Variant of MarkFailed: without the guard of the update.
MarkFailedUnguarded(w) ==
    /\ pc[w] = "fail"
    /\ row' = [row EXCEPT !.status = Classify(mem[w].error, mem[w].count, MaxRetries),
                          !.due = FALSE,
                          !.count = mem[w].count + 1]
    /\ Goto(w, "close")
    /\ UNCHANGED <<mails, queue, slot, mem, spent>>

\* handleFailure, guarded against DELIVERED only.
MarkFailed(w) ==
    /\ pc[w] = "fail"
    /\ row' = IF row.status = "DELIVERED" THEN row
              ELSE [row EXCEPT !.status = Classify(mem[w].error, mem[w].count, MaxRetries),
                               !.due = FALSE,
                               !.count = mem[w].count + 1]
    /\ Goto(w, "close")
    /\ UNCHANGED <<mails, queue, slot, mem, spent>>

\* The attempt's own record is closed; its content is left out.
CloseAttempt(w) ==
    /\ pc[w] = "close"
    /\ Finish(w)
    /\ UNCHANGED <<row, mails, queue, slot, spent>>

-----------------------------------------------------------------------------
(* recoverOnce, at startup and periodically *)

\* Variant of ScanStale: the stale claim is classified WORKER_CRASH_STALE_SENDING.
ScanStaleRetries(s) ==
    /\ pc[s] = "idle"
    /\ row' = IF row.status = "SENDING" /\ ~row.fresh
              THEN [row EXCEPT !.status = "RETRY_PENDING"]
              ELSE row
    /\ Goto(s, "due")
    /\ UNCHANGED <<mails, queue, slot, mem, spent>>

\* A stale SENDING row has an unknowable outcome and is not replayed.
ScanStale(s) ==
    /\ pc[s] = "idle"
    /\ row' = IF row.status = "SENDING" /\ ~row.fresh
              THEN [row EXCEPT !.status = "MANUAL_REVIEW_REQUIRED"]
              ELSE row
    /\ Goto(s, "due")
    /\ UNCHANGED <<mails, queue, slot, mem, spent>>

ScanDue(s) ==
    /\ pc[s] = "due"
    /\ row' = IF row.status = "RETRY_PENDING" /\ row.due
              THEN [row EXCEPT !.status = "QUEUED", !.due = FALSE]
              ELSE row
    /\ Goto(s, "find")
    /\ UNCHANGED <<mails, queue, slot, mem, spent>>

\* Variant of ScanFind: the scan leaves the publication to whoever queued the row.
ScanFindNothing(s) ==
    /\ pc[s] = "find"
    /\ Goto(s, "idle")
    /\ UNCHANGED <<row, mails, queue, slot, mem, spent>>

ScanFind(s) ==
    /\ pc[s] = "find"
    /\ Goto(s, IF row.status = "QUEUED" THEN "publish" ELSE "idle")
    /\ UNCHANGED <<row, mails, queue, slot, mem, spent>>

-----------------------------------------------------------------------------
(* Failures *)

\* The catch of processDelivery: any exception after the attempt was recorded,
\* wherever the mail stands, is an unknown provider response.
CatchFailure(w) ==
    /\ pc[w] \in {"delivered", "fail", "close"}
    /\ ~mem[w].caught
    /\ Spend("local")
    /\ Fail(w, "UNKNOWN_PROVIDER_RESPONSE", TRUE)
    /\ UNCHANGED <<row, mails, queue, slot>>

\* The execution ends.  A job goes back to the queue, or its retries are used up.
Abandon(a) ==
    /\ Finish(a)
    /\ \/ /\ a \in Workers
          /\ queue' = queue + 1
       \/ UNCHANGED queue
    /\ UNCHANGED <<row, mails, slot>>

\* The process dies, or an exception is thrown that nobody catches.
Crash(a) ==
    /\ pc[a] # "idle"
    /\ Spend("crash")
    /\ Abandon(a)

-----------------------------------------------------------------------------
(* Time *)

\* nextAttemptAt passes.
RetryBecomesDue ==
    /\ row.status = "RETRY_PENDING"
    /\ ~row.due
    /\ row' = [row EXCEPT !.due = TRUE]
    /\ UNCHANGED <<mails, queue, slot, pc, mem, spent>>

\* lastAttemptAt becomes older than the lease; the worker may well be alive.
LeaseEnds ==
    /\ row.status = "SENDING"
    /\ row.fresh
    /\ row' = [row EXCEPT !.fresh = FALSE]
    /\ UNCHANGED <<mails, queue, slot, pc, mem, spent>>

\* The singleton slot ends.
SlotEnds ==
    /\ slot
    /\ queue < MaxPending
    /\ slot' = FALSE
    /\ UNCHANGED <<row, mails, queue, pc, mem, spent>>

-----------------------------------------------------------------------------
(* The specification *)

\* A package that has no delivery yet, or one that failed for good some time ago.
Init ==
    /\ \E kind \in Kinds, status \in {None, "FAILED"} :
          row = [kind |-> kind, status |-> status, due |-> FALSE, fresh |-> FALSE, count |-> 0]
    /\ mails = 0
    /\ queue = 0
    /\ slot = FALSE
    /\ pc = [a \in Actors |-> "idle"]
    /\ mem = [a \in Actors |-> NoMemory]
    /\ spent = [cost \in Disturbances |-> 0]

\* What a requester that has begun does next.
RequesterStep(r) ==
    \/ EnsureCreate(r) \/ EnsureRequeue(r) \/ RecordPdfFailure(r)
    \/ ResendWrite(r) \/ PublishAnew(r) \/ AcceptedClaim(r) \/ Publish(r)

WorkerStep(w) ==
    \/ TakeJob(w) \/ Claim(w) \/ BuildAttachmentsFails(w) \/ SendEmail(w)
    \/ MarkDelivered(w) \/ MarkFailed(w) \/ CloseAttempt(w)

ScannerStep(s) == ScanStale(s) \/ ScanDue(s) \/ ScanFind(s) \/ Publish(s)

TimeStep == RetryBecomesDue \/ LeaseEnds \/ SlotEnds

Disturbance ==
    \/ \E r \in Requesters : EnsureRead(r) \/ EnsureWithoutPdf(r)
                                \/ ResendRead(r) \/ AcceptedRead(r)
    \/ \E w \in Workers : CatchFailure(w)
    \/ \E a \in Actors : Crash(a)

Next ==
    \/ \E r \in Requesters : RequesterStep(r)
    \/ \E w \in Workers : WorkerStep(w)
    \/ \E s \in Scanners : ScannerStep(s)
    \/ TimeStep
    \/ Disturbance

Spec == Init /\ [][Next]_vars

\* Executions that have begun go on, queued jobs are taken, the recovery scan is
\* enabled and runs, and time passes.  Disturbances are never owed.
Fairness ==
    /\ \A r \in Requesters : WF_vars(RequesterStep(r))
    /\ \A w \in Workers : WF_vars(WorkerStep(w))
    /\ \A s \in Scanners : WF_vars(ScannerStep(s))
    /\ WF_vars(RetryBecomesDue)
    /\ WF_vars(LeaseEnds)
    /\ WF_vars(SlotEnds)

FairSpec == Spec /\ Fairness

-----------------------------------------------------------------------------
(* Correctness *)

\* What may ask for one more mail: an automatic request, a resend, and an exception
\* that hides what became of the mail being sent.
Triggers == spent["ensure"] + spent["resend"] + spent["local"]

\* Crashes, expired leases, recovery scans, duplicate jobs and retries never send a
\* mail again by themselves: each accepted mail answers to a trigger of its own.
MailIsTriggered == mails <= Triggers

\* Nobody reports a delivery the mail server has not accepted.
DeliveredIsTrue == row.status = "DELIVERED" => mails > 0

\* No stale worker and no scan takes a package away from DELIVERED; only the
\* write of somebody who asked for the mail does.
DeliveredIsKept ==
    [][row.status = "DELIVERED" /\ row'.status # "DELIVERED"
         => \E r \in Requesters : pc[r] \in {"requeue", "record", "resend", "reclaim"}
                                     /\ pc'[r] # pc[r]]_vars

\* A delivery that was started ends: delivered, failed, or with an operator.
DeliverySettles ==
    row.status \in ClaimableStatuses \cup {"SENDING"}
        ~> row.status \in {"DELIVERED", "FAILED", "MANUAL_REVIEW_REQUIRED"}

-----------------------------------------------------------------------------
(* The inductive invariant behind MailIsTriggered and DeliveredIsTrue *)

\* Who may still put a mail on the way, or give back the right to send one.  A
\* failure whose mail may have been accepted gives back nothing.
IsEntitled(a) ==
    \/ pc[a] \in {"create", "requeue", "record", "reclaim", "resend", "send"}
    \/ pc[a] = "fail" /\ mem[a].error # "UNKNOWN_EXTERNAL_OUTCOME"

Entitled == {a \in Actors : IsEntitled(a)}

RowEntitles == IF row.status \in ClaimableStatuses THEN 1 ELSE 0

\* Each trigger is spent on at most one of: a mail, an actor, the row.
EntitlementsAreTriggered ==
    mails + Cardinality(Entitled) + RowEntitles <= Triggers

\* A worker about to report success has a mail to show for it.
SuccessIsTrue ==
    DeliveredIsTrue /\ \A a \in Actors : pc[a] = "delivered" => mails > 0

DeliveryInv ==
    /\ TypeOK
    /\ EntitlementsAreTriggered
    /\ SuccessIsTrue
=============================================================================
