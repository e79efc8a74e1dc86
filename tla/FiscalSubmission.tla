-------------------------- MODULE FiscalSubmission --------------------------
(***************************************************************************)
(* The asynchronous submission of one fiscal document to Hacienda.         *)
(*                                                                         *)
(* One document, its one FiscalSubmission row (unique on the document and  *)
(* on the clave), the two pg-boss queues, the API handlers that request    *)
(* work, the worker that runs submit and reconcile jobs, the periodic      *)
(* recovery sweep, and Hacienda.  Rows of different documents share no     *)
(* state, so one row shows every interleaving.  A step is the stretch of   *)
(* code between two awaits that touch shared state.                        *)
(***************************************************************************)
EXTENDS SubmissionStateMachine, Naturals, FiniteSets

CONSTANTS
    Clients,              \* concurrent calls of SubmitFiscalDocumentService.execute
    Workers,              \* concurrent executions of queue jobs
    Sweepers,             \* concurrent executions of enqueueDueWork
    MaxPending,           \* bound: jobs of one name waiting in the queue
    Limit,                \* bound: how often each kind of disturbance may happen
    LeaseOutlivesWorkers  \* TRUE: no live submit job runs for 5 minutes

Actors == Clients \cup Workers \cup Sweepers

\* Requests, reconcile signals and connection changes come from outside; a crash
\* kills one execution; "local" is a storage, secret, database or queue error;
\* "post" and "get" are provider answers other than the documented clean ones.
Disturbances == {"submit", "signal", "connection", "crash", "local", "post", "get"}

ASSUME ActorsDisjoint ==
    /\ Clients \cap Workers = {}
    /\ Clients \cap Sweepers = {}
    /\ Workers \cap Sweepers = {}
ASSUME BoundsAreNat ==
    /\ MaxPending \in Nat
    /\ Limit \in [Disturbances -> Nat]
ASSUME LeaseIsBoolean == LeaseOutlivesWorkers \in BOOLEAN

VARIABLES
    row,        \* the FiscalSubmission row; status None before it is created
    document,   \* FiscalDocument.status
    evidence,   \* what of the Hacienda response exists: storage object, artifact index
    hooks,      \* verdicts for which the delivery hook was scheduled
    connected,  \* the company's HaciendaConnection is CONNECTED
    queue,      \* jobs waiting, per name
    slot,       \* the singleton key of the job is taken in the current slot
    hacienda,   \* external: what Hacienda holds under the clave
    pc,         \* where each actor stands
    mem,        \* the local variables of each actor
    spent       \* disturbances used up

vars == <<row, document, evidence, hooks, connected, queue, slot, hacienda,
          pc, mem, spent>>

-----------------------------------------------------------------------------
(* Types *)

None == "NONE"

Jobs == {"SUBMIT", "RECONCILE"}

\* due: nextAttemptAt is null or past.  fresh: lastAttemptAt is within 5 minutes.
\* response: responseStorageKey and responseSha256 are set.
Row == [status : Statuses \cup {None}, due : BOOLEAN, fresh : BOOLEAN,
        response : BOOLEAN]

\* work: the job being run.  seen: the status execute read.  response: whether the
\* row had a response when applyProviderResult read it.  result,
\* artifact: the HaciendaSubmissionResult being applied.  publish: the job to
\* publish at the end.  failing: inside handleSubmitFailure.
Memory == [work : Jobs \cup {None}, seen : Statuses \cup {None},
           response : BOOLEAN, result : Statuses \cup {None},
           artifact : BOOLEAN, publish : Jobs \cup {None}, failing : BOOLEAN]

NoMemory == [work |-> None, seen |-> None, response |-> FALSE, result |-> None,
             artifact |-> FALSE, publish |-> None, failing |-> FALSE]

Labels == {"idle", "create", "mark", "load", "send", "resend", "query",
           "apply", "store", "commit", "index", "publish"}

DocumentStatuses == {"READY_TO_SUBMIT"} \cup Terminal

TypeOK ==
    /\ row \in Row
    /\ document \in DocumentStatuses
    /\ evidence \in SUBSET {"object", "index"}
    /\ hooks \in SUBSET Verdicts
    /\ connected \in BOOLEAN
    /\ queue \in [Jobs -> Nat]
    /\ slot \in [Jobs -> BOOLEAN]
    /\ hacienda \in {"none", "received"} \cup Verdicts
    /\ pc \in [Actors -> Labels]
    /\ mem \in [Actors -> Memory]
    /\ spent \in [Disturbances -> Nat]

-----------------------------------------------------------------------------
(* Shared pieces of the handlers *)

Spend(kind) ==
    /\ spent[kind] < Limit[kind]
    /\ spent' = [spent EXCEPT ![kind] = @ + 1]

Finish(a) ==
    /\ pc' = [pc EXCEPT ![a] = "idle"]
    /\ mem' = [mem EXCEPT ![a] = NoMemory]

\* Statuses whose next step is a status query, not a POST.
Reconcilable == {"ACKNOWLEDGED", "PROCESSING", "POST_OUTCOME_UNKNOWN"}

JobNameForSubmissionStatus(status) ==
    IF status \in Reconcilable THEN "RECONCILE"
    ELSE IF status = "SUBMITTING" THEN None
    ELSE "SUBMIT"

\* The job scheduleNext publishes for a provider result.
ScheduledJob(result) ==
    IF result \in Reconcilable THEN "RECONCILE"
    ELSE IF result = "TECHNICAL_RETRY_PENDING" THEN "SUBMIT"
    ELSE None

\* publish with the singleton key: pg-boss answers null, taken as success, while
\* the key is used in the current slot.
PublishKeyed(job) ==
    \/ /\ job \in Jobs
       /\ ~slot[job]
       /\ queue' = [queue EXCEPT ![job] = @ + 1]
       /\ slot' = [slot EXCEPT ![job] = TRUE]
    \/ /\ job \in Jobs => slot[job]
       /\ UNCHANGED <<queue, slot>>

\* publish without a singleton key: always a new job.
PublishUnkeyed(job) ==
    /\ queue[job] < MaxPending
    /\ queue' = [queue EXCEPT ![job] = @ + 1]
    /\ UNCHANGED slot

\* Enter applyProviderResult(result), then publish the job (or nothing).
BeginApply(a, result, artifact, job) ==
    /\ pc' = [pc EXCEPT ![a] = "apply"]
    /\ mem' = [mem EXCEPT ![a] = [@ EXCEPT !.result = result, !.artifact = artifact,
                                            !.publish = job]]

-----------------------------------------------------------------------------
(* POST submit: SubmitFiscalDocumentService.execute.  Requests that are      *)
(* refused, or find a terminal submission, change nothing and are left out.  *)

SubmitRead(c) ==
    /\ pc[c] = "idle"
    /\ Spend("submit")
    /\ connected
    /\ row.status \notin Terminal
    /\ document = "READY_TO_SUBMIT"
    /\ pc' = [pc EXCEPT ![c] = IF row.status = None THEN "create" ELSE "mark"]
    /\ mem' = [mem EXCEPT ![c].seen = row.status]
    /\ UNCHANGED <<row, document, evidence, hooks, connected, queue, slot, hacienda>>

\* createOrLoadSubmission: the unique constraint lets one create through.
SubmitCreate(c) ==
    /\ pc[c] = "create"
    /\ row' = IF row.status = None
              THEN [row EXCEPT !.status = "REQUESTED", !.due = TRUE]
              ELSE row
    /\ pc' = [pc EXCEPT ![c] = "mark"]
    /\ mem' = [mem EXCEPT ![c].seen = row'.status]
    /\ UNCHANGED <<document, evidence, hooks, connected, queue, slot, hacienda, spent>>

\* markQueuedWhenSafeToSubmit: an update by id alone, decided by the status read.
SubmitMark(c) ==
    LET job == JobNameForSubmissionStatus(mem[c].seen) IN
    /\ pc[c] = "mark"
    /\ row' = IF job = "SUBMIT" THEN [row EXCEPT !.status = "QUEUED", !.due = TRUE]
              ELSE row
    /\ IF job = None THEN Finish(c)
       ELSE /\ pc' = [pc EXCEPT ![c] = "publish"]
            /\ mem' = [mem EXCEPT ![c] = [NoMemory EXCEPT !.publish = job]]
    /\ UNCHANGED <<document, evidence, hooks, connected, queue, slot, hacienda, spent>>

-----------------------------------------------------------------------------
(* Signals: the reconcile endpoint and Hacienda's callback. *)

Signal ==
    /\ Spend("signal")
    /\ row' = [row EXCEPT !.due = TRUE]
    /\ PublishUnkeyed("RECONCILE")
    /\ UNCHANGED <<document, evidence, hooks, connected, hacienda, pc, mem>>

RequestReconciliation ==
    /\ row.status \notin Terminal \cup {None}
    /\ Signal

\* The callback only excludes the two verdicts, and never changes the status.
HandleCallback ==
    /\ row.status \notin Verdicts \cup {None}
    /\ Signal

-----------------------------------------------------------------------------
(* handleSubmitJob *)

\* Variants of ClaimableStatuses: the claim takes over a submission in flight; the
\* claim does not look at the status.
ClaimableInFlight == {"QUEUED", "TECHNICAL_RETRY_PENDING", "SUBMITTING"}
ClaimableAlways == Statuses

ClaimableStatuses == {"QUEUED", "TECHNICAL_RETRY_PENDING"}

\* The claim is one conditional update; a job that loses it completes.
ClaimSubmission(w) ==
    /\ pc[w] = "idle"
    /\ queue["SUBMIT"] > 0
    /\ queue' = [queue EXCEPT !["SUBMIT"] = @ - 1]
    /\ \/ /\ row.status \in ClaimableStatuses
          /\ row' = [row EXCEPT !.status = "SUBMITTING", !.fresh = TRUE]
          /\ pc' = [pc EXCEPT ![w] = "load"]
          /\ mem' = [mem EXCEPT ![w].work = "SUBMIT"]
       \/ /\ row.status \notin ClaimableStatuses
          /\ UNCHANGED <<row, pc, mem>>
    /\ UNCHANGED <<document, evidence, hooks, connected, slot, hacienda, spent>>

\* loadContext: without a CONNECTED connection the row goes to manual review.
LoadContext(w) ==
    /\ pc[w] = "load"
    /\ \/ /\ connected
          /\ pc' = [pc EXCEPT ![w] = "send"]
          /\ UNCHANGED mem
       \/ /\ ~connected
          /\ BeginApply(w, "MANUAL_REVIEW_REQUIRED", FALSE, None)
    /\ UNCHANGED <<row, document, evidence, hooks, connected, queue, slot, hacienda, spent>>

\* Variants of Answer: a 201 is taken for acceptance, a 4xx for rejection, an
\* unknown outcome for a failure to retry.
AnswerAccepts(w, result) ==
    BeginApply(w, IF result = "ACKNOWLEDGED" THEN "ACCEPTED" ELSE result, FALSE,
               ScheduledJob(result))
AnswerRejects(w, result) ==
    BeginApply(w, IF result = "MANUAL_REVIEW_REQUIRED" THEN "REJECTED" ELSE result,
               FALSE, ScheduledJob(result))
AnswerRetries(w, result) ==
    LET retried == IF result = "POST_OUTCOME_UNKNOWN" THEN "TECHNICAL_RETRY_PENDING"
                   ELSE result
    IN  BeginApply(w, retried, FALSE, ScheduledJob(retried))

Answer(w, result) == BeginApply(w, result, FALSE, ScheduledJob(result))

Received == IF hacienda = "none" THEN "received" ELSE hacienda

\* The POST as the contract documents it: 201, or 400 for a clave already held.
PostAnswered(w) ==
    /\ pc[w] \in {"send", "resend"}
    /\ \/ /\ hacienda' = Received
          /\ Answer(w, "ACKNOWLEDGED")
       \/ /\ hacienda # "none"
          /\ hacienda' = hacienda
          /\ Answer(w, "MANUAL_REVIEW_REQUIRED")
    /\ UNCHANGED <<row, document, evidence, hooks, connected, queue, slot, spent>>

\* Other answers: 5xx, no answer or an undocumented 2xx leave the outcome unknown;
\* 429 is retryable, any other 4xx needs review, and neither takes the document.
PostAnsweredBadly(w) ==
    /\ pc[w] \in {"send", "resend"}
    /\ Spend("post")
    /\ \/ /\ hacienda' \in {hacienda, Received}
          /\ Answer(w, "POST_OUTCOME_UNKNOWN")
       \/ /\ hacienda' = hacienda
          /\ \E result \in {"TECHNICAL_RETRY_PENDING", "MANUAL_REVIEW_REQUIRED"} :
                Answer(w, result)
    /\ UNCHANGED <<row, document, evidence, hooks, connected, queue, slot>>

\* 401: authenticate and POST once more; a second 401 is an ordinary retry.
PostTokenExpired(w) ==
    /\ Spend("post")
    /\ \/ /\ pc[w] = "send"
          /\ pc' = [pc EXCEPT ![w] = "resend"]
          /\ UNCHANGED mem
       \/ /\ pc[w] = "resend"
          /\ Answer(w, "TECHNICAL_RETRY_PENDING")
    /\ UNCHANGED <<row, document, evidence, hooks, connected, queue, slot, hacienda>>

-----------------------------------------------------------------------------
(* handleReconcileJob *)

TakeReconcileJob(w) ==
    /\ pc[w] = "idle"
    /\ queue["RECONCILE"] > 0
    /\ queue' = [queue EXCEPT !["RECONCILE"] = @ - 1]
    /\ \/ /\ ~connected
          /\ pc' = [pc EXCEPT ![w] = "apply"]
          /\ mem' = [mem EXCEPT ![w] = [@ EXCEPT !.work = "RECONCILE",
                                                  !.result = "MANUAL_REVIEW_REQUIRED"]]
          /\ UNCHANGED row
       \/ /\ connected
          /\ row.status \in Terminal
          /\ UNCHANGED <<row, pc, mem>>
       \/ /\ connected
          /\ row.status \notin Terminal
          /\ row' = [row EXCEPT !.fresh = TRUE]
          /\ pc' = [pc EXCEPT ![w] = "query"]
          /\ mem' = [mem EXCEPT ![w].work = "RECONCILE"]
    /\ UNCHANGED <<document, evidence, hooks, connected, slot, hacienda, spent>>

\* GET by clave: 404 needs review, recibido/procesando is PROCESSING, and a
\* verdict comes with or without the response XML.
GetAnswered(w) ==
    /\ pc[w] = "query"
    /\ \/ /\ hacienda = "none"
          /\ Answer(w, "MANUAL_REVIEW_REQUIRED")
       \/ /\ hacienda = "received"
          /\ Answer(w, "PROCESSING")
       \/ /\ hacienda \in Verdicts
          /\ \E artifact \in BOOLEAN : BeginApply(w, hacienda, artifact, None)
    /\ UNCHANGED <<row, document, evidence, hooks, connected, queue, slot, hacienda, spent>>

\* 401 twice, 429, 5xx or no answer is retryable; an unknown status needs review.
GetAnsweredBadly(w) ==
    /\ pc[w] = "query"
    /\ Spend("get")
    /\ \E result \in {"TECHNICAL_RETRY_PENDING", "MANUAL_REVIEW_REQUIRED"} :
          Answer(w, result)
    /\ UNCHANGED <<row, document, evidence, hooks, connected, queue, slot, hacienda>>

-----------------------------------------------------------------------------
(* applyProviderResult, run by submit jobs, reconcile jobs and the sweep *)

AfterApply(a) ==
    IF mem[a].publish = None THEN Finish(a)
    ELSE /\ pc' = [pc EXCEPT ![a] = "publish"]
         /\ mem' = [mem EXCEPT ![a] = [NoMemory EXCEPT
                        !.work = mem[a].work, !.publish = mem[a].publish,
                        !.failing = mem[a].failing]]

\* Read the row and evaluate the transition from what was read.
ReadAndEvaluate(a) ==
    LET outcome == EvaluateTransition(row.status, mem[a].result) IN
    /\ pc[a] = "apply"
    /\ \/ /\ outcome = "APPLIED"
          /\ pc' = [pc EXCEPT ![a] = IF mem[a].artifact THEN "store" ELSE "commit"]
          /\ mem' = [mem EXCEPT ![a].response = row.response]
       \/ /\ outcome # "APPLIED"
          /\ AfterApply(a)
    /\ UNCHANGED <<row, document, evidence, hooks, connected, queue, slot, hacienda, spent>>

\* Variant of StoreResponseArtifact: the hook is scheduled before the transaction.
StoreAndNotify(a) ==
    /\ pc[a] = "store"
    /\ evidence' = evidence \cup {"object"}
    /\ hooks' = hooks \cup {mem[a].result}
    /\ pc' = [pc EXCEPT ![a] = "commit"]
    /\ UNCHANGED <<row, document, connected, queue, slot, hacienda, mem, spent>>

StoreResponseArtifact(a) ==
    /\ pc[a] = "store"
    /\ evidence' = evidence \cup {"object"}
    /\ pc' = [pc EXCEPT ![a] = "commit"]
    /\ UNCHANGED <<row, document, hooks, connected, queue, slot, hacienda, mem, spent>>

\* Statuses for which nextAttemptAt is set in the future rather than to null.
Delayed == Reconcilable \cup {"TECHNICAL_RETRY_PENDING"}

\* Variant of WrittenRow: without the guard of the update.
WrittenRowUnguarded(a) ==
    [row EXCEPT !.status = mem[a].result,
                !.due = mem[a].result \notin Delayed,
                !.response = mem[a].artifact \/ mem[a].response]

\* The row written by the transaction, unless the row is terminal by then.
WrittenRow(a) ==
    IF row.status \in Terminal THEN row
    ELSE [row EXCEPT !.status = mem[a].result,
                     !.due = mem[a].result \notin Delayed,
                     !.response = mem[a].artifact \/ mem[a].response]

\* Variants of WrittenDocument: a rejection is forgotten; every result is written.
WrittenIfAccepted(a) ==
    IF row.status \notin Terminal /\ mem[a].result = "ACCEPTED" /\ document \notin Terminal
    THEN mem[a].result ELSE document
WrittenAlways(a) ==
    IF row.status \notin Terminal /\ document \notin Terminal
    THEN mem[a].result ELSE document

\* The document written by the same transaction.
WrittenDocument(a) ==
    IF /\ row.status \notin Terminal
       /\ mem[a].result \in Verdicts
       /\ document \notin Terminal
    THEN mem[a].result ELSE document

\* After the transaction, even one that wrote nothing: audit, delivery hook.
Conclude(a) ==
    /\ hooks' = hooks \cup ({mem[a].result} \cap Verdicts)
    /\ AfterApply(a)

CommitResult(a) ==
    /\ pc[a] = "commit"
    /\ row' = WrittenRow(a)
    /\ document' = WrittenDocument(a)
    /\ IF mem[a].artifact
       THEN /\ pc' = [pc EXCEPT ![a] = "index"]
            /\ UNCHANGED <<mem, hooks>>
       ELSE Conclude(a)
    /\ UNCHANGED <<evidence, connected, queue, slot, hacienda, spent>>

\* ensureHaciendaResponseArtifact throws when neither index nor reference exists.
Indexable == "index" \in evidence \/ row.response

IndexResponseArtifact(a) ==
    /\ pc[a] = "index"
    /\ Indexable
    /\ evidence' = evidence \cup {"index"}
    /\ Conclude(a)
    /\ UNCHANGED <<row, document, connected, queue, slot, hacienda, spent>>

\* scheduleNext, publishSubmissionJob, and the publish of execute.
PublishNext(a) ==
    /\ pc[a] = "publish"
    /\ PublishKeyed(mem[a].publish)
    /\ Finish(a)
    /\ UNCHANGED <<row, document, evidence, hooks, connected, hacienda, spent>>

-----------------------------------------------------------------------------
(* enqueueDueWork, at startup and every minute *)

\* Variants of DueStatuses: the sweep leaves reconciliation, or polling, to the
\* scheduled jobs.
DueForSubmission == ClaimableStatuses
DueWithoutProcessing == ClaimableStatuses \cup {"ACKNOWLEDGED", "POST_OUTCOME_UNKNOWN"}

DueStatuses == ClaimableStatuses \cup Reconcilable

\* A due row is republished; a stale SUBMITTING row is first applied as a
\* technical retry, whatever became of its POST.
Sweep(s) ==
    /\ pc[s] = "idle"
    /\ \/ /\ row.status \in DueStatuses
          /\ row.due
          /\ pc' = [pc EXCEPT ![s] = "publish"]
          /\ mem' = [mem EXCEPT ![s].publish =
                        IF row.status \in Reconcilable THEN "RECONCILE" ELSE "SUBMIT"]
       \/ /\ row.status = "SUBMITTING"
          /\ ~row.fresh
          /\ BeginApply(s, "TECHNICAL_RETRY_PENDING", FALSE, "SUBMIT")
    /\ UNCHANGED <<row, document, evidence, hooks, connected, queue, slot, hacienda, spent>>

-----------------------------------------------------------------------------
(* Failures *)

\* The catch of handleSubmitJob: any exception after the claim, wherever the
\* POST stands, is applied as a technical retry.
HandleSubmitFailure(w) ==
    /\ mem[w].work = "SUBMIT"
    /\ ~mem[w].failing
    /\ Spend("local")
    /\ pc' = [pc EXCEPT ![w] = "apply"]
    /\ mem' = [mem EXCEPT ![w] = [NoMemory EXCEPT
                  !.work = "SUBMIT", !.result = "TECHNICAL_RETRY_PENDING",
                  !.publish = "SUBMIT", !.failing = TRUE]]
    /\ UNCHANGED <<row, document, evidence, hooks, connected, queue, slot, hacienda>>

\* The execution ends.  A job goes back to the queue, or its retries are used up.
Abandon(a) ==
    /\ Finish(a)
    /\ \/ /\ mem[a].work \in Jobs
          /\ queue' = [queue EXCEPT ![mem[a].work] = @ + 1]
       \/ UNCHANGED queue
    /\ UNCHANGED <<row, document, evidence, hooks, connected, slot, hacienda>>

\* An exception nobody catches: a reconcile job, the failure handler itself, the
\* sweep or a request.
Throw(a) ==
    /\ pc[a] # "idle"
    /\ mem[a].work = "SUBMIT" => mem[a].failing
    /\ Spend("local")
    /\ Abandon(a)

IndexMissing(a) ==
    /\ pc[a] = "index"
    /\ ~Indexable
    /\ Abandon(a)
    /\ UNCHANGED spent

Crash(a) ==
    /\ pc[a] # "idle"
    /\ Spend("crash")
    /\ Abandon(a)

-----------------------------------------------------------------------------
(* Environment *)

Decide ==
    /\ hacienda = "received"
    /\ hacienda' \in Verdicts
    /\ UNCHANGED <<row, document, evidence, hooks, connected, queue, slot, pc, mem, spent>>

ChangeConnection ==
    /\ Spend("connection")
    /\ connected' = ~connected
    /\ UNCHANGED <<row, document, evidence, hooks, queue, slot, hacienda, pc, mem>>

\* The singleton slot of a key ends.
SlotEnds(job) ==
    /\ slot[job]
    /\ queue[job] < MaxPending
    /\ slot' = [slot EXCEPT ![job] = FALSE]
    /\ UNCHANGED <<row, document, evidence, hooks, connected, queue, hacienda, pc, mem, spent>>

\* nextAttemptAt passes.
BecomeDue ==
    /\ row.status \in DueStatuses
    /\ ~row.due
    /\ row' = [row EXCEPT !.due = TRUE]
    /\ UNCHANGED <<document, evidence, hooks, connected, queue, slot, hacienda, pc, mem, spent>>

\* lastAttemptAt becomes more than five minutes old.
LeaseEnds ==
    /\ row.status = "SUBMITTING"
    /\ row.fresh
    /\ LeaseOutlivesWorkers => \A w \in Workers : mem[w].work # "SUBMIT"
    /\ row' = [row EXCEPT !.fresh = FALSE]
    /\ UNCHANGED <<document, evidence, hooks, connected, queue, slot, hacienda, pc, mem, spent>>

-----------------------------------------------------------------------------
(* The specification *)

\* A document with its signed XML and no submission, or one superseded earlier.
Init ==
    /\ \/ /\ document = "READY_TO_SUBMIT"
          /\ row = [status |-> None, due |-> FALSE, fresh |-> FALSE, response |-> FALSE]
       \/ /\ document = "SUPERSEDED"
          /\ row = [status |-> "SUPERSEDED", due |-> FALSE, fresh |-> FALSE,
                    response |-> FALSE]
    /\ evidence = {}
    /\ hooks = {}
    /\ connected = TRUE
    /\ queue = [job \in Jobs |-> 0]
    /\ slot = [job \in Jobs |-> FALSE]
    /\ hacienda = "none"
    /\ pc = [a \in Actors |-> "idle"]
    /\ mem = [a \in Actors |-> NoMemory]
    /\ spent = [kind \in Disturbances |-> 0]

ApplyStep(a) ==
    \/ ReadAndEvaluate(a)
    \/ StoreResponseArtifact(a)
    \/ CommitResult(a)
    \/ IndexResponseArtifact(a)
    \/ PublishNext(a)

ClientStep(c) == SubmitCreate(c) \/ SubmitMark(c) \/ ApplyStep(c)

WorkerStep(w) ==
    \/ ClaimSubmission(w)
    \/ LoadContext(w)
    \/ PostAnswered(w)
    \/ TakeReconcileJob(w)
    \/ GetAnswered(w)
    \/ ApplyStep(w)
    \/ IndexMissing(w)

SweeperStep(s) == Sweep(s) \/ ApplyStep(s)

TimeStep == Decide \/ BecomeDue \/ LeaseEnds \/ \E job \in Jobs : SlotEnds(job)

Disturbance ==
    \/ \E c \in Clients : SubmitRead(c)
    \/ RequestReconciliation
    \/ HandleCallback
    \/ ChangeConnection
    \/ \E w \in Workers : PostAnsweredBadly(w) \/ PostTokenExpired(w)
                             \/ GetAnsweredBadly(w) \/ HandleSubmitFailure(w)
    \/ \E a \in Actors : Throw(a) \/ Crash(a)

Next ==
    \/ \E c \in Clients : ClientStep(c)
    \/ \E w \in Workers : WorkerStep(w)
    \/ \E s \in Sweepers : SweeperStep(s)
    \/ TimeStep
    \/ Disturbance

Spec == Init /\ [][Next]_vars

\* Executions that have begun go on, queued jobs are taken, the sweep runs, time
\* passes and Hacienda decides.  Disturbances are never owed.
Fairness ==
    /\ \A c \in Clients : WF_vars(ClientStep(c))
    /\ \A w \in Workers : WF_vars(WorkerStep(w))
    /\ \A s \in Sweepers : WF_vars(SweeperStep(s))
    /\ WF_vars(Decide)
    /\ WF_vars(BecomeDue)
    /\ WF_vars(LeaseEnds)
    /\ \A job \in Jobs : WF_vars(SlotEnds(job))

FairSpec == Spec /\ Fairness

-----------------------------------------------------------------------------
(* Correctness *)

\* A document is ACCEPTED or REJECTED only if Hacienda said so: no timeout, 2xx,
\* retry, crash or stale worker can make up an outcome.
AuthoritativeOutcome ==
    document \in Verdicts => document = hacienda

\* A submission row that shows a verdict belongs to a document that shows the same
\* one, although the two rows are written under separate guards.
RowImpliesDocument ==
    row.status \in Verdicts => document = row.status

\* The delivery of Hacienda's response is never started before the verdict it
\* announces is committed on the document, also when the transaction wrote nothing.
HooksFollowCommit ==
    \A verdict \in hooks : document = verdict

-----------------------------------------------------------------------------
(* The inductive invariant behind the three properties above *)

\* A verdict on its way to the rows is the one Hacienda holds.
PendingVerdictIsHeld ==
    \A a \in Actors :
        /\ mem[a].result # "SUPERSEDED"
        /\ mem[a].result \in Verdicts => hacienda = mem[a].result

\* A superseded submission was superseded before anybody worked on it: no request
\* past its read, no result past its evaluation.
SupersededIsInert ==
    "SUPERSEDED" \in {row.status, document} =>
        /\ row.status = "SUPERSEDED"
        /\ document = "SUPERSEDED"
        /\ \A a \in Actors : pc[a] \notin {"create", "mark", "store", "commit", "index"}

\* Indexing the response of a verdict follows the commit of that verdict.
IndexFollowsCommit ==
    \A a \in Actors :
        pc[a] = "index" /\ mem[a].result \in Verdicts => document = mem[a].result

OutcomeInv ==
    /\ TypeOK
    /\ AuthoritativeOutcome
    /\ RowImpliesDocument
    /\ HooksFollowCommit
    /\ PendingVerdictIsHeld
    /\ SupersededIsInert
    /\ IndexFollowsCommit

-----------------------------------------------------------------------------
\* The submission subsystem implements the abstract outcome of a document.
Outcome == INSTANCE FiscalOutcome
    WITH authority <- hacienda,
         outcome <- IF document = "READY_TO_SUBMIT" THEN "open" ELSE document

OutcomeRefinement == Outcome!Spec

\* A terminal submission keeps its status whatever stale job, sweep, callback or
\* request is still running.
TerminalIsFinal ==
    [][row.status \in Terminal => row'.status = row.status]_vars

\* The reference to Hacienda's response is never lost again, although every result
\* writes back the reference it read before the transaction.
ResponseIsKept ==
    [][row.response => row'.response]_vars

\* The document shows a verdict exactly when its submission row does: the two are
\* written in one transaction and never drift apart afterwards.
VerdictsAgree ==
    /\ row.status \in Verdicts => document = row.status
    /\ document \in Verdicts => row.status = document

\* At most one worker holds the claim with its POST still to be answered, so
\* duplicate jobs do not become concurrent POSTs.
ClaimIsExclusive ==
    Cardinality({w \in Workers : pc[w] \in {"load", "send", "resend"}}) <= 1

\* No worker is about to POST a document that Hacienda already holds.
NoRepost ==
    \A w \in Workers : pc[w] \in {"send", "resend"} => hacienda = "none"

\* Every change of the row's status is one the transition table allows, or the
\* creation of the row, or the claim of a row pending technical retry.
StatusFollowsTable ==
    [][ \/ row.status = None
        \/ CanTransition(row.status, row'.status)
        \/ row.status = "TECHNICAL_RETRY_PENDING" /\ row'.status = "SUBMITTING" ]_vars

\* Work that was queued is not lost: crashes, lost jobs, dropped publications and
\* failed polls end in a verdict or with an operator.
QueuedWorkEnds ==
    row.status \in DueStatuses \cup {"SUBMITTING"}
        ~> row.status \in Terminal \cup {"MANUAL_REVIEW_REQUIRED"}

\* What Hacienda decided is eventually recorded on the document.
VerdictIsRecorded ==
    hacienda \in Verdicts ~> document \in Verdicts

=============================================================================
