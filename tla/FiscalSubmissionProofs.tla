----------------------- MODULE FiscalSubmissionProofs -----------------------
(***************************************************************************)
(* Proofs about FiscalSubmission, for any sets of clients, workers and     *)
(* sweepers and any number of disturbances.                                *)
(***************************************************************************)
EXTENDS FiscalSubmission, TLAPS

\* An actor that begins to apply a result keeps its bookkeeping well typed.
LEMMA BeginApplyType ==
    ASSUME TypeOK, NEW a \in Actors, NEW result \in Statuses,
           NEW artifact \in BOOLEAN, NEW job \in Jobs \cup {None},
           BeginApply(a, result, artifact, job)
    PROVE  /\ pc' \in [Actors -> Labels]
           /\ mem' \in [Actors -> Memory]
BY ZenonT(60) DEF TypeOK, BeginApply, Labels, Memory

\* A finished handler is idle and holds nothing.
LEMMA FinishType ==
    ASSUME TypeOK, NEW a \in Actors, Finish(a)
    PROVE  /\ pc' \in [Actors -> Labels]
           /\ mem' \in [Actors -> Memory]
BY DEF TypeOK, Finish, Labels, Memory, NoMemory, None

\* After applyProviderResult an actor is done or has one job left to publish.
LEMMA AfterApplyType ==
    ASSUME TypeOK, NEW a \in Actors, AfterApply(a)
    PROVE  /\ pc' \in [Actors -> Labels]
           /\ mem' \in [Actors -> Memory]
<1>1. CASE mem[a].publish = None
  BY <1>1, FinishType DEF AfterApply
<1>2. CASE mem[a].publish # None
  <2>1. mem[a] \in Memory
    BY DEF TypeOK
  <2>2. [NoMemory EXCEPT !.work = mem[a].work, !.publish = mem[a].publish,
                         !.failing = mem[a].failing] \in Memory
    BY <2>1 DEF Memory, NoMemory, None
  <2> QED
    BY <1>2, <2>2 DEF TypeOK, AfterApply, Labels
<1> QED
  BY <1>1, <1>2

\* A publication adds one job or is dropped, and only ever takes a slot.
LEMMA PublishKeyedType ==
    ASSUME TypeOK, NEW job \in Jobs \cup {None}, PublishKeyed(job)
    PROVE  /\ queue' \in [Jobs -> Nat]
           /\ slot' \in [Jobs -> BOOLEAN]
<1>1. CASE /\ job \in Jobs
            /\ queue' = [queue EXCEPT ![job] = @ + 1]
            /\ slot' = [slot EXCEPT ![job] = TRUE]
  <2>1. queue' \in [Jobs -> Nat]
    BY <1>1 DEF TypeOK
  <2>2. slot' \in [Jobs -> BOOLEAN]
    BY <1>1 DEF TypeOK
  <2> QED
    BY <2>1, <2>2
<1>2. CASE UNCHANGED <<queue, slot>>
  BY <1>2 DEF TypeOK
<1> QED
  BY <1>1, <1>2 DEF PublishKeyed

\* Counting a disturbance keeps the counters natural numbers.
LEMMA SpendType ==
    ASSUME TypeOK, NEW kind \in Disturbances, Spend(kind)
    PROVE  spent' \in [Disturbances -> Nat]
BY DEF TypeOK, Spend

-----------------------------------------------------------------------------
(* Type correctness, one lemma per group of actions *)

\* The three steps of a submit request keep the types.
LEMMA ClientType ==
    ASSUME TypeOK, NEW c \in Clients,
           SubmitRead(c) \/ SubmitCreate(c) \/ SubmitMark(c)
    PROVE  TypeOK'
<1>0. c \in Actors /\ "submit" \in Disturbances
  BY DEF Actors, Disturbances
<1>1. CASE SubmitRead(c)
  <2>1. spent' \in [Disturbances -> Nat]
    BY <1>0, <1>1, SpendType DEF SubmitRead
  <2> QED
    BY <1>0, <1>1, <2>1, SMTT(30) DEF TypeOK, SubmitRead, Labels, Memory, Row
<1>2. CASE SubmitCreate(c)
  <2>1. row' \in Row
    BY <1>2 DEF TypeOK, SubmitCreate, Row, Statuses
  <2>2. row'.status \in Statuses \cup {None}
    BY <2>1 DEF Row
  <2>3. mem' \in [Actors -> Memory]
    <3>1. [mem[c] EXCEPT !.seen = row'.status] \in Memory
      BY <1>0, <2>2 DEF TypeOK, Memory
    <3> QED
      BY <1>0, <1>2, <3>1 DEF TypeOK, SubmitCreate
  <2> QED
    BY <1>0, <1>2, <2>1, <2>3 DEF TypeOK, SubmitCreate, Labels
<1>3. CASE SubmitMark(c)
  <2> DEFINE job == JobNameForSubmissionStatus(mem[c].seen)
  <2>1. job \in Jobs \cup {None}
    BY DEF JobNameForSubmissionStatus, Jobs
  <2>2. row' \in Row
    BY <1>3 DEF TypeOK, SubmitMark, Row, Statuses
  <2>3. pc' \in [Actors -> Labels] /\ mem' \in [Actors -> Memory]
    <3>1. CASE job = None
      BY <1>0, <1>3, <3>1, FinishType DEF SubmitMark
    <3>2. CASE job # None
      <4>1. [NoMemory EXCEPT !.publish = job] \in Memory
        BY <2>1 DEF NoMemory, Memory, None
      <4> QED
        BY <1>0, <1>3, <3>2, <4>1 DEF TypeOK, SubmitMark, Labels
    <3> QED
      BY <3>1, <3>2
  <2> QED
    BY <1>3, <2>2, <2>3 DEF TypeOK, SubmitMark
<1> QED
  BY <1>1, <1>2, <1>3

\* The reconcile endpoint and the callback keep the types.
LEMMA SignalType ==
    ASSUME TypeOK, RequestReconciliation \/ HandleCallback
    PROVE  TypeOK'
<1>1. Signal
  BY DEF RequestReconciliation, HandleCallback
<1>2. spent' \in [Disturbances -> Nat]
  BY <1>1, SpendType DEF Signal, Disturbances
<1>3. row' \in Row
  BY <1>1 DEF TypeOK, Signal, Row
<1>4. queue' \in [Jobs -> Nat] /\ slot' \in [Jobs -> BOOLEAN]
  BY <1>1 DEF TypeOK, Signal, PublishUnkeyed, Jobs
<1> QED
  BY <1>1, <1>2, <1>3, <1>4 DEF TypeOK, Signal

\* Every step of handleSubmitJob up to the provider's answer keeps the types.
LEMMA SubmitJobType ==
    ASSUME TypeOK, NEW w \in Workers,
           \/ ClaimSubmission(w) \/ LoadContext(w) \/ PostAnswered(w)
           \/ PostAnsweredBadly(w) \/ PostTokenExpired(w)
    PROVE  TypeOK'
<1>0. w \in Actors
  BY DEF Actors
<1>1. CASE ClaimSubmission(w)
  <2>1. queue' \in [Jobs -> Nat]
    BY <1>1 DEF TypeOK, ClaimSubmission, Jobs
  <2>2. row' \in Row
    BY <1>1 DEF TypeOK, ClaimSubmission, Row, Statuses
  <2>3. pc' \in [Actors -> Labels] /\ mem' \in [Actors -> Memory]
    BY <1>0, <1>1 DEF TypeOK, ClaimSubmission, Labels, Memory, Jobs
  <2> QED
    BY <1>1, <2>1, <2>2, <2>3 DEF TypeOK, ClaimSubmission
<1>2. ASSUME NEW result \in Statuses, Answer(w, result)
      PROVE  pc' \in [Actors -> Labels] /\ mem' \in [Actors -> Memory]
  <2>1. ScheduledJob(result) \in Jobs \cup {None}
    BY DEF ScheduledJob, Jobs
  <2> QED
    BY <1>0, <1>2, <2>1, BeginApplyType DEF Answer
<1>3. {"MANUAL_REVIEW_REQUIRED", "ACKNOWLEDGED", "POST_OUTCOME_UNKNOWN",
       "TECHNICAL_RETRY_PENDING"} \subseteq Statuses
  BY DEF Statuses
<1>4. CASE LoadContext(w)
  <2>1. pc' \in [Actors -> Labels] /\ mem' \in [Actors -> Memory]
    BY <1>0, <1>3, <1>4, BeginApplyType DEF TypeOK, LoadContext, Labels
  <2> QED
    BY <1>4, <2>1 DEF TypeOK, LoadContext
<1>5. CASE PostAnswered(w)
  <2>1. pc' \in [Actors -> Labels] /\ mem' \in [Actors -> Memory]
    BY <1>2, <1>3, <1>5 DEF PostAnswered
  <2> QED
    BY <1>5, <2>1 DEF TypeOK, PostAnswered, Received
<1>6. CASE PostAnsweredBadly(w)
  <2>1. pc' \in [Actors -> Labels] /\ mem' \in [Actors -> Memory]
    BY <1>2, <1>3, <1>6 DEF PostAnsweredBadly
  <2>2. spent' \in [Disturbances -> Nat]
    BY <1>6, SpendType DEF PostAnsweredBadly, Disturbances
  <2> QED
    BY <1>6, <2>1, <2>2 DEF TypeOK, PostAnsweredBadly, Received
<1>7. CASE PostTokenExpired(w)
  <2>1. pc' \in [Actors -> Labels] /\ mem' \in [Actors -> Memory]
    BY <1>0, <1>2, <1>3, <1>7 DEF TypeOK, PostTokenExpired, Labels
  <2>2. spent' \in [Disturbances -> Nat]
    BY <1>7, SpendType DEF PostTokenExpired, Disturbances
  <2> QED
    BY <1>7, <2>1, <2>2 DEF TypeOK, PostTokenExpired
<1> QED
  BY <1>1, <1>4, <1>5, <1>6, <1>7

\* Every step of handleReconcileJob up to the answer keeps the types.
LEMMA ReconcileJobType ==
    ASSUME TypeOK, NEW w \in Workers,
           TakeReconcileJob(w) \/ GetAnswered(w) \/ GetAnsweredBadly(w)
    PROVE  TypeOK'
<1>0. w \in Actors
  BY DEF Actors
<1>1. CASE TakeReconcileJob(w)
  <2>1. queue' \in [Jobs -> Nat]
    BY <1>1 DEF TypeOK, TakeReconcileJob, Jobs
  <2>2. row' \in Row
    BY <1>1 DEF TypeOK, TakeReconcileJob, Row
  <2>3. pc' \in [Actors -> Labels]
    BY <1>0, <1>1 DEF TypeOK, TakeReconcileJob, Labels
  <2>4. mem' \in [Actors -> Memory]
    <3>0. mem[w] \in Memory
      BY <1>0 DEF TypeOK
    <3>1. [mem[w] EXCEPT !.work = "RECONCILE", !.result = "MANUAL_REVIEW_REQUIRED"]
             \in Memory
      BY <3>0 DEF Memory, Jobs, Statuses
    <3>2. [mem[w] EXCEPT !.work = "RECONCILE"] \in Memory
      BY <3>0 DEF Memory, Jobs
    <3> QED
      BY <1>0, <1>1, <3>1, <3>2 DEF TypeOK, TakeReconcileJob
  <2> QED
    BY <1>1, <2>1, <2>2, <2>3, <2>4 DEF TypeOK, TakeReconcileJob
<1>2. ASSUME NEW result \in Statuses, Answer(w, result)
      PROVE  pc' \in [Actors -> Labels] /\ mem' \in [Actors -> Memory]
  <2>1. ScheduledJob(result) \in Jobs \cup {None}
    BY DEF ScheduledJob, Jobs
  <2> QED
    BY <1>0, <1>2, <2>1, BeginApplyType DEF Answer
<1>3. {"MANUAL_REVIEW_REQUIRED", "PROCESSING", "TECHNICAL_RETRY_PENDING"}
         \cup Verdicts \subseteq Statuses
  BY DEF Statuses, Verdicts
<1>4. CASE GetAnswered(w)
  <2>1. pc' \in [Actors -> Labels] /\ mem' \in [Actors -> Memory]
    <3>1. CASE hacienda \in Verdicts
               /\ \E artifact \in BOOLEAN : BeginApply(w, hacienda, artifact, None)
      BY <1>0, <1>3, <3>1, BeginApplyType
    <3>2. CASE Answer(w, "MANUAL_REVIEW_REQUIRED") \/ Answer(w, "PROCESSING")
      BY <1>2, <1>3, <3>2
    <3> QED
      BY <1>4, <3>1, <3>2 DEF GetAnswered
  <2> QED
    BY <1>4, <2>1 DEF TypeOK, GetAnswered
<1>5. CASE GetAnsweredBadly(w)
  <2>1. pc' \in [Actors -> Labels] /\ mem' \in [Actors -> Memory]
    BY <1>2, <1>3, <1>5 DEF GetAnsweredBadly
  <2>2. spent' \in [Disturbances -> Nat]
    BY <1>5, SpendType DEF GetAnsweredBadly, Disturbances
  <2> QED
    BY <1>5, <2>1, <2>2 DEF TypeOK, GetAnsweredBadly
<1> QED
  BY <1>1, <1>4, <1>5

\* applyProviderResult and the publication after it keep the types.
LEMMA ApplyType ==
    ASSUME TypeOK, NEW a \in Actors, ApplyStep(a)
    PROVE  TypeOK'
<1>1. CASE ReadAndEvaluate(a)
  <2>1. pc' \in [Actors -> Labels] /\ mem' \in [Actors -> Memory]
    <3>1. CASE AfterApply(a)
      BY <3>1, AfterApplyType
    <3>2. CASE /\ pc' = [pc EXCEPT ![a] = IF mem[a].artifact THEN "store" ELSE "commit"]
               /\ mem' = [mem EXCEPT ![a].response = row.response]
      BY <3>2, SMTT(30) DEF TypeOK, Labels, Memory, Row
    <3> QED
      BY <1>1, <3>1, <3>2 DEF ReadAndEvaluate
  <2> QED
    BY <1>1, <2>1 DEF TypeOK, ReadAndEvaluate
<1>2. CASE StoreResponseArtifact(a)
  BY <1>2 DEF TypeOK, StoreResponseArtifact, Labels
<1>3. ASSUME Conclude(a)
      PROVE  /\ pc' \in [Actors -> Labels]
             /\ mem' \in [Actors -> Memory]
             /\ hooks' \in SUBSET Verdicts
  BY <1>3, AfterApplyType DEF TypeOK, Conclude
<1>4. CASE CommitResult(a)
  <2>1. row' \in Row
    BY <1>4 DEF TypeOK, CommitResult, WrittenRow, Row, Memory
  <2>2. document' \in DocumentStatuses
    BY <1>4 DEF TypeOK, CommitResult, WrittenDocument, DocumentStatuses, Terminal
  <2>3. /\ pc' \in [Actors -> Labels]
        /\ mem' \in [Actors -> Memory]
        /\ hooks' \in SUBSET Verdicts
    <3>1. CASE mem[a].artifact
      BY <1>4, <3>1 DEF TypeOK, CommitResult, Labels
    <3>2. CASE ~mem[a].artifact
      BY <1>3, <1>4, <3>2 DEF CommitResult
    <3> QED
      BY <3>1, <3>2
  <2> QED
    BY <1>4, <2>1, <2>2, <2>3 DEF TypeOK, CommitResult
<1>5. CASE IndexResponseArtifact(a)
  BY <1>3, <1>5 DEF TypeOK, IndexResponseArtifact
<1>6. CASE PublishNext(a)
  <2>1. mem[a].publish \in Jobs \cup {None}
    BY DEF TypeOK, Memory
  <2>2. queue' \in [Jobs -> Nat] /\ slot' \in [Jobs -> BOOLEAN]
    BY <1>6, <2>1, PublishKeyedType DEF PublishNext
  <2>3. pc' \in [Actors -> Labels] /\ mem' \in [Actors -> Memory]
    BY <1>6, FinishType DEF PublishNext
  <2> QED
    BY <1>6, <2>2, <2>3 DEF TypeOK, PublishNext
<1> QED
  BY <1>1, <1>2, <1>4, <1>5, <1>6 DEF ApplyStep

\* enqueueDueWork keeps the types.
LEMMA SweepType ==
    ASSUME TypeOK, NEW s \in Sweepers, Sweep(s)
    PROVE  TypeOK'
<1>0. s \in Actors
  BY DEF Actors
<1>1. pc' \in [Actors -> Labels] /\ mem' \in [Actors -> Memory]
  <2>1. CASE BeginApply(s, "TECHNICAL_RETRY_PENDING", FALSE, "SUBMIT")
    BY <1>0, <2>1, BeginApplyType DEF Statuses, Jobs
  <2>2. CASE /\ pc' = [pc EXCEPT ![s] = "publish"]
             /\ mem' = [mem EXCEPT ![s].publish =
                          IF row.status \in Reconcilable THEN "RECONCILE" ELSE "SUBMIT"]
    BY <1>0, <2>2 DEF TypeOK, Labels, Memory, Jobs
  <2> QED
    BY <2>1, <2>2 DEF Sweep
<1> QED
  BY <1>1 DEF TypeOK, Sweep

\* Failures, crashes and a missing response reference keep the types.
LEMMA FailureType ==
    ASSUME TypeOK, NEW a \in Actors,
           HandleSubmitFailure(a) \/ Throw(a) \/ Crash(a) \/ IndexMissing(a)
    PROVE  TypeOK'
<1>1. ASSUME Abandon(a)
      PROVE  /\ queue' \in [Jobs -> Nat]
             /\ pc' \in [Actors -> Labels]
             /\ mem' \in [Actors -> Memory]
  BY <1>1, FinishType DEF TypeOK, Abandon
<1>2. CASE HandleSubmitFailure(a)
  <2>1. spent' \in [Disturbances -> Nat]
    BY <1>2, SpendType DEF HandleSubmitFailure, Disturbances
  <2>2. [NoMemory EXCEPT !.work = "SUBMIT", !.result = "TECHNICAL_RETRY_PENDING",
                         !.publish = "SUBMIT", !.failing = TRUE] \in Memory
    BY DEF NoMemory, Memory, Jobs, Statuses, None
  <2> QED
    BY <1>2, <2>1, <2>2 DEF TypeOK, HandleSubmitFailure, Labels
<1>3. CASE Throw(a)
  <2>1. spent' \in [Disturbances -> Nat]
    BY <1>3, SpendType DEF Throw, Disturbances
  <2> QED
    BY <1>1, <1>3, <2>1 DEF TypeOK, Throw, Abandon
<1>4. CASE Crash(a)
  <2>1. spent' \in [Disturbances -> Nat]
    BY <1>4, SpendType DEF Crash, Disturbances
  <2> QED
    BY <1>1, <1>4, <2>1 DEF TypeOK, Crash, Abandon
<1>5. CASE IndexMissing(a)
  BY <1>1, <1>5 DEF TypeOK, IndexMissing, Abandon
<1> QED
  BY <1>2, <1>3, <1>4, <1>5

\* Time, Hacienda and connection changes keep the types.
LEMMA EnvironmentType ==
    ASSUME TypeOK, TimeStep \/ ChangeConnection
    PROVE  TypeOK'
<1>1. CASE Decide
  BY <1>1 DEF TypeOK, Decide
<1>2. CASE BecomeDue
  BY <1>2 DEF TypeOK, BecomeDue, Row
<1>3. CASE LeaseEnds
  BY <1>3 DEF TypeOK, LeaseEnds, Row
<1>4. CASE \E job \in Jobs : SlotEnds(job)
  <2>1. slot' \in [Jobs -> BOOLEAN]
    BY <1>4 DEF TypeOK, SlotEnds
  <2> QED
    BY <1>4, <2>1 DEF TypeOK, SlotEnds
<1>5. CASE ChangeConnection
  <2>1. spent' \in [Disturbances -> Nat]
    BY <1>5, SpendType DEF ChangeConnection, Disturbances
  <2> QED
    BY <1>5, <2>1 DEF TypeOK, ChangeConnection
<1> QED
  BY <1>1, <1>2, <1>3, <1>4, <1>5 DEF TimeStep

\* The initial state is well typed.
LEMMA InitType ==
    ASSUME Init PROVE TypeOK
<1>0. "SUPERSEDED" \in Statuses
  BY DEF Statuses
<1>1. row \in Row /\ document \in DocumentStatuses
  <2>1. \A status \in Statuses \cup {None} :
           [status |-> status, due |-> FALSE, fresh |-> FALSE, response |-> FALSE] \in Row
    BY DEF Row
  <2>2. row \in Row
    BY <1>0, <2>1 DEF Init
  <2> QED
    BY <2>2 DEF Init, DocumentStatuses, Terminal
<1>2. NoMemory \in Memory
  BY DEF Memory, NoMemory, None
<1>3. mem \in [Actors -> Memory] /\ pc \in [Actors -> Labels]
  BY <1>2 DEF Init, Labels
<1>4. queue \in [Jobs -> Nat] /\ spent \in [Disturbances -> Nat]
  BY DEF Init
<1>5. slot \in [Jobs -> BOOLEAN]
  BY DEF Init
<1> QED
  BY <1>1, <1>3, <1>4, <1>5 DEF Init, TypeOK

\* Every step keeps the types.
LEMMA StepType ==
    ASSUME TypeOK, [Next]_vars PROVE TypeOK'
<1>1. CASE UNCHANGED vars
  BY <1>1 DEF vars, TypeOK
<1>2. ASSUME NEW c \in Clients, ClientStep(c) \/ SubmitRead(c) PROVE TypeOK'
  BY <1>2, ClientType, ApplyType DEF ClientStep, Actors
<1>3. ASSUME NEW w \in Workers, WorkerStep(w) PROVE TypeOK'
  BY <1>3, SubmitJobType, ReconcileJobType, ApplyType, FailureType
     DEF WorkerStep, Actors
<1>4. ASSUME NEW s \in Sweepers, SweeperStep(s) PROVE TypeOK'
  BY <1>4, SweepType, ApplyType DEF SweeperStep, Actors
<1>5. CASE TimeStep
  BY <1>5, EnvironmentType
<1>6. CASE Disturbance
  BY <1>2, <1>6, SignalType, EnvironmentType, SubmitJobType, ReconcileJobType,
     FailureType DEF Disturbance, Actors
<1> QED
  BY <1>1, <1>2, <1>3, <1>4, <1>5, <1>6 DEF Next

\* Every variable of the submission keeps its type: the document carries only the
\* three terminal statuses or READY_TO_SUBMIT, hooks name only verdicts, and no
\* handler leaves a label or a local variable the code does not have.
THEOREM TypeCorrect == Spec => []TypeOK
<1>1. Init => TypeOK
  BY InitType
<1>2. TypeOK /\ [Next]_vars => TypeOK'
  BY StepType
<1> QED
  BY <1>1, <1>2, PTL DEF Spec

-----------------------------------------------------------------------------
(* The outcome of the document *)

\* Nothing but SUPERSEDED follows SUPERSEDED, and nothing follows a verdict but
\* itself: the transition table lets a result through to a terminal row only if it
\* is the status the row has.
LEMMA TerminalIsLast ==
    ASSUME NEW from \in Terminal, NEW to, EvaluateTransition(from, to) = "APPLIED"
    PROVE  to = from
BY DEF EvaluateTransition, CanTransition, Successors, Statuses, Terminal, Verdicts

\* Neither the submission nor its document is superseded.
Live == "SUPERSEDED" \notin {row.status, document}

\* A step of one actor that writes neither the document nor a terminal status keeps
\* the invariant, if what it leaves in the actor's hands is allowed there.
LEMMA ActorStep ==
    ASSUME OutcomeInv, TypeOK', NEW a \in Actors,
           row'.status = row.status \/ (Live /\ row'.status \notin Terminal),
           UNCHANGED <<document, hooks>>,
           hacienda' = hacienda \/ (hacienda = "none" /\ hacienda' = "received"),
           \A b \in Actors \ {a} : pc'[b] = pc[b] /\ mem'[b] = mem[b],
           mem'[a].result # "SUPERSEDED",
           mem'[a].result \in Verdicts => hacienda' = mem'[a].result,
           pc'[a] # "index",
           pc'[a] \in {"create", "mark", "store", "commit"} => Live
    PROVE  OutcomeInv'
<1>1. AuthoritativeOutcome' /\ RowImpliesDocument' /\ HooksFollowCommit'
  BY DEF OutcomeInv, AuthoritativeOutcome, RowImpliesDocument, HooksFollowCommit,
         Verdicts, Terminal
<1>2. PendingVerdictIsHeld'
  BY DEF OutcomeInv, PendingVerdictIsHeld, Verdicts
<1>3. SupersededIsInert'
  BY DEF OutcomeInv, SupersededIsInert, Live, Terminal
<1>4. IndexFollowsCommit'
  BY DEF OutcomeInv, IndexFollowsCommit
<1> QED
  BY <1>1, <1>2, <1>3, <1>4 DEF OutcomeInv

\* What a step does to the result an actor holds, and where it leaves the actor.
Leaves(a, result, label) ==
    /\ \A b \in Actors \ {a} : pc'[b] = pc[b] /\ mem'[b] = mem[b]
    /\ pc'[a] = label
    /\ mem'[a].result = result

\* An actor that begins applyProviderResult holds the result to apply.
LEMMA BeginApplyLeaves ==
    ASSUME TypeOK, NEW a \in Actors, NEW result, NEW artifact, NEW job,
           BeginApply(a, result, artifact, job)
    PROVE  Leaves(a, result, "apply")
BY DEF TypeOK, BeginApply, Leaves, Memory

\* A finished actor holds no result.
LEMMA FinishLeaves ==
    ASSUME TypeOK, NEW a \in Actors, Finish(a)
    PROVE  Leaves(a, None, "idle")
BY DEF TypeOK, Finish, Leaves, NoMemory

\* An actor that has applied its result holds none any more.
LEMMA AfterApplyLeaves ==
    ASSUME TypeOK, NEW a \in Actors, AfterApply(a)
    PROVE  Leaves(a, None, "idle") \/ Leaves(a, None, "publish")
<1>1. CASE mem[a].publish = None
  BY <1>1, FinishLeaves DEF AfterApply
<1>2. CASE mem[a].publish # None
  BY <1>2, ZenonT(60) DEF TypeOK, AfterApply, Leaves, NoMemory
<1> QED
  BY <1>1, <1>2

\* A submit request touches no verdict: past its read the submission is live, and what
\* it writes is not terminal.
LEMMA ClientOutcome ==
    ASSUME OutcomeInv, TypeOK', NEW c \in Clients,
           SubmitRead(c) \/ SubmitCreate(c) \/ SubmitMark(c)
    PROVE  OutcomeInv'
<1>0. c \in Actors /\ TypeOK
  BY DEF Actors, OutcomeInv
<1>1. mem[c].result # "SUPERSEDED" /\ (mem[c].result \in Verdicts => hacienda = mem[c].result)
  BY <1>0 DEF OutcomeInv, PendingVerdictIsHeld
<1>2. CASE SubmitRead(c)
  <2>1. Live
    BY <1>2 DEF SubmitRead, Live, Terminal
  <2>2. \E label \in {"create", "mark"} : Leaves(c, mem[c].result, label)
    BY <1>0, <1>2 DEF TypeOK, SubmitRead, Leaves, Memory
  <2> QED
    BY <1>0, <1>1, <1>2, <2>1, <2>2, ActorStep DEF SubmitRead, Leaves
<1>3. ASSUME pc[c] \in {"create", "mark"} PROVE Live
  BY <1>0, <1>3 DEF OutcomeInv, SupersededIsInert, Live
<1>4. CASE SubmitCreate(c)
  <2>1. Leaves(c, mem[c].result, "mark")
    BY <1>0, <1>4 DEF TypeOK, SubmitCreate, Leaves, Memory
  <2>2. row'.status = row.status \/ row'.status \notin Terminal
    BY <1>0, <1>4 DEF TypeOK, SubmitCreate, Row, Terminal, Verdicts
  <2> QED
    BY <1>0, <1>1, <1>3, <1>4, <2>1, <2>2, ActorStep DEF SubmitCreate, Leaves
<1>5. CASE SubmitMark(c)
  <2>1. row'.status = row.status \/ row'.status \notin Terminal
    BY <1>0, <1>5 DEF TypeOK, SubmitMark, Row, Terminal, Verdicts
  <2>2. Leaves(c, None, "idle") \/ Leaves(c, None, "publish")
    <3>1. CASE Finish(c)
      BY <1>0, <3>1, FinishLeaves
    <3>2. CASE ~Finish(c)
      BY <1>0, <1>5, <3>2 DEF TypeOK, SubmitMark, Leaves, NoMemory
    <3> QED
      BY <3>1, <3>2
  <2> QED
    BY <1>0, <1>3, <1>5, <2>1, <2>2, ActorStep DEF SubmitMark, Leaves, None, Verdicts
<1> QED
  BY <1>2, <1>4, <1>5

\* A signal, the passing of time and a change of the connection touch no actor.
LEMMA EnvironmentOutcome ==
    ASSUME OutcomeInv, TypeOK',
           RequestReconciliation \/ HandleCallback \/ TimeStep \/ ChangeConnection
    PROVE  OutcomeInv'
<1>1. /\ row'.status = row.status
      /\ hacienda' = hacienda \/ hacienda = "received"
      /\ UNCHANGED <<document, hooks, pc, mem>>
  BY DEF OutcomeInv, TypeOK, Row, RequestReconciliation, HandleCallback, Signal,
         TimeStep, Decide, BecomeDue, LeaseEnds, SlotEnds, ChangeConnection
<1>2. AuthoritativeOutcome' /\ RowImpliesDocument' /\ HooksFollowCommit'
  BY <1>1 DEF OutcomeInv, AuthoritativeOutcome, RowImpliesDocument, HooksFollowCommit,
              Verdicts
<1>3. PendingVerdictIsHeld' /\ SupersededIsInert' /\ IndexFollowsCommit'
  BY <1>1 DEF OutcomeInv, PendingVerdictIsHeld, SupersededIsInert, IndexFollowsCommit,
              Verdicts
<1> QED
  BY <1>2, <1>3 DEF OutcomeInv

\* A submit job cannot make up a verdict: no answer to a POST is one.
LEMMA SubmitJobOutcome ==
    ASSUME OutcomeInv, TypeOK', NEW w \in Workers,
           \/ ClaimSubmission(w) \/ LoadContext(w) \/ PostAnswered(w)
           \/ PostAnsweredBadly(w) \/ PostTokenExpired(w)
    PROVE  OutcomeInv'
<1>0. w \in Actors /\ TypeOK
  BY DEF Actors, OutcomeInv
<1>1. mem[w].result # "SUPERSEDED" /\ (mem[w].result \in Verdicts => hacienda = mem[w].result)
  BY <1>0 DEF OutcomeInv, PendingVerdictIsHeld
<1>2. CASE ClaimSubmission(w) /\ row.status \in ClaimableStatuses
  <2>1. Live
    BY <1>2 DEF OutcomeInv, SupersededIsInert, Live, ClaimableStatuses
  <2>2. row'.status \notin Terminal
    BY <1>0, <1>2 DEF TypeOK, ClaimSubmission, Row, Terminal, Verdicts
  <2>3. Leaves(w, mem[w].result, "load")
    BY <1>0, <1>2 DEF TypeOK, ClaimSubmission, Leaves, Memory
  <2> QED
    BY <1>0, <1>1, <1>2, <2>1, <2>2, <2>3, ActorStep DEF ClaimSubmission, Leaves
<1>3. CASE ClaimSubmission(w) /\ row.status \notin ClaimableStatuses
  <2>1. UNCHANGED <<row, document, hooks, hacienda, pc, mem>>
    BY <1>3 DEF ClaimSubmission
  <2> QED
    BY <2>1 DEF OutcomeInv, AuthoritativeOutcome, RowImpliesDocument, HooksFollowCommit,
                PendingVerdictIsHeld, SupersededIsInert, IndexFollowsCommit
<1>4. ASSUME NEW result, Answer(w, result) PROVE Leaves(w, result, "apply")
  BY <1>0, <1>4, BeginApplyLeaves DEF Answer
<1>5. CASE LoadContext(w)
  <2>1. Leaves(w, mem[w].result, "send") \/ Leaves(w, "MANUAL_REVIEW_REQUIRED", "apply")
    <3>1. CASE connected
      BY <1>0, <1>5, <3>1 DEF TypeOK, LoadContext, Leaves
    <3>2. CASE ~connected
      BY <1>0, <1>5, <3>2, BeginApplyLeaves DEF LoadContext
    <3> QED
      BY <3>1, <3>2
  <2> QED
    BY <1>0, <1>1, <1>5, <2>1, ActorStep DEF LoadContext, Leaves, Verdicts
<1>6. CASE PostAnswered(w) \/ PostAnsweredBadly(w)
  <2>1. \E result \in {"ACKNOWLEDGED", "MANUAL_REVIEW_REQUIRED",
                       "POST_OUTCOME_UNKNOWN", "TECHNICAL_RETRY_PENDING"} :
           Leaves(w, result, "apply")
    BY <1>4, <1>6 DEF PostAnswered, PostAnsweredBadly
  <2>2. hacienda' = hacienda \/ (hacienda = "none" /\ hacienda' = "received")
    BY <1>6 DEF PostAnswered, PostAnsweredBadly, Received
  <2>3. UNCHANGED <<row, document, hooks>>
    BY <1>6 DEF PostAnswered, PostAnsweredBadly
  <2> QED
    BY <1>0, <2>1, <2>2, <2>3, ActorStep DEF Leaves, Verdicts
<1>7. CASE PostTokenExpired(w)
  <2>1. Leaves(w, mem[w].result, "resend") \/ Leaves(w, "TECHNICAL_RETRY_PENDING", "apply")
    BY <1>0, <1>4, <1>7 DEF TypeOK, PostTokenExpired, Leaves
  <2> QED
    BY <1>0, <1>1, <1>7, <2>1, ActorStep DEF PostTokenExpired, Leaves, Verdicts
<1> QED
  BY <1>2, <1>3, <1>5, <1>6, <1>7

\* A reconcile job takes up a verdict only as Hacienda gives it.
LEMMA ReconcileJobOutcome ==
    ASSUME OutcomeInv, TypeOK', NEW w \in Workers,
           TakeReconcileJob(w) \/ GetAnswered(w) \/ GetAnsweredBadly(w)
    PROVE  OutcomeInv'
<1>0. w \in Actors /\ TypeOK
  BY DEF Actors, OutcomeInv
<1>1. mem[w].result # "SUPERSEDED" /\ (mem[w].result \in Verdicts => hacienda = mem[w].result)
  BY <1>0 DEF OutcomeInv, PendingVerdictIsHeld
<1>2. CASE TakeReconcileJob(w)
  <2>1. \/ Leaves(w, "MANUAL_REVIEW_REQUIRED", "apply")
        \/ Leaves(w, mem[w].result, "query")
        \/ UNCHANGED <<row, pc, mem>>
    <3>1. CASE /\ pc' = [pc EXCEPT ![w] = "apply"]
               /\ mem' = [mem EXCEPT ![w] = [@ EXCEPT !.work = "RECONCILE",
                                                  !.result = "MANUAL_REVIEW_REQUIRED"]]
      BY <1>0, <3>1 DEF TypeOK, Leaves, Memory
    <3>2. CASE /\ pc' = [pc EXCEPT ![w] = "query"]
               /\ mem' = [mem EXCEPT ![w].work = "RECONCILE"]
      BY <1>0, <3>2 DEF TypeOK, Leaves, Memory
    <3> QED
      BY <1>2, <3>1, <3>2 DEF TakeReconcileJob
  <2>2. row'.status = row.status
    BY <1>0, <1>2 DEF TypeOK, TakeReconcileJob, Row
  <2>3. UNCHANGED <<document, hooks, hacienda>>
    BY <1>2 DEF TakeReconcileJob
  <2>4. CASE UNCHANGED <<row, pc, mem>>
    BY <2>3, <2>4 DEF OutcomeInv, AuthoritativeOutcome, RowImpliesDocument,
       HooksFollowCommit, PendingVerdictIsHeld, SupersededIsInert, IndexFollowsCommit
  <2> QED
    BY <1>0, <1>1, <2>1, <2>2, <2>3, <2>4, ActorStep DEF Leaves, Verdicts
<1>3. CASE GetAnswered(w) \/ GetAnsweredBadly(w)
  <2>1. \E result \in {"MANUAL_REVIEW_REQUIRED", "PROCESSING",
                       "TECHNICAL_RETRY_PENDING", hacienda} :
           /\ Leaves(w, result, "apply")
           /\ result = hacienda => hacienda \in Verdicts
    <3>1. ASSUME NEW result, Answer(w, result) PROVE Leaves(w, result, "apply")
      BY <1>0, <3>1, BeginApplyLeaves DEF Answer
    <3>2. CASE \E result \in {"MANUAL_REVIEW_REQUIRED", "PROCESSING",
                             "TECHNICAL_RETRY_PENDING"} : Answer(w, result)
      BY <1>0, <3>1, <3>2 DEF TypeOK, Verdicts
    <3>3. CASE hacienda \in Verdicts
               /\ \E artifact \in BOOLEAN : BeginApply(w, hacienda, artifact, None)
      BY <1>0, <3>3, BeginApplyLeaves
    <3> QED
      BY <1>3, <3>2, <3>3 DEF GetAnswered, GetAnsweredBadly
  <2>2. UNCHANGED <<row, document, hooks, hacienda>>
    BY <1>3 DEF GetAnswered, GetAnsweredBadly
  <2> QED
    BY <1>0, <2>1, <2>2, ActorStep DEF Leaves, Verdicts
<1> QED
  BY <1>2, <1>3

\* Applying a result copies a verdict onto the document before the row, the hooks or the
\* index show it, also when the row was already terminal.
LEMMA ApplyOutcome ==
    ASSUME OutcomeInv, TypeOK', NEW a \in Actors, ApplyStep(a)
    PROVE  OutcomeInv'
<1>0. TypeOK
  BY DEF OutcomeInv
<1>1. mem[a].result # "SUPERSEDED" /\ (mem[a].result \in Verdicts => hacienda = mem[a].result)
  BY DEF OutcomeInv, PendingVerdictIsHeld
<1>2. ASSUME pc[a] \in {"create", "mark", "store", "commit", "index"} PROVE Live
  BY <1>2 DEF OutcomeInv, SupersededIsInert, Live
<1>3. CASE ReadAndEvaluate(a)
  <2>1. CASE EvaluateTransition(row.status, mem[a].result) = "APPLIED"
    <3>1. Live
      BY <1>1, <2>1, TerminalIsLast DEF OutcomeInv, SupersededIsInert, Live, Terminal
    <3>2. \E label \in {"store", "commit"} : Leaves(a, mem[a].result, label)
      BY <1>0, <1>3, <2>1 DEF TypeOK, ReadAndEvaluate, Leaves, Memory
    <3> QED
      BY <1>1, <1>3, <3>1, <3>2, ActorStep DEF ReadAndEvaluate, Leaves
  <2>2. CASE EvaluateTransition(row.status, mem[a].result) # "APPLIED"
    <3>1. Leaves(a, None, "idle") \/ Leaves(a, None, "publish")
      BY <1>0, <1>3, <2>2, AfterApplyLeaves DEF ReadAndEvaluate
    <3> QED
      BY <1>3, <3>1, ActorStep DEF ReadAndEvaluate, Leaves, None, Verdicts
  <2> QED
    BY <2>1, <2>2
<1>4. CASE StoreResponseArtifact(a)
  <2>1. Leaves(a, mem[a].result, "commit")
    BY <1>0, <1>4 DEF TypeOK, StoreResponseArtifact, Leaves
  <2> QED
    BY <1>1, <1>2, <1>4, <2>1, ActorStep DEF StoreResponseArtifact, Leaves
<1>5. CASE CommitResult(a)
  <2>1. Live
    BY <1>2, <1>5 DEF CommitResult
  \* Once the transaction is over the document shows a verdict being applied.
  <2>2. mem[a].result \in Verdicts => document' = mem[a].result
    BY <1>1, <1>5, <2>1 DEF OutcomeInv, AuthoritativeOutcome, RowImpliesDocument, Live,
       CommitResult, WrittenDocument, Terminal
  <2>3. document' = document \/ (document \notin Verdicts /\ document' = mem[a].result
                                /\ document' \in Verdicts)
    BY <1>5 DEF CommitResult, WrittenDocument, Terminal
  <2>4. row'.status = IF row.status \in Terminal THEN row.status ELSE mem[a].result
    BY <1>0, <1>5 DEF TypeOK, CommitResult, WrittenRow, Row
  <2>5. hacienda' = hacienda
    BY <1>5 DEF CommitResult
  <2>6. AuthoritativeOutcome'
    BY <1>1, <2>3, <2>5 DEF OutcomeInv, AuthoritativeOutcome
  <2>7. RowImpliesDocument'
    BY <2>2, <2>3, <2>4 DEF OutcomeInv, RowImpliesDocument, Terminal
  <2>8. hooks' = hooks \/ hooks' = hooks \cup ({mem[a].result} \cap Verdicts)
    BY <1>5 DEF CommitResult, Conclude
  <2>9. HooksFollowCommit'
    BY <1>0, <2>2, <2>3, <2>8 DEF OutcomeInv, HooksFollowCommit, TypeOK
  <2>10. \/ Leaves(a, mem[a].result, "index")
         \/ Leaves(a, None, "idle")
         \/ Leaves(a, None, "publish")
    <3>1. CASE mem[a].artifact
      BY <1>0, <1>5, <3>1 DEF TypeOK, CommitResult, Leaves
    <3>2. CASE ~mem[a].artifact
      BY <1>0, <1>5, <3>2, AfterApplyLeaves DEF CommitResult, Conclude
    <3> QED
      BY <3>1, <3>2
  <2>11. PendingVerdictIsHeld'
    BY <1>1, <2>5, <2>10 DEF OutcomeInv, PendingVerdictIsHeld, Leaves, None, Verdicts
  <2>12. SupersededIsInert'
    BY <1>1, <2>1, <2>3, <2>4 DEF SupersededIsInert, Live, Verdicts
  <2>13. IndexFollowsCommit'
    BY <1>1, <2>2, <2>3, <2>10
       DEF OutcomeInv, IndexFollowsCommit, PendingVerdictIsHeld, AuthoritativeOutcome,
           Leaves
  <2> QED
    BY <2>6, <2>7, <2>9, <2>11, <2>12, <2>13 DEF OutcomeInv
<1>6. CASE IndexResponseArtifact(a)
  <2>1. UNCHANGED <<row, document, hacienda>>
    BY <1>6 DEF IndexResponseArtifact
  <2>2. hooks' = hooks \cup ({mem[a].result} \cap Verdicts)
    BY <1>6 DEF IndexResponseArtifact, Conclude
  <2>3. mem[a].result \in Verdicts => document = mem[a].result
    BY <1>6 DEF OutcomeInv, IndexFollowsCommit, IndexResponseArtifact
  <2>4. Leaves(a, None, "idle") \/ Leaves(a, None, "publish")
    BY <1>0, <1>6, AfterApplyLeaves DEF IndexResponseArtifact, Conclude
  <2>5. AuthoritativeOutcome' /\ RowImpliesDocument' /\ HooksFollowCommit'
    BY <2>1, <2>2, <2>3
       DEF OutcomeInv, AuthoritativeOutcome, RowImpliesDocument, HooksFollowCommit
  <2>6. PendingVerdictIsHeld' /\ SupersededIsInert' /\ IndexFollowsCommit'
    BY <2>1, <2>4 DEF OutcomeInv, PendingVerdictIsHeld, SupersededIsInert,
       IndexFollowsCommit, Leaves, None, Verdicts
  <2> QED
    BY <2>5, <2>6 DEF OutcomeInv
<1>7. CASE PublishNext(a)
  <2>1. Leaves(a, None, "idle")
    BY <1>0, <1>7, FinishLeaves DEF PublishNext
  <2> QED
    BY <1>7, <2>1, ActorStep DEF PublishNext, Leaves, None, Verdicts
<1> QED
  BY <1>3, <1>4, <1>5, <1>6, <1>7 DEF ApplyStep

\* The sweep applies only technical retries.
LEMMA SweepOutcome ==
    ASSUME OutcomeInv, TypeOK', NEW s \in Sweepers, Sweep(s)
    PROVE  OutcomeInv'
<1>0. s \in Actors /\ TypeOK
  BY DEF Actors, OutcomeInv
<1>1. mem[s].result # "SUPERSEDED" /\ (mem[s].result \in Verdicts => hacienda = mem[s].result)
  BY <1>0 DEF OutcomeInv, PendingVerdictIsHeld
<1>2. Leaves(s, mem[s].result, "publish") \/ Leaves(s, "TECHNICAL_RETRY_PENDING", "apply")
  <2>1. CASE BeginApply(s, "TECHNICAL_RETRY_PENDING", FALSE, "SUBMIT")
    BY <1>0, <2>1, BeginApplyLeaves
  <2>2. CASE ~BeginApply(s, "TECHNICAL_RETRY_PENDING", FALSE, "SUBMIT")
    <3>1. /\ pc' = [pc EXCEPT ![s] = "publish"]
          /\ mem' = [mem EXCEPT ![s].publish =
                       IF row.status \in Reconcilable THEN "RECONCILE" ELSE "SUBMIT"]
      BY <2>2 DEF Sweep
    <3> QED
      BY <1>0, <3>1 DEF TypeOK, Leaves, Memory
  <2> QED
    BY <2>1, <2>2
<1> QED
  BY <1>0, <1>1, <1>2, ActorStep DEF Sweep, Leaves, Verdicts

\* A failure or a crash drops the result an actor held and invents none.
LEMMA FailureOutcome ==
    ASSUME OutcomeInv, TypeOK', NEW a \in Actors,
           HandleSubmitFailure(a) \/ Throw(a) \/ Crash(a) \/ IndexMissing(a)
    PROVE  OutcomeInv'
<1>0. TypeOK
  BY DEF OutcomeInv
<1>1. CASE HandleSubmitFailure(a)
  <2>1. Leaves(a, "TECHNICAL_RETRY_PENDING", "apply")
    BY <1>0, <1>1 DEF TypeOK, HandleSubmitFailure, Leaves, NoMemory
  <2> QED
    BY <1>1, <2>1, ActorStep DEF HandleSubmitFailure, Leaves, Verdicts
<1>2. CASE Throw(a) \/ Crash(a) \/ IndexMissing(a)
  <2>1. Abandon(a)
    BY <1>2 DEF Throw, Crash, IndexMissing
  <2>2. Leaves(a, None, "idle")
    BY <1>0, <2>1, FinishLeaves DEF Abandon
  <2> QED
    BY <2>1, <2>2, ActorStep DEF Abandon, Leaves, None, Verdicts
<1> QED
  BY <1>1, <1>2

\* The inductive invariant holds in every reachable state: the three properties below,
\* and what keeps them true while results travel through workers that may be stale.
THEOREM OutcomeCorrect == Spec => []OutcomeInv
<1>1. Init => OutcomeInv
  <2> SUFFICES ASSUME Init PROVE OutcomeInv
    OBVIOUS
  <2>1. TypeOK
    BY InitType
  <2>2. AuthoritativeOutcome /\ RowImpliesDocument /\ HooksFollowCommit
    BY DEF Init, AuthoritativeOutcome, RowImpliesDocument, HooksFollowCommit, Verdicts, None
  <2>3. PendingVerdictIsHeld /\ SupersededIsInert /\ IndexFollowsCommit
    BY DEF Init, PendingVerdictIsHeld, SupersededIsInert, IndexFollowsCommit, NoMemory,
           Verdicts, None
  <2> QED
    BY <2>1, <2>2, <2>3 DEF OutcomeInv
<1>2. OutcomeInv /\ [Next]_vars => OutcomeInv'
  <2> SUFFICES ASSUME OutcomeInv, [Next]_vars PROVE OutcomeInv'
    OBVIOUS
  <2>0. TypeOK'
    BY StepType DEF OutcomeInv
  <2>1. CASE UNCHANGED vars
    BY <2>1 DEF vars, OutcomeInv, TypeOK, AuthoritativeOutcome, RowImpliesDocument,
       HooksFollowCommit, PendingVerdictIsHeld, SupersededIsInert, IndexFollowsCommit
  <2>2. ASSUME NEW c \in Clients, ClientStep(c) \/ SubmitRead(c) PROVE OutcomeInv'
    BY <2>0, <2>2, ClientOutcome, ApplyOutcome DEF ClientStep, Actors
  <2>3. ASSUME NEW w \in Workers, WorkerStep(w) PROVE OutcomeInv'
    BY <2>0, <2>3, SubmitJobOutcome, ReconcileJobOutcome, ApplyOutcome, FailureOutcome
       DEF WorkerStep, Actors
  <2>4. ASSUME NEW s \in Sweepers, SweeperStep(s) PROVE OutcomeInv'
    BY <2>0, <2>4, SweepOutcome, ApplyOutcome DEF SweeperStep, Actors
  <2>5. CASE TimeStep
    BY <2>0, <2>5, EnvironmentOutcome
  <2>6. CASE Disturbance
    BY <2>0, <2>2, <2>6, EnvironmentOutcome, SubmitJobOutcome, ReconcileJobOutcome,
       FailureOutcome DEF Disturbance, Actors
  <2> QED
    BY <2>1, <2>2, <2>3, <2>4, <2>5, <2>6 DEF Next
<1> QED
  BY <1>1, <1>2, PTL DEF Spec

\* A document is never ACCEPTED or REJECTED unless Hacienda decided so, with any
\* number of concurrent requests, jobs, sweeps, crashes, local failures and bad answers.
THEOREM AuthoritativeOutcomeHolds == Spec => []AuthoritativeOutcome
BY OutcomeCorrect, PTL DEF OutcomeInv

\* A submission row never shows a verdict its document does not show, although requests
\* and stale results keep writing the row.
THEOREM RowImpliesDocumentHolds == Spec => []RowImpliesDocument
BY OutcomeCorrect, PTL DEF OutcomeInv

\* The delivery hook of a verdict is only scheduled once the document shows it, also
\* when the transaction found the row already terminal.
THEOREM HooksFollowCommitHolds == Spec => []HooksFollowCommit
BY OutcomeCorrect, PTL DEF OutcomeInv

-----------------------------------------------------------------------------
(* FiscalSubmission implements FiscalOutcome *)

\* All a step can do to what Hacienda holds and to the document's status.
LEMMA OutcomeStep ==
    ASSUME OutcomeInv, [Next]_vars
    PROVE  \/ hacienda' = hacienda /\ document' = document
           \/ hacienda = "none" /\ hacienda' = "received" /\ document' = document
           \/ hacienda = "received" /\ hacienda' \in Verdicts /\ document' = document
           \/ /\ hacienda' = hacienda
              /\ document = "READY_TO_SUBMIT"
              /\ hacienda \in Verdicts
              /\ document' = hacienda
<1> DEFINE Still == hacienda' = hacienda /\ document' = document
<1>1. CASE UNCHANGED vars
  BY <1>1 DEF vars
<1>2. CASE \/ \E c \in Clients : SubmitRead(c) \/ SubmitCreate(c) \/ SubmitMark(c)
           \/ RequestReconciliation \/ HandleCallback \/ ChangeConnection
  <2>1. Still
    BY <1>2 DEF SubmitRead, SubmitCreate, SubmitMark, RequestReconciliation,
                HandleCallback, Signal, ChangeConnection
  <2> QED
    BY <2>1
<1>3. CASE TimeStep
  BY <1>3 DEF TimeStep, Decide, BecomeDue, LeaseEnds, SlotEnds
<1>4. ASSUME NEW w \in Workers,
             \/ ClaimSubmission(w) \/ LoadContext(w) \/ PostTokenExpired(w)
             \/ TakeReconcileJob(w) \/ GetAnswered(w) \/ GetAnsweredBadly(w)
             \/ HandleSubmitFailure(w) \/ IndexMissing(w)
      PROVE  Still
  BY <1>4 DEF ClaimSubmission, LoadContext, PostTokenExpired, TakeReconcileJob,
     GetAnswered, GetAnsweredBadly, HandleSubmitFailure, IndexMissing, Abandon
<1>5. CASE \E w \in Workers : PostAnswered(w) \/ PostAnsweredBadly(w)
  BY <1>5 DEF PostAnswered, PostAnsweredBadly, Received
<1>6. CASE \/ \E s \in Sweepers : Sweep(s)
           \/ \E a \in Actors : Throw(a) \/ Crash(a)
  <2>1. Still
    BY <1>6 DEF Sweep, Throw, Crash, Abandon
  <2> QED
    BY <2>1
<1>7. ASSUME NEW a \in Actors, CommitResult(a)
      PROVE  \/ Still
             \/ /\ hacienda' = hacienda
                /\ document = "READY_TO_SUBMIT"
                /\ hacienda \in Verdicts
                /\ document' = hacienda
  <2>1. mem[a].result \in Verdicts => hacienda = mem[a].result
    BY DEF OutcomeInv, PendingVerdictIsHeld
  <2> QED
    BY <1>7, <2>1 DEF OutcomeInv, TypeOK, DocumentStatuses, CommitResult, WrittenDocument
<1>8. ASSUME NEW a \in Actors,
             \/ ReadAndEvaluate(a) \/ StoreResponseArtifact(a)
             \/ IndexResponseArtifact(a) \/ PublishNext(a)
      PROVE  Still
  BY <1>8 DEF ReadAndEvaluate, StoreResponseArtifact, IndexResponseArtifact, PublishNext
<1>9. CASE \E a \in Actors : ApplyStep(a)
  BY <1>7, <1>8, <1>9 DEF ApplyStep
<1> QED
  BY <1>1, <1>2, <1>3, <1>4, <1>5, <1>6, <1>9
     DEF Next, ClientStep, WorkerStep, SweeperStep, Disturbance, Actors

\* With its queue, workers and rows hidden, the submission subsystem only ever lets
\* Hacienda receive, lets it decide once, and copies its decision onto an open document.
THEOREM OutcomeImplemented == Spec => OutcomeRefinement
<1>1. Init => Outcome!Init
  BY DEF Init, Outcome!Init
<1>2. OutcomeInv /\ [Next]_vars => [Outcome!Next]_(Outcome!vars)
  <2> SUFFICES ASSUME OutcomeInv, [Next]_vars
               PROVE  Outcome!Next \/ UNCHANGED Outcome!vars
    BY DEF Outcome!vars
  <2>1. CASE hacienda' = hacienda /\ document' = document
    BY <2>1 DEF Outcome!vars
  <2>2. CASE hacienda = "none" /\ hacienda' = "received" /\ document' = document
    BY <2>2 DEF Outcome!Next, Outcome!Receive
  <2>3. CASE hacienda = "received" /\ hacienda' \in Verdicts /\ document' = document
    BY <2>3 DEF Outcome!Next, Outcome!Decide, Outcome!Verdicts, Verdicts
  <2>4. CASE /\ hacienda' = hacienda
             /\ document = "READY_TO_SUBMIT"
             /\ hacienda \in Verdicts
             /\ document' = hacienda
    BY <2>4 DEF Outcome!Next, Outcome!Record, Outcome!Verdicts, Verdicts
  <2> QED
    BY <2>1, <2>2, <2>3, <2>4, OutcomeStep
<1> QED
  BY <1>1, <1>2, OutcomeCorrect, PTL DEF Spec, Outcome!Spec, OutcomeRefinement
=============================================================================
