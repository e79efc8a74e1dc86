------------------------- MODULE FiscalClaimProofs -------------------------
(***************************************************************************)
(* What the interleavings of requests, jobs, sweeps and signals may do to   *)
(* one submission: proofs about FiscalSubmission on top of the invariant    *)
(* OutcomeInv, for any sets of actors.  Each theorem names, as hypotheses,  *)
(* the disturbances that the code does not withstand; the runs              *)
(* terminal_regresses and claim_shared show two of them breaking it.        *)
(***************************************************************************)
EXTENDS FiscalSubmissionProofs, FiniteSetTheorems

-----------------------------------------------------------------------------
(* What one actor does, and what it leaves to the others *)

\* A step of one actor leaves the others where they stand.
Only(a) == \A b \in Actors \ {a} : pc'[b] = pc[b] /\ mem'[b] = mem[b]

\* A handler that begins to apply a result holds that result and keeps its job.
LEMMA BeginApplyEffect ==
    ASSUME TypeOK, NEW a \in Actors, NEW result, NEW artifact \in BOOLEAN, NEW job,
           BeginApply(a, result, artifact, job)
    PROVE  /\ Only(a)
           /\ pc'[a] = "apply"
           /\ mem'[a].result = result
           /\ mem'[a].artifact <=> artifact
           /\ mem'[a].publish = job
           /\ mem'[a].work = mem[a].work
           /\ mem'[a].response <=> mem[a].response
           /\ mem'[a].failing <=> mem[a].failing
<1>1. mem \in [Actors -> Memory] /\ pc \in [Actors -> Labels] /\ mem[a] \in Memory
  BY DEF TypeOK
<1>2. Only(a)
  BY <1>1 DEF BeginApply, Only
<1>3. mem'[a] = [mem[a] EXCEPT !.result = result, !.artifact = artifact, !.publish = job]
  BY <1>1 DEF BeginApply
<1>4. pc'[a] = "apply"
  BY <1>1 DEF BeginApply
<1> QED
  BY <1>1, <1>2, <1>3, <1>4 DEF Memory

\* A handler that has applied its result is done, or has one job left to publish.
LEMMA AfterApplyEffect ==
    ASSUME TypeOK, NEW a \in Actors, AfterApply(a)
    PROVE  /\ Only(a)
           /\ mem'[a].result = None
           /\ ~mem'[a].artifact
           /\ ~mem'[a].response
           /\ \/ pc'[a] = "idle" /\ mem'[a] = NoMemory
              \/ /\ pc'[a] = "publish"
                 /\ mem[a].publish # None
                 /\ mem'[a].publish = mem[a].publish
                 /\ mem'[a].work = mem[a].work
                 /\ mem'[a].failing <=> mem[a].failing
<1>1. mem \in [Actors -> Memory] /\ pc \in [Actors -> Labels]
  BY DEF TypeOK
<1>2. CASE mem[a].publish = None
  <2>1. pc'[a] = "idle" /\ mem'[a] = NoMemory /\ Only(a)
    BY <1>1, <1>2 DEF AfterApply, Finish, Only
  <2> QED
    BY <2>1 DEF NoMemory
<1>3. CASE mem[a].publish # None
  <2>1. /\ pc'[a] = "publish"
        /\ mem'[a] = [NoMemory EXCEPT !.work = mem[a].work, !.publish = mem[a].publish,
                                      !.failing = mem[a].failing]
        /\ Only(a)
    BY <1>1, <1>3 DEF AfterApply, Only
  <2> QED
    BY <1>3, <2>1 DEF NoMemory
<1> QED
  BY <1>2, <1>3

\* Every action of an actor is its own.
LEMMA ActorsAct ==
    ASSUME TypeOK, NEW a \in Actors,
           \/ SubmitRead(a) \/ SubmitCreate(a) \/ SubmitMark(a)
           \/ ClaimSubmission(a) \/ LoadContext(a) \/ PostAnswered(a)
           \/ PostAnsweredBadly(a) \/ PostTokenExpired(a)
           \/ TakeReconcileJob(a) \/ GetAnswered(a) \/ GetAnsweredBadly(a)
           \/ ApplyStep(a) \/ Sweep(a)
           \/ HandleSubmitFailure(a) \/ Throw(a) \/ Crash(a) \/ IndexMissing(a)
    PROVE  Only(a)
<1>1. pc \in [Actors -> Labels] /\ mem \in [Actors -> Memory]
  BY DEF TypeOK
<1>2. CASE SubmitRead(a) \/ SubmitCreate(a) \/ SubmitMark(a)
  BY <1>1, <1>2 DEF Only, SubmitRead, SubmitCreate, SubmitMark, Finish
<1>3. CASE ClaimSubmission(a) \/ LoadContext(a) \/ PostAnswered(a)
           \/ PostAnsweredBadly(a) \/ PostTokenExpired(a)
  BY <1>1, <1>3 DEF Only, ClaimSubmission, LoadContext, PostAnswered, PostAnsweredBadly,
     PostTokenExpired, Answer, BeginApply
<1>4. CASE TakeReconcileJob(a) \/ GetAnswered(a) \/ GetAnsweredBadly(a)
  BY <1>1, <1>4 DEF Only, TakeReconcileJob, GetAnswered, GetAnsweredBadly, Answer, BeginApply
<1>5. CASE ApplyStep(a)
  BY <1>1, <1>5 DEF Only, ApplyStep, ReadAndEvaluate, StoreResponseArtifact, CommitResult,
     IndexResponseArtifact, PublishNext, Conclude, AfterApply, Finish
<1>6. CASE Sweep(a)
  BY <1>1, <1>6 DEF Only, Sweep, BeginApply
<1>7. CASE HandleSubmitFailure(a) \/ Throw(a) \/ Crash(a) \/ IndexMissing(a)
  BY <1>1, <1>7 DEF Only, HandleSubmitFailure, Throw, Crash, IndexMissing, Abandon, Finish
<1> QED
  BY <1>2, <1>3, <1>4, <1>5, <1>6, <1>7

-----------------------------------------------------------------------------
(* A recorded answer is kept *)

\* The one write that can take a recorded answer back: a request that marks the row
\* QUEUED by what it read before the answer was recorded.
NoStaleMark == \A c \in Clients : SubmitMark(c) /\ row.status \in Terminal => row' = row

\* The rows agree on a verdict, and only a row with a verdict refers to a response.
EvidencedRow ==
    /\ document \in Verdicts => row.status = document
    /\ row.response => row.status \in Verdicts

\* An artifact travels only with a verdict, and who read a response read it off a row
\* that is still terminal.
HeldAnswers ==
    \A a \in Actors :
        /\ mem[a].artifact => /\ mem[a].result \in Verdicts
                              /\ pc[a] \in {"apply", "store", "commit", "index"}
        /\ mem[a].response => row.status \in Terminal

AnswerInv == EvidencedRow /\ HeldAnswers

\* What a step that is no commit may do to the rows: nothing to a terminal one.
KeepsAnswer ==
    /\ UNCHANGED document
    /\ row'.response = row.response
    /\ row'.status = row.status \/ {row.status, row'.status} \cap Terminal = {}

\* No claim, sweep, signal, failure or fresh request touches a terminal row.
LEMMA RowStep ==
    ASSUME TypeOK, [Next]_vars, NoStaleMark
    PROVE  KeepsAnswer \/ \E a \in Actors : CommitResult(a)
<1> USE DEF KeepsAnswer
<1>0. row \in Row
  BY DEF TypeOK
<1>1. CASE UNCHANGED vars
  BY <1>1 DEF vars
<1>2. ASSUME NEW c \in Clients, SubmitRead(c) \/ SubmitCreate(c) PROVE KeepsAnswer
  BY <1>0, <1>2 DEF Row, SubmitRead, SubmitCreate, Terminal, Verdicts, None
<1>3. ASSUME NEW c \in Clients, SubmitMark(c) PROVE KeepsAnswer
  BY <1>0, <1>3 DEF Row, SubmitMark, NoStaleMark, Terminal, Verdicts
<1>4. CASE RequestReconciliation \/ HandleCallback \/ ChangeConnection
  BY <1>0, <1>4 DEF Row, RequestReconciliation, HandleCallback, Signal, ChangeConnection
<1>5. CASE TimeStep
  BY <1>0, <1>5 DEF Row, TimeStep, Decide, BecomeDue, LeaseEnds, SlotEnds
<1>6. ASSUME NEW w \in Workers,
             \/ ClaimSubmission(w) \/ LoadContext(w) \/ PostAnswered(w)
             \/ PostAnsweredBadly(w) \/ PostTokenExpired(w) \/ TakeReconcileJob(w)
             \/ GetAnswered(w) \/ GetAnsweredBadly(w)
      PROVE  KeepsAnswer
  BY <1>0, <1>6 DEF Row, ClaimSubmission, ClaimableStatuses, Terminal, Verdicts, LoadContext,
     PostAnswered, PostAnsweredBadly, PostTokenExpired, TakeReconcileJob, GetAnswered,
     GetAnsweredBadly
<1>7. ASSUME NEW a \in Actors,
             \/ Sweep(a) \/ HandleSubmitFailure(a) \/ IndexMissing(a) \/ Throw(a) \/ Crash(a)
             \/ ReadAndEvaluate(a) \/ StoreResponseArtifact(a)
             \/ IndexResponseArtifact(a) \/ PublishNext(a)
      PROVE  KeepsAnswer
  BY <1>7 DEF Sweep, HandleSubmitFailure, IndexMissing, Throw, Crash, Abandon,
     ReadAndEvaluate, StoreResponseArtifact, IndexResponseArtifact, PublishNext
<1> QED
  BY <1>1, <1>2, <1>3, <1>4, <1>5, <1>6, <1>7
     DEF Next, ClientStep, WorkerStep, SweeperStep, ApplyStep, Disturbance, Actors

\* A commit leaves a terminal row alone, and otherwise writes the row and the document
\* from one result.
LEMMA CommitStep ==
    ASSUME TypeOK, AnswerInv, NEW a \in Actors, CommitResult(a)
    PROVE  /\ EvidencedRow'
           /\ row.status \in Terminal => row' = row
<1>0. row \in Row /\ mem[a] \in Memory
  BY DEF TypeOK
<1>1. CASE row.status \in Terminal
  BY <1>1 DEF AnswerInv, EvidencedRow, CommitResult, WrittenRow, WrittenDocument
<1>2. CASE row.status \notin Terminal
  <2>1. document \notin Verdicts /\ ~row.response /\ ~mem[a].response
    BY <1>0, <1>2 DEF AnswerInv, EvidencedRow, HeldAnswers, Terminal
  <2>2. row'.status = mem[a].result /\ row'.response = mem[a].artifact
    BY <1>0, <1>2, <2>1 DEF CommitResult, WrittenRow, Row, Memory
  <2>3. document' \in Verdicts => document' = mem[a].result
    BY <1>2, <2>1 DEF CommitResult, WrittenDocument
  <2> QED
    BY <1>2, <2>2, <2>3 DEF AnswerInv, HeldAnswers, EvidencedRow
<1> QED
  BY <1>1, <1>2

\* What a step leaves in the hands of an actor.
HoldsAnswer(a) ==
    /\ mem'[a].artifact => /\ mem'[a].result \in Verdicts
                           /\ pc'[a] \in {"apply", "store", "commit", "index"}
    /\ mem'[a].response => row.status \in Terminal

\* A submit request, a failure and a crash hold no answer.
LEMMA RequestHolds ==
    ASSUME TypeOK, AnswerInv, NEW a \in Actors,
           \/ SubmitRead(a) \/ SubmitCreate(a) \/ SubmitMark(a)
           \/ HandleSubmitFailure(a) \/ Throw(a) \/ Crash(a) \/ IndexMissing(a)
    PROVE  HoldsAnswer(a)
<1>0. mem \in [Actors -> Memory] /\ pc \in [Actors -> Labels] /\ mem[a] \in Memory
  BY DEF TypeOK
<1>1. /\ mem[a].artifact => /\ mem[a].result \in Verdicts
                            /\ pc[a] \in {"apply", "store", "commit", "index"}
      /\ mem[a].response => row.status \in Terminal
  BY DEF AnswerInv, HeldAnswers
<1>2. CASE SubmitRead(a) \/ SubmitCreate(a)
  BY <1>0, <1>1, <1>2 DEF Memory, HoldsAnswer, SubmitRead, SubmitCreate
<1>3. CASE SubmitMark(a)
  BY <1>0, <1>3 DEF HoldsAnswer, SubmitMark, Finish, NoMemory
<1>5. CASE HandleSubmitFailure(a)
  BY <1>0, <1>5 DEF HoldsAnswer, HandleSubmitFailure, NoMemory
<1>4. CASE Throw(a) \/ Crash(a) \/ IndexMissing(a)
  BY <1>0, <1>4 DEF HoldsAnswer, Throw, Crash, IndexMissing, Abandon, Finish, NoMemory
<1> QED
  BY <1>2, <1>3, <1>4, <1>5

\* A job takes up an artifact only with the verdict Hacienda gives.
LEMMA JobHolds ==
    ASSUME TypeOK, AnswerInv, NEW a \in Actors,
           \/ ClaimSubmission(a) \/ LoadContext(a) \/ PostAnswered(a)
           \/ PostAnsweredBadly(a) \/ PostTokenExpired(a)
           \/ TakeReconcileJob(a) \/ GetAnswered(a) \/ GetAnsweredBadly(a) \/ Sweep(a)
    PROVE  HoldsAnswer(a)
<1>0. mem \in [Actors -> Memory] /\ pc \in [Actors -> Labels] /\ mem[a] \in Memory
  BY DEF TypeOK
<1>1. /\ mem[a].artifact => /\ mem[a].result \in Verdicts
                            /\ pc[a] \in {"apply", "store", "commit", "index"}
      /\ mem[a].response => row.status \in Terminal
  BY DEF AnswerInv, HeldAnswers
<1>2. ASSUME NEW result, NEW artifact \in BOOLEAN, NEW job,
             artifact => result \in Verdicts,
             BeginApply(a, result, artifact, job)
      PROVE  HoldsAnswer(a)
  <2>1. /\ pc'[a] = "apply"
        /\ mem'[a].result = result
        /\ mem'[a].artifact <=> artifact
        /\ mem'[a].response <=> mem[a].response
    BY <1>2, BeginApplyEffect
  <2> QED
    BY <1>1, <1>2, <2>1 DEF HoldsAnswer
<1>3. CASE ClaimSubmission(a)
  BY <1>0, <1>1, <1>3 DEF Memory, HoldsAnswer, ClaimSubmission
<1>8. CASE LoadContext(a)
  BY <1>0, <1>1, <1>2, <1>8 DEF HoldsAnswer, LoadContext
<1>4. CASE PostAnswered(a) \/ PostAnsweredBadly(a) \/ PostTokenExpired(a)
  BY <1>0, <1>1, <1>2, <1>4 DEF HoldsAnswer, PostAnswered, PostAnsweredBadly,
     PostTokenExpired, Answer
<1>5. CASE TakeReconcileJob(a)
  <2>1. ~mem[a].artifact
    BY <1>1, <1>5 DEF TakeReconcileJob
  <2>2. CASE mem' = [mem EXCEPT ![a] = [@ EXCEPT !.work = "RECONCILE",
                                                 !.result = "MANUAL_REVIEW_REQUIRED"]]
    <3>1. (mem'[a].artifact <=> mem[a].artifact) /\ (mem'[a].response <=> mem[a].response)
      BY <1>0, <2>2 DEF Memory
    <3> QED
      BY <1>1, <2>1, <3>1 DEF HoldsAnswer
  <2>3. CASE mem' = [mem EXCEPT ![a].work = "RECONCILE"]
    <3>1. (mem'[a].artifact <=> mem[a].artifact) /\ (mem'[a].response <=> mem[a].response)
      BY <1>0, <2>3 DEF Memory
    <3> QED
      BY <1>1, <2>1, <3>1 DEF HoldsAnswer
  <2>4. CASE UNCHANGED mem
    BY <1>1, <2>1, <2>4 DEF HoldsAnswer
  <2> QED
    BY <1>5, <2>2, <2>3, <2>4 DEF TakeReconcileJob
<1>6. CASE GetAnswered(a) \/ GetAnsweredBadly(a)
  BY <1>2, <1>6 DEF GetAnswered, GetAnsweredBadly, Answer, Verdicts
<1>7. CASE Sweep(a)
  <2>1. CASE BeginApply(a, "TECHNICAL_RETRY_PENDING", FALSE, "SUBMIT")
    BY <1>2, <2>1
  <2>2. CASE ~BeginApply(a, "TECHNICAL_RETRY_PENDING", FALSE, "SUBMIT")
    <3>1. mem' = [mem EXCEPT ![a].publish =
                    IF row.status \in Reconcilable THEN "RECONCILE" ELSE "SUBMIT"]
      BY <1>7, <2>2 DEF Sweep
    <3>2. (mem'[a].artifact <=> mem[a].artifact) /\ (mem'[a].response <=> mem[a].response)
      BY <1>0, <3>1 DEF Memory
    <3>3. ~mem[a].artifact
      BY <1>1, <1>7 DEF Sweep
    <3> QED
      BY <1>1, <3>2, <3>3 DEF HoldsAnswer
  <2> QED
    BY <2>1, <2>2
<1> QED
  BY <1>3, <1>4, <1>5, <1>6, <1>7, <1>8

\* Who reads a response finds the row terminal, and applies no other result to it.
LEMMA ApplyHolds ==
    ASSUME TypeOK, AnswerInv, NEW a \in Actors, ApplyStep(a)
    PROVE  HoldsAnswer(a)
<1>0. mem \in [Actors -> Memory] /\ pc \in [Actors -> Labels] /\ mem[a] \in Memory
  BY DEF TypeOK
<1>1. /\ mem[a].artifact => /\ mem[a].result \in Verdicts
                            /\ pc[a] \in {"apply", "store", "commit", "index"}
      /\ mem[a].response => row.status \in Terminal
  BY DEF AnswerInv, HeldAnswers
<1>2. ASSUME AfterApply(a) PROVE HoldsAnswer(a)
  <2>1. ~mem'[a].artifact /\ ~mem'[a].response
    BY <1>2, AfterApplyEffect
  <2> QED
    BY <2>1 DEF HoldsAnswer
<1>3. CASE ReadAndEvaluate(a)
  BY <1>0, <1>1, <1>2, <1>3 DEF Memory, HoldsAnswer, ReadAndEvaluate, AnswerInv,
     EvidencedRow, Terminal
<1>4. CASE StoreResponseArtifact(a) \/ CommitResult(a) \/ IndexResponseArtifact(a)
  BY <1>0, <1>1, <1>2, <1>4 DEF HoldsAnswer, StoreResponseArtifact, CommitResult,
     IndexResponseArtifact, Conclude
<1>5. CASE PublishNext(a)
  BY <1>0, <1>5 DEF HoldsAnswer, PublishNext, Finish, NoMemory
<1> QED
  BY <1>3, <1>4, <1>5 DEF ApplyStep

\* The step of the invariant, and what it says of the row: a terminal status stays, and
\* so does the reference to the response.
LEMMA AnswerStep ==
    ASSUME TypeOK, AnswerInv, [Next]_vars, NoStaleMark
    PROVE  /\ AnswerInv'
           /\ row.status \in Terminal => row'.status = row.status
           /\ row.response => row'.response
<1>1. /\ EvidencedRow'
      /\ row.status \in Terminal => row'.status = row.status
      /\ row.response => row'.response
  <2>1. CASE KeepsAnswer
    BY <2>1 DEF KeepsAnswer, AnswerInv, EvidencedRow, Terminal
  <2>2. ASSUME NEW a \in Actors, CommitResult(a)
        PROVE  EvidencedRow' /\ (row.status \in Terminal => row' = row)
    BY <2>2, CommitStep
  <2> QED
    BY <2>1, <2>2, RowStep DEF AnswerInv, EvidencedRow, Terminal
<1>2. HeldAnswers'
  <2>1. ASSUME NEW a \in Actors, Only(a), HoldsAnswer(a) PROVE HeldAnswers'
    BY <1>1, <2>1 DEF Only, HoldsAnswer, AnswerInv, HeldAnswers
  <2>2. ASSUME UNCHANGED <<pc, mem>> PROVE HeldAnswers'
    BY <1>1, <2>2 DEF AnswerInv, HeldAnswers
  <2>3. ASSUME NEW c \in Clients, ClientStep(c) \/ SubmitRead(c) PROVE HeldAnswers'
    BY <2>1, <2>3, ActorsAct, RequestHolds, ApplyHolds DEF ClientStep, Actors
  <2>4. ASSUME NEW w \in Workers,
               \/ WorkerStep(w) \/ PostAnsweredBadly(w) \/ PostTokenExpired(w)
               \/ GetAnsweredBadly(w)
        PROVE  HeldAnswers'
    BY <2>1, <2>4, ActorsAct, JobHolds, ApplyHolds, RequestHolds DEF WorkerStep, Actors
  <2>5. ASSUME NEW s \in Sweepers, SweeperStep(s) PROVE HeldAnswers'
    BY <2>1, <2>5, ActorsAct, JobHolds, ApplyHolds DEF SweeperStep, Actors
  <2>6. ASSUME NEW a \in Actors, HandleSubmitFailure(a) \/ Throw(a) \/ Crash(a)
        PROVE  HeldAnswers'
    BY <2>1, <2>6, ActorsAct, RequestHolds
  <2>7. CASE TimeStep \/ RequestReconciliation \/ HandleCallback \/ ChangeConnection
    BY <2>2, <2>7 DEF TimeStep, Decide, BecomeDue, LeaseEnds, SlotEnds,
       RequestReconciliation, HandleCallback, Signal, ChangeConnection
  <2> QED
    BY <2>2, <2>3, <2>4, <2>5, <2>6, <2>7 DEF Next, Disturbance, vars, Actors
<1> QED
  BY <1>1, <1>2 DEF AnswerInv

\* Initially nothing is recorded.
LEMMA InitAnswer ==
    ASSUME Init PROVE AnswerInv
BY DEF Init, AnswerInv, EvidencedRow, HeldAnswers, NoMemory, Verdicts

\* With any number of requests, jobs, sweeps, crashes, failures and bad answers, nothing
\* but the stale mark of a submit request takes an answer back: without it the two rows
\* agree on the verdict, a terminal row keeps its status, and the reference to
\* Hacienda's response is kept.
THEOREM AnswersAreKept ==
    Spec /\ [][NoStaleMark]_vars
        => []VerdictsAgree /\ TerminalIsFinal /\ ResponseIsKept
<1>1. TypeOK /\ AnswerInv /\ [Next]_vars /\ [NoStaleMark]_vars => AnswerInv'
  <2>1. CASE UNCHANGED vars
    BY <2>1 DEF vars, AnswerInv, EvidencedRow, HeldAnswers
  <2> QED
    BY <2>1, AnswerStep
<1>2. TypeOK /\ AnswerInv /\ [Next]_vars /\ [NoStaleMark]_vars
         => [row.status \in Terminal => row'.status = row.status]_vars
  BY AnswerStep
<1>3. TypeOK /\ AnswerInv /\ [Next]_vars /\ [NoStaleMark]_vars
         => [row.response => row'.response]_vars
  BY AnswerStep
<1>4. OutcomeInv /\ AnswerInv => VerdictsAgree
  BY DEF OutcomeInv, RowImpliesDocument, AnswerInv, EvidencedRow, VerdictsAgree
<1> QED
  BY <1>1, <1>2, <1>3, <1>4, InitAnswer, TypeCorrect, OutcomeCorrect, PTL
     DEF Spec, TerminalIsFinal, ResponseIsKept
-----------------------------------------------------------------------------
(* The first request of a document marks nothing stale *)

Unrequested == {None, "REQUESTED"}

\* What a provider may answer and a failure may apply.
ResultsApply(a) ==
    /\ mem[a].result \notin {"REQUESTED", "QUEUED", "SUBMITTING", "SUPERSEDED"}
    /\ pc[a] \in {"apply", "store", "commit"} => mem[a].result # None

\* At most one request runs, and until it has marked the row nobody else writes it.
RequestInv ==
    /\ spent["submit"] <= Limit["submit"]
    /\ spent["submit"] = 0 => /\ row.status \in {None, "SUPERSEDED"}
                              /\ \A a \in Actors : pc[a] \notin {"create", "mark"}
    /\ \A a \in Actors : pc[a] = "create" => row.status = None
    /\ \A a \in Actors : pc[a] = "mark" =>
          row.status = "REQUESTED" /\ mem[a].seen = "REQUESTED"
    /\ \A a, b \in Actors : {pc[a], pc[b]} \subseteq {"create", "mark"} => a = b
    /\ row.status \in Unrequested => \A a \in Actors : pc[a] \notin {"store", "commit", "index"}
    /\ row.status = None => /\ \A a \in Actors : pc[a] \in {"idle", "create"}
                            /\ \A a \in Actors : mem[a].work = None
                            /\ \A job \in Jobs : queue[job] = 0
    /\ \A a \in Actors : ResultsApply(a)

\* A step of a job, a sweep or a failure, as the first request sees it.
LeavesRequest(a) ==
    /\ Only(a)
    /\ pc'[a] \notin {"create", "mark"}
    /\ mem'[a].result \notin {"REQUESTED", "QUEUED", "SUBMITTING", "SUPERSEDED"}
    /\ pc'[a] \in {"apply", "store", "commit"} => mem'[a].result # None
    /\ row.status # None
    /\ \/ row'.status = row.status
       \/ /\ row.status \notin Unrequested \cup Terminal
          /\ row'.status \notin Unrequested
    /\ pc'[a] \in {"store", "commit", "index"} => row.status # "REQUESTED"
    /\ spent'["submit"] = spent["submit"]

LEMMA LeavesRequestKeeps ==
    ASSUME RequestInv, NEW a \in Actors, LeavesRequest(a)
    PROVE  RequestInv'
<1>1. \A b \in Actors : b # a => pc'[b] = pc[b] /\ mem'[b] = mem[b]
  BY DEF LeavesRequest, Only
<1>2. \A b \in Actors : pc'[b] \in {"create", "mark"} => b # a
  BY DEF LeavesRequest
<1>3. row'.status # None
  BY DEF LeavesRequest, Unrequested
<1>4. row.status = "REQUESTED" <=> row'.status = "REQUESTED"
  BY DEF LeavesRequest, Unrequested
<1>5. \A b \in Actors : ResultsApply(b)'
  BY <1>1 DEF LeavesRequest, RequestInv, ResultsApply
<1>6. /\ spent'["submit"] <= Limit["submit"]
      /\ spent'["submit"] = 0 => /\ row'.status \in {None, "SUPERSEDED"}
                                 /\ \A b \in Actors : pc'[b] \notin {"create", "mark"}
  BY <1>1, <1>2 DEF LeavesRequest, RequestInv, Unrequested, Terminal
<1>7. /\ \A b \in Actors : pc'[b] = "create" => row'.status = None
      /\ \A b \in Actors : pc'[b] = "mark" =>
            row'.status = "REQUESTED" /\ mem'[b].seen = "REQUESTED"
      /\ \A b, c \in Actors : {pc'[b], pc'[c]} \subseteq {"create", "mark"} => b = c
  BY <1>1, <1>2, <1>3, <1>4 DEF RequestInv, LeavesRequest
<1>8. row'.status \in Unrequested =>
         \A b \in Actors : pc'[b] \notin {"store", "commit", "index"}
  BY <1>1, <1>3, <1>4 DEF RequestInv, LeavesRequest, Unrequested
<1> QED
  BY <1>3, <1>5, <1>6, <1>7, <1>8 DEF RequestInv

\* Jobs and sweeps find no work until the row exists.
LEMMA WorkNeedsRow ==
    ASSUME RequestInv, NEW a \in Actors,
           \/ ClaimSubmission(a) \/ TakeReconcileJob(a) \/ Sweep(a)
           \/ pc[a] \notin {"idle", "create"} \/ mem[a].work # None
    PROVE  row.status # None
<1>1. CASE ClaimSubmission(a) \/ TakeReconcileJob(a)
  <2>1. \E job \in Jobs : queue[job] > 0
    BY <1>1 DEF ClaimSubmission, TakeReconcileJob, Jobs
  <2> QED
    BY <2>1 DEF RequestInv
<1>2. CASE Sweep(a)
  BY <1>2 DEF Sweep, DueStatuses, ClaimableStatuses, Reconcilable, None
<1>3. CASE pc[a] \notin {"idle", "create"} \/ mem[a].work # None
  BY <1>3 DEF RequestInv
<1> QED
  BY <1>1, <1>2, <1>3

\* A submit job up to the provider's answer leaves the first request alone.
LEMMA SubmitJobLeaves ==
    ASSUME TypeOK, RequestInv, NEW a \in Actors,
           \/ ClaimSubmission(a) \/ LoadContext(a) \/ PostAnswered(a)
           \/ PostAnsweredBadly(a) \/ PostTokenExpired(a)
    PROVE  RequestInv'
<1>0. /\ mem \in [Actors -> Memory] /\ pc \in [Actors -> Labels] /\ mem[a] \in Memory
      /\ row \in Row /\ spent \in [Disturbances -> Nat]
  BY DEF TypeOK
<1>1. Only(a)
  BY ActorsAct
<1>2. mem[a].result \notin {"REQUESTED", "QUEUED", "SUBMITTING", "SUPERSEDED"}
  BY DEF RequestInv, ResultsApply
<1>3. row.status # None
  BY WorkNeedsRow DEF LoadContext, PostAnswered, PostAnsweredBadly, PostTokenExpired
<1>4. ASSUME NEW result, NEW artifact \in BOOLEAN, NEW job,
             BeginApply(a, result, artifact, job)
      PROVE  pc'[a] = "apply" /\ mem'[a].result = result
  BY <1>4, BeginApplyEffect
<1>5. CASE ClaimSubmission(a)
  <2>1. CASE UNCHANGED <<row, pc, mem>>
    <3>1. row' = row /\ pc' = pc /\ mem' = mem /\ spent' = spent
      BY <1>5, <2>1 DEF ClaimSubmission
    <3> QED
      BY <1>3, <3>1 DEF RequestInv, ResultsApply
  <2>2. CASE /\ row.status \in ClaimableStatuses
             /\ row' = [row EXCEPT !.status = "SUBMITTING", !.fresh = TRUE]
             /\ pc' = [pc EXCEPT ![a] = "load"]
             /\ mem' = [mem EXCEPT ![a].work = "SUBMIT"]
    <3>1. pc'[a] = "load" /\ mem'[a].result = mem[a].result
      BY <1>0, <2>2 DEF Memory
    <3>2. row'.status = "SUBMITTING" /\ row.status \in ClaimableStatuses
      BY <1>0, <2>2 DEF Row
    <3>3. spent' = spent
      BY <1>5 DEF ClaimSubmission
    <3>4. LeavesRequest(a)
      BY <1>1, <1>2, <1>3, <3>1, <3>2, <3>3 DEF LeavesRequest, ClaimableStatuses,
         Unrequested, Terminal, Verdicts, None
    <3> QED
      BY <3>4, LeavesRequestKeeps
  <2> QED
    BY <1>5, <2>1, <2>2 DEF ClaimSubmission
<1>6. ASSUME UNCHANGED row, spent'["submit"] = spent["submit"],
             \/ pc'[a] \in {"send", "resend"} /\ mem'[a].result = mem[a].result
             \/ /\ pc'[a] = "apply"
                /\ mem'[a].result \in {"ACKNOWLEDGED", "POST_OUTCOME_UNKNOWN",
                                       "TECHNICAL_RETRY_PENDING", "MANUAL_REVIEW_REQUIRED"}
      PROVE  RequestInv'
  <2>1. LeavesRequest(a)
    BY <1>1, <1>2, <1>3, <1>6 DEF LeavesRequest, None
  <2> QED
    BY <2>1, LeavesRequestKeeps
<1>7. CASE LoadContext(a)
  BY <1>0, <1>4, <1>6, <1>7 DEF LoadContext
<1>8. CASE PostAnswered(a)
  BY <1>4, <1>6, <1>8 DEF PostAnswered, Answer
<1>9. CASE PostAnsweredBadly(a) \/ PostTokenExpired(a)
  <2>1. spent'["submit"] = spent["submit"] /\ UNCHANGED row
    BY <1>0, <1>9 DEF PostAnsweredBadly, PostTokenExpired, Spend, Disturbances
  <2> QED
    BY <1>0, <1>4, <1>6, <1>9, <2>1 DEF PostAnsweredBadly, PostTokenExpired, Answer
<1> QED
  BY <1>5, <1>7, <1>8, <1>9

\* So does a reconcile job.
LEMMA ReconcileJobLeaves ==
    ASSUME TypeOK, RequestInv, NEW a \in Actors,
           TakeReconcileJob(a) \/ GetAnswered(a) \/ GetAnsweredBadly(a)
    PROVE  RequestInv'
<1>0. /\ mem \in [Actors -> Memory] /\ pc \in [Actors -> Labels] /\ mem[a] \in Memory
      /\ row \in Row /\ spent \in [Disturbances -> Nat]
  BY DEF TypeOK
<1>1. Only(a)
  BY ActorsAct
<1>2. mem[a].result \notin {"REQUESTED", "QUEUED", "SUBMITTING", "SUPERSEDED"}
  BY DEF RequestInv, ResultsApply
<1>3. row.status # None
  BY WorkNeedsRow DEF GetAnswered, GetAnsweredBadly
<1>4. ASSUME NEW result, NEW artifact \in BOOLEAN, NEW job,
             BeginApply(a, result, artifact, job)
      PROVE  pc'[a] = "apply" /\ mem'[a].result = result
  BY <1>4, BeginApplyEffect
<1>5. row'.status = row.status /\ spent'["submit"] = spent["submit"]
  BY <1>0 DEF Row, TakeReconcileJob, GetAnswered, GetAnsweredBadly, Spend, Disturbances
<1>6. ASSUME \/ pc'[a] = "query" /\ mem'[a].result = mem[a].result
             \/ /\ pc'[a] = "apply"
                /\ mem'[a].result \in {"MANUAL_REVIEW_REQUIRED", "PROCESSING",
                                       "TECHNICAL_RETRY_PENDING"} \cup Verdicts
      PROVE  RequestInv'
  <2>1. LeavesRequest(a)
    BY <1>1, <1>2, <1>3, <1>5, <1>6 DEF LeavesRequest, None, Verdicts
  <2> QED
    BY <2>1, LeavesRequestKeeps
<1>7. CASE TakeReconcileJob(a)
  <2>1. CASE UNCHANGED <<row, pc, mem>>
    <3>1. row' = row /\ pc' = pc /\ mem' = mem /\ spent' = spent
      BY <1>7, <2>1 DEF TakeReconcileJob
    <3> QED
      BY <1>3, <3>1 DEF RequestInv, ResultsApply
  <2>2. CASE /\ pc' = [pc EXCEPT ![a] = "apply"]
             /\ mem' = [mem EXCEPT ![a] = [@ EXCEPT !.work = "RECONCILE",
                                                     !.result = "MANUAL_REVIEW_REQUIRED"]]
    BY <1>0, <1>6, <2>2 DEF Memory
  <2>3. CASE /\ pc' = [pc EXCEPT ![a] = "query"]
             /\ mem' = [mem EXCEPT ![a].work = "RECONCILE"]
    BY <1>0, <1>6, <2>3 DEF Memory
  <2> QED
    BY <1>7, <2>1, <2>2, <2>3 DEF TakeReconcileJob
<1>8. CASE GetAnswered(a) \/ GetAnsweredBadly(a)
  BY <1>4, <1>6, <1>8 DEF GetAnswered, GetAnsweredBadly, Answer
<1> QED
  BY <1>7, <1>8

\* Applying a result writes no row that was created or requested only: the transition
\* table lets no result through to it.
LEMMA ApplyLeaves ==
    ASSUME OutcomeInv, RequestInv, NEW a \in Actors, ApplyStep(a)
    PROVE  RequestInv'
<1>0. /\ mem \in [Actors -> Memory] /\ pc \in [Actors -> Labels] /\ mem[a] \in Memory
      /\ row \in Row /\ TypeOK
  BY DEF OutcomeInv, TypeOK
<1>1. Only(a) /\ spent' = spent
  BY <1>0, ActorsAct DEF ApplyStep, ReadAndEvaluate, StoreResponseArtifact, CommitResult,
     IndexResponseArtifact, PublishNext
<1>2. ResultsApply(a)
  BY DEF RequestInv
<1>3. row.status # None
  BY WorkNeedsRow DEF ApplyStep, ReadAndEvaluate, StoreResponseArtifact, CommitResult,
     IndexResponseArtifact, PublishNext
<1>4. ASSUME AfterApply(a) \/ Finish(a)
      PROVE  pc'[a] \in {"idle", "publish"} /\ mem'[a].result = None
  <2>1. CASE AfterApply(a)
    BY <1>0, <2>1, AfterApplyEffect
  <2>2. CASE Finish(a)
    BY <1>0, <2>2, FinishLeaves DEF Leaves
  <2> QED
    BY <1>4, <2>1, <2>2
<1>5. ASSUME \/ row'.status = row.status
             \/ row.status \notin Unrequested \cup Terminal /\ row'.status \notin Unrequested,
             \/ pc'[a] \in {"idle", "publish"} /\ mem'[a].result = None
             \/ /\ pc'[a] \in {"store", "commit", "index"}
                /\ mem'[a].result = mem[a].result
                /\ mem[a].result # None
                /\ row.status # "REQUESTED"
      PROVE  RequestInv'
  <2>1. LeavesRequest(a)
    BY <1>1, <1>2, <1>3, <1>5 DEF LeavesRequest, ResultsApply, None
  <2> QED
    BY <2>1, LeavesRequestKeeps
<1>6. CASE ReadAndEvaluate(a)
  <2>1. UNCHANGED row
    BY <1>6 DEF ReadAndEvaluate
  <2>2. CASE EvaluateTransition(row.status, mem[a].result) = "APPLIED"
    <3>1. row.status # "REQUESTED" /\ mem[a].result # None
      BY <1>2, <1>6, <2>2 DEF ReadAndEvaluate, ResultsApply, EvaluateTransition,
         CanTransition, Successors, Statuses
    <3>2. pc'[a] \in {"store", "commit"} /\ mem'[a].result = mem[a].result
      BY <1>0, <1>6, <2>2 DEF ReadAndEvaluate, Memory
    <3> QED
      BY <1>5, <2>1, <3>1, <3>2
  <2>3. CASE EvaluateTransition(row.status, mem[a].result) # "APPLIED"
    BY <1>4, <1>5, <1>6, <2>1, <2>3 DEF ReadAndEvaluate
  <2> QED
    BY <2>2, <2>3
<1>7. ASSUME pc[a] \in {"store", "commit", "index"}
      PROVE  row.status \notin Unrequested
  BY <1>7 DEF RequestInv
<1>8. CASE StoreResponseArtifact(a)
  <2>1. UNCHANGED <<row, mem>> /\ pc'[a] = "commit" /\ mem[a].result # None
    BY <1>0, <1>2, <1>8 DEF StoreResponseArtifact, ResultsApply
  <2> QED
    BY <1>5, <1>7, <1>8, <2>1 DEF StoreResponseArtifact, Unrequested
<1>9. CASE CommitResult(a)
  <2>1. row.status \notin Unrequested /\ mem[a].result # None
    BY <1>2, <1>7, <1>9 DEF CommitResult, ResultsApply
  <2>2. \/ row'.status = row.status
        \/ row.status \notin Unrequested \cup Terminal /\ row'.status \notin Unrequested
    BY <1>0, <1>2, <1>9, <2>1 DEF CommitResult, WrittenRow, Row, ResultsApply, Unrequested
  <2>3. CASE mem[a].artifact
    BY <1>0, <1>5, <1>9, <2>1, <2>2, <2>3 DEF CommitResult, Unrequested
  <2>4. CASE ~mem[a].artifact
    BY <1>4, <1>5, <1>9, <2>2, <2>4 DEF CommitResult, Conclude
  <2> QED
    BY <2>3, <2>4
<1>10. CASE IndexResponseArtifact(a) \/ PublishNext(a)
  BY <1>4, <1>5, <1>10 DEF IndexResponseArtifact, PublishNext, Conclude
<1> QED
  BY <1>6, <1>8, <1>9, <1>10 DEF ApplyStep

\* The sweep leaves the first request alone: a requested row is not due.
LEMMA SweepLeaves ==
    ASSUME TypeOK, RequestInv, NEW a \in Actors, Sweep(a)
    PROVE  RequestInv'
<1>0. /\ mem \in [Actors -> Memory] /\ pc \in [Actors -> Labels] /\ mem[a] \in Memory
  BY DEF TypeOK
<1>1. Only(a) /\ row.status # None /\ UNCHANGED <<row, spent>>
  BY ActorsAct, WorkNeedsRow DEF Sweep
<1>2. ResultsApply(a)
  BY DEF RequestInv
<1>3. \/ pc'[a] = "publish" /\ mem'[a].result = mem[a].result
      \/ pc'[a] = "apply" /\ mem'[a].result = "TECHNICAL_RETRY_PENDING"
  <2>1. CASE BeginApply(a, "TECHNICAL_RETRY_PENDING", FALSE, "SUBMIT")
    BY <2>1, BeginApplyEffect
  <2>2. CASE /\ pc' = [pc EXCEPT ![a] = "publish"]
             /\ mem' = [mem EXCEPT ![a].publish =
                          IF row.status \in Reconcilable THEN "RECONCILE" ELSE "SUBMIT"]
    BY <1>0, <2>2 DEF Memory
  <2> QED
    BY <2>1, <2>2 DEF Sweep
<1>4. LeavesRequest(a)
  BY <1>1, <1>2, <1>3 DEF LeavesRequest, ResultsApply, None
<1> QED
  BY <1>4, LeavesRequestKeeps

\* A failed or crashed execution gives its request up, and queues no job for a row that
\* does not exist.
LEMMA FailureLeaves ==
    ASSUME TypeOK, RequestInv, NEW a \in Actors,
           HandleSubmitFailure(a) \/ Throw(a) \/ Crash(a) \/ IndexMissing(a)
    PROVE  RequestInv'
<1>0. /\ mem \in [Actors -> Memory] /\ pc \in [Actors -> Labels] /\ mem[a] \in Memory
      /\ spent \in [Disturbances -> Nat]
  BY DEF TypeOK
<1>1. Only(a) /\ UNCHANGED row
  BY ActorsAct DEF HandleSubmitFailure, Throw, Crash, IndexMissing, Abandon
<1>2. spent'["submit"] = spent["submit"]
  BY <1>0 DEF HandleSubmitFailure, Throw, Crash, IndexMissing, Spend, Disturbances
<1>3. \/ pc'[a] = "apply" /\ mem'[a].result = "TECHNICAL_RETRY_PENDING"
      \/ pc'[a] = "idle" /\ mem'[a].result = None
  <2>1. CASE HandleSubmitFailure(a)
    BY <1>0, <2>1 DEF HandleSubmitFailure, NoMemory
  <2>2. CASE Throw(a) \/ Crash(a) \/ IndexMissing(a)
    BY <2>2, FinishLeaves DEF Throw, Crash, IndexMissing, Abandon, Leaves
  <2> QED
    BY <2>1, <2>2
<1>4. CASE row.status # None
  <2>1. LeavesRequest(a)
    BY <1>1, <1>2, <1>3, <1>4 DEF LeavesRequest, None
  <2> QED
    BY <2>1, LeavesRequestKeeps
<1>5. CASE row.status = None
  <2>1. mem[a].work = None /\ \A job \in Jobs : queue[job] = 0
    BY <1>5 DEF RequestInv
  <2>2. Throw(a) \/ Crash(a) \/ IndexMissing(a)
    BY <2>1 DEF HandleSubmitFailure, None
  <2>3. Finish(a) /\ UNCHANGED queue
    BY <2>1, <2>2 DEF Throw, Crash, IndexMissing, Abandon, Jobs, None
  <2>4. pc'[a] = "idle" /\ mem'[a].result = None /\ mem'[a].work = None
    BY <1>0, <2>3 DEF Finish, NoMemory
  <2>5. \A b \in Actors : pc'[b] = "create" => pc[b] = "create"
    BY <1>1, <2>4 DEF Only
  <2>6. \A b \in Actors : /\ pc'[b] \in {"idle", "create"}
                          /\ mem'[b].work = None
                          /\ ResultsApply(b)'
    BY <1>1, <1>5, <2>4 DEF Only, RequestInv, ResultsApply, None
  <2>7. \A b \in Actors : pc'[b] \in {"create", "mark"} => pc[b] = pc'[b]
    BY <1>1, <2>4 DEF Only
  <2> QED
    BY <1>1, <1>2, <1>5, <2>1, <2>3, <2>5, <2>6, <2>7 DEF RequestInv
<1> QED
  BY <1>4, <1>5

\* Nor do signals, time and the connection touch the first request.
LEMMA EnvironmentLeaves ==
    ASSUME TypeOK, RequestInv,
           RequestReconciliation \/ HandleCallback \/ TimeStep \/ ChangeConnection
    PROVE  RequestInv'
<1>0. row \in Row /\ spent \in [Disturbances -> Nat]
  BY DEF TypeOK
<1>1. row'.status = row.status
  BY <1>0 DEF Row, RequestReconciliation, HandleCallback, Signal, TimeStep, Decide,
     BecomeDue, LeaseEnds, SlotEnds, ChangeConnection
<1>2. pc' = pc /\ mem' = mem /\ spent'["submit"] = spent["submit"]
  BY <1>0 DEF RequestReconciliation, HandleCallback, Signal, TimeStep, Decide, BecomeDue,
     LeaseEnds, SlotEnds, ChangeConnection, Spend, Disturbances
<1>3. row.status = None => queue' = queue
  BY DEF RequestReconciliation, HandleCallback, Signal, TimeStep, Decide, BecomeDue,
     LeaseEnds, SlotEnds, ChangeConnection
<1> QED
  BY <1>1, <1>2, <1>3 DEF RequestInv, ResultsApply

\* With at most one request of a document, its three steps keep the invariant.
LEMMA ClientLeaves ==
    ASSUME Limit["submit"] <= 1, OutcomeInv, RequestInv, NEW a \in Actors,
           SubmitRead(a) \/ SubmitCreate(a) \/ SubmitMark(a)
    PROVE  RequestInv'
<1>0. /\ mem \in [Actors -> Memory] /\ pc \in [Actors -> Labels] /\ mem[a] \in Memory
      /\ row \in Row /\ spent \in [Disturbances -> Nat] /\ TypeOK
      /\ Limit["submit"] \in Nat
  BY BoundsAreNat DEF OutcomeInv, TypeOK, Disturbances
<1>1. Only(a)
  BY <1>0, ActorsAct
<1>2. ResultsApply(a)
  BY DEF RequestInv
<1>3. CASE SubmitRead(a)
  <2>1. /\ spent["submit"] = 0 /\ spent'["submit"] = 1 /\ Limit["submit"] = 1
        /\ row.status \notin Terminal
    BY <1>0, <1>3 DEF SubmitRead, Spend, RequestInv, Disturbances
  <2>2. row.status = None /\ \A b \in Actors : pc[b] \notin {"create", "mark"}
    BY <2>1 DEF RequestInv, Terminal
  <2>3. /\ pc'[a] = "create"
        /\ mem'[a].result = mem[a].result
        /\ mem'[a].work = mem[a].work
        /\ UNCHANGED <<row, queue>>
    BY <1>0, <1>3, <2>2 DEF SubmitRead, Memory
  <2>4. \A b \in Actors : /\ pc'[b] \in {"idle", "create"}
                          /\ mem'[b].work = None
                          /\ ResultsApply(b)'
                          /\ pc'[b] = "create" => b = a
    BY <1>1, <1>2, <2>2, <2>3 DEF Only, RequestInv, ResultsApply
  <2> QED
    BY <2>1, <2>2, <2>3, <2>4 DEF RequestInv
<1>4. CASE SubmitCreate(a)
  <2>1. row.status = None /\ \A b \in Actors : pc[b] \in {"create", "mark"} => b = a
    BY <1>4 DEF SubmitCreate, RequestInv
  <2>2. row'.status = "REQUESTED"
    BY <1>0, <1>4, <2>1 DEF SubmitCreate, Row
  <2>3. pc'[a] = "mark" /\ mem'[a].seen = "REQUESTED" /\ mem'[a].result = mem[a].result
    BY <1>0, <1>4, <2>2 DEF SubmitCreate, Memory
  <2>4. spent' = spent /\ spent["submit"] # 0
    BY <1>4 DEF SubmitCreate, RequestInv
  <2>5. \A b \in Actors : /\ pc'[b] \notin {"create", "store", "commit", "index"}
                          /\ pc'[b] = "mark" => b = a
                          /\ ResultsApply(b)'
    BY <1>1, <1>2, <2>1, <2>3 DEF Only, RequestInv, ResultsApply
  <2> QED
    BY <2>2, <2>3, <2>4, <2>5 DEF RequestInv, None
<1>5. CASE SubmitMark(a)
  <2>1. /\ row.status = "REQUESTED" /\ mem[a].seen = "REQUESTED"
        /\ \A b \in Actors : pc[b] \in {"create", "mark"} => b = a
    BY <1>5 DEF SubmitMark, RequestInv
  <2>2. JobNameForSubmissionStatus(mem[a].seen) = "SUBMIT"
    BY <2>1 DEF JobNameForSubmissionStatus, Reconcilable
  <2>3. row'.status = "QUEUED"
    BY <1>0, <1>5, <2>2 DEF SubmitMark, Row
  <2>4. pc'[a] = "publish" /\ mem'[a].result = None
    BY <1>0, <1>5, <2>2 DEF SubmitMark, NoMemory, None
  <2>5. spent' = spent /\ spent["submit"] # 0
    BY <1>5 DEF SubmitMark, RequestInv
  <2>6. \A b \in Actors : pc'[b] \notin {"create", "mark"} /\ ResultsApply(b)'
    BY <1>1, <2>1, <2>4 DEF Only, RequestInv, ResultsApply, None
  <2> QED
    BY <2>3, <2>5, <2>6 DEF RequestInv, Unrequested, None
<1> QED
  BY <1>3, <1>4, <1>5

LEMMA RequestStep ==
    ASSUME Limit["submit"] <= 1, OutcomeInv, RequestInv, [Next]_vars
    PROVE  RequestInv' /\ NoStaleMark
<1>0. TypeOK
  BY DEF OutcomeInv
<1>1. NoStaleMark
  <2>1. ASSUME NEW c \in Clients, SubmitMark(c) PROVE row.status \notin Terminal
    BY <2>1 DEF SubmitMark, RequestInv, Actors, Terminal, Verdicts
  <2> QED
    BY <2>1 DEF NoStaleMark
<1>2. CASE UNCHANGED vars
  BY <1>1, <1>2 DEF vars, RequestInv, ResultsApply
<1>3. ASSUME NEW c \in Clients, ClientStep(c) \/ SubmitRead(c) PROVE RequestInv'
  BY <1>3, ClientLeaves, ApplyLeaves DEF ClientStep, Actors
<1>4. ASSUME NEW w \in Workers,
             \/ WorkerStep(w) \/ PostAnsweredBadly(w) \/ PostTokenExpired(w)
             \/ GetAnsweredBadly(w)
      PROVE  RequestInv'
  BY <1>0, <1>4, SubmitJobLeaves, ReconcileJobLeaves, ApplyLeaves, FailureLeaves
     DEF WorkerStep, Actors
<1>5. ASSUME NEW s \in Sweepers, SweeperStep(s) PROVE RequestInv'
  BY <1>0, <1>5, SweepLeaves, ApplyLeaves DEF SweeperStep, Actors
<1>6. ASSUME NEW a \in Actors, HandleSubmitFailure(a) \/ Throw(a) \/ Crash(a)
      PROVE  RequestInv'
  BY <1>0, <1>6, FailureLeaves
<1>7. CASE RequestReconciliation \/ HandleCallback \/ TimeStep \/ ChangeConnection
  BY <1>0, <1>1, <1>7, EnvironmentLeaves
<1> QED
  BY <1>1, <1>2, <1>3, <1>4, <1>5, <1>6, <1>7 DEF Next, Disturbance, Actors

\* Initially there is neither a request nor work.
LEMMA InitRequest ==
    ASSUME Init PROVE RequestInv
<1>1. Limit["submit"] \in Nat /\ spent["submit"] = 0
  BY BoundsAreNat DEF Init, Disturbances
<1>2. \A a \in Actors : pc[a] = "idle" /\ mem[a] = NoMemory
  BY DEF Init
<1>3. \A job \in Jobs : queue[job] = 0
  BY DEF Init
<1>4. row.status \in {None, "SUPERSEDED"}
  BY DEF Init
<1>5. \A a \in Actors : ResultsApply(a) /\ mem[a].work = None
  BY <1>2 DEF ResultsApply, NoMemory, None
<1> QED
  BY <1>1, <1>2, <1>3, <1>4, <1>5 DEF RequestInv

\* The first request of a document marks nothing stale, whatever the other executions do.
THEOREM FirstRequestIsFresh ==
    ASSUME Limit["submit"] <= 1
    PROVE  Spec => [](OutcomeInv /\ RequestInv) /\ [][NoStaleMark]_vars
<1>1. OutcomeInv /\ RequestInv /\ [Next]_vars => RequestInv' /\ [NoStaleMark]_vars
  BY RequestStep
<1> QED
  BY <1>1, InitRequest, OutcomeCorrect, PTL DEF Spec

\* As long as a document is requested once, a submission row and its document never
\* disagree on a verdict.
THEOREM VerdictsAgreeHolds ==
    ASSUME Limit["submit"] <= 1 PROVE Spec => []VerdictsAgree
BY FirstRequestIsFresh, AnswersAreKept, PTL

\* ... a terminal submission keeps its status whatever stale job, sweep or signal runs ...
THEOREM TerminalIsFinalHolds ==
    ASSUME Limit["submit"] <= 1 PROVE Spec => TerminalIsFinal
BY FirstRequestIsFresh, AnswersAreKept, PTL

\* ... and the reference to Hacienda's response is never lost again.
THEOREM ResponseIsKeptHolds ==
    ASSUME Limit["submit"] <= 1 PROVE Spec => ResponseIsKept
BY FirstRequestIsFresh, AnswersAreKept, PTL
-----------------------------------------------------------------------------
(* One POST at a time, and none of a document Hacienda holds *)

\* The conditions under which the claim protects the POST: one request, no execution dies,
\* no local failure is applied as a technical retry, no failed poll is, and the lease of
\* a claim is longer than the job.  Signals, changes of the connection and answers to the
\* POST are free.
Undisturbed ==
    /\ Limit["submit"] <= 1
    /\ \A kind \in {"crash", "local", "get"} : Limit[kind] = 0
    /\ LeaseOutlivesWorkers

Sending == {"load", "send", "resend"}

\* Statuses from which a claim is, or becomes, possible without a new request.
BeforeClaim == {None, "REQUESTED"} \cup ClaimableStatuses

\* a runs a submit job whose result is not yet committed.
Engaged(a) == pc[a] \in Sending \/ (mem[a].work = "SUBMIT" /\ pc[a] \in {"apply", "commit"})

\* What an execution holds while nothing fails.
JobInOrder(a) ==
    /\ a \notin Workers => pc[a] \in {"idle", "create", "mark", "publish"}
    /\ pc[a] \in Sending => mem[a].work = "SUBMIT" /\ hacienda = "none"
    /\ pc[a] \in {"query", "index"} => mem[a].work = "RECONCILE"
    /\ pc[a] \in {"apply", "store", "commit"} =>
          \/ /\ mem[a].work = "SUBMIT"
             /\ pc[a] # "store"
             /\ mem[a].result \in {"ACKNOWLEDGED", "POST_OUTCOME_UNKNOWN",
                                   "TECHNICAL_RETRY_PENDING", "MANUAL_REVIEW_REQUIRED"}
             /\ ~mem[a].artifact
             /\ mem[a].result = "TECHNICAL_RETRY_PENDING" => hacienda = "none"
          \/ /\ mem[a].work = "RECONCILE"
             /\ mem[a].result \in {"MANUAL_REVIEW_REQUIRED", "PROCESSING"} \cup Verdicts

\* One execution is engaged at a time; a row to be claimed has nobody engaged and nothing
\* posted; a row in flight has its lease and its execution.
ClaimInv ==
    /\ \A kind \in {"crash", "local", "get"} : spent[kind] = 0
    /\ \A a \in Actors : JobInOrder(a)
    /\ \A a, b \in Actors : Engaged(a) /\ Engaged(b) => a = b
    /\ row.status \in BeforeClaim => hacienda = "none" /\ \A a \in Actors : ~Engaged(a)
    /\ row.status = "SUBMITTING" => row.fresh /\ \E w \in Workers : Engaged(w)

\* What a step of one execution has to leave behind.
LEMMA ClaimKeeps ==
    ASSUME ClaimInv, NEW a \in Actors, Only(a), JobInOrder(a)',
           Engaged(a)' => Engaged(a) \/ row.status \in BeforeClaim,
           row'.status \in BeforeClaim =>
              /\ hacienda' = "none"
              /\ ~Engaged(a)'
              /\ row.status \in BeforeClaim \/ Engaged(a),
           row'.status = "SUBMITTING" =>
              /\ row'.fresh
              /\ Engaged(a)' \/ (row.status = "SUBMITTING" /\ ~Engaged(a)),
           hacienda' = hacienda \/ Engaged(a),
           \A kind \in {"crash", "local", "get"} : spent'[kind] = spent[kind]
    PROVE  ClaimInv'
<1>1. \A b \in Actors : b # a => /\ pc'[b] = pc[b]
                                 /\ mem'[b] = mem[b]
                                 /\ Engaged(b)' <=> Engaged(b)
  BY DEF Only, Engaged
<1>2. \A b \in Actors : JobInOrder(b)'
  <2>1. SUFFICES ASSUME NEW b \in Actors, b # a PROVE JobInOrder(b)'
    OBVIOUS
  <2>2. JobInOrder(b) /\ (Engaged(a) => ~Engaged(b))
    BY <2>1 DEF ClaimInv
  <2>3. CASE hacienda' = hacienda
    BY <1>1, <2>1, <2>2, <2>3 DEF JobInOrder
  <2>4. CASE Engaged(a)
    BY <1>1, <2>1, <2>2, <2>4 DEF JobInOrder, Engaged
  <2> QED
    BY <2>3, <2>4
<1>3. \A b, c \in Actors : Engaged(b)' /\ Engaged(c)' => b = c
  BY <1>1 DEF ClaimInv
<1>4. row'.status \in BeforeClaim => hacienda' = "none" /\ \A b \in Actors : ~Engaged(b)'
  BY <1>1 DEF ClaimInv
<1>5. row'.status = "SUBMITTING" => row'.fresh /\ \E w \in Workers : Engaged(w)'
  <2>1. SUFFICES ASSUME row'.status = "SUBMITTING" PROVE \E w \in Workers : Engaged(w)'
    OBVIOUS
  <2>2. CASE Engaged(a)'
    <3>1. a \in Workers
      BY <2>2 DEF JobInOrder, Engaged, Sending
    <3> QED
      BY <2>2, <3>1
  <2>3. CASE row.status = "SUBMITTING" /\ ~Engaged(a)
    <3>1. PICK w \in Workers : Engaged(w)
      BY <2>3 DEF ClaimInv
    <3> QED
      BY <1>1, <2>3, <3>1 DEF Actors
  <2> QED
    BY <2>1, <2>2, <2>3
<1>6. \A kind \in {"crash", "local", "get"} : spent'[kind] = 0
  BY DEF ClaimInv
<1> QED
  BY <1>2, <1>3, <1>4, <1>5, <1>6 DEF ClaimInv

\* The claim lets one submit job in, and the answer to its POST leaves it engaged.
LEMMA SubmitJobClaims ==
    ASSUME TypeOK, ClaimInv, NEW a \in Workers,
           \/ ClaimSubmission(a) \/ LoadContext(a) \/ PostAnswered(a)
           \/ PostAnsweredBadly(a) \/ PostTokenExpired(a)
    PROVE  ClaimInv'
<1>0. /\ mem \in [Actors -> Memory] /\ pc \in [Actors -> Labels] /\ mem[a] \in Memory
      /\ row \in Row /\ spent \in [Disturbances -> Nat] /\ a \in Actors
  BY DEF TypeOK, Actors
<1>1. Only(a) /\ JobInOrder(a)
  BY <1>0, ActorsAct DEF ClaimInv
<1>2. \A kind \in {"crash", "local", "get"} : spent'[kind] = spent[kind]
  BY <1>0 DEF ClaimSubmission, LoadContext, PostAnswered, PostAnsweredBadly,
     PostTokenExpired, Spend, Disturbances
<1>3. CASE ClaimSubmission(a)
  <2>1. CASE UNCHANGED <<row, pc, mem>>
    <3>1. row' = row /\ pc' = pc /\ mem' = mem /\ hacienda' = hacienda /\ spent' = spent
      BY <1>3, <2>1 DEF ClaimSubmission
    <3> QED
      BY <3>1 DEF ClaimInv, JobInOrder, Engaged
  <2>2. CASE /\ row.status \in ClaimableStatuses
             /\ row' = [row EXCEPT !.status = "SUBMITTING", !.fresh = TRUE]
             /\ pc' = [pc EXCEPT ![a] = "load"]
             /\ mem' = [mem EXCEPT ![a].work = "SUBMIT"]
    <3>1. pc'[a] = "load" /\ mem'[a].work = "SUBMIT"
      BY <1>0, <2>2 DEF Memory
    <3>2. row'.status = "SUBMITTING" /\ row'.fresh /\ row.status \in BeforeClaim
      BY <1>0, <2>2 DEF Row, BeforeClaim
    <3>3. hacienda' = hacienda /\ hacienda = "none"
      BY <1>3, <3>2 DEF ClaimSubmission, ClaimInv
    <3>4. JobInOrder(a)' /\ Engaged(a)'
      BY <3>1, <3>3 DEF JobInOrder, Engaged, Sending
    <3> QED
      BY <1>0, <1>1, <1>2, <3>2, <3>3, <3>4, ClaimKeeps DEF BeforeClaim, ClaimableStatuses,
         None
  <2> QED
    BY <1>3, <2>1, <2>2 DEF ClaimSubmission
<1>4. ASSUME pc[a] \in Sending, UNCHANGED row, Engaged(a)', JobInOrder(a)'
      PROVE  ClaimInv'
  <2>1. Engaged(a)
    BY <1>4 DEF Engaged
  <2>2. row.status \notin BeforeClaim /\ (row.status = "SUBMITTING" => row.fresh)
    BY <1>0, <2>1 DEF ClaimInv
  <2> QED
    BY <1>0, <1>1, <1>2, <1>4, <2>1, <2>2, ClaimKeeps
<1>5. ASSUME NEW result, NEW artifact \in BOOLEAN, NEW job,
             BeginApply(a, result, artifact, job)
      PROVE  /\ pc'[a] = "apply"
             /\ mem'[a].result = result
             /\ mem'[a].artifact <=> artifact
             /\ mem'[a].work = mem[a].work
  BY <1>0, <1>5, BeginApplyEffect
<1>6. ASSUME pc[a] \in Sending, UNCHANGED row,
             pc'[a] = "apply", ~mem'[a].artifact, mem'[a].work = mem[a].work,
             mem'[a].result \in {"ACKNOWLEDGED", "POST_OUTCOME_UNKNOWN",
                                 "TECHNICAL_RETRY_PENDING", "MANUAL_REVIEW_REQUIRED"},
             mem'[a].result = "TECHNICAL_RETRY_PENDING" => hacienda' = hacienda
      PROVE  ClaimInv'
  <2>1. mem[a].work = "SUBMIT" /\ hacienda = "none"
    BY <1>1, <1>6 DEF JobInOrder
  <2> QED
    BY <1>4, <1>6, <2>1 DEF JobInOrder, Engaged, Sending
<1>7. ASSUME pc[a] \in Sending, UNCHANGED <<row, mem>>, hacienda' = hacienda,
             pc'[a] \in Sending
      PROVE  ClaimInv'
  BY <1>1, <1>4, <1>7 DEF JobInOrder, Engaged, Sending
<1>8. CASE LoadContext(a)
  BY <1>0, <1>5, <1>6, <1>7, <1>8 DEF LoadContext, Sending
<1>9. CASE PostAnswered(a) \/ PostAnsweredBadly(a)
  <2>1. UNCHANGED row /\ pc[a] \in Sending
    BY <1>9 DEF PostAnswered, PostAnsweredBadly, Sending
  <2>2. PICK result \in {"ACKNOWLEDGED", "POST_OUTCOME_UNKNOWN",
                        "TECHNICAL_RETRY_PENDING", "MANUAL_REVIEW_REQUIRED"} :
           /\ BeginApply(a, result, FALSE, ScheduledJob(result))
           /\ result = "TECHNICAL_RETRY_PENDING" => hacienda' = hacienda
    BY <1>9 DEF PostAnswered, PostAnsweredBadly, Answer
  <2>3. /\ pc'[a] = "apply"
        /\ mem'[a].result = result
        /\ ~mem'[a].artifact
        /\ mem'[a].work = mem[a].work
    BY <1>5, <2>2
  <2> QED
    BY <1>6, <2>1, <2>2, <2>3
<1>11. CASE PostTokenExpired(a)
  BY <1>0, <1>5, <1>6, <1>7, <1>11 DEF PostTokenExpired, Answer, Sending
<1> QED
  BY <1>3, <1>8, <1>9, <1>11

\* A reconcile job claims nothing: its results leave no row to be claimed.
LEMMA ReconcileJobClaims ==
    ASSUME TypeOK, ClaimInv, Limit["get"] = 0, NEW a \in Workers,
           TakeReconcileJob(a) \/ GetAnswered(a) \/ GetAnsweredBadly(a)
    PROVE  ClaimInv'
<1>0. /\ mem \in [Actors -> Memory] /\ pc \in [Actors -> Labels] /\ mem[a] \in Memory
      /\ row \in Row /\ spent \in [Disturbances -> Nat] /\ a \in Actors
  BY DEF TypeOK, Actors
<1>1. Only(a) /\ JobInOrder(a)
  BY <1>0, ActorsAct DEF ClaimInv
<1>2. TakeReconcileJob(a) \/ GetAnswered(a)
  BY <1>0 DEF GetAnsweredBadly, Spend, Disturbances
<1>3. spent' = spent /\ hacienda' = hacienda /\ row'.status = row.status
      /\ (row.fresh => row'.fresh)
  BY <1>0, <1>2 DEF TakeReconcileJob, GetAnswered, Row
<1>4. ASSUME ~Engaged(a), ~Engaged(a)', JobInOrder(a)' PROVE ClaimInv'
  <2>1. row'.status = "SUBMITTING" => row'.fresh
    BY <1>3 DEF ClaimInv
  <2>2. row'.status \in BeforeClaim => hacienda' = "none"
    BY <1>3 DEF ClaimInv
  <2> QED
    BY <1>0, <1>1, <1>3, <1>4, <2>1, <2>2, ClaimKeeps
<1>5. CASE TakeReconcileJob(a)
  <2>1. ~Engaged(a)
    BY <1>5 DEF TakeReconcileJob, Engaged, Sending
  <2>2. CASE UNCHANGED <<row, pc, mem>>
    <3>1. row' = row /\ pc' = pc /\ mem' = mem /\ hacienda' = hacienda /\ spent' = spent
      BY <1>3, <2>2
    <3> QED
      BY <3>1 DEF ClaimInv, JobInOrder, Engaged
  <2>3. CASE /\ pc' = [pc EXCEPT ![a] = "apply"]
             /\ mem' = [mem EXCEPT ![a] = [@ EXCEPT !.work = "RECONCILE",
                                                     !.result = "MANUAL_REVIEW_REQUIRED"]]
    <3>1. pc'[a] = "apply" /\ mem'[a].work = "RECONCILE"
          /\ mem'[a].result = "MANUAL_REVIEW_REQUIRED"
      BY <1>0, <2>3 DEF Memory
    <3> QED
      BY <1>4, <2>1, <3>1 DEF JobInOrder, Engaged, Sending
  <2>4. CASE /\ pc' = [pc EXCEPT ![a] = "query"]
             /\ mem' = [mem EXCEPT ![a].work = "RECONCILE"]
    <3>1. pc'[a] = "query" /\ mem'[a].work = "RECONCILE"
      BY <1>0, <2>4 DEF Memory
    <3> QED
      BY <1>4, <2>1, <3>1 DEF JobInOrder, Engaged, Sending
  <2> QED
    BY <1>5, <2>2, <2>3, <2>4 DEF TakeReconcileJob
<1>6. CASE GetAnswered(a)
  <2>1. mem[a].work = "RECONCILE" /\ ~Engaged(a)
    BY <1>1, <1>6 DEF GetAnswered, JobInOrder, Engaged, Sending
  <2>2. PICK result \in {"MANUAL_REVIEW_REQUIRED", "PROCESSING"} \cup Verdicts,
             artifact \in BOOLEAN, job \in Jobs \cup {None} :
           BeginApply(a, result, artifact, job)
    <3>1. ScheduledJob("MANUAL_REVIEW_REQUIRED") \in Jobs \cup {None}
          /\ ScheduledJob("PROCESSING") \in Jobs \cup {None}
      BY DEF ScheduledJob, Jobs
    <3> QED
      BY <1>6, <3>1 DEF GetAnswered, Answer
  <2>3. pc'[a] = "apply" /\ mem'[a].result = result /\ mem'[a].work = "RECONCILE"
    BY <1>0, <2>1, <2>2, BeginApplyEffect
  <2> QED
    BY <1>4, <2>1, <2>3 DEF JobInOrder, Engaged, Sending
<1> QED
  BY <1>2, <1>5, <1>6

\* A technical retry is committed only while nothing was posted, so the row it opens for
\* the next claim is one Hacienda does not hold.
LEMMA ApplyClaims ==
    ASSUME TypeOK, ClaimInv, NEW a \in Actors, ApplyStep(a)
    PROVE  ClaimInv'
<1>0. /\ mem \in [Actors -> Memory] /\ pc \in [Actors -> Labels] /\ mem[a] \in Memory
      /\ row \in Row
  BY DEF TypeOK
<1>1. Only(a) /\ JobInOrder(a)
  BY ActorsAct DEF ClaimInv
<1>2. spent' = spent /\ hacienda' = hacienda
  BY DEF ApplyStep, ReadAndEvaluate, StoreResponseArtifact, CommitResult,
     IndexResponseArtifact, PublishNext
<1>3. ASSUME UNCHANGED row, Engaged(a)' => Engaged(a), JobInOrder(a)',
             row.status = "SUBMITTING" /\ Engaged(a) => Engaged(a)'
      PROVE  ClaimInv'
  <2>1. row'.status = "SUBMITTING" => row'.fresh
    BY <1>3 DEF ClaimInv
  <2>2. row'.status \in BeforeClaim => hacienda' = "none" /\ ~Engaged(a)'
    BY <1>2, <1>3 DEF ClaimInv
  <2> QED
    BY <1>1, <1>2, <1>3, <2>1, <2>2, ClaimKeeps
<1>4. ASSUME AfterApply(a) \/ Finish(a)
      PROVE  pc'[a] \in {"idle", "publish"} /\ JobInOrder(a)' /\ ~Engaged(a)'
  <2>1. pc'[a] \in {"idle", "publish"}
    BY <1>0, <1>4, AfterApplyEffect, FinishLeaves DEF Leaves
  <2> QED
    BY <2>1 DEF JobInOrder, Engaged, Sending
<1>5. CASE ReadAndEvaluate(a)
  <2>1. UNCHANGED row /\ pc[a] = "apply" /\ a \in Workers
    BY <1>1, <1>5 DEF ReadAndEvaluate, JobInOrder
  <2>2. CASE EvaluateTransition(row.status, mem[a].result) = "APPLIED"
    <3>1. /\ pc'[a] = IF mem[a].artifact THEN "store" ELSE "commit"
          /\ mem'[a].work = mem[a].work
          /\ mem'[a].result = mem[a].result
          /\ mem'[a].artifact <=> mem[a].artifact
      BY <1>0, <1>5, <2>2 DEF ReadAndEvaluate, Memory
    <3>2. JobInOrder(a)' /\ (Engaged(a) <=> Engaged(a)')
      BY <1>1, <1>2, <2>1, <3>1 DEF JobInOrder, Engaged, Sending
    <3> QED
      BY <1>3, <2>1, <3>2
  <2>3. CASE EvaluateTransition(row.status, mem[a].result) # "APPLIED"
    <3>1. AfterApply(a)
      BY <1>5, <2>3 DEF ReadAndEvaluate
    \* Every result of a submit job may follow SUBMITTING.
    <3>2. Engaged(a) => row.status # "SUBMITTING"
      BY <1>1, <2>1, <2>3 DEF JobInOrder, Engaged, Sending, EvaluateTransition,
         CanTransition, Successors, Statuses
    <3> QED
      BY <1>3, <1>4, <2>1, <3>1, <3>2
  <2> QED
    BY <2>2, <2>3
<1>6. CASE StoreResponseArtifact(a)
  <2>1. pc[a] = "store" /\ pc'[a] = "commit" /\ UNCHANGED <<row, mem>>
    BY <1>0, <1>6 DEF StoreResponseArtifact
  <2>2. mem[a].work = "RECONCILE" /\ a \in Workers
    BY <1>1, <2>1 DEF JobInOrder
  <2>3. JobInOrder(a)' /\ ~Engaged(a) /\ ~Engaged(a)'
    BY <1>1, <2>1, <2>2 DEF JobInOrder, Engaged, Sending
  <2> QED
    BY <1>3, <2>1, <2>3
<1>7. CASE CommitResult(a)
  <2>1. pc[a] = "commit" /\ a \in Workers
    BY <1>1, <1>7 DEF CommitResult, JobInOrder
  <2>2. \/ pc'[a] \in {"idle", "publish"}
        \/ pc'[a] = "index" /\ mem'[a].work = "RECONCILE"
    <3>1. CASE mem[a].artifact
      <4>1. mem[a].work = "RECONCILE"
        BY <1>1, <2>1, <3>1 DEF JobInOrder
      <4> QED
        BY <1>0, <1>7, <3>1, <4>1 DEF CommitResult
    <3>2. CASE ~mem[a].artifact
      BY <1>4, <1>7, <3>2 DEF CommitResult, Conclude
    <3> QED
      BY <3>1, <3>2
  <2>3. JobInOrder(a)' /\ ~Engaged(a)'
    BY <2>1, <2>2 DEF JobInOrder, Engaged, Sending
  <2>4. CASE row.status \in Terminal
    BY <1>3, <1>7, <2>3, <2>4 DEF CommitResult, WrittenRow, Terminal, Verdicts
  <2>5. CASE row.status \notin Terminal
    <3>1. row'.status = mem[a].result
      BY <1>0, <1>7, <2>5 DEF CommitResult, WrittenRow, Row
    <3>2. row'.status # "SUBMITTING"
      BY <1>1, <2>1, <3>1 DEF JobInOrder, Verdicts
    <3>3. row'.status \in BeforeClaim => Engaged(a) /\ hacienda = "none"
      BY <1>1, <2>1, <3>1 DEF JobInOrder, Engaged, BeforeClaim, ClaimableStatuses,
         Verdicts, None
    <3> QED
      BY <1>1, <1>2, <2>3, <3>2, <3>3, ClaimKeeps
  <2> QED
    BY <2>4, <2>5
<1>8. CASE IndexResponseArtifact(a) \/ PublishNext(a)
  <2>1. UNCHANGED row /\ ~Engaged(a)
    BY <1>8 DEF IndexResponseArtifact, PublishNext, Engaged, Sending
  <2> QED
    BY <1>3, <1>4, <1>8, <2>1 DEF IndexResponseArtifact, PublishNext, Conclude
<1> QED
  BY <1>5, <1>6, <1>7, <1>8 DEF ApplyStep

\* The sweep only publishes: a row in flight has its lease. Nothing fails but an index
\* without a reference, which ends the execution.
LEMMA SweepAndFailureClaim ==
    ASSUME Undisturbed, TypeOK, ClaimInv, NEW a \in Actors,
           \/ Sweep(a)
           \/ HandleSubmitFailure(a) \/ Throw(a) \/ Crash(a) \/ IndexMissing(a)
    PROVE  ClaimInv'
<1>0. /\ mem \in [Actors -> Memory] /\ pc \in [Actors -> Labels]
      /\ row \in Row /\ Limit["local"] = 0 /\ Limit["crash"] = 0
  BY DEF TypeOK, Undisturbed
<1>1. Only(a) /\ JobInOrder(a)
  BY ActorsAct DEF ClaimInv
<1>2. spent["local"] = 0 /\ spent["crash"] = 0
  BY DEF ClaimInv
<1>3. Sweep(a) \/ IndexMissing(a)
  BY <1>0, <1>2 DEF HandleSubmitFailure, Throw, Crash, Spend
<1>4. UNCHANGED <<row, hacienda, spent>>
  BY <1>3 DEF Sweep, IndexMissing, Abandon
<1>5. ~Engaged(a)
  BY <1>3 DEF Sweep, IndexMissing, Engaged, Sending
<1>6. pc'[a] \in {"idle", "publish"}
  <2>1. CASE Sweep(a)
    <3>1. row.status = "SUBMITTING" => row.fresh
      BY DEF ClaimInv
    <3> QED
      BY <1>0, <2>1, <3>1 DEF Sweep
  <2>2. CASE IndexMissing(a)
    BY <1>0, <2>2 DEF IndexMissing, Abandon, Finish
  <2> QED
    BY <1>3, <2>1, <2>2
<1>7. JobInOrder(a)' /\ ~Engaged(a)'
  BY <1>6 DEF JobInOrder, Engaged, Sending
<1>8. /\ row'.status = "SUBMITTING" => row'.fresh
      /\ row'.status \in BeforeClaim => hacienda' = "none"
  BY <1>4 DEF ClaimInv
<1> QED
  BY <1>1, <1>4, <1>5, <1>7, <1>8, ClaimKeeps

\* The first request takes the row from one status nobody claims from to one that may be
\* claimed, with nothing posted.
LEMMA ClientClaims ==
    ASSUME TypeOK, RequestInv, ClaimInv, NEW a \in Clients,
           SubmitRead(a) \/ SubmitCreate(a) \/ SubmitMark(a)
    PROVE  ClaimInv'
<1>0. /\ mem \in [Actors -> Memory] /\ pc \in [Actors -> Labels] /\ row \in Row
      /\ a \in Actors /\ a \notin Workers /\ spent \in [Disturbances -> Nat]
  BY ActorsDisjoint DEF TypeOK, Actors
<1>1. Only(a)
  BY <1>0, ActorsAct
<1>2. /\ hacienda' = hacienda
      /\ \A kind \in {"crash", "local", "get"} : spent'[kind] = spent[kind]
  BY <1>0 DEF SubmitRead, SubmitCreate, SubmitMark, Spend, Disturbances
<1>3. pc[a] \in {"idle", "create", "mark"} /\ pc'[a] \in {"idle", "create", "mark", "publish"}
  BY <1>0 DEF SubmitRead, SubmitCreate, SubmitMark, Finish
<1>4. JobInOrder(a)' /\ ~Engaged(a)' /\ ~Engaged(a)
  BY <1>0, <1>3 DEF JobInOrder, Engaged, Sending
<1>5. \/ row' = row
      \/ row.status \in BeforeClaim /\ row'.status \in BeforeClaim
  <2>1. CASE SubmitRead(a)
    BY <2>1 DEF SubmitRead
  <2>2. CASE SubmitCreate(a)
    BY <1>0, <2>2 DEF SubmitCreate, Row, BeforeClaim
  <2>3. CASE SubmitMark(a)
    <3>1. row.status = "REQUESTED"
      BY <1>0, <2>3 DEF SubmitMark, RequestInv
    <3> QED
      BY <1>0, <2>3, <3>1 DEF SubmitMark, Row, BeforeClaim, ClaimableStatuses
  <2> QED
    BY <2>1, <2>2, <2>3
<1>6. row'.status = "SUBMITTING" => row' = row
  BY <1>5 DEF BeforeClaim, ClaimableStatuses, None
<1>7. /\ row'.status = "SUBMITTING" => row'.fresh
      /\ row'.status \in BeforeClaim => hacienda' = "none" /\ row.status \in BeforeClaim
  BY <1>2, <1>5, <1>6 DEF ClaimInv
<1> QED
  BY <1>0, <1>1, <1>2, <1>4, <1>6, <1>7, ClaimKeeps

\* Signals, time and the connection claim nothing, and no lease ends under a submit job.
LEMMA EnvironmentClaims ==
    ASSUME LeaseOutlivesWorkers, TypeOK, ClaimInv,
           RequestReconciliation \/ HandleCallback \/ TimeStep \/ ChangeConnection
    PROVE  ClaimInv'
<1>0. row \in Row /\ spent \in [Disturbances -> Nat]
  BY DEF TypeOK
<1>1. ~LeaseEnds
  <2>1. SUFFICES ASSUME LeaseEnds PROVE FALSE
    OBVIOUS
  <2>2. PICK w \in Workers : Engaged(w)
    BY <2>1 DEF LeaseEnds, ClaimInv
  <2>3. mem[w].work = "SUBMIT"
    BY <2>2 DEF ClaimInv, Actors, JobInOrder, Engaged
  <2> QED
    BY <2>1, <2>3 DEF LeaseEnds
<1>2. row'.status = row.status /\ (row'.fresh <=> row.fresh)
  <2>1. CASE RequestReconciliation \/ HandleCallback
    BY <1>0, <2>1 DEF Row, RequestReconciliation, HandleCallback, Signal
  <2>2. CASE BecomeDue
    BY <1>0, <2>2 DEF Row, BecomeDue
  <2>3. CASE UNCHANGED row
    BY <2>3
  <2> QED
    BY <1>1, <2>1, <2>2, <2>3 DEF TimeStep, Decide, SlotEnds, ChangeConnection
<1>3. pc' = pc /\ mem' = mem
  BY DEF RequestReconciliation, HandleCallback, Signal, ChangeConnection, TimeStep,
     Decide, BecomeDue, LeaseEnds, SlotEnds
<1>4. hacienda' = hacienda \/ (hacienda # "none" /\ hacienda' # "none")
  BY DEF RequestReconciliation, HandleCallback, Signal, ChangeConnection, TimeStep,
     Decide, BecomeDue, LeaseEnds, SlotEnds, Verdicts
<1>5. \A kind \in {"crash", "local", "get"} : spent'[kind] = spent[kind]
  <2>1. CASE RequestReconciliation \/ HandleCallback
    BY <1>0, <2>1 DEF RequestReconciliation, HandleCallback, Signal, Spend, Disturbances
  <2>2. CASE ChangeConnection
    BY <1>0, <2>2 DEF ChangeConnection, Spend, Disturbances
  <2>3. CASE TimeStep
    BY <2>3 DEF TimeStep, Decide, BecomeDue, LeaseEnds, SlotEnds
  <2> QED
    BY <2>1, <2>2, <2>3
<1>6. \A a \in Actors : (Engaged(a)' <=> Engaged(a)) /\ JobInOrder(a)'
  BY <1>3, <1>4 DEF ClaimInv, Engaged, JobInOrder
<1>7. row'.status \in BeforeClaim => hacienda' = "none" /\ \A a \in Actors : ~Engaged(a)'
  BY <1>2, <1>4, <1>6 DEF ClaimInv
<1>8. row'.status = "SUBMITTING" => row'.fresh /\ \E w \in Workers : Engaged(w)'
  BY <1>2, <1>6 DEF ClaimInv, Actors
<1>9. \A a, b \in Actors : Engaged(a)' /\ Engaged(b)' => a = b
  BY <1>6 DEF ClaimInv
<1>10. \A kind \in {"crash", "local", "get"} : spent'[kind] = 0
  BY <1>5 DEF ClaimInv
<1> QED
  BY <1>6, <1>7, <1>8, <1>9, <1>10 DEF ClaimInv

LEMMA ClaimStep ==
    ASSUME Undisturbed, OutcomeInv, RequestInv, ClaimInv, [Next]_vars
    PROVE  ClaimInv'
<1>0. TypeOK /\ LeaseOutlivesWorkers /\ Limit["get"] = 0
  BY DEF OutcomeInv, Undisturbed
<1>1. CASE UNCHANGED vars
  BY <1>1 DEF vars, ClaimInv, JobInOrder, Engaged
<1>2. ASSUME NEW c \in Clients, ClientStep(c) \/ SubmitRead(c) PROVE ClaimInv'
  BY <1>0, <1>2, ClientClaims, ApplyClaims DEF ClientStep, Actors
<1>3. ASSUME NEW w \in Workers,
             \/ WorkerStep(w) \/ PostAnsweredBadly(w) \/ PostTokenExpired(w)
             \/ GetAnsweredBadly(w)
      PROVE  ClaimInv'
  BY <1>0, <1>3, SubmitJobClaims, ReconcileJobClaims, ApplyClaims, SweepAndFailureClaim
     DEF WorkerStep, Actors
<1>4. ASSUME NEW s \in Sweepers, SweeperStep(s) PROVE ClaimInv'
  BY <1>0, <1>4, SweepAndFailureClaim, ApplyClaims DEF SweeperStep, Actors
<1>5. ASSUME NEW a \in Actors, HandleSubmitFailure(a) \/ Throw(a) \/ Crash(a)
      PROVE  ClaimInv'
  BY <1>0, <1>5, SweepAndFailureClaim
<1>6. CASE RequestReconciliation \/ HandleCallback \/ TimeStep \/ ChangeConnection
  BY <1>0, <1>6, EnvironmentClaims
<1> QED
  BY <1>1, <1>2, <1>3, <1>4, <1>5, <1>6 DEF Next, Disturbance, Actors

LEMMA InitClaim ==
    ASSUME Init PROVE ClaimInv
<1>1. \A a \in Actors : pc[a] = "idle"
  BY DEF Init
<1>2. \A kind \in {"crash", "local", "get"} : spent[kind] = 0
  BY DEF Init, Disturbances
<1>3. hacienda = "none" /\ row.status # "SUBMITTING"
  BY DEF Init, None
<1> QED
  BY <1>1, <1>2, <1>3 DEF ClaimInv, JobInOrder, Engaged, Sending

\* The invariant of the claim, for any number of clients, workers and sweepers, signals,
\* changes of the connection and bad answers to the POST.
THEOREM ClaimCorrect ==
    ASSUME Undisturbed
    PROVE  Spec => [](OutcomeInv /\ RequestInv /\ ClaimInv)
<1>1. OutcomeInv /\ RequestInv /\ ClaimInv /\ [Next]_vars => ClaimInv'
  BY ClaimStep
<1>2. Limit["submit"] <= 1
  BY DEF Undisturbed
<1>3. Spec => [](OutcomeInv /\ RequestInv)
  BY <1>2, FirstRequestIsFresh, PTL
<1> QED
  BY <1>1, <1>3, InitClaim, PTL DEF Spec

\* At most one worker holds the claim with its POST still to be answered: duplicate jobs
\* and due rows do not become concurrent POSTs.
THEOREM ClaimIsExclusiveHolds ==
    ASSUME Undisturbed PROVE Spec => []ClaimIsExclusive
<1>1. ClaimInv => ClaimIsExclusive
  <2> SUFFICES ASSUME ClaimInv
               PROVE  Cardinality({w \in Workers : pc[w] \in Sending}) <= 1
    BY DEF ClaimIsExclusive, Sending
  <2> DEFINE Holders == {w \in Workers : pc[w] \in Sending}
  <2>1. \A v, w \in Holders : v = w
    BY DEF ClaimInv, Engaged, Actors
  <2>2. CASE Holders = {}
    BY <2>2, FS_EmptySet
  <2>3. CASE Holders # {}
    <3>1. PICK w : Holders = {w}
      BY <2>1, <2>3
    <3> QED
      BY <3>1, FS_Singleton
  <2> QED
    BY <2>2, <2>3
<1> QED
  BY <1>1, ClaimCorrect, PTL

\* No worker is about to POST a document that Hacienda already holds.
THEOREM NoRepostHolds ==
    ASSUME Undisturbed PROVE Spec => []NoRepost
<1>1. ClaimInv => NoRepost
  BY DEF ClaimInv, NoRepost, JobInOrder, Sending, Actors
<1> QED
  BY <1>1, ClaimCorrect, PTL
-----------------------------------------------------------------------------
(* What can break the claim, and what cannot *)

\* a runs a submit job whose result is not yet committed, or the recovery of one.
Holds(a) ==
    pc[a] \in Sending \/ (pc[a] \in {"apply", "commit"} /\ mem[a].work # "RECONCILE")

\* The five steps that can let a second worker in beside the first.  A request marks the
\* row while a job or a recovery is under way; a job whose result is committed fails and
\* is applied as a technical retry; a poll answers with one; a lease ends under a live
\* job; a sweep starts a recovery while another one is still being applied.
MarkedAtRest == \A c \in Clients : SubmitMark(c) => row' = row \/ \A a \in Actors : ~Holds(a)
NoLateRetry == \A w \in Workers : HandleSubmitFailure(w) => pc[w] # "publish"
NoRetryByPoll ==
    \A w \in Workers : GetAnsweredBadly(w) => mem'[w].result # "TECHNICAL_RETRY_PENDING"
LeaseKept == LeaseEnds => \A w \in Workers : mem[w].work # "SUBMIT"
OneRecovery ==
    \A s, t \in Sweepers : Sweep(s) /\ pc'[s] = "apply" => pc[t] \notin {"apply", "commit"}

ClaimProtected ==
    /\ MarkedAtRest
    /\ NoLateRetry
    /\ NoRetryByPoll
    /\ LeaseKept
    /\ OneRecovery

\* What an execution is doing tells whose it is, and only reconciliation carries artifacts
\* and results that leave the row unclaimable.
Tied(a) ==
    /\ mem[a].work # None => a \in Workers
    /\ pc[a] \in Sending => mem[a].work = "SUBMIT"
    /\ pc[a] \in {"query", "store", "index"} => mem[a].work = "RECONCILE"
    /\ pc[a] \in {"apply", "commit"} => a \in Sweepers \/ mem[a].work # None
    /\ mem[a].work = "SUBMIT" => pc[a] \in Sending \cup {"apply", "commit", "publish"}
    /\ mem[a].artifact => /\ mem[a].work = "RECONCILE"
                          /\ pc[a] \in {"apply", "store", "commit", "index"}
    /\ pc[a] \in {"apply", "store", "commit"} /\ mem[a].work = "RECONCILE" =>
          mem[a].result \notin BeforeClaim

\* One execution holds the row at a time, nobody holds a row that may be claimed, and a
\* worker holds it only under its lease.
HolderInv ==
    /\ \A a \in Actors : Tied(a)
    /\ \A a, b \in Actors : Holds(a) /\ Holds(b) => a = b
    /\ row.status \in BeforeClaim => \A a \in Actors : ~Holds(a)
    /\ \A w \in Workers : Holds(w) => row.fresh

\* What a step of one execution has to leave behind.
LEMMA HolderKeeps ==
    ASSUME HolderInv, NEW a \in Actors, Only(a), Tied(a)',
           Holds(a)' => Holds(a) \/ \A b \in Actors : ~Holds(b),
           row'.status \in BeforeClaim =>
              /\ ~Holds(a)'
              /\ row.status \in BeforeClaim \/ Holds(a) \/ \A b \in Actors : ~Holds(b),
           a \in Workers /\ Holds(a)' => row'.fresh,
           row.fresh => row'.fresh
    PROVE  HolderInv'
<1>1. \A b \in Actors : b # a => pc'[b] = pc[b] /\ mem'[b] = mem[b] /\ (Holds(b)' <=> Holds(b))
  BY DEF Only, Holds
<1>2. \A b \in Actors : Tied(b)'
  BY <1>1 DEF HolderInv, Tied
<1>3. \A b, c \in Actors : Holds(b)' /\ Holds(c)' => b = c
  BY <1>1 DEF HolderInv
<1>4. row'.status \in BeforeClaim => \A b \in Actors : ~Holds(b)'
  BY <1>1 DEF HolderInv
<1>5. \A w \in Workers : Holds(w)' => row'.fresh
  BY <1>1 DEF HolderInv, Actors
<1> QED
  BY <1>2, <1>3, <1>4, <1>5 DEF HolderInv

\* An execution that keeps the row and its hold, or lets the hold go.
LEMMA HolderStays ==
    ASSUME HolderInv, NEW a \in Actors, Only(a), Tied(a)',
           row'.status = row.status, row.fresh => row'.fresh,
           Holds(a)' => Holds(a)
    PROVE  HolderInv'
<1>1. Holds(a) => row.status \notin BeforeClaim /\ (a \in Workers => row.fresh)
  BY DEF HolderInv
<1> QED
  BY <1>1, HolderKeeps

\* The claim finds nobody holding the row; the answer to the POST leaves the hold with
\* who has it.
LEMMA SubmitJobHolds ==
    ASSUME TypeOK, HolderInv, NEW a \in Workers,
           \/ ClaimSubmission(a) \/ LoadContext(a) \/ PostAnswered(a)
           \/ PostAnsweredBadly(a) \/ PostTokenExpired(a)
    PROVE  HolderInv'
<1>0. /\ mem \in [Actors -> Memory] /\ pc \in [Actors -> Labels] /\ mem[a] \in Memory
      /\ row \in Row /\ a \in Actors
  BY DEF TypeOK, Actors
<1>1. Only(a) /\ Tied(a)
  BY <1>0, ActorsAct DEF HolderInv
<1>2. CASE ClaimSubmission(a)
  <2>1. CASE UNCHANGED <<row, pc, mem>>
    BY <2>1 DEF HolderInv, Tied, Holds
  <2>2. CASE /\ row.status \in ClaimableStatuses
             /\ row' = [row EXCEPT !.status = "SUBMITTING", !.fresh = TRUE]
             /\ pc' = [pc EXCEPT ![a] = "load"]
             /\ mem' = [mem EXCEPT ![a].work = "SUBMIT"]
    <3>1. /\ pc'[a] = "load"
          /\ mem'[a].work = "SUBMIT"
          /\ mem'[a].artifact <=> mem[a].artifact
      BY <1>0, <2>2 DEF Memory
    <3>2. /\ row'.status = "SUBMITTING" /\ row'.fresh
          /\ row'.status \notin BeforeClaim /\ row.status \in BeforeClaim
      BY <1>0, <2>2 DEF Row, BeforeClaim, ClaimableStatuses, None
    <3>3. pc[a] = "idle"
      BY <1>2 DEF ClaimSubmission
    <3>4. Tied(a)'
      BY <1>1, <3>1, <3>3 DEF Tied, Sending
    <3>5. \A b \in Actors : ~Holds(b)
      BY <3>2 DEF HolderInv
    <3> QED
      BY <1>0, <1>1, <3>2, <3>4, <3>5, HolderKeeps
  <2> QED
    BY <1>2, <2>1, <2>2 DEF ClaimSubmission
<1>3. ASSUME pc[a] \in Sending, UNCHANGED row,
             \/ pc'[a] \in Sending /\ mem' = mem
             \/ \E result, job : BeginApply(a, result, FALSE, job)
      PROVE  HolderInv'
  <2>1. mem[a].work = "SUBMIT" /\ Holds(a)
    BY <1>1, <1>3 DEF Tied, Holds
  <2>2. CASE pc'[a] \in Sending /\ mem' = mem
    <3>1. Tied(a)'
      BY <1>1, <1>3, <2>1, <2>2 DEF Tied, Sending
    <3> QED
      BY <1>0, <1>1, <1>3, <2>1, <3>1, HolderStays
  <2>3. ASSUME NEW result, NEW job, BeginApply(a, result, FALSE, job) PROVE HolderInv'
    <3>1. pc'[a] = "apply" /\ ~mem'[a].artifact /\ mem'[a].work = mem[a].work
      BY <1>0, <2>3, BeginApplyEffect
    <3>2. Tied(a)'
      BY <1>0, <2>1, <3>1 DEF Tied, Sending, None
    <3> QED
      BY <1>0, <1>1, <1>3, <2>1, <3>2, HolderStays
  <2> QED
    BY <1>3, <2>2, <2>3
<1>4. CASE LoadContext(a)
  BY <1>0, <1>3, <1>4 DEF LoadContext, Sending
<1>5. CASE PostAnswered(a) \/ PostAnsweredBadly(a)
  BY <1>3, <1>5 DEF PostAnswered, PostAnsweredBadly, Answer, Sending
<1>6. CASE PostTokenExpired(a)
  BY <1>0, <1>3, <1>6 DEF PostTokenExpired, Answer, Sending
<1> QED
  BY <1>2, <1>4, <1>5, <1>6

\* A reconcile job never holds the row, and without a retry brings no result that would
\* open it to a claim.
LEMMA ReconcileJobHolds ==
    ASSUME TypeOK, HolderInv, NoRetryByPoll, NEW a \in Workers,
           TakeReconcileJob(a) \/ GetAnswered(a) \/ GetAnsweredBadly(a)
    PROVE  HolderInv'
<1>0. /\ mem \in [Actors -> Memory] /\ pc \in [Actors -> Labels] /\ mem[a] \in Memory
      /\ row \in Row /\ a \in Actors
  BY DEF TypeOK, Actors
<1>1. Only(a) /\ Tied(a)
  BY <1>0, ActorsAct DEF HolderInv
<1>2. row'.status = row.status /\ (row.fresh => row'.fresh)
  BY <1>0 DEF TakeReconcileJob, GetAnswered, GetAnsweredBadly, Row
<1>3. CASE TakeReconcileJob(a)
  <2>1. ~Holds(a) /\ ~mem[a].artifact
    BY <1>1, <1>3 DEF TakeReconcileJob, Tied, Holds, Sending
  <2>2. CASE UNCHANGED <<row, pc, mem>>
    BY <2>2 DEF HolderInv, Tied, Holds
  <2>3. CASE /\ pc' = [pc EXCEPT ![a] = "apply"]
             /\ mem' = [mem EXCEPT ![a] = [@ EXCEPT !.work = "RECONCILE",
                                                     !.result = "MANUAL_REVIEW_REQUIRED"]]
    <3>1. /\ pc'[a] = "apply" /\ mem'[a].work = "RECONCILE"
          /\ mem'[a].result = "MANUAL_REVIEW_REQUIRED" /\ ~mem'[a].artifact
      BY <1>0, <2>1, <2>3 DEF Memory
    <3>2. Tied(a)' /\ ~Holds(a)'
      BY <3>1 DEF Tied, Holds, Sending, BeforeClaim, ClaimableStatuses, None
    <3> QED
      BY <1>0, <1>1, <1>2, <3>2, HolderStays
  <2>4. CASE /\ pc' = [pc EXCEPT ![a] = "query"]
             /\ mem' = [mem EXCEPT ![a].work = "RECONCILE"]
    <3>1. pc'[a] = "query" /\ mem'[a].work = "RECONCILE" /\ ~mem'[a].artifact
      BY <1>0, <2>1, <2>4 DEF Memory
    <3>2. Tied(a)' /\ ~Holds(a)'
      BY <3>1 DEF Tied, Holds, Sending
    <3> QED
      BY <1>0, <1>1, <1>2, <3>2, HolderStays
  <2> QED
    BY <1>3, <2>2, <2>3, <2>4 DEF TakeReconcileJob
<1>4. ASSUME GetAnswered(a) \/ GetAnsweredBadly(a) PROVE HolderInv'
  <2>1. mem[a].work = "RECONCILE" /\ ~Holds(a)
    BY <1>1, <1>4 DEF GetAnswered, GetAnsweredBadly, Tied, Holds, Sending
  <2>2. PICK result \in {"MANUAL_REVIEW_REQUIRED", "PROCESSING",
                         "TECHNICAL_RETRY_PENDING"} \cup Verdicts,
             artifact \in BOOLEAN, job \in Jobs \cup {None} :
           BeginApply(a, result, artifact, job)
    <3>1. \A result : ScheduledJob(result) \in Jobs \cup {None}
      BY DEF ScheduledJob, Jobs
    <3> QED
      BY <1>4, <3>1 DEF GetAnswered, GetAnsweredBadly, Answer
  <2>3. pc'[a] = "apply" /\ mem'[a].result = result /\ mem'[a].work = "RECONCILE"
    BY <1>0, <2>1, <2>2, BeginApplyEffect
  <2>4. result # "TECHNICAL_RETRY_PENDING"
    <3>1. CASE GetAnsweredBadly(a)
      BY <2>3, <3>1 DEF NoRetryByPoll
    <3>2. CASE GetAnswered(a)
      <4>1. PICK found \in {"MANUAL_REVIEW_REQUIRED", "PROCESSING"} \cup Verdicts,
                 stored \in BOOLEAN, next \in Jobs \cup {None} :
               BeginApply(a, found, stored, next)
        <5>1. \A one : ScheduledJob(one) \in Jobs \cup {None}
          BY DEF ScheduledJob, Jobs
        <5> QED
          BY <3>2, <5>1 DEF GetAnswered, Answer
      <4>2. mem'[a].result = found
        BY <1>0, <4>1, BeginApplyEffect
      <4> QED
        BY <2>3, <4>2 DEF Verdicts
    <3> QED
      BY <1>4, <3>1, <3>2
  <2>5. Tied(a)' /\ ~Holds(a)'
    BY <1>0, <2>2, <2>3, <2>4 DEF Tied, Holds, Sending, BeforeClaim, ClaimableStatuses,
       Verdicts, None
  <2> QED
    BY <1>0, <1>1, <1>2, <2>5, HolderStays
<1> QED
  BY <1>3, <1>4

\* Committing a result gives the hold up, and opens the row to a claim only when it was
\* the holder's.
LEMMA ApplyStepHolds ==
    ASSUME TypeOK, HolderInv, NEW a \in Actors, ApplyStep(a)
    PROVE  HolderInv'
<1>0. /\ mem \in [Actors -> Memory] /\ pc \in [Actors -> Labels] /\ mem[a] \in Memory
      /\ row \in Row
  BY DEF TypeOK
<1>1. Only(a) /\ Tied(a)
  BY ActorsAct DEF HolderInv
<1>2. ASSUME AfterApply(a) \/ Finish(a)
      PROVE  Tied(a)' /\ ~Holds(a)'
  <2>1. CASE Finish(a)
    <3>1. pc'[a] = "idle" /\ mem'[a] = NoMemory
      BY <1>0, <2>1 DEF Finish
    <3> QED
      BY <3>1 DEF Tied, Holds, Sending, NoMemory, None
  <2>2. CASE AfterApply(a) /\ pc'[a] = "idle" /\ mem'[a] = NoMemory
    BY <2>2 DEF Tied, Holds, Sending, NoMemory, None
  <2>3. CASE /\ AfterApply(a) /\ pc'[a] = "publish"
             /\ mem'[a].work = mem[a].work /\ ~mem'[a].artifact
    BY <1>1, <2>3 DEF Tied, Holds, Sending
  <2> QED
    BY <1>2, <2>1, <2>2, <2>3, AfterApplyEffect
<1>3. CASE ReadAndEvaluate(a)
  <2>1. UNCHANGED row /\ pc[a] = "apply"
    BY <1>3 DEF ReadAndEvaluate
  <2>2. CASE EvaluateTransition(row.status, mem[a].result) = "APPLIED"
    <3>1. /\ pc'[a] = IF mem[a].artifact THEN "store" ELSE "commit"
          /\ mem'[a].work = mem[a].work
          /\ mem'[a].result = mem[a].result
          /\ mem'[a].artifact <=> mem[a].artifact
      BY <1>0, <1>3, <2>2 DEF ReadAndEvaluate, Memory
    <3>2. Tied(a)' /\ (Holds(a)' => Holds(a))
      BY <1>1, <2>1, <3>1 DEF Tied, Holds, Sending
    <3> QED
      BY <1>1, <2>1, <3>2, HolderStays
  <2>3. CASE EvaluateTransition(row.status, mem[a].result) # "APPLIED"
    <3>1. Tied(a)' /\ ~Holds(a)'
      BY <1>2, <1>3, <2>3 DEF ReadAndEvaluate
    <3> QED
      BY <1>1, <2>1, <3>1, HolderStays
  <2> QED
    BY <2>2, <2>3
<1>4. CASE StoreResponseArtifact(a)
  <2>1. pc[a] = "store" /\ pc'[a] = "commit" /\ UNCHANGED <<row, mem>>
    BY <1>0, <1>4 DEF StoreResponseArtifact
  <2>2. Tied(a)' /\ ~Holds(a)'
    BY <1>1, <2>1 DEF Tied, Holds, Sending, None
  <2> QED
    BY <1>1, <2>1, <2>2, HolderStays
<1>5. CASE CommitResult(a)
  <2>1. pc[a] = "commit"
    BY <1>5 DEF CommitResult
  <2>2. Tied(a)' /\ ~Holds(a)'
    <3>1. CASE mem[a].artifact
      <4>1. pc'[a] = "index" /\ mem' = mem /\ mem[a].work = "RECONCILE"
        BY <1>0, <1>1, <1>5, <3>1 DEF CommitResult, Tied
      <4> QED
        BY <1>1, <4>1 DEF Tied, Holds, Sending
    <3>2. CASE ~mem[a].artifact
      BY <1>2, <1>5, <3>2 DEF CommitResult, Conclude
    <3> QED
      BY <3>1, <3>2
  <2>3. row.fresh => row'.fresh
    BY <1>0, <1>5 DEF CommitResult, WrittenRow, Row
  <2>4. row'.status \in BeforeClaim => row.status \in BeforeClaim \/ Holds(a)
    <3>1. CASE row.status \in Terminal
      BY <1>5, <3>1 DEF CommitResult, WrittenRow
    <3>2. CASE row.status \notin Terminal
      <4>1. row'.status = mem[a].result
        BY <1>0, <1>5, <3>2 DEF CommitResult, WrittenRow, Row
      <4> QED
        BY <1>1, <2>1, <4>1 DEF Tied, Holds
    <3> QED
      BY <3>1, <3>2
  <2> QED
    BY <1>1, <2>2, <2>3, <2>4, HolderKeeps
<1>6. CASE IndexResponseArtifact(a) \/ PublishNext(a)
  <2>1. UNCHANGED row
    BY <1>6 DEF IndexResponseArtifact, PublishNext
  <2>2. Tied(a)' /\ ~Holds(a)'
    BY <1>2, <1>6 DEF IndexResponseArtifact, PublishNext, Conclude
  <2> QED
    BY <1>1, <2>1, <2>2, HolderStays
<1> QED
  BY <1>3, <1>4, <1>5, <1>6 DEF ApplyStep

\* A recovery starts only when the lease of a claim is over, so no worker holds the row,
\* and no other recovery does.
LEMMA SweepHolds ==
    ASSUME TypeOK, HolderInv, OneRecovery, NEW a \in Sweepers, Sweep(a)
    PROVE  HolderInv'
<1>0. /\ mem \in [Actors -> Memory] /\ pc \in [Actors -> Labels] /\ mem[a] \in Memory
      /\ row \in Row /\ a \in Actors /\ a \notin Workers
  BY ActorsDisjoint DEF TypeOK, Actors
<1>1. Only(a) /\ Tied(a) /\ pc[a] = "idle" /\ UNCHANGED row
  BY <1>0, ActorsAct DEF HolderInv, Sweep
<1>2. mem[a].work = None /\ ~mem[a].artifact
  BY <1>0, <1>1 DEF Tied
<1>3. CASE /\ pc' = [pc EXCEPT ![a] = "publish"]
           /\ mem' = [mem EXCEPT ![a].publish =
                        IF row.status \in Reconcilable THEN "RECONCILE" ELSE "SUBMIT"]
  <2>1. /\ pc'[a] = "publish"
        /\ mem'[a].work = mem[a].work
        /\ mem'[a].artifact <=> mem[a].artifact
    BY <1>0, <1>3 DEF Memory
  <2>2. Tied(a)' /\ ~Holds(a)'
    BY <1>2, <2>1 DEF Tied, Holds, Sending, None
  <2> QED
    BY <1>0, <1>1, <2>2, HolderStays
<1>4. CASE /\ row.status = "SUBMITTING"
           /\ ~row.fresh
           /\ BeginApply(a, "TECHNICAL_RETRY_PENDING", FALSE, "SUBMIT")
  <2>1. pc'[a] = "apply" /\ ~mem'[a].artifact /\ mem'[a].work = mem[a].work
    BY <1>0, <1>4, BeginApplyEffect
  <2>2. Tied(a)'
    BY <1>2, <2>1 DEF Tied, Sending, None
  <2>3. \A b \in Actors : ~Holds(b)
    <3>1. SUFFICES ASSUME NEW b \in Actors, Holds(b) PROVE FALSE
      OBVIOUS
    <3>2. b \notin Workers
      BY <1>4, <3>1 DEF HolderInv
    <3>3. Tied(b)
      BY DEF HolderInv
    <3>4. b \in Sweepers /\ pc[b] \in {"apply", "commit"}
      BY <3>1, <3>2, <3>3 DEF Tied, Holds, None
    <3> QED
      BY <2>1, <3>4 DEF OneRecovery
  <2>4. row'.status \notin BeforeClaim
    BY <1>1, <1>4 DEF BeforeClaim, ClaimableStatuses, None
  <2> QED
    BY <1>0, <1>1, <2>2, <2>3, <2>4, HolderKeeps
<1> QED
  BY <1>3, <1>4 DEF Sweep

\* A failure before the commit keeps the hold, and a death gives it up: the row of a dead
\* worker waits for its lease to end.
LEMMA FailureHolds ==
    ASSUME TypeOK, HolderInv, NoLateRetry, NEW a \in Actors,
           \/ a \in Workers /\ HandleSubmitFailure(a)
           \/ Throw(a) \/ Crash(a) \/ IndexMissing(a)
    PROVE  HolderInv'
<1>0. /\ mem \in [Actors -> Memory] /\ pc \in [Actors -> Labels] /\ mem[a] \in Memory
      /\ row \in Row
  BY DEF TypeOK
<1>1. Only(a) /\ Tied(a) /\ UNCHANGED row
  BY ActorsAct DEF HolderInv, HandleSubmitFailure, Throw, Crash, IndexMissing, Abandon
<1>2. CASE a \in Workers /\ HandleSubmitFailure(a)
  <2>1. mem[a].work = "SUBMIT" /\ pc[a] # "publish"
    BY <1>2 DEF HandleSubmitFailure, NoLateRetry
  <2>2. Holds(a)
    BY <1>1, <2>1 DEF Tied, Holds
  <2>3. pc'[a] = "apply" /\ mem'[a].work = "SUBMIT" /\ ~mem'[a].artifact
    BY <1>0, <1>2 DEF HandleSubmitFailure, NoMemory
  <2>4. Tied(a)'
    BY <1>2, <2>3 DEF Tied, Sending, None
  <2> QED
    BY <1>1, <2>2, <2>4, HolderStays
<1>3. CASE Throw(a) \/ Crash(a) \/ IndexMissing(a)
  <2>1. pc'[a] = "idle" /\ mem'[a] = NoMemory
    BY <1>0, <1>3 DEF Throw, Crash, IndexMissing, Abandon, Finish
  <2>2. Tied(a)' /\ ~Holds(a)'
    BY <2>1 DEF Tied, Holds, Sending, NoMemory, None
  <2> QED
    BY <1>1, <2>2, HolderStays
<1> QED
  BY <1>2, <1>3

\* A request opens the row to a claim only when nobody holds it.
LEMMA RequestOpens ==
    ASSUME TypeOK, HolderInv, MarkedAtRest, NEW a \in Clients,
           SubmitRead(a) \/ SubmitCreate(a) \/ SubmitMark(a)
    PROVE  HolderInv'
<1>0. /\ mem \in [Actors -> Memory] /\ pc \in [Actors -> Labels] /\ mem[a] \in Memory
      /\ row \in Row /\ a \in Actors /\ a \notin Workers
  BY ActorsDisjoint DEF TypeOK, Actors
<1>1. Only(a) /\ Tied(a)
  BY <1>0, ActorsAct DEF HolderInv
<1>2. mem[a].work = None /\ pc[a] \in {"idle", "create", "mark"}
  BY <1>0, <1>1 DEF Tied, SubmitRead, SubmitCreate, SubmitMark
<1>3. Tied(a)' /\ ~Holds(a)'
  <2>1. CASE SubmitRead(a) \/ SubmitCreate(a)
    <3>1. /\ pc'[a] \in {"create", "mark"}
          /\ mem'[a].work = None
          /\ mem'[a].artifact <=> mem[a].artifact
      BY <1>0, <1>2, <2>1 DEF SubmitRead, SubmitCreate, Memory
    <3> QED
      BY <1>1, <1>2, <3>1 DEF Tied, Holds, Sending, None
  <2>2. CASE SubmitMark(a)
    <3>1. pc'[a] \in {"idle", "publish"} /\ mem'[a].work = None /\ ~mem'[a].artifact
      BY <1>0, <2>2 DEF SubmitMark, Finish, NoMemory
    <3> QED
      BY <3>1 DEF Tied, Holds, Sending, None
  <2> QED
    BY <2>1, <2>2
<1>4. row.fresh => row'.fresh
  BY <1>0 DEF SubmitRead, SubmitCreate, SubmitMark, Row
<1>5. row'.status \in BeforeClaim => row.status \in BeforeClaim \/ \A b \in Actors : ~Holds(b)
  <2>1. CASE SubmitRead(a)
    BY <2>1 DEF SubmitRead
  <2>2. CASE SubmitCreate(a)
    BY <2>2 DEF SubmitCreate, BeforeClaim
  <2>3. CASE SubmitMark(a)
    BY <2>3 DEF MarkedAtRest
  <2> QED
    BY <2>1, <2>2, <2>3
<1> QED
  BY <1>0, <1>1, <1>3, <1>4, <1>5, HolderKeeps

\* Signals, time and the connection open no row, and no lease ends under a submit job.
LEMMA EnvironmentHolds ==
    ASSUME TypeOK, HolderInv, LeaseKept,
           RequestReconciliation \/ HandleCallback \/ TimeStep \/ ChangeConnection
    PROVE  HolderInv'
<1>0. row \in Row
  BY DEF TypeOK
<1>1. pc' = pc /\ mem' = mem
  BY DEF RequestReconciliation, HandleCallback, Signal, ChangeConnection, TimeStep,
     Decide, BecomeDue, LeaseEnds, SlotEnds
<1>2. \A a \in Actors : Tied(a)' /\ (Holds(a)' <=> Holds(a))
  BY <1>1 DEF HolderInv, Tied, Holds
<1>3. row'.status = row.status
  BY <1>0 DEF Row, RequestReconciliation, HandleCallback, Signal, TimeStep, Decide,
     BecomeDue, LeaseEnds, SlotEnds, ChangeConnection
<1>4. \A w \in Workers : Holds(w) => row'.fresh
  <2>1. CASE LeaseEnds
    <3>1. SUFFICES ASSUME NEW w \in Workers, Holds(w) PROVE FALSE
      OBVIOUS
    <3>2. w \in Actors /\ w \notin Sweepers /\ mem[w].work \in Jobs \cup {None}
      BY ActorsDisjoint DEF Actors, TypeOK, Memory
    <3>3. mem[w].work = "SUBMIT"
      BY <3>1, <3>2 DEF HolderInv, Tied, Holds, Jobs
    <3> QED
      BY <2>1, <3>3 DEF LeaseKept
  <2>2. CASE RequestReconciliation \/ HandleCallback \/ BecomeDue
    BY <1>0, <2>2 DEF HolderInv, Row, RequestReconciliation, HandleCallback, Signal, BecomeDue
  <2>3. CASE UNCHANGED row
    BY <2>3 DEF HolderInv
  <2> QED
    BY <2>1, <2>2, <2>3 DEF TimeStep, Decide, SlotEnds, ChangeConnection
<1> QED
  BY <1>2, <1>3, <1>4 DEF HolderInv, Actors

LEMMA HolderStep ==
    ASSUME TypeOK, HolderInv, [Next]_vars, [ClaimProtected]_vars
    PROVE  HolderInv'
<1>1. CASE UNCHANGED vars
  BY <1>1 DEF vars, HolderInv, Tied, Holds
<1>2. CASE Next /\ ClaimProtected
  <2>0. MarkedAtRest /\ NoLateRetry /\ NoRetryByPoll /\ LeaseKept /\ OneRecovery
    BY <1>2 DEF ClaimProtected
  <2>1. ASSUME NEW c \in Clients, ClientStep(c) \/ SubmitRead(c) PROVE HolderInv'
    BY <2>0, <2>1, RequestOpens, ApplyStepHolds DEF ClientStep, Actors
  <2>2. ASSUME NEW w \in Workers,
               \/ WorkerStep(w) \/ PostAnsweredBadly(w) \/ PostTokenExpired(w)
               \/ GetAnsweredBadly(w) \/ HandleSubmitFailure(w)
        PROVE  HolderInv'
    BY <2>0, <2>2, SubmitJobHolds, ReconcileJobHolds, ApplyStepHolds, FailureHolds
       DEF WorkerStep, Actors
  <2>3. ASSUME NEW s \in Sweepers, SweeperStep(s) PROVE HolderInv'
    BY <2>0, <2>3, SweepHolds, ApplyStepHolds DEF SweeperStep, Actors
  <2>4. ASSUME NEW a \in Actors, Throw(a) \/ Crash(a) PROVE HolderInv'
    BY <2>0, <2>4, FailureHolds
  <2>5. CASE RequestReconciliation \/ HandleCallback \/ TimeStep \/ ChangeConnection
    BY <2>0, <2>5, EnvironmentHolds
  <2> QED
    BY <1>2, <2>1, <2>2, <2>3, <2>4, <2>5 DEF Next, Disturbance
<1> QED
  BY <1>1, <1>2

LEMMA InitHolder ==
    ASSUME Init PROVE HolderInv
<1>1. \A a \in Actors : pc[a] = "idle" /\ mem[a] = NoMemory
  BY DEF Init
<1>2. \A a \in Actors : Tied(a) /\ ~Holds(a)
  BY <1>1 DEF Tied, Holds, Sending, NoMemory, None
<1> QED
  BY <1>2 DEF HolderInv, Actors

\* Where one execution at a time holds the row, one worker at a time sends.
LEMMA OneHolderSends ==
    ASSUME HolderInv PROVE ClaimIsExclusive
<1> DEFINE Senders == {w \in Workers : pc[w] \in Sending}
<1>1. \A v, w \in Senders : v = w
  BY DEF HolderInv, Holds, Actors
<1>2. CASE Senders = {}
  BY <1>2, FS_EmptySet DEF ClaimIsExclusive, Sending
<1>3. CASE Senders # {}
  <2>1. PICK w : Senders = {w}
    BY <1>1, <1>3
  <2>2. Cardinality(Senders) = 1
    BY <2>1, FS_Singleton
  <2> QED
    BY <2>2 DEF ClaimIsExclusive, Sending
<1> QED
  BY <1>2, <1>3

\* With any number of requests, crashes, local failures, signals and bad answers, the
\* claim stays exclusive unless one of the five steps named above is taken.
THEOREM OnlyFiveStepsShareTheClaim ==
    Spec /\ [][ClaimProtected]_vars => [](HolderInv /\ ClaimIsExclusive)
<1>1. TypeOK /\ HolderInv /\ [Next]_vars /\ [ClaimProtected]_vars => HolderInv'
  BY HolderStep
<1>2. HolderInv => ClaimIsExclusive
  BY OneHolderSends
<1> QED
  BY <1>1, <1>2, InitHolder, TypeCorrect, PTL DEF Spec

\* Executions may die at any point, and answers to the POST be bad: there is one request,
\* no local failure and no failed poll, the lease of a claim is longer than the job, and
\* one sweep runs at a time.
OnlyDeaths ==
    /\ Limit["submit"] <= 1
    /\ Limit["local"] = 0
    /\ Limit["get"] = 0
    /\ LeaseOutlivesWorkers
    /\ \A s, t \in Sweepers : s = t

\* What the limits leave of the five steps.
LEMMA DeathsAreProtected ==
    ASSUME OnlyDeaths, TypeOK, RequestInv, HolderInv,
           spent["local"] = 0, spent["get"] = 0
    PROVE  ClaimProtected
<1>0. /\ Limit["local"] = 0 /\ Limit["get"] = 0 /\ LeaseOutlivesWorkers
      /\ spent \in [Disturbances -> Nat]
  BY DEF OnlyDeaths, TypeOK
<1>1. MarkedAtRest
  <2>1. ASSUME NEW c \in Clients, SubmitMark(c) PROVE row.status \in BeforeClaim
    BY <2>1 DEF SubmitMark, RequestInv, Actors, BeforeClaim
  <2> QED
    BY <2>1 DEF MarkedAtRest, HolderInv
<1>2. NoLateRetry /\ NoRetryByPoll
  BY <1>0 DEF NoLateRetry, NoRetryByPoll, HandleSubmitFailure, GetAnsweredBadly, Spend
<1>3. LeaseKept
  BY <1>0 DEF LeaseKept, LeaseEnds
<1>4. OneRecovery
  BY DEF OneRecovery, OnlyDeaths, Sweep
<1> QED
  BY <1>1, <1>2, <1>3, <1>4 DEF ClaimProtected

\* Neither of the two excluded disturbances is ever spent.
LEMMA NothingElseSpent ==
    ASSUME OnlyDeaths, TypeOK, [Next]_vars, spent["local"] = 0, spent["get"] = 0
    PROVE  spent'["local"] = 0 /\ spent'["get"] = 0
<1>0. /\ spent \in [Disturbances -> Nat]
      /\ Limit["local"] = 0 /\ Limit["get"] = 0
  BY DEF TypeOK, OnlyDeaths
<1>1. ASSUME NEW kind \in Disturbances, Spend(kind)
      PROVE  spent'["local"] = 0 /\ spent'["get"] = 0
  BY <1>0, <1>1 DEF Spend, Disturbances
<1>2. ASSUME UNCHANGED spent PROVE spent'["local"] = 0 /\ spent'["get"] = 0
  BY <1>2
<1>3. ASSUME NEW c \in Clients, SubmitRead(c) \/ SubmitCreate(c) \/ SubmitMark(c)
      PROVE  UNCHANGED spent \/ \E kind \in Disturbances : Spend(kind)
  BY <1>3 DEF SubmitRead, SubmitCreate, SubmitMark, Disturbances
<1>4. ASSUME NEW w \in Workers,
             \/ ClaimSubmission(w) \/ LoadContext(w) \/ PostAnswered(w)
             \/ PostAnsweredBadly(w) \/ PostTokenExpired(w) \/ TakeReconcileJob(w)
             \/ GetAnswered(w) \/ GetAnsweredBadly(w) \/ IndexMissing(w)
             \/ HandleSubmitFailure(w)
      PROVE  UNCHANGED spent \/ \E kind \in Disturbances : Spend(kind)
  BY <1>4 DEF ClaimSubmission, LoadContext, PostAnswered, PostAnsweredBadly,
     PostTokenExpired, TakeReconcileJob, GetAnswered, GetAnsweredBadly, IndexMissing,
     HandleSubmitFailure, Disturbances
<1>5. ASSUME NEW a \in Actors, Sweep(a) \/ Throw(a) \/ Crash(a) \/ ApplyStep(a)
      PROVE  UNCHANGED spent \/ \E kind \in Disturbances : Spend(kind)
  BY <1>5 DEF Sweep, Throw, Crash, ApplyStep, ReadAndEvaluate, StoreResponseArtifact,
     CommitResult, IndexResponseArtifact, PublishNext, Disturbances
<1>6. ASSUME RequestReconciliation \/ HandleCallback \/ TimeStep \/ ChangeConnection
      PROVE  UNCHANGED spent \/ \E kind \in Disturbances : Spend(kind)
  BY <1>6 DEF RequestReconciliation, HandleCallback, Signal, TimeStep, Decide, BecomeDue,
     LeaseEnds, SlotEnds, ChangeConnection, Disturbances
<1>7. UNCHANGED spent \/ \E kind \in Disturbances : Spend(kind)
  <2>1. CASE UNCHANGED vars
    BY <2>1 DEF vars
  <2> QED
    BY <1>3, <1>4, <1>5, <1>6, <2>1
       DEF Next, ClientStep, WorkerStep, SweeperStep, Disturbance, Actors
<1> QED
  BY <1>1, <1>2, <1>7

\* The claim survives the death of any execution at any point: a row whose worker died is
\* taken up again, and still by one worker at a time.
THEOREM ClaimSurvivesDeaths ==
    ASSUME OnlyDeaths PROVE Spec => []ClaimIsExclusive
<1> DEFINE Calm == TypeOK /\ RequestInv
           Unspent == spent["local"] = 0 /\ spent["get"] = 0
<1>1. Spec => []Calm
  <2>1. Limit["submit"] <= 1
    BY DEF OnlyDeaths
  <2>2. OutcomeInv /\ RequestInv => Calm
    BY DEF OutcomeInv
  <2> QED
    BY <2>1, <2>2, FirstRequestIsFresh, PTL
<1>2. Init => Unspent /\ HolderInv
  BY InitHolder DEF Init, Disturbances
<1>3. Calm /\ HolderInv /\ Unspent /\ [Next]_vars => HolderInv' /\ Unspent'
  <2>1. ASSUME Calm, HolderInv, Unspent, [Next]_vars PROVE HolderInv' /\ Unspent'
    <3>1. ClaimProtected
      BY <2>1, DeathsAreProtected
    <3> QED
      BY <2>1, <3>1, HolderStep, NothingElseSpent
  <2> QED
    BY <2>1
<1>4. HolderInv => ClaimIsExclusive
  BY OneHolderSends
<1> QED
  BY <1>1, <1>2, <1>3, <1>4, PTL DEF Spec

\* The three steps that can send a document back to the POST although Hacienda holds it:
\* a request marks its row, a failure after the POST or the recovery of a row whose POST
\* got through is applied as a technical retry.
RetriesUnposted ==
    /\ \A c \in Clients : SubmitMark(c) => row' = row \/ hacienda = "none"
    /\ \A w \in Workers : HandleSubmitFailure(w) => hacienda = "none"
    /\ \A s \in Sweepers : Sweep(s) /\ pc'[s] = "apply" => hacienda = "none"

\* Nothing is posted while a claim is possible, or is about to be made so, or has not been
\* used to POST yet.
UnpostedInv ==
    /\ row.status \in BeforeClaim => hacienda = "none"
    /\ \A a \in Actors :
          Holds(a) /\ (pc[a] \in Sending \/ mem[a].result \in BeforeClaim)
             => hacienda = "none"

\* What a step of one execution has to leave behind: only the holder may post.
LEMMA UnpostedKeeps ==
    ASSUME HolderInv, UnpostedInv, NEW a \in Actors, Only(a),
           hacienda' = hacienda \/ Holds(a),
           row'.status \in BeforeClaim => hacienda' = "none",
           Holds(a)' /\ (pc'[a] \in Sending \/ mem'[a].result \in BeforeClaim)
              => hacienda' = "none"
    PROVE  UnpostedInv'
<1>1. \A b \in Actors : b # a => pc'[b] = pc[b] /\ mem'[b] = mem[b] /\ (Holds(b)' <=> Holds(b))
  BY DEF Only, Holds
<1>2. \A b \in Actors : b # a /\ Holds(b) => hacienda' = hacienda
  BY DEF HolderInv
<1> QED
  BY <1>1, <1>2 DEF UnpostedInv

\* The POST is the holder's, and what is known to have failed has not been posted.
LEMMA SubmitJobUnposted ==
    ASSUME TypeOK, HolderInv, UnpostedInv, NEW a \in Workers,
           \/ ClaimSubmission(a) \/ LoadContext(a) \/ PostAnswered(a)
           \/ PostAnsweredBadly(a) \/ PostTokenExpired(a)
    PROVE  UnpostedInv'
<1>0. /\ mem \in [Actors -> Memory] /\ pc \in [Actors -> Labels] /\ mem[a] \in Memory
      /\ row \in Row /\ a \in Actors
  BY DEF TypeOK, Actors
<1>1. Only(a)
  BY <1>0, ActorsAct
<1>2. CASE ClaimSubmission(a)
  <2>1. CASE UNCHANGED <<row, pc, mem>>
    <3>1. UNCHANGED hacienda
      BY <1>2 DEF ClaimSubmission
    <3> QED
      BY <2>1, <3>1 DEF UnpostedInv, Holds
  <2>2. CASE row.status \in ClaimableStatuses
    <3>1. hacienda' = hacienda /\ hacienda = "none"
      BY <1>2, <2>2 DEF ClaimSubmission, UnpostedInv, BeforeClaim
    <3> QED
      BY <1>0, <1>1, <3>1, UnpostedKeeps
  <2> QED
    BY <1>2, <2>1, <2>2 DEF ClaimSubmission
<1>3. ASSUME pc[a] \in Sending, UNCHANGED row, hacienda' = "none" PROVE UnpostedInv'
  <2>1. Holds(a)
    BY <1>3 DEF Holds
  <2> QED
    BY <1>0, <1>1, <1>3, <2>1, UnpostedKeeps
<1>4. ASSUME pc[a] \in Sending PROVE hacienda = "none" /\ row.status \notin BeforeClaim /\ Holds(a)
  BY <1>0, <1>4 DEF Holds, UnpostedInv, HolderInv
<1>5. CASE LoadContext(a) \/ PostTokenExpired(a)
  <2>1. pc[a] \in Sending /\ UNCHANGED <<row, hacienda>>
    BY <1>5 DEF LoadContext, PostTokenExpired, Sending
  <2> QED
    BY <1>3, <1>4, <2>1
<1>6. CASE PostAnswered(a) \/ PostAnsweredBadly(a)
  <2>1. pc[a] \in Sending /\ UNCHANGED row
    BY <1>6 DEF PostAnswered, PostAnsweredBadly, Sending
  <2>2. PICK result \in {"ACKNOWLEDGED", "POST_OUTCOME_UNKNOWN",
                        "TECHNICAL_RETRY_PENDING", "MANUAL_REVIEW_REQUIRED"} :
           /\ BeginApply(a, result, FALSE, ScheduledJob(result))
           /\ result = "TECHNICAL_RETRY_PENDING" => hacienda' = hacienda
    BY <1>6 DEF PostAnswered, PostAnsweredBadly, Answer
  <2>3. pc'[a] = "apply" /\ mem'[a].result = result
    BY <1>0, <2>2, BeginApplyEffect
  <2>4. mem'[a].result \in BeforeClaim => hacienda' = "none"
    BY <1>4, <2>1, <2>2, <2>3 DEF BeforeClaim, ClaimableStatuses, None
  <2>5. row'.status \notin BeforeClaim /\ Holds(a) /\ pc'[a] \notin Sending
    BY <1>4, <2>1, <2>3 DEF Sending
  <2> QED
    BY <1>0, <1>1, <2>4, <2>5, UnpostedKeeps
<1> QED
  BY <1>2, <1>5, <1>6

\* A step that leaves the row and Hacienda as they are, and gives no actor a hold or a
\* result it did not have.
LEMMA UnpostedStays ==
    ASSUME HolderInv, UnpostedInv, NEW a \in Actors, Only(a),
           row'.status = row.status, hacienda' = hacienda,
           Holds(a)' /\ (pc'[a] \in Sending \/ mem'[a].result \in BeforeClaim)
              => Holds(a) /\ (pc[a] \in Sending \/ mem[a].result \in BeforeClaim)
    PROVE  UnpostedInv'
<1>1. row'.status \in BeforeClaim => hacienda' = "none"
  BY DEF UnpostedInv
<1>2. Holds(a)' /\ (pc'[a] \in Sending \/ mem'[a].result \in BeforeClaim)
         => hacienda' = "none"
  BY DEF UnpostedInv
<1> QED
  BY <1>1, <1>2, UnpostedKeeps

\* A reconcile job never holds the row.
LEMMA ReconcileJobUnposted ==
    ASSUME TypeOK, HolderInv, UnpostedInv, NEW a \in Workers,
           TakeReconcileJob(a) \/ GetAnswered(a) \/ GetAnsweredBadly(a)
    PROVE  UnpostedInv'
<1>0. /\ mem \in [Actors -> Memory] /\ pc \in [Actors -> Labels] /\ mem[a] \in Memory
      /\ row \in Row /\ a \in Actors
  BY DEF TypeOK, Actors
<1>1. Only(a) /\ Tied(a)
  BY <1>0, ActorsAct DEF HolderInv
<1>2. row'.status = row.status /\ hacienda' = hacienda
  BY <1>0 DEF TakeReconcileJob, GetAnswered, GetAnsweredBadly, Row
<1>3. CASE TakeReconcileJob(a)
  <2>1. CASE UNCHANGED <<pc, mem>>
    BY <1>2, <2>1 DEF UnpostedInv, Holds
  <2>2. ASSUME NEW to \in {"apply", "query"}, pc' = [pc EXCEPT ![a] = to],
               mem'[a].work = "RECONCILE"
        PROVE  UnpostedInv'
    <3>1. ~Holds(a)'
      BY <1>0, <2>2 DEF Holds, Sending
    <3> QED
      BY <1>0, <1>1, <1>2, <3>1, UnpostedStays
  <2>3. CASE /\ pc' = [pc EXCEPT ![a] = "apply"]
             /\ mem' = [mem EXCEPT ![a] = [@ EXCEPT !.work = "RECONCILE",
                                                     !.result = "MANUAL_REVIEW_REQUIRED"]]
    <3>1. mem'[a].work = "RECONCILE"
      BY <1>0, <2>3 DEF Memory
    <3> QED
      BY <2>2, <2>3, <3>1
  <2>4. CASE /\ pc' = [pc EXCEPT ![a] = "query"]
             /\ mem' = [mem EXCEPT ![a].work = "RECONCILE"]
    <3>1. mem'[a].work = "RECONCILE"
      BY <1>0, <2>4 DEF Memory
    <3> QED
      BY <2>2, <2>4, <3>1
  <2> QED
    BY <1>3, <2>1, <2>3, <2>4 DEF TakeReconcileJob
<1>4. ASSUME GetAnswered(a) \/ GetAnsweredBadly(a) PROVE UnpostedInv'
  <2>1. mem[a].work = "RECONCILE"
    BY <1>1, <1>4 DEF GetAnswered, GetAnsweredBadly, Tied
  <2>2. PICK result \in Statuses, artifact \in BOOLEAN, job \in Jobs \cup {None} :
           BeginApply(a, result, artifact, job)
    <3>1. \A result : ScheduledJob(result) \in Jobs \cup {None}
      BY DEF ScheduledJob, Jobs
    <3> QED
      BY <1>4, <3>1 DEF GetAnswered, GetAnsweredBadly, Answer, Statuses, Verdicts
  <2>3. pc'[a] = "apply" /\ mem'[a].work = "RECONCILE"
    BY <1>0, <2>1, <2>2, BeginApplyEffect
  <2>4. ~Holds(a)'
    BY <2>3 DEF Holds, Sending
  <2> QED
    BY <1>0, <1>1, <1>2, <2>4, UnpostedStays
<1> QED
  BY <1>3, <1>4

\* A result that opens the row to a claim is committed only while nothing is posted.
LEMMA ApplyStepUnposted ==
    ASSUME TypeOK, HolderInv, UnpostedInv, NEW a \in Actors, ApplyStep(a)
    PROVE  UnpostedInv'
<1>0. /\ mem \in [Actors -> Memory] /\ pc \in [Actors -> Labels] /\ mem[a] \in Memory
      /\ row \in Row
  BY DEF TypeOK
<1>1. Only(a) /\ Tied(a)
  BY ActorsAct DEF HolderInv
<1>2. hacienda' = hacienda
  BY DEF ApplyStep, ReadAndEvaluate, StoreResponseArtifact, CommitResult,
     IndexResponseArtifact, PublishNext
<1>3. ASSUME AfterApply(a) \/ Finish(a) PROVE ~Holds(a)'
  <2>1. pc'[a] \in {"idle", "publish"}
    BY <1>0, <1>3, AfterApplyEffect DEF Finish
  <2> QED
    BY <2>1 DEF Holds, Sending
<1>4. CASE ReadAndEvaluate(a)
  <2>1. UNCHANGED row /\ pc[a] = "apply"
    BY <1>4 DEF ReadAndEvaluate
  <2>2. CASE EvaluateTransition(row.status, mem[a].result) = "APPLIED"
    <3>1. /\ pc'[a] \in {"store", "commit"}
          /\ mem'[a].work = mem[a].work
          /\ mem'[a].result = mem[a].result
      BY <1>0, <1>4, <2>2 DEF ReadAndEvaluate, Memory
    <3>2. pc'[a] \notin Sending /\ (Holds(a)' => Holds(a))
      BY <2>1, <3>1 DEF Holds, Sending
    <3> QED
      BY <1>1, <1>2, <2>1, <3>1, <3>2, UnpostedStays
  <2>3. CASE EvaluateTransition(row.status, mem[a].result) # "APPLIED"
    <3>1. ~Holds(a)'
      BY <1>3, <1>4, <2>3 DEF ReadAndEvaluate
    <3> QED
      BY <1>1, <1>2, <2>1, <3>1, UnpostedStays
  <2> QED
    BY <2>2, <2>3
<1>5. CASE StoreResponseArtifact(a)
  <2>1. pc[a] = "store" /\ pc'[a] = "commit" /\ UNCHANGED <<row, mem>>
    BY <1>0, <1>5 DEF StoreResponseArtifact
  <2>2. ~Holds(a)'
    BY <1>1, <2>1 DEF Tied, Holds, Sending
  <2> QED
    BY <1>1, <1>2, <2>1, <2>2, UnpostedStays
<1>6. CASE CommitResult(a)
  <2>1. pc[a] = "commit"
    BY <1>6 DEF CommitResult
  <2>2. ~Holds(a)'
    <3>1. CASE mem[a].artifact
      <4>1. pc'[a] = "index"
        BY <1>0, <1>6, <3>1 DEF CommitResult
      <4> QED
        BY <4>1 DEF Holds, Sending
    <3>2. CASE ~mem[a].artifact
      BY <1>3, <1>6, <3>2 DEF CommitResult, Conclude
    <3> QED
      BY <3>1, <3>2
  <2>3. row'.status \in BeforeClaim => hacienda = "none"
    <3>1. CASE row.status \in Terminal
      BY <1>6, <3>1 DEF CommitResult, WrittenRow, UnpostedInv
    <3>2. CASE row.status \notin Terminal
      <4>1. row'.status = mem[a].result
        BY <1>0, <1>6, <3>2 DEF CommitResult, WrittenRow, Row
      <4>2. row'.status \in BeforeClaim => Holds(a)
        BY <1>1, <2>1, <4>1 DEF Tied, Holds
      <4> QED
        BY <4>1, <4>2 DEF UnpostedInv
    <3> QED
      BY <3>1, <3>2
  <2> QED
    BY <1>1, <1>2, <2>2, <2>3, UnpostedKeeps
<1>7. CASE IndexResponseArtifact(a) \/ PublishNext(a)
  <2>1. UNCHANGED row
    BY <1>7 DEF IndexResponseArtifact, PublishNext
  <2>2. ~Holds(a)'
    BY <1>3, <1>7 DEF IndexResponseArtifact, PublishNext, Conclude
  <2> QED
    BY <1>1, <1>2, <2>1, <2>2, UnpostedStays
<1> QED
  BY <1>4, <1>5, <1>6, <1>7 DEF ApplyStep

\* A recovery, a failure and a request open the row only while nothing is posted; a death
\* opens nothing.
LEMMA RetryUnposted ==
    ASSUME TypeOK, HolderInv, UnpostedInv, RetriesUnposted, NEW a \in Actors,
           \/ a \in Sweepers /\ Sweep(a)
           \/ a \in Workers /\ HandleSubmitFailure(a)
           \/ a \in Clients /\ (SubmitRead(a) \/ SubmitCreate(a) \/ SubmitMark(a))
           \/ Throw(a) \/ Crash(a) \/ IndexMissing(a)
    PROVE  UnpostedInv'
<1>0. /\ mem \in [Actors -> Memory] /\ pc \in [Actors -> Labels] /\ mem[a] \in Memory
      /\ row \in Row
  BY DEF TypeOK
<1>1. Only(a) /\ Tied(a)
  BY ActorsAct DEF HolderInv
<1>2. hacienda' = hacienda
  BY DEF Sweep, HandleSubmitFailure, SubmitRead, SubmitCreate, SubmitMark, Throw, Crash,
     IndexMissing, Abandon
<1>3. CASE a \in Sweepers /\ Sweep(a)
  <2>1. CASE pc' = [pc EXCEPT ![a] = "publish"]
    <3>1. ~Holds(a)'
      BY <1>0, <2>1 DEF Holds, Sending
    <3> QED
      BY <1>1, <1>2, <1>3, <3>1, UnpostedStays DEF Sweep
  <2>2. CASE BeginApply(a, "TECHNICAL_RETRY_PENDING", FALSE, "SUBMIT")
    <3>1. hacienda = "none"
      BY <1>0, <1>3, <2>2, BeginApplyEffect DEF RetriesUnposted
    <3> QED
      BY <1>1, <1>2, <3>1, UnpostedKeeps
  <2> QED
    BY <1>3, <2>1, <2>2 DEF Sweep
<1>4. CASE a \in Workers /\ HandleSubmitFailure(a)
  <2>1. hacienda = "none"
    BY <1>4 DEF RetriesUnposted
  <2> QED
    BY <1>1, <1>2, <2>1, UnpostedKeeps
<1>5. ASSUME a \in Clients, SubmitRead(a) \/ SubmitCreate(a) \/ SubmitMark(a)
      PROVE  UnpostedInv'
  <2>1. pc'[a] \in {"idle", "create", "mark", "publish"}
    BY <1>0, <1>5 DEF SubmitRead, SubmitCreate, SubmitMark, Finish
  <2>2. ~Holds(a)'
    BY <2>1 DEF Holds, Sending
  <2>3. row'.status \in BeforeClaim => hacienda = "none"
    BY <1>5 DEF SubmitRead, SubmitCreate, RetriesUnposted, UnpostedInv, BeforeClaim
  <2> QED
    BY <1>1, <1>2, <2>2, <2>3, UnpostedKeeps
<1>6. CASE Throw(a) \/ Crash(a) \/ IndexMissing(a)
  <2>1. pc'[a] = "idle" /\ UNCHANGED row
    BY <1>0, <1>6 DEF Throw, Crash, IndexMissing, Abandon, Finish
  <2>2. ~Holds(a)'
    BY <2>1 DEF Holds, Sending
  <2> QED
    BY <1>1, <1>2, <2>1, <2>2, UnpostedStays
<1> QED
  BY <1>3, <1>4, <1>5, <1>6

LEMMA UnpostedStep ==
    ASSUME TypeOK, HolderInv, UnpostedInv, [Next]_vars, [RetriesUnposted]_vars
    PROVE  UnpostedInv'
<1>1. CASE UNCHANGED vars
  BY <1>1 DEF vars, UnpostedInv, Holds
<1>2. CASE Next /\ RetriesUnposted
  <2>1. ASSUME NEW c \in Clients, ClientStep(c) \/ SubmitRead(c) PROVE UnpostedInv'
    BY <1>2, <2>1, RetryUnposted, ApplyStepUnposted DEF ClientStep, Actors
  <2>2. ASSUME NEW w \in Workers,
               \/ WorkerStep(w) \/ PostAnsweredBadly(w) \/ PostTokenExpired(w)
               \/ GetAnsweredBadly(w) \/ HandleSubmitFailure(w)
        PROVE  UnpostedInv'
    BY <1>2, <2>2, SubmitJobUnposted, ReconcileJobUnposted, ApplyStepUnposted, RetryUnposted
       DEF WorkerStep, Actors
  <2>3. ASSUME NEW s \in Sweepers, SweeperStep(s) PROVE UnpostedInv'
    BY <1>2, <2>3, RetryUnposted, ApplyStepUnposted DEF SweeperStep, Actors
  <2>4. ASSUME NEW a \in Actors, Throw(a) \/ Crash(a) PROVE UnpostedInv'
    BY <1>2, <2>4, RetryUnposted
  <2>5. CASE RequestReconciliation \/ HandleCallback \/ TimeStep \/ ChangeConnection
    <3>1. row \in Row
      BY DEF TypeOK
    <3>2. pc' = pc /\ mem' = mem
      BY <2>5 DEF RequestReconciliation, HandleCallback, Signal, ChangeConnection, TimeStep,
         Decide, BecomeDue, LeaseEnds, SlotEnds
    <3>3. row'.status = row.status
      BY <2>5, <3>1 DEF Row, RequestReconciliation, HandleCallback, Signal, TimeStep, Decide,
         BecomeDue, LeaseEnds, SlotEnds, ChangeConnection
    <3>4. hacienda = "none" => hacienda' = "none"
      BY <2>5 DEF RequestReconciliation, HandleCallback, Signal, ChangeConnection, TimeStep,
         Decide, BecomeDue, LeaseEnds, SlotEnds
    <3> QED
      BY <3>2, <3>3, <3>4 DEF UnpostedInv, Holds
  <2> QED
    BY <1>2, <2>1, <2>2, <2>3, <2>4, <2>5 DEF Next, Disturbance
<1> QED
  BY <1>1, <1>2

\* While the claim is protected, and a technical retry is applied only to what was not
\* posted, no worker is about to POST a document that Hacienda already holds: whatever
\* dies, is signalled or answered late, the other steps never bring the row back to one.
THEOREM OnlyRetriesRepost ==
    Spec /\ [][ClaimProtected]_vars /\ [][RetriesUnposted]_vars => [](UnpostedInv /\ NoRepost)
<1>1. Init => UnpostedInv
  BY DEF Init, UnpostedInv
<1>2. TypeOK /\ HolderInv /\ UnpostedInv /\ [Next]_vars /\ [RetriesUnposted]_vars
         => UnpostedInv'
  BY UnpostedStep
<1>3. UnpostedInv => NoRepost
  BY DEF UnpostedInv, NoRepost, Holds, Sending, Actors
<1> QED
  BY <1>1, <1>2, <1>3, TypeCorrect, OnlyFiveStepsShareTheClaim, PTL DEF Spec
-----------------------------------------------------------------------------
(* Every change of the status is one the table allows *)

\* Nothing but the answers to the POST goes wrong: no signal asks for a reconciliation
\* before its time, and the company stays connected.
OnlyPostDisturbed ==
    /\ Undisturbed
    /\ Limit["signal"] = 0
    /\ Limit["connection"] = 0

\* Until the answer to a POST is committed.
Early == BeforeClaim \cup {"SUBMITTING"}

\* A result agrees with what Hacienda holds, and a retry publishes a submit job.
ResultInOrder(a) ==
    pc[a] \in {"apply", "store", "commit"} =>
        /\ mem[a].result = "MANUAL_REVIEW_REQUIRED" => hacienda = "none"
        /\ mem[a].result \in {"ACKNOWLEDGED", "PROCESSING"} \cup Verdicts => hacienda # "none"
        /\ mem[a].result = "TECHNICAL_RETRY_PENDING" => mem[a].publish = "SUBMIT"

\* a neither reconciles nor is about to publish a reconcile job.
NoReconciliation(a) ==
    /\ mem[a].work # "RECONCILE"
    /\ pc[a] = "publish" => mem[a].publish # "RECONCILE"

\* Reconciliation starts after the answer to the POST is committed, and what the row says
\* of that answer agrees with what Hacienda holds.
TableInv ==
    /\ connected
    /\ row.status \in Early =>
          queue["RECONCILE"] = 0 /\ \A a \in Actors : NoReconciliation(a)
    /\ row.status = "MANUAL_REVIEW_REQUIRED" => hacienda = "none"
    /\ row.status \in {"ACKNOWLEDGED", "PROCESSING"} => hacienda # "none"
    /\ \A a \in Actors : Engaged(a) => row.status = "SUBMITTING"
    /\ \A a \in Actors : ResultInOrder(a)

\* What a step of one execution has to leave behind.
LEMMA TableKeeps ==
    ASSUME ClaimInv, TableInv, NEW a \in Actors, Only(a), connected', ResultInOrder(a)',
           hacienda' = hacienda \/ Engaged(a),
           Engaged(a)' => row'.status = "SUBMITTING",
           row.status = "SUBMITTING" => row'.status = "SUBMITTING" \/ Engaged(a),
           row'.status \in Early =>
              row.status \in Early /\ queue'["RECONCILE"] = 0 /\ NoReconciliation(a)',
           row'.status = "MANUAL_REVIEW_REQUIRED" => hacienda' = "none",
           row'.status \in {"ACKNOWLEDGED", "PROCESSING"} => hacienda' # "none"
    PROVE  TableInv'
<1>1. \A b \in Actors : b # a => /\ pc'[b] = pc[b]
                                 /\ mem'[b] = mem[b]
                                 /\ Engaged(b)' <=> Engaged(b)
  BY DEF Only, Engaged
<1>2. \A b \in Actors : ResultInOrder(b)'
  <2>1. SUFFICES ASSUME NEW b \in Actors, b # a PROVE ResultInOrder(b)'
    OBVIOUS
  <2>2. CASE hacienda' = hacienda
    BY <1>1, <2>1, <2>2 DEF TableInv, ResultInOrder
  <2>3. CASE Engaged(a)
    <3>1. NoReconciliation(b) /\ ~Engaged(b) /\ JobInOrder(b)
      BY <2>1, <2>3 DEF TableInv, ClaimInv, Early
    <3>2. pc[b] \notin {"apply", "store", "commit"}
      BY <3>1 DEF NoReconciliation, JobInOrder, Engaged
    <3> QED
      BY <1>1, <2>1, <3>2 DEF ResultInOrder
  <2> QED
    BY <2>2, <2>3
<1>3. \A b \in Actors : Engaged(b)' => row'.status = "SUBMITTING"
  BY <1>1 DEF TableInv, ClaimInv
<1>4. row'.status \in Early =>
         queue'["RECONCILE"] = 0 /\ \A b \in Actors : NoReconciliation(b)'
  BY <1>1 DEF TableInv, NoReconciliation
<1> QED
  BY <1>2, <1>3, <1>4 DEF TableInv

\* A submit job holds an answer that agrees with what Hacienda holds.
LEMMA SubmitJobAgrees ==
    ASSUME TypeOK, ClaimInv, TableInv, NEW a \in Workers,
           \/ ClaimSubmission(a) \/ LoadContext(a) \/ PostAnswered(a)
           \/ PostAnsweredBadly(a) \/ PostTokenExpired(a)
    PROVE  TableInv'
<1>0. /\ mem \in [Actors -> Memory] /\ pc \in [Actors -> Labels] /\ mem[a] \in Memory
      /\ row \in Row /\ queue \in [Jobs -> Nat] /\ a \in Actors
  BY DEF TypeOK, Actors
<1>1. Only(a) /\ JobInOrder(a)
  BY <1>0, ActorsAct DEF ClaimInv
<1>2. connected' /\ queue'["RECONCILE"] = queue["RECONCILE"]
  BY <1>0 DEF TableInv, ClaimSubmission, LoadContext, PostAnswered, PostAnsweredBadly,
     PostTokenExpired, Jobs
<1>3. CASE ClaimSubmission(a)
  <2>1. hacienda' = hacienda
    BY <1>3 DEF ClaimSubmission
  <2>2. CASE UNCHANGED <<row, pc, mem>>
    <3>1. row' = row /\ pc' = pc /\ mem' = mem
      BY <2>2
    <3> QED
      BY <1>2, <2>1, <3>1 DEF TableInv, ResultInOrder, NoReconciliation, Engaged
  <2>3. CASE /\ row.status \in ClaimableStatuses
             /\ row' = [row EXCEPT !.status = "SUBMITTING", !.fresh = TRUE]
             /\ pc' = [pc EXCEPT ![a] = "load"]
             /\ mem' = [mem EXCEPT ![a].work = "SUBMIT"]
    <3>1. pc'[a] = "load" /\ mem'[a].work = "SUBMIT"
      BY <1>0, <2>3 DEF Memory
    <3>2. row'.status = "SUBMITTING" /\ row.status \in Early
      BY <1>0, <2>3 DEF Row, Early, BeforeClaim
    <3>3. ResultInOrder(a)' /\ NoReconciliation(a)'
      BY <3>1 DEF ResultInOrder, NoReconciliation
    <3>4. queue["RECONCILE"] = 0
      BY <3>2 DEF TableInv
    <3> QED
      BY <1>0, <1>1, <1>2, <2>1, <3>2, <3>3, <3>4, TableKeeps
  <2> QED
    BY <1>3, <2>2, <2>3 DEF ClaimSubmission
<1>4. ASSUME pc[a] \in Sending, UNCHANGED row, ResultInOrder(a)',
             mem'[a].work = mem[a].work, pc'[a] # "publish"
      PROVE  TableInv'
  <2>1. Engaged(a) /\ row.status = "SUBMITTING" /\ mem[a].work = "SUBMIT"
    BY <1>0, <1>1, <1>4 DEF Engaged, JobInOrder, TableInv
  <2>2. queue["RECONCILE"] = 0 /\ NoReconciliation(a)' /\ row'.status = "SUBMITTING"
    BY <1>0, <1>4, <2>1 DEF TableInv, Early, NoReconciliation
  <2> QED
    BY <1>0, <1>1, <1>2, <1>4, <2>1, <2>2, TableKeeps DEF Early
<1>5. CASE LoadContext(a)
  <2>1. pc'[a] = "send" /\ mem' = mem /\ UNCHANGED row /\ pc[a] \in Sending
    BY <1>0, <1>5 DEF LoadContext, TableInv, Sending
  <2> QED
    BY <1>4, <2>1 DEF ResultInOrder
<1>6. CASE /\ PostTokenExpired(a)
           /\ pc[a] = "send"
           /\ pc' = [pc EXCEPT ![a] = "resend"]
           /\ UNCHANGED mem
  <2>1. pc'[a] = "resend" /\ mem' = mem /\ UNCHANGED row /\ pc[a] \in Sending
    BY <1>0, <1>6 DEF PostTokenExpired, Sending
  <2> QED
    BY <1>4, <2>1 DEF ResultInOrder
<1>7. ASSUME NEW result \in Statuses, UNCHANGED row, pc[a] \in Sending, Answer(a, result),
             result = "MANUAL_REVIEW_REQUIRED" => hacienda' = "none",
             result \in {"ACKNOWLEDGED", "PROCESSING"} \cup Verdicts => hacienda' # "none"
      PROVE  TableInv'
  <2>1. BeginApply(a, result, FALSE, ScheduledJob(result))
    BY <1>7 DEF Answer
  <2>2. /\ pc'[a] = "apply"
        /\ mem'[a].result = result
        /\ mem'[a].publish = ScheduledJob(result)
        /\ mem'[a].work = mem[a].work
    BY <1>0, <2>1, BeginApplyEffect, ZenonT(60)
  <2>3. ResultInOrder(a)'
    BY <1>7, <2>2 DEF ResultInOrder, ScheduledJob, Reconcilable
  <2> QED
    BY <1>4, <1>7, <2>2, <2>3
<1>8. ASSUME PostAnswered(a) \/ PostAnsweredBadly(a)
             \/ (PostTokenExpired(a) /\ Answer(a, "TECHNICAL_RETRY_PENDING"))
      PROVE  TableInv'
  <2>1. UNCHANGED row /\ pc[a] \in Sending
    BY <1>8 DEF PostAnswered, PostAnsweredBadly, PostTokenExpired, Sending
  <2>2. hacienda = "none"
    BY <1>1, <2>1 DEF JobInOrder
  <2>3. \/ Answer(a, "ACKNOWLEDGED") /\ hacienda' # "none"
        \/ Answer(a, "POST_OUTCOME_UNKNOWN")
        \/ Answer(a, "TECHNICAL_RETRY_PENDING")
        \/ Answer(a, "MANUAL_REVIEW_REQUIRED") /\ hacienda' = "none"
    BY <1>8, <2>2 DEF PostAnswered, PostAnsweredBadly, Received
  <2> QED
    BY <1>7, <2>1, <2>3 DEF Statuses, Verdicts
<1> QED
  BY <1>3, <1>5, <1>6, <1>8 DEF PostTokenExpired

\* So does a reconcile job, which runs only once the answer to the POST is committed.
LEMMA ReconcileJobAgrees ==
    ASSUME TypeOK, ClaimInv, TableInv, Limit["get"] = 0, NEW a \in Workers,
           TakeReconcileJob(a) \/ GetAnswered(a) \/ GetAnsweredBadly(a)
    PROVE  TableInv'
<1>0. /\ mem \in [Actors -> Memory] /\ pc \in [Actors -> Labels] /\ mem[a] \in Memory
      /\ row \in Row /\ spent \in [Disturbances -> Nat] /\ queue \in [Jobs -> Nat]
      /\ a \in Actors
  BY DEF TypeOK, Actors
<1>1. Only(a) /\ JobInOrder(a)
  BY <1>0, ActorsAct DEF ClaimInv
<1>2. TakeReconcileJob(a) \/ GetAnswered(a)
  BY <1>0 DEF GetAnsweredBadly, Spend, Disturbances
<1>3. connected' /\ hacienda' = hacienda /\ row'.status = row.status
  BY <1>0, <1>2 DEF TakeReconcileJob, GetAnswered, Row, TableInv
<1>4. row.status \notin Early
  <2>1. CASE TakeReconcileJob(a)
    BY <1>0, <2>1 DEF TakeReconcileJob, TableInv, Jobs
  <2>2. CASE GetAnswered(a)
    <3>1. mem[a].work = "RECONCILE"
      BY <1>1, <2>2 DEF GetAnswered, JobInOrder
    <3> QED
      BY <1>0, <3>1 DEF TableInv, NoReconciliation
  <2> QED
    BY <1>2, <2>1, <2>2
<1>5. ASSUME ~Engaged(a)', ResultInOrder(a)' PROVE TableInv'
  <2>1. /\ row'.status = "MANUAL_REVIEW_REQUIRED" => hacienda' = "none"
        /\ row'.status \in {"ACKNOWLEDGED", "PROCESSING"} => hacienda' # "none"
    BY <1>3 DEF TableInv
  <2> QED
    BY <1>0, <1>1, <1>3, <1>4, <1>5, <2>1, TableKeeps
<1>6. CASE TakeReconcileJob(a)
  <2>1. CASE UNCHANGED <<row, pc, mem>>
    <3>1. row' = row /\ pc' = pc /\ mem' = mem
      BY <2>1
    <3> QED
      BY <1>3, <1>4, <3>1 DEF TableInv, ResultInOrder, Engaged
  <2>2. CASE ~UNCHANGED <<row, pc, mem>>
    <3>1. pc'[a] = "query" /\ mem' = [mem EXCEPT ![a].work = "RECONCILE"]
      BY <1>0, <1>6, <2>2 DEF TakeReconcileJob, TableInv
    <3>2. mem'[a].work = "RECONCILE"
      BY <1>0, <3>1 DEF Memory
    <3> QED
      BY <1>5, <3>1, <3>2 DEF Engaged, Sending, ResultInOrder
  <2> QED
    BY <2>1, <2>2
<1>7. CASE GetAnswered(a)
  <2>1. mem[a].work = "RECONCILE"
    BY <1>1, <1>7 DEF GetAnswered, JobInOrder
  <2>2. PICK result \in {"MANUAL_REVIEW_REQUIRED", "PROCESSING"} \cup Verdicts,
             artifact \in BOOLEAN, job \in Jobs \cup {None} :
           /\ BeginApply(a, result, artifact, job)
           /\ result = "MANUAL_REVIEW_REQUIRED" => hacienda = "none"
           /\ result # "MANUAL_REVIEW_REQUIRED" => hacienda # "none"
    <3>1. ScheduledJob("MANUAL_REVIEW_REQUIRED") \in Jobs \cup {None}
          /\ ScheduledJob("PROCESSING") \in Jobs \cup {None}
      BY DEF ScheduledJob, Jobs
    <3>2. CASE hacienda = "none" /\ Answer(a, "MANUAL_REVIEW_REQUIRED")
      BY <3>1, <3>2 DEF Answer
    <3>3. CASE hacienda = "received" /\ Answer(a, "PROCESSING")
      BY <3>1, <3>3 DEF Answer
    <3>4. CASE hacienda \in Verdicts /\ \E artifact \in BOOLEAN :
                 BeginApply(a, hacienda, artifact, None)
      <4>1. hacienda \notin {"none", "MANUAL_REVIEW_REQUIRED"}
        BY <3>4 DEF Verdicts
      <4> QED
        BY <3>4, <4>1
    <3> QED
      BY <1>7, <3>2, <3>3, <3>4 DEF GetAnswered
  <2>3. pc'[a] = "apply" /\ mem'[a].result = result /\ mem'[a].work = "RECONCILE"
    BY <1>0, <2>1, <2>2, BeginApplyEffect
  <2>4. ResultInOrder(a)' /\ ~Engaged(a)'
    BY <1>3, <2>2, <2>3 DEF ResultInOrder, Engaged, Sending, Verdicts
  <2> QED
    BY <1>5, <2>4
<1> QED
  BY <1>2, <1>6, <1>7

\* Between the evaluation of a result and its commit the row cannot move to a status the
\* result may not follow.
LEMMA CommitFollowsTable ==
    ASSUME TypeOK, ClaimInv, TableInv, NEW a \in Actors, pc[a] \in {"apply", "store", "commit"}
    PROVE  row.status \in Terminal \/ CanTransition(row.status, mem[a].result)
<1>0. /\ mem[a] \in Memory /\ row \in Row /\ JobInOrder(a) /\ ResultInOrder(a)
      /\ row.status \in Statuses \cup {None}
  BY DEF TypeOK, ClaimInv, TableInv, Row
<1>1. CASE mem[a].work = "SUBMIT"
  <2>1. Engaged(a) /\ row.status = "SUBMITTING"
    BY <1>0, <1>1 DEF JobInOrder, Engaged, TableInv
  <2>2. mem[a].result \in {"ACKNOWLEDGED", "POST_OUTCOME_UNKNOWN",
                           "TECHNICAL_RETRY_PENDING", "MANUAL_REVIEW_REQUIRED"}
    BY <1>0, <1>1 DEF JobInOrder
  <2> QED
    BY <2>1, <2>2 DEF CanTransition, Successors, Statuses
<1>2. CASE mem[a].work = "RECONCILE"
  <2>1. row.status \notin Early
    BY <1>2 DEF TableInv, NoReconciliation
  <2>2. row.status \in Terminal \cup {"POST_OUTCOME_UNKNOWN", "ACKNOWLEDGED", "PROCESSING",
                                      "MANUAL_REVIEW_REQUIRED"}
    BY <1>0, <2>1 DEF Early, BeforeClaim, ClaimableStatuses, Statuses, Terminal, Verdicts
  <2>3. mem[a].result \in {"MANUAL_REVIEW_REQUIRED", "PROCESSING"} \cup Verdicts
    BY <1>0, <1>2 DEF JobInOrder
  <2>4. CASE row.status = "MANUAL_REVIEW_REQUIRED"
    <3>1. hacienda = "none"
      BY <2>4 DEF TableInv
    <3>2. mem[a].result = "MANUAL_REVIEW_REQUIRED"
      BY <1>0, <2>3, <3>1 DEF ResultInOrder
    <3> QED
      BY <2>4, <3>2 DEF CanTransition
  <2>5. CASE row.status \in {"ACKNOWLEDGED", "PROCESSING"}
    <3>1. mem[a].result # "MANUAL_REVIEW_REQUIRED"
      BY <1>0, <2>5 DEF ResultInOrder, TableInv
    <3> QED
      BY <2>3, <2>5, <3>1 DEF CanTransition, Successors, Statuses, Verdicts
  <2>6. CASE row.status = "POST_OUTCOME_UNKNOWN"
    BY <2>3, <2>6 DEF CanTransition, Successors, Statuses, Verdicts
  <2> QED
    BY <2>2, <2>4, <2>5, <2>6
<1> QED
  BY <1>0, <1>1, <1>2 DEF JobInOrder

\* Applying a result moves the row along the table, and leaves early statuses behind with
\* any result but a retry.
LEMMA ApplyAgrees ==
    ASSUME TypeOK, ClaimInv, TableInv, NEW a \in Actors, ApplyStep(a)
    PROVE  TableInv'
<1>0. /\ mem \in [Actors -> Memory] /\ pc \in [Actors -> Labels] /\ mem[a] \in Memory
      /\ row \in Row /\ queue \in [Jobs -> Nat]
  BY DEF TypeOK
<1>1. Only(a) /\ JobInOrder(a) /\ ResultInOrder(a)
  BY ActorsAct DEF ClaimInv, TableInv
<1>2. connected' /\ hacienda' = hacienda
  BY DEF ApplyStep, ReadAndEvaluate, StoreResponseArtifact, CommitResult,
     IndexResponseArtifact, PublishNext, TableInv
\* The row keeps its status.
<1>3. ASSUME row'.status = row.status, ResultInOrder(a)', Engaged(a)' => Engaged(a),
             row.status \in Early => queue'["RECONCILE"] = 0 /\ NoReconciliation(a)'
      PROVE  TableInv'
  <2>1. Engaged(a)' => row'.status = "SUBMITTING"
    BY <1>3 DEF TableInv
  <2>2. /\ row'.status = "MANUAL_REVIEW_REQUIRED" => hacienda' = "none"
        /\ row'.status \in {"ACKNOWLEDGED", "PROCESSING"} => hacienda' # "none"
    BY <1>2, <1>3 DEF TableInv
  <2> QED
    BY <1>1, <1>2, <1>3, <2>1, <2>2, TableKeeps
<1>4. ASSUME AfterApply(a)
      PROVE  /\ ResultInOrder(a)' /\ ~Engaged(a)'
             /\ mem'[a].work \in {None, mem[a].work}
             /\ pc'[a] = "publish" => mem'[a].publish = mem[a].publish
  <2>1. \/ pc'[a] = "idle" /\ mem'[a] = NoMemory
        \/ /\ pc'[a] = "publish"
           /\ mem'[a].publish = mem[a].publish
           /\ mem'[a].work = mem[a].work
    BY <1>4, AfterApplyEffect
  <2> QED
    BY <2>1 DEF ResultInOrder, Engaged, Sending, NoMemory
<1>5. CASE ReadAndEvaluate(a)
  <2>1. UNCHANGED <<row, queue>> /\ pc[a] = "apply"
    BY <1>5 DEF ReadAndEvaluate
  <2>2. CASE EvaluateTransition(row.status, mem[a].result) = "APPLIED"
    <3>1. /\ pc'[a] = IF mem[a].artifact THEN "store" ELSE "commit"
          /\ mem'[a].work = mem[a].work
          /\ mem'[a].result = mem[a].result
          /\ mem'[a].publish = mem[a].publish
      BY <1>0, <1>5, <2>2 DEF ReadAndEvaluate, Memory
    <3>2. ResultInOrder(a)' /\ (Engaged(a)' => Engaged(a))
      BY <1>1, <1>2, <2>1, <3>1 DEF ResultInOrder, Engaged, Sending
    <3>3. row.status \in Early => queue'["RECONCILE"] = 0 /\ NoReconciliation(a)'
      BY <2>1, <3>1 DEF TableInv, NoReconciliation
    <3> QED
      BY <1>3, <2>1, <3>2, <3>3
  <2>3. CASE EvaluateTransition(row.status, mem[a].result) # "APPLIED"
    <3>1. AfterApply(a) /\ row.status \in Terminal
      BY <1>5, <2>1, <2>3, CommitFollowsTable DEF ReadAndEvaluate, EvaluateTransition
    <3>2. row.status \notin Early
      BY <3>1 DEF Early, BeforeClaim, ClaimableStatuses, Terminal, Verdicts, None
    <3> QED
      BY <1>3, <1>4, <2>1, <3>1, <3>2
  <2> QED
    BY <2>2, <2>3
<1>6. CASE StoreResponseArtifact(a)
  <2>1. pc[a] = "store" /\ pc'[a] = "commit" /\ UNCHANGED <<row, queue, mem>>
    BY <1>0, <1>6 DEF StoreResponseArtifact
  <2>2. ResultInOrder(a)'
    BY <1>1, <1>2, <2>1 DEF ResultInOrder
  <2>3. ~Engaged(a)'
    BY <1>1, <2>1 DEF JobInOrder, Engaged, Sending
  <2>4. row.status \in Early => queue'["RECONCILE"] = 0 /\ NoReconciliation(a)'
    BY <2>1 DEF TableInv, NoReconciliation
  <2> QED
    BY <1>3, <2>1, <2>2, <2>3, <2>4
<1>7. CASE CommitResult(a)
  <2>1. pc[a] = "commit" /\ UNCHANGED queue
    BY <1>7 DEF CommitResult
  <2>2. /\ ResultInOrder(a)' /\ ~Engaged(a)'
        /\ mem'[a].work \in {None, mem[a].work}
        /\ pc'[a] = "publish" => mem'[a].publish = mem[a].publish
    <3>1. CASE mem[a].artifact
      <4>1. pc'[a] = "index" /\ mem' = mem
        BY <1>0, <1>7, <3>1 DEF CommitResult
      <4> QED
        BY <4>1 DEF ResultInOrder, Engaged, Sending
    <3>2. CASE ~mem[a].artifact
      BY <1>4, <1>7, <3>2 DEF CommitResult, Conclude
    <3> QED
      BY <3>1, <3>2
  <2>3. CASE row.status \in Terminal
    <3>1. row' = row
      BY <1>7, <2>3 DEF CommitResult, WrittenRow
    <3>2. row.status \notin Early
      BY <2>3 DEF Early, BeforeClaim, ClaimableStatuses, Terminal, Verdicts, None
    <3> QED
      BY <1>3, <2>2, <3>1, <3>2
  <2>4. CASE row.status \notin Terminal
    <3>1. row'.status = mem[a].result
      BY <1>0, <1>7, <2>4 DEF CommitResult, WrittenRow, Row
    <3>2. Engaged(a) \/ row.status # "SUBMITTING"
      BY <1>1, <2>1 DEF JobInOrder, Engaged, TableInv, NoReconciliation, Early
    <3>3. row'.status \in Early => Engaged(a) /\ mem[a].result = "TECHNICAL_RETRY_PENDING"
      BY <1>1, <2>1, <3>1 DEF JobInOrder, Engaged, Early, BeforeClaim, ClaimableStatuses,
         Verdicts, None
    <3>4. row'.status \in Early =>
             row.status \in Early /\ queue'["RECONCILE"] = 0 /\ NoReconciliation(a)'
      <4>1. SUFFICES ASSUME row'.status \in Early
                     PROVE  row.status \in Early /\ queue["RECONCILE"] = 0
                            /\ NoReconciliation(a)'
        BY <2>1
      <4>2. row.status \in Early
        BY <3>3, <4>1 DEF TableInv, Early
      <4>3. mem[a].publish = "SUBMIT" /\ mem[a].work # "RECONCILE"
        BY <1>1, <2>1, <3>3, <4>1, <4>2 DEF ResultInOrder, TableInv, NoReconciliation
      <4> QED
        BY <2>2, <4>2, <4>3 DEF TableInv, NoReconciliation, None
    <3>5. /\ row'.status = "MANUAL_REVIEW_REQUIRED" => hacienda' = "none"
          /\ row'.status \in {"ACKNOWLEDGED", "PROCESSING"} => hacienda' # "none"
      BY <1>1, <1>2, <2>1, <3>1 DEF ResultInOrder
    <3> QED
      BY <1>1, <1>2, <2>2, <3>2, <3>4, <3>5, TableKeeps
  <2> QED
    BY <2>3, <2>4
<1>8. CASE IndexResponseArtifact(a)
  <2>1. pc[a] = "index" /\ AfterApply(a) /\ UNCHANGED <<row, queue>>
    BY <1>8 DEF IndexResponseArtifact, Conclude
  <2>2. row.status \notin Early
    <3>1. mem[a].work = "RECONCILE"
      BY <1>1, <2>1 DEF JobInOrder
    <3> QED
      BY <3>1 DEF TableInv, NoReconciliation
  <2> QED
    BY <1>3, <1>4, <2>1, <2>2
<1>9. CASE PublishNext(a)
  <2>1. UNCHANGED row /\ pc'[a] = "idle" /\ mem'[a] = NoMemory
    BY <1>0, <1>9 DEF PublishNext, Finish
  <2>2. ResultInOrder(a)' /\ ~Engaged(a)' /\ NoReconciliation(a)'
    BY <2>1 DEF ResultInOrder, Engaged, Sending, NoReconciliation, NoMemory, None
  <2>3. row.status \in Early => queue'["RECONCILE"] = 0
    <3>1. SUFFICES ASSUME row.status \in Early PROVE queue'["RECONCILE"] = 0
      OBVIOUS
    <3>2. mem[a].publish # "RECONCILE" /\ queue["RECONCILE"] = 0
      BY <1>9, <3>1 DEF TableInv, NoReconciliation, PublishNext
    <3> QED
      BY <1>0, <1>9, <3>2 DEF PublishNext, PublishKeyed, Jobs
  <2> QED
    BY <1>3, <2>1, <2>2, <2>3
<1> QED
  BY <1>5, <1>6, <1>7, <1>8, <1>9 DEF ApplyStep

\* The first request publishes a submit job, and so does the sweep until the answer to the
\* POST is committed.
LEMMA RequestAndSweepAgree ==
    ASSUME TypeOK, RequestInv, ClaimInv, TableInv,
           Limit["local"] = 0, Limit["crash"] = 0, NEW a \in Actors,
           \/ SubmitRead(a) \/ SubmitCreate(a) \/ SubmitMark(a)
           \/ Sweep(a)
           \/ HandleSubmitFailure(a) \/ Throw(a) \/ Crash(a) \/ IndexMissing(a)
    PROVE  TableInv'
<1>0. /\ mem \in [Actors -> Memory] /\ pc \in [Actors -> Labels] /\ row \in Row
      /\ mem[a] \in Memory /\ queue \in [Jobs -> Nat]
      /\ spent["local"] = 0 /\ spent["crash"] = 0
  BY DEF TypeOK, ClaimInv
<1>1. Only(a)
  BY ActorsAct
<1>2. \/ SubmitRead(a) \/ SubmitCreate(a) \/ SubmitMark(a) \/ Sweep(a) \/ IndexMissing(a)
  BY <1>0 DEF HandleSubmitFailure, Throw, Crash, Spend
<1>3. /\ hacienda' = hacienda /\ connected'
  BY <1>2 DEF SubmitRead, SubmitCreate, SubmitMark, Sweep, IndexMissing, Abandon, TableInv
<1>4. ASSUME \/ row'.status = row.status
             \/ /\ row.status \in Early \ {"SUBMITTING"}
                /\ row'.status \in {"REQUESTED", "QUEUED"},
             pc'[a] \in {"idle", "create", "mark", "publish"},
             row.status \in Early => queue'["RECONCILE"] = 0 /\ NoReconciliation(a)'
      PROVE  TableInv'
  <2>1. ResultInOrder(a)' /\ (Engaged(a)' => row'.status = "SUBMITTING")
    BY <1>4 DEF ResultInOrder, Engaged, Sending
  <2>2. /\ row'.status = "MANUAL_REVIEW_REQUIRED" => hacienda' = "none"
        /\ row'.status \in {"ACKNOWLEDGED", "PROCESSING"} => hacienda' # "none"
    BY <1>3, <1>4 DEF TableInv
  <2>3. row'.status \in Early =>
           row.status \in Early /\ queue'["RECONCILE"] = 0 /\ NoReconciliation(a)'
    BY <1>4 DEF Early
  <2>4. row.status = "SUBMITTING" => row'.status = "SUBMITTING" \/ Engaged(a)
    BY <1>4
  <2> QED
    BY <1>1, <1>3, <2>1, <2>2, <2>3, <2>4, TableKeeps
<1>5. row.status \in Early => queue["RECONCILE"] = 0 /\ NoReconciliation(a)
  BY DEF TableInv
<1>6. CASE SubmitRead(a)
  <2>1. /\ UNCHANGED <<row, queue>> /\ pc'[a] \in {"create", "mark"}
        /\ mem'[a].work = mem[a].work
    BY <1>0, <1>6 DEF SubmitRead, Memory
  <2> QED
    BY <1>4, <1>5, <2>1 DEF NoReconciliation
<1>7. CASE SubmitCreate(a)
  <2>1. /\ UNCHANGED queue /\ pc'[a] = "mark" /\ mem'[a].work = mem[a].work
    BY <1>0, <1>7 DEF SubmitCreate, Memory
  <2>2. \/ row' = row
        \/ row.status = None /\ row'.status = "REQUESTED"
    BY <1>0, <1>7 DEF SubmitCreate, Row
  <2> QED
    BY <1>4, <1>5, <2>1, <2>2 DEF NoReconciliation, Early, BeforeClaim, None
<1>8. CASE SubmitMark(a)
  <2>1. row.status = "REQUESTED" /\ mem[a].seen = "REQUESTED"
    BY <1>8 DEF SubmitMark, RequestInv
  <2>2. JobNameForSubmissionStatus(mem[a].seen) = "SUBMIT"
    BY <2>1 DEF JobNameForSubmissionStatus, Reconcilable
  <2>3. row'.status = "QUEUED" /\ UNCHANGED queue /\ pc'[a] = "publish"
        /\ mem'[a] = [NoMemory EXCEPT !.publish = "SUBMIT"]
    BY <1>0, <1>8, <2>2 DEF SubmitMark, Row, None
  <2>4. NoReconciliation(a)'
    BY <2>3 DEF NoReconciliation, NoMemory, None
  <2> QED
    BY <1>4, <1>5, <2>1, <2>3, <2>4 DEF Early, BeforeClaim
<1>9. CASE Sweep(a)
  <2>1. row.status = "SUBMITTING" => row.fresh
    BY DEF ClaimInv
  <2>2. /\ UNCHANGED <<row, queue>> /\ pc'[a] = "publish" /\ mem'[a].work = mem[a].work
        /\ mem'[a].publish = IF row.status \in Reconcilable THEN "RECONCILE" ELSE "SUBMIT"
    BY <1>0, <1>9, <2>1 DEF Sweep, Memory
  <2>3. row.status \in Early => row.status \notin Reconcilable
    BY DEF Early, BeforeClaim, ClaimableStatuses, Reconcilable, None
  <2> QED
    BY <1>4, <1>5, <2>2, <2>3 DEF NoReconciliation
<1>10. CASE IndexMissing(a)
  <2>1. /\ UNCHANGED row /\ pc'[a] = "idle" /\ mem'[a] = NoMemory
        /\ mem[a].work # "RECONCILE" => queue'["RECONCILE"] = queue["RECONCILE"]
    BY <1>0, <1>10 DEF IndexMissing, Abandon, Finish, Jobs
  <2>2. NoReconciliation(a)'
    BY <2>1 DEF NoReconciliation, NoMemory, None
  <2> QED
    BY <1>4, <1>5, <2>1, <2>2 DEF NoReconciliation
<1> QED
  BY <1>2, <1>6, <1>7, <1>8, <1>9, <1>10

\* Without signals and changes of the connection, only time passes.
LEMMA TimeAgrees ==
    ASSUME TypeOK, TableInv, Limit["signal"] = 0, Limit["connection"] = 0,
           RequestReconciliation \/ HandleCallback \/ TimeStep \/ ChangeConnection
    PROVE  TableInv'
<1>0. row \in Row /\ spent \in [Disturbances -> Nat]
  BY DEF TypeOK
<1>1. TimeStep
  BY <1>0 DEF RequestReconciliation, HandleCallback, Signal, ChangeConnection, Spend,
     Disturbances
<1>2. row'.status = row.status
  BY <1>0, <1>1 DEF Row, TimeStep, Decide, BecomeDue, LeaseEnds, SlotEnds
<1>3. /\ pc' = pc /\ mem' = mem /\ queue' = queue /\ connected' = connected
  BY <1>1 DEF TimeStep, Decide, BecomeDue, LeaseEnds, SlotEnds
<1>4. hacienda' = hacienda \/ (hacienda # "none" /\ hacienda' # "none")
  BY <1>1 DEF TimeStep, Decide, BecomeDue, LeaseEnds, SlotEnds, Verdicts
<1>5. \A a \in Actors : ResultInOrder(a)'
  BY <1>3, <1>4 DEF TableInv, ResultInOrder
<1>6. \A a \in Actors : Engaged(a)' => row'.status = "SUBMITTING"
  BY <1>2, <1>3 DEF TableInv, Engaged
<1>7. row'.status \in Early =>
         queue'["RECONCILE"] = 0 /\ \A a \in Actors : NoReconciliation(a)'
  BY <1>2, <1>3 DEF TableInv, NoReconciliation
<1> QED
  BY <1>2, <1>3, <1>4, <1>5, <1>6, <1>7 DEF TableInv

LEMMA TableStep ==
    ASSUME OnlyPostDisturbed, OutcomeInv, RequestInv, ClaimInv, TableInv, [Next]_vars
    PROVE  TableInv'
<1>0. /\ TypeOK /\ Limit["get"] = 0 /\ Limit["local"] = 0 /\ Limit["crash"] = 0
      /\ Limit["signal"] = 0 /\ Limit["connection"] = 0
  BY DEF OutcomeInv, OnlyPostDisturbed, Undisturbed
<1>1. CASE UNCHANGED vars
  BY <1>1 DEF vars, TableInv, NoReconciliation, Engaged, ResultInOrder
<1>2. ASSUME NEW c \in Clients, ClientStep(c) \/ SubmitRead(c) PROVE TableInv'
  BY <1>0, <1>2, RequestAndSweepAgree, ApplyAgrees DEF ClientStep, Actors
<1>3. ASSUME NEW w \in Workers,
             \/ WorkerStep(w) \/ PostAnsweredBadly(w) \/ PostTokenExpired(w)
             \/ GetAnsweredBadly(w)
      PROVE  TableInv'
  BY <1>0, <1>3, SubmitJobAgrees, ReconcileJobAgrees, ApplyAgrees, RequestAndSweepAgree
     DEF WorkerStep, Actors
<1>4. ASSUME NEW s \in Sweepers, SweeperStep(s) PROVE TableInv'
  BY <1>0, <1>4, RequestAndSweepAgree, ApplyAgrees DEF SweeperStep, Actors
<1>5. ASSUME NEW a \in Actors, HandleSubmitFailure(a) \/ Throw(a) \/ Crash(a)
      PROVE  TableInv'
  BY <1>0, <1>5, RequestAndSweepAgree
<1>6. CASE RequestReconciliation \/ HandleCallback \/ TimeStep \/ ChangeConnection
  BY <1>0, <1>6, TimeAgrees
<1> QED
  BY <1>1, <1>2, <1>3, <1>4, <1>5, <1>6 DEF Next, Disturbance, Actors

LEMMA InitTable ==
    ASSUME Init PROVE TableInv
<1>1. \A a \in Actors : pc[a] = "idle" /\ mem[a] = NoMemory
  BY DEF Init
<1>2. /\ connected /\ queue["RECONCILE"] = 0
      /\ row.status \notin {"MANUAL_REVIEW_REQUIRED", "ACKNOWLEDGED", "PROCESSING"}
  BY DEF Init, Jobs, None
<1> QED
  BY <1>1, <1>2 DEF TableInv, NoReconciliation, Engaged, Sending, ResultInOrder, NoMemory,
     None

\* A step changes the row's status along the table.
MovesAlongTable ==
    \/ row.status = None
    \/ CanTransition(row.status, row'.status)
    \/ row.status = "TECHNICAL_RETRY_PENDING" /\ row'.status = "SUBMITTING"

LEMMA StepFollowsTable ==
    ASSUME OnlyPostDisturbed, OutcomeInv, RequestInv, ClaimInv, TableInv, [Next]_vars
    PROVE  MovesAlongTable \/ UNCHANGED vars
<1>0. /\ TypeOK /\ row \in Row
  BY DEF OutcomeInv, TypeOK
<1>1. CASE row'.status = row.status
  BY <1>1 DEF MovesAlongTable, CanTransition
<1>2. ASSUME NEW a \in Actors, SubmitCreate(a) PROVE MovesAlongTable
  <2>1. row.status = None \/ row' = row
    BY <1>2 DEF SubmitCreate
  <2> QED
    BY <1>1, <2>1 DEF MovesAlongTable, CanTransition
<1>3. ASSUME NEW a \in Actors, SubmitMark(a) PROVE MovesAlongTable
  <2>1. row.status = "REQUESTED" /\ row'.status \in {"QUEUED", "REQUESTED"}
    BY <1>0, <1>3 DEF SubmitMark, RequestInv, Row
  <2> QED
    BY <2>1 DEF MovesAlongTable, CanTransition, Successors, Statuses
<1>4. ASSUME NEW a \in Actors, ClaimSubmission(a) PROVE MovesAlongTable
  <2>1. row' = row \/ (row.status \in ClaimableStatuses /\ row'.status = "SUBMITTING")
    BY <1>0, <1>4 DEF ClaimSubmission, Row
  <2> QED
    BY <1>1, <2>1 DEF MovesAlongTable, CanTransition, Successors, Statuses, ClaimableStatuses
<1>5. ASSUME NEW a \in Actors, CommitResult(a) PROVE MovesAlongTable
  <2>1. row' = row \/ (row.status \notin Terminal /\ row'.status = mem[a].result)
    BY <1>0, <1>5 DEF CommitResult, WrittenRow, Row
  <2>2. row.status \in Terminal \/ CanTransition(row.status, mem[a].result)
    BY <1>0, <1>5, CommitFollowsTable DEF CommitResult
  <2> QED
    BY <1>1, <2>1, <2>2 DEF MovesAlongTable, CanTransition
<1>6. ASSUME NEW a \in Actors,
             \/ SubmitRead(a) \/ LoadContext(a) \/ PostAnswered(a) \/ PostAnsweredBadly(a)
             \/ PostTokenExpired(a) \/ GetAnswered(a) \/ GetAnsweredBadly(a)
             \/ ReadAndEvaluate(a) \/ StoreResponseArtifact(a) \/ IndexResponseArtifact(a)
             \/ PublishNext(a) \/ Sweep(a) \/ HandleSubmitFailure(a) \/ Throw(a)
             \/ Crash(a) \/ IndexMissing(a)
      PROVE  row' = row
  BY <1>6 DEF SubmitRead, LoadContext, PostAnswered, PostAnsweredBadly, PostTokenExpired,
     GetAnswered, GetAnsweredBadly, ReadAndEvaluate, StoreResponseArtifact,
     IndexResponseArtifact, PublishNext, Sweep, HandleSubmitFailure, Throw, Crash,
     IndexMissing, Abandon
<1>7. ASSUME NEW a \in Actors, TakeReconcileJob(a) PROVE row'.status = row.status
  BY <1>0, <1>7 DEF TakeReconcileJob, Row
<1>8. CASE RequestReconciliation \/ HandleCallback \/ TimeStep \/ ChangeConnection
  <2>1. row'.status = row.status
    BY <1>0, <1>8 DEF Row, RequestReconciliation, HandleCallback, Signal, ChangeConnection,
       TimeStep, Decide, BecomeDue, LeaseEnds, SlotEnds
  <2> QED
    BY <1>1, <2>1
<1> QED
  BY <1>1, <1>2, <1>3, <1>4, <1>5, <1>6, <1>7, <1>8 DEF Next, ClientStep, WorkerStep,
     SweeperStep, ApplyStep, Disturbance, Actors

\* Every change of the status is one the transition table allows, or the claim of a row
\* pending retry, whatever the POST is answered and however the jobs and sweeps interleave.
THEOREM StatusFollowsTableHolds ==
    ASSUME OnlyPostDisturbed PROVE Spec => StatusFollowsTable
<1>1. TableInv /\ OutcomeInv /\ RequestInv /\ ClaimInv /\ [Next]_vars => TableInv'
  BY TableStep
<1>2. TableInv /\ OutcomeInv /\ RequestInv /\ ClaimInv /\ [Next]_vars
         => [MovesAlongTable]_vars
  BY StepFollowsTable
<1>3. Undisturbed
  BY DEF OnlyPostDisturbed
<1>4. Spec => [](OutcomeInv /\ RequestInv /\ ClaimInv)
  BY <1>3, ClaimCorrect, PTL
<1> QED
  BY <1>1, <1>2, <1>4, InitTable, PTL DEF Spec, StatusFollowsTable, MovesAlongTable
=============================================================================
