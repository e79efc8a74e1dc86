---------------------------- MODULE MissedResponses ----------------------------
(***************************************************************************)
(* Who gets Hacienda's response by mail: the verdicts of several documents *)
(* are committed, each schedules a call of                                 *)
(* EnsureHaciendaResponseDeliveryService.ensure in memory, processes die,  *)
(* and the scan at the next start looks for the documents that were        *)
(* missed, batch by batch in the order of their ids.  What becomes of a    *)
(* delivery row, once there is one, is in DocumentDelivery.                *)
(***************************************************************************)
EXTENDS Naturals, FiniteSetsExt

CONSTANTS
    LastId,       \* the submissions are 1..LastId, in the order of their ids
    BatchSize,    \* STARTUP_RECOVERY_BATCH_SIZE
    MaxMisses     \* bound: failed calls and crashes

ASSUME MissedConstants == LastId \in Nat /\ BatchSize \in Nat \ {0} /\ MaxMisses \in Nat

VARIABLES
    outcome,      \* what Hacienda will answer and what is known of each document
    verdict,      \* submissions with a committed verdict, which stays (where it may not:
                  \* FiscalSubmission.TerminalIsFinal)
    responseRows, \* documents with a delivery row of kind HACIENDA_RESPONSE
    hook,         \* where the hook of each verdict stands
    scan,         \* the startup scan and its local variables
    due,          \* history: what the scan found owing when it began
    misses

missedVars == <<outcome, verdict, responseRows, hook, scan, due, misses>>

Ids == 1..LastId

\* "mailable"; "old": decided outside the configured window; "silent": a verdict
\* without its XML; "unaddressed": no email, an invalid one, or two that differ.
Outcomes == {"mailable", "old", "silent", "unaddressed"}

\* batch: what is left of the batch of that size; had: those of it that came with a row.
NoScan == [label |-> "off", cursor |-> 0, size |-> 0, batch |-> {}, had |-> {}]

MissedTypeOK ==
    /\ outcome \in [Ids -> Outcomes]
    /\ verdict \subseteq Ids
    /\ responseRows \subseteq Ids
    /\ hook \in [Ids -> {"none", "index", "scheduled", "create", "done", "lost"}]
    /\ scan \in [label : {"off", "query", "visit", "create", "ended", "failed"},
                 cursor : 0..LastId, size : 0..BatchSize,
                 batch : SUBSET Ids, had : SUBSET Ids]
    /\ due \subseteq Ids
    /\ misses \in 0..MaxMisses

MissedInit ==
    /\ outcome \in [Ids -> Outcomes]
    /\ verdict = {} /\ responseRows = {} /\ due = {} /\ misses = 0
    /\ hook = [d \in Ids |-> "none"]
    /\ scan = NoScan

-----------------------------------------------------------------------------
(* applyProviderResult, from its transaction to the hook *)

HookAt(d, from, to) ==
    /\ hook[d] = from
    /\ hook' = [hook EXCEPT ![d] = to]

\* Variant of Commit: the hook is scheduled first, and the transaction follows.
CommitLast(d) ==
    \/ /\ HookAt(d, "none", "scheduled")
       /\ UNCHANGED <<outcome, verdict, responseRows, scan, due, misses>>
    \/ /\ hook[d] # "none" /\ d \notin verdict
       /\ verdict' = verdict \cup {d}
       /\ UNCHANGED <<outcome, responseRows, hook, scan, due, misses>>

\* The verdict and the reference to its XML, if it came with one, are committed at once.
Commit(d) ==
    /\ HookAt(d, "none", "index")
    /\ verdict' = verdict \cup {d}
    /\ UNCHANGED <<outcome, responseRows, scan, due, misses>>

\* The XML is indexed, then setImmediate schedules the hook.
Schedule(d) ==
    /\ HookAt(d, "index", "scheduled")
    /\ UNCHANGED <<outcome, verdict, responseRows, scan, due, misses>>

\* The reference to the response is there once the verdict is.
HasResponse(d) == d \in verdict /\ outcome[d] # "silent"

\* What ensure asks before it looks for a row: the XML, and one recipient.
Mailable(d) == HasResponse(d) /\ outcome[d] # "unaddressed"

\* findOrCreateDelivery finds a row, or goes on to create it.
HookEnsures(d) ==
    /\ HookAt(d, "scheduled",
              IF Mailable(d) /\ d \notin responseRows THEN "create" ELSE "done")
    /\ UNCHANGED <<outcome, verdict, responseRows, scan, due, misses>>

\* The unique index keeps one row; the loser finds it.
HookCreates(d) ==
    /\ HookAt(d, "create", "done")
    /\ responseRows' = responseRows \cup {d}
    /\ UNCHANGED <<outcome, verdict, scan, due, misses>>

\* Indexing throws, or the hook does; both are logged at most.
HookFails(d) ==
    /\ misses < MaxMisses
    /\ hook[d] \in {"index", "scheduled", "create"}
    /\ hook' = [hook EXCEPT ![d] = "lost"]
    /\ misses' = misses + 1
    /\ UNCHANGED <<outcome, verdict, responseRows, scan, due>>

-----------------------------------------------------------------------------
(* onModuleInit and recoverMissedDeliveries, in a configured window *)

Recoverable(d) == HasResponse(d) /\ outcome[d] # "old"

StartScan ==
    /\ scan.label = "off"
    /\ scan' = [NoScan EXCEPT !.label = "query"]
    /\ due' = {d \in Ids : Recoverable(d) /\ Mailable(d)}
    /\ UNCHANGED <<outcome, verdict, responseRows, hook, misses>>

\* Variant of Following: rows are left out by the query, and as many are skipped as
\* have been looked at.
FollowingByOffset ==
    LET open == {d \in Ids : Recoverable(d) /\ d \notin responseRows}
    IN {d \in open : Cardinality({x \in open : x < d}) >= scan.cursor}

\* The submissions after the cursor, by id.
Following == {d \in Ids : Recoverable(d) /\ d > scan.cursor}

\* The first of them, at most a batch.
FirstBatch == {d \in Following : Cardinality({x \in Following : x < d}) < BatchSize}

\* findMany, with the rows each document has at that moment.
QueryBatch ==
    /\ scan.label = "query"
    /\ scan' = [label |-> "visit", batch |-> FirstBatch, size |-> Cardinality(FirstBatch),
                had |-> FirstBatch \cap responseRows,
                cursor |-> IF FirstBatch = {} THEN scan.cursor ELSE Max(FirstBatch)]
    /\ UNCHANGED <<outcome, verdict, responseRows, hook, due, misses>>

\* One that had a row is passed over; the others are ensured.
Visit ==
    /\ scan.label = "visit" /\ scan.batch # {}
    /\ LET d == Min(scan.batch) IN
       scan' = IF d \notin scan.had /\ Mailable(d) /\ d \notin responseRows
                 THEN [scan EXCEPT !.label = "create"]
                 ELSE [scan EXCEPT !.batch = @ \ {d}]
    /\ UNCHANGED <<outcome, verdict, responseRows, hook, due, misses>>

ScanCreates ==
    /\ scan.label = "create"
    /\ responseRows' = responseRows \cup {Min(scan.batch)}
    /\ scan' = [scan EXCEPT !.label = "visit", !.batch = @ \ {Min(scan.batch)}]
    /\ UNCHANGED <<outcome, verdict, hook, due, misses>>

\* Variant of BatchIsLast: one batch is all there is.
OneBatch == TRUE

\* A batch that is not full was the last.
BatchIsLast == scan.size < BatchSize

EndBatch ==
    /\ scan.label = "visit" /\ scan.batch = {}
    /\ scan' = [scan EXCEPT !.label = IF BatchIsLast THEN "ended" ELSE "query"]
    /\ UNCHANGED <<outcome, verdict, responseRows, hook, due, misses>>

\* ensure or the query throws: the scan is logged as failed and left there.
ScanFails ==
    /\ misses < MaxMisses
    /\ scan.label \in {"query", "visit", "create"}
    /\ scan' = [scan EXCEPT !.label = "failed"]
    /\ misses' = misses + 1
    /\ UNCHANGED <<outcome, verdict, responseRows, hook, due>>

\* The process dies with the hooks and the scan it holds; the next one starts a scan.
Restart ==
    /\ misses < MaxMisses
    /\ hook' = [d \in Ids |-> IF hook[d] \in {"index", "scheduled", "create"} THEN "lost"
                              ELSE hook[d]]
    /\ scan' = NoScan
    /\ misses' = misses + 1
    /\ UNCHANGED <<outcome, verdict, responseRows, due>>

MissedNext ==
    \/ \E d \in Ids : Commit(d) \/ Schedule(d) \/ HookEnsures(d) \/ HookCreates(d)
                        \/ HookFails(d)
    \/ StartScan \/ QueryBatch \/ Visit \/ ScanCreates \/ EndBatch \/ ScanFails
    \/ Restart

MissedSpec == MissedInit /\ [][MissedNext]_missedVars

-----------------------------------------------------------------------------
(* Properties *)

\* Every verdict that can be mailed has its delivery, or its hook is on the way, or the
\* hook was lost; and a scan that has ended leaves no lost one behind that it found.
EveryVerdictIsAccountedFor ==
    \A d \in Ids \ responseRows :
        Mailable(d) => /\ hook[d] \in {"index", "scheduled", "create", "lost"}
                       /\ scan.label = "ended" => d \notin due

\* No delivery of a response that is not there yet, or for a doubtful recipient.
OnlyAnswersAreMailed == \A d \in responseRows : Mailable(d)

\* Where a hook stands says what it has seen.
HooksFollowVerdicts ==
    \A d \in Ids :
        /\ hook[d] = "none" <=> d \notin verdict
        /\ hook[d] = "create" => Mailable(d)
        /\ hook[d] = "done" /\ Mailable(d) => d \in responseRows

\* The scan still comes to d: in this batch, or in the next, if there is one.
WillVisit(d) ==
    \/ d \in scan.batch
    \/ /\ d > scan.cursor
       /\ scan.label = "query" \/ (scan.label # "ended" /\ scan.size = BatchSize)

\* What the scan found owing and has not done yet is before it.
ScanMissesNothing ==
    /\ due \subseteq {d \in Ids : Recoverable(d) /\ Mailable(d)}
    /\ scan.had \subseteq responseRows
    /\ scan.label \in {"query", "ended"} => scan.batch = {}
    /\ scan.label = "create" => scan.batch # {} /\ Mailable(Min(scan.batch))
    /\ scan.label \notin {"off", "failed"} => \A d \in due \ responseRows : WillVisit(d)

\* No verdict's mail is forgotten by the hooks and a scan that ends, and none is invented.
MissedInv ==
    /\ MissedTypeOK
    /\ EveryVerdictIsAccountedFor
    /\ OnlyAnswersAreMailed
    /\ HooksFollowVerdicts
    /\ ScanMissesNothing
=============================================================================
