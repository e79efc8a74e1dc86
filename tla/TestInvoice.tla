------------------------------ MODULE TestInvoice ------------------------------
(***************************************************************************)
(* The sandbox test invoice: repeated requests with one key, serialized by  *)
(* an advisory lock whose transaction has a time limit, over creation,      *)
(* preparation and submission that commit on their own.                     *)
(***************************************************************************)
EXTENDS Naturals

CONSTANTS
    Requests,     \* initiate calls with one idempotency key
    MaxMishaps    \* bound: failed calls, deaths and expired locks

VARIABLES
    holder,       \* of the advisory lock
    ready,        \* readiness.evaluate
    document,     \* its status
    invoicePc,
    prepared,     \* history: requests whose prepareXml has finished
    sent,         \* requests whose submitDocument has created or loaded the submission
    answered,     \* history: requests that were answered
    expired,      \* history: a lock expired under its holder
    abandoned,    \* history: a request stopped between generating the XML and submitting
    invoiceMishaps

invoiceVars == <<holder, ready, document, invoicePc, prepared, sent, answered, expired,
                 abandoned, invoiceMishaps>>

None == "NONE"

\* XML_GENERATED stands for what follows it until READY_TO_SUBMIT, too.
Status == {None, "READY_FOR_XML", "XML_GENERATED", "READY_TO_SUBMIT", "DECIDED"}

TypeOK ==
    /\ holder \in Requests \cup {None}
    /\ ready \in BOOLEAN
    /\ document \in Status
    /\ invoicePc \in [Requests -> {"lock", "ready", "create", "prepare", "generate", "finish",
                                   "submit", "answer", "done", "refused"}]
    /\ prepared \subseteq Requests /\ sent \subseteq Requests /\ answered \subseteq Requests
    /\ expired \in BOOLEAN /\ abandoned \in BOOLEAN
    /\ invoiceMishaps \in 0..MaxMishaps

Init ==
    /\ holder = None
    /\ ready \in BOOLEAN
    /\ document = None
    /\ invoicePc = [r \in Requests |-> "lock"]
    /\ prepared = {} /\ sent = {} /\ answered = {}
    /\ expired = FALSE /\ abandoned = FALSE
    /\ invoiceMishaps = 0

At(r, from, to) ==
    /\ invoicePc[r] = from
    /\ invoicePc' = [invoicePc EXCEPT ![r] = to]

\* The transaction ends with the callback, unless it expired before.
Release(r) == holder' = IF holder = r THEN None ELSE holder

HistoryUnchanged == UNCHANGED <<expired, abandoned, invoiceMishaps>>

\* Variant of LockFree: no lock.
AlwaysFree == TRUE

LockFree == holder = None

TakeLock(r) ==
    /\ At(r, "lock", "ready")
    /\ LockFree
    /\ holder' = r
    /\ HistoryUnchanged
    /\ UNCHANGED <<ready, document, prepared, sent, answered>>

CheckReadiness(r) ==
    /\ At(r, "ready", IF ready THEN "create" ELSE "refused")
    /\ IF ready THEN UNCHANGED holder ELSE Release(r)
    /\ HistoryUnchanged
    /\ UNCHANGED <<ready, document, prepared, sent, answered>>

\* Variant of CreateDocument: what was begun is prepared and submitted again.
CreateAndRepeat(r) ==
    /\ At(r, "create", "prepare")
    /\ document' = IF document = None THEN "READY_FOR_XML" ELSE document
    /\ HistoryUnchanged
    /\ UNCHANGED <<holder, ready, prepared, sent, answered>>

\* createDocument answers the document of the key: a new one, or the one there is.  One
\* that is READY_FOR_XML is resumed, one that is further is only answered.
CreateDocument(r) ==
    /\ document' = IF document = None THEN "READY_FOR_XML" ELSE document
    /\ At(r, "create", IF document' = "READY_FOR_XML" THEN "prepare" ELSE "answer")
    /\ HistoryUnchanged
    /\ UNCHANGED <<holder, ready, prepared, sent, answered>>

\* prepareXml reads the status: it returns a document that is ready, and refuses one that
\* is decided.
ReadForXml(r) ==
    /\ At(r, "prepare", CASE document = "READY_TO_SUBMIT" -> "submit"
                          [] document = "DECIDED" -> "refused"
                          [] OTHER -> "generate")
    /\ IF document = "DECIDED" THEN Release(r) ELSE UNCHANGED holder
    /\ HistoryUnchanged
    /\ UNCHANGED <<ready, document, prepared, sent, answered>>

\* Its writes are guarded by the decision alone, whatever another call made of the
\* document meanwhile.  XmlPreparation has them, the uploads and the artifact in detail.
GenerateXml(r) ==
    /\ At(r, "generate", "finish")
    /\ document # "DECIDED"
    /\ document' = "XML_GENERATED"
    /\ HistoryUnchanged
    /\ UNCHANGED <<holder, ready, prepared, sent, answered>>

FinishXml(r) ==
    /\ At(r, "finish", "submit")
    /\ document # "DECIDED"
    /\ document' = "READY_TO_SUBMIT"
    /\ prepared' = prepared \cup {r}
    /\ HistoryUnchanged
    /\ UNCHANGED <<holder, ready, sent, answered>>

PrepareConflicts(r) ==
    /\ At(r, "generate", "refused") \/ At(r, "finish", "refused")
    /\ document = "DECIDED"
    /\ Release(r)
    /\ HistoryUnchanged
    /\ UNCHANGED <<ready, document, prepared, sent, answered>>

\* Variant of Submit: the answer comes first.
SubmitLater(r) ==
    /\ At(r, "submit", "answer")
    /\ document \in {"READY_TO_SUBMIT", "DECIDED"}
    /\ HistoryUnchanged
    /\ UNCHANGED <<holder, ready, document, prepared, sent, answered>>

\* submitDocument creates the submission or loads the one there is.
Submit(r) ==
    /\ At(r, "submit", "answer")
    /\ document \in {"READY_TO_SUBMIT", "DECIDED"}
    /\ sent' = sent \cup {r}
    /\ HistoryUnchanged
    /\ UNCHANGED <<holder, ready, document, prepared, answered>>

\* Another preparation has taken the document back.
SubmitConflicts(r) ==
    /\ At(r, "submit", "refused")
    /\ document \notin {"READY_TO_SUBMIT", "DECIDED"}
    /\ Release(r)
    /\ HistoryUnchanged
    /\ UNCHANGED <<ready, document, prepared, sent, answered>>

Answer(r) ==
    /\ At(r, "answer", "done")
    /\ answered' = answered \cup {r}
    /\ Release(r)
    /\ HistoryUnchanged
    /\ UNCHANGED <<ready, document, prepared, sent>>

\* The worker and Hacienda decide meanwhile.
Decide ==
    /\ sent # {} /\ document # "DECIDED"
    /\ document' = "DECIDED"
    /\ HistoryUnchanged
    /\ UNCHANGED <<holder, ready, invoicePc, prepared, sent, answered>>

Mishap ==
    /\ invoiceMishaps < MaxMishaps
    /\ invoiceMishaps' = invoiceMishaps + 1

Underway == {"ready", "create", "prepare", "generate", "finish", "submit", "answer"}

\* A call fails, or the process dies: the request ends and the lock is free.
Interrupt(r) ==
    /\ Mishap
    /\ invoicePc[r] \in Underway
    /\ invoicePc' = [invoicePc EXCEPT ![r] = "refused"]
    /\ Release(r)
    /\ abandoned' = (abandoned \/ invoicePc[r] \in {"finish", "submit"})
    /\ UNCHANGED <<ready, document, prepared, sent, answered, expired>>

\* The transaction's 60 seconds end; the calls in it use other connections and go on.
LockExpires ==
    /\ Mishap
    /\ holder # None
    /\ holder' = None
    /\ expired' = TRUE
    /\ UNCHANGED <<ready, document, invoicePc, prepared, sent, answered, abandoned>>

Next ==
    \/ \E r \in Requests :
          \/ TakeLock(r) \/ CheckReadiness(r) \/ CreateDocument(r)
          \/ ReadForXml(r) \/ GenerateXml(r) \/ FinishXml(r) \/ PrepareConflicts(r)
          \/ Submit(r) \/ SubmitConflicts(r) \/ Answer(r) \/ Interrupt(r)
    \/ Decide \/ LockExpires

Spec == Init /\ [][Next]_invoiceVars
-----------------------------------------------------------------------------
(* Properties *)

\* However many requests repeat it, and wherever they stop, the preparation is finished by
\* one of them and submitted by one: a repetition "must return the canonical execution
\* instead of preparing/submitting the same document again"
\* (fiscal-test-invoice-v1.service.ts:91).  Once a lock has expired two requests may prepare
\* and submit at once.
CarriedOutOnce ==
    ~expired =>
        /\ \A r, s \in prepared : r = s
        /\ \A r, s \in sent : r = s

\* A request is answered when the document is submitted, or another is about to submit it:
\* also when locks expire and two requests prepare the document over each other.  One case
\* is excepted: a request that stops between generating the XML and submitting leaves a
\* document that is not READY_FOR_XML, which no repetition resumes.
AnsweredIsSubmitted ==
    answered # {} /\ ~abandoned =>
        sent # {} \/ \E r \in Requests : invoicePc[r] \in {"finish", "submit"}

\* A repeated test invoice is carried out once, and submitted when it is answered.
InvoiceInv ==
    /\ TypeOK
    /\ CarriedOutOnce
    /\ AnsweredIsSubmitted
=============================================================================
