--------------------------- MODULE HaciendaAnswers ---------------------------
(***************************************************************************)
(* How Hacienda's answers are read.  HaciendaRecepcionAdapter turns what a  *)
(* POST /recepcion or a GET /recepcion/{clave} brought into the result the  *)
(* submission service applies, and into diagnostics that may be stored;     *)
(* classifyRecepcionStatus is the table of statuses, parseMensajeHacienda   *)
(* reads the response XML, and RetryClassifier is the domain's statement of *)
(* what a failure leads to.  One exchange is read per behaviour.  A text is *)
(* the set of things in it that matter (a control character, a markup tag), *)
(* with its length; a body is its form.                                     *)
(***************************************************************************)
EXTENDS Naturals, FiniteSets

CONSTANTS HttpStatuses   \* statuses that may come; NoStatus is no answer at all

VARIABLES
    exchange,   \* the operation and what came back
    answer,     \* the adapter's result
    failure,    \* what RetryClassifier is asked about the exchange
    decision    \* what it decides

answersVars == <<exchange, answer, failure, decision>>

Machine == INSTANCE SubmissionStateMachine

NoStatus == 0
Nothing == [kind |-> "NONE"]
None == "NONE"

(* Texts and their sanitisers. *)

Texts == [has : SUBSET {"CONTROL", "TAG"}, long : BOOLEAN]
NoText == [has |-> {}, long |-> FALSE]

\* sanitizeHeaderValue: control characters and tags go, the length is bounded.
SanitizeHeaderValue(text) == [has |-> text.has \ {"CONTROL", "TAG"}, long |-> FALSE]

\* sanitizeProviderString: tags go and the length is bounded; only white space among
\* the control characters is touched.
SanitizeProviderString(text) == [has |-> text.has \ {"TAG"}, long |-> FALSE]

\* Variant of SanitizeText: cut, but never cleaned.
OnlyCut(text) == [has |-> text.has, long |-> FALSE]

\* sanitizeText of the response parser: entities, escapes, control characters, tags.
SanitizeText(text) == [has |-> text.has \ {"CONTROL", "TAG"}, long |-> FALSE]

(* classifyRecepcionStatus: the statuses of the table, and the ranges of the rest. *)

ClassifyRecepcionStatus(status) ==
    CASE status = 201 ->
           [classification |-> "DOCUMENTED_SUCCESSFUL_RECEIPT", inContract |-> TRUE,
            billingAction |-> "ACKNOWLEDGED"]
      [] status = 400 ->
           [classification |-> "DOCUMENTED_VALIDATION_ERROR", inContract |-> TRUE,
            billingAction |-> "NON_RETRYABLE_FAILURE"]
      [] status = 401 ->
           [classification |-> "DOCUMENTED_AUTH_ERROR", inContract |-> TRUE,
            billingAction |-> "RETRYABLE_FAILURE"]
      [] status = 429 ->
           [classification |-> "RATE_LIMIT", inContract |-> FALSE,
            billingAction |-> "RETRYABLE_FAILURE"]
      [] status \in 200 .. 299 \ {201} ->
           [classification |-> "UNDOCUMENTED_2XX", inContract |-> FALSE,
            billingAction |-> "UNRESOLVED_PROVIDER_RESPONSE"]
      [] status >= 500 ->
           [classification |-> "AMBIGUOUS_SERVER_ERROR", inContract |-> FALSE,
            billingAction |-> "POST_OUTCOME_UNKNOWN"]
      [] OTHER ->
           [classification |-> "UNDOCUMENTED_4XX", inContract |-> FALSE,
            billingAction |-> "NON_RETRYABLE_FAILURE"]

(* What may come back. *)

\* Bodies of an error: read by axios or not, JSON or not, small or not.
Bodies ==
    {"object", "array", "null", "number", "emptyString", "longString", "jsonString",
     "otherString", "longBuffer", "jsonBuffer", "otherBuffer"}

\* The fields an error object may have: those of the allowlist, and others.
AllowedFields == {"detail", "title", "message", "errorCodes", "errors"}
ErrorFields == AllowedFields \cup {"token"}

SafeElements == {"Mensaje", "DetalleMensaje", "EstadoMensaje"}

\* respuesta-xml: absent, something else, or a response with some elements.
ResponseXmls ==
    {[form |-> f, elements |-> {}] : f \in {"absent", "other"}}
    \cup {[form |-> "MensajeHacienda", elements |-> e] :
            e \in SUBSET (SafeElements \cup {"NumeroCedulaEmisor"})}

Indicated == {"recibido", "procesando", "aceptado", "rechazado", "error", "absent", "nullBody"}

Headers == {"x-error-cause", "validation-exception", "location", "authorization"}
RateHeaders == {"x-ratelimit-remaining", "retry-after"}

Exchanges ==
    [operation : {"POST"}, status : HttpStatuses, json : BOOLEAN, body : Bodies,
     fields : {{}, {"detail", "token"}, {"errors", "message"}}, headers : {{}, Headers},
     rate : {{}, {"retry-after"}}, text : Texts, state : {"absent"},
     xml : {[form |-> "absent", elements |-> {}]}]
    \cup
    [operation : {"GET"}, status : HttpStatuses, json : {TRUE}, body : {"object"},
     fields : {{"detail"}}, headers : {{}}, rate : {{}, RateHeaders}, text : Texts,
     state : Indicated, xml : ResponseXmls]

(* Diagnostics: a function from the names stored to their texts. *)

Empty == [name \in {} |-> NoText]

\* parseMensajeHacienda: the safe elements of a response, or why there are none.
ParseMensajeHacienda(xml, text) ==
    IF xml.form # "MensajeHacienda"
      THEN [diagnostic |-> Empty, parseError |-> "INPUT_NOT_MENSAJEHACIENDA"]
      ELSE IF xml.elements \cap SafeElements = {}
             THEN [diagnostic |-> Empty, parseError |-> "NO_SAFE_ELEMENTS_FOUND"]
             ELSE [diagnostic |-> [e \in xml.elements \cap SafeElements |-> SanitizeText(text)],
                   parseError |-> None]

\* extractFiscalDiagnostic: what the response XML adds to the result's metadata.
ExtractFiscalDiagnostic(xml, text) ==
    LET parsed == ParseMensajeHacienda(xml, text) IN
    IF xml.form = "absent" THEN Empty
    ELSE [name \in DOMAIN parsed.diagnostic
                   \cup (IF parsed.parseError = None THEN {} ELSE {"parseError"})
            |-> IF name = "parseError" THEN NoText ELSE parsed.diagnostic[name]]

\* resolveResponseBody: what the data is once decoded, and how decoding went.
ResolveResponseBody(data) ==
    CASE data = "longBuffer" -> [body |-> "buffer", parseStatus |-> "BUFFER_TOO_LARGE_TO_PARSE"]
      [] data = "jsonBuffer" -> [body |-> "object", parseStatus |-> "PARSED_FROM_BUFFER"]
      [] data = "otherBuffer" -> [body |-> "string", parseStatus |-> "BUFFER_PARSE_FAILED"]
      [] data = "emptyString" -> [body |-> "null", parseStatus |-> "EMPTY_STRING"]
      [] data = "longString" -> [body |-> "string", parseStatus |-> "STRING_TOO_LARGE_TO_PARSE"]
      [] data = "jsonString" -> [body |-> "object", parseStatus |-> "PARSED_FROM_STRING"]
      [] data = "otherString" -> [body |-> "string", parseStatus |-> "STRING_PARSE_FAILED"]
      [] OTHER -> [body |-> data, parseStatus |-> None]

\* captureBodyShape: the type of the body, its length or the names of its keys.
CaptureBodyShape(body) ==
    {"providerBodyType"}
    \cup (IF body \in {"string", "buffer", "array"} THEN {"providerBodyLength"} ELSE {})
    \cup (IF body = "array" THEN {"providerBodyFirstElementKeys"} ELSE {})
    \cup (IF body = "object" THEN {"providerBodyKeys", "providerBodyShape"} ELSE {})

\* sanitizeKeyName and the lengths of lists: structure never carries a text.
ShapeText == NoText

\* Variant of ExtractAllowlistedFields: whatever the object has.
AllFields(fields) == fields

\* extractAllowlistedFields: the listed fields of an object and nothing else.
ExtractAllowlistedFields(fields) == fields \cap AllowedFields

\* The values of error codes are matched as a whole, the other texts are sanitised.
FieldText(field, text) ==
    IF field = "errorCodes" THEN NoText ELSE SanitizeProviderString(text)

\* readSafeResponseHeader for the two headers a diagnostic may show.
DiagnosticHeaders(headers) == headers \cap {"x-error-cause", "validation-exception"}

\* extractProviderDiagnostic: headers first, and the body only when it is JSON.
ExtractProviderDiagnostic(e) ==
    LET resolved == ResolveResponseBody(e.body)
        ofBody == IF ~e.json THEN {}
                  ELSE CaptureBodyShape(resolved.body)
                       \cup (IF resolved.parseStatus = None THEN {}
                             ELSE {"providerBodyParseStatus"})
        ofFields == IF e.json /\ resolved.body = "object"
                    THEN ExtractAllowlistedFields(e.fields) ELSE {} IN
    [name \in {"responseContentType"} \cup DiagnosticHeaders(e.headers) \cup ofBody \cup ofFields
        |-> CASE name \in DiagnosticHeaders(e.headers) -> SanitizeHeaderValue(e.text)
              [] name \in ofFields -> FieldText(name, e.text)
              [] OTHER -> ShapeText]

\* extractSafeSuccessHeaders, for a 2xx nobody documented.
ExtractSafeSuccessHeaders(e) ==
    [name \in e.headers \cap {"location", "x-error-cause", "validation-exception"}
        |-> SanitizeHeaderValue(e.text)]

(* The adapter's results. *)

Result(kind, nextStatus, errorCode, metadata, rate) ==
    [kind |-> kind, nextStatus |-> nextStatus, errorCode |-> errorCode,
     metadata |-> metadata, rate |-> rate]

Retryable(errorCode, rate) ==
    Result("RETRYABLE_FAILURE", "TECHNICAL_RETRY_PENDING", errorCode, Empty, rate)

NonRetryable(errorCode, metadata, rate) ==
    Result("NON_RETRYABLE_FAILURE", "MANUAL_REVIEW_REQUIRED", errorCode, metadata, rate)

Ambiguous ==
    Result("AMBIGUOUS_FAILURE", "POST_OUTCOME_UNKNOWN", "HACIENDA_POST_OUTCOME_UNKNOWN",
           Empty, {})

\* Variant of UnansweredPost: it is sent again.
UnansweredPostIsRetried == Retryable("HACIENDA_NETWORK_ERROR", {})

\* A POST nobody answered, or answered with a server error, may have arrived.
UnansweredPost == Ambiguous

\* mapHttpError, for everything that is no 2xx.
MapHttpError(e) ==
    CASE e.status = 401 -> Retryable("HACIENDA_TOKEN_EXPIRED", {})
      [] e.status = 429 -> Retryable("HACIENDA_RATE_LIMIT", e.rate)
      [] e.status >= 500 ->
           IF e.operation = "POST" THEN Ambiguous ELSE Retryable("HACIENDA_UNAVAILABLE", {})
      [] e.status = NoStatus ->
           IF e.operation = "POST" THEN UnansweredPost
                                   ELSE Retryable("HACIENDA_NETWORK_ERROR", {})
      [] OTHER ->
           NonRetryable("HACIENDA_NON_RETRYABLE_ERROR", ExtractProviderDiagnostic(e), {})

\* submitSignedDocument, once the request was answered or failed.
MapPostResponse(e) ==
    CASE e.status = 201 -> Result("ACKNOWLEDGED", "ACKNOWLEDGED", None, Empty, e.rate)
      [] e.status \in 200 .. 299 \ {201} ->
           Result("UNRESOLVED_PROVIDER_RESPONSE", "POST_OUTCOME_UNKNOWN",
                  "HACIENDA_UNDOCUMENTED_2XX_STATUS", ExtractSafeSuccessHeaders(e), e.rate)
      [] OTHER -> MapHttpError(e)

\* mapStatusResponse: only the indicated state decides; a body that is null raises a
\* TypeError that is taken for a failed request.
MapStatusResponse(e) ==
    CASE e.state \in {"recibido", "procesando"} ->
           Result("PROCESSING", "PROCESSING", None, Empty, e.rate)
      [] e.state = "aceptado" ->
           Result("ACCEPTED", "ACCEPTED", None, ExtractFiscalDiagnostic(e.xml, e.text), e.rate)
      [] e.state = "rechazado" ->
           Result("REJECTED", "REJECTED", None, ExtractFiscalDiagnostic(e.xml, e.text), e.rate)
      [] e.state = "nullBody" -> Retryable("HACIENDA_NETWORK_ERROR", {})
      [] OTHER -> NonRetryable("HACIENDA_UNKNOWN_STATUS", Empty, e.rate)

AnswerTo(e) ==
    IF e.operation = "POST" THEN MapPostResponse(e)
    ELSE IF e.status \in 200 .. 299 THEN MapStatusResponse(e) ELSE MapHttpError(e)

(* RetryClassifier. *)

MaySent == {"POSSIBLY_SENT", "SENT"}

FailureKinds ==
    {"AUTH_INVALID_CREDENTIALS", "TOKEN_EXPIRED_OR_INVALID", "NETWORK_TIMEOUT",
     "CONNECTIVITY_FAILURE", "PROVIDER_5XX", "PROVIDER_429", "MALFORMED_REQUEST",
     "INVALID_SIGNED_XML", "INVALID_CLAVE", "UNAUTHORIZED_COMPANY", "AUTHORITATIVE_REJECTION",
     "ALREADY_RECEIVED_OR_DUPLICATE", "STATUS_PROCESSING", "STATUS_NOT_FOUND",
     "PROVIDER_ERROR_OR_UNKNOWN_STATUS", "WORKER_CRASH", "LOCAL_ERROR_BEFORE_POST",
     "LOCAL_ERROR_AFTER_POST"}

Failures == [kind : FailureKinds, sendState : {"NOT_SENT"} \cup MaySent,
             authoritative : BOOLEAN, notSubmitted : BOOLEAN]

Decision(action, nextStatus, token, backoff) ==
    [action |-> action, nextStatus |-> nextStatus, shouldRetry |-> action \in {"RETRY", "POLL"},
     reconcileFirst |-> action = "RECONCILE", terminal |-> action = "TERMINAL_REJECTED",
     manual |-> action = "MANUAL_REVIEW", token |-> token, backoff |-> backoff]

Retry == Decision("RETRY", "TECHNICAL_RETRY_PENDING", "NONE", "EXPONENTIAL_JITTER")
Reconcile == Decision("RECONCILE", "POST_OUTCOME_UNKNOWN", "NONE", "POLLING")
ManualReview(token) == Decision("MANUAL_REVIEW", "MANUAL_REVIEW_REQUIRED", token, "NONE")
TerminalRejected == Decision("TERMINAL_REJECTED", "REJECTED", "NONE", "NONE")

\* Variant of CrashDecision: the queue repeats whatever was interrupted.
CrashIsRepeated(f) == Retry

\* A worker that died after the request may have left is not simply repeated.
CrashDecision(f) == IF f.sendState \in MaySent THEN Reconcile ELSE Retry

Classify(f) ==
    CASE f.kind \in {"AUTH_INVALID_CREDENTIALS", "UNAUTHORIZED_COMPANY"} ->
           ManualReview("INVALIDATE")
      [] f.kind = "TOKEN_EXPIRED_OR_INVALID" ->
           [Decision("RETRY", "TECHNICAL_RETRY_PENDING", "REAUTHENTICATE", "IMMEDIATE_ONCE")
              EXCEPT !.reconcileFirst = (f.sendState = "POSSIBLY_SENT")]
      [] f.kind = "NETWORK_TIMEOUT" -> IF f.sendState \in MaySent THEN Reconcile ELSE Retry
      [] f.kind = "WORKER_CRASH" -> CrashDecision(f)
      [] f.kind = "PROVIDER_5XX" ->
           IF f.sendState = "POSSIBLY_SENT" THEN Reconcile ELSE Retry
      [] f.kind \in {"CONNECTIVITY_FAILURE", "LOCAL_ERROR_BEFORE_POST"} -> Retry
      [] f.kind = "PROVIDER_429" -> [Retry EXCEPT !.backoff = "RATE_LIMIT"]
      [] f.kind = "INVALID_SIGNED_XML" /\ f.authoritative -> TerminalRejected
      [] f.kind = "AUTHORITATIVE_REJECTION" -> TerminalRejected
      [] f.kind \in {"ALREADY_RECEIVED_OR_DUPLICATE", "LOCAL_ERROR_AFTER_POST"} -> Reconcile
      [] f.kind = "STATUS_PROCESSING" -> Decision("POLL", "PROCESSING", "NONE", "POLLING")
      [] f.kind = "STATUS_NOT_FOUND" -> IF f.notSubmitted THEN Retry ELSE Reconcile
      [] OTHER -> ManualReview("NONE")

(* One exchange, or one question to the classifier, per behaviour. *)

AnswersInit ==
    /\ exchange = Nothing /\ answer = Nothing /\ failure = Nothing /\ decision = Nothing

SubmitSignedDocument ==
    /\ exchange = Nothing /\ failure = Nothing
    /\ exchange' \in {e \in Exchanges : e.operation = "POST"}
    /\ answer' = AnswerTo(exchange')
    /\ UNCHANGED <<failure, decision>>

QueryStatusByClave ==
    /\ exchange = Nothing /\ failure = Nothing
    /\ exchange' \in {e \in Exchanges : e.operation = "GET"}
    /\ answer' = AnswerTo(exchange')
    /\ UNCHANGED <<failure, decision>>

AskClassifier ==
    /\ exchange = Nothing /\ failure = Nothing
    /\ failure' \in Failures
    /\ decision' = Classify(failure')
    /\ UNCHANGED <<exchange, answer>>

AnswersNext == SubmitSignedDocument \/ QueryStatusByClave \/ AskClassifier

-----------------------------------------------------------------------------
(* Properties. *)

Answered == exchange # Nothing

\* A POST that may have reached Hacienda is never marked for a plain retry, whose job
\* would send it again: only a refused token or a rate limit is (mapHttpError).
PostIsNotRepeated ==
    (Answered /\ exchange.operation = "POST" /\ answer.kind = "RETRYABLE_FAILURE")
        => exchange.status \in {401, 429}

\* A verdict comes from the state of a status query that was answered, whatever the
\* XML beside it says, and from nothing else.
VerdictIsIndicated ==
    (Answered /\ answer.nextStatus \in Machine!Verdicts)
        => /\ exchange.operation = "GET" /\ exchange.status \in 200 .. 299
           /\ exchange.state = (IF answer.nextStatus = "ACCEPTED" THEN "aceptado" ELSE "rechazado")

\* The adapter does what the table of statuses recommends.
TableIsFollowed ==
    (Answered /\ exchange.operation = "POST" /\ exchange.status # NoStatus)
        => ClassifyRecepcionStatus(exchange.status).billingAction
              \in {answer.kind, answer.nextStatus}

\* What a POST or a decided query brings can be applied where the worker stands.
AnswerIsApplicable ==
    /\ (Answered /\ exchange.operation = "POST")
         => Machine!CanTransition("SUBMITTING", answer.nextStatus)
    /\ (Answered /\ answer.kind \in {"PROCESSING", "ACCEPTED", "REJECTED"})
         => \A from \in {"POST_OUTCOME_UNKNOWN", "ACKNOWLEDGED", "PROCESSING"} :
              Machine!CanTransition(from, answer.nextStatus)

\* Nothing unlisted is stored, and no markup; control characters pass only in the
\* texts of an error object.
DiagnosticsAreSafe ==
    Answered =>
        \A name \in DOMAIN answer.metadata :
            /\ name \notin {"token", "authorization", "NumeroCedulaEmisor"}
            /\ "TAG" \notin answer.metadata[name].has
            /\ "CONTROL" \in answer.metadata[name].has => name \in AllowedFields
            /\ ~answer.metadata[name].long

\* After a request that possibly left, only a refusal to process it is retried without
\* reconciling: a dead connection or a rate limit (RetryClassifier).
UncertainSendIsReconciled ==
    (failure # Nothing /\ failure.sendState = "POSSIBLY_SENT" /\ decision.shouldRetry
       /\ ~decision.reconcileFirst)
        => \/ failure.kind \in {"CONNECTIVITY_FAILURE", "PROVIDER_429", "STATUS_PROCESSING",
                                "LOCAL_ERROR_BEFORE_POST"}
           \/ failure.kind = "STATUS_NOT_FOUND" /\ failure.notSubmitted

AnswersInv ==
    /\ PostIsNotRepeated /\ VerdictIsIndicated /\ TableIsFollowed /\ AnswerIsApplicable
    /\ DiagnosticsAreSafe /\ UncertainSendIsReconciled
=============================================================================
