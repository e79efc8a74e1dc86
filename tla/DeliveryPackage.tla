---------------------------- MODULE DeliveryPackage ----------------------------
(***************************************************************************)
(* What a delivery of one fiscal document carries: when the ensure services *)
(* and the resend request of the accepted package admit a delivery, what   *)
(* the worker reads for the mail, await by await, while the verdict comes  *)
(* and stored files go wrong, and what the mail says.  How often a row is  *)
(* sent, and its states, are in DocumentDelivery.                          *)
(***************************************************************************)
EXTENDS Naturals, Sequences

CONSTANTS
    MaxDamage     \* bound: stored files that go wrong

VARIABLES
    fiscal,       \* the document: type, status, receiverSnapshot's two email fields
    mensaje,      \* Mensaje of the XML that comes with the verdict; "none": it has no XML
    stored,       \* each file against the hash on record
    deliveries,   \* kinds with a delivery row
    reading,      \* what the worker and a resend request are reading
    mail,         \* history: the last mail sent
    damaged

packageVars == <<fiscal, mensaje, stored, deliveries, reading, mail, damaged>>

None == "none"

Verdicts == {"ACCEPTED", "REJECTED"}
Files == {"pdf", "signed", "response"}

\* The files a kind of mail has, and the order in which they are read.
Parts == [INITIAL_DOCUMENT |-> <<"signed", "pdf">>,
          HACIENDA_RESPONSE |-> <<"response">>,
          ACCEPTED_FISCAL_PACKAGE |-> <<"document", "pdf", "signed", "response">>]
Kinds == DOMAIN Parts

Readers == {"worker", "request"}

\* kind: what is read for; todo: what is left to read; parts: what was read; says: the
\* verdict the text will name, from the status that came with the row.
NotReading == [kind |-> None, todo |-> <<>>, parts |-> {}, says |-> None]

NoMail == [kind |-> None]

\* An email field as it was written: two addresses, one of them also in capitals.
Written == {None, "blank", "malformed", "a", "A", "b"}

PackageTypeOK ==
    /\ fiscal \in [type : {"INVOICE", "TICKET"}, status : {"READY_TO_SUBMIT"} \cup Verdicts,
                   correoElectronico : Written, email : Written]
    /\ mensaje \in {None, "1", "2", "3", "unreadable"}
    /\ stored \in [Files -> {"unmade", "absent", "intact", "other", "older"}]
    /\ deliveries \subseteq Kinds
    /\ DOMAIN reading = Readers
    /\ damaged \in 0..MaxDamage

PackageInit ==
    /\ fiscal \in [type : {"INVOICE", "TICKET"}, status : {"READY_TO_SUBMIT"},
                   correoElectronico : Written, email : Written]
    /\ mensaje \in {None, "1", "2", "3", "unreadable"}
    /\ stored \in [pdf : {"unmade", "older"}, signed : {"intact"}, response : {"unmade"}]
    /\ deliveries = {} /\ mail = NoMail /\ damaged = 0
    /\ reading = [r \in Readers |-> NotReading]

-----------------------------------------------------------------------------
(* resolveDeliveryRecipient *)

NormalizeSnapshotEmail(written) ==
    CASE written = "blank" -> None
      [] written = "A" -> "a"
      [] OTHER -> written

\* Variant of ResolveDeliveryRecipient: the delivery-era field wins.
CanonicalWins ==
    LET canonical == NormalizeSnapshotEmail(fiscal.correoElectronico)
        legacy == NormalizeSnapshotEmail(fiscal.email)
    IN IF canonical \notin {None, "malformed"} THEN canonical
       ELSE IF legacy = "malformed" THEN None ELSE legacy

\* The one address of the two fields, or none: missing, invalid or in conflict.
ResolveDeliveryRecipient ==
    LET supplied == {NormalizeSnapshotEmail(fiscal.correoElectronico),
                     NormalizeSnapshotEmail(fiscal.email)} \ {None}
    IN IF \E a \in supplied \ {"malformed"} : supplied = {a}
         THEN CHOOSE a \in supplied : TRUE
         ELSE None

-----------------------------------------------------------------------------
(* What admits a delivery *)

Admit(kind) == deliveries' = IF ResolveDeliveryRecipient = None THEN deliveries
                             ELSE deliveries \cup {kind}

\* generateOrReuse makes a PDF of the signed XML where there was none, or fails.
EnsuredPdfs ==
    {stored["pdf"]} \cup (IF stored["pdf"] = "unmade" /\ stored["signed"] = "intact"
                           THEN {"intact"} ELSE {})

\* EnsureInitialFiscalPackageService.ensure: the PDF is wanted with or without somebody
\* to send it to.  When there is none to be had, the row records that failure.
EnsureInitialPackage ==
    /\ \E pdf \in EnsuredPdfs : stored' = [stored EXCEPT !["pdf"] = pdf]
    /\ Admit("INITIAL_DOCUMENT")
    /\ UNCHANGED <<fiscal, mensaje, reading, mail, damaged>>

\* Variant of ResponseIsRecorded: the hook is trusted to know.
ResponseIsAssumed == TRUE

\* responseStorageKey is set in the transaction of the verdict.
ResponseIsRecorded == stored["response"] # "unmade"

\* EnsureHaciendaResponseDeliveryService.ensure, by the hook or by the startup scan.
EnsureHaciendaResponse ==
    /\ ResponseIsRecorded
    /\ Admit("HACIENDA_RESPONSE")
    /\ UNCHANGED <<fiscal, mensaje, stored, reading, mail, damaged>>

-----------------------------------------------------------------------------
(* What the worker and the request of an accepted package read, one await at a time *)

\* buildEmailBody: everything that is not REJECTED is told as accepted.
Told(status) == IF status = "REJECTED" THEN "REJECTED" ELSE "ACCEPTED"

Begin(r, kind) ==
    /\ reading[r] = NotReading
    /\ reading' = [reading EXCEPT ![r] = [kind |-> kind, todo |-> Parts[kind], parts |-> {},
                                          says |-> Told(fiscal.status)]]
    /\ UNCHANGED <<fiscal, mensaje, stored, deliveries, mail, damaged>>

TakeJob == \E kind \in deliveries : Begin("worker", kind)

RequestAcceptedPackage == Begin("request", "ACCEPTED_FISCAL_PACKAGE")

Reads(r, part) == reading[r].todo # <<>> /\ Head(reading[r].todo) = part

\* What was read goes with the mail, or the call ends with an exception.
Continue(r, bytes, ok) ==
    /\ reading' = [reading EXCEPT ![r] =
                     IF ok THEN [kind |-> @.kind, todo |-> Tail(@.todo),
                                 parts |-> @.parts \cup bytes, says |-> @.says]
                     ELSE NotReading]
    /\ UNCHANGED <<fiscal, mensaje, stored, deliveries, mail, damaged>>

\* The accepted package is an accepted invoice's, with one recipient.  The worker
\* compares that with the row's; receiverSnapshot never changes.
ReadDocument(r) ==
    /\ Reads(r, "document")
    /\ Continue(r, {}, /\ fiscal.type = "INVOICE"
                       /\ fiscal.status = "ACCEPTED"
                       /\ ResolveDeliveryRecipient # None)

ReadPdf(r) ==
    /\ Reads(r, "pdf")
    /\ Continue(r, {<<"pdf", stored["pdf"]>>}, stored["pdf"] = "intact")

\* Variant of Verified: whatever is stored under the key is the evidence.
Stored(file) == stored[file] \in {"intact", "other"}

\* The bytes have the hash on record.
Verified(file) == stored[file] = "intact"

ReadSigned(r) ==
    /\ Reads(r, "signed")
    /\ Continue(r, {<<"signed", stored["signed"]>>}, Verified("signed"))

\* Variant of IsAcceptance: the document's status has said it already.
AnyMessage == TRUE

\* parseMensajeHacienda, asked for the accepted package only.
IsAcceptance == mensaje = "1"

ReadResponse(r) ==
    /\ Reads(r, "response")
    /\ Continue(r, {<<"response", stored["response"]>>},
                /\ Verified("response")
                /\ reading[r].kind = "ACCEPTED_FISCAL_PACKAGE" => IsAcceptance)

HasRead(r) == reading[r].kind # None /\ reading[r].todo = <<>>

\* claimDelivery, once everything was there.
AdmitAcceptedPackage ==
    /\ HasRead("request")
    /\ deliveries' = deliveries \cup {"ACCEPTED_FISCAL_PACKAGE"}
    /\ reading' = [reading EXCEPT !["request"] = NotReading]
    /\ UNCHANGED <<fiscal, mensaje, stored, mail, damaged>>

\* The mail is offered with what this execution has read.
Send ==
    /\ HasRead("worker")
    /\ mail' = [kind |-> reading["worker"].kind, parts |-> reading["worker"].parts,
                says |-> reading["worker"].says, to |-> ResolveDeliveryRecipient]
    /\ reading' = [reading EXCEPT !["worker"] = NotReading]
    /\ UNCHANGED <<fiscal, mensaje, stored, deliveries, damaged>>

-----------------------------------------------------------------------------
(* Meanwhile *)

\* applyProviderResult: the verdict and its XML, if it has one, at once.
Decide(verdict) ==
    /\ fiscal.status = "READY_TO_SUBMIT"
    /\ fiscal' = [fiscal EXCEPT !.status = verdict]
    /\ stored' = [stored EXCEPT !["response"] = IF mensaje = None THEN @ ELSE "intact"]
    /\ UNCHANGED <<mensaje, deliveries, reading, mail, damaged>>

\* A stored file is lost, or holds other bytes.
Damage(file) ==
    /\ damaged < MaxDamage
    /\ stored[file] = "intact"
    /\ \E state \in {"absent", "other"} : stored' = [stored EXCEPT ![file] = state]
    /\ damaged' = damaged + 1
    /\ UNCHANGED <<fiscal, mensaje, deliveries, reading, mail>>

PackageNext ==
    \/ EnsureInitialPackage \/ EnsureHaciendaResponse
    \/ TakeJob \/ RequestAcceptedPackage
    \/ \E r \in Readers : ReadDocument(r) \/ ReadPdf(r) \/ ReadSigned(r) \/ ReadResponse(r)
    \/ AdmitAcceptedPackage \/ Send
    \/ \E verdict \in Verdicts : Decide(verdict)
    \/ \E file \in Files : Damage(file)

-----------------------------------------------------------------------------
(* Properties *)

Attachments == [INITIAL_DOCUMENT |-> {"signed", "pdf"}, HACIENDA_RESPONSE |-> {"response"},
                ACCEPTED_FISCAL_PACKAGE |-> {"pdf", "signed", "response"}]

\* A mail is whole: every file of its kind, each with the bytes on record, whatever was
\* damaged since the delivery was admitted.
MailIsWhole ==
    mail # NoMail => mail.parts = {<<file, "intact">> : file \in Attachments[mail.kind]}

\* An accepted package is an invoice Hacienda accepted, by its status and by its XML.
PackageIsAccepted ==
    mail.kind = "ACCEPTED_FISCAL_PACKAGE" =>
        /\ fiscal.type = "INVOICE" /\ fiscal.status = "ACCEPTED"
        /\ mensaje = "1"

\* A rejected document is never told as accepted, although the text is made from a
\* status read before the response was.
MailTellsVerdict ==
    mail.kind = "HACIENDA_RESPONSE" => mail.says = fiscal.status

\* A mail goes to the one address the receiver gave, however it was written.
MailIsAddressed ==
    mail # NoMail =>
        /\ mail.to \in {"a", "b"}
        /\ {fiscal.correoElectronico, fiscal.email} \subseteq
              {None, "blank"} \cup (IF mail.to = "a" THEN {"a", "A"} ELSE {"b"})

PackageInv ==
    /\ PackageTypeOK
    /\ MailIsWhole
    /\ PackageIsAccepted
    /\ MailTellsVerdict
    /\ MailIsAddressed
=============================================================================
