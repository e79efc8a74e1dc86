------------------------------ MODULE MCEvidence ------------------------------
(***************************************************************************)
(* The components behind the fiscal evidence, checked in one run: the      *)
(* local object store, the preparation of the signed XML, the PDF          *)
(* artifacts, the mails that carry them, and the recovery of the responses *)
(* nobody mailed.  They meet only through whole objects, which             *)
(* LocalStorage shows to be written once, so one component moves in each   *)
(* behaviour.                                                              *)
(***************************************************************************)
EXTENDS LocalStorage, MissedResponses

CONSTANTS
    Components,   \* the components that may move
    Preparations, Adapters, MaxMishaps,
    Generations, Logos, LastSecond, MaxPdfMishaps,
    MaxDamage

\* The name of no signature and no logo is not one of them.
ASSUME EvidenceConstants ==
    /\ "NONE" \notin Preparations /\ "NONE" \notin Logos
    /\ LastSecond \in Nat /\ MaxMishaps \in Nat /\ MaxPdfMishaps \in Nat
    /\ MaxDamage \in Nat

VARIABLES
    moving,   \* the component this behaviour is about
    adapter, status, artifact, unsignedFile, signedFile, index, submission, prepPc,
    prepMem, servedXml, initialDelivery, mishaps,
    second, rows, files, logoFiles, logo, pdfPc, pdfMem, answer, servedPdf, logoPc,
    misled, unanswered, pdfMishaps,
    fiscal, mensaje, stored, deliveries, reading, mail, damaged

xmlVars == <<adapter, status, artifact, unsignedFile, signedFile, index, submission, prepPc,
             prepMem, servedXml, initialDelivery, mishaps>>
pdfVars == <<second, rows, files, logoFiles, logo, pdfPc, pdfMem, answer, servedPdf, logoPc,
             misled, unanswered, pdfMishaps>>
packageVars == <<fiscal, mensaje, stored, deliveries, reading, mail, damaged>>
mailVars == <<packageVars, missedVars>>
evidenceVars == <<moving, filesVars, xmlVars, pdfVars, mailVars>>

Xml == INSTANCE XmlPreparation WITH served <- servedXml
Pdf == INSTANCE PdfArtifacts WITH served <- servedPdf
Packages == INSTANCE DeliveryPackage

\* A component that stays still starts in one state: Moving is decided first, so that
\* the other initial states are never enumerated.
Or(component, still) == moving = component \/ (moving # component /\ still)

OrdinaryDocument == [type |-> "INVOICE", status |-> "READY_TO_SUBMIT",
                     correoElectronico |-> "a", email |-> Packages!None]

EvidenceInit ==
    /\ moving \in Components
    /\ Init /\ Xml!Init /\ Pdf!Init
    /\ Or("files", \E request \in {CHOOSE r \in Request : TRUE} :
                      requests = [u \in Uploads |-> request])
    /\ Or("xml", adapter = "local")
    /\ Or("pdf", rows = {})
    /\ Or("packages", fiscal = OrdinaryDocument /\ mensaje = "1"
                        /\ stored = [pdf |-> "unmade", signed |-> "intact",
                                     response |-> "unmade"])
    /\ Packages!PackageInit
    /\ Or("missed", outcome = [d \in 1..LastId |-> "mailable"])
    /\ MissedInit

MoveFiles == moving = "files" /\ Next /\ UNCHANGED <<moving, xmlVars, pdfVars, mailVars>>
MoveXml == moving = "xml" /\ Xml!Next /\ UNCHANGED <<moving, filesVars, pdfVars, mailVars>>
MovePdf == moving = "pdf" /\ Pdf!Next /\ UNCHANGED <<moving, filesVars, xmlVars, mailVars>>
MovePackages ==
    /\ moving = "packages" /\ Packages!PackageNext
    /\ UNCHANGED <<moving, filesVars, xmlVars, pdfVars, missedVars>>
MoveMissed ==
    /\ moving = "missed" /\ MissedNext
    /\ UNCHANGED <<moving, filesVars, xmlVars, pdfVars, packageVars>>

EvidenceNext == MoveFiles \/ MoveXml \/ MovePdf \/ MovePackages \/ MoveMissed

EvidenceSpec == EvidenceInit /\ [][EvidenceNext]_evidenceVars

(* The properties of the components, by their names there. *)

\* The evidence of a document: one signed XML, recorded, stored, indexed, posted, handed
\* out; one PDF with its file; and mails of them that are whole, accepted and truly told.
ArtifactsInv == Xml!SignedXmlInv /\ Pdf!PdfInv /\ Packages!PackageInv
\* No late preparation takes a decided document back.
DecisionIsKept == Xml!DecisionIsKept
=============================================================================
