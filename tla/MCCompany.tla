------------------------------ MODULE MCCompany ------------------------------
(***************************************************************************)
(* What a company is administered by, checked in one run: its signing       *)
(* certificates and identity, its taxpayer data and activities, its         *)
(* association and credential, its issuance points, its test invoice.  They *)
(* share no state but the company's identity, which SigningCertificates     *)
(* owns, so one component moves in each behaviour.                          *)
(***************************************************************************)
EXTENDS SigningCertificates, FiscalAssociation, IssuancePoints, TLC

CONSTANTS
    Components,   \* the components that may move
    CodesOfCompany, Creators, Verifications, Choosers, MaxChanges,
    Requests, MaxMishaps,
    c1, c2, i1, i2, b1, t1, t2

ASSUME CompanyConstants ==
    /\ MaxChanges \in Nat /\ MaxMishaps \in Nat
    /\ None \notin Requests \cup CodesOfCompany

VARIABLES
    moving,       \* the component this behaviour is about
    registry, company, createPc, createMem, activities, profile, verifyPc, verifyMem,
    choosePc, chooseMem, disturbed, changes,
    holder, ready, document, invoicePc, prepared, sent, answered, lockExpired, abandoned,
    invoiceMishaps

taxpayerVars == <<registry, company, createPc, createMem, activities, profile, verifyPc,
                  verifyMem, choosePc, chooseMem, disturbed, changes>>
invoiceVars == <<holder, ready, document, invoicePc, prepared, sent, answered, lockExpired,
                 abandoned, invoiceMishaps>>

\* Two certificates of two persons; two terminals of one branch.
TwoPersons == (c1 :> i1) @@ (c2 :> i2)
OneBranch == (t1 :> b1) @@ (t2 :> b1)

Taxpayer == INSTANCE TaxpayerActivities WITH Codes <- CodesOfCompany
Invoice == INSTANCE TestInvoice WITH expired <- lockExpired

\* A component that stays still starts in one state.
StillOnes ==
    /\ moving # "certificates" =>
          identity = i1 /\ \A u \in Uploads : file[u] = c1
    /\ moving # "taxpayer" => \A c \in CodesOfCompany : registry.status[c] = "A"
    /\ moving # "association" =>
          /\ \A n \in Numbers : companies[n] = "NONE"
          /\ wanted = [c \in Callers |-> CHOOSE w \in Wanted : TRUE]
    /\ moving # "invoice" => ready

CompanyInit ==
    /\ moving \in Components
    /\ Init /\ Taxpayer!Init /\ AssociationInit /\ PointsInit /\ Invoice!Init
    /\ StillOnes

MoveCertificates ==
    /\ moving = "certificates" /\ Next
    /\ UNCHANGED <<moving, taxpayerVars, associationVars, pointVars, invoiceVars>>
MoveTaxpayer ==
    /\ moving = "taxpayer" /\ Taxpayer!Next
    /\ UNCHANGED <<moving, certificateVars, associationVars, pointVars, invoiceVars>>
MoveAssociation ==
    /\ moving = "association" /\ AssociationNext
    /\ UNCHANGED <<moving, certificateVars, taxpayerVars, pointVars, invoiceVars>>
MovePoints ==
    /\ moving = "points" /\ PointsNext
    /\ UNCHANGED <<moving, certificateVars, taxpayerVars, associationVars, invoiceVars>>
MoveInvoice ==
    /\ moving = "invoice" /\ Invoice!Next
    /\ UNCHANGED <<moving, certificateVars, taxpayerVars, associationVars, pointVars>>

CompanyNext ==
    MoveCertificates \/ MoveTaxpayer \/ MoveAssociation \/ MovePoints \/ MoveInvoice

companyVars == <<moving, certificateVars, taxpayerVars, associationVars, pointVars,
                 invoiceVars>>

CompanySpec == CompanyInit /\ [][CompanyNext]_companyVars

\* What is interchangeable: no definition compares or names these.
Symmetry ==
    Permutations(CodesOfCompany) \cup Permutations(Creators) \cup Permutations(Verifications)
    \cup Permutations(Uploads)

(* The properties of the other components, by their names there. *)

\* A company is created once, and its default is an activity of its own, whoever races.
TaxpayerInv == Taxpayer!TaxpayerInv
\* A verification that nothing overtakes writes what Hacienda said, and none takes back
\* what the operator disabled.
VerificationIsFaithful == Taxpayer!VerificationIsFaithful
\* A repeated test invoice is prepared and submitted once, and answered when it is.
InvoiceInv == Invoice!InvoiceInv
=============================================================================
