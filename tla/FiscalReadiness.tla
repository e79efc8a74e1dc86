---------------------------- MODULE FiscalReadiness ----------------------------
(***************************************************************************)
(* Whether a company can issue: what the readiness report says and what     *)
(* createDocument asks, each with reads of its own.  The report reads the   *)
(* company's data piece by piece, without a transaction, and the data may   *)
(* change meanwhile; its dimensions are computed from the reasons, except   *)
(* that of the sequence, for which the issuance point is read again.        *)
(***************************************************************************)
EXTENDS Naturals, Sequences

CONSTANT MaxChanges   \* how often the data changes while a report is computed

VARIABLES
    facts,     \* the company's data
    report,    \* the report being computed: the next read, its reasons, its dimensions
    changes    \* how often the data changed since the report was asked for

readinessVars == <<facts, report, changes>>

(* The data. *)

Activities == {"a1", "a2"}
ActivityStates == {"absent", "valid", "inactive", "disabled"}

Connections == {"MISSING", "NOT_CONNECTED", "SECRET_UNAVAILABLE", "CONNECTED"}
Certificates == {"MISSING", "EXPIRED", "NOT_YET_VALID", "SECRET_UNAVAILABLE",
                 "UNVERIFIED", "MISMATCH", "GOOD"}
Taxpayers == {"NONE", "UNAVAILABLE", "NOT_INSCRIBED", "VERIFIED"}

ReadyFacts ==
    [company |-> "ACTIVE", profile |-> "complete", default |-> "a1",
     activity |-> [a \in Activities |-> IF a = "a1" THEN "valid" ELSE "absent"],
     connection |-> "CONNECTED", certificate |-> "GOOD", point |-> TRUE,
     taxpayer |-> "VERIFIED"]

\* Every profile with every pair of activities, and every other part on its own and with
\* a missing profile or point.  A default is "foreign" when its row belongs to another
\* company.
Facts ==
    {[ReadyFacts EXCEPT !.profile = profile, !.default = default, !.activity = activity] :
        profile \in {"none", "incomplete", "complete"}, default \in {"none", "a1", "foreign"},
        activity \in [Activities -> ActivityStates]}
    \cup
    {[ReadyFacts EXCEPT !.company = company, !.connection = connection,
                        !.certificate = certificate, !.point = point, !.taxpayer = taxpayer] :
        company \in {"ACTIVE", "INACTIVE"}, connection \in Connections,
        certificate \in Certificates, point \in BOOLEAN, taxpayer \in Taxpayers}

\* A default activity is a row that exists.
Possible(f) == f.default = "a1" => f.activity["a1"] # "absent"

(* The activity a document is issued for. *)

\* isValidIssuerEconomicActivity.
IsValid(f, a) == f.activity[a] = "valid"
ValidActivities(f) == {a \in Activities : IsValid(f, a)}
NoActivities(f) == \A a \in Activities : f.activity[a] = "absent"
OneOf(S) == \E a \in S : S = {a}

\* resolveIssuerEconomicActivity.
ActivityRefusal(f) ==
    IF f.default # "none"
      THEN IF f.default = "foreign" \/ ~IsValid(f, "a1")
             THEN "DEFAULT_ECONOMIC_ACTIVITY_INVALID" ELSE "NONE"
    ELSE IF OneOf(ValidActivities(f)) THEN "NONE"
    ELSE IF NoActivities(f) THEN "ECONOMIC_ACTIVITY_MISSING"
    ELSE "DEFAULT_ECONOMIC_ACTIVITY_MISSING"

\* getReadyCompanyFiscalProfile.
ProfileRefusal(f) ==
    IF f.profile = "none" THEN "COMPANY_FISCAL_PROFILE_REQUIRED"
    ELSE IF ActivityRefusal(f) # "NONE" THEN ActivityRefusal(f)
    ELSE IF f.profile = "incomplete" THEN "COMPANY_FISCAL_PROFILE_INCOMPLETE"
    ELSE "NONE"

\* haciendaEligibility.
Eligible(f) == f.connection = "CONNECTED"

\* What createDocument answers for a valid command by a linked key.
CreationRefusal(f) ==
    IF f.company # "ACTIVE" THEN "COMPANY_NOT_FOUND"
    ELSE IF ProfileRefusal(f) # "NONE" THEN ProfileRefusal(f)
    ELSE IF ~Eligible(f) THEN "HACIENDA_CONNECTION_REQUIRED"
    ELSE IF ~f.point THEN "FISCAL_ISSUANCE_POINT_REQUIRED"
    ELSE "NONE"

(* The reasons of the report, one group for each read. *)

ProfileReasons(f) == IF f.profile = "none" THEN {"FISCAL_PROFILE_MISSING"} ELSE {}

ConnectionReasons(f) ==
    IF Eligible(f) THEN {}
    ELSE {"HACIENDA_CREDENTIALS_MISSING"}
           \cup IF f.connection = "MISSING" THEN {"HACIENDA_CONNECTION_MISSING"} ELSE {}

CertificateReasons(f) ==
    CASE f.certificate = "MISSING" -> {"ACTIVE_CERTIFICATE_MISSING"}
      [] f.certificate = "EXPIRED" -> {"CERTIFICATE_EXPIRED"}
      [] f.certificate = "NOT_YET_VALID" -> {"CERTIFICATE_NOT_YET_VALID"}
      [] f.certificate = "SECRET_UNAVAILABLE" ->
           {"FISCAL_SIGNING_CERTIFICATE_SECRET_UNAVAILABLE"}
      [] f.certificate = "UNVERIFIED" -> {"CERTIFICATE_IDENTITY_UNVERIFIED"}
      [] f.certificate = "MISMATCH" -> {"CERTIFICATE_IDENTITY_MISMATCH"}
      [] OTHER -> {}

PointReasons(f) == IF f.point THEN {} ELSE {"ISSUANCE_POINT_MISSING"}

TaxpayerReasons(f) ==
    CASE f.taxpayer \in {"NONE", "UNAVAILABLE"} -> {"TAXPAYER_VALIDATION_MISSING"}
      [] f.taxpayer = "NOT_INSCRIBED" -> {"TAXPAYER_NOT_ACTIVE"}
      [] OTHER -> {}

\* The default was read with the profile, the activities are read last.
HasDefault(default, profile) == profile # "none" /\ default # "none"

\* Variant of ActivityReasons: that there is a default is enough.
ChosenIsEnough(f, profile, default) ==
    IF NoActivities(f)
      THEN {"ECONOMIC_ACTIVITY_MISSING", "DEFAULT_ECONOMIC_ACTIVITY_MISSING"}
    ELSE IF ~HasDefault(default, profile) /\ ~OneOf(ValidActivities(f))
      THEN {"DEFAULT_ECONOMIC_ACTIVITY_MISSING"} ELSE {}

ActivityReasons(f, profile, default) ==
    IF NoActivities(f)
      THEN {"ECONOMIC_ACTIVITY_MISSING", "DEFAULT_ECONOMIC_ACTIVITY_MISSING"}
    ELSE IF ~HasDefault(default, profile)
      THEN IF OneOf(ValidActivities(f)) THEN {} ELSE {"DEFAULT_ECONOMIC_ACTIVITY_MISSING"}
    ELSE IF default = "foreign" \/ ~IsValid(f, "a1")
      THEN {"DEFAULT_ECONOMIC_ACTIVITY_INVALID"} ELSE {}

\* The dimensions, each with the reasons that block it.
Dimensions ==
    [issuer |-> {"TAXPAYER_VALIDATION_MISSING", "TAXPAYER_IDENTITY_MISMATCH",
                 "TAXPAYER_NOT_ACTIVE"},
     profile |-> {"FISCAL_PROFILE_MISSING"},
     activity |-> {"ECONOMIC_ACTIVITY_MISSING", "DEFAULT_ECONOMIC_ACTIVITY_MISSING",
                   "DEFAULT_ECONOMIC_ACTIVITY_INVALID"},
     hacienda |-> {"HACIENDA_CONNECTION_MISSING", "HACIENDA_CREDENTIALS_MISSING"},
     certificate |-> {"ACTIVE_CERTIFICATE_MISSING", "CERTIFICATE_EXPIRED",
                      "CERTIFICATE_NOT_YET_VALID", "CERTIFICATE_IDENTITY_UNVERIFIED",
                      "CERTIFICATE_IDENTITY_MISMATCH",
                      "FISCAL_SIGNING_CERTIFICATE_SECRET_UNAVAILABLE"},
     issuancePoint |-> {"ISSUANCE_POINT_MISSING"}]

Reads == <<"profile", "connection", "certificate", "point", "taxpayer", "activities",
           "dimensions">>

NothingRead ==
    /\ report = [next |-> 1, reasons |-> {}, profile |-> "none", default |-> "none",
                 ready |-> FALSE, blocked |-> {}]
    /\ changes = 0

ReadinessInit == facts \in {f \in Facts : Possible(f)} /\ NothingRead

Reading(what) == report.next \in DOMAIN Reads /\ Reads[report.next] = what

Adds(reasons) ==
    /\ report' = [report EXCEPT !.next = @ + 1, !.reasons = @ \cup reasons]
    /\ UNCHANGED <<facts, changes>>

ReadProfile ==
    /\ Reading("profile")
    /\ report' = [report EXCEPT !.next = 2, !.reasons = ProfileReasons(facts),
                                !.profile = facts.profile, !.default = facts.default]
    /\ UNCHANGED <<facts, changes>>
ReadConnection == Reading("connection") /\ Adds(ConnectionReasons(facts))
ReadCertificate == Reading("certificate") /\ Adds(CertificateReasons(facts))
ReadPoint == Reading("point") /\ Adds(PointReasons(facts))
ReadTaxpayer == Reading("taxpayer") /\ Adds(TaxpayerReasons(facts))
ReadActivities ==
    /\ Reading("activities")
    /\ Adds(ActivityReasons(facts, report.profile, report.default))

\* evaluateReadiness: the dimensions of the reasons, and that of the sequence.
ReadDimensions ==
    /\ Reading("dimensions")
    /\ report' = [report EXCEPT !.next = 8, !.ready = report.reasons = {},
                    !.blocked = {d \in DOMAIN Dimensions :
                                   Dimensions[d] \cap report.reasons # {}}
                                \cup IF facts.point THEN {} ELSE {"sequence"}]
    /\ UNCHANGED <<facts, changes>>

\* What an administrator may do meanwhile.
Change ==
    /\ changes < MaxChanges /\ report.next \in DOMAIN Reads
    /\ \/ facts' = [facts EXCEPT !.point = ~@]
       \/ facts' = [facts EXCEPT !.connection = IF @ = "CONNECTED" THEN "NOT_CONNECTED" ELSE @]
       \/ /\ facts.activity["a1"] = "valid"
          /\ facts' = [facts EXCEPT !.activity["a1"] = "disabled"]
    /\ changes' = changes + 1
    /\ UNCHANGED report

ReadinessNext ==
    \/ ReadProfile \/ ReadConnection \/ ReadCertificate \/ ReadPoint
    \/ ReadTaxpayer \/ ReadActivities \/ ReadDimensions \/ Change

-----------------------------------------------------------------------------
(* Properties. *)

Reported == report.next \notin DOMAIN Reads

\* A company that is reported ready, and whose data did not change since, can issue; the
\* report does not look at the address of its profile nor at the company's own status.
ReadyMeansIssuable ==
    (Reported /\ changes = 0 /\ report.ready)
        => CreationRefusal(facts) \in {"NONE", "COMPANY_FISCAL_PROFILE_INCOMPLETE",
                                       "COMPANY_NOT_FOUND"}

\* A company that is not ready and yet issues lacks what only the report asks for: a
\* verified taxpayer and a usable certificate.
UnreadyIssuesWithout ==
    (Reported /\ changes = 0 /\ ~report.ready /\ CreationRefusal(facts) = "NONE")
        => report.reasons \subseteq Dimensions.issuer \cup Dimensions.certificate

\* The status is that of the dimensions; the sequence may say otherwise only when the
\* point was changed between its two reads.
StatusIsOfTheDimensions ==
    Reported =>
        /\ report.ready <=> report.blocked \subseteq {"sequence"}
        /\ changes = 0 => (report.ready <=> report.blocked = {})

ReadinessInv == ReadyMeansIssuable /\ UnreadyIssuesWithout /\ StatusIsOfTheDimensions
=============================================================================
