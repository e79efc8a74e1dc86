-------------------------------- MODULE Access --------------------------------
(***************************************************************************)
(* Who may call: refresh tokens that are rotated (identity module), one API *)
(* key that is validated, revoked and linked to companies (api-keys module, *)
(* api-key-auth.guard.ts), tenants and users that are created once.         *)
(***************************************************************************)
EXTENDS Naturals

CONSTANTS
    Sessions,         \* logins and refreshes: each makes at most one refresh token
    FirstSession,     \* the login
    Validations,      \* requests that present the API key
    Revokers,         \* requests that revoke it
    Companies,        \* companies of its tenant
    Strangers,        \* companies of another tenant
    Assigners,        \* requests that link the key to a company
    Founders          \* requests that create one tenant slug, or one user's email

VARIABLES
    token,            \* [Sessions -> "none", "live", "used" or "expired"], by the session that made it
    userActive,
    sessionPc, presented, \* where a refresh is, and the token it presents
    spentAtBegin,     \* that token had been used when the refresh began
    keyEnvironment, keyStatus, revokedAt, \* the API key row
    usage,            \* [Validations -> where it is], with what it read
    saving,           \* [Validations -> the entity its usage record will write, or "none"]
    guard,            \* [Validations -> the company it asks for, and the guard's answer]
    revokePc, revoked,\* revocations, and whether one was answered
    overlapped,       \* a usage record read before a revocation was written after it
    links, linkedBy,  \* companies of the key, and who was told it created the link
    assignPc,
    founded, foundPc  \* rows of the slug, and where each founder is

sessionVars == <<token, userActive, sessionPc, presented, spentAtBegin>>
keyVars == <<keyEnvironment, keyStatus, revokedAt, usage, saving, guard, revokePc, revoked,
             overlapped, links, linkedBy, assignPc>>
tenantVars == <<founded, foundPc>>
accessVars == <<sessionVars, keyVars, tenantVars>>

(* Login and refresh *)

Login ==
    /\ sessionPc[FirstSession] = "begin" /\ userActive
    /\ token' = [token EXCEPT ![FirstSession] = "live"]
    /\ sessionPc' = [sessionPc EXCEPT ![FirstSession] = "answered"]
    /\ UNCHANGED <<userActive, presented, spentAtBegin, keyVars, tenantVars>>

\* The record is found by its hash, neither used nor expired.
FindToken(s) ==
    /\ sessionPc[s] = "begin" /\ s # FirstSession
    /\ \E t \in Sessions :
          /\ sessionPc[t] = "answered" /\ token[t] = "live"
          /\ presented' = [presented EXCEPT ![s] = t]
          /\ spentAtBegin' = [spentAtBegin EXCEPT ![s] = \E r \in Sessions :
                                 presented[r] = t /\ sessionPc[r] = "answered" /\ r # t]
    /\ sessionPc' = [sessionPc EXCEPT ![s] = "found"]
    /\ UNCHANGED <<token, userActive, keyVars, tenantVars>>

CheckUser(s) ==
    /\ sessionPc[s] = "found"
    /\ sessionPc' = [sessionPc EXCEPT ![s] = IF userActive THEN "rotating" ELSE "refused"]
    /\ UNCHANGED <<token, userActive, presented, spentAtBegin, keyVars, tenantVars>>

\* Variant of Marked: the token stays as it was.
LeftLive(t) == token

\* markAsUsed updates by the hash alone: the second of two refreshes marks it again.
Marked(t) == [token EXCEPT ![t] = "used"]

MarkAsUsed(s) ==
    /\ sessionPc[s] = "rotating"
    /\ token' = Marked(presented[s])
    /\ sessionPc' = [sessionPc EXCEPT ![s] = "marked"]
    /\ UNCHANGED <<userActive, presented, spentAtBegin, keyVars, tenantVars>>

SaveToken(s) ==
    /\ sessionPc[s] = "marked"
    /\ token' = [token EXCEPT ![s] = "live"]
    /\ sessionPc' = [sessionPc EXCEPT ![s] = "answered"]
    /\ UNCHANGED <<userActive, presented, spentAtBegin, keyVars, tenantVars>>

\* The process dies between the two writes: no token is left, the user logs in again.
SessionDies(s) ==
    /\ sessionPc[s] \in {"found", "rotating", "marked"}
    /\ sessionPc' = [sessionPc EXCEPT ![s] = "dead"]
    /\ UNCHANGED <<token, userActive, presented, spentAtBegin, keyVars, tenantVars>>

TokenExpires(t) ==
    /\ token[t] = "live"
    /\ token' = [token EXCEPT ![t] = "expired"]
    /\ UNCHANGED <<userActive, sessionPc, presented, spentAtBegin, keyVars, tenantVars>>

DeactivateUser ==
    /\ userActive /\ userActive' = FALSE
    /\ UNCHANGED <<token, sessionPc, presented, spentAtBegin, keyVars, tenantVars>>

(* The API key *)

\* findByPrefix; a revoked or expired key is refused before its hash is verified.
FindKey(v) ==
    /\ usage[v] = "begin"
    /\ usage' = [usage EXCEPT ![v] = IF keyStatus = "ACTIVE" THEN "read" ELSE "refused"]
    /\ UNCHANGED <<keyEnvironment, keyStatus, revokedAt, saving, guard, revokePc, revoked,
                   overlapped, links, linkedBy, assignPc, sessionVars, tenantVars>>

\* argon2.verify takes its time; then the usage is recorded and its save is not awaited.
VerifyKey(v) ==
    /\ usage[v] = "read"
    /\ \/ /\ usage' = [usage EXCEPT ![v] = "verified"]
          /\ saving' = [saving EXCEPT ![v] = "ACTIVE"]
       \/ usage' = [usage EXCEPT ![v] = "refused"] /\ UNCHANGED saving
    /\ UNCHANGED <<keyEnvironment, keyStatus, revokedAt, guard, revokePc, revoked,
                   overlapped, links, linkedBy, assignPc, sessionVars, tenantVars>>

\* Variant of KeptRevokedAt: the update writes the entity's null.
ClearedRevokedAt == FALSE

\* The update sets the status that was read; an undefined revokedAt leaves the column.
KeptRevokedAt == revokedAt

SaveUsage(v) ==
    /\ saving[v] # "none"
    /\ \/ /\ keyStatus' = saving[v]
          /\ revokedAt' = KeptRevokedAt
          /\ overlapped' = (overlapped \/ keyStatus = "REVOKED")
       \/ UNCHANGED <<keyStatus, revokedAt, overlapped>>
    /\ saving' = [saving EXCEPT ![v] = "none"]
    /\ UNCHANGED <<keyEnvironment, usage, guard, revokePc, revoked, links, linkedBy,
                   assignPc, sessionVars, tenantVars>>

\* Variant of CompanyAnswer: the tenant is compared and the link is not looked up.
TenantIsEnough(c) == IF c \in Strangers THEN "COMPANY_NOT_FOUND" ELSE "admitted"

\* The guard: an active company of the key's tenant, that the key is linked to; a request
\* that names no company is not about one.
CompanyAnswer(c) ==
    IF c = "none" THEN "admitted"
    ELSE IF c \in Strangers THEN "COMPANY_NOT_FOUND"
    ELSE IF c \notin links THEN "API_KEY_COMPANY_NOT_AUTHORIZED" ELSE "admitted"

\* A key is of one environment; a request that names one names the key's.
ExpectedEnvironment == IF keyEnvironment = "TEST" THEN "SANDBOX" ELSE "PRODUCTION"

Authorize(v) ==
    /\ usage[v] = "verified" /\ guard[v].answer = "none"
    /\ \E c \in Companies \cup Strangers \cup {"none"}, e \in {"SANDBOX", "PRODUCTION", "none"} :
          guard' = [guard EXCEPT ![v] =
              [company |-> c, environment |-> e,
               answer |-> IF CompanyAnswer(c) # "admitted" THEN CompanyAnswer(c)
                          ELSE IF e \notin {"none", ExpectedEnvironment}
                          THEN "API_KEY_ENVIRONMENT_NOT_AUTHORIZED" ELSE "admitted"]]
    /\ UNCHANGED <<keyEnvironment, keyStatus, revokedAt, usage, saving, revokePc, revoked,
                   overlapped, links, linkedBy, assignPc, sessionVars, tenantVars>>

FindToRevoke(r) ==
    /\ revokePc[r] = "begin"
    /\ revokePc' = [revokePc EXCEPT ![r] = "found"]
    /\ UNCHANGED <<keyEnvironment, keyStatus, revokedAt, usage, saving, guard, revoked,
                   overlapped, links, linkedBy, assignPc, sessionVars, tenantVars>>

\* Variant of RevokedStatus: an expired-looking key is left as it is.
StatusLeft == keyStatus

\* What a revocation writes; it may be repeated.
RevokedStatus == "REVOKED"

SaveRevocation(r) ==
    /\ revokePc[r] = "found"
    /\ keyStatus' = RevokedStatus /\ revokedAt' = TRUE
    /\ revokePc' = [revokePc EXCEPT ![r] = "done"] /\ revoked' = TRUE
    /\ UNCHANGED <<keyEnvironment, usage, saving, guard, overlapped, links, linkedBy,
                   assignPc, sessionVars, tenantVars>>

\* The key is read ACTIVE, then the link is created.
FindToAssign(a) ==
    /\ assignPc[a].at = "begin"
    /\ \E c \in Companies :
          assignPc' = [assignPc EXCEPT ![a] =
                          [at |-> IF keyStatus = "ACTIVE" THEN "found" ELSE "refused",
                           company |-> c]]
    /\ UNCHANGED <<keyEnvironment, keyStatus, revokedAt, usage, saving, guard, revokePc,
                   revoked, overlapped, links, linkedBy, sessionVars, tenantVars>>

\* Variant of LinkIsNew: the conflict is not told apart.
LinkIsAlwaysNew(c) == TRUE

\* The primary key of api_key_companies refuses the second link.
LinkIsNew(c) == c \notin links

CreateLink(a) ==
    /\ assignPc[a].at = "found"
    /\ LET c == assignPc[a].company IN
       /\ links' = links \cup {c}
       /\ linkedBy' = IF LinkIsNew(c) THEN linkedBy \cup {<<a, c>>} ELSE linkedBy
    /\ assignPc' = [assignPc EXCEPT ![a].at = "done"]
    /\ UNCHANGED <<keyEnvironment, keyStatus, revokedAt, usage, saving, guard, revokePc,
                   revoked, overlapped, sessionVars, tenantVars>>

(* Tenants are looked up and created; users are created at once *)

LookUpSlug(f) ==
    /\ foundPc[f] = "begin"
    /\ foundPc' = [foundPc EXCEPT ![f] = IF founded = {} THEN "creating" ELSE "conflict"]
    /\ UNCHANGED <<founded, sessionVars, keyVars>>

\* Variant of SlugIsFree: the lookup is all there is.
SlugUnguarded == TRUE

\* The unique index of tenants.slug, and of a tenant's users.email.
SlugIsFree == founded = {}

CreateRow(f) ==
    /\ foundPc[f] = "creating"
    /\ IF SlugIsFree THEN founded' = founded \cup {f} ELSE UNCHANGED founded
    /\ foundPc' = [foundPc EXCEPT ![f] = IF SlugIsFree THEN "created" ELSE "INTERNAL_SERVER_ERROR"]
    /\ UNCHANGED <<sessionVars, keyVars>>

Init ==
    /\ token = [s \in Sessions |-> "none"] /\ userActive = TRUE
    /\ sessionPc = [s \in Sessions |-> "begin"] /\ presented = [s \in Sessions |-> FirstSession]
    /\ spentAtBegin = [s \in Sessions |-> FALSE]
    /\ keyEnvironment \in {"TEST", "LIVE"} /\ keyStatus = "ACTIVE" /\ revokedAt = FALSE
    /\ usage = [v \in Validations |-> "begin"] /\ saving = [v \in Validations |-> "none"]
    /\ guard = [v \in Validations |-> [company |-> "none", environment |-> "none", answer |-> "none"]]
    /\ revokePc = [r \in Revokers |-> "begin"] /\ revoked = FALSE /\ overlapped = FALSE
    /\ links = {} /\ linkedBy = {}
    /\ assignPc = [a \in Assigners |-> [at |-> "begin", company |-> "none"]]
    /\ founded = {} /\ foundPc = [f \in Founders |-> "begin"]

SessionNext ==
    \/ Login \/ DeactivateUser
    \/ \E s \in Sessions : FindToken(s) \/ CheckUser(s) \/ MarkAsUsed(s) \/ SaveToken(s)
                           \/ SessionDies(s) \/ TokenExpires(s)
KeyNext ==
    \/ \E v \in Validations : FindKey(v) \/ VerifyKey(v) \/ SaveUsage(v) \/ Authorize(v)
    \/ \E r \in Revokers : FindToRevoke(r) \/ SaveRevocation(r)
    \/ \E a \in Assigners : FindToAssign(a) \/ CreateLink(a)
TenantNext == \E f \in Founders : LookUpSlug(f) \/ CreateRow(f)
Next == SessionNext \/ KeyNext \/ TenantNext

TypeOK ==
    /\ token \in [Sessions -> {"none", "live", "used", "expired"}] /\ userActive \in BOOLEAN
    /\ sessionPc \in [Sessions -> {"begin", "found", "rotating", "refused", "marked", "answered",
                                  "dead"}]
    /\ presented \in [Sessions -> Sessions] /\ spentAtBegin \in [Sessions -> BOOLEAN]
    /\ keyEnvironment \in {"TEST", "LIVE"} /\ keyStatus \in {"ACTIVE", "REVOKED"}
    /\ revokedAt \in BOOLEAN /\ usage \in [Validations -> {"begin", "read", "verified", "refused"}]
    /\ saving \in [Validations -> {"none", "ACTIVE"}]
    /\ guard \in [Validations ->
           [company : Companies \cup Strangers \cup {"none"},
            environment : {"SANDBOX", "PRODUCTION", "none"},
            answer : {"none", "admitted", "COMPANY_NOT_FOUND", "API_KEY_COMPANY_NOT_AUTHORIZED",
                      "API_KEY_ENVIRONMENT_NOT_AUTHORIZED"}]]
    /\ revokePc \in [Revokers -> {"begin", "found", "done"}] /\ revoked \in BOOLEAN
    /\ overlapped \in BOOLEAN /\ links \subseteq Companies
    /\ linkedBy \subseteq Assigners \X Companies
    /\ assignPc \in [Assigners -> [at : {"begin", "found", "refused", "done"},
                                  company : Companies \cup {"none"}]]
    /\ founded \subseteq Founders
    /\ foundPc \in [Founders -> {"begin", "creating", "conflict", "created",
                                 "INTERNAL_SERVER_ERROR"}]

\* A token whose refresh was answered is refused to every refresh begun after the answer;
\* two begun before it may both succeed.
SpentTokenIsRefused == \A s \in Sessions : ~spentAtBegin[s]

\* A revocation holds unless a usage record read before it is written after it; and its
\* date stays even then.
RevocationHolds ==
    revoked => revokedAt /\ (overlapped \/ keyStatus = "REVOKED")

\* Who is admitted to a company was linked to it, of the key's tenant, and stays so; and
\* asks for the environment of the key, or for none.
AdmittedIsLinked ==
    \A v \in Validations : guard[v].answer = "admitted" =>
        /\ guard[v].company \in links \cup {"none"}
        /\ guard[v].environment = "PRODUCTION" => keyEnvironment = "LIVE"

\* A link is reported created to one request, and a slug belongs to one tenant.
CreatedOnce ==
    /\ \A x, y \in linkedBy : x[2] = y[2] => x = y
    /\ \A f, g \in founded : f = g

\* Tokens, keys, links and tenants under racing requests.
AccessInv == TypeOK /\ SpentTokenIsRefused /\ RevocationHolds /\ AdmittedIsLinked /\ CreatedOnce
=============================================================================
