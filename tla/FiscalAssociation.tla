--------------------------- MODULE FiscalAssociation ---------------------------
(***************************************************************************)
(* Provisioning of an issuer and bootstrap of its operational credential:  *)
(* callers that race for one external key, for one company, and with other *)
(* ways to create that company.  A serializable transaction is its reads    *)
(* and its commit; the credential is issued under an advisory lock.         *)
(***************************************************************************)
EXTENDS Naturals, FiniteSets

CONSTANTS
    Callers,        \* bootstrap requests
    ExternalKeys,   \* keys of companies in the integrating system
    Numbers, Types  \* identification numbers and types

VARIABLES
    wanted,         \* what each request asks for
    companies,      \* the type of the company with each number
    association,    \* the company of each external key
    callPc,
    answer,         \* the company each caller was told
    lock,           \* holder of pg_advisory_xact_lock(tenant:credentialName)
    credential,     \* the operational key each caller issued
    seen            \* the keys the caller's updateMany revokes

associationVars == <<wanted, companies, association, callPc, answer, lock, credential, seen>>

Absent == "NONE"

\* What says that there is none is nobody.
ASSUME NobodyIsAbsent == Absent \notin Numbers \cup Types \cup Callers

Wanted == [key : ExternalKeys, number : Numbers, type : Types, named : BOOLEAN]

AssociationTypeOK ==
    /\ wanted \in [Callers -> Wanted]
    /\ companies \in [Numbers -> Types \cup {Absent}]
    /\ association \in [ExternalKeys -> Numbers \cup {Absent}]
    /\ callPc \in [Callers -> {"find", "commit", "reread", "lock", "revoke", "issue",
                               "issued", "refused"}]
    /\ answer \in [Callers -> Numbers \cup {Absent}]
    /\ lock \in [ExternalKeys -> Callers \cup {Absent}]
    /\ credential \in [Callers -> {Absent, "ACTIVE", "REVOKED"}]
    /\ seen \in [Callers -> SUBSET Callers]

AssociationInit ==
    /\ wanted \in [Callers -> Wanted]
    /\ companies \in [Numbers -> Types \cup {Absent}]
    /\ association = [k \in ExternalKeys |-> Absent]
    /\ callPc = [c \in Callers |-> "find"]
    /\ answer = [c \in Callers |-> Absent]
    /\ lock = [k \in ExternalKeys |-> Absent]
    /\ credential = [c \in Callers |-> Absent]
    /\ seen = [c \in Callers |-> {}]

Key(c) == wanted[c].key

CallAt(c, from, to) ==
    /\ callPc[c] = from
    /\ callPc' = [callPc EXCEPT ![c] = to]

\* assertEquivalentAssociation, for a company that exists.
Equivalent(c, number) ==
    number = wanted[c].number /\ companies[number] = wanted[c].type

CredentialUnchanged == UNCHANGED <<wanted, lock, credential, seen>>

-----------------------------------------------------------------------------
(* provisionAssociation *)

\* Variant of Answer: the association found is answered as it is.
AnswerUnchecked(c, from) ==
    LET number == association[Key(c)] IN
    /\ number # Absent
    /\ CallAt(c, from, "lock")
    /\ answer' = [answer EXCEPT ![c] = number]

\* An existing association is answered when the request is equivalent to it.
Answer(c, from) ==
    LET number == association[Key(c)] IN
    /\ number # Absent
    /\ CallAt(c, from, IF Equivalent(c, number) THEN "lock" ELSE "refused")
    /\ answer' = IF Equivalent(c, number) THEN [answer EXCEPT ![c] = number] ELSE answer

FindExisting(c) ==
    /\ Answer(c, "find")
    /\ CredentialUnchanged
    /\ UNCHANGED <<companies, association>>

\* A company named by id must exist; one found by number must be equivalent.
FindCompany(c) ==
    /\ association[Key(c)] = Absent
    /\ CallAt(c, "find",
          IF companies[wanted[c].number] = Absent
          THEN IF wanted[c].named THEN "refused" ELSE "commit"
          ELSE IF Equivalent(c, wanted[c].number) THEN "commit" ELSE "refused")
    /\ CredentialUnchanged
    /\ UNCHANGED <<companies, association, answer>>

\* Unique keys: one association by external key and by company, one company by number.
Unique(c) ==
    /\ association[Key(c)] = Absent
    /\ \A k \in ExternalKeys : association[k] # wanted[c].number
    /\ companies[wanted[c].number] \in {Absent, wanted[c].type}

CommitAssociation(c) ==
    /\ CallAt(c, "commit", "lock")
    /\ Unique(c)
    /\ companies' = [companies EXCEPT ![wanted[c].number] = wanted[c].type]
    /\ association' = [association EXCEPT ![Key(c)] = wanted[c].number]
    /\ answer' = [answer EXCEPT ![c] = wanted[c].number]
    /\ CredentialUnchanged

\* A unique key or another serializable transaction: also without need.
AssociationConflicts(c) ==
    /\ CallAt(c, "commit", "reread")
    /\ ~Unique(c) \/ \E d \in Callers \ {c} : callPc[d] # "find"
    /\ CredentialUnchanged
    /\ UNCHANGED <<companies, association, answer>>

RereadExisting(c) ==
    /\ Answer(c, "reread")
    /\ CredentialUnchanged
    /\ UNCHANGED <<companies, association>>

RereadNothing(c) ==
    /\ association[Key(c)] = Absent
    /\ CallAt(c, "reread", "refused")
    /\ CredentialUnchanged
    /\ UNCHANGED <<companies, association, answer>>

\* CreateCompanyHandler, meanwhile.
CompanyAppears(n, t) ==
    /\ companies[n] = Absent
    /\ companies' = [companies EXCEPT ![n] = t]
    /\ CredentialUnchanged
    /\ UNCHANGED <<association, callPc, answer>>

-----------------------------------------------------------------------------
(* bootstrapAssociation: its second transaction *)

AssociationUnchanged == UNCHANGED <<wanted, companies, association, answer>>

\* Variant of LockFree: no advisory lock.
AlwaysFree(k) == TRUE

LockFree(k) == lock[k] = Absent

TakeLock(c) ==
    /\ CallAt(c, "lock", "revoke")
    /\ LockFree(Key(c))
    /\ lock' = [lock EXCEPT ![Key(c)] = c]
    /\ AssociationUnchanged
    /\ UNCHANGED <<credential, seen>>

\* updateMany sees the active keys of that name that are committed.
RevokeActive(c) ==
    /\ CallAt(c, "revoke", "issue")
    /\ seen' = [seen EXCEPT ![c] =
                    {d \in Callers : Key(d) = Key(c) /\ credential[d] = "ACTIVE"}]
    /\ AssociationUnchanged
    /\ UNCHANGED <<lock, credential>>

IssueCredential(c) ==
    /\ CallAt(c, "issue", "issued")
    /\ credential' = [d \in Callers |->
          IF d = c THEN "ACTIVE" ELSE IF d \in seen[c] THEN "REVOKED" ELSE credential[d]]
    /\ lock' = [lock EXCEPT ![Key(c)] = Absent]
    /\ AssociationUnchanged
    /\ UNCHANGED seen

\* The request dies or its transaction is rolled back.
Abandon(c) ==
    /\ callPc[c] \notin {"issued", "refused"}
    /\ callPc' = [callPc EXCEPT ![c] = "refused"]
    /\ lock' = [k \in ExternalKeys |-> IF lock[k] = c THEN Absent ELSE lock[k]]
    /\ AssociationUnchanged
    /\ UNCHANGED <<credential, seen>>

AssociationNext ==
    \/ \E c \in Callers :
          \/ FindExisting(c) \/ FindCompany(c) \/ CommitAssociation(c) \/ AssociationConflicts(c)
          \/ RereadExisting(c) \/ RereadNothing(c)
          \/ TakeLock(c) \/ RevokeActive(c) \/ IssueCredential(c) \/ Abandon(c)
    \/ \E n \in Numbers, t \in Types : CompanyAppears(n, t)

AssociationSpec == AssociationInit /\ [][AssociationNext]_associationVars
-----------------------------------------------------------------------------
(* Properties *)

\* A caller is told the company of its external key, which is the company it asked
\* for, and no two external keys have one company, whoever won the race.
AnsweredAsAsked ==
    /\ \A c \in Callers : answer[c] # Absent =>
          /\ answer[c] = association[Key(c)]
          /\ answer[c] = wanted[c].number /\ companies[answer[c]] = wanted[c].type
    /\ \A j, k \in ExternalKeys :
          association[j] # Absent /\ association[j] = association[k] => j = k

\* An external key has one active operational credential once one has been issued,
\* however many bootstraps of it race.
OneCredential ==
    \A k \in ExternalKeys :
        LET issued == {c \in Callers : Key(c) = k /\ credential[c] # Absent} IN
        issued # {} => Cardinality({c \in issued : credential[c] = "ACTIVE"}) = 1

\* Only the holder of its key's lock is between the two statements of the transaction.
LocksAreHeld ==
    \A c \in Callers :
        /\ callPc[c] \in {"revoke", "issue"} => lock[Key(c)] = c
        /\ credential[c] # Absent => callPc[c] = "issued"

\* What the holder saw is what is active, and at most one credential is.
SeenIsActive ==
    /\ \A c \in Callers : callPc[c] = "issue" =>
          seen[c] = {d \in Callers : Key(d) = Key(c) /\ credential[d] = "ACTIVE"}
    /\ \A c \in Callers : credential[c] # Absent =>
          \E d \in Callers :
             {e \in Callers : Key(e) = Key(c) /\ credential[e] = "ACTIVE"} = {d}

\* Racing bootstraps of a company agree on it and leave one credential, behind the lock.
AssociationInv ==
    /\ AssociationTypeOK
    /\ AnsweredAsAsked
    /\ LocksAreHeld
    /\ SeenIsActive
    /\ OneCredential
=============================================================================
