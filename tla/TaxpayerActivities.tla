-------------------------- MODULE TaxpayerActivities --------------------------
(***************************************************************************)
(* A company as Hacienda knows it: its creation with a best-effort lookup,  *)
(* verifications that take over the taxpayer's economic activities, and     *)
(* the operator's choices among them meanwhile: the default activity, the   *)
(* activities enabled for billing, the fiscal profile.  A step is one await *)
(* or one transaction.                                                      *)
(***************************************************************************)
EXTENDS Naturals

CONSTANTS
    Codes,           \* economic activities
    Creators,        \* requests that create the company
    Verifications,   \* requests that verify it
    Choosers,        \* requests that set the default activity
    MaxChanges       \* bound: changes at Hacienda and by the operator

VARIABLES
    registry,       \* Hacienda's answer: found, and the status of each activity
    company,        \* saved, and its verification status
    createPc, createMem,
    activities,     \* CompanyEconomicActivity: status and billingEnabled
    profile,        \* the fiscal profile: default activity and legacy code
    verifyPc, verifyMem,
    choosePc, chooseMem,
    disturbed,      \* history: verifications whose rows or default changed before they ended
    changes

taxpayerVars == <<registry, company, createPc, createMem, activities, profile, verifyPc,
                  verifyMem, choosePc, chooseMem, disturbed, changes>>

None == "NONE"

HaciendaStatus == {"A", "I"}
Verified == {"VERIFIED", "NOT_FOUND", "UNAVAILABLE", "ERROR"}
Registry == [found : BOOLEAN, status : [Codes -> HaciendaStatus \cup {None}]]
Activity == [status : HaciendaStatus \cup {None}, enabled : BOOLEAN]
Profile == [exists : BOOLEAN, default : Codes \cup {None}, code : Codes \cup {None}]
NoAnswer == [found |-> FALSE, status |-> [c \in Codes |-> None]]
NoActivities == [c \in Codes |-> [status |-> None, enabled |-> FALSE]]
NoProfile == [exists |-> FALSE, default |-> None, code |-> None]

Forgotten == [answer |-> NoAnswer, rows |-> NoActivities, profile |-> NoProfile]

TypeOK ==
    /\ registry \in Registry
    /\ company \in Verified \cup {None}
    /\ createPc \in [Creators -> {"check", "lookup", "save", "created", "refused"}]
    /\ createMem \in [Creators -> Verified \cup {None}]
    /\ activities \in [Codes -> Activity]
    /\ profile \in Profile
    /\ verifyPc \in [Verifications -> {"ask", "persist", "profile", "default", "done"}]
    /\ verifyMem \in [Verifications ->
          [answer : Registry, rows : [Codes -> Activity], profile : Profile]]
    /\ choosePc \in [Choosers -> {"read", "write", "done"}]
    /\ chooseMem \in [Choosers -> Codes \cup {None}]
    /\ disturbed \subseteq Verifications
    /\ changes \in 0..MaxChanges

Init ==
    /\ registry \in [found : {TRUE}, status : [Codes -> HaciendaStatus \cup {None}]]
    /\ company = None
    /\ createPc = [c \in Creators |-> "check"]
    /\ createMem = [c \in Creators |-> None]
    /\ activities = NoActivities
    /\ profile = NoProfile
    /\ verifyPc = [v \in Verifications |-> "ask"]
    /\ verifyMem = [v \in Verifications |-> Forgotten]
    /\ choosePc = [d \in Choosers |-> "read"]
    /\ chooseMem = [d \in Choosers |-> None]
    /\ disturbed = {}
    /\ changes = 0

\* Between its writes a verification decides on what it has written and read: a write of
\* activities disturbs those that have written theirs, a write of the default those that
\* have read the profile.  Whatever is written before that disturbs nobody.
Deciding == {v \in Verifications : verifyPc[v] \in {"profile", "default"}}
ProfileRead == {v \in Verifications : verifyPc[v] = "default"}

-----------------------------------------------------------------------------
(* CreateCompanyHandler *)

CreateAt(c, from, to) ==
    /\ createPc[c] = from
    /\ createPc' = [createPc EXCEPT ![c] = to]

CreateUnchanged == UNCHANGED <<registry, activities, profile, verifyPc, verifyMem, choosePc,
                               chooseMem, disturbed, changes>>

CheckUniqueness(c) ==
    /\ CreateAt(c, "check", IF company = None THEN "lookup" ELSE "refused")
    /\ CreateUnchanged
    /\ UNCHANGED <<company, createMem>>

\* The lookup never fails the creation: unavailable and failing lookups have a status.
Lookup(c) ==
    /\ CreateAt(c, "lookup", "save")
    /\ \E status \in {IF registry.found THEN "VERIFIED" ELSE "NOT_FOUND", "UNAVAILABLE", "ERROR"} :
          createMem' = [createMem EXCEPT ![c] = status]
    /\ CreateUnchanged
    /\ UNCHANGED company

\* Variant of SaveCompany: an upsert by identification number.
SaveCompanyOver(c) ==
    /\ CreateAt(c, "save", "created")
    /\ company' = createMem[c]
    /\ createMem' = [createMem EXCEPT ![c] = None]
    /\ CreateUnchanged

\* The unique key of tenant and identification number decides between two creators.
SaveCompany(c) ==
    /\ CreateAt(c, "save", IF company = None THEN "created" ELSE "refused")
    /\ company' = IF company = None THEN createMem[c] ELSE company
    /\ createMem' = [createMem EXCEPT ![c] = None]
    /\ CreateUnchanged

-----------------------------------------------------------------------------
(* VerifyCompanyTaxpayerHandler *)

VerifyAt(v, from, to) ==
    /\ verifyPc[v] = from
    /\ verifyPc' = [verifyPc EXCEPT ![v] = to]

\* What a call that ends has read is of no further use.
Forget(v) == verifyMem' = [verifyMem EXCEPT ![v] = Forgotten]

VerifyUnchanged == UNCHANGED <<registry, createPc, createMem, choosePc, chooseMem, changes>>

Ask(v) ==
    /\ company # None
    /\ VerifyAt(v, "ask", "persist")
    /\ verifyMem' = [verifyMem EXCEPT ![v].answer = registry]
    /\ VerifyUnchanged
    /\ UNCHANGED <<company, activities, profile, disturbed>>

\* Hacienda does not answer, or answers about somebody else: nothing is written.
AskFails(v) ==
    /\ company # None
    /\ VerifyAt(v, "ask", "done")
    /\ VerifyUnchanged
    /\ UNCHANGED <<company, activities, profile, verifyMem, disturbed>>

PersistNotFound(v) ==
    /\ ~verifyMem[v].answer.found
    /\ VerifyAt(v, "persist", "done")
    /\ company' = "NOT_FOUND"
    /\ Forget(v)
    /\ VerifyUnchanged
    /\ UNCHANGED <<activities, profile, disturbed>>

\* Variant of Updated: the activities Hacienda no longer returns stay as they were.
UpdatedReturned(answer) ==
    [c \in Codes |->
        IF answer.status[c] = None THEN activities[c]
        ELSE [status |-> answer.status[c],
              enabled |-> activities[c].status = None \/ activities[c].enabled]]

\* Variant of Updated: the upsert enables what it returns.
UpdatedEnabled(answer) ==
    [c \in Codes |->
        IF answer.status[c] # None THEN [status |-> answer.status[c], enabled |-> TRUE]
        ELSE IF activities[c].status = "A" THEN [activities[c] EXCEPT !.status = "I"]
        ELSE activities[c]]

\* Variant of Updated: the activities Hacienda no longer returns are deleted.
UpdatedReplacing(answer) ==
    [c \in Codes |->
        IF answer.status[c] = None THEN NoActivities[c]
        ELSE [status |-> answer.status[c],
              enabled |-> activities[c].status = None \/ activities[c].enabled]]

\* Returned activities are upserted, and enabled when they are new; those that were
\* active and are not returned become inactive.
Updated(answer) ==
    [c \in Codes |->
        IF answer.status[c] # None
        THEN [status |-> answer.status[c],
              enabled |-> activities[c].status = None \/ activities[c].enabled]
        ELSE IF activities[c].status = "A" THEN [activities[c] EXCEPT !.status = "I"]
        ELSE activities[c]]

PersistActivities(v) ==
    LET updated == Updated(verifyMem[v].answer) IN
    /\ verifyMem[v].answer.found
    /\ VerifyAt(v, "persist", "profile")
    /\ company' = "VERIFIED"
    /\ activities' = updated
    /\ verifyMem' = [verifyMem EXCEPT ![v].rows = updated]
    /\ disturbed' = disturbed \cup Deciding
    /\ VerifyUnchanged
    /\ UNCHANGED profile

ReadProfile(v) ==
    /\ VerifyAt(v, "profile", "default")
    /\ profile.exists
    /\ verifyMem' = [verifyMem EXCEPT ![v].profile = profile]
    /\ VerifyUnchanged
    /\ UNCHANGED <<company, activities, profile, disturbed>>

ReadNoProfile(v) ==
    /\ VerifyAt(v, "profile", "done")
    /\ ~profile.exists
    /\ Forget(v)
    /\ disturbed' = disturbed \ {v}
    /\ VerifyUnchanged
    /\ UNCHANGED <<company, activities, profile>>

Valid(rows, c) == c # None /\ rows[c].status = "A" /\ rows[c].enabled
ValidActive(rows) == {c \in Codes : Valid(rows, c)}

\* Variant of DefaultOf: an invalid default is left to the operator.
DefaultOfSingle(rows, before) ==
    IF \E c \in Codes : ValidActive(rows) = {c} /\ ~Valid(rows, before.default)
    THEN {[before EXCEPT !.default = c, !.code = c] : c \in ValidActive(rows)}
    ELSE {before}

\* DEC-002: a valid default stays; otherwise the single valid activity is taken,
\* or the default is cleared.
DefaultOf(rows, before) ==
    IF Valid(rows, before.default) THEN {before}
    ELSE IF \E c \in Codes : ValidActive(rows) = {c}
    THEN {[before EXCEPT !.default = c, !.code = c] : c \in ValidActive(rows)}
    ELSE {[before EXCEPT !.default = None]}

\* The decision is made on the rows and the profile read; only its fields are written.
SetDefault(v) ==
    LET before == verifyMem[v].profile IN
    /\ VerifyAt(v, "default", "done")
    /\ \E after \in DefaultOf(verifyMem[v].rows, before) :
          profile' = [profile EXCEPT
                        !.default = IF after.default = before.default THEN @ ELSE after.default,
                        !.code = IF after.default \in {before.default, None} THEN @ ELSE after.code]
    /\ disturbed' = (disturbed \cup (IF profile' = profile THEN {} ELSE ProfileRead)) \ {v}
    /\ Forget(v)
    /\ VerifyUnchanged
    /\ UNCHANGED <<company, activities>>

-----------------------------------------------------------------------------
(* The operator and Hacienda *)

OperatorUnchanged == UNCHANGED <<company, createPc, createMem, verifyPc, verifyMem>>

Change ==
    /\ changes < MaxChanges
    /\ changes' = changes + 1

\* SetDefaultEconomicActivityHandler: checked, then written by company.
ChooseRead(d) ==
    /\ choosePc[d] = "read"
    /\ \E c \in Codes :
          LET eligible == Valid(activities, c) /\ profile.exists IN
          /\ chooseMem' = [chooseMem EXCEPT ![d] = IF eligible THEN c ELSE None]
          /\ choosePc' = [choosePc EXCEPT ![d] = IF eligible THEN "write" ELSE "done"]
    /\ OperatorUnchanged
    /\ UNCHANGED <<registry, activities, profile, disturbed, changes>>

ChooseWrite(d) ==
    /\ choosePc[d] = "write"
    /\ choosePc' = [choosePc EXCEPT ![d] = "done"]
    /\ profile' = [profile EXCEPT !.default = chooseMem[d], !.code = chooseMem[d]]
    /\ chooseMem' = [chooseMem EXCEPT ![d] = None]
    /\ disturbed' = disturbed \cup ProfileRead
    /\ OperatorUnchanged
    /\ UNCHANGED <<registry, activities, changes>>

\* SetActivityBillingEnabledHandler leaves the default alone.
SetEnabled(c) ==
    /\ Change
    /\ activities[c].status # None
    /\ activities' = [activities EXCEPT ![c].enabled = ~@]
    /\ disturbed' = disturbed \cup Deciding
    /\ OperatorUnchanged
    /\ UNCHANGED <<registry, profile, choosePc, chooseMem>>

\* UpsertCompanyFiscalProfileHandler writes the legacy code, not the default.
UpsertProfile(c) ==
    /\ Change
    /\ company # None
    /\ profile' = [profile EXCEPT !.exists = TRUE, !.code = c]
    /\ OperatorUnchanged
    /\ UNCHANGED <<registry, activities, choosePc, chooseMem, disturbed>>

RegistryChanges ==
    /\ Change
    /\ registry' \in {[registry EXCEPT !.found = ~@]} \cup
          {[registry EXCEPT !.status[c] = s] : c \in Codes, s \in HaciendaStatus \cup {None}}
    /\ OperatorUnchanged
    /\ UNCHANGED <<activities, profile, choosePc, chooseMem, disturbed>>

Next ==
    \/ \E c \in Creators : CheckUniqueness(c) \/ Lookup(c) \/ SaveCompany(c)
    \/ \E v \in Verifications :
          Ask(v) \/ AskFails(v) \/ PersistNotFound(v) \/ PersistActivities(v)
          \/ ReadProfile(v) \/ ReadNoProfile(v) \/ SetDefault(v)
    \/ \E d \in Choosers : ChooseRead(d) \/ ChooseWrite(d)
    \/ \E c \in Codes : SetEnabled(c) \/ UpsertProfile(c)
    \/ RegistryChanges

Spec == Init /\ [][Next]_taxpayerVars
-----------------------------------------------------------------------------
(* FiscalReadinessService.evaluate, checks 8 and 9 *)

Exists(c) == activities[c].status # None

TaxpayerReady == company = "VERIFIED"
ActivitiesReady ==
    /\ \E c \in Codes : Exists(c)
    /\ IF profile.exists /\ profile.default # None THEN Valid(activities, profile.default)
       ELSE \E c \in Codes : ValidActive(activities) = {c}

(* Properties *)

\* However many requests create it at once, a company is created once, and the
\* request that is told so has written the status of its own lookup.
CreatedOnce ==
    /\ \A c, d \in Creators : createPc[c] = "created" /\ createPc[d] = "created" => c = d
    /\ company # None => \E c \in Creators : createPc[c] = "created"

\* The default is an activity the company has, and so is every activity a choice or a
\* verification has read and may yet make the default, whoever verifies in between:
\* "We do NOT delete them" (verify-company-taxpayer.handler.ts:163).
DefaultIsOwn ==
    /\ profile.default # None => profile.exists /\ Exists(profile.default)
    /\ \A d \in Choosers : choosePc[d] = "write" => Exists(chooseMem[d])
    /\ \A v \in Deciding, c \in Codes : verifyMem[v].rows[c].status # None => Exists(c)

\* A verification leaves the activities as Hacienda returned them, all others inactive,
\* and a default that is valid, or none when the operator has to choose: readiness counts
\* on it ("verification handler auto-selects").  Two overlaps are excepted: a write of
\* activities after its own, and a write of the default after it has read the profile.
VerificationIsComplete ==
    [][\A v \in Verifications :
          \/ verifyPc[v] = "done" \/ verifyPc'[v] # "done"
          \/ v \in disturbed \/ ~verifyMem[v].answer.found
          \/ /\ \A c \in Codes :
                   activities[c].status \in
                       {verifyMem[v].answer.status[c], IF Exists(c) THEN "I" ELSE None}
             /\ \A c \in Codes :
                   activities[c].status = "A" => verifyMem[v].answer.status[c] = "A"
             /\ (profile.default)' \in ValidActive(activities) \cup {None}
             /\ (profile.default)' = None /\ profile.exists => ~ActivitiesReady'
          ]_taxpayerVars

\* What the operator disabled is enabled by the operator alone: a verification may
\* run meanwhile and later, and finds the activity known.
OperatorDecides ==
    [][\A c \in Codes :
          (activities[c].status # None /\ ~activities[c].enabled /\ (activities[c].enabled)')
              => changes' = changes + 1]_taxpayerVars


\* A company is created once, and its default is an activity of its own.
TaxpayerInv == TypeOK /\ CreatedOnce /\ DefaultIsOwn

\* What a verification and the operator write is what each of them decides.
VerificationIsFaithful == VerificationIsComplete /\ OperatorDecides
=============================================================================
