----------------------------- MODULE IssuancePoints -----------------------------
(***************************************************************************)
(* The branches, terminals and issuance points of one company in one       *)
(* environment, and which point is the default: requests that create,      *)
(* activate, deactivate and select, each a check followed by a write.      *)
(***************************************************************************)
EXTENDS Naturals, FiniteSets

CONSTANTS
    Managers,    \* administration requests
    Branches,
    Terminals,
    BranchOf,    \* the branch of each terminal
    Legacy       \* the terminals with the default codes 001 and 00001

VARIABLES
    branch,      \* each branch: active or inactive
    terminal,    \* each terminal: none, active or inactive
    point,       \* its issuance point: exists, active, isDefault
    managePc, request,
    stale,       \* requests whose points were written since they were read
    crossed      \* history: a check was overtaken, or the legacy endpoint was used

pointVars == <<branch, terminal, point, managePc, request, stale, crossed>>

Missing == "NONE"

\* The terminals are finitely many, and none is the missing one.
ASSUME PointConstants ==
    /\ IsFiniteSet(Terminals) /\ Missing \notin Terminals
    /\ BranchOf \in [Terminals -> Branches] /\ Legacy \subseteq Terminals

NoPoint == [exists |-> FALSE, active |-> FALSE, isDefault |-> FALSE]
Operations == {"createTerminal", "deactivateBranch", "deactivateTerminal", "select"}
NoRequest == [operation |-> Missing, terminal |-> Missing]

PointsTypeOK ==
    /\ branch \in [Branches -> BOOLEAN]
    /\ terminal \in [Terminals -> {Missing, "active", "inactive"}]
    /\ point \in [Terminals -> [exists : BOOLEAN, active : BOOLEAN, isDefault : BOOLEAN]]
    /\ managePc \in [Managers -> {"idle", "write", "writePoint"}]
    /\ request \in [Managers ->
          [operation : Operations \cup {Missing}, terminal : Terminals \cup {Missing}]]
    /\ stale \subseteq Managers
    /\ crossed \in BOOLEAN

PointsInit ==
    /\ branch = [b \in Branches |-> TRUE]
    /\ terminal = [t \in Terminals |-> Missing]
    /\ point = [t \in Terminals |-> NoPoint]
    /\ managePc = [m \in Managers |-> "idle"]
    /\ request = [m \in Managers |-> NoRequest]
    /\ stale = {}
    /\ crossed = FALSE

BranchActive(t) == branch[BranchOf[t]]
Default(t) == point[t].active /\ point[t].isDefault
OfRequest(m) == request[m].terminal

\* Variant of Fits: without the index.
FitsAlways(points) == TRUE

\* The partial unique index: one active default.
Fits(points) ==
    Cardinality({t \in Terminals : points[t].active /\ points[t].isDefault}) <= 1

Ready(m) == {n \in Managers \ {m} : managePc[n] = "write"}

\* Variant of CheckPasses: the default is not looked at.
ChecksNothing(operation, t) ==
    CASE operation = "createTerminal"     -> BranchActive(t)
      [] operation = "deactivateBranch"   -> TRUE
      [] operation = "deactivateTerminal" -> terminal[t] # Missing
      [] operation = "select"             -> terminal[t] = "active" /\ BranchActive(t)

\* What each request reads before it writes.
CheckPasses(operation, t) ==
    CASE operation = "createTerminal"     -> BranchActive(t)
      [] operation = "deactivateBranch"   ->
            \A u \in Terminals : BranchOf[u] = BranchOf[t] => ~Default(u)
      [] operation = "deactivateTerminal" -> terminal[t] # Missing /\ ~Default(t)
      [] operation = "select"             -> terminal[t] = "active" /\ BranchActive(t)

Check(m, operation, t) ==
    /\ managePc[m] = "idle"
    /\ CheckPasses(operation, t)
    /\ managePc' = [managePc EXCEPT ![m] = "write"]
    /\ request' = [request EXCEPT ![m] = [operation |-> operation, terminal |-> t]]
    /\ stale' = stale \ {m}
    /\ UNCHANGED <<branch, terminal, point, crossed>>

Write(m, operation, to) ==
    /\ managePc[m] = "write" /\ request[m].operation = operation
    /\ managePc' = [managePc EXCEPT ![m] = to]
    /\ request' = IF to = "idle" THEN [request EXCEPT ![m] = NoRequest] ELSE request

\* A write that finds its check no longer true was overtaken.
Overtaken(m) ==
    crossed' = (crossed \/ ~CheckPasses(request[m].operation, OfRequest(m)))

\* createTerminal: the terminal keeps its state when it exists.
CreateTerminal(m) ==
    LET t == OfRequest(m) IN
    /\ Write(m, "createTerminal", "writePoint")
    /\ terminal' = [terminal EXCEPT ![t] = IF @ = Missing THEN "active" ELSE @]
    /\ Overtaken(m)
    /\ UNCHANGED <<branch, point, stale>>

\* Variant of CreatePoint: the point created is made the default.
CreatePointAsDefault(m) ==
    /\ managePc[m] = "writePoint"
    /\ managePc' = [managePc EXCEPT ![m] = "idle"]
    /\ request' = [request EXCEPT ![m] = NoRequest]
    /\ point' = [u \in Terminals |->
          IF u = OfRequest(m) THEN [exists |-> TRUE, active |-> TRUE, isDefault |-> TRUE]
          ELSE [point[u] EXCEPT !.isDefault = FALSE]]
    /\ stale' = stale \cup Ready(m)
    /\ UNCHANGED <<branch, terminal, crossed>>

\* ... and its point becomes active whatever the terminal is.
CreatePoint(m) ==
    LET t == OfRequest(m)
        created == [point EXCEPT ![t] = [exists |-> TRUE, active |-> TRUE,
                                         isDefault |-> point[t].isDefault]] IN
    /\ managePc[m] = "writePoint"
    /\ managePc' = [managePc EXCEPT ![m] = "idle"]
    /\ request' = [request EXCEPT ![m] = NoRequest]
    /\ point' = IF Fits(created) THEN created ELSE point
    /\ stale' = stale \cup Ready(m)
    /\ UNCHANGED <<branch, terminal, crossed>>

DeactivateBranch(m) ==
    /\ Write(m, "deactivateBranch", "idle")
    /\ branch' = [branch EXCEPT ![BranchOf[OfRequest(m)]] = FALSE]
    /\ Overtaken(m)
    /\ UNCHANGED <<terminal, point, stale>>

\* setTerminalActive(false): the terminal and its point in one transaction.
DeactivateTerminal(m) ==
    LET t == OfRequest(m) IN
    /\ Write(m, "deactivateTerminal", "idle")
    /\ terminal' = [terminal EXCEPT ![t] = "inactive"]
    /\ point' = [point EXCEPT ![t].active = FALSE]
    /\ stale' = stale \cup (IF point[t].exists THEN Ready(m) ELSE {})
    /\ Overtaken(m)
    /\ UNCHANGED branch

\* Activation checks nothing: one write.
ActivateBranch(b) ==
    /\ branch' = [branch EXCEPT ![b] = TRUE]
    /\ UNCHANGED <<terminal, point, managePc, request, stale, crossed>>

ActivateTerminal(m, t) ==
    LET activated == [point EXCEPT ![t].active = point[t].exists] IN
    /\ managePc[m] = "idle"
    /\ terminal[t] # Missing
    /\ Fits(activated)
    /\ terminal' = [terminal EXCEPT ![t] = "active"]
    /\ point' = activated
    /\ stale' = stale \cup Ready(m)
    /\ UNCHANGED <<branch, managePc, request, crossed>>

\* Variant of Selected: the previous default keeps its flag.
SelectedToo(t) == [point EXCEPT ![t] = [exists |-> TRUE, active |-> TRUE, isDefault |-> TRUE]]

\* The other defaults, active or not, lose the flag.
Selected(t) ==
    [u \in Terminals |->
        IF u = t THEN [exists |-> TRUE, active |-> TRUE, isDefault |-> TRUE]
        ELSE [point[u] EXCEPT !.isDefault = FALSE]]

SelectDefault(m) ==
    /\ Write(m, "select", "idle")
    /\ m \notin stale
    /\ Fits(Selected(OfRequest(m)))
    /\ point' = Selected(OfRequest(m))
    /\ stale' = stale \cup Ready(m)
    /\ Overtaken(m)
    /\ UNCHANGED <<branch, terminal>>

\* Points written since they were read: 409.
SelectConflicts(m) ==
    /\ Write(m, "select", "idle")
    /\ m \in stale
    /\ UNCHANGED <<branch, terminal, point, stale, crossed>>

\* ensureDefaultIssuancePoint: the point with the default codes, whatever its terminal.
EnsureDefault(m, t) ==
    LET ensured ==
            [point EXCEPT ![t] = [exists |-> TRUE, active |-> TRUE, isDefault |-> TRUE]] IN
    /\ managePc[m] = "idle"
    /\ Fits(ensured)
    /\ point' = ensured
    /\ stale' = stale \cup Ready(m)
    /\ crossed' = (crossed \/ terminal[t] # "active" \/ ~BranchActive(t)
                           \/ \E n \in Managers : managePc[n] # "idle")
    /\ UNCHANGED <<branch, terminal, managePc, request>>

PointsNext ==
    \/ \E m \in Managers :
          \/ \E operation \in Operations, t \in Terminals : Check(m, operation, t)
          \/ CreateTerminal(m) \/ CreatePoint(m) \/ DeactivateBranch(m)
          \/ DeactivateTerminal(m) \/ SelectDefault(m) \/ SelectConflicts(m)
          \/ \E t \in Terminals : ActivateTerminal(m, t)
          \/ \E t \in Legacy : EnsureDefault(m, t)
    \/ \E b \in Branches : ActivateBranch(b)

PointsSpec == PointsInit /\ [][PointsNext]_pointVars
-----------------------------------------------------------------------------
(* Properties *)

\* getDefaultIssuancePoint finds at most one point, whoever selects or activates.
OneActiveDefault == \A t, u \in Terminals : Default(t) /\ Default(u) => t = u

\* The default point belongs to an active terminal of an active branch, unless a
\* deactivation and a selection crossed between check and write, or the legacy
\* endpoint took a point whose terminal is not active.
DefaultIsOpen ==
    \A t \in Terminals :
        ~crossed /\ Default(t) => terminal[t] = "active" /\ BranchActive(t)

\* Request m ends in this step.
Ends(m, operation, t) ==
    /\ managePc[m] = "write" /\ managePc'[m] = "idle"
    /\ request[m] = [operation |-> operation, terminal |-> t]

\* The default point stays the default in every step but two: another one is selected and
\* takes its place, or its terminal is deactivated by a request whose check came before a
\* write of points (setTerminalActive does not look again).  No creation, activation,
\* branch deactivation or use of the legacy endpoint loses or moves it.
DefaultIsKept ==
    [][\A t \in Terminals : Default(t) =>
          \/ Default(t)'
          \/ \E m \in Managers, u \in Terminals \ {t} : Ends(m, "select", u) /\ Default(u)'
          \/ \E m \in stale : Ends(m, "deactivateTerminal", t)]_pointVars

\* A deactivation that was checked against the points as they are is not of the default.
ChecksHold ==
    \A m \in Managers \ stale :
        managePc[m] = "write" /\ request[m].operation = "deactivateTerminal"
            => ~Default(OfRequest(m))

\* A request in progress names its terminal, an active point exists, and a default
\* flag is only left on an active point.
FlagsAreRight ==
    /\ \A m \in Managers : managePc[m] # "idle" => request[m].terminal # Missing
    /\ \A t \in Terminals :
          /\ point[t].active => point[t].exists
          /\ ~crossed /\ point[t].isDefault => point[t].active

\* One default issuance point, of an open terminal.
PointInv ==
    /\ PointsTypeOK
    /\ FlagsAreRight
    /\ OneActiveDefault
    /\ DefaultIsOpen
    /\ ChecksHold
=============================================================================
