---------------------------- MODULE PlatformProofs ----------------------------
(***************************************************************************)
(* Proofs about what the fiscal flow stands on: HaciendaConnection, Access, *)
(* SecretStoreOperations, EncryptedFileSecrets, HaciendaCircuitBreaker,     *)
(* HaciendaAnswers, FiscalLookups, FiscalReadiness and the two PDFs, for    *)
(* any number of requests, processes, sessions, initialisers, references,   *)
(* writers, readers, calls, statuses, rows and lines, any limits and any    *)
(* number of faults.                                                        *)
(***************************************************************************)
EXTENDS MCPlatform, FiniteSetTheorems, WellFoundedInduction, TLAPS

-----------------------------------------------------------------------------
(* HaciendaConnection: one row, immutable secrets, a token cache per process *)

\* What a request holds: the row it read, and for a configuration the secret it stored.
MemoryInOrder(q) ==
    /\ requestPc[q] = "begin" => memory[q] = Connection!NoMemory
    /\ requestPc[q] = "asking" => memory[q].kind \in {"validate", "use"}
    /\ requestPc[q] = "saving" =>
          /\ memory[q].kind \in {"configure", "validate", "disable"}
          /\ memory[q].kind = "validate" => memory[q].result # "none"
    /\ memory[q].kind \in {"validate", "disable", "use"} =>
          memory[q].row.reference \in Requests /\ memory[q].row.status # "DISABLED"
    /\ memory[q].kind = "configure" => secret[q] = memory[q].credentials /\ secret[q] # <<0, 0>>
    /\ memory[q].partial => memory[q].row # Connection!NoRow
    /\ memory[q].restore =>
          memory[q].kind = "configure" /\ memory[q].row.status = "CONNECTED"
    /\ memory[q].result = "CONNECTED" =>
          memory[q].kind = "validate" /\ secret[memory[q].row.reference] \in MatchingPairs
    /\ memory[q].row = Connection!NoRow \/ memory[q].row.stamp > 0

\* A reference is named by a row once its request has saved it; its secret is immutable.
Named(q) == row.reference = q \/ \E r \in Requests : memory[r].row.reference = q
NamedAreSaved ==
    \A q \in Requests :
        Named(q) => memory[q].kind = "configure" /\ requestPc[q] \in {"invalidating", "done"}

\* The stamp of the row grows, and tells its versions apart unless two saves were tied.
StampsGrow ==
    /\ row.stamp <= now
    /\ \/ row = Connection!NoRow
       \/ row.status # "NONE" /\ row.reference \in Requests /\ row.stamp > 0
    /\ ~tied => \A q \in Requests :
                   /\ memory[q].row.stamp <= row.stamp
                   /\ memory[q].row.stamp = row.stamp => memory[q].row = row

RequestsInOrder ==
    /\ StampsGrow /\ NamedAreSaved /\ \A q \in Requests : MemoryInOrder(q)
    /\ Connection!ConnectedIsAccepted /\ Connection!HalvesBelongTogether

ConnectionOrder == Connection!TypeOK /\ RequestsInOrder /\ Connection!RotationDropsToken

\* The credentials a configuration stores: the given ones, over those of the row.
LEMMA MergedCredentials ==
    ASSUME NEW given \in Connection!Credentials, NEW previous \in Connection!Credentials,
           given # <<0, 0>>
    PROVE  /\ Connection!Merged(given, previous) \in Connection!Credentials
           /\ Connection!Merged(given, previous) # <<0, 0>>
BY DEF Connection!Credentials, Connection!Merged

LEMMA NothingIsTyped ==
    /\ Connection!NoRow \in Connection!Row /\ Connection!NoMemory \in Connection!Memory
    /\ Connection!None \in Connection!Credentials /\ Connection!None = <<0, 0>>
    /\ Connection!NoMemory.row = Connection!NoRow /\ Connection!NoRow.reference = "none"
    /\ Connection!NoRow.stamp = 0 /\ Connection!NoRow.status = "NONE"
    /\ Connection!NoMemory.kind = "none" /\ ~Connection!NoMemory.restore
    /\ Connection!NoMemory.result = "none" /\ ~Connection!NoMemory.partial
<1>1. (CHOOSE p \in Processes : TRUE) \in Processes
  BY PlatformConstants
<1>2. Connection!None \in Connection!Credentials /\ Connection!None = <<0, 0>>
  BY DEF Connection!None, Connection!Credentials
<1>3. Connection!NoRow \in Connection!Row
  BY PlatformConstants DEF Connection!NoRow, Connection!Row, Connection!NoReference
<1> QED
  BY <1>1, <1>2, <1>3 DEF Connection!NoMemory, Connection!Memory, Connection!NoRow,
     Connection!NoReference

\* What each step writes: the memory of one request, its secret, and a token.
LEMMA StoresSecret ==
    ASSUME ConnectionOrder, NEW q \in Requests, NEW p \in Processes,
           Connection!FindAndStoreSecret(q, p)
    PROVE  \E m \in Connection!Memory, c \in Connection!Credentials :
              /\ memory' = [memory EXCEPT ![q] = m] /\ secret' = [secret EXCEPT ![q] = c]
              /\ m.kind = "configure" /\ m.row = row /\ m.credentials = c /\ c # <<0, 0>>
              /\ m.result = "none" /\ (m.partial => row # Connection!NoRow)
              /\ m.restore => row.status = "CONNECTED"
              /\ requestPc[q] = "begin" /\ requestPc' = [requestPc EXCEPT ![q] = "saving"]
              /\ UNCHANGED <<row, now, cache, restored, rotatedIn, late, tied, mixed>>
<1>1. PICK given \in (Parts \cup {0}) \X (Parts \cup {0}), restore \in BOOLEAN :
         /\ given # Connection!None /\ (row.status = "NONE" => 0 \notin {given[1], given[2]})
         /\ restore => row.status = "CONNECTED"
         /\ LET c == Connection!Merged(given, Connection!RowCredentials) IN
            /\ secret' = [secret EXCEPT ![Connection!NewReference(q, row)] = c]
            /\ memory' = [memory EXCEPT ![q] =
                  [Connection!NoMemory EXCEPT !.kind = "configure", !.process = p, !.row = row,
                       !.credentials = c, !.restore = restore,
                       !.partial = 0 \in {given[1], given[2]}]]
  BY DEF Connection!FindAndStoreSecret
<1> DEFINE c == Connection!Merged(given, Connection!RowCredentials)
           half == 0 \in {given[1], given[2]}
           m == [Connection!NoMemory EXCEPT !.kind = "configure", !.process = p, !.row = row,
                    !.credentials = c, !.restore = restore, !.partial = half]
<1>2. Connection!RowCredentials \in Connection!Credentials
  BY NothingIsTyped DEF ConnectionOrder, Connection!TypeOK, Connection!RowCredentials,
     Connection!Row
<1>3. c \in Connection!Credentials /\ c # <<0, 0>>
  BY <1>1, <1>2, MergedCredentials, NothingIsTyped DEF Connection!Credentials
<1>9. half \in BOOLEAN /\ (half => row # Connection!NoRow)
  BY <1>1, NothingIsTyped
<1> HIDE DEF c, half
<1>4. row \in Connection!Row
  BY DEF ConnectionOrder, Connection!TypeOK
<1>5. /\ m \in Connection!Memory /\ m.kind = "configure" /\ m.row = row /\ m.credentials = c
      /\ m.result = "none" /\ m.partial = half /\ m.restore = restore
  BY <1>3, <1>4, <1>9, NothingIsTyped DEF Connection!Memory
<1>6. (m.partial => row # Connection!NoRow) /\ (m.restore => row.status = "CONNECTED")
  BY <1>1, <1>5, <1>9
<1>7. /\ memory' = [memory EXCEPT ![q] = m] /\ secret' = [secret EXCEPT ![q] = c]
  BY <1>1 DEF c, half, Connection!NewReference
<1>8. /\ requestPc[q] = "begin" /\ requestPc' = [requestPc EXCEPT ![q] = "saving"]
      /\ UNCHANGED <<row, now, cache, restored, rotatedIn, late, tied, mixed>>
  BY DEF Connection!FindAndStoreSecret
<1> HIDE DEF m
<1> QED
  BY <1>3, <1>5, <1>6, <1>7, <1>8

LEMMA FindsRow ==
    ASSUME ConnectionOrder, NEW q \in Requests, NEW p \in Processes,
           NEW kind \in {"validate", "disable", "use"}, Connection!Find(q, p, kind)
    PROVE  \E m \in Connection!Memory :
              /\ memory' = [memory EXCEPT ![q] = m]
              /\ m.kind = kind /\ m.row = row /\ m.result = "none" /\ ~m.partial /\ ~m.restore
              /\ requestPc[q] = "begin" /\ row.reference \in Requests
              /\ row.status # "DISABLED" /\ row.stamp > 0
              /\ requestPc' = [requestPc EXCEPT ![q] = IF kind = "disable" THEN "saving"
                                                       ELSE "asking"]
              /\ UNCHANGED <<row, secret, now, cache, restored, rotatedIn, late, tied, mixed>>
<1> DEFINE m == [Connection!NoMemory EXCEPT !.kind = kind, !.process = p, !.row = row]
<1>1. row \in Connection!Row
  BY DEF ConnectionOrder, Connection!TypeOK
<1>2. /\ m \in Connection!Memory /\ m.kind = kind /\ m.row = row /\ m.result = "none"
      /\ ~m.partial /\ ~m.restore
  BY <1>1, NothingIsTyped DEF Connection!Memory
<1>3. row.status \notin {"NONE", "DISABLED"} /\ memory' = [memory EXCEPT ![q] = m]
  BY DEF Connection!Find
<1>4. row.reference \in Requests /\ row.stamp > 0
  BY <1>3, NothingIsTyped DEF ConnectionOrder, RequestsInOrder, StampsGrow
<1>5. /\ requestPc[q] = "begin"
      /\ requestPc' = [requestPc EXCEPT ![q] = IF kind = "disable" THEN "saving" ELSE "asking"]
      /\ UNCHANGED <<row, secret, now, cache, restored, rotatedIn, late, tied, mixed>>
  BY DEF Connection!Find
<1> HIDE DEF m
<1> QED
  BY <1>2, <1>3, <1>4, <1>5

LEMMA AsksHacienda ==
    ASSUME ConnectionOrder, NEW q \in Requests, Connection!Ask(q)
    PROVE  \E m \in Connection!Memory :
              /\ memory' = [memory EXCEPT ![q] = m]
              /\ m.kind = "validate" /\ m.row = memory[q].row /\ m.process = memory[q].process
              /\ m.result # "none" /\ m.partial = memory[q].partial
              /\ m.restore = memory[q].restore
              /\ m.result = "CONNECTED" => m.credentials \in MatchingPairs
              /\ m.credentials = secret[m.row.reference] /\ m.credentials \in Connection!Credentials
              /\ requestPc[q] = "asking" /\ memory[q].kind = "validate"
              /\ requestPc' = [requestPc EXCEPT ![q] = "saving"]
              /\ UNCHANGED <<row, secret, now, restored, rotatedIn, tied, mixed>>
              /\ \/ UNCHANGED <<cache, late>>
                 \/ Connection!SetToken(m.process, m.credentials)
<1> DEFINE c == secret[memory[q].row.reference]
<1>0. memory[q] \in Connection!Memory /\ memory[q].kind = "validate" /\ requestPc[q] = "asking"
  BY DEF ConnectionOrder, Connection!TypeOK, Connection!Ask
<1>1. c \in Connection!Credentials
  BY <1>0 DEF ConnectionOrder, RequestsInOrder, MemoryInOrder, Connection!TypeOK
<1>2. PICK result \in {"CONNECTED", "INVALID_CREDENTIALS", "UNAVAILABLE"} :
         /\ result = "CONNECTED" => c \in MatchingPairs
         /\ memory' = [memory EXCEPT ![q].credentials = c, ![q].result = result]
         /\ IF result = "CONNECTED"
            THEN Connection!SetToken(memory[q].process, c) ELSE UNCHANGED <<cache, late>>
  BY DEF Connection!Ask
<1> HIDE DEF c
<1> DEFINE m == [memory[q] EXCEPT !.credentials = c, !.result = result]
<1>3. /\ m \in Connection!Memory /\ m.kind = "validate" /\ m.row = memory[q].row
      /\ m.process = memory[q].process /\ m.result = result /\ m.partial = memory[q].partial
      /\ m.restore = memory[q].restore /\ m.credentials = c
  BY <1>0, <1>1 DEF Connection!Memory
<1>4. memory' = [memory EXCEPT ![q] = m]
  BY <1>2 DEF ConnectionOrder, Connection!TypeOK
<1>5. /\ requestPc' = [requestPc EXCEPT ![q] = "saving"]
      /\ UNCHANGED <<row, secret, now, restored, rotatedIn, tied, mixed>>
  BY DEF Connection!Ask
<1>6. c = secret[m.row.reference]
  BY <1>3 DEF c
<1> HIDE DEF m
<1> QED
  BY <1>0, <1>1, <1>2, <1>3, <1>4, <1>5, <1>6

\* A process keeps no token of replaced credentials while each step writes the row's or
\* none, or is counted as late.
LEMMA TokensKept ==
    ASSUME Connection!RotationDropsToken,
           row' = row, Connection!RowCredentials' = Connection!RowCredentials,
           rotatedIn' = rotatedIn, tied' = tied, rotatedIn \subseteq Processes,
           \A p \in Processes :
              \/ cache'[p] = Connection!None \/ p \in late'
              \/ cache'[p] = Connection!RowCredentials /\ row.status # "DISABLED"
              \/ /\ cache'[p] = cache[p] /\ (p \in late => p \in late')
                 /\ \A q \in Requests :
                       requestPc[q] = "invalidating" /\ memory[q].process = p =>
                       requestPc'[q] = "invalidating" /\ memory'[q].process = p
    PROVE  Connection!RotationDropsToken'
BY DEF Connection!RotationDropsToken, Connection!None

\* What a request ends with leaves the rest in order.
LEMMA EndingKeeps ==
    ASSUME ConnectionOrder,
           UNCHANGED <<row, secret, now, memory, restored, rotatedIn, tied, mixed>>,
           \A q \in Requests : requestPc'[q] = requestPc[q] \/ requestPc'[q] = "done"
    PROVE  RequestsInOrder'
<1>1. StampsGrow' /\ NamedAreSaved'
  BY DEF ConnectionOrder, RequestsInOrder, StampsGrow, NamedAreSaved, Named
<1>2. \A q \in Requests : MemoryInOrder(q)'
  BY DEF ConnectionOrder, RequestsInOrder, MemoryInOrder
<1>3. Connection!ConnectedIsAccepted' /\ Connection!HalvesBelongTogether'
  BY DEF ConnectionOrder, RequestsInOrder, Connection!ConnectedIsAccepted,
     Connection!HalvesBelongTogether, Connection!RowCredentials
<1> QED
  BY <1>1, <1>2, <1>3 DEF RequestsInOrder

\* A request that reads the row, or asks, remembers it in order.
LEMMA ReadingKeeps ==
    ASSUME ConnectionOrder, UNCHANGED <<row, now, restored, rotatedIn, tied, mixed>>,
           NEW q \in Requests, NEW m \in Connection!Memory,
           memory' = [memory EXCEPT ![q] = m], requestPc[q] \in {"begin", "asking"},
           m.row \in {row, memory[q].row},
           \A r \in Requests : r # q => requestPc'[r] = requestPc[r] /\ secret'[r] = secret[r],
           secret'[q] = secret[q] \/ requestPc[q] = "begin",
           MemoryInOrder(q)'
    PROVE  RequestsInOrder'
<1> DEFINE Memory == Connection!Memory
<1>9. memory \in [Requests -> Memory] /\ Connection!TypeOK
  BY DEF ConnectionOrder, Connection!TypeOK
<1> HIDE DEF Memory
<1>0. memory'[q] = m /\ \A r \in Requests : r # q => memory'[r] = memory[r]
  BY <1>9
<1>1. StampsGrow'
  <2>1. row.stamp \in Int
    BY <1>9, PlatformConstants DEF Connection!TypeOK, Connection!Row
  <2> QED
    BY <1>0, <2>1 DEF ConnectionOrder, RequestsInOrder, StampsGrow
<1>2. ~Named(q) /\ \A r \in Requests : Named(r)' => Named(r)
  BY <1>0 DEF ConnectionOrder, RequestsInOrder, NamedAreSaved, Named
<1>3. NamedAreSaved'
  BY <1>0, <1>2 DEF ConnectionOrder, RequestsInOrder, NamedAreSaved
<1>4. ASSUME NEW r \in Requests, r # q PROVE MemoryInOrder(r)'
  <2>1. MemoryInOrder(r) /\ memory'[r] = memory[r] /\ requestPc'[r] = requestPc[r]
    BY <1>0, <1>4 DEF ConnectionOrder, RequestsInOrder
  <2>2. secret'[r] = secret[r] /\ memory[r].row.reference # q
    BY <1>2, <1>4 DEF Named
  <2>3. memory[r].kind = "validate" =>
           secret'[memory[r].row.reference] = secret[memory[r].row.reference]
    BY <2>1, <2>2 DEF MemoryInOrder
  <2> QED
    BY <2>1, <2>2, <2>3 DEF MemoryInOrder
<1>5. row.reference # q /\ Connection!RowCredentials' = Connection!RowCredentials
  <2>1. row.reference # q
    BY <1>2 DEF Named
  <2>2. row.reference \in Requests \cup {Connection!NoReference}
    BY <1>9 DEF Connection!TypeOK, Connection!Row
  <2> QED
    BY <2>1, <2>2 DEF Connection!RowCredentials
<1>6. Connection!ConnectedIsAccepted' /\ Connection!HalvesBelongTogether'
  BY <1>5 DEF ConnectionOrder, RequestsInOrder, Connection!ConnectedIsAccepted,
     Connection!HalvesBelongTogether
<1> QED
  BY <1>1, <1>3, <1>4, <1>6 DEF RequestsInOrder

\* Every step but Save keeps the order: it reads the row, or ends a request.
LEMMA ReadingStep ==
    ASSUME ConnectionOrder, NEW q \in Requests,
           \/ \E p \in Processes : Connection!FindAndStoreSecret(q, p)
           \/ \E p \in Processes, kind \in {"validate", "disable", "use"} :
                 Connection!Find(q, p, kind)
           \/ Connection!Ask(q)
    PROVE  ConnectionOrder'
<1>0. /\ Connection!TypeOK /\ MemoryInOrder(q) /\ Connection!RotationDropsToken
      /\ memory \in [Requests -> Connection!Memory]
      /\ requestPc \in [Requests -> {"begin", "asking", "saving", "invalidating", "done"}]
      /\ secret \in [Requests -> Connection!Credentials]
      /\ row \in Connection!Row /\ cache \in [Processes -> Connection!Credentials]
      /\ late \subseteq Processes /\ rotatedIn \subseteq Processes
  BY DEF ConnectionOrder, RequestsInOrder, Connection!TypeOK
<1>1. ASSUME NEW p \in Processes, Connection!FindAndStoreSecret(q, p) PROVE ConnectionOrder'
  <2>1. PICK m \in Connection!Memory, c \in Connection!Credentials :
           /\ memory' = [memory EXCEPT ![q] = m] /\ secret' = [secret EXCEPT ![q] = c]
           /\ m.kind = "configure" /\ m.row = row /\ m.credentials = c /\ c # <<0, 0>>
           /\ m.result = "none" /\ (m.partial => row # Connection!NoRow)
           /\ m.restore => row.status = "CONNECTED"
           /\ requestPc[q] = "begin" /\ requestPc' = [requestPc EXCEPT ![q] = "saving"]
           /\ UNCHANGED <<row, now, cache, restored, rotatedIn, late, tied, mixed>>
    BY <1>1, StoresSecret
  <2>2. /\ memory'[q] = m /\ secret'[q] = c /\ requestPc'[q] = "saving"
        /\ \A r \in Requests : r # q => /\ memory'[r] = memory[r] /\ secret'[r] = secret[r]
                                        /\ requestPc'[r] = requestPc[r]
    BY <1>0, <2>1
  <2>3. MemoryInOrder(q)'
    BY <2>1, <2>2 DEF MemoryInOrder, ConnectionOrder, RequestsInOrder, StampsGrow
  <2>4. RequestsInOrder'
    BY <2>1, <2>2, <2>3, ReadingKeeps
  <2>5. Connection!RowCredentials' = Connection!RowCredentials
    <3>1. row.reference # q
      BY <2>1 DEF ConnectionOrder, RequestsInOrder, NamedAreSaved, Named
    <3>2. row.reference \in Requests \cup {Connection!NoReference}
      BY <1>0 DEF Connection!Row
    <3> QED
      BY <2>1, <2>2, <3>1, <3>2 DEF Connection!RowCredentials
  <2>6. Connection!RotationDropsToken'
    BY <1>0, <2>1, <2>2, <2>5, TokensKept
  <2>7. Connection!TypeOK'
    BY <1>0, <2>1 DEF Connection!TypeOK
  <2> QED
    BY <2>4, <2>6, <2>7 DEF ConnectionOrder
<1>2. ASSUME NEW p \in Processes, NEW kind \in {"validate", "disable", "use"},
             Connection!Find(q, p, kind)
      PROVE  ConnectionOrder'
  <2>1. PICK m \in Connection!Memory :
           /\ memory' = [memory EXCEPT ![q] = m]
           /\ m.kind = kind /\ m.row = row /\ m.result = "none" /\ ~m.partial /\ ~m.restore
           /\ requestPc[q] = "begin" /\ row.reference \in Requests
           /\ row.status # "DISABLED" /\ row.stamp > 0
           /\ requestPc' = [requestPc EXCEPT ![q] = IF kind = "disable" THEN "saving"
                                                    ELSE "asking"]
           /\ UNCHANGED <<row, secret, now, cache, restored, rotatedIn, late, tied, mixed>>
    BY <1>2, FindsRow
  <2>2. /\ memory'[q] = m /\ requestPc'[q] = (IF kind = "disable" THEN "saving" ELSE "asking")
        /\ \A r \in Requests : r # q => /\ memory'[r] = memory[r] /\ secret'[r] = secret[r]
                                        /\ requestPc'[r] = requestPc[r]
    BY <1>0, <2>1
  <2>3. MemoryInOrder(q)'
    BY <2>1, <2>2 DEF MemoryInOrder
  <2>4. RequestsInOrder'
    BY <2>1, <2>2, <2>3, ReadingKeeps
  <2>5. Connection!RowCredentials' = Connection!RowCredentials
    BY <2>1 DEF Connection!RowCredentials
  <2>6. Connection!RotationDropsToken'
    BY <1>0, <2>1, <2>2, <2>5, TokensKept
  <2>7. Connection!TypeOK'
    BY <1>0, <2>1 DEF Connection!TypeOK
  <2> QED
    BY <2>4, <2>6, <2>7 DEF ConnectionOrder
<1>3. CASE Connection!Ask(q)
  <2>1. PICK m \in Connection!Memory :
           /\ memory' = [memory EXCEPT ![q] = m]
           /\ m.kind = "validate" /\ m.row = memory[q].row /\ m.process = memory[q].process
           /\ m.result # "none" /\ m.partial = memory[q].partial
           /\ m.restore = memory[q].restore
           /\ m.result = "CONNECTED" => m.credentials \in MatchingPairs
           /\ m.credentials = secret[m.row.reference] /\ m.credentials \in Connection!Credentials
           /\ requestPc[q] = "asking" /\ memory[q].kind = "validate"
           /\ requestPc' = [requestPc EXCEPT ![q] = "saving"]
           /\ UNCHANGED <<row, secret, now, restored, rotatedIn, tied, mixed>>
           /\ \/ UNCHANGED <<cache, late>>
              \/ Connection!SetToken(m.process, m.credentials)
    BY <1>3, AsksHacienda
  <2>2. /\ memory'[q] = m /\ requestPc'[q] = "saving"
        /\ \A r \in Requests : r # q => /\ memory'[r] = memory[r] /\ secret'[r] = secret[r]
                                        /\ requestPc'[r] = requestPc[r]
    BY <1>0, <2>1
  <2>3. MemoryInOrder(q)'
    BY <1>0, <2>1, <2>2 DEF MemoryInOrder
  <2>4. RequestsInOrder'
    BY <2>1, <2>2, <2>3, ReadingKeeps
  <2>5. Connection!RowCredentials' = Connection!RowCredentials
    BY <2>1 DEF Connection!RowCredentials
  <2>8. m.process \in Processes
    BY DEF Connection!Memory
  <2>9. /\ cache' \in [Processes -> Connection!Credentials] /\ late' \subseteq Processes
        /\ \A p \in Processes :
              \/ p \in late' \/ (cache'[p] = Connection!RowCredentials /\ row.status # "DISABLED")
              \/ cache'[p] = cache[p] /\ (p \in late => p \in late')
    BY <1>0, <2>1, <2>8 DEF Connection!SetToken
  <2>6. Connection!RotationDropsToken'
    BY <1>0, <2>1, <2>2, <2>5, <2>9, TokensKept
  <2>7. Connection!TypeOK'
    BY <1>0, <2>1, <2>9 DEF Connection!TypeOK
  <2> QED
    BY <2>4, <2>6, <2>7 DEF ConnectionOrder
<1> QED
  BY <1>1, <1>2, <1>3

LEMMA EndingStep ==
    ASSUME ConnectionOrder,
           \/ \E q \in Requests, p \in Processes : Connection!DisableAgain(q, p)
           \/ \E q \in Requests : \/ Connection!SaveConflicts(q) \/ Connection!Invalidate(q)
                                  \/ Connection!Authenticate(q)
           \/ \E p \in Processes : Connection!ExpireToken(p)
    PROVE  ConnectionOrder'
<1>0. /\ Connection!TypeOK /\ RequestsInOrder /\ Connection!RotationDropsToken
      /\ memory \in [Requests -> Connection!Memory]
      /\ requestPc \in [Requests -> {"begin", "asking", "saving", "invalidating", "done"}]
      /\ secret \in [Requests -> Connection!Credentials]
      /\ cache \in [Processes -> Connection!Credentials]
      /\ late \subseteq Processes /\ rotatedIn \subseteq Processes
      /\ Connection!None \in Connection!Credentials
      /\ \A q \in Requests : memory[q].process \in Processes
  BY NothingIsTyped DEF ConnectionOrder, Connection!TypeOK, Connection!Memory
\* What is left of the invariant once the token is accounted for.
<1>1. ASSUME UNCHANGED <<row, secret, now, memory, restored, rotatedIn, tied, mixed>>,
             requestPc' \in [Requests -> {"begin", "asking", "saving", "invalidating", "done"}],
             \A q \in Requests : requestPc'[q] = requestPc[q] \/ requestPc'[q] = "done",
             cache' \in [Processes -> Connection!Credentials], late' \subseteq Processes,
             \A p \in Processes :
                \/ cache'[p] = Connection!None \/ p \in late'
                \/ cache'[p] = Connection!RowCredentials /\ row.status # "DISABLED"
                \/ /\ cache'[p] = cache[p] /\ (p \in late => p \in late')
                   /\ \A q \in Requests :
                         requestPc[q] = "invalidating" /\ memory[q].process = p =>
                         requestPc'[q] = "invalidating"
      PROVE  ConnectionOrder'
  <2>1. RequestsInOrder'
    BY <1>1, EndingKeeps
  <2>2. Connection!RowCredentials' = Connection!RowCredentials
    BY <1>1 DEF Connection!RowCredentials
  <2>3. Connection!RotationDropsToken'
    BY <1>0, <1>1, <2>2, TokensKept
  <2>4. Connection!TypeOK'
    BY <1>0, <1>1 DEF Connection!TypeOK
  <2> QED
    BY <2>1, <2>3, <2>4 DEF ConnectionOrder
<1>2. ASSUME NEW q \in Requests, NEW p \in Processes, Connection!DisableAgain(q, p)
      PROVE  ConnectionOrder'
  <2>1. UNCHANGED <<row, secret, now, memory, restored, rotatedIn, tied, mixed>>
    BY <1>2 DEF Connection!DisableAgain
  <2> QED
    BY <1>0, <1>1, <1>2, <2>1 DEF Connection!DisableAgain
<1>3. ASSUME NEW q \in Requests, Connection!SaveConflicts(q) PROVE ConnectionOrder'
  <2>1. UNCHANGED <<row, secret, now, memory, cache, restored, rotatedIn, late, tied, mixed>>
    BY <1>3 DEF Connection!SaveConflicts
  <2>2. requestPc[q] = "saving" /\ requestPc' = [requestPc EXCEPT ![q] = "done"]
    BY <1>3 DEF Connection!SaveConflicts
  <2> QED
    BY <1>0, <1>1, <2>1, <2>2
<1>4. ASSUME NEW q \in Requests, Connection!Invalidate(q) PROVE ConnectionOrder'
  <2>1. UNCHANGED <<row, secret, now, memory, restored, rotatedIn, late, tied, mixed>>
    BY <1>4 DEF Connection!Invalidate
  <2>2. /\ requestPc' = [requestPc EXCEPT ![q] = "done"]
        /\ cache' = [cache EXCEPT ![memory[q].process] = Connection!None]
    BY <1>4 DEF Connection!Invalidate, Connection!Invalidated
  <2> QED
    BY <1>0, <1>1, <2>1, <2>2
<1>5. ASSUME NEW q \in Requests, Connection!Authenticate(q) PROVE ConnectionOrder'
  <2> DEFINE p == memory[q].process  c == secret[memory[q].row.reference]
  <2>1. UNCHANGED <<row, secret, now, memory, restored, rotatedIn, tied, mixed>>
    BY <1>5 DEF Connection!Authenticate
  <2>2. /\ requestPc[q] = "asking" /\ requestPc' = [requestPc EXCEPT ![q] = "done"]
        /\ UNCHANGED <<cache, late>> \/ Connection!SetToken(p, c)
    BY <1>5 DEF Connection!Authenticate
  <2>3. c \in Connection!Credentials
    BY <1>0, <1>5 DEF RequestsInOrder, MemoryInOrder, Connection!Authenticate
  <2>4. p \in Processes
    BY <1>0
  <2> HIDE DEF p, c
  <2>5. /\ cache' \in [Processes -> Connection!Credentials] /\ late' \subseteq Processes
        /\ \A r \in Processes :
              \/ r \in late' \/ (cache'[r] = Connection!RowCredentials /\ row.status # "DISABLED")
              \/ cache'[r] = cache[r] /\ (r \in late => r \in late')
    BY <1>0, <2>2, <2>3, <2>4 DEF Connection!SetToken
  <2> QED
    BY <1>0, <1>1, <2>1, <2>2, <2>5
<1>6. ASSUME NEW p \in Processes, Connection!ExpireToken(p) PROVE ConnectionOrder'
  <2>1. UNCHANGED <<row, secret, now, requestPc, memory, restored, rotatedIn, tied, mixed>>
    BY <1>6 DEF Connection!ExpireToken
  <2> QED
    BY <1>0, <1>1, <1>6, <2>1 DEF Connection!ExpireToken
<1> QED
  BY <1>2, <1>3, <1>4, <1>5, <1>6

\* What a save writes: the row its request goes on from, under a newer stamp.
LEMMA SavesRow ==
    ASSUME ConnectionOrder, NEW q \in Requests, Connection!Save(q)
    PROVE  /\ row' \in Connection!Row /\ row'.status # "NONE" /\ row'.stamp > 0
           /\ now' \in 0..MaxStamp /\ row.stamp <= now /\ now <= now' /\ row'.stamp = now'
           /\ row'.reference \in Requests
           /\ memory[q].kind \in {"configure", "validate", "disable"}
           /\ memory[q].kind = "configure" =>
                 row'.reference = q /\ (row'.status = "CONNECTED" => memory[q].restore)
           /\ memory[q].kind = "validate" =>
                 /\ row'.reference = memory[q].row.reference
                 /\ row'.status = memory[q].result /\ row'.status # "DISABLED"
           /\ memory[q].kind = "disable" =>
                 row'.reference = memory[q].row.reference /\ row'.status = "DISABLED"
<1>0. /\ memory[q] \in Connection!Memory /\ memory[q].row \in Connection!Row
      /\ row \in Connection!Row /\ now \in 0..MaxStamp /\ MaxStamp \in Nat
      /\ MemoryInOrder(q) /\ requestPc[q] = "saving" /\ row.stamp <= now
  BY PlatformConstants DEF ConnectionOrder, RequestsInOrder, StampsGrow, Connection!TypeOK,
     Connection!Memory, Connection!Save
<1>1. PICK stamp \in {now, now + 1} :
         /\ stamp <= MaxStamp /\ stamp > 0 /\ now' = stamp
         /\ row' = Connection!Written(q, stamp)
  BY DEF Connection!Save
<1>2. stamp \in 0..MaxStamp
  BY <1>0, <1>1
<1>3. memory[q].kind \in {"configure", "validate", "disable"}
  BY <1>0 DEF MemoryInOrder
<1>4. CASE memory[q].kind = "configure"
  <2>1. row' = [status |-> IF memory[q].restore THEN memory[q].row.status
                           ELSE "PENDING_VALIDATION",
                reference |-> q, stamp |-> stamp]
    BY <1>1, <1>4 DEF Connection!Written, Connection!NewReference
  <2>2. memory[q].restore => memory[q].row.status # "NONE"
    BY <1>0 DEF MemoryInOrder
  <2> QED
    BY <1>0, <1>1, <1>2, <1>4, <2>1, <2>2 DEF Connection!Row
<1>5. CASE memory[q].kind = "validate"
  <2>1. row' = [memory[q].row EXCEPT !.status = memory[q].result, !.stamp = stamp]
    BY <1>1, <1>5 DEF Connection!Written
  <2>2. /\ memory[q].result \in {"CONNECTED", "INVALID_CREDENTIALS", "UNAVAILABLE"}
        /\ memory[q].row.reference \in Requests
    BY <1>0, <1>5 DEF MemoryInOrder, Connection!Memory
  <2>3. row' \in Connection!Row /\ row'.stamp = stamp
    BY <1>0, <1>2, <2>1, <2>2 DEF Connection!Row
  <2>4. row'.reference = memory[q].row.reference /\ row'.status = memory[q].result
    BY <1>0, <2>1 DEF Connection!Row
  <2> QED
    BY <1>0, <1>1, <1>2, <1>5, <2>2, <2>3, <2>4
<1>6. CASE memory[q].kind = "disable"
  <2>1. row' = [memory[q].row EXCEPT !.status = "DISABLED", !.stamp = stamp]
    BY <1>1, <1>6 DEF Connection!Written
  <2>2. memory[q].row.reference \in Requests
    BY <1>0, <1>6 DEF MemoryInOrder
  <2>3. row' \in Connection!Row /\ row'.stamp = stamp
    BY <1>0, <1>2, <2>1, <2>2 DEF Connection!Row
  <2>4. row'.reference = memory[q].row.reference /\ row'.status = "DISABLED"
    BY <1>0, <2>1 DEF Connection!Row
  <2> QED
    BY <1>0, <1>1, <1>2, <1>6, <2>2, <2>3, <2>4
<1> QED
  BY <1>3, <1>4, <1>5, <1>6

LEMMA SaveStep ==
    ASSUME ConnectionOrder, NEW q \in Requests, Connection!Save(q)
    PROVE  ConnectionOrder'
<1>0. /\ Connection!TypeOK /\ RequestsInOrder /\ MemoryInOrder(q)
      /\ memory \in [Requests -> Connection!Memory]
      /\ requestPc \in [Requests -> {"begin", "asking", "saving", "invalidating", "done"}]
      /\ row \in Connection!Row /\ rotatedIn \subseteq Processes /\ late \subseteq Processes
      /\ memory[q].process \in Processes /\ restored \subseteq Requests
  BY DEF ConnectionOrder, RequestsInOrder, Connection!TypeOK, Connection!Memory
<1>1. /\ UNCHANGED <<secret, memory, cache>> /\ requestPc[q] = "saving"
      /\ requestPc' = [requestPc EXCEPT ![q] =
                          IF memory[q].kind = "validate" THEN "done" ELSE "invalidating"]
      /\ tied' \in BOOLEAN
      /\ ~tied' => ~tied /\ (row = Connection!NoRow \/ row'.stamp # row.stamp)
      /\ mixed' \in BOOLEAN
      /\ mixed' => \/ mixed
                   \/ memory[q].partial /\ memory[q].row.reference # row.reference
      /\ restored' = restored \cup (IF memory[q].restore THEN {row'.reference} ELSE {})
      /\ IF memory[q].kind = "validate" THEN UNCHANGED <<rotatedIn, late>>
         ELSE rotatedIn' = {memory[q].process} /\ late' = {}
      /\ Connection!SaveMatches(q)
  <2>1. PICK stamp \in {now, now + 1} :
           /\ now' = stamp /\ row' = Connection!Written(q, stamp)
           /\ tied' = (tied \/ (row # Connection!NoRow /\ stamp = row.stamp))
    BY DEF Connection!Save
  <2>2. row'.stamp = stamp
    BY <2>1, SavesRow
  <2>3. /\ tied' \in BOOLEAN
        /\ ~tied' => ~tied /\ (row = Connection!NoRow \/ row'.stamp # row.stamp)
    BY <2>1, <2>2
  <2>4. /\ mixed' \in BOOLEAN
        /\ mixed' => \/ mixed
                     \/ memory[q].partial /\ memory[q].row.reference # row.reference
    BY DEF Connection!Save
  <2> QED
    BY <2>3, <2>4 DEF Connection!Save
<1>2. /\ row' \in Connection!Row /\ row'.status # "NONE" /\ row'.stamp > 0
      /\ now' \in 0..MaxStamp /\ row.stamp <= now /\ now <= now' /\ row'.stamp = now'
      /\ row'.reference \in Requests
      /\ memory[q].kind \in {"configure", "validate", "disable"}
      /\ memory[q].kind = "configure" =>
            row'.reference = q /\ (row'.status = "CONNECTED" => memory[q].restore)
      /\ memory[q].kind = "validate" =>
            /\ row'.reference = memory[q].row.reference
            /\ row'.status = memory[q].result /\ row'.status # "DISABLED"
      /\ memory[q].kind = "disable" =>
            row'.reference = memory[q].row.reference /\ row'.status = "DISABLED"
  BY SavesRow
<1>3. /\ requestPc'[q] = (IF memory[q].kind = "validate" THEN "done" ELSE "invalidating")
      /\ \A r \in Requests : r # q => requestPc'[r] = requestPc[r]
  BY <1>0, <1>1
<1>4. /\ row.stamp \in Nat /\ row'.stamp \in Nat /\ now' \in Nat /\ now \in Nat
      /\ \A r \in Requests : memory[r].row.stamp \in Nat
  BY <1>0, <1>2, PlatformConstants DEF Connection!Row, Connection!Memory, Connection!TypeOK
<1>5. ~tied' => row.stamp < row'.stamp
  <2>1. CASE row = Connection!NoRow
    BY <1>2, <2>1, NothingIsTyped
  <2>2. CASE row # Connection!NoRow
    BY <1>1, <1>2, <1>4, <2>2
  <2> QED
    BY <2>1, <2>2
<1>6. ~tied' => memory[q].row = row
  <2>1. CASE memory[q].row = Connection!NoRow
    BY <1>1, <2>1 DEF Connection!SaveMatches
  <2>2. CASE memory[q].row # Connection!NoRow
    BY <1>0, <1>1, <2>2 DEF Connection!SaveMatches, RequestsInOrder, StampsGrow
  <2> QED
    BY <2>1, <2>2
<1>7. StampsGrow'
  <2>1. ASSUME ~tied', NEW r \in Requests
        PROVE  memory[r].row.stamp < row'.stamp
    BY <1>0, <1>1, <1>4, <1>5, <2>1 DEF RequestsInOrder, StampsGrow
  <2>2. row'.stamp <= now'
    BY <1>2, <1>4
  <2>3. ~tied' => \A r \in Requests :
                     /\ memory'[r].row.stamp <= row'.stamp
                     /\ memory'[r].row.stamp = row'.stamp => memory'[r].row = row'
    BY <1>1, <1>4, <2>1
  <2> QED
    BY <1>2, <2>2, <2>3 DEF StampsGrow
<1>8. NamedAreSaved'
  <2>1. ASSUME NEW r \in Requests, Named(r)'
        PROVE  Named(r) \/ (r = q /\ memory[q].kind = "configure")
    BY <1>0, <1>1, <1>2, <2>1 DEF Named
  <2> QED
    BY <1>0, <1>1, <1>3, <2>1 DEF RequestsInOrder, NamedAreSaved
<1>9. ASSUME NEW r \in Requests PROVE MemoryInOrder(r)'
  BY <1>0, <1>1, <1>3 DEF RequestsInOrder, MemoryInOrder
<1>10. Connection!ConnectedIsAccepted'
  <2>1. CASE memory[q].kind = "configure"
    BY <1>1, <1>2, <2>1 DEF Connection!ConnectedIsAccepted
  <2>2. CASE memory[q].kind = "validate"
    <3>1. row'.status = "CONNECTED" => secret[row'.reference] \in MatchingPairs
      BY <1>0, <1>2, <2>2 DEF MemoryInOrder
    <3>2. row'.reference # "none"
      BY <1>2, PlatformConstants
    <3> QED
      BY <1>1, <3>1, <3>2 DEF Connection!ConnectedIsAccepted, Connection!RowCredentials,
         Connection!NoReference
  <2>3. CASE memory[q].kind = "disable"
    BY <1>2, <2>3 DEF Connection!ConnectedIsAccepted
  <2> QED
    BY <1>2, <2>1, <2>2, <2>3
<1>11. Connection!HalvesBelongTogether'
  BY <1>0, <1>1, <1>6 DEF RequestsInOrder, Connection!HalvesBelongTogether
<1>12. Connection!RotationDropsToken'
  <2>1. CASE memory[q].kind = "validate"
    <3>1. ~tied' => /\ row'.reference = row.reference
                    /\ Connection!RowCredentials' = Connection!RowCredentials
      BY <1>1, <1>2, <1>6, <2>1 DEF Connection!RowCredentials
    <3> QED
      BY <1>1, <1>2, <1>3, <2>1, <3>1 DEF ConnectionOrder, Connection!RotationDropsToken
  <2>2. CASE memory[q].kind # "validate"
    BY <1>0, <1>1, <1>3, <2>2 DEF Connection!RotationDropsToken
  <2> QED
    BY <2>1, <2>2
<1>13. Connection!TypeOK'
  BY <1>0, <1>1, <1>2 DEF Connection!TypeOK
<1> QED
  BY <1>7, <1>8, <1>9, <1>10, <1>11, <1>12, <1>13 DEF ConnectionOrder, RequestsInOrder

\* The inductive invariant of the connection.
LEMMA ConnectionInOrder == PlatformSpec => []ConnectionOrder
<1>1. PlatformInit => ConnectionOrder
  <2> SUFFICES ASSUME Connection!Init PROVE ConnectionOrder
    BY DEF PlatformInit
  <2>1. Connection!TypeOK
    <3>1. /\ row \in Connection!Row /\ secret \in [Requests -> Connection!Credentials]
          /\ memory \in [Requests -> Connection!Memory]
          /\ cache \in [Processes -> Connection!Credentials]
      BY NothingIsTyped DEF Connection!Init
    <3>2. now \in 0..MaxStamp
      BY PlatformConstants DEF Connection!Init
    <3> QED
      BY <3>1, <3>2 DEF Connection!Init, Connection!TypeOK
  <2>2. ASSUME NEW q \in Requests
        PROVE  /\ memory[q] = Connection!NoMemory /\ requestPc[q] = "begin" /\ ~Named(q)
               /\ MemoryInOrder(q)
    BY NothingIsTyped, PlatformConstants DEF Connection!Init, Named, MemoryInOrder
  <2>3. StampsGrow
    BY <2>2, NothingIsTyped DEF Connection!Init, StampsGrow
  <2>4. /\ Connection!ConnectedIsAccepted /\ Connection!HalvesBelongTogether
        /\ Connection!RotationDropsToken
    BY NothingIsTyped DEF Connection!Init, Connection!ConnectedIsAccepted,
       Connection!HalvesBelongTogether, Connection!RotationDropsToken
  <2> QED
    BY <2>1, <2>2, <2>3, <2>4 DEF ConnectionOrder, RequestsInOrder, NamedAreSaved
<1>2. ConnectionOrder /\ [PlatformNext]_platformVars => ConnectionOrder'
  <2> SUFFICES ASSUME ConnectionOrder, [PlatformNext]_platformVars PROVE ConnectionOrder'
    OBVIOUS
  <2>1. CASE UNCHANGED connectionVars
    <3>1. \A q \in Requests : MemoryInOrder(q)'
      BY <2>1 DEF connectionVars, ConnectionOrder, RequestsInOrder, MemoryInOrder
    <3>2. Connection!TypeOK'
      BY <2>1 DEF connectionVars, ConnectionOrder, Connection!TypeOK
    <3> QED
      BY <2>1, <3>1, <3>2 DEF connectionVars, ConnectionOrder, RequestsInOrder, StampsGrow,
         NamedAreSaved, Named, Connection!ConnectedIsAccepted,
         Connection!HalvesBelongTogether, Connection!RotationDropsToken,
         Connection!RowCredentials
  <2>2. CASE Connection!Next
    BY <2>2, ReadingStep, SaveStep, EndingStep DEF Connection!Next
  <2> QED
    BY <2>1, <2>2 DEF PlatformNext, platformVars, MoveSecrets, MoveInitialise, MoveBackup,
       MoveMigrate, MoveConnection, MoveSessions, MoveKeys, MoveTenants, MoveBreaker,
       MoveAnswers, MoveDocumentPdf, MoveRepresentation, MoveDocuments, MoveLookups,
       MoveReadiness
<1> QED
  BY <1>1, <1>2, PTL DEF PlatformSpec

\* However many requests configure, validate and disable it at once, a connection is
\* CONNECTED with credentials Hacienda accepts or that restored them, names the secret of
\* the request that won, whole, and no process that rotated keeps an older token.
THEOREM ConnectionCorrect == PlatformSpec => []ConnectionInv
<1>1. ConnectionOrder => ConnectionInv
  <2> SUFFICES ASSUME ConnectionOrder PROVE Connection!SecretIsTheWinners
    BY DEF ConnectionOrder, RequestsInOrder, ConnectionInv, Connection!ConnectionInv
  <2> QED
    BY NothingIsTyped DEF ConnectionOrder, RequestsInOrder, NamedAreSaved, Named,
       MemoryInOrder, Connection!SecretIsTheWinners
<1> QED
  BY <1>1, ConnectionInOrder, PTL

-----------------------------------------------------------------------------
(* Access: sessions, the API key and its links, tenants *)

\* A session presents a token of a session that was answered, and has spent it by the time
\* it is answered itself.
SessionsInOrder ==
    /\ sessionPc[FirstSession] \in {"begin", "answered"}
    /\ presented[FirstSession] = FirstSession
    /\ \A s \in Sessions \ {FirstSession} :
          /\ sessionPc[s] \notin {"begin", "refused", "dead"} =>
                sessionPc[presented[s]] = "answered"
          /\ sessionPc[s] \in {"marked", "answered"} => token[presented[s]] # "live"

\* A link is reported by the request that made it; a slug has one row.
LinksInOrder ==
    /\ \A x \in linkedBy : x[2] \in links
    /\ \A x, e \in linkedBy : x[2] = e[2] => x = e
    /\ \A a \in Assigners : assignPc[a].at = "found" => assignPc[a].company \in Companies
    /\ founded = {} \/ \E f \in Founders : founded = {f}

AccountsInOrder ==
    /\ Accounts!TypeOK /\ SessionsInOrder /\ LinksInOrder
    /\ Accounts!SpentTokenIsRefused /\ Accounts!RevocationHolds /\ Accounts!AdmittedIsLinked

\* A step of a session.
LEMMA SessionStep ==
    ASSUME AccountsInOrder, Accounts!SessionNext
    PROVE  AccountsInOrder'
<1> USE PlatformConstants
<1>0. /\ Accounts!TypeOK /\ SessionsInOrder /\ Accounts!SpentTokenIsRefused
      /\ token \in [Sessions -> {"none", "live", "used", "expired"}]
      /\ sessionPc \in [Sessions -> {"begin", "found", "rotating", "refused", "marked",
                                     "answered", "dead"}]
      /\ presented \in [Sessions -> Sessions] /\ spentAtBegin \in [Sessions -> BOOLEAN]
  BY DEF AccountsInOrder, Accounts!TypeOK
<1>1. UNCHANGED <<keyEnvironment, keyStatus, revokedAt, usage, saving, guard, revokePc,
                  revoked, usageOverlapped, links, linkedBy, assignPc, founded, foundPc>>
  BY DEF Accounts!SessionNext, Accounts!Login, Accounts!DeactivateUser, Accounts!FindToken,
     Accounts!CheckUser, Accounts!MarkAsUsed, Accounts!SaveToken, Accounts!SessionDies,
     Accounts!TokenExpires, Accounts!keyVars, Accounts!tenantVars
<1>2. LinksInOrder' /\ Accounts!RevocationHolds' /\ Accounts!AdmittedIsLinked'
  BY <1>1 DEF AccountsInOrder, LinksInOrder, Accounts!RevocationHolds,
     Accounts!AdmittedIsLinked
<1>3. ASSUME token' \in [Sessions -> {"none", "live", "used", "expired"}],
             sessionPc' \in [Sessions -> {"begin", "found", "rotating", "refused", "marked",
                                          "answered", "dead"}],
             presented' \in [Sessions -> Sessions], spentAtBegin' \in [Sessions -> BOOLEAN],
             userActive' \in BOOLEAN, SessionsInOrder', Accounts!SpentTokenIsRefused'
      PROVE  AccountsInOrder'
  <2>1. Accounts!TypeOK'
    BY <1>0, <1>1, <1>3 DEF Accounts!TypeOK
  <2> QED
    BY <1>2, <1>3, <2>1 DEF AccountsInOrder
<1>4. CASE Accounts!Login
  <2>1. /\ UNCHANGED <<userActive, presented, spentAtBegin>>
        /\ sessionPc[FirstSession] = "begin"
        /\ token' = [token EXCEPT ![FirstSession] = "live"]
        /\ sessionPc' = [sessionPc EXCEPT ![FirstSession] = "answered"]
    BY <1>4 DEF Accounts!Login
  <2>2. SessionsInOrder' /\ Accounts!SpentTokenIsRefused'
    BY <1>0, <2>1 DEF SessionsInOrder, Accounts!SpentTokenIsRefused
  <2> QED
    BY <1>0, <1>3, <2>1, <2>2 DEF Accounts!TypeOK
<1>5. CASE Accounts!DeactivateUser
  <2>1. UNCHANGED <<token, sessionPc, presented, spentAtBegin>> /\ userActive' \in BOOLEAN
    BY <1>5 DEF Accounts!DeactivateUser
  <2> QED
    BY <1>0, <1>3, <2>1 DEF SessionsInOrder, Accounts!SpentTokenIsRefused
<1>6. ASSUME NEW s \in Sessions, Accounts!FindToken(s) PROVE AccountsInOrder'
  <2>1. PICK t \in Sessions :
           /\ sessionPc[t] = "answered" /\ token[t] = "live"
           /\ presented' = [presented EXCEPT ![s] = t]
           /\ spentAtBegin' = [spentAtBegin EXCEPT ![s] = \E r \in Sessions :
                                  presented[r] = t /\ sessionPc[r] = "answered" /\ r # t]
    BY <1>6 DEF Accounts!FindToken
  <2>2. /\ sessionPc[s] = "begin" /\ s # FirstSession /\ UNCHANGED <<token, userActive>>
        /\ sessionPc' = [sessionPc EXCEPT ![s] = "found"]
    BY <1>6 DEF Accounts!FindToken
  <2>3. ASSUME NEW r \in Sessions, presented[r] = t, sessionPc[r] = "answered" PROVE r = t
    BY <1>0, <2>1, <2>3 DEF SessionsInOrder
  <2>4. Accounts!SpentTokenIsRefused'
    BY <1>0, <2>1, <2>3 DEF Accounts!SpentTokenIsRefused
  <2>5. SessionsInOrder'
    BY <1>0, <2>1, <2>2 DEF SessionsInOrder
  <2>6. spentAtBegin' \in [Sessions -> BOOLEAN]
    BY <1>0, <2>1
  <2> QED
    BY <1>0, <1>3, <2>1, <2>2, <2>4, <2>5, <2>6 DEF Accounts!TypeOK
<1>7. ASSUME NEW s \in Sessions, Accounts!CheckUser(s) \/ Accounts!SessionDies(s)
      PROVE  AccountsInOrder'
  <2>1. /\ UNCHANGED <<token, userActive, presented, spentAtBegin>>
        /\ sessionPc[s] \in {"found", "rotating", "marked"}
        /\ \E to \in {"rotating", "refused", "dead"} :
              sessionPc' = [sessionPc EXCEPT ![s] = to]
    BY <1>7 DEF Accounts!CheckUser, Accounts!SessionDies
  <2>2. SessionsInOrder' /\ Accounts!SpentTokenIsRefused'
    BY <1>0, <2>1 DEF SessionsInOrder, Accounts!SpentTokenIsRefused
  <2> QED
    BY <1>0, <1>3, <2>1, <2>2 DEF Accounts!TypeOK
<1>8. ASSUME NEW s \in Sessions, Accounts!MarkAsUsed(s) PROVE AccountsInOrder'
  <2>1. /\ UNCHANGED <<userActive, presented, spentAtBegin>> /\ sessionPc[s] = "rotating"
        /\ token' = [token EXCEPT ![presented[s]] = "used"]
        /\ sessionPc' = [sessionPc EXCEPT ![s] = "marked"]
    BY <1>8 DEF Accounts!MarkAsUsed, Accounts!Marked
  <2>2. SessionsInOrder' /\ Accounts!SpentTokenIsRefused'
    BY <1>0, <2>1 DEF SessionsInOrder, Accounts!SpentTokenIsRefused
  <2> QED
    BY <1>0, <1>3, <2>1, <2>2 DEF Accounts!TypeOK
<1>9. ASSUME NEW s \in Sessions, Accounts!SaveToken(s) PROVE AccountsInOrder'
  <2>1. /\ UNCHANGED <<userActive, presented, spentAtBegin>> /\ sessionPc[s] = "marked"
        /\ token' = [token EXCEPT ![s] = "live"]
        /\ sessionPc' = [sessionPc EXCEPT ![s] = "answered"]
    BY <1>9 DEF Accounts!SaveToken
  <2>2. SessionsInOrder' /\ Accounts!SpentTokenIsRefused'
    BY <1>0, <2>1 DEF SessionsInOrder, Accounts!SpentTokenIsRefused
  <2> QED
    BY <1>0, <1>3, <2>1, <2>2 DEF Accounts!TypeOK
<1>10. ASSUME NEW t \in Sessions, Accounts!TokenExpires(t) PROVE AccountsInOrder'
  <2>1. /\ UNCHANGED <<userActive, sessionPc, presented, spentAtBegin>>
        /\ token' = [token EXCEPT ![t] = "expired"]
    BY <1>10 DEF Accounts!TokenExpires
  <2>2. SessionsInOrder' /\ Accounts!SpentTokenIsRefused'
    BY <1>0, <2>1 DEF SessionsInOrder, Accounts!SpentTokenIsRefused
  <2> QED
    BY <1>0, <1>3, <2>1, <2>2 DEF Accounts!TypeOK
<1> QED
  BY <1>4, <1>5, <1>6, <1>7, <1>8, <1>9, <1>10 DEF Accounts!SessionNext

\* A step of the API key: a validation, a revocation or a link.
LEMMA KeyStep ==
    ASSUME AccountsInOrder, Accounts!KeyNext
    PROVE  AccountsInOrder'
<1>0. Accounts!TypeOK /\ LinksInOrder
  BY DEF AccountsInOrder
<1>1. UNCHANGED <<token, userActive, sessionPc, presented, spentAtBegin, founded, foundPc,
                  keyEnvironment>>
  BY DEF Accounts!KeyNext, Accounts!FindKey, Accounts!VerifyKey, Accounts!SaveUsage,
     Accounts!Authorize, Accounts!FindToRevoke, Accounts!SaveRevocation,
     Accounts!FindToAssign, Accounts!CreateLink, Accounts!sessionVars, Accounts!tenantVars
<1>2. SessionsInOrder' /\ Accounts!SpentTokenIsRefused'
  BY <1>1 DEF AccountsInOrder, SessionsInOrder, Accounts!SpentTokenIsRefused
<1>3. ASSUME NEW v \in Validations, Accounts!FindKey(v) \/ Accounts!VerifyKey(v)
      PROVE  AccountsInOrder'
  <2>1. UNCHANGED <<keyStatus, revokedAt, guard, revokePc, revoked, usageOverlapped, links,
                    linkedBy, assignPc>>
    BY <1>3 DEF Accounts!FindKey, Accounts!VerifyKey
  <2>2. /\ usage' \in [Validations -> {"begin", "read", "verified", "refused"}]
        /\ saving' \in [Validations -> {"none", "ACTIVE"}]
    BY <1>0, <1>3 DEF Accounts!FindKey, Accounts!VerifyKey, Accounts!TypeOK
  <2>3. Accounts!TypeOK'
    BY <1>0, <1>1, <2>1, <2>2 DEF Accounts!TypeOK
  <2>4. LinksInOrder' /\ Accounts!RevocationHolds' /\ Accounts!AdmittedIsLinked'
    BY <1>1, <2>1 DEF AccountsInOrder, LinksInOrder, Accounts!RevocationHolds,
       Accounts!AdmittedIsLinked
  <2> QED
    BY <1>2, <2>3, <2>4 DEF AccountsInOrder
<1>4. ASSUME NEW v \in Validations, Accounts!SaveUsage(v) PROVE AccountsInOrder'
  <2>1. /\ UNCHANGED <<usage, guard, revokePc, revoked, links, linkedBy, assignPc>>
        /\ saving[v] # "none" /\ saving' = [saving EXCEPT ![v] = "none"]
        /\ \/ /\ keyStatus' = saving[v] /\ revokedAt' = revokedAt
              /\ usageOverlapped' \in BOOLEAN
              /\ usageOverlapped \/ keyStatus = "REVOKED" => usageOverlapped'
           \/ UNCHANGED <<keyStatus, revokedAt, usageOverlapped>>
    BY <1>4 DEF Accounts!SaveUsage, Accounts!KeptRevokedAt
  <2>2. /\ saving' \in [Validations -> {"none", "ACTIVE"}]
        /\ keyStatus' \in {"ACTIVE", "REVOKED"}
    BY <1>0, <2>1 DEF Accounts!TypeOK
  <2>3. usageOverlapped' \in BOOLEAN /\ revokedAt' = revokedAt
    BY <1>0, <2>1 DEF Accounts!TypeOK
  <2>4. Accounts!TypeOK'
    BY <1>0, <1>1, <2>1, <2>2, <2>3 DEF Accounts!TypeOK
  <2>5. Accounts!RevocationHolds'
    <3>1. revoked => revokedAt /\ (usageOverlapped \/ keyStatus = "REVOKED")
      BY DEF AccountsInOrder, Accounts!RevocationHolds
    <3>2. CASE UNCHANGED <<keyStatus, revokedAt, usageOverlapped>>
      BY <2>1, <3>1, <3>2 DEF Accounts!RevocationHolds
    <3>3. CASE /\ revokedAt' = revokedAt
               /\ usageOverlapped \/ keyStatus = "REVOKED" => usageOverlapped'
      BY <2>1, <3>1, <3>3 DEF Accounts!RevocationHolds
    <3> QED
      BY <2>1, <3>2, <3>3
  <2>6. LinksInOrder' /\ Accounts!AdmittedIsLinked'
    BY <1>1, <2>1 DEF AccountsInOrder, LinksInOrder, Accounts!AdmittedIsLinked
  <2> QED
    BY <1>2, <2>4, <2>5, <2>6 DEF AccountsInOrder
<1>5. ASSUME NEW v \in Validations, Accounts!Authorize(v) PROVE AccountsInOrder'
  <2>1. UNCHANGED <<keyStatus, revokedAt, usage, saving, revokePc, revoked, usageOverlapped,
                    links, linkedBy, assignPc>>
    BY <1>5 DEF Accounts!Authorize
  <2>2. PICK c \in Companies \cup Strangers \cup {"none"},
             e \in {"SANDBOX", "PRODUCTION", "none"} :
           guard' = [guard EXCEPT ![v] =
              [company |-> c, environment |-> e,
               answer |-> IF Accounts!CompanyAnswer(c) # "admitted"
                          THEN Accounts!CompanyAnswer(c)
                          ELSE IF e \notin {"none", Accounts!ExpectedEnvironment}
                          THEN "API_KEY_ENVIRONMENT_NOT_AUTHORIZED" ELSE "admitted"]]
    BY <1>5 DEF Accounts!Authorize
  <2> DEFINE given == IF Accounts!CompanyAnswer(c) # "admitted"
                      THEN Accounts!CompanyAnswer(c)
                      ELSE IF e \notin {"none", Accounts!ExpectedEnvironment}
                      THEN "API_KEY_ENVIRONMENT_NOT_AUTHORIZED" ELSE "admitted"
  <2>3. /\ given \in {"admitted", "COMPANY_NOT_FOUND", "API_KEY_COMPANY_NOT_AUTHORIZED",
                      "API_KEY_ENVIRONMENT_NOT_AUTHORIZED"}
        /\ given = "admitted" => /\ c \in links \cup {"none"}
                                 /\ e = "PRODUCTION" => keyEnvironment = "LIVE"
    BY <1>0 DEF Accounts!CompanyAnswer, Accounts!ExpectedEnvironment, Accounts!TypeOK
  <2>4. guard' = [guard EXCEPT ![v] = [company |-> c, environment |-> e, answer |-> given]]
    BY <2>2
  <2> HIDE DEF given
  <2>5. Accounts!TypeOK'
    BY <1>0, <1>1, <2>1, <2>3, <2>4 DEF Accounts!TypeOK
  <2>6. Accounts!AdmittedIsLinked'
    BY <1>0, <1>1, <2>1, <2>3, <2>4 DEF AccountsInOrder, Accounts!AdmittedIsLinked,
       Accounts!TypeOK
  <2>7. LinksInOrder' /\ Accounts!RevocationHolds'
    BY <1>1, <2>1 DEF AccountsInOrder, LinksInOrder, Accounts!RevocationHolds
  <2> QED
    BY <1>2, <2>5, <2>6, <2>7 DEF AccountsInOrder
<1>6. ASSUME NEW r \in Revokers, Accounts!FindToRevoke(r) \/ Accounts!SaveRevocation(r)
      PROVE  AccountsInOrder'
  <2>1. /\ UNCHANGED <<usage, saving, guard, usageOverlapped, links, linkedBy, assignPc>>
        /\ \/ UNCHANGED <<keyStatus, revokedAt, revoked>>
           \/ keyStatus' = "REVOKED" /\ revokedAt' = TRUE /\ revoked' = TRUE
    BY <1>6 DEF Accounts!FindToRevoke, Accounts!SaveRevocation, Accounts!RevokedStatus
  <2>2. revokePc' \in [Revokers -> {"begin", "found", "done"}]
    BY <1>0, <1>6 DEF Accounts!FindToRevoke, Accounts!SaveRevocation, Accounts!TypeOK
  <2>3. Accounts!TypeOK'
    BY <1>0, <1>1, <2>1, <2>2 DEF Accounts!TypeOK
  <2>4. Accounts!RevocationHolds'
    BY <2>1 DEF AccountsInOrder, Accounts!RevocationHolds
  <2>5. LinksInOrder' /\ Accounts!AdmittedIsLinked'
    BY <1>1, <2>1 DEF AccountsInOrder, LinksInOrder, Accounts!AdmittedIsLinked
  <2> QED
    BY <1>2, <2>3, <2>4, <2>5 DEF AccountsInOrder
<1>7. ASSUME NEW a \in Assigners, Accounts!FindToAssign(a) PROVE AccountsInOrder'
  <2>1. UNCHANGED <<keyStatus, revokedAt, usage, saving, guard, revokePc, revoked,
                    usageOverlapped, links, linkedBy>>
    BY <1>7 DEF Accounts!FindToAssign
  <2>2. PICK c \in Companies :
           assignPc' = [assignPc EXCEPT ![a] =
                          [at |-> IF keyStatus = "ACTIVE" THEN "found" ELSE "refused",
                           company |-> c]]
    BY <1>7 DEF Accounts!FindToAssign
  <2>3. Accounts!TypeOK'
    BY <1>0, <1>1, <2>1, <2>2 DEF Accounts!TypeOK
  <2>4. LinksInOrder'
    BY <1>0, <1>1, <2>1, <2>2 DEF LinksInOrder, Accounts!TypeOK
  <2>5. Accounts!RevocationHolds' /\ Accounts!AdmittedIsLinked'
    BY <1>1, <2>1 DEF AccountsInOrder, Accounts!RevocationHolds, Accounts!AdmittedIsLinked
  <2> QED
    BY <1>2, <2>3, <2>4, <2>5 DEF AccountsInOrder
<1>8. ASSUME NEW a \in Assigners, Accounts!CreateLink(a) PROVE AccountsInOrder'
  <2> DEFINE c == assignPc[a].company
  <2>1. /\ UNCHANGED <<keyStatus, revokedAt, usage, saving, guard, revokePc, revoked,
                       usageOverlapped>>
        /\ assignPc[a].at = "found" /\ links' = links \cup {c}
        /\ linkedBy' = IF c \notin links THEN linkedBy \cup {<<a, c>>} ELSE linkedBy
        /\ assignPc' = [assignPc EXCEPT ![a].at = "done"]
    BY <1>8 DEF Accounts!CreateLink, Accounts!LinkIsNew
  <2>2. c \in Companies
    BY <1>0, <2>1 DEF LinksInOrder
  <2> DEFINE Assigned == [at : {"begin", "found", "refused", "done"},
                          company : Companies \cup {"none"}]
  <2>3. /\ assignPc' \in [Assigners -> Assigned] /\ assignPc'[a].at = "done"
        /\ \A b \in Assigners : b # a => assignPc'[b] = assignPc[b]
    BY <1>0, <2>1 DEF Accounts!TypeOK
  <2> HIDE DEF c
  <2>4. links' \subseteq Companies /\ linkedBy' \subseteq Assigners \X Companies
    BY <1>0, <2>1, <2>2 DEF Accounts!TypeOK
  <2>5. Accounts!TypeOK'
    BY <1>0, <1>1, <2>1, <2>3, <2>4 DEF Accounts!TypeOK
  <2>6. LinksInOrder'
    <3>1. \A x \in linkedBy' : x \in linkedBy \/ (x = <<a, c>> /\ c \notin links)
      BY <2>1
    <3>2. \A x \in linkedBy' : x[2] \in links'
      BY <1>0, <2>1, <3>1 DEF LinksInOrder
    <3>3. \A x, e \in linkedBy' : x[2] = e[2] => x = e
      BY <1>0, <3>1 DEF LinksInOrder
    <3> QED
      BY <1>0, <1>1, <2>3, <3>2, <3>3 DEF LinksInOrder
  <2>7. Accounts!RevocationHolds' /\ Accounts!AdmittedIsLinked'
    BY <1>1, <2>1 DEF AccountsInOrder, Accounts!RevocationHolds, Accounts!AdmittedIsLinked
  <2> QED
    BY <1>2, <2>5, <2>6, <2>7 DEF AccountsInOrder
<1> QED
  BY <1>3, <1>4, <1>5, <1>6, <1>7, <1>8 DEF Accounts!KeyNext

\* A step of a founder: the unique index lets one row of a slug in.
LEMMA TenantStep ==
    ASSUME AccountsInOrder, Accounts!TenantNext
    PROVE  AccountsInOrder'
<1>1. PICK f \in Founders : Accounts!LookUpSlug(f) \/ Accounts!CreateRow(f)
  BY DEF Accounts!TenantNext
<1>2. UNCHANGED <<token, userActive, sessionPc, presented, spentAtBegin, keyEnvironment,
                  keyStatus, revokedAt, usage, saving, guard, revokePc, revoked,
                  usageOverlapped, links, linkedBy, assignPc>>
  BY <1>1 DEF Accounts!LookUpSlug, Accounts!CreateRow, Accounts!sessionVars,
     Accounts!keyVars
<1>3. founded' = founded \/ (founded = {} /\ founded' = {f})
  BY <1>1 DEF Accounts!LookUpSlug, Accounts!CreateRow, Accounts!SlugIsFree
<1>4. foundPc' \in [Founders -> {"begin", "creating", "conflict", "created",
                                 "INTERNAL_SERVER_ERROR"}]
  BY <1>1 DEF AccountsInOrder, Accounts!TypeOK, Accounts!LookUpSlug, Accounts!CreateRow
<1>5. Accounts!TypeOK'
  BY <1>2, <1>3, <1>4 DEF AccountsInOrder, Accounts!TypeOK
<1>6. SessionsInOrder' /\ Accounts!SpentTokenIsRefused'
  BY <1>2 DEF AccountsInOrder, SessionsInOrder, Accounts!SpentTokenIsRefused
<1>7. LinksInOrder'
  BY <1>2, <1>3 DEF AccountsInOrder, LinksInOrder
<1>8. Accounts!RevocationHolds' /\ Accounts!AdmittedIsLinked'
  BY <1>2 DEF AccountsInOrder, Accounts!RevocationHolds, Accounts!AdmittedIsLinked
<1> QED
  BY <1>5, <1>6, <1>7, <1>8 DEF AccountsInOrder

\* The inductive invariant of the accounts.
LEMMA AccountsStayInOrder == PlatformSpec => []AccountsInOrder
<1>1. PlatformInit => AccountsInOrder
  <2> SUFFICES ASSUME Accounts!Init PROVE AccountsInOrder
    BY DEF PlatformInit
  <2>1. Accounts!TypeOK
    <3>1. /\ token \in [Sessions -> {"none", "live", "used", "expired"}]
          /\ sessionPc \in [Sessions -> {"begin", "found", "rotating", "refused", "marked",
                                         "answered", "dead"}]
          /\ presented \in [Sessions -> Sessions] /\ spentAtBegin \in [Sessions -> BOOLEAN]
      BY PlatformConstants DEF Accounts!Init
    <3>2. /\ usage \in [Validations -> {"begin", "read", "verified", "refused"}]
          /\ saving \in [Validations -> {"none", "ACTIVE"}]
          /\ revokePc \in [Revokers -> {"begin", "found", "done"}]
          /\ foundPc \in [Founders -> {"begin", "creating", "conflict", "created",
                                       "INTERNAL_SERVER_ERROR"}]
      BY DEF Accounts!Init
    <3>3. guard \in [Validations ->
             [company : Companies \cup Strangers \cup {"none"},
              environment : {"SANDBOX", "PRODUCTION", "none"},
              answer : {"none", "admitted", "COMPANY_NOT_FOUND",
                        "API_KEY_COMPANY_NOT_AUTHORIZED",
                        "API_KEY_ENVIRONMENT_NOT_AUTHORIZED"}]]
      BY DEF Accounts!Init
    <3>4. assignPc \in [Assigners -> [at : {"begin", "found", "refused", "done"},
                                     company : Companies \cup {"none"}]]
      BY DEF Accounts!Init
    <3>5. /\ userActive \in BOOLEAN /\ keyEnvironment \in {"TEST", "LIVE"}
          /\ keyStatus \in {"ACTIVE", "REVOKED"} /\ revokedAt \in BOOLEAN
          /\ revoked \in BOOLEAN /\ usageOverlapped \in BOOLEAN /\ links \subseteq Companies
          /\ linkedBy \subseteq Assigners \X Companies /\ founded \subseteq Founders
      BY DEF Accounts!Init
    <3> QED
      BY <3>1, <3>2, <3>3, <3>4, <3>5 DEF Accounts!TypeOK
  <2> QED
    BY <2>1, PlatformConstants DEF Accounts!Init, AccountsInOrder, SessionsInOrder,
       LinksInOrder, Accounts!SpentTokenIsRefused, Accounts!RevocationHolds,
       Accounts!AdmittedIsLinked
<1>2. AccountsInOrder /\ [PlatformNext]_platformVars => AccountsInOrder'
  <2> SUFFICES ASSUME AccountsInOrder, [PlatformNext]_platformVars PROVE AccountsInOrder'
    OBVIOUS
  <2>1. CASE UNCHANGED accessVars
    <3>1. Accounts!TypeOK'
      BY <2>1 DEF accessVars, AccountsInOrder, Accounts!TypeOK
    <3> QED
      BY <2>1, <3>1 DEF accessVars, AccountsInOrder, SessionsInOrder, LinksInOrder,
         Accounts!SpentTokenIsRefused, Accounts!RevocationHolds, Accounts!AdmittedIsLinked
  <2> QED
    BY <2>1, SessionStep, KeyStep, TenantStep DEF PlatformNext, platformVars, MoveSecrets,
       MoveInitialise, MoveBackup, MoveMigrate, MoveConnection, MoveSessions, MoveKeys,
       MoveTenants, MoveBreaker, MoveAnswers, MoveDocumentPdf, MoveRepresentation,
       MoveDocuments, MoveLookups, MoveReadiness
<1> QED
  BY <1>1, <1>2, PTL DEF PlatformSpec

\* For any number of sessions, validations, revocations, links and founders: a spent token
\* is refused, a revocation holds and keeps its date, who is admitted is linked, and what is
\* reported created was created once.
THEOREM AccessCorrect == PlatformSpec => []AccessInv
<1>1. AccountsInOrder => AccessInv
  <2> SUFFICES ASSUME AccountsInOrder PROVE Accounts!CreatedOnce
    BY DEF AccountsInOrder, AccessInv, Accounts!AccessInv
  <2> QED
    BY DEF AccountsInOrder, LinksInOrder, Accounts!CreatedOnce
<1> QED
  BY <1>1, AccountsStayInOrder, PTL

-----------------------------------------------------------------------------
(* SecretStoreOperations: a store is made, backed up, restored and filled *)

\* An initialisation past the key made it, and the marker is written last.
InitialisersInOrder ==
    /\ initPc \in [Initialisers -> {"begin", "key", "marker", "cleanup", "cleanupKey", "ready",
                                    "failed"}]
    /\ root \in [Initialisers -> {"none", "directory", "marked"}]
    /\ \A i \in Initialisers :
          /\ initPc[i] \in {"marker", "cleanupKey", "ready"} => keyFile = i
          /\ root[i] = "marked" => initPc[i] = "ready"

\* Metadata never names more than the versions linked; while nobody writes, the listing, the
\* copy and the store agree; the manifest comes last.
BackupInOrder ==
    /\ versions \in Nat /\ named \in Nat /\ listed \in Nat /\ copied \in Nat
    /\ quiet \in BOOLEAN /\ manifest \in BOOLEAN /\ damaged \in BOOLEAN
    /\ copied <= named
    /\ backupPc # "begin" /\ quiet => listed = versions /\ named = versions
    /\ backupPc \in {"compare", "versions", "manifest", "done"} /\ quiet => copied = named
    /\ backupPc \in {"manifest", "done"} => copiedAll = 1..listed
    /\ manifest => backupPc = "done"
    /\ restorePc = "begin" \/ backupPc \in {"done", "failed"}
    /\ restorePc \in {"copying", "restored"} => manifest /\ ~damaged
    /\ restorePc = "ENOENT" => ~quiet

\* A migration that stores began where no reference held another value.
MigrationInOrder ==
    /\ value \in [References -> {"none", "recovered", "other"}]
    /\ migratePc \in {"storing", "passed", "failed"} =>
          \A r \in References : before[r] # "other"
    /\ migratePc = "passed" => \A r \in References : value[r] = "recovered"

LEMMA InitialiseStep ==
    ASSUME InitialisersInOrder, Maintenance!Initialise
    PROVE  InitialisersInOrder'
<1> USE PlatformConstants
<1>1. PICK i \in Initialisers :
          \/ Maintenance!MakeRoot(i) \/ Maintenance!WriteKey(i)
          \/ Maintenance!WriteMarker(i) \/ Maintenance!CleanUp(i)
  BY DEF Maintenance!Initialise
<1>2. CASE Maintenance!MakeRoot(i)
  BY <1>2 DEF InitialisersInOrder, Maintenance!MakeRoot
<1>3. CASE Maintenance!WriteKey(i)
  <2>1. CASE keyFile = "none"
    BY <1>3, <2>1 DEF InitialisersInOrder, Maintenance!WriteKey
  <2>2. CASE keyFile # "none"
    BY <1>3, <2>2 DEF InitialisersInOrder, Maintenance!WriteKey
  <2> QED
    BY <2>1, <2>2
<1>4. CASE Maintenance!WriteMarker(i)
  BY <1>4 DEF InitialisersInOrder, Maintenance!WriteMarker
<1>5. CASE Maintenance!CleanUp(i)
  <2>1. CASE initPc[i] = "cleanup"
    BY <1>5, <2>1 DEF InitialisersInOrder, Maintenance!CleanUp, Maintenance!KeyAfterCleanup
  <2>2. CASE initPc[i] = "cleanupKey"
    BY <1>5, <2>2 DEF InitialisersInOrder, Maintenance!CleanUp, Maintenance!KeyAfterCleanup
  <2> QED
    BY <1>5, <2>1, <2>2 DEF Maintenance!CleanUp
<1> QED
  BY <1>1, <1>2, <1>3, <1>4, <1>5

LEMMA BackupStep ==
    ASSUME BackupInOrder, Maintenance!BackUpAndRestore
    PROVE  BackupInOrder'
<1>1. CASE Maintenance!LinkVersion \/ Maintenance!NameVersion
  <2>1. versions' \in Nat /\ named' \in Nat /\ copied <= named' /\ quiet' = FALSE
    BY <1>1 DEF BackupInOrder, Maintenance!LinkVersion, Maintenance!NameVersion
  <2>2. UNCHANGED <<backupPc, listed, copied, copiedAll, manifest, damaged, restorePc>>
    BY <1>1 DEF Maintenance!LinkVersion, Maintenance!NameVersion
  <2> QED
    BY <2>1, <2>2 DEF BackupInOrder
<1>2. CASE Maintenance!ListFiles
  BY <1>2 DEF BackupInOrder, Maintenance!ListFiles
<1>3. CASE Maintenance!CopyMetadata
  BY <1>3 DEF BackupInOrder, Maintenance!CopyMetadata
<1>4. CASE Maintenance!CompareMetadata
  BY <1>4 DEF BackupInOrder, Maintenance!CompareMetadata
<1>5. CASE Maintenance!CopyVersions
  BY <1>5 DEF BackupInOrder, Maintenance!CopyVersions, Maintenance!CopiedVersions
<1>6. CASE Maintenance!WriteManifest
  BY <1>6 DEF BackupInOrder, Maintenance!WriteManifest
<1>7. CASE Maintenance!BackupDies
  BY <1>7 DEF BackupInOrder, Maintenance!BackupDies
<1>8. CASE Maintenance!Damage
  BY <1>8 DEF BackupInOrder, Maintenance!Damage
<1>9. CASE Maintenance!CheckBackup
  BY <1>9 DEF BackupInOrder, Maintenance!CheckBackup, Maintenance!BackupVerifies
<1>10. CASE Maintenance!VerifyRestored
  <2>1. quiet => copied = listed
    BY <1>10 DEF BackupInOrder, Maintenance!VerifyRestored
  <2>2. copiedAll = 1..listed
    BY <1>10 DEF BackupInOrder, Maintenance!VerifyRestored
  <2>3. quiet => restorePc' = "restored"
    BY <1>10, <2>1, <2>2 DEF BackupInOrder, Maintenance!VerifyRestored
  <2>4. restorePc' \in {"restored", "ENOENT"}
    BY <1>10 DEF Maintenance!VerifyRestored
  <2> QED
    BY <1>10, <2>3, <2>4 DEF BackupInOrder, Maintenance!VerifyRestored
<1> QED
  BY <1>1, <1>2, <1>3, <1>4, <1>5, <1>6, <1>7, <1>8, <1>9, <1>10
     DEF Maintenance!BackUpAndRestore, Maintenance!Backup

LEMMA MigrateStep ==
    ASSUME MigrationInOrder, Maintenance!Migrate
    PROVE  MigrationInOrder'
<1>1. CASE Maintenance!CheckReferences
  BY <1>1 DEF MigrationInOrder, Maintenance!CheckReferences, Maintenance!Differs
<1>2. CASE Maintenance!StoreMissing
  BY <1>2 DEF MigrationInOrder, Maintenance!StoreMissing
<1>3. CASE Maintenance!VerifyMigrated
  BY <1>3 DEF MigrationInOrder, Maintenance!VerifyMigrated
<1>4. CASE Maintenance!MigrationDies
  BY <1>4 DEF MigrationInOrder, Maintenance!MigrationDies
<1>5. CASE Maintenance!PutOther
  BY <1>5 DEF MigrationInOrder, Maintenance!PutOther
<1> QED
  BY <1>1, <1>2, <1>3, <1>4, <1>5 DEF Maintenance!Migrate

LEMMA MaintenanceInOrder ==
    PlatformSpec => [](InitialisersInOrder /\ BackupInOrder /\ MigrationInOrder)
<1> DEFINE InOrder == InitialisersInOrder /\ BackupInOrder /\ MigrationInOrder
<1>1. PlatformInit => InOrder
  <2> SUFFICES ASSUME Maintenance!Init PROVE InOrder
    BY DEF PlatformInit
  <2>1. BackupInOrder
    <3>1. versions \in Nat /\ named \in Nat /\ copied = 0 /\ copied <= named
      BY DEF Maintenance!Init
    <3>2. /\ backupPc = "begin" /\ restorePc = "begin" /\ listed = 0 /\ quiet = TRUE
          /\ manifest = FALSE /\ damaged = FALSE
      BY DEF Maintenance!Init
    <3> QED
      BY <3>1, <3>2 DEF BackupInOrder
  <2>2. InitialisersInOrder /\ MigrationInOrder
    BY PlatformConstants DEF Maintenance!Init, InitialisersInOrder, MigrationInOrder
  <2> QED
    BY <2>1, <2>2
<1>2. InOrder /\ [PlatformNext]_platformVars => InOrder'
  <2> SUFFICES ASSUME InOrder, [PlatformNext]_platformVars PROVE InOrder'
    OBVIOUS
  <2>1. ASSUME UNCHANGED Maintenance!storeVars PROVE InitialisersInOrder'
    BY <2>1 DEF Maintenance!storeVars, InitialisersInOrder
  <2>2. ASSUME UNCHANGED Maintenance!backupVars PROVE BackupInOrder'
    BY <2>2 DEF Maintenance!backupVars, BackupInOrder
  <2>3. ASSUME UNCHANGED Maintenance!migrationVars PROVE MigrationInOrder'
    BY <2>3 DEF Maintenance!migrationVars, MigrationInOrder
  <2>4. CASE UNCHANGED operationVars
    BY <2>1, <2>2, <2>3, <2>4 DEF operationVars, Maintenance!storeVars,
       Maintenance!backupVars, Maintenance!migrationVars
  <2>5. CASE Maintenance!Initialise
    <3>1. UNCHANGED <<Maintenance!backupVars, Maintenance!migrationVars>>
      BY <2>5 DEF Maintenance!Initialise, Maintenance!MakeRoot, Maintenance!WriteKey,
         Maintenance!WriteMarker, Maintenance!CleanUp
    <3> QED
      BY <2>2, <2>3, <2>5, <3>1, InitialiseStep
  <2>6. CASE Maintenance!BackUpAndRestore
    <3>1. UNCHANGED <<Maintenance!storeVars, Maintenance!migrationVars>>
      BY <2>6 DEF Maintenance!BackUpAndRestore, Maintenance!Backup, Maintenance!LinkVersion,
         Maintenance!NameVersion, Maintenance!ListFiles, Maintenance!CopyMetadata,
         Maintenance!CompareMetadata, Maintenance!CopyVersions, Maintenance!WriteManifest,
         Maintenance!BackupDies, Maintenance!Damage, Maintenance!CheckBackup,
         Maintenance!VerifyRestored
    <3> QED
      BY <2>1, <2>3, <2>6, <3>1, BackupStep
  <2>7. CASE Maintenance!Migrate
    <3>1. UNCHANGED <<Maintenance!storeVars, Maintenance!backupVars>>
      BY <2>7 DEF Maintenance!Migrate, Maintenance!CheckReferences, Maintenance!StoreMissing,
         Maintenance!VerifyMigrated, Maintenance!MigrationDies, Maintenance!PutOther
    <3> QED
      BY <2>1, <2>2, <2>7, <3>1, MigrateStep
  <2> QED
    BY <2>4, <2>5, <2>6, <2>7 DEF PlatformNext, platformVars, MoveSecrets, MoveInitialise,
       MoveBackup, MoveMigrate, MoveConnection, MoveSessions, MoveKeys, MoveTenants,
       MoveBreaker, MoveAnswers, MoveDocumentPdf, MoveRepresentation, MoveDocuments,
       MoveLookups, MoveReadiness
<1> QED
  BY <1>1, <1>2, PTL DEF PlatformSpec

\* An initialised store keeps the key it was made with, what is restored is whole, and a
\* migration overwrites nothing it found, for any number of initialisations, versions and
\* references.
THEOREM OperationsCorrect == PlatformSpec => []Maintenance!OperationsInv
<1>1. InitialisersInOrder /\ BackupInOrder /\ MigrationInOrder => Maintenance!OperationsInv
  <2> SUFFICES ASSUME InitialisersInOrder, BackupInOrder, MigrationInOrder
               PROVE  Maintenance!OperationsInv
    OBVIOUS
  <2>1. Maintenance!KeyIsKept
    BY DEF InitialisersInOrder, Maintenance!KeyIsKept
  <2>2. Maintenance!RestoreIsFaithful
    BY DEF BackupInOrder, Maintenance!RestoreIsFaithful
  <2>3. Maintenance!MigrationKeepsValues
    BY DEF MigrationInOrder, Maintenance!MigrationKeepsValues
  <2> QED
    BY <2>1, <2>2, <2>3 DEF Maintenance!OperationsInv
<1> QED
  BY <1>1, MaintenanceInOrder, PTL

-----------------------------------------------------------------------------
(* EncryptedFileSecrets: concurrent writers, stale locks, readers without a lock *)

\* The greatest of a set of naturals with a bound.
LEMMA GreatestIs ==
    ASSUME NEW S, NEW n \in Nat, S \subseteq 0..n, S # {}
    PROVE  Max(S) \in S /\ \A u \in S : u <= Max(S)
<1> DEFINE Above(x) == {u \in S : u > x}
           T == {Above(x) : x \in S}
<1>1. IsFiniteSet(S) /\ S \subseteq Int
  <2>1. IsFiniteSet(0..n)
    BY FS_Interval
  <2>2. IsFiniteSet(S)
    BY <2>1, FS_Subset
  <2> QED
    BY <2>2
<1>2. T \subseteq FiniteSubsetsOf(S) /\ T # {}
  <2>1. \A x \in S : Above(x) \in SUBSET S /\ IsFiniteSet(Above(x))
    BY <1>1, FS_Subset
  <2> QED
    BY <2>1 DEF FiniteSubsetsOf
<1>3. PICK A \in T : \A B \in T : ~(<<B, A>> \in StrictSubsetOrdering(S))
  <2> HIDE DEF T
  <2> QED
    BY <1>1, <1>2, FS_StrictSubsetOrderingWellFounded, WFMin
<1>4. PICK x \in S : A = Above(x)
  BY <1>3
<1>5. \A u \in S : x >= u
  <2> SUFFICES ASSUME NEW u \in S, ~(x >= u) PROVE FALSE
    OBVIOUS
  <2>0. x \in Int /\ u \in Int
    BY <1>1
  <2>1. u > x
    BY <2>0
  <2>2. Above(u) \subseteq A /\ u \in A /\ u \notin Above(u)
    <3>1. \A z \in S : z > u => z > x
      BY <1>1, <2>0, <2>1
    <3>2. ~(u > u)
      BY <2>0
    <3> QED
      BY <1>4, <2>1, <3>1, <3>2
  <2>3. <<Above(u), A>> \in StrictSubsetOrdering(S)
    BY <1>4, <2>2 DEF StrictSubsetOrdering
  <2> QED
    BY <1>3, <2>3
<1> QED
  BY <1>1, <1>5 DEF Max

\* What the files hold, and what a writer remembers.
WholeRecord ==
    [version : 1..MaxVersion, operation : Operations, value : Writers, key : {StoreKey}]
MetadataEntry ==
    [version : 1..MaxVersion, operation : Operations, recordSha256 : WholeRecord]
WriterMemory ==
    [metadata : Seq(MetadataEntry), next : 0..MaxVersion,
     operation : Operations \cup {"NONE"}, key : {StoreKey}, failed : BOOLEAN]
WriterLabels ==
    {"idle", "locking", "stealing", "loading", "linking", "renaming", "unlocking", "stored",
     "failed", "busy"}
Critical == {"loading", "linking", "renaming", "unlocking"}
LockFile == [held : BOOLEAN, by : Writers \cup {Nobody}, stale : BOOLEAN]

SecretTypes ==
    /\ masterKey \in Keys /\ directory \in BOOLEAN
    /\ records \in [1..MaxVersion -> WholeRecord \cup {Absent}]
    /\ metadata \in Seq(MetadataEntry)
    /\ lock \in LockFile
    /\ writerPc \in [Writers -> WriterLabels] /\ writer \in [Writers -> WriterMemory]
    /\ readerPc \in [Readers -> {"reading", "NOT_FOUND", "opening", "KEY_MISMATCH", "read"}]
    /\ reader \in [Readers -> WholeRecord \cup {Absent}]
    /\ acknowledged \subseteq 1..MaxVersion
    /\ recent \in [Readers -> SUBSET WholeRecord]
    /\ overlapped \in BOOLEAN /\ collided \in BOOLEAN /\ secretFaults \in 0..MaxFaults

\* Only w moves among the writers.
OthersStay(w) ==
    \A v \in Writers \ {w} : writerPc'[v] = writerPc[v] /\ writer'[v] = writer[v]

\* A version file is that version's.
RecordsInOrder(files) == \A v \in 1..MaxVersion : files[v] # Absent => files[v].version = v

\* Metadata names whole version files, in order.
NamesFiles(files, m) ==
    /\ \A i \in 1..Len(m) : /\ m[i] = Entry(files[m[i].version])
                            /\ files[m[i].version] # Absent
    /\ \A i, j \in 1..Len(m) : i < j => m[i].version < m[j].version

\* A writer's version comes after those it read, and its file is there before metadata
\* names it; whoever the lock file names is under way.
WriterInOrder(w) ==
    /\ NamesFiles(records, writer[w].metadata)
    /\ writerPc[w] \in {"locking", "stealing", "loading", "linking", "renaming"} =>
          writer[w].operation \in Operations
    /\ writerPc[w] \in {"linking", "renaming"} =>
          /\ writer[w].next \in 1..MaxVersion
          /\ \A i \in 1..Len(writer[w].metadata) : writer[w].metadata[i].version < writer[w].next
    /\ writerPc[w] = "renaming" => records[writer[w].next] # Absent
    /\ writerPc[w] = "unlocking" /\ ~writer[w].failed => writer[w].next \in 1..MaxVersion
    /\ lock.by = w => writerPc[w] \in Critical

IsNamed(v) == \E i \in 1..Len(metadata) : metadata[i].version = v

\* What a writer under way may rely on while no lock was taken from a live writer: it holds
\* the lock, metadata is as it read it, its version is free, and then named.
WriterHolds(w) ==
    /\ writerPc[w] \in Critical => lock.held /\ lock.by = w
    /\ writerPc[w] \in {"linking", "renaming"} => writer[w].metadata = metadata
    /\ writerPc[w] = "linking" => records[writer[w].next] = Absent
    /\ writerPc[w] = "unlocking" /\ ~writer[w].failed => IsNamed(writer[w].next)

ReaderInOrder(r) ==
    readerPc[r] \in {"opening", "read"} =>
        /\ reader[r] \in recent[r] /\ reader[r] # Absent /\ reader[r].operation = "WRITE"
        /\ reader[r] = records[reader[r].version]

SecretsOrder ==
    /\ SecretTypes /\ RecordsInOrder(records) /\ NamesFiles(records, metadata)
    /\ \A w \in Writers : WriterInOrder(w)
    /\ ~overlapped => \A w \in Writers : WriterHolds(w)
    /\ AcknowledgedIsKept
    /\ \A r \in Readers : ReaderInOrder(r)

\* The memory of a writer that is not writing.
LEMMA NoMemoryIs ==
    /\ NoMemory \in WriterMemory /\ NoMemory.failed = FALSE /\ NoMemory.next = 0
    /\ NamesFiles(records, NoMemory.metadata) /\ NoMemory.metadata = <<>>
BY PlatformConstants DEF NoMemory, WriterMemory, NamesFiles

\* A step of one writer that touches no version file, no metadata and no reader.
LEMMA WriterMoves ==
    ASSUME SecretsOrder, NEW w \in Writers, SecretTypes', OthersStay(w),
           UNCHANGED <<records, metadata, readerPc, reader, recent, collided>>,
           WriterInOrder(w)',
           lock'.by \in {lock.by, w, Nobody},
           ~overlapped' =>
              /\ ~overlapped /\ WriterHolds(w)'
              /\ \A v \in Writers \ {w} : writerPc[v] \in Critical => lock' = lock \/ (lock'.held /\ lock'.by = v)
              /\ \A v \in acknowledged' : IsNamed(v)
    PROVE  SecretsOrder'
<1>4. \A v \in Writers : WriterInOrder(v)'
  <2> SUFFICES ASSUME NEW v \in Writers, v # w PROVE WriterInOrder(v)'
    OBVIOUS
  <2>1. v # Nobody
    BY PlatformConstants DEF Nobody
  <2>2. lock'.by = v => lock.by = v
    BY <2>1
  <2> QED
    BY <2>2 DEF OthersStay, SecretsOrder, WriterInOrder
<1>5. ~overlapped' => \A v \in Writers : WriterHolds(v)'
  BY DEF OthersStay, SecretsOrder, WriterHolds, IsNamed
<1>6. AcknowledgedIsKept'
  BY DEF SecretsOrder, AcknowledgedIsKept, IsNamed
<1>7. \A r \in Readers : ReaderInOrder(r)'
  BY DEF SecretsOrder, ReaderInOrder
<1> QED
  BY <1>4, <1>5, <1>6, <1>7 DEF SecretsOrder
\* Coming for the lock, taking it, giving up, and taking it from another.
LEMMA LockSteps ==
    ASSUME SecretsOrder, NEW w \in Writers,
           Begin(w) \/ TakeLock(w) \/ GiveUp(w) \/ SeeStale(w) \/ Steal(w)
    PROVE  SecretsOrder'
<1>1. /\ SecretTypes /\ WriterInOrder(w) /\ writer[w] \in WriterMemory /\ lock \in LockFile
      /\ ~overlapped => WriterHolds(w)
      /\ w # Nobody
  BY PlatformConstants DEF SecretsOrder, SecretTypes, Nobody
<1>2. UNCHANGED <<masterKey, records, metadata, readerPc, reader, acknowledged, recent, collided,
                  secretFaults>>
  BY DEF Begin, TakeLock, GiveUp, SeeStale, Steal
<1>3. ~overlapped => \A v \in acknowledged : IsNamed(v)
  BY DEF SecretsOrder, AcknowledgedIsKept, IsNamed
<1>4. ~overlapped => \A v \in Writers : writerPc[v] \in Critical => lock.held /\ lock.by = v
  BY DEF SecretsOrder, WriterHolds
<1>5. CASE Begin(w)
  <2>1. PICK o \in Operations : writer' = [writer EXCEPT ![w] = [NoMemory EXCEPT !.operation = o]]
    BY <1>5 DEF Begin
  <2> DEFINE m == [NoMemory EXCEPT !.operation = o]
  <2>2. /\ m \in WriterMemory /\ m.operation = o /\ m.metadata = <<>>
    <3>1. /\ NoMemory \in WriterMemory /\ NoMemory.metadata = <<>>
      BY NoMemoryIs
    <3> QED
      BY <3>1 DEF WriterMemory
  <2> HIDE DEF m
  <2>3. /\ writerPc' = [writerPc EXCEPT ![w] = "locking"] /\ writer' = [writer EXCEPT ![w] = m]
        /\ UNCHANGED <<lock, overlapped>> /\ directory' = TRUE
        /\ writerPc[w] \in {"idle", "stored", "failed", "busy"}
        /\ writerPc'[w] = "locking" /\ writer'[w] = m
    BY <1>1, <1>5, <2>1 DEF Begin, Goto, m, SecretTypes
  <2>4. WriterInOrder(w)'
    BY <1>1, <1>2, <2>2, <2>3 DEF WriterInOrder, NamesFiles, Critical
  <2>5. WriterHolds(w)'
    BY <2>3 DEF WriterHolds, Critical
  <2>6. SecretTypes' /\ OthersStay(w)
    <3>1. "locking" \in WriterLabels
      BY DEF WriterLabels
    <3> QED
      BY <1>1, <1>2, <2>2, <2>3, <3>1 DEF SecretTypes, OthersStay
  <2> QED
    BY <1>2, <1>3, <2>2, <2>3, <2>4, <2>5, <2>6, WriterMoves
<1>6. ASSUME NEW to \in {"busy", "stealing", "locking", "loading"}, writerPc' = [writerPc EXCEPT ![w] = to],
             UNCHANGED <<writer, directory>>, writerPc[w] \in {"locking", "stealing"},
             lock' \in LockFile, overlapped' \in BOOLEAN, lock'.by \in {lock.by, w, Nobody},
             lock'.by = w => to = "loading", to = "loading" => lock'.held /\ lock'.by = w,
             ~overlapped' =>
                /\ ~overlapped
                /\ \A v \in Writers \ {w} :
                      writerPc[v] \in Critical => lock' = lock \/ (lock'.held /\ lock'.by = v)
      PROVE  SecretsOrder'
  <2>1. /\ writer' = [writer EXCEPT ![w] = writer[w]] /\ writerPc'[w] = to
        /\ writer'[w] = writer[w]
    BY <1>1, <1>6 DEF SecretTypes
  <2>2. WriterInOrder(w)'
    BY <1>1, <1>2, <1>6, <2>1 DEF WriterInOrder, NamesFiles, Critical
  <2>3. WriterHolds(w)'
    BY <1>6, <2>1 DEF WriterHolds, Critical
  <2>4. SecretTypes' /\ OthersStay(w)
    <3>1. to \in WriterLabels
      BY DEF WriterLabels
    <3> QED
      BY <1>1, <1>2, <1>6, <2>1, <3>1 DEF SecretTypes, OthersStay
  <2> QED
    BY <1>2, <1>3, <1>6, <2>2, <2>3, <2>4, WriterMoves
<1>7. CASE TakeLock(w)
  <2>1. lock.held = FALSE
    BY <1>1, <1>7 DEF TakeLock, LockFree, LockFile
  <2>2. lock' \in LockFile /\ lock'.by = w /\ lock'.held
    BY <1>7 DEF TakeLock, LockFile
  <2> QED
    BY <1>1, <1>4, <1>6, <1>7, <2>1, <2>2 DEF TakeLock, Goto, SecretTypes
<1>8. CASE GiveUp(w) \/ SeeStale(w)
  <2>1. lock.by # w
    BY <1>1, <1>8 DEF GiveUp, SeeStale, WriterInOrder, Critical
  <2>2. UNCHANGED <<writer, directory, lock, overlapped>> /\ writerPc[w] = "locking"
    BY <1>8 DEF GiveUp, SeeStale
  <2>3. PICK to \in {"busy", "stealing"} : writerPc' = [writerPc EXCEPT ![w] = to]
    BY <1>8 DEF GiveUp, SeeStale, Goto
  <2>4. overlapped' \in BOOLEAN /\ lock' \in LockFile
    BY <1>1, <2>2 DEF SecretTypes
  <2> QED
    BY <1>6, <2>1, <2>2, <2>3, <2>4
<1>9. CASE Steal(w)
  <2>1. lock.by # w
    BY <1>1, <1>9 DEF Steal, WriterInOrder, Critical
  <2>2. lock' = Free /\ lock' \in LockFile /\ lock'.by = Nobody
    BY <1>9 DEF Steal, Unlinked, Free, LockFile
  <2>3. /\ overlapped' \in BOOLEAN
        /\ ~overlapped' => ~overlapped /\ lock.by \notin Writers \ {w}
    BY <1>1, <1>9 DEF Steal, Unlinked, SecretTypes
  <2>4. ~overlapped' => \A v \in Writers \ {w} : writerPc[v] \notin Critical
    BY <1>4, <2>3
  <2> QED
    BY <1>1, <1>6, <1>9, <2>1, <2>2, <2>3, <2>4 DEF Steal, Goto
<1> QED
  BY <1>5, <1>7, <1>8, <1>9

\* The version a writer takes is above every file and all that metadata names.
LEMMA NextIsNew ==
    ASSUME SecretTypes, RecordsInOrder(records), NamesFiles(records, metadata)
    PROVE  /\ NextVersion(metadata) \in Nat \ {0}
           /\ \A v \in 1..MaxVersion : records[v] # Absent => v < NextVersion(metadata)
           /\ \A i \in 1..Len(metadata) : metadata[i].version < NextVersion(metadata)
<1> DEFINE S == {v \in 1..MaxVersion : records[v] # Absent} \cup {0}
           last == IF metadata = <<>> THEN 0 ELSE Current(metadata).version
           T == {MaximumVersionOnDisk, last}
<1>1. S \subseteq 0..MaxVersion /\ S # {} /\ MaxVersion \in Nat
  BY PlatformConstants
<1>2. MaximumVersionOnDisk \in S /\ \A v \in S : v <= MaximumVersionOnDisk
  <2> HIDE DEF S
  <2> SUFFICES Max(S) \in S /\ \A v \in S : v <= Max(S)
    BY DEF MaximumVersionOnDisk, S
  <2> QED
    BY <1>1, GreatestIs
<1>3. metadata # <<>> => Len(metadata) \in 1..Len(metadata) /\ Len(metadata) \in Nat
  BY DEF SecretTypes
<1>0. \A i \in 1..Len(metadata) : metadata[i].version \in 1..MaxVersion
  <2> SUFFICES ASSUME NEW i \in 1..Len(metadata) PROVE metadata[i].version \in 1..MaxVersion
    OBVIOUS
  <2>1. metadata[i] \in MetadataEntry
    BY DEF SecretTypes
  <2> QED
    BY <2>1 DEF MetadataEntry
<1>4. last \in 0..MaxVersion
  <2> QED
    BY <1>0, <1>1, <1>3 DEF Current
<1>5. \A i \in 1..Len(metadata) : metadata[i].version <= last
  <2> SUFFICES ASSUME NEW i \in 1..Len(metadata) PROVE metadata[i].version <= last
    OBVIOUS
  <2>1. metadata # <<>> /\ Len(metadata) \in 1..Len(metadata) /\ Len(metadata) \in Nat
    BY <1>3 DEF SecretTypes
  <2>2. metadata[i].version \in Nat
    BY <1>0, <1>1
  <2>3. last = metadata[Len(metadata)].version
    BY <2>1 DEF Current
  <2>4. CASE i = Len(metadata)
    BY <2>2, <2>3, <2>4
  <2>5. CASE i < Len(metadata)
    BY <1>4, <2>1, <2>2, <2>3, <2>5 DEF NamesFiles
  <2> QED
    BY <2>1, <2>4, <2>5
<1>6. T \subseteq 0..MaxVersion /\ T # {}
  BY <1>1, <1>2, <1>4
<1>7. Max(T) \in T /\ \A u \in T : u <= Max(T)
  <2> HIDE DEF T
  <2> QED
    BY <1>1, <1>6, GreatestIs
<1>8. NextVersion(metadata) = Max(T) + 1
  BY DEF NextVersion
<1>9. Max(T) \in Nat /\ MaximumVersionOnDisk <= Max(T) /\ last <= Max(T)
  BY <1>1, <1>6, <1>7
<1> HIDE DEF T, last
<1>10. NextVersion(metadata) \in Nat \ {0}
  BY <1>8, <1>9
<1>11. ASSUME NEW v \in 1..MaxVersion, records[v] # Absent
       PROVE  v < NextVersion(metadata)
  <2>1. v \in S
    BY <1>11
  <2>2. v <= MaximumVersionOnDisk /\ MaximumVersionOnDisk \in Nat
    BY <1>1, <1>2, <2>1
  <2> QED
    BY <1>8, <1>9, <2>2
<1>12. ASSUME NEW i \in 1..Len(metadata)
       PROVE  metadata[i].version < NextVersion(metadata)
  <2>1. metadata[i].version \in Nat
    BY <1>0, <1>1
  <2> QED
    BY <1>4, <1>5, <1>8, <1>9, <2>1
<1> QED
  BY <1>10, <1>11, <1>12

\* Loading, refusing the key, and failing before or after a file has its name.
LEMMA LoadSteps ==
    ASSUME SecretsOrder, NEW w \in Writers,
           Load(w) \/ KeyRefused(w) \/ CallFails(w) \/ SyncFails(w)
    PROVE  SecretsOrder'
<1>1. /\ SecretTypes /\ WriterInOrder(w) /\ writer[w] \in WriterMemory /\ lock \in LockFile
      /\ ~overlapped => WriterHolds(w)
  BY DEF SecretsOrder, SecretTypes
<1>2. UNCHANGED <<masterKey, directory, records, metadata, lock, readerPc, reader, acknowledged,
                  recent, overlapped, collided>>
  BY DEF Load, KeyRefused, CallFails, SyncFails
<1>3. ~overlapped => \A v \in acknowledged : IsNamed(v)
  BY DEF SecretsOrder, AcknowledgedIsKept, IsNamed
<1>4. secretFaults' \in 0..MaxFaults
  BY <1>1, PlatformConstants DEF SecretTypes, Load, KeyRefused, CallFails, SyncFails, Fault
<1>7. lock'.by \in {lock.by, w, Nobody}
  BY <1>2
<1>5. CASE Load(w)
  <2> DEFINE m == [metadata |-> metadata, next |-> NextVersion(metadata),
                   operation |-> writer[w].operation, key |-> masterKey,
                   failed |-> writer[w].failed]
  <2>1. masterKey = StoreKey /\ NextVersion(metadata) \in 1..MaxVersion
    BY <1>1, <1>5, NextIsNew, PlatformConstants DEF Load, KeyCheck, SecretsOrder
  <2>2. /\ m \in WriterMemory /\ m.metadata = metadata /\ m.next = NextVersion(metadata)
        /\ m.operation = writer[w].operation
    BY <1>1, <2>1 DEF WriterMemory, SecretTypes
  <2>3. /\ writer' = [writer EXCEPT ![w] = m] /\ writer'[w] = m
        /\ writerPc' = [writerPc EXCEPT ![w] = "linking"] /\ writerPc'[w] = "linking"
        /\ writerPc[w] = "loading"
    BY <1>1, <1>5 DEF Load, Goto, SecretTypes, WriterMemory
  <2> HIDE DEF m
  <2>4. /\ \A v \in 1..MaxVersion : records[v] # Absent => v < NextVersion(metadata)
        /\ \A i \in 1..Len(metadata) : metadata[i].version < NextVersion(metadata)
        /\ NamesFiles(records, metadata)
    BY NextIsNew DEF SecretsOrder
  <2>5. WriterInOrder(w)'
    BY <1>1, <1>2, <2>1, <2>2, <2>3, <2>4 DEF WriterInOrder, Critical
  <2>6. ~overlapped => WriterHolds(w)'
    <3>1. records[NextVersion(metadata)] = Absent
      BY <2>1, <2>4
    <3> QED
      BY <1>1, <1>2, <2>2, <2>3, <3>1 DEF WriterHolds, Critical
  <2>7. SecretTypes' /\ OthersStay(w)
    <3>1. "linking" \in WriterLabels
      BY DEF WriterLabels
    <3> QED
      BY <1>1, <1>2, <1>4, <2>2, <2>3, <3>1 DEF SecretTypes, OthersStay
  <2> QED
    BY <1>2, <1>3, <1>7, <2>2, <2>3, <2>5, <2>6, <2>7, WriterMoves
<1>6. CASE KeyRefused(w) \/ CallFails(w) \/ SyncFails(w)
  <2> DEFINE m == [writer[w] EXCEPT !.failed = TRUE]
  <2>1. m \in WriterMemory /\ m.failed = TRUE /\ m.metadata = writer[w].metadata
    BY <1>1 DEF WriterMemory
  <2>2. /\ writer' = [writer EXCEPT ![w] = m]
        /\ writer'[w] = m /\ writerPc' = [writerPc EXCEPT ![w] = "unlocking"]
        /\ writerPc'[w] = "unlocking" /\ writerPc[w] \in Critical
    BY <1>1, <1>6 DEF KeyRefused, CallFails, SyncFails, Goto, SecretTypes, Critical
  <2> HIDE DEF m
  <2>3. WriterInOrder(w)'
    BY <1>1, <1>2, <2>1, <2>2 DEF WriterInOrder, Critical
  <2>4. ~overlapped => WriterHolds(w)'
    BY <1>1, <1>2, <2>1, <2>2 DEF WriterHolds
  <2>5. SecretTypes' /\ OthersStay(w)
    <3>1. "unlocking" \in WriterLabels
      BY DEF WriterLabels
    <3> QED
      BY <1>1, <1>2, <1>4, <2>1, <2>2, <3>1 DEF SecretTypes, OthersStay
  <2> QED
    BY <1>2, <1>3, <1>7, <2>1, <2>2, <2>3, <2>4, <2>5, WriterMoves
<1> QED
  BY <1>5, <1>6

\* Leaving: the lock file is unlinked, or it stays behind the dead process.
LEMMA LeaveSteps ==
    ASSUME SecretsOrder, NEW w \in Writers, Unlock(w) \/ Crash(w)
    PROVE  SecretsOrder'
<1>1. /\ SecretTypes /\ WriterInOrder(w) /\ lock \in LockFile /\ w # Nobody
      /\ ~overlapped => WriterHolds(w)
  BY PlatformConstants DEF SecretsOrder, SecretTypes, Nobody
<1>2. /\ UNCHANGED <<masterKey, directory, records, metadata, readerPc, reader, recent, collided>>
      /\ writer' = [writer EXCEPT ![w] = NoMemory] /\ writer'[w] = NoMemory
  BY <1>1 DEF Unlock, Crash, SecretTypes
<1>3. ~overlapped => \A v \in acknowledged : IsNamed(v)
  BY DEF SecretsOrder, AcknowledgedIsKept, IsNamed
<1>4. ~overlapped => \A v \in Writers : writerPc[v] \in Critical => lock.held /\ lock.by = v
  BY DEF SecretsOrder, WriterHolds
<1>5. secretFaults' \in 0..MaxFaults
  BY <1>1, PlatformConstants DEF SecretTypes, Unlock, Crash, Fault
<1>6. PICK to \in {"idle", "failed", "stored"} : writerPc' = [writerPc EXCEPT ![w] = to]
  BY DEF Unlock, Crash, Goto
<1>7. writerPc'[w] = to
  BY <1>1, <1>6 DEF SecretTypes
<1>8. lock' \in LockFile /\ lock'.by \in {lock.by, Nobody} /\ lock'.by # w
  <2>1. CASE Unlock(w)
    BY <1>1, <2>1 DEF Unlock, Unlinked, Free, LockFile
  <2>2. CASE Crash(w) /\ lock.by = w
    BY <1>1, <2>2 DEF Crash, LockFile
  <2>3. CASE Crash(w) /\ lock.by # w
    BY <1>1, <2>3 DEF Crash
  <2> QED
    BY <2>1, <2>2, <2>3
<1>9. /\ overlapped' \in BOOLEAN
      /\ ~overlapped' =>
            /\ ~overlapped
            /\ \A v \in Writers \ {w} : writerPc[v] \in Critical => lock' = lock
  <2>1. CASE Unlock(w)
    <3>1. /\ overlapped' \in BOOLEAN
          /\ ~overlapped' => ~overlapped /\ lock.by \notin Writers \ {w}
      BY <1>1, <2>1 DEF Unlock, Unlinked, SecretTypes
    <3> QED
      BY <1>4, <3>1
  <2>2. CASE Crash(w)
    <3>1. overlapped' = overlapped /\ (lock.by # w => lock' = lock)
      BY <2>2 DEF Crash
    <3> QED
      BY <1>1, <1>4, <3>1 DEF SecretTypes
  <2> QED
    BY <2>1, <2>2
<1>10. /\ acknowledged' \subseteq 1..MaxVersion
       /\ ~overlapped => \A v \in acknowledged' : IsNamed(v)
  <2>1. CASE Unlock(w)
    BY <1>1, <1>3, <2>1 DEF Unlock, WriterInOrder, WriterHolds, SecretTypes
  <2>2. CASE Crash(w)
    BY <1>1, <1>3, <2>2 DEF Crash, SecretTypes
  <2> QED
    BY <2>1, <2>2
<1>11. WriterInOrder(w)'
  BY <1>2, <1>7, <1>8, NoMemoryIs DEF WriterInOrder, NamesFiles
<1>12. WriterHolds(w)'
  BY <1>7 DEF WriterHolds, Critical
<1>13. SecretTypes' /\ OthersStay(w)
  <2>1. to \in WriterLabels
    BY DEF WriterLabels
  <2> QED
    BY <1>1, <1>2, <1>5, <1>6, <1>8, <1>9, <1>10, <2>1, NoMemoryIs DEF SecretTypes, OthersStay
<1> QED
  BY <1>2, <1>8, <1>9, <1>10, <1>11, <1>12, <1>13, WriterMoves

\* Metadata with the new version at its end.
Extended(m, v) == Append(m, Entry(records[v]))

LEMMA NamesAppended ==
    ASSUME SecretTypes, RecordsInOrder(records), NEW m \in Seq(MetadataEntry),
           NamesFiles(records, m), NEW v \in 1..MaxVersion, records[v] # Absent,
           \A i \in 1..Len(m) : m[i].version < v
    PROVE  /\ Extended(m, v) \in Seq(MetadataEntry) /\ NamesFiles(records, Extended(m, v))
           /\ Current(Extended(m, v)) = Entry(records[v])
           /\ \E i \in 1..Len(Extended(m, v)) : Extended(m, v)[i].version = v
           /\ \A i \in 1..Len(m) : /\ i \in 1..Len(Extended(m, v))
                                   /\ Extended(m, v)[i] = m[i]
<1> DEFINE n == Extended(m, v)
<1>1. records[v] \in WholeRecord
  BY DEF SecretTypes
<1>2. records[v].version = v /\ Entry(records[v]).version = v
  BY DEF RecordsInOrder, Entry
<1>3. Entry(records[v]) \in MetadataEntry
  BY <1>1, <1>2 DEF Entry, WholeRecord, MetadataEntry
<1> DEFINE e == Entry(records[v])
<1> HIDE DEF e
<1>4. /\ n \in Seq(MetadataEntry) /\ Len(n) = Len(m) + 1 /\ n[Len(m) + 1] = e
      /\ \A i \in 1..Len(m) : n[i] = m[i]
  BY <1>3 DEF e, Extended
<1> HIDE DEF n
<1>5. Len(m) \in Nat /\ Len(m) + 1 \in 1..Len(n)
  BY <1>4
<1>6. \A i \in 1..Len(m) : i \in 1..Len(n)
  BY <1>4, <1>5
<1>7. NamesFiles(records, n)
  <2>1. ASSUME NEW i \in 1..Len(n)
        PROVE  n[i] = Entry(records[n[i].version]) /\ records[n[i].version] # Absent
    <3>1. CASE i = Len(m) + 1
      BY <1>2, <1>4, <3>1 DEF e
    <3>2. CASE i \in 1..Len(m)
      BY <1>4, <3>2 DEF NamesFiles
    <3> QED
      BY <1>4, <1>5, <3>1, <3>2
  <2>2. ASSUME NEW i \in 1..Len(n), NEW j \in 1..Len(n), i < j
        PROVE  n[i].version < n[j].version
    <3>1. i \in 1..Len(m)
      BY <1>4, <1>5, <2>2
    <3>2. CASE j = Len(m) + 1
      BY <1>2, <1>4, <3>1, <3>2 DEF e
    <3>3. CASE j \in 1..Len(m)
      BY <1>4, <2>2, <3>1, <3>3 DEF NamesFiles
    <3> QED
      BY <1>4, <1>5, <3>2, <3>3
  <2> QED
    BY <2>1, <2>2 DEF NamesFiles
<1>8. Current(n) = e
  BY <1>4, <1>5 DEF Current
<1>9. n[Len(m) + 1].version = v
  BY <1>2, <1>4 DEF e
<1> QED
  BY <1>4, <1>5, <1>6, <1>7, <1>8, <1>9 DEF e, n

\* What metadata names does not change when a free version is written.
LEMMA NamesKept ==
    ASSUME SecretTypes, NEW v \in 1..MaxVersion, records[v] = Absent, NEW x,
           NEW m \in Seq(MetadataEntry), NamesFiles(records, m)
    PROVE  NamesFiles([records EXCEPT ![v] = x], m)
<1>1. ASSUME NEW i \in 1..Len(m)
      PROVE  /\ [records EXCEPT ![v] = x][m[i].version] = records[m[i].version]
  <2>1. m[i] \in MetadataEntry
    OBVIOUS
  <2>2. m[i].version \in 1..MaxVersion
    BY <2>1 DEF MetadataEntry
  <2>3. m[i].version # v
    BY DEF NamesFiles
  <2> QED
    BY <2>2, <2>3 DEF SecretTypes
<1> QED
  BY <1>1 DEF NamesFiles

\* link(2): the version file appears, or it was there.
LEMMA LinkStep ==
    ASSUME SecretsOrder, NEW w \in Writers, LinkVersion(w)
    PROVE  SecretsOrder'
<1>1. /\ SecretTypes /\ WriterInOrder(w) /\ writer[w] \in WriterMemory
      /\ ~overlapped => WriterHolds(w)
      /\ writerPc[w] = "linking"
  BY DEF SecretsOrder, SecretTypes, LinkVersion
<1>2. UNCHANGED <<masterKey, directory, metadata, lock, readerPc, reader, acknowledged, recent,
                  overlapped, secretFaults>>
  BY DEF LinkVersion
<1> DEFINE v == writer[w].next
           m(failed) == [writer[w] EXCEPT !.failed = failed]
<1>3. v \in 1..MaxVersion /\ \A i \in 1..Len(writer[w].metadata) : writer[w].metadata[i].version < v
  BY <1>1 DEF WriterInOrder
<1>4. ~overlapped => records[v] = Absent
  BY <1>1 DEF WriterHolds
<1>5. \A f \in BOOLEAN : /\ m(f) \in WriterMemory /\ m(f).failed = f
                         /\ m(f).metadata = writer[w].metadata /\ m(f).next = v
                         /\ m(f).operation = writer[w].operation
  BY <1>1 DEF WriterMemory
<1>6. CASE records[v] # Absent
  <2>1. records' = records /\ collided' = TRUE /\ writerPc' = [writerPc EXCEPT ![w] = "unlocking"]
    BY <1>6 DEF LinkVersion, Goto
  <2>2. writer' = [writer EXCEPT ![w] = m(TRUE)]
    BY <1>1, <1>6 DEF LinkVersion, SecretTypes
  <2> HIDE DEF m
  <2>3. writer'[w] = m(TRUE) /\ writerPc'[w] = "unlocking"
    BY <1>1, <2>1, <2>2 DEF SecretTypes
  <2>4. SecretTypes' /\ OthersStay(w)
    <3>1. "unlocking" \in WriterLabels
      BY DEF WriterLabels
    <3> QED
      BY <1>1, <1>2, <1>5, <2>1, <2>2, <3>1 DEF SecretTypes, OthersStay
  <2>5. WriterInOrder(w)'
    BY <1>1, <1>2, <1>5, <2>1, <2>3 DEF WriterInOrder, Critical
  <2>6. \A x \in Writers : WriterInOrder(x)'
    BY <1>2, <2>1, <2>4, <2>5 DEF SecretsOrder, WriterInOrder, OthersStay
  <2>7. overlapped /\ overlapped' /\ AcknowledgedIsKept'
    BY <1>1, <1>2, <1>4, <1>6 DEF AcknowledgedIsKept, SecretTypes
  <2>8. \A r \in Readers : ReaderInOrder(r)'
    BY <1>2, <2>1 DEF SecretsOrder, ReaderInOrder
  <2>9. RecordsInOrder(records)' /\ NamesFiles(records, metadata)'
    BY <1>2, <2>1 DEF SecretsOrder, RecordsInOrder, NamesFiles
  <2> QED
    BY <2>4, <2>6, <2>7, <2>8, <2>9 DEF SecretsOrder
<1>7. CASE records[v] = Absent
  <2>1. /\ records' = [records EXCEPT ![v] = Encrypted(w)]
        /\ writerPc' = [writerPc EXCEPT ![w] = "renaming"]
        /\ collided' \in BOOLEAN /\ (~overlapped => ~collided')
    BY <1>1, <1>7 DEF LinkVersion, Goto, SecretTypes, SecretsOrder, AcknowledgedIsKept
  <2>2. writer' = [writer EXCEPT ![w] = m(FALSE)]
    BY <1>1, <1>7 DEF LinkVersion, SecretTypes
  <2> HIDE DEF m
  <2>3. writer'[w] = m(FALSE) /\ writerPc'[w] = "renaming"
    BY <1>1, <2>1, <2>2 DEF SecretTypes
  <2>4. Encrypted(w) \in WholeRecord /\ Encrypted(w).version = v
    BY <1>1, <1>3 DEF Encrypted, WholeRecord, WriterMemory, WriterInOrder
  <2>5. Encrypted(w) # Absent
    BY <1>3, <2>4, PlatformConstants DEF Absent
  <2>6. SecretTypes' /\ OthersStay(w)
    <3>1. "renaming" \in WriterLabels
      BY DEF WriterLabels
    <3> QED
      BY <1>1, <1>2, <1>3, <1>5, <2>1, <2>2, <2>4, <3>1 DEF SecretTypes, OthersStay
  <2>7. records'[v] = Encrypted(w) /\ \A u \in (1..MaxVersion) \ {v} : records'[u] = records[u]
    BY <1>1, <1>3, <2>1 DEF SecretTypes
  <2> HIDE DEF v
  <2>8. RecordsInOrder(records)'
    <3>1. \A u \in 1..MaxVersion : records'[u] # Absent => records'[u].version = u
      BY <2>4, <2>7 DEF SecretsOrder, RecordsInOrder
    <3> QED
      BY <3>1 DEF RecordsInOrder
  <2>9. NamesFiles(records, metadata)'
    <3>1. NamesFiles(records', metadata)
      BY <1>1, <1>3, <1>7, <2>1, NamesKept DEF SecretsOrder, SecretTypes
    <3> QED
      BY <1>2, <3>1 DEF NamesFiles
  <2>10. ASSUME NEW x \in Writers PROVE WriterInOrder(x)'
    <3>1. writer[x] \in WriterMemory /\ writer[x].metadata \in Seq(MetadataEntry) /\ WriterInOrder(x)
      BY <1>1 DEF SecretTypes, SecretsOrder, WriterMemory
    <3>2. NamesFiles(records', writer[x].metadata)
      BY <1>1, <1>3, <1>7, <2>1, <3>1, NamesKept DEF WriterInOrder
    <3>3. writer'[x].metadata = writer[x].metadata
      BY <1>5, <2>3, <2>6 DEF OthersStay
    <3>4. NamesFiles(records, writer[x].metadata)'
      BY <3>2, <3>3 DEF NamesFiles
    <3>5. CASE x = w
      BY <1>1, <1>2, <1>3, <1>5, <2>3, <2>5, <2>7, <3>4, <3>5 DEF WriterInOrder, Critical, v
    <3>6. CASE x # w
      <4>1. writerPc'[x] = writerPc[x] /\ writer'[x] = writer[x]
        BY <2>6, <3>6 DEF OthersStay
      <4>2. writerPc[x] = "renaming" => records'[writer[x].next] # Absent
        BY <2>5, <2>7, <3>1 DEF WriterInOrder
      <4> QED
        BY <1>2, <3>1, <3>4, <4>1, <4>2 DEF WriterInOrder
    <3> QED
      BY <3>5, <3>6
  <2>11. ASSUME ~overlapped', NEW x \in Writers PROVE WriterHolds(x)'
    <3>1. ~overlapped /\ lock.by = w /\ lock.held
      BY <1>1, <1>2, <2>11 DEF WriterHolds, Critical
    <3>2. CASE x = w
      BY <1>1, <1>2, <1>5, <2>3, <3>1, <3>2 DEF WriterHolds, Critical
    <3>3. CASE x # w
      <4>1. writerPc[x] \notin Critical /\ writerPc'[x] = writerPc[x]
        BY <2>6, <3>1, <3>3 DEF WriterHolds, SecretsOrder, OthersStay
      <4> QED
        BY <4>1 DEF WriterHolds, Critical
    <3> QED
      BY <3>2, <3>3
  <2>12. AcknowledgedIsKept'
    BY <1>2, <2>1 DEF SecretsOrder, AcknowledgedIsKept
  <2>13. ASSUME NEW r \in Readers PROVE ReaderInOrder(r)'
    <3>1. ReaderInOrder(r) /\ reader[r] \in WholeRecord \cup {Absent}
      BY <1>1 DEF SecretsOrder, SecretTypes
    <3>2. ASSUME readerPc[r] \in {"opening", "read"}
          PROVE  records'[reader[r].version] = records[reader[r].version]
      <4>1. reader[r] \in WholeRecord /\ records[reader[r].version] # Absent
        BY <3>1, <3>2 DEF ReaderInOrder
      <4>2. reader[r].version \in 1..MaxVersion
        BY <4>1 DEF WholeRecord
      <4> QED
        BY <1>7, <2>7, <4>1, <4>2
    <3> QED
      BY <1>2, <3>1, <3>2 DEF ReaderInOrder
  <2> QED
    BY <2>6, <2>8, <2>9, <2>10, <2>11, <2>12, <2>13 DEF SecretsOrder
<1> QED
  BY <1>6, <1>7

\* rename(2): metadata names one version more, and every reader sees it from now on.
LEMMA RenameStep ==
    ASSUME SecretsOrder, NEW w \in Writers, RenameMetadata(w)
    PROVE  SecretsOrder'
<1> DEFINE v == writer[w].next
           m == writer[w].metadata
<1>1. /\ SecretTypes /\ WriterInOrder(w) /\ writer[w] \in WriterMemory
      /\ ~overlapped => WriterHolds(w)
      /\ writerPc[w] = "renaming"
  BY DEF SecretsOrder, SecretTypes, RenameMetadata
<1>2. /\ UNCHANGED <<masterKey, directory, records, lock, writer, readerPc, reader, acknowledged,
                     overlapped, collided, secretFaults>>
      /\ writerPc' = [writerPc EXCEPT ![w] = "unlocking"]
      /\ metadata' = Extended(m, v)
      /\ recent' = [r \in Readers |-> recent[r] \cup {Current(metadata').recordSha256}]
  BY DEF RenameMetadata, Goto, Extended
<1>3. /\ v \in 1..MaxVersion /\ records[v] # Absent
      /\ m \in Seq(MetadataEntry) /\ NamesFiles(records, m)
      /\ \A i \in 1..Len(m) : m[i].version < v
  BY <1>1 DEF WriterInOrder, WriterMemory
<1> HIDE DEF v, m
<1>4. /\ metadata' \in Seq(MetadataEntry) /\ NamesFiles(records, metadata')
      /\ Current(metadata') = Entry(records[v])
      /\ \E i \in 1..Len(metadata') : metadata'[i].version = v
      /\ \A i \in 1..Len(m) : i \in 1..Len(metadata') /\ metadata'[i] = m[i]
  <2>1. RecordsInOrder(records)
    BY DEF SecretsOrder
  <2> QED
    BY <1>1, <1>2, <1>3, <2>1, NamesAppended
<1>5. records[v] \in WholeRecord /\ Current(metadata').recordSha256 = records[v]
  BY <1>1, <1>3, <1>4 DEF Entry, SecretTypes
<1>6. recent' \in [Readers -> SUBSET WholeRecord] /\ \A r \in Readers : recent[r] \subseteq recent'[r]
  BY <1>1, <1>2, <1>5 DEF SecretTypes
<1>7. writerPc'[w] = "unlocking" /\ OthersStay(w)
  BY <1>1, <1>2 DEF SecretTypes, OthersStay
<1>8. SecretTypes'
  <2>1. "unlocking" \in WriterLabels
    BY DEF WriterLabels
  <2> QED
    BY <1>1, <1>2, <1>4, <1>6, <2>1 DEF SecretTypes
<1>9. RecordsInOrder(records)' /\ NamesFiles(records, metadata)'
  BY <1>2, <1>4 DEF SecretsOrder, RecordsInOrder, NamesFiles
<1>10. ASSUME NEW x \in Writers PROVE WriterInOrder(x)'
  <2>1. CASE x = w
    BY <1>1, <1>2, <1>3, <1>7, <2>1 DEF WriterInOrder, Critical, NamesFiles, v, m
  <2>2. CASE x # w
    BY <1>2, <1>7, <2>2 DEF SecretsOrder, WriterInOrder, OthersStay, NamesFiles
  <2> QED
    BY <2>1, <2>2
<1>11. ~overlapped' => \A u \in acknowledged' : IsNamed(u)'
  <2> SUFFICES ASSUME ~overlapped', NEW u \in acknowledged' PROVE IsNamed(u)'
    OBVIOUS
  <2>1. m = metadata
    BY <1>1, <1>2 DEF WriterHolds, m
  <2>2. PICK i \in 1..Len(metadata) : metadata[i].version = u
    BY <1>2 DEF SecretsOrder, AcknowledgedIsKept
  <2>3. i \in 1..Len(metadata') /\ metadata'[i].version = u
    BY <1>4, <2>1, <2>2
  <2> QED
    BY <2>3 DEF IsNamed
<1>12. ASSUME ~overlapped', NEW x \in Writers PROVE WriterHolds(x)'
  <2>1. ~overlapped /\ lock.by = w /\ lock.held
    BY <1>1, <1>2, <1>12 DEF WriterHolds, Critical
  <2>2. CASE x = w
    <3>1. v = writer'[w].next
      BY <1>2 DEF v
    <3>2. IsNamed(writer[w].next)'
      BY <1>4, <3>1 DEF IsNamed
    <3> QED
      BY <1>2, <1>7, <2>1, <2>2, <3>2 DEF WriterHolds, Critical
  <2>3. CASE x # w
    <3>1. writerPc[x] \notin Critical /\ writerPc'[x] = writerPc[x]
      BY <1>7, <2>1, <2>3 DEF WriterHolds, SecretsOrder, OthersStay
    <3> QED
      BY <3>1 DEF WriterHolds, Critical
  <2> QED
    BY <2>2, <2>3
<1>13. AcknowledgedIsKept'
  BY <1>2, <1>11 DEF SecretsOrder, AcknowledgedIsKept, IsNamed
<1>14. \A r \in Readers : ReaderInOrder(r)'
  BY <1>2, <1>6 DEF SecretsOrder, ReaderInOrder
<1> QED
  BY <1>8, <1>9, <1>10, <1>12, <1>13, <1>14 DEF SecretsOrder

\* Time passes over a lock file; the key file is replaced.
LEMMA WorldSteps ==
    ASSUME SecretsOrder, Age \/ ReplaceKey
    PROVE  SecretsOrder'
<1>1. SecretTypes /\ lock \in LockFile
  BY DEF SecretsOrder, SecretTypes
<1>2. UNCHANGED <<directory, records, metadata, writerPc, writer, readerPc, reader, acknowledged,
                  recent, overlapped, collided>>
  BY DEF Age, ReplaceKey
<1>3. secretFaults' \in 0..MaxFaults
  BY <1>1, PlatformConstants DEF SecretTypes, Age, ReplaceKey, Fault
<1>4. masterKey' \in Keys
  BY <1>1 DEF SecretTypes, Age, ReplaceKey
<1>5. lock' \in LockFile /\ lock'.by = lock.by /\ lock'.held = lock.held
  <2>1. CASE Age
    BY <1>1, <2>1 DEF Age, LockFile
  <2>2. CASE ReplaceKey
    BY <1>1, <2>2 DEF ReplaceKey
  <2> QED
    BY <2>1, <2>2
<1>6. SecretTypes'
  BY <1>1, <1>2, <1>3, <1>4, <1>5 DEF SecretTypes
<1>7. \A w \in Writers : WriterInOrder(w)'
  BY <1>2, <1>5 DEF SecretsOrder, WriterInOrder, NamesFiles
<1>8. ~overlapped' => \A w \in Writers : WriterHolds(w)'
  BY <1>2, <1>5 DEF SecretsOrder, WriterHolds, IsNamed
<1>9. RecordsInOrder(records)' /\ NamesFiles(records, metadata)' /\ AcknowledgedIsKept'
  BY <1>2 DEF SecretsOrder, RecordsInOrder, NamesFiles, AcknowledgedIsKept
<1>10. \A r \in Readers : ReaderInOrder(r)'
  BY <1>2 DEF SecretsOrder, ReaderInOrder
<1> QED
  BY <1>6, <1>7, <1>8, <1>9, <1>10 DEF SecretsOrder

\* A reader finds the current version, and then its file as metadata named it.
LEMMA ReaderSteps ==
    ASSUME SecretsOrder, NEW r \in Readers, ReadMetadata(r) \/ ReadRecord(r)
    PROVE  SecretsOrder'
<1>1. SecretTypes /\ ReaderInOrder(r) /\ RecordsInOrder(records) /\ NamesFiles(records, metadata)
  BY DEF SecretsOrder
<1>2. UNCHANGED <<masterKey, directory, records, metadata, lock, writerPc, writer, acknowledged,
                  overlapped, collided, secretFaults>>
  BY DEF ReadMetadata, ReadRecord
<1>3. ASSUME metadata # <<>>
      PROVE  /\ Current(metadata).recordSha256 \in WholeRecord
             /\ Current(metadata).operation \in Operations
             /\ Current(metadata).operation = Current(metadata).recordSha256.operation
             /\ Current(metadata).recordSha256 = records[Current(metadata).recordSha256.version]
  <2> DEFINE e == Current(metadata)
  <2>1. Len(metadata) \in 1..Len(metadata) /\ e = metadata[Len(metadata)]
    BY <1>1, <1>3 DEF SecretTypes, Current
  <2>2. e \in MetadataEntry
    BY <1>1, <2>1 DEF SecretTypes
  <2>3. e = Entry(records[e.version]) /\ records[e.version] # Absent /\ e.version \in 1..MaxVersion
    BY <1>1, <2>1, <2>2 DEF NamesFiles, MetadataEntry
  <2> HIDE DEF e
  <2>4. records[e.version].version = e.version
    BY <1>1, <2>3 DEF RecordsInOrder
  <2>5. e.recordSha256 = records[e.version] /\ e.operation = records[e.version].operation
    BY <2>3 DEF Entry
  <2>6. e.recordSha256 \in WholeRecord /\ e.operation \in Operations
    BY <2>2 DEF MetadataEntry
  <2> QED
    BY <2>4, <2>5, <2>6 DEF e
<1>4. /\ reader' \in [Readers -> WholeRecord \cup {Absent}]
      /\ recent' \in [Readers -> SUBSET WholeRecord]
      /\ readerPc' \in [Readers -> {"reading", "NOT_FOUND", "opening", "KEY_MISMATCH", "read"}]
      /\ \A q \in Readers \ {r} : readerPc'[q] = readerPc[q] /\ reader'[q] = reader[q] /\ recent'[q] = recent[q]
      /\ ReaderInOrder(r)'
  <2>1. CASE ReadMetadata(r) /\ Deleted(metadata)
    <3>1. readerPc' = [readerPc EXCEPT ![r] = "NOT_FOUND"] /\ reader' = [reader EXCEPT ![r] = Absent]
      BY <2>1 DEF ReadMetadata
    <3>2. PICK S \in SUBSET WholeRecord : recent' = [recent EXCEPT ![r] = S]
      <4>1. CASE metadata = <<>>
        BY <2>1, <4>1 DEF ReadMetadata
      <4>2. CASE metadata # <<>>
        <5>1. {Current(metadata).recordSha256} \in SUBSET WholeRecord
          BY <1>3, <4>2
        <5> QED
          BY <2>1, <4>2, <5>1 DEF ReadMetadata
      <4> QED
        BY <4>1, <4>2
    <3> QED
      BY <1>1, <3>1, <3>2 DEF SecretTypes, ReaderInOrder
  <2>2. CASE ReadMetadata(r) /\ ~Deleted(metadata)
    <3> DEFINE c == Current(metadata).recordSha256
    <3>1. metadata # <<>> /\ Current(metadata).operation # "DELETE"
      BY <2>2 DEF Deleted
    <3>2. c \in WholeRecord /\ c.operation = "WRITE" /\ c = records[c.version]
      BY <1>3, <3>1 DEF Operations
    <3>3. /\ readerPc' = [readerPc EXCEPT ![r] = "opening"] /\ reader' = [reader EXCEPT ![r] = c]
          /\ recent' = [recent EXCEPT ![r] = {c}]
      BY <2>2, <3>1 DEF ReadMetadata
    <3> HIDE DEF c
    <3>4. c # Absent
      BY <3>2, PlatformConstants DEF WholeRecord, Absent
    <3> QED
      BY <1>1, <1>2, <3>2, <3>3, <3>4 DEF SecretTypes, ReaderInOrder
  <2>3. CASE ReadRecord(r)
    <3>1. Opened(r) = reader[r] /\ readerPc[r] = "opening"
      BY <1>1, <2>3 DEF ReadRecord, Opened, ReaderInOrder
    <3>2. PICK to \in {"KEY_MISMATCH", "read"} : readerPc' = [readerPc EXCEPT ![r] = to]
      BY <2>3 DEF ReadRecord
    <3>3. reader' = [reader EXCEPT ![r] = reader[r]] /\ recent' = recent
      BY <2>3, <3>1 DEF ReadRecord
    <3>4. reader' = reader
      BY <1>1, <3>3 DEF SecretTypes
    <3>5. readerPc'[r] \in {"KEY_MISMATCH", "read"}
      BY <1>1, <3>2 DEF SecretTypes
    <3> QED
      BY <1>1, <1>2, <3>1, <3>2, <3>3, <3>4, <3>5 DEF SecretTypes, ReaderInOrder
  <2> QED
    BY <2>1, <2>2, <2>3
<1>5. SecretTypes'
  BY <1>1, <1>2, <1>4 DEF SecretTypes
<1>6. \A q \in Readers : ReaderInOrder(q)'
  BY <1>2, <1>4 DEF SecretsOrder, ReaderInOrder
<1>7. \A w \in Writers : WriterInOrder(w)'
  BY <1>2 DEF SecretsOrder, WriterInOrder, NamesFiles
<1>8. ~overlapped' => \A w \in Writers : WriterHolds(w)'
  BY <1>2 DEF SecretsOrder, WriterHolds, IsNamed
<1>9. RecordsInOrder(records)' /\ NamesFiles(records, metadata)' /\ AcknowledgedIsKept'
  BY <1>2 DEF SecretsOrder, RecordsInOrder, NamesFiles, AcknowledgedIsKept
<1> QED
  BY <1>5, <1>6, <1>7, <1>8, <1>9 DEF SecretsOrder

LEMMA SecretsBegin == PlatformInit => SecretsOrder
<1> SUFFICES ASSUME PlatformInit PROVE SecretsOrder
  OBVIOUS
<1>1. Init /\ (moving # "secrets" => masterKey = StoreKey)
  BY DEF PlatformInit, Or
<1>2. "idle" \in WriterLabels /\ NoMemory \in WriterMemory /\ NoMemory.metadata = <<>>
  BY NoMemoryIs DEF WriterLabels
<1>3. Free \in LockFile /\ Free.by = Nobody /\ \A w \in Writers : w # Nobody
  BY PlatformConstants DEF Free, LockFile, Nobody
<1>4. SecretTypes
  <2>1. masterKey \in Keys /\ directory \in BOOLEAN /\ lock \in LockFile
    BY <1>1, <1>3 DEF Init
  <2>2. records \in [1..MaxVersion -> WholeRecord \cup {Absent}]
    BY <1>1 DEF Init
  <2>3. metadata \in Seq(MetadataEntry) /\ acknowledged \subseteq 1..MaxVersion
    BY <1>1 DEF Init
  <2>4. writerPc \in [Writers -> WriterLabels] /\ writer \in [Writers -> WriterMemory]
    BY <1>1, <1>2 DEF Init
  <2>5. /\ readerPc \in [Readers -> {"reading", "NOT_FOUND", "opening", "KEY_MISMATCH", "read"}]
        /\ reader \in [Readers -> WholeRecord \cup {Absent}]
        /\ recent \in [Readers -> SUBSET WholeRecord]
    BY <1>1 DEF Init
  <2>6. overlapped \in BOOLEAN /\ collided \in BOOLEAN
    BY <1>1 DEF Init
  <2>7. secretFaults \in 0..MaxFaults
    <3>1. secretFaults = 0
      BY <1>1 DEF Init
    <3> QED
      BY <3>1, PlatformConstants
  <2> QED
    BY <2>1, <2>2, <2>3, <2>4, <2>5, <2>6, <2>7 DEF SecretTypes
<1>5. RecordsInOrder(records) /\ NamesFiles(records, metadata)
  BY <1>1 DEF Init, RecordsInOrder, NamesFiles
<1>6. \A w \in Writers : writerPc[w] = "idle" /\ writer[w] = NoMemory
  BY <1>1 DEF Init
<1>7. \A w \in Writers : WriterInOrder(w)
  BY <1>1, <1>2, <1>3, <1>6 DEF Init, WriterInOrder, NamesFiles
<1>8. \A w \in Writers : WriterHolds(w)
  BY <1>6 DEF WriterHolds, Critical
<1>9. AcknowledgedIsKept /\ \A r \in Readers : ReaderInOrder(r)
  BY <1>1 DEF Init, AcknowledgedIsKept, ReaderInOrder
<1> QED
  BY <1>4, <1>5, <1>7, <1>8, <1>9 DEF SecretsOrder

LEMMA SecretsMove == SecretsOrder /\ Next => SecretsOrder'
<1> SUFFICES ASSUME SecretsOrder, Next PROVE SecretsOrder'
  OBVIOUS
<1>1. ASSUME NEW w \in Writers, Begin(w) \/ TakeLock(w) \/ GiveUp(w) \/ SeeStale(w) \/ Steal(w)
      PROVE  SecretsOrder'
  BY <1>1, LockSteps
<1>2. ASSUME NEW w \in Writers, Load(w) \/ KeyRefused(w) \/ CallFails(w) \/ SyncFails(w)
      PROVE  SecretsOrder'
  BY <1>2, LoadSteps
<1>3. ASSUME NEW w \in Writers, Unlock(w) \/ Crash(w) PROVE SecretsOrder'
  BY <1>3, LeaveSteps
<1>4. ASSUME NEW w \in Writers, LinkVersion(w) PROVE SecretsOrder'
  BY <1>4, LinkStep
<1>5. ASSUME NEW w \in Writers, RenameMetadata(w) PROVE SecretsOrder'
  BY <1>5, RenameStep
<1>6. ASSUME NEW r \in Readers, ReadMetadata(r) \/ ReadRecord(r) PROVE SecretsOrder'
  BY <1>6, ReaderSteps
<1> QED
  BY <1>1, <1>2, <1>3, <1>4, <1>5, <1>6, WorldSteps DEF Next

LEMMA SecretsStay == SecretsOrder /\ UNCHANGED secretVars => SecretsOrder'
<1> SUFFICES ASSUME SecretsOrder, UNCHANGED secretVars PROVE SecretsOrder'
  OBVIOUS
<1>1. UNCHANGED <<masterKey, directory, records, metadata, lock, writerPc, writer, readerPc,
                  reader, acknowledged, recent, overlapped, collided, secretFaults>>
  BY DEF secretVars
<1>2. SecretTypes'
  BY <1>1 DEF SecretsOrder, SecretTypes
<1>3. \A w \in Writers : WriterInOrder(w)'
  BY <1>1 DEF SecretsOrder, WriterInOrder, NamesFiles
<1>4. ~overlapped' => \A w \in Writers : WriterHolds(w)'
  BY <1>1 DEF SecretsOrder, WriterHolds, IsNamed
<1>5. RecordsInOrder(records)' /\ NamesFiles(records, metadata)' /\ AcknowledgedIsKept'
  BY <1>1 DEF SecretsOrder, RecordsInOrder, NamesFiles, AcknowledgedIsKept
<1>6. \A r \in Readers : ReaderInOrder(r)'
  BY <1>1 DEF SecretsOrder, ReaderInOrder
<1> QED
  BY <1>2, <1>3, <1>4, <1>5, <1>6 DEF SecretsOrder

LEMMA PlatformMovesSecrets == [PlatformNext]_platformVars => Next \/ UNCHANGED secretVars
BY DEF PlatformNext, platformVars, MoveSecrets, MoveInitialise, MoveBackup, MoveMigrate,
       MoveConnection, MoveSessions, MoveKeys, MoveTenants, MoveBreaker, MoveAnswers,
       MoveDocumentPdf, MoveRepresentation, MoveDocuments, MoveLookups, MoveReadiness

\* The order is more than what is promised.
LEMMA SecretsOrderIsEnough == SecretsOrder => SecretsInv
<1> SUFFICES ASSUME SecretsOrder PROVE SecretsInv
  OBVIOUS
<1>1. SecretTypes /\ RecordsInOrder(records) /\ NamesFiles(records, metadata)
  BY DEF SecretsOrder
<1>2. \A v \in 1..MaxVersion : records[v] \in WholeRecord \/ records[v] = Absent
  BY <1>1 DEF SecretTypes
<1>3. \A v \in 1..MaxVersion : /\ records[v].operation \in Operations \cup {"NONE"}
                               /\ records[v].key = StoreKey
  BY <1>2 DEF WholeRecord, Absent
<1>4. TypeOK
  BY <1>1, <1>3 DEF SecretTypes, LockFile, TypeOK
<1>5. \A i \in 1..Len(metadata) :
         /\ metadata[i].version \in 1..MaxVersion /\ metadata[i].operation \in Operations
         /\ RecordMatches(records[metadata[i].version], metadata[i])
         /\ records[metadata[i].version].key = StoreKey
  <2> SUFFICES ASSUME NEW i \in 1..Len(metadata)
               PROVE  /\ metadata[i].version \in 1..MaxVersion /\ metadata[i].operation \in Operations
                      /\ RecordMatches(records[metadata[i].version], metadata[i])
                      /\ records[metadata[i].version].key = StoreKey
    OBVIOUS
  <2>1. metadata[i] \in MetadataEntry
    BY <1>1 DEF SecretTypes
  <2>2. metadata[i].version \in 1..MaxVersion /\ metadata[i].operation \in Operations
    BY <2>1 DEF MetadataEntry
  <2>3. metadata[i] = Entry(records[metadata[i].version])
    BY <1>1 DEF NamesFiles
  <2>4. RecordMatches(records[metadata[i].version], metadata[i])
    BY <2>3 DEF RecordMatches, Entry
  <2> QED
    BY <1>3, <2>2, <2>4
<1>6. metadata # <<>> => MetadataIsValid(metadata)
  <2> SUFFICES ASSUME metadata # <<>> PROVE MetadataIsValid(metadata)
    OBVIOUS
  <2>1. Len(metadata) \in Nat /\ Len(metadata) >= 1
    BY <1>1 DEF SecretTypes
  <2>2. ASSUME NEW i \in 1..Len(metadata)
        PROVE  /\ metadata[i].version >= 1 /\ metadata[i].operation \in Operations
               /\ i > 1 => metadata[i].version > metadata[i-1].version
    <3>1. metadata[i].version \in 1..MaxVersion /\ metadata[i].operation \in Operations /\ MaxVersion \in Nat
      BY <1>5, PlatformConstants
    <3>2. ASSUME i > 1 PROVE metadata[i].version > metadata[i-1].version
      <4>1. i - 1 \in 1..Len(metadata) /\ i - 1 < i
        BY <2>1, <3>2
      <4>2. metadata[i-1].version < metadata[i].version
        BY <1>1, <4>1 DEF NamesFiles
      <4>3. metadata[i-1].version \in 1..MaxVersion
        BY <1>5, <4>1
      <4> QED
        BY <3>1, <4>2, <4>3
    <3> QED
      BY <3>1, <3>2
  <2> QED
    BY <2>1, <2>2 DEF MetadataIsValid
<1>7. NeverDamaged
  <2>1. EnsureReady # "SECRET_INTEGRITY_FAILED"
    <3>1. CASE ~KeyCheck(masterKey) \/ metadata = <<>>
      BY <3>1 DEF EnsureReady
    <3>2. CASE KeyCheck(masterKey) /\ metadata # <<>>
      <4>1. masterKey = StoreKey /\ MetadataIsValid(metadata)
        BY <1>6, <3>2 DEF KeyCheck
      <4> QED
        BY <1>5, <3>2, <4>1 DEF EnsureReady
    <3> QED
      BY <3>1, <3>2
  <2> QED
    BY <1>3, <2>1 DEF NeverDamaged
<1>8. ReadIsRecent
  BY DEF SecretsOrder, ReaderInOrder, ReadIsRecent
<1>9. AcknowledgedIsKept
  BY DEF SecretsOrder
<1> QED
  BY <1>4, <1>7, <1>8, <1>9 DEF SecretsInv

\* SecretsInv: whatever overlaps, dies or fails, startup never finds the store damaged, a
\* reader gets what was current, and what was acknowledged stays while no live writer lost
\* its lock (encrypted-file-secret-provider.adapter.ts).
THEOREM SecretsCorrect == PlatformSpec => []SecretsInv
<1>1. PlatformInit => SecretsOrder
  BY SecretsBegin
<1>2. SecretsOrder /\ [PlatformNext]_platformVars => SecretsOrder'
  BY PlatformMovesSecrets, SecretsMove, SecretsStay
<1>3. SecretsOrder => SecretsInv
  BY SecretsOrderIsEnough
<1> QED
  BY <1>1, <1>2, <1>3, PTL DEF PlatformSpec

\* StoreInv: the store keeps its secrets while it is written, and while it is made, backed
\* up, restored and filled (the adapter and the scripts around it).
THEOREM StoreCorrect == PlatformSpec => []StoreInv
BY SecretsCorrect, OperationsCorrect, PTL DEF StoreInv

-----------------------------------------------------------------------------
(* HaciendaCircuitBreaker: the rate, and what a half-open circuit waits for *)

\* The stamps are the requests still to be counted: the end of those sent, in order of
\* time, and every request before them has left the window.
StampsOrder ==
    /\ stamps \in Seq(Nat) /\ sends \in Seq(Nat) /\ Len(stamps) <= Len(sends)
    /\ \A i \in 1..Len(sends) : sends[i] <= clock
    /\ \A i, j \in 1..Len(sends) : i <= j => sends[i] <= sends[j]
    /\ \A i \in 1..Len(stamps) : stamps[i] = sends[(Len(sends) - Len(stamps)) + i]
    /\ \A i \in 1..(Len(sends) - Len(stamps)) : sends[i] + Window <= clock

Places == {"begin", "answered", "rejected", "limited", "sent", "unavailable"}

BreakerOrder == callPc \in [Calls -> Places] /\ StampsOrder /\ Breaker!BreakerInv

\* Numbers have a least one.
LEMMA LeastOf ==
    ASSUME NEW S, S \subseteq Nat, S # {}
    PROVE  \E k \in S : \A i \in S : k <= i
<1> DEFINE Below == OpToRel(<, Nat)
<1>1. \A i, k \in Nat : i < k => <<i, k>> \in Below
  BY DEF OpToRel
<1>2. IsWellFoundedOn(Below, Nat)
  BY NatLessThanWellFounded
<1> HIDE DEF Below
<1>3. \E k \in S : \A i \in S : <<i, k>> \notin Below
  BY <1>2, WFMin, Zenon
<1>4. \A i, k \in S : <<i, k>> \notin Below => k <= i
  <2> SUFFICES ASSUME NEW i \in S, NEW k \in S, <<i, k>> \notin Below PROVE k <= i
    OBVIOUS
  <2>1. i \in Nat /\ k \in Nat /\ ~(i < k)
    BY <1>1
  <2> QED
    BY <2>1
<1> QED
  BY <1>3, <1>4

\* What the filter keeps is the end of the sends too, and the rest has left the window.
LEMMA RecentIs ==
    ASSUME StampsOrder, Breaker!TypeOK
    PROVE  /\ Breaker!Recent \in Seq(Nat) /\ Len(Breaker!Recent) <= Len(sends)
           /\ \A i \in 1..Len(Breaker!Recent) :
                 Breaker!Recent[i] = sends[(Len(sends) - Len(Breaker!Recent)) + i]
           /\ \A i \in 1..(Len(sends) - Len(Breaker!Recent)) : sends[i] + Window <= clock
<1> DEFINE kept == {i \in 1..Len(stamps) : stamps[i] + Window > clock}
           n == Len(stamps)
           m == Len(sends)
<1>1. /\ n \in Nat /\ m \in Nat /\ n <= m /\ clock \in Nat /\ Window \in Nat
      /\ stamps \in Seq(Nat) /\ sends \in Seq(Nat)
  BY PlatformConstants DEF StampsOrder, Breaker!TypeOK
<1>2. Breaker!Recent = IF kept = {} THEN <<>> ELSE SubSeq(stamps, Breaker!Min(kept), n)
  BY DEF Breaker!Recent, Breaker!From
<1>3. /\ \A i \in 1..n : stamps[i] = sends[(m - n) + i]
      /\ \A i \in 1..(m - n) : sends[i] + Window <= clock
      /\ \A i \in 1..n : i \notin kept => stamps[i] + Window <= clock
      /\ \A i, j \in 1..m : i <= j => sends[i] <= sends[j]
  <2>1. \A i \in 1..n : i \notin kept => stamps[i] + Window <= clock
    <3> SUFFICES ASSUME NEW i \in 1..n, i \notin kept PROVE stamps[i] + Window <= clock
      OBVIOUS
    <3>1. stamps[i] \in Nat /\ ~(stamps[i] + Window > clock)
      BY <1>1
    <3> QED
      BY <1>1, <3>1
  <2> QED
    BY <2>1 DEF StampsOrder
<1> HIDE DEF kept
<1>4. CASE kept = {}
  <2>1. Breaker!Recent = <<>> /\ Len(Breaker!Recent) = 0
    BY <1>2, <1>4
  <2>2. \A i \in 1..m : sends[i] + Window <= clock
    <3> SUFFICES ASSUME NEW i \in 1..m PROVE sends[i] + Window <= clock
      OBVIOUS
    <3>1. CASE i > m - n
      <4>1. i - (m - n) \in 1..n /\ (m - n) + (i - (m - n)) = i
        BY <1>1, <3>1
      <4> QED
        BY <1>3, <1>4, <4>1
    <3> QED
      BY <1>1, <1>3, <3>1
  <2> QED
    BY <1>1, <2>1, <2>2
<1>5. CASE kept # {}
  <2> DEFINE a == Breaker!Min(kept)
  <2>1. a \in kept /\ \A i \in kept : a <= i
    <3>1. kept \subseteq Nat
      BY <1>1 DEF kept
    <3>2. PICK k \in kept : \A i \in kept : k <= i
      BY <1>5, <3>1, LeastOf
    <3> QED
      BY <3>2 DEF Breaker!Min
  <2> HIDE DEF a
  <2>2. a \in 1..n
    BY <2>1 DEF kept
  <2> DEFINE r == Breaker!Recent
  <2>3. r = SubSeq(stamps, a, n)
    BY <1>2, <1>5 DEF a
  <2> HIDE DEF r
  <2>4. /\ r \in Seq(Nat) /\ Len(r) = (n - a) + 1
        /\ \A i \in 1..Len(r) : r[i] = stamps[(a + i) - 1]
    BY <1>1, <2>2, <2>3, SMTT(30)
  <2>5. \A i \in 1..Len(r) : r[i] = sends[(m - Len(r)) + i]
    <3> SUFFICES ASSUME NEW i \in 1..Len(r) PROVE r[i] = sends[(m - Len(r)) + i]
      OBVIOUS
    <3>1. (a + i) - 1 \in 1..n /\ (m - n) + ((a + i) - 1) = (m - Len(r)) + i
      BY <1>1, <2>2, <2>4
    <3> QED
      BY <1>3, <2>4, <3>1
  <2>6. \A i \in 1..(m - Len(r)) : sends[i] + Window <= clock
    <3> SUFFICES ASSUME NEW i \in 1..(m - Len(r)) PROVE sends[i] + Window <= clock
      OBVIOUS
    <3>1. CASE i <= m - n
      BY <1>1, <1>3, <3>1
    <3>2. CASE i > m - n
      <4>1. /\ i \in Nat /\ i <= m - ((n - a) + 1) /\ a \in Nat /\ 1 <= a /\ a <= n
        BY <1>1, <2>2, <2>4
      <4>2. i - (m - n) \in 1..n /\ (m - n) + (i - (m - n)) = i /\ i - (m - n) < a
        BY <1>1, <3>2, <4>1
      <4>3. i - (m - n) \notin kept
        BY <1>1, <2>1, <2>2, <4>2
      <4> QED
        BY <1>3, <4>2, <4>3
    <3> QED
      BY <1>1, <2>2, <2>4, <3>1, <3>2
  <2>7. Len(r) <= m
    BY <1>1, <2>2, <2>4
  <2> QED
    BY <2>4, <2>5, <2>6, <2>7 DEF r
<1> QED
  BY <1>4, <1>5

\* A request joins the sends and the stamps kept; those it joins are too few to fill the
\* window, so the one MaxPerWindow before it has left.
LEMMA SendStep ==
    ASSUME BreakerOrder, NEW c \in Calls, Breaker!Send(c)
    PROVE  StampsOrder' /\ Breaker!RateIsBounded'
<1> DEFINE r == Breaker!Recent
           m == Len(sends)
           k == Len(r)
<1>1. /\ stamps' = Append(r, clock) /\ sends' = Append(sends, clock) /\ clock' = clock
      /\ k < MaxPerWindow
  BY DEF Breaker!Send
<1>2. /\ r \in Seq(Nat) /\ k <= m
      /\ \A i \in 1..k : r[i] = sends[(m - k) + i]
      /\ \A i \in 1..(m - k) : sends[i] + Window <= clock
  BY RecentIs DEF BreakerOrder, Breaker!BreakerInv
<1> HIDE DEF r
<1>3. /\ sends \in Seq(Nat) /\ clock \in Nat /\ Window \in Nat /\ MaxPerWindow \in Nat
      /\ \A i \in 1..m : sends[i] <= clock
      /\ \A i, j \in 1..m : i <= j => sends[i] <= sends[j]
      /\ \A i \in 1..(m - MaxPerWindow) : sends[i] + Window <= sends[i + MaxPerWindow]
  BY PlatformConstants
  DEF BreakerOrder, StampsOrder, Breaker!BreakerInv, Breaker!TypeOK, Breaker!RateIsBounded
<1>4. m \in Nat /\ k \in Nat
  BY <1>2, <1>3
<1>5. /\ stamps' \in Seq(Nat) /\ Len(stamps') = k + 1 /\ stamps'[k + 1] = clock
      /\ \A i \in 1..k : stamps'[i] = r[i]
  BY <1>1, <1>2, <1>3
<1>6. /\ sends' \in Seq(Nat) /\ Len(sends') = m + 1 /\ sends'[m + 1] = clock
      /\ \A i \in 1..m : sends'[i] = sends[i]
  BY <1>1, <1>3
<1> HIDE DEF m, k
<1>7. \A i \in 1..(m + 1) : sends'[i] <= clock
  <2> SUFFICES ASSUME NEW i \in 1..(m + 1) PROVE sends'[i] <= clock
    OBVIOUS
  <2>1. CASE i = m + 1
    BY <1>3, <1>6, <2>1
  <2>2. CASE i \in 1..m
    BY <1>3, <1>6, <2>2
  <2> QED
    BY <1>4, <2>1, <2>2
<1>8. \A i, j \in 1..(m + 1) : i <= j => sends'[i] <= sends'[j]
  <2> SUFFICES ASSUME NEW i \in 1..(m + 1), NEW j \in 1..(m + 1), i <= j
               PROVE  sends'[i] <= sends'[j]
    OBVIOUS
  <2>1. CASE j = m + 1
    BY <1>6, <1>7, <2>1
  <2>2. CASE j \in 1..m
    <3>1. i \in 1..m
      BY <1>4, <2>2
    <3> QED
      BY <1>3, <1>6, <2>2, <3>1
  <2> QED
    BY <1>4, <2>1, <2>2
<1>9. \A i \in 1..(k + 1) : stamps'[i] = sends'[((m + 1) - (k + 1)) + i]
  <2> SUFFICES ASSUME NEW i \in 1..(k + 1) PROVE stamps'[i] = sends'[((m + 1) - (k + 1)) + i]
    OBVIOUS
  <2>1. CASE i = k + 1
    <3>1. ((m + 1) - (k + 1)) + i = m + 1
      BY <1>4, <2>1
    <3> QED
      BY <1>5, <1>6, <2>1, <3>1
  <2>2. CASE i \in 1..k
    <3>1. ((m + 1) - (k + 1)) + i = (m - k) + i /\ (m - k) + i \in 1..m
      BY <1>2, <1>4, <2>2 DEF m, k
    <3> QED
      BY <1>2, <1>5, <1>6, <2>2, <3>1 DEF m, k
  <2> QED
    BY <1>4, <2>1, <2>2
<1>10. \A i \in 1..((m + 1) - (k + 1)) : sends'[i] + Window <= clock
  <2> SUFFICES ASSUME NEW i \in 1..((m + 1) - (k + 1)) PROVE sends'[i] + Window <= clock
    OBVIOUS
  <2>1. i \in 1..(m - k) /\ i \in 1..m
    BY <1>4
  <2>2. sends[i] + Window <= clock
    BY <1>2, <2>1 DEF m, k
  <2> QED
    BY <1>6, <2>1, <2>2
<1>11. \A i \in 1..((m + 1) - MaxPerWindow) : sends'[i] + Window <= sends'[i + MaxPerWindow]
  <2> SUFFICES ASSUME NEW i \in 1..((m + 1) - MaxPerWindow)
               PROVE  sends'[i] + Window <= sends'[i + MaxPerWindow]
    OBVIOUS
  <2>1. CASE i = (m + 1) - MaxPerWindow
    <3>1. i + MaxPerWindow = m + 1 /\ i \in 1..((m + 1) - (k + 1))
      BY <1>1, <1>3, <1>4, <2>1 DEF m, k
    <3> QED
      BY <1>6, <1>10, <3>1
  <2>2. CASE i # (m + 1) - MaxPerWindow
    <3>1. i \in 1..(m - MaxPerWindow) /\ i \in 1..m /\ i + MaxPerWindow \in 1..m
      BY <1>3, <1>4, <2>2
    <3> QED
      BY <1>3, <1>6, <3>1 DEF m
  <2> QED
    BY <2>1, <2>2
<1>12. k + 1 <= m + 1
  BY <1>2, <1>4 DEF m, k
<1> QED
  BY <1>1, <1>5, <1>6, <1>7, <1>8, <1>9, <1>10, <1>11, <1>12
  DEF StampsOrder, Breaker!RateIsBounded

\* Whoever sleeps only drops the stamps that have left the window.
LEMMA SleepStep ==
    ASSUME BreakerOrder, NEW c \in Calls, Breaker!Sleep(c)
    PROVE  StampsOrder' /\ Breaker!RateIsBounded'
<1> DEFINE r == Breaker!Recent
<1>1. stamps' = r /\ UNCHANGED <<sends, clock>>
  BY DEF Breaker!Sleep
<1>2. /\ r \in Seq(Nat) /\ Len(r) <= Len(sends)
      /\ \A i \in 1..Len(r) : r[i] = sends[(Len(sends) - Len(r)) + i]
      /\ \A i \in 1..(Len(sends) - Len(r)) : sends[i] + Window <= clock
  BY RecentIs DEF BreakerOrder, Breaker!BreakerInv
<1> HIDE DEF r
<1> QED
  BY <1>1, <1>2 DEF BreakerOrder, StampsOrder, Breaker!BreakerInv, Breaker!RateIsBounded

\* Time only takes requests out of the window.
LEMMA TickStep ==
    ASSUME BreakerOrder, Breaker!Tick
    PROVE  BreakerOrder'
<1>1. /\ clock' = clock + 1 /\ clock < MaxTime
      /\ UNCHANGED <<circuit, stamps, callPc, wakeAt, attempt, cached, sends>>
  BY DEF Breaker!Tick
<1>2. /\ clock \in 0..MaxTime /\ Window \in Nat /\ MaxTime \in Nat /\ sends \in Seq(Nat)
      /\ stamps \in Seq(Nat) /\ Len(stamps) <= Len(sends)
  BY PlatformConstants DEF BreakerOrder, StampsOrder, Breaker!BreakerInv, Breaker!TypeOK
<1>3. clock' \in 0..MaxTime
  BY <1>1, <1>2
<1>4. \A i \in 1..Len(sends) : sends[i] <= clock'
  BY <1>1, <1>2 DEF BreakerOrder, StampsOrder
<1>5. \A i \in 1..(Len(sends) - Len(stamps)) : sends[i] + Window <= clock'
  <2> SUFFICES ASSUME NEW i \in 1..(Len(sends) - Len(stamps)) PROVE sends[i] + Window <= clock'
    OBVIOUS
  <2>1. i \in 1..Len(sends) /\ sends[i] \in Nat
    BY <1>2
  <2>2. sends[i] + Window <= clock
    BY DEF BreakerOrder, StampsOrder
  <2> QED
    BY <1>1, <1>2, <2>1, <2>2
<1> QED
  BY <1>1, <1>3, <1>4, <1>5
  DEF BreakerOrder, StampsOrder, Breaker!BreakerInv, Breaker!TypeOK, Breaker!RateIsBounded,
      Breaker!HalfOpenIsDecided, Breaker!ClosedIsBelowThreshold, Breaker!InFlight

\* A lookup that finds the circuit open long enough makes it half open, and is the call
\* that will decide it.
LEMMA LookupStep ==
    ASSUME BreakerOrder, NEW c \in Calls, Breaker!Lookup(c)
    PROVE  BreakerOrder'
<1>1. /\ callPc \in [Calls -> Places] /\ callPc[c] = "begin"
      /\ UNCHANGED <<clock, stamps, attempt, cached, sends>>
      /\ Breaker!TypeOK /\ Breaker!HalfOpenIsDecided /\ Breaker!ClosedIsBelowThreshold
  BY DEF Breaker!Lookup, BreakerOrder, Breaker!BreakerInv
<1>2. \/ /\ callPc' \in {[callPc EXCEPT ![c] = "answered"], [callPc EXCEPT ![c] = "rejected"]}
         /\ circuit' = circuit
      \/ /\ callPc' = [callPc EXCEPT ![c] = "limited"]
         /\ circuit' = circuit \/ circuit' = [circuit EXCEPT !.state = "HALF_OPEN"]
  BY DEF Breaker!Lookup, Breaker!Goto
<1>3. callPc' \in [Calls -> Places] /\ \A d \in Calls : d # c => callPc'[d] = callPc[d]
  BY <1>1, <1>2 DEF Places
<1>4. circuit' = circuit \/ (circuit' = [circuit EXCEPT !.state = "HALF_OPEN"]
                             /\ callPc'[c] = "limited")
  BY <1>1, <1>2
<1>5. /\ circuit' \in [state : {"CLOSED", "OPEN", "HALF_OPEN"}, failures : Nat, next : Nat]
      /\ circuit'.state = "CLOSED" => circuit'.failures < FailureThreshold
  BY <1>1, <1>4 DEF Breaker!TypeOK, Breaker!ClosedIsBelowThreshold
<1>6. circuit'.state = "HALF_OPEN" => \E d \in Calls : callPc'[d] \in Breaker!InFlight
  <2>1. CASE circuit' = circuit
    <3> SUFFICES ASSUME circuit.state = "HALF_OPEN"
                 PROVE  \E d \in Calls : callPc'[d] \in Breaker!InFlight
      BY <2>1
    <3>1. PICK d \in Calls : callPc[d] \in Breaker!InFlight
      BY <1>1 DEF Breaker!HalfOpenIsDecided
    <3>2. d # c
      BY <1>1, <3>1 DEF Breaker!InFlight
    <3> QED
      BY <1>3, <3>1, <3>2
  <2>2. CASE callPc'[c] = "limited"
    BY <2>2 DEF Breaker!InFlight
  <2> QED
    BY <1>4, <2>1, <2>2
<1> QED
  BY <1>1, <1>3, <1>5, <1>6
  DEF BreakerOrder, StampsOrder, Breaker!BreakerInv, Breaker!TypeOK, Breaker!RateIsBounded,
      Breaker!HalfOpenIsDecided, Breaker!ClosedIsBelowThreshold

\* An answer or a failure decides a half-open circuit, closed or open again.
LEMMA DecisionStep ==
    ASSUME BreakerOrder, NEW c \in Calls, Breaker!Answer(c) \/ Breaker!Fail(c)
    PROVE  BreakerOrder'
<1>0. Breaker!TypeOK /\ Breaker!ClosedIsBelowThreshold
  BY DEF BreakerOrder, Breaker!BreakerInv
<1>1. /\ callPc \in [Calls -> Places] /\ callPc[c] = "sent"
      /\ UNCHANGED <<clock, stamps, sends>> /\ cached' \in BOOLEAN
      /\ Breaker!TypeOK /\ Breaker!ClosedIsBelowThreshold
      /\ FailureThreshold \in Nat \ {0} /\ ResetTimeout \in Nat /\ clock \in Nat
  <2>1. callPc \in [Calls -> Places] /\ callPc[c] = "sent" /\ UNCHANGED <<clock, stamps, sends>>
    BY DEF Breaker!Answer, Breaker!Fail, BreakerOrder
  <2>2. cached' = TRUE \/ cached' = cached
    BY DEF Breaker!Answer, Breaker!Fail
  <2>3. cached \in BOOLEAN /\ clock \in 0..MaxTime
    BY <1>0 DEF Breaker!TypeOK
  <2>4. cached' \in BOOLEAN
    BY <2>2, <2>3
  <2>5. FailureThreshold \in Nat \ {0} /\ ResetTimeout \in Nat /\ MaxTime \in Nat
    BY PlatformConstants
  <2> QED
    BY <1>0, <2>1, <2>3, <2>4, <2>5
<1>2. callPc' \in [Calls -> Places]
  BY <1>1 DEF Breaker!Answer, Breaker!Fail, Breaker!Goto, Places
<1>3. /\ circuit' \in [state : {"CLOSED", "OPEN", "HALF_OPEN"}, failures : Nat, next : Nat]
      /\ circuit'.state # "HALF_OPEN"
      /\ circuit'.state = "CLOSED" => circuit'.failures < FailureThreshold
  <2>1. CASE Breaker!Answer(c)
    <3>1. circuit' = Breaker!Succeeded
      BY <2>1 DEF Breaker!Answer
    <3>2. /\ circuit'.failures = 0 /\ circuit'.state # "HALF_OPEN"
          /\ circuit' \in [state : {"CLOSED", "OPEN", "HALF_OPEN"}, failures : Nat, next : Nat]
      BY <1>1, <3>1 DEF Breaker!Succeeded, Breaker!TypeOK
    <3> QED
      BY <1>1, <3>2
  <2>2. CASE Breaker!Fail(c)
    <3> DEFINE opens == Breaker!Opens
               failures == circuit.failures
               next == IF opens THEN clock + ResetTimeout ELSE circuit.next
               state == IF opens THEN "OPEN" ELSE circuit.state
    <3>1. circuit' = [state |-> state, failures |-> failures + 1, next |-> next]
      BY <2>2 DEF Breaker!Fail, Breaker!Failed
    <3>2. failures \in Nat /\ next \in Nat /\ state \in {"CLOSED", "OPEN", "HALF_OPEN"}
      BY <1>1 DEF Breaker!TypeOK
    <3>3. state # "HALF_OPEN" /\ (state = "CLOSED" => ~(failures + 1 >= FailureThreshold))
      BY <1>1 DEF Breaker!Opens
    <3> HIDE DEF state, next, failures
    <3>4. /\ circuit'.state = state /\ circuit'.failures = failures + 1
          /\ circuit' \in [state : {"CLOSED", "OPEN", "HALF_OPEN"}, failures : Nat, next : Nat]
      BY <3>1, <3>2
    <3>5. ~(failures + 1 >= FailureThreshold) => failures + 1 < FailureThreshold
      BY <1>1, <3>2
    <3> QED
      BY <3>3, <3>4, <3>5
  <2> QED
    BY <2>1, <2>2
<1> QED
  BY <1>1, <1>2, <1>3
  DEF BreakerOrder, StampsOrder, Breaker!BreakerInv, Breaker!TypeOK, Breaker!RateIsBounded,
      Breaker!HalfOpenIsDecided, Breaker!ClosedIsBelowThreshold

\* A call that sends, sleeps or tries again stays under way.
LEMMA UnderWayStep ==
    ASSUME BreakerOrder, NEW c \in Calls,
           Breaker!Send(c) \/ Breaker!Sleep(c) \/ Breaker!Retry(c)
    PROVE  BreakerOrder'
<1>1. /\ callPc \in [Calls -> Places] /\ callPc[c] \in {"limited", "sent"}
      /\ UNCHANGED <<clock, circuit, cached>>
  BY DEF Breaker!Send, Breaker!Sleep, Breaker!Retry, BreakerOrder
<1>2. \/ callPc' = callPc
      \/ callPc' = [callPc EXCEPT ![c] = "sent"] \/ callPc' = [callPc EXCEPT ![c] = "limited"]
  BY DEF Breaker!Send, Breaker!Sleep, Breaker!Retry, Breaker!Goto
<1>3. /\ callPc' \in [Calls -> Places] /\ callPc'[c] \in {"limited", "sent"}
      /\ \A d \in Calls : d # c => callPc'[d] = callPc[d]
  BY <1>1, <1>2 DEF Places
<1>4. StampsOrder' /\ Breaker!RateIsBounded'
  <2>1. CASE Breaker!Retry(c)
    BY <2>1 DEF Breaker!Retry, BreakerOrder, StampsOrder, Breaker!BreakerInv,
       Breaker!RateIsBounded
  <2> QED
    BY <2>1, SendStep, SleepStep
<1>5. Breaker!HalfOpenIsDecided'
  BY <1>3 DEF Breaker!HalfOpenIsDecided, Breaker!InFlight
<1> QED
  BY <1>1, <1>3, <1>4, <1>5
  DEF BreakerOrder, Breaker!BreakerInv, Breaker!TypeOK, Breaker!ClosedIsBelowThreshold

LEMMA BreakerInOrder == PlatformSpec => []BreakerOrder
<1>1. PlatformInit => BreakerOrder
  <2> SUFFICES ASSUME PlatformInit PROVE BreakerOrder
    OBVIOUS
  <2>1. Breaker!Init
    BY DEF PlatformInit
  <2>2. /\ clock = 0 /\ circuit = [state |-> "CLOSED", failures |-> 0, next |-> 0]
        /\ stamps = <<>> /\ sends = <<>> /\ cached = FALSE
        /\ callPc \in [Calls -> Places]
    BY <2>1 DEF Breaker!Init, Places
  <2>3. Breaker!TypeOK /\ Breaker!HalfOpenIsDecided /\ Breaker!ClosedIsBelowThreshold
    <3>1. FailureThreshold \in Nat \ {0} /\ MaxTime \in Nat
      BY PlatformConstants
    <3>2. /\ circuit.state = "CLOSED" /\ circuit.failures = 0 /\ cached \in BOOLEAN
          /\ circuit \in [state : {"CLOSED", "OPEN", "HALF_OPEN"}, failures : Nat, next : Nat]
      BY <2>2
    <3>3. clock \in 0..MaxTime /\ 0 < FailureThreshold
      BY <2>2, <3>1
    <3> QED
      BY <3>2, <3>3
      DEF Breaker!TypeOK, Breaker!HalfOpenIsDecided, Breaker!ClosedIsBelowThreshold
  <2>4. Len(sends) = 0 /\ Len(stamps) = 0 /\ stamps \in Seq(Nat) /\ sends \in Seq(Nat)
    BY <2>2
  <2>5. StampsOrder
    BY <2>4 DEF StampsOrder
  <2>6. Breaker!RateIsBounded
    BY <2>4, PlatformConstants DEF Breaker!RateIsBounded
  <2> QED
    BY <2>2, <2>3, <2>5, <2>6 DEF BreakerOrder, Breaker!BreakerInv
<1>2. BreakerOrder /\ [PlatformNext]_platformVars => BreakerOrder'
  <2>1. CASE Breaker!Next /\ BreakerOrder
    <3>1. CASE Breaker!Expire
      BY <2>1, <3>1 DEF Breaker!Expire, BreakerOrder, StampsOrder, Breaker!BreakerInv,
         Breaker!TypeOK, Breaker!RateIsBounded, Breaker!HalfOpenIsDecided, Breaker!InFlight,
         Breaker!ClosedIsBelowThreshold
    <3> QED
      BY <2>1, <3>1, TickStep, LookupStep, DecisionStep, UnderWayStep DEF Breaker!Next
  <2>2. CASE UNCHANGED breakerVars /\ BreakerOrder
    BY <2>2 DEF breakerVars, BreakerOrder, StampsOrder, Breaker!BreakerInv,
       Breaker!TypeOK, Breaker!RateIsBounded, Breaker!HalfOpenIsDecided, Breaker!InFlight,
       Breaker!ClosedIsBelowThreshold
  <2>3. [PlatformNext]_platformVars => Breaker!Next \/ UNCHANGED breakerVars
    BY DEF PlatformNext, platformVars, flowVars, MoveSecrets, MoveInitialise, MoveBackup,
       MoveMigrate, MoveConnection, MoveSessions, MoveKeys, MoveTenants, MoveBreaker,
       MoveAnswers, MoveDocumentPdf, MoveRepresentation, MoveDocuments, MoveLookups,
       MoveReadiness
  <2> QED
    BY <2>1, <2>2, <2>3
<1> QED
  BY <1>1, <1>2, PTL DEF PlatformSpec

-----------------------------------------------------------------------------
(* HaciendaAnswers: one exchange, read three ways *)

\* What was answered is what the adapter makes of the exchange, and what was decided is
\* what the classifier says.
AnswersOrder ==
    /\ exchange = Provider!Nothing
         \/ (exchange \in Provider!Exchanges /\ answer = Provider!AnswerTo(exchange))
    /\ failure = Provider!Nothing
         \/ (failure \in Provider!Failures /\ decision = Provider!Classify(failure))

IsPost(e) == e.operation = "POST"

\* What may be stored beside a status: nothing unlisted, no markup.
IsSafe(kept) ==
    \A name \in DOMAIN kept :
        /\ name \notin {"token", "authorization", "NumeroCedulaEmisor"}
        /\ "TAG" \notin kept[name].has
        /\ "CONTROL" \in kept[name].has => name \in Provider!AllowedFields
        /\ ~kept[name].long

LEMMA EmptyIsSafe == IsSafe(Provider!Empty)
  BY DEF IsSafe, Provider!Empty

LEMMA HeadersAreSafe == \A e : IsSafe(Provider!ExtractSafeSuccessHeaders(e))
  BY DEF IsSafe, Provider!ExtractSafeSuccessHeaders, Provider!SanitizeHeaderValue

LEMMA FiscalDiagnosticIsSafe ==
    ASSUME NEW e
    PROVE  IsSafe(Provider!ExtractFiscalDiagnostic(e.xml, e.text))
<1> DEFINE parsed == Provider!ParseMensajeHacienda(e.xml, e.text)
<1>1. /\ DOMAIN parsed.diagnostic \subseteq Provider!SafeElements
      /\ \A name \in DOMAIN parsed.diagnostic :
            parsed.diagnostic[name] = Provider!SanitizeText(e.text)
  BY DEF Provider!ParseMensajeHacienda, Provider!Empty
<1> HIDE DEF parsed
<1>2. CASE e.xml.form = "absent"
  BY <1>2, EmptyIsSafe DEF Provider!ExtractFiscalDiagnostic
<1>3. CASE e.xml.form # "absent"
  <2> DEFINE names == DOMAIN parsed.diagnostic
                      \cup (IF parsed.parseError = Provider!None THEN {} ELSE {"parseError"})
  <2>1. Provider!ExtractFiscalDiagnostic(e.xml, e.text)
          = [name \in names |-> IF name = "parseError" THEN Provider!NoText
                                ELSE parsed.diagnostic[name]]
    BY <1>3 DEF Provider!ExtractFiscalDiagnostic, parsed
  <2>2. \A name \in names : name = "parseError" \/ name \in DOMAIN parsed.diagnostic
    OBVIOUS
  <2>3. \A name \in names : name \in Provider!SafeElements \cup {"parseError"}
    BY <1>1, <2>2
  <2> HIDE DEF names
  <2> QED
    BY <1>1, <2>1, <2>2, <2>3
    DEF IsSafe, Provider!SanitizeText, Provider!NoText, Provider!SafeElements
<1> QED
  BY <1>2, <1>3

LEMMA ProviderDiagnosticIsSafe ==
    ASSUME NEW e
    PROVE  IsSafe(Provider!ExtractProviderDiagnostic(e))
<1> DEFINE resolved == Provider!ResolveResponseBody(e.body)
           ofBody == IF ~e.json THEN {}
                     ELSE Provider!CaptureBodyShape(resolved.body)
                          \cup (IF resolved.parseStatus = Provider!None THEN {}
                                ELSE {"providerBodyParseStatus"})
           ofFields == IF e.json /\ resolved.body = "object"
                       THEN Provider!ExtractAllowlistedFields(e.fields) ELSE {}
           ofHeaders == Provider!DiagnosticHeaders(e.headers)
           names == {"responseContentType"} \cup ofHeaders \cup ofBody \cup ofFields
           Text(name) == CASE name \in ofHeaders -> Provider!SanitizeHeaderValue(e.text)
                           [] name \in ofFields -> Provider!FieldText(name, e.text)
                           [] OTHER -> Provider!ShapeText
<1>1. Provider!ExtractProviderDiagnostic(e) = [name \in names |-> Text(name)]
  BY DEF Provider!ExtractProviderDiagnostic
<1>2. ofHeaders \subseteq {"x-error-cause", "validation-exception"}
  BY DEF Provider!DiagnosticHeaders
<1>3. ofFields \subseteq Provider!AllowedFields
  BY DEF Provider!ExtractAllowlistedFields
<1>4. ofBody \subseteq {"providerBodyType", "providerBodyLength", "providerBodyFirstElementKeys",
                        "providerBodyKeys", "providerBodyShape", "providerBodyParseStatus"}
  BY DEF Provider!CaptureBodyShape
<1> HIDE DEF resolved, ofBody, ofFields, ofHeaders
<1>5. \A name \in names : name \notin {"token", "authorization", "NumeroCedulaEmisor"}
  BY <1>2, <1>3, <1>4 DEF Provider!AllowedFields
<1>6. \A name \in names :
         /\ "TAG" \notin Text(name).has /\ ~Text(name).long
         /\ "CONTROL" \in Text(name).has => name \in Provider!AllowedFields
  <2> SUFFICES ASSUME NEW name \in names
               PROVE  /\ "TAG" \notin Text(name).has /\ ~Text(name).long
                      /\ "CONTROL" \in Text(name).has => name \in Provider!AllowedFields
    OBVIOUS
  <2>1. CASE name \in ofHeaders
    <3>1. name \notin ofFields
      BY <1>2, <1>3, <2>1 DEF Provider!AllowedFields
    <3>2. Text(name) = Provider!SanitizeHeaderValue(e.text)
      BY <2>1, <3>1
    <3> QED
      BY <3>2 DEF Provider!SanitizeHeaderValue
  <2>2. CASE name \notin ofHeaders /\ name \in ofFields
    <3>1. Text(name) = Provider!FieldText(name, e.text)
      BY <2>2
    <3> QED
      BY <1>3, <2>2, <3>1
      DEF Provider!FieldText, Provider!SanitizeProviderString, Provider!NoText
  <2>3. CASE name \notin ofHeaders /\ name \notin ofFields
    <3>1. Text(name) = Provider!ShapeText
      BY <2>3
    <3> QED
      BY <3>1 DEF Provider!ShapeText, Provider!NoText
  <2> QED
    BY <2>1, <2>2, <2>3
<1> HIDE DEF names, Text
<1> QED
  BY <1>1, <1>5, <1>6 DEF IsSafe

\* The outcomes of a POST, by its status.
LEMMA PostAnswers ==
    ASSUME NEW e \in Provider!Exchanges, IsPost(e)
    PROVE  LET a == Provider!AnswerTo(e) IN
           /\ IsSafe(a.metadata)
           /\ \/ e.status = 201 /\ a.kind = "ACKNOWLEDGED" /\ a.nextStatus = "ACKNOWLEDGED"
              \/ /\ e.status \in 200..299 \ {201} /\ a.kind = "UNRESOLVED_PROVIDER_RESPONSE"
                 /\ a.nextStatus = "POST_OUTCOME_UNKNOWN"
              \/ /\ e.status \in {401, 429} /\ a.kind = "RETRYABLE_FAILURE"
                 /\ a.nextStatus = "TECHNICAL_RETRY_PENDING"
              \/ /\ e.status >= 500 \/ e.status = 0
                 /\ a.kind = "AMBIGUOUS_FAILURE" /\ a.nextStatus = "POST_OUTCOME_UNKNOWN"
              \/ /\ e.status < 500 /\ e.status \notin {0, 401, 429} \cup 200..299
                 /\ a.kind = "NON_RETRYABLE_FAILURE" /\ a.nextStatus = "MANUAL_REVIEW_REQUIRED"
<1> DEFINE a == Provider!AnswerTo(e)
           s == e.status
<1>1. s \in Nat
  BY PlatformConstants DEF Provider!Exchanges
<1>2. a = Provider!MapPostResponse(e)
  BY DEF Provider!AnswerTo, IsPost
<1>3. ASSUME s \notin 200..299 PROVE a = Provider!MapHttpError(e)
  BY <1>1, <1>2, <1>3 DEF Provider!MapPostResponse
<1>4. CASE s = 201
  <2>1. a = Provider!Result("ACKNOWLEDGED", "ACKNOWLEDGED", Provider!None, Provider!Empty, e.rate)
    BY <1>2, <1>4 DEF Provider!MapPostResponse
  <2> QED
    BY <1>4, <2>1, EmptyIsSafe DEF Provider!Result
<1>5. CASE s \in 200..299 \ {201}
  <2>1. a = Provider!Result("UNRESOLVED_PROVIDER_RESPONSE", "POST_OUTCOME_UNKNOWN",
                            "HACIENDA_UNDOCUMENTED_2XX_STATUS",
                            Provider!ExtractSafeSuccessHeaders(e), e.rate)
    BY <1>2, <1>5 DEF Provider!MapPostResponse
  <2> QED
    BY <1>5, <2>1, HeadersAreSafe DEF Provider!Result
<1>6. CASE s \in {401, 429}
  <2>1. \/ a = Provider!Retryable("HACIENDA_TOKEN_EXPIRED", {})
        \/ a = Provider!Retryable("HACIENDA_RATE_LIMIT", e.rate)
    BY <1>3, <1>6 DEF Provider!MapHttpError, Provider!NoStatus
  <2> QED
    BY <1>6, <2>1, EmptyIsSafe DEF Provider!Result, Provider!Retryable
<1>7. CASE s >= 500 \/ s = 0
  <2>1. a = Provider!Ambiguous
    BY <1>1, <1>3, <1>7
    DEF Provider!MapHttpError, Provider!NoStatus, Provider!UnansweredPost, IsPost
  <2> QED
    BY <1>7, <2>1, EmptyIsSafe DEF Provider!Result, Provider!Ambiguous
<1>8. CASE s < 500 /\ s \notin {0, 401, 429} \cup 200..299
  <2>1. a = Provider!NonRetryable("HACIENDA_NON_RETRYABLE_ERROR",
                                  Provider!ExtractProviderDiagnostic(e), {})
    BY <1>1, <1>3, <1>8 DEF Provider!MapHttpError, Provider!NoStatus
  <2> QED
    BY <1>8, <2>1, ProviderDiagnosticIsSafe DEF Provider!Result, Provider!NonRetryable
<1> QED
  BY <1>1, <1>4, <1>5, <1>6, <1>7, <1>8

\* The outcomes of a status query: a verdict only as the state indicates.
LEMMA QueryAnswers ==
    ASSUME NEW e \in Provider!Exchanges, ~IsPost(e)
    PROVE  LET a == Provider!AnswerTo(e) IN
           /\ IsSafe(a.metadata) /\ e.operation = "GET"
           /\ \/ /\ e.status \in 200..299 /\ e.state = "aceptado"
                 /\ a.kind = "ACCEPTED" /\ a.nextStatus = "ACCEPTED"
              \/ /\ e.status \in 200..299 /\ e.state = "rechazado"
                 /\ a.kind = "REJECTED" /\ a.nextStatus = "REJECTED"
              \/ a.kind = "PROCESSING" /\ a.nextStatus = "PROCESSING"
              \/ a.kind = "RETRYABLE_FAILURE" /\ a.nextStatus = "TECHNICAL_RETRY_PENDING"
              \/ a.kind = "NON_RETRYABLE_FAILURE" /\ a.nextStatus = "MANUAL_REVIEW_REQUIRED"
<1> DEFINE a == Provider!AnswerTo(e)
<1>1. e.status \in Nat /\ e.operation = "GET"
  BY PlatformConstants DEF Provider!Exchanges, IsPost
<1>2. CASE e.status \in 200..299
  <2>1. a = Provider!MapStatusResponse(e)
    BY <1>1, <1>2 DEF Provider!AnswerTo
  <2>2. \/ e.state = "aceptado"
           /\ a = Provider!Result("ACCEPTED", "ACCEPTED", Provider!None,
                                  Provider!ExtractFiscalDiagnostic(e.xml, e.text), e.rate)
        \/ e.state = "rechazado"
           /\ a = Provider!Result("REJECTED", "REJECTED", Provider!None,
                                  Provider!ExtractFiscalDiagnostic(e.xml, e.text), e.rate)
        \/ a = Provider!Result("PROCESSING", "PROCESSING", Provider!None, Provider!Empty, e.rate)
        \/ a = Provider!Retryable("HACIENDA_NETWORK_ERROR", {})
        \/ a = Provider!NonRetryable("HACIENDA_UNKNOWN_STATUS", Provider!Empty, e.rate)
    BY <2>1 DEF Provider!MapStatusResponse
  <2> QED
    BY <1>1, <1>2, <2>2, EmptyIsSafe, FiscalDiagnosticIsSafe
    DEF Provider!Result, Provider!Retryable, Provider!NonRetryable
<1>3. CASE e.status \notin 200..299
  <2>1. a = Provider!MapHttpError(e)
    BY <1>1, <1>3 DEF Provider!AnswerTo
  <2>2. \/ \E code, rate : a = Provider!Retryable(code, rate)
        \/ a = Provider!NonRetryable("HACIENDA_NON_RETRYABLE_ERROR",
                                     Provider!ExtractProviderDiagnostic(e), {})
    BY <1>1, <2>1 DEF Provider!MapHttpError, Provider!NoStatus
  <2> QED
    BY <1>1, <2>2, EmptyIsSafe, ProviderDiagnosticIsSafe
    DEF Provider!Result, Provider!Retryable, Provider!NonRetryable
<1> QED
  BY <1>2, <1>3

\* What a submission may become after a POST or a decided query.
LEMMA Applicable ==
    /\ \A to \in {"ACKNOWLEDGED", "POST_OUTCOME_UNKNOWN", "TECHNICAL_RETRY_PENDING",
                  "MANUAL_REVIEW_REQUIRED"} : Provider!Machine!CanTransition("SUBMITTING", to)
    /\ \A from \in {"POST_OUTCOME_UNKNOWN", "ACKNOWLEDGED", "PROCESSING"},
          to \in {"PROCESSING", "ACCEPTED", "REJECTED"} :
            Provider!Machine!CanTransition(from, to)
  BY DEF Provider!Machine!CanTransition, Provider!Machine!Successors,
     Provider!Machine!Statuses, Provider!Machine!Verdicts

\* The table of statuses recommends what the adapter does with a POST.
LEMMA TableOfPosts ==
    ASSUME NEW e \in Provider!Exchanges, IsPost(e), e.status # 0
    PROVE  Provider!ClassifyRecepcionStatus(e.status).billingAction
             \in {Provider!AnswerTo(e).kind, Provider!AnswerTo(e).nextStatus}
<1> DEFINE s == e.status
           action == Provider!ClassifyRecepcionStatus(s).billingAction
<1>1. s \in Nat
  BY PlatformConstants DEF Provider!Exchanges
<1>2. /\ s = 201 => action = "ACKNOWLEDGED"
      /\ s \in 200..299 \ {201} => action = "UNRESOLVED_PROVIDER_RESPONSE"
      /\ s \in {401, 429} => action = "RETRYABLE_FAILURE"
      /\ s >= 500 => action = "POST_OUTCOME_UNKNOWN"
      /\ s < 500 /\ s \notin {401, 429} \cup 200..299 => action = "NON_RETRYABLE_FAILURE"
  BY <1>1 DEF Provider!ClassifyRecepcionStatus
<1> DEFINE k == Provider!AnswerTo(e).kind
           n == Provider!AnswerTo(e).nextStatus
<1>3. \/ s = 201 /\ k = "ACKNOWLEDGED"
      \/ s \in 200..299 \ {201} /\ k = "UNRESOLVED_PROVIDER_RESPONSE"
      \/ s \in {401, 429} /\ k = "RETRYABLE_FAILURE"
      \/ s >= 500 /\ n = "POST_OUTCOME_UNKNOWN"
      \/ s < 500 /\ s \notin {401, 429} \cup 200..299 /\ k = "NON_RETRYABLE_FAILURE"
  BY PostAnswers
<1> HIDE DEF action, k, n, s
<1>4. action \in {k, n}
  BY <1>1, <1>2, <1>3
<1> QED
  BY <1>4 DEF action, k, n, s

\* A retry without reconciling, after a request that possibly left.
LEMMA ClassifierReconciles ==
    ASSUME NEW f \in Provider!Failures, f.sendState = "POSSIBLY_SENT",
           Provider!Classify(f).shouldRetry, ~Provider!Classify(f).reconcileFirst
    PROVE  \/ f.kind \in {"CONNECTIVITY_FAILURE", "PROVIDER_429", "STATUS_PROCESSING",
                          "LOCAL_ERROR_BEFORE_POST"}
           \/ f.kind = "STATUS_NOT_FOUND" /\ f.notSubmitted
<1> DEFINE d == Provider!Classify(f)
<1>1. /\ ~Provider!Reconcile.shouldRetry /\ ~Provider!TerminalRejected.shouldRetry
      /\ \A t : ~Provider!ManualReview(t).shouldRetry
  BY DEF Provider!Reconcile, Provider!TerminalRejected, Provider!ManualReview,
     Provider!Decision
<1>2. f.sendState \in Provider!MaySent
  BY DEF Provider!MaySent
<1>3. ASSUME f.kind \notin {"CONNECTIVITY_FAILURE", "PROVIDER_429", "STATUS_PROCESSING",
                            "LOCAL_ERROR_BEFORE_POST"},
             ~(f.kind = "STATUS_NOT_FOUND" /\ f.notSubmitted)
      PROVE  FALSE
  <2>1. CASE f.kind = "TOKEN_EXPIRED_OR_INVALID"
    BY <2>1 DEF Provider!Classify, Provider!Decision
  <2>2. CASE f.kind # "TOKEN_EXPIRED_OR_INVALID"
    <3>1. \/ d = Provider!Reconcile \/ d = Provider!TerminalRejected
          \/ \E t : d = Provider!ManualReview(t)
      BY <1>2, <1>3, <2>2 DEF Provider!Classify, Provider!CrashDecision
    <3> QED
      BY <1>1, <3>1
  <2> QED
    BY <2>1, <2>2
<1> QED
  BY <1>3

LEMMA AnswersOrderIsEnough == AnswersOrder => Provider!AnswersInv
<1> SUFFICES ASSUME AnswersOrder PROVE Provider!AnswersInv
  OBVIOUS
<1>1. Provider!Answered => exchange \in Provider!Exchanges /\ answer = Provider!AnswerTo(exchange)
  BY DEF AnswersOrder, Provider!Answered
<1>2. Provider!PostIsNotRepeated
  BY <1>1, PostAnswers DEF Provider!PostIsNotRepeated, IsPost
<1>3. Provider!VerdictIsIndicated
  <2> SUFFICES ASSUME Provider!Answered, answer.nextStatus \in {"ACCEPTED", "REJECTED"}
               PROVE  /\ exchange.operation = "GET" /\ exchange.status \in 200..299
                      /\ exchange.state = (IF answer.nextStatus = "ACCEPTED" THEN "aceptado"
                                           ELSE "rechazado")
    BY DEF Provider!VerdictIsIndicated, Provider!Machine!Verdicts
  <2>1. ~IsPost(exchange)
    BY <1>1, PostAnswers
  <2> QED
    BY <1>1, <2>1, QueryAnswers
<1>4. Provider!TableIsFollowed
  BY <1>1, TableOfPosts DEF Provider!TableIsFollowed, Provider!NoStatus, IsPost
<1>5. Provider!AnswerIsApplicable
  <2>1. ASSUME Provider!Answered, exchange.operation = "POST"
        PROVE  Provider!Machine!CanTransition("SUBMITTING", answer.nextStatus)
    BY <1>1, <2>1, PostAnswers, Applicable DEF IsPost
  <2>2. ASSUME Provider!Answered, answer.kind \in {"PROCESSING", "ACCEPTED", "REJECTED"}
        PROVE  \A from \in {"POST_OUTCOME_UNKNOWN", "ACKNOWLEDGED", "PROCESSING"} :
                  Provider!Machine!CanTransition(from, answer.nextStatus)
    <3>1. ~IsPost(exchange)
      BY <1>1, <2>2, PostAnswers
    <3>2. answer.nextStatus \in {"PROCESSING", "ACCEPTED", "REJECTED"}
      BY <1>1, <2>2, <3>1, QueryAnswers
    <3> QED
      BY <3>2, Applicable
  <2> QED
    BY <2>1, <2>2 DEF Provider!AnswerIsApplicable
<1>6. Provider!DiagnosticsAreSafe
  <2>1. Provider!Answered => IsSafe(answer.metadata)
    BY <1>1, PostAnswers, QueryAnswers
  <2> QED
    BY <2>1 DEF Provider!DiagnosticsAreSafe, IsSafe
<1>7. Provider!UncertainSendIsReconciled
  BY ClassifierReconciles DEF Provider!UncertainSendIsReconciled, AnswersOrder
<1> QED
  BY <1>2, <1>3, <1>4, <1>5, <1>6, <1>7 DEF Provider!AnswersInv

LEMMA AnswersInOrder == PlatformSpec => []AnswersOrder
<1>1. PlatformInit => AnswersOrder
  BY DEF PlatformInit, Provider!AnswersInit, AnswersOrder
<1>2. AnswersOrder /\ [PlatformNext]_platformVars => AnswersOrder'
  <2>1. CASE Provider!SubmitSignedDocument /\ AnswersOrder
    BY <2>1 DEF Provider!SubmitSignedDocument, AnswersOrder
  <2>2. CASE Provider!QueryStatusByClave /\ AnswersOrder
    BY <2>2 DEF Provider!QueryStatusByClave, AnswersOrder
  <2>3. CASE Provider!AskClassifier /\ AnswersOrder
    BY <2>3 DEF Provider!AskClassifier, AnswersOrder
  <2>4. CASE UNCHANGED answersVars /\ AnswersOrder
    BY <2>4 DEF answersVars, AnswersOrder
  <2>5. [PlatformNext]_platformVars => Provider!AnswersNext \/ UNCHANGED answersVars
    BY DEF PlatformNext, platformVars, flowVars, MoveSecrets, MoveInitialise, MoveBackup,
       MoveMigrate, MoveConnection, MoveSessions, MoveKeys, MoveTenants, MoveBreaker,
       MoveAnswers, MoveDocumentPdf, MoveRepresentation, MoveDocuments, MoveLookups,
       MoveReadiness
  <2> QED
    BY <2>1, <2>2, <2>3, <2>4, <2>5 DEF Provider!AnswersNext
<1> QED
  BY <1>1, <1>2, PTL DEF PlatformSpec

\* The circuit breaker keeps its rate and decides its half-open state, and an answer of
\* Hacienda is read one way by the adapter, the state machine and the classifier
\* (hacienda-circuit-breaker.service.ts, hacienda-recepcion.adapter.ts): ProviderInv.
THEOREM ProviderCorrect == PlatformSpec => []ProviderInv
<1>1. BreakerOrder /\ AnswersOrder => ProviderInv
  BY AnswersOrderIsEnough DEF BreakerOrder, ProviderInv
<1> QED
  BY <1>1, BreakerInOrder, AnswersInOrder, PTL

-----------------------------------------------------------------------------
(* FiscalLookups: what a client created is found again, by its own keys only *)

\* One document of a type, with the hash of its request; no key of another tenant is
\* linked.
LookupsOrder ==
    /\ \A d \in documents :
          /\ d # Lookups!NoDocument
          /\ d.requestHash = Lookups!HashRequest(d.environment, d.type, d.payload)
    /\ \A d, e \in documents : d.type = e.type => d = e
    /\ linked \subseteq {OldKey, NewKey}
    /\ asked = Lookups!NoRequest \/ asked \in Lookups!Questions
    /\ Lookups!LookupsInv

\* What the search finds is the one document there is.
LEMMA FoundIs ==
    ASSUME LookupsOrder, NEW r,
           NEW about,
           about = IF \E d \in documents : d.type = r.type
                     THEN CHOOSE d \in documents : d.type = r.type
                     ELSE Lookups!NoDocument
    PROVE  /\ Lookups!Found(r) = about
           /\ ~Lookups!Several(Lookups!Reservations(r.type, r.by))
           /\ about # Lookups!NoDocument =>
                 about.requestHash = Lookups!HashRequest(about.environment, about.type, about.payload)
           /\ about # Lookups!NoDocument => about \in documents /\ about.type = r.type
<1> DEFINE matching == Lookups!Reservations(r.type, r.by)
<1>1. matching = {d \in documents : d.type = r.type}
  BY DEF Lookups!Reservations
<1>2. ~Lookups!Several(matching)
  BY <1>1 DEF Lookups!Several, LookupsOrder
<1>3. CASE \E d \in documents : d.type = r.type
  <2>1. about \in documents /\ about.type = r.type
    BY <1>3
  <2>2. matching = {about}
    BY <1>1, <2>1 DEF LookupsOrder
  <2>3. (CHOOSE d \in matching : TRUE) = about
    BY <2>2
  <2>4. Lookups!Found(r) = about
    BY <1>2, <2>2, <2>3 DEF Lookups!Found, Lookups!One
  <2> QED
    BY <1>2, <2>1, <2>4 DEF LookupsOrder
<1>4. CASE ~\E d \in documents : d.type = r.type
  <2>1. about = Lookups!NoDocument /\ matching = {}
    BY <1>1, <1>4
  <2>2. Lookups!Found(r) = about
    BY <2>1 DEF Lookups!Found, Lookups!One
  <2> QED
    BY <1>2, <2>1, <2>2
<1> QED
  BY <1>3, <1>4

\* The three handlers answer about the document they found.
LEMMA AnswerSteps ==
    ASSUME LookupsOrder, Lookups!ByRequest \/ Lookups!ByEvidence \/ Lookups!ById
    PROVE  LookupsOrder'
<1> DEFINE about == IF \E d \in documents : d.type = asked.type
                      THEN CHOOSE d \in documents : d.type = asked.type
                      ELSE Lookups!NoDocument
<1>1. PICK code : Lookups!Answered(code)
  BY DEF Lookups!ByRequest, Lookups!ByEvidence, Lookups!ById
<1>2. /\ found'.code = code /\ found'.request = asked /\ found'.authorized = (asked.by \in linked)
      /\ found'.about = about
      /\ asked' = Lookups!NoRequest /\ UNCHANGED <<documents, linked>>
  BY <1>1 DEF Lookups!Answered
<1>3. /\ Lookups!Found(asked) = about
      /\ ~Lookups!Several(Lookups!Reservations(asked.type, asked.by))
      /\ about # Lookups!NoDocument =>
            about.requestHash = Lookups!HashRequest(about.environment, about.type, about.payload)
      /\ about # Lookups!NoDocument => about.type = asked.type
  BY FoundIs
<1> HIDE DEF about
<1>4. linked \subseteq {OldKey, NewKey} /\ Stranger \notin linked
  BY PlatformConstants DEF LookupsOrder
<1>5. CASE Lookups!ByRequest
  <2>1. asked.how = "request"
    BY <1>5 DEF Lookups!ByRequest
  <2>2. found'.code =
          IF ~Lookups!HasScope(asked) THEN "INSUFFICIENT_SCOPE"
          ELSE IF asked.by \notin linked THEN "API_KEY_COMPANY_NOT_AUTHORIZED"
          ELSE IF about = Lookups!NoDocument
                  \/ about.requestHash
                       # Lookups!HashRequest(asked.environment, asked.type, asked.payload)
            THEN "FISCAL_IDENTITY_NOT_FOUND"
          ELSE IF ~Lookups!Intact(about, asked) THEN "FISCAL_IDENTITY_INTEGRITY_ERROR"
          ELSE "OK"
    BY <1>3, <1>5 DEF Lookups!ByRequest, Lookups!Answered
  <2>6. ASSUME found'.code = "OK"
        PROVE  /\ asked.by \in linked /\ about.environment = asked.environment
               /\ about.payload = asked.payload
    <3>1. /\ asked.by \in linked /\ about # Lookups!NoDocument
          /\ about.requestHash
               = Lookups!HashRequest(asked.environment, asked.type, asked.payload)
      BY <2>2, <2>6
    <3>2. <<about.environment, about.type, about.payload>>
             = <<asked.environment, asked.type, asked.payload>>
      BY <1>3, <3>1 DEF Lookups!HashRequest
    <3> QED
      BY <3>1, <3>2
  <2>3. Lookups!ShownToItsOwn'
    BY <1>2, <1>4, <2>6 DEF Lookups!ShownToItsOwn, Lookups!Searched
  <2>4. Lookups!WhatIsKnownIsFound'
    BY <1>2, <1>3, <2>1, <2>2
       DEF Lookups!WhatIsKnownIsFound, Lookups!Searched, Lookups!HasScope, Lookups!Intact
  <2>5. Lookups!IntegrityErrorsAreNoDamage'
    BY <1>2, <1>3, <2>1, <2>2
       DEF Lookups!IntegrityErrorsAreNoDamage, Lookups!Searched, Lookups!Intact
  <2> QED
    BY <1>2, <2>3, <2>4, <2>5 DEF LookupsOrder, Lookups!LookupsInv
<1>6. CASE Lookups!ByEvidence
  <2>1. asked.how = "evidence"
    BY <1>6 DEF Lookups!ByEvidence
  <2>2. found'.code =
          IF ~Lookups!HasScope(asked) THEN "INSUFFICIENT_SCOPE"
          ELSE IF asked.by \notin linked THEN "API_KEY_COMPANY_NOT_AUTHORIZED"
          ELSE IF ~Lookups!Hashable(asked.payload) THEN "FISCAL_PAYLOAD_EVIDENCE_INVALID"
          ELSE IF about = Lookups!NoDocument THEN "FISCAL_IDENTITY_NOT_FOUND"
          ELSE IF ~Lookups!Intact(about, asked) THEN "FISCAL_IDENTITY_INTEGRITY_ERROR"
          ELSE IF ~Lookups!Hashable(about.payload) THEN "FISCAL_IDENTITY_EVIDENCE_INTEGRITY_ERROR"
          ELSE IF Lookups!CanonicalHash(about.payload) # Lookups!CanonicalHash(asked.payload)
            THEN "FISCAL_IDENTITY_NOT_FOUND"
          ELSE "OK"
    BY <1>3, <1>6 DEF Lookups!ByEvidence, Lookups!Answered
  <2>3. Lookups!ShownToItsOwn'
    BY <1>2, <1>3, <1>4, <2>1, <2>2
       DEF Lookups!ShownToItsOwn, Lookups!Searched, Lookups!Intact, Lookups!CanonicalHash
  <2>4. Lookups!WhatIsKnownIsFound'
    BY <1>2, <1>3, <2>1, <2>2
       DEF Lookups!WhatIsKnownIsFound, Lookups!Searched, Lookups!HasScope, Lookups!Intact,
           Lookups!Hashable, Lookups!CanonicalHash
  <2>5. Lookups!IntegrityErrorsAreNoDamage'
    BY <1>2, <1>3, <2>1, <2>2
       DEF Lookups!IntegrityErrorsAreNoDamage, Lookups!Searched, Lookups!Intact
  <2> QED
    BY <1>2, <2>3, <2>4, <2>5 DEF LookupsOrder, Lookups!LookupsInv
<1>7. CASE Lookups!ById
  <2>1. asked.how = "read"
    BY <1>7 DEF Lookups!ById
  <2>2. found'.code = "OK" => asked.by # Stranger /\ asked.by \in linked
    BY <1>7 DEF Lookups!ById, Lookups!Answered
  <2>3. Lookups!LookupsInv'
    BY <1>2, <2>1, <2>2
       DEF Lookups!LookupsInv, Lookups!ShownToItsOwn, Lookups!WhatIsKnownIsFound,
           Lookups!IntegrityErrorsAreNoDamage, Lookups!Searched
  <2> QED
    BY <1>2, <2>3 DEF LookupsOrder
<1> QED
  BY <1>5, <1>6, <1>7

\* What the client does, and a question.
LEMMA ClientSteps ==
    ASSUME LookupsOrder,
           \/ \E by \in Lookups!ApiKeys, environment \in Lookups!Environments,
                 type \in Lookups!Types, payload \in Lookups!Payloads :
                    Lookups!CreateAgain(by, environment, type, payload)
           \/ Lookups!LinkNewKey \/ Lookups!RevokeOldKey
           \/ \E r \in Lookups!Questions : Lookups!Ask(r)
    PROVE  LookupsOrder'
<1>1. found' = found
  BY DEF Lookups!CreateAgain, Lookups!LinkNewKey, Lookups!RevokeOldKey, Lookups!Ask
<1>2. Lookups!LookupsInv'
  BY <1>1 DEF LookupsOrder, Lookups!LookupsInv, Lookups!ShownToItsOwn, Lookups!WhatIsKnownIsFound,
     Lookups!IntegrityErrorsAreNoDamage, Lookups!Searched
<1>3. ASSUME NEW by \in Lookups!ApiKeys, NEW environment \in Lookups!Environments,
             NEW type \in Lookups!Types, NEW payload \in Lookups!Payloads,
             Lookups!CreateAgain(by, environment, type, payload)
      PROVE  LookupsOrder'
  <2> DEFINE n == [by |-> by, environment |-> environment, type |-> type, payload |-> payload,
                   requestHash |-> Lookups!HashRequest(environment, type, payload)]
  <2>1. /\ documents' = documents \cup {n} /\ UNCHANGED <<linked, asked>>
        /\ ~\E d \in documents : d.type = type
    BY <1>3 DEF Lookups!CreateAgain
  <2>2. /\ n.type = type
        /\ n.requestHash = Lookups!HashRequest(n.environment, n.type, n.payload)
    OBVIOUS
  <2>3. n # Lookups!NoDocument
    <3>1. "type" \in DOMAIN n /\ "type" \notin DOMAIN Lookups!NoDocument
      BY DEF Lookups!NoDocument
    <3> QED
      BY <3>1
  <2> HIDE DEF n
  <2> QED
    BY <1>2, <2>1, <2>2, <2>3 DEF LookupsOrder
<1>4. CASE Lookups!LinkNewKey \/ Lookups!RevokeOldKey
  BY <1>2, <1>4 DEF LookupsOrder, Lookups!LinkNewKey, Lookups!RevokeOldKey
<1>5. CASE \E r \in Lookups!Questions : Lookups!Ask(r)
  BY <1>2, <1>5 DEF LookupsOrder, Lookups!Ask
<1> QED
  BY <1>3, <1>4, <1>5

LEMMA LookupsInOrder == PlatformSpec => []LookupsOrder
<1>1. PlatformInit => LookupsOrder
  BY DEF PlatformInit, Lookups!LookupsInit, LookupsOrder, Lookups!LookupsInv,
     Lookups!ShownToItsOwn, Lookups!WhatIsKnownIsFound, Lookups!IntegrityErrorsAreNoDamage,
     Lookups!Searched
<1>2. LookupsOrder /\ [PlatformNext]_platformVars => LookupsOrder'
  <2>1. CASE Lookups!LookupsNext /\ LookupsOrder
    BY <2>1, AnswerSteps, ClientSteps DEF Lookups!LookupsNext
  <2>2. CASE UNCHANGED lookupVars /\ LookupsOrder
    BY <2>2 DEF lookupVars, LookupsOrder, Lookups!LookupsInv, Lookups!ShownToItsOwn,
       Lookups!WhatIsKnownIsFound, Lookups!IntegrityErrorsAreNoDamage, Lookups!Searched
  <2>3. [PlatformNext]_platformVars => Lookups!LookupsNext \/ UNCHANGED lookupVars
    BY DEF PlatformNext, platformVars, flowVars, MoveSecrets, MoveInitialise, MoveBackup,
       MoveMigrate, MoveConnection, MoveSessions, MoveKeys, MoveTenants, MoveBreaker,
       MoveAnswers, MoveDocumentPdf, MoveRepresentation, MoveDocuments, MoveLookups,
       MoveReadiness
  <2> QED
    BY <2>1, <2>2, <2>3
<1> QED
  BY <1>1, <1>2, PTL DEF PlatformSpec

-----------------------------------------------------------------------------
(* FiscalReadiness: a company reported ready can issue *)

\* A report has these fields, whatever they are.
IsReport(r) ==
    r = [next |-> r.next, reasons |-> r.reasons, profile |-> r.profile, default |-> r.default,
         ready |-> r.ready, blocked |-> r.blocked]

\* The reasons of the first reads, of data that does not change.
Gathered(n) ==
    (IF n > 1 THEN Readiness!ProfileReasons(facts) ELSE {})
    \cup (IF n > 2 THEN Readiness!ConnectionReasons(facts) ELSE {})
    \cup (IF n > 3 THEN Readiness!CertificateReasons(facts) ELSE {})
    \cup (IF n > 4 THEN Readiness!PointReasons(facts) ELSE {})
    \cup (IF n > 5 THEN Readiness!TaxpayerReasons(facts) ELSE {})
    \cup (IF n > 6 THEN Readiness!ActivityReasons(facts, facts.profile, facts.default) ELSE {})

Blocking == UNION {Readiness!Dimensions[d] : d \in DOMAIN Readiness!Dimensions}

\* The dimensions say what the reasons say, but for the sequence.
IsOfReasons ==
    /\ report.ready = (report.reasons = {})
    /\ report.blocked \ {"sequence"}
         = {d \in DOMAIN Readiness!Dimensions : Readiness!Dimensions[d] \cap report.reasons # {}}
    /\ changes = 0 => ("sequence" \in report.blocked <=> ~facts.point)

ReadinessOrder ==
    /\ changes \in Nat /\ IsReport(report) /\ report.next \in 1..8
    /\ report.reasons \subseteq Blocking
    /\ changes = 0 =>
          /\ report.next > 1 => report.profile = facts.profile /\ report.default = facts.default
          /\ report.next < 8 => report.reasons = Gathered(report.next)
          /\ report.next = 8 => report.reasons = Gathered(7)
    /\ report.next = 8 => IsOfReasons

LEMMA ReadsInOrder ==
    /\ DOMAIN Readiness!Reads = 1..7
    /\ Readiness!Reading("profile") => report.next = 1
    /\ Readiness!Reading("connection") => report.next = 2
    /\ Readiness!Reading("certificate") => report.next = 3
    /\ Readiness!Reading("point") => report.next = 4
    /\ Readiness!Reading("taxpayer") => report.next = 5
    /\ Readiness!Reading("activities") => report.next = 6
    /\ Readiness!Reading("dimensions") => report.next = 7
BY DEF Readiness!Reads, Readiness!Reading

LEMMA ReasonsBlock ==
    /\ Readiness!ProfileReasons(facts) \subseteq Blocking
    /\ Readiness!ConnectionReasons(facts) \subseteq Blocking
    /\ Readiness!CertificateReasons(facts) \subseteq Blocking
    /\ Readiness!PointReasons(facts) \subseteq Blocking
    /\ Readiness!TaxpayerReasons(facts) \subseteq Blocking
    /\ Readiness!ActivityReasons(facts, report.profile, report.default) \subseteq Blocking
<1> DEFINE D == Readiness!Dimensions
<1>1. /\ "issuer" \in DOMAIN D /\ "profile" \in DOMAIN D /\ "activity" \in DOMAIN D
      /\ "hacienda" \in DOMAIN D /\ "certificate" \in DOMAIN D /\ "issuancePoint" \in DOMAIN D
  BY DEF Readiness!Dimensions
<1>2. /\ D["issuer"] \subseteq Blocking /\ D["profile"] \subseteq Blocking
      /\ D["activity"] \subseteq Blocking /\ D["hacienda"] \subseteq Blocking
      /\ D["certificate"] \subseteq Blocking /\ D["issuancePoint"] \subseteq Blocking
  BY <1>1 DEF Blocking
<1>3. /\ Readiness!ProfileReasons(facts) \subseteq D["profile"]
      /\ Readiness!ConnectionReasons(facts) \subseteq D["hacienda"]
      /\ Readiness!PointReasons(facts) \subseteq D["issuancePoint"]
  BY DEF Readiness!ProfileReasons, Readiness!ConnectionReasons, Readiness!PointReasons,
     Readiness!Dimensions
<1>4. /\ Readiness!CertificateReasons(facts) \subseteq D["certificate"]
      /\ Readiness!TaxpayerReasons(facts) \subseteq D["issuer"]
  BY DEF Readiness!CertificateReasons, Readiness!TaxpayerReasons, Readiness!Dimensions
<1>5. Readiness!ActivityReasons(facts, report.profile, report.default) \subseteq D["activity"]
  BY DEF Readiness!ActivityReasons, Readiness!Dimensions
<1> QED
  BY <1>2, <1>3, <1>4, <1>5

\* One read more.
LEMMA AddsStep ==
    ASSUME IsReport(report), NEW S, Readiness!Adds(S)
    PROVE  /\ report'.next = report.next + 1 /\ report'.reasons = report.reasons \cup S
           /\ report'.profile = report.profile /\ report'.default = report.default
           /\ IsReport(report)' /\ UNCHANGED <<facts, changes>>
<1> DEFINE n == report.next  rs == report.reasons  p == report.profile  d == report.default
           ok == report.ready  b == report.blocked
<1>1. report' = [report EXCEPT !.next = @ + 1, !.reasons = @ \cup S] /\ UNCHANGED <<facts, changes>>
  BY DEF Readiness!Adds
<1>2. report = [next |-> n, reasons |-> rs, profile |-> p, default |-> d, ready |-> ok, blocked |-> b]
  BY DEF IsReport
<1> HIDE DEF n, rs, p, d, ok, b
<1>3. report' = [next |-> n + 1, reasons |-> rs \cup S, profile |-> p, default |-> d, ready |-> ok,
                 blocked |-> b]
  BY <1>1, <1>2
<1> QED
  BY <1>1, <1>3 DEF IsReport, n, rs, p, d, ok, b

LEMMA ReadSteps ==
    ASSUME ReadinessOrder,
           \/ Readiness!ReadProfile \/ Readiness!ReadConnection \/ Readiness!ReadCertificate
           \/ Readiness!ReadPoint \/ Readiness!ReadTaxpayer \/ Readiness!ReadActivities
    PROVE  ReadinessOrder'
<1>0. /\ changes \in Nat /\ IsReport(report) /\ report.reasons \subseteq Blocking
      /\ changes = 0 =>
            /\ report.next > 1 => report.profile = facts.profile /\ report.default = facts.default
            /\ report.next < 8 => report.reasons = Gathered(report.next)
  BY DEF ReadinessOrder
<1>1. CASE Readiness!ReadProfile
  <2> DEFINE n == report.next  rs == report.reasons  p == report.profile  d == report.default
             ok == report.ready  b == report.blocked  read == Readiness!ProfileReasons(facts)
  <2>1. /\ report' = [report EXCEPT !.next = 2, !.reasons = read,
                                    !.profile = facts.profile, !.default = facts.default]
        /\ UNCHANGED <<facts, changes>>
    BY <1>1 DEF Readiness!ReadProfile
  <2>2. report = [next |-> n, reasons |-> rs, profile |-> p, default |-> d, ready |-> ok,
                  blocked |-> b]
    BY <1>0 DEF IsReport
  <2> HIDE DEF n, rs, p, d, ok, b, read
  <2>3. report' = [next |-> 2, reasons |-> read,
                   profile |-> facts.profile, default |-> facts.default, ready |-> ok, blocked |-> b]
    BY <2>1, <2>2
  <2>4. /\ report'.next = 2 /\ report'.reasons = Readiness!ProfileReasons(facts)
        /\ report'.profile = facts.profile /\ report'.default = facts.default
        /\ IsReport(report)'
    BY <2>3 DEF IsReport, read
  <2>5. report'.reasons = Gathered(2)
    BY <2>4 DEF Gathered
  <2>6. Gathered(2)' = Gathered(2) /\ Blocking' = Blocking
    BY <2>1 DEF Gathered, Blocking
  <2> QED
    BY <1>0, <2>1, <2>4, <2>5, <2>6, ReasonsBlock DEF ReadinessOrder
<1>2. ASSUME NEW n \in 2..6, NEW S, report.next = n, Readiness!Adds(S), S \subseteq Blocking,
             changes = 0 => Gathered(n + 1) = Gathered(n) \cup S
      PROVE  ReadinessOrder'
  <2>1. /\ report'.next = n + 1 /\ report'.reasons = report.reasons \cup S
        /\ report'.profile = report.profile /\ report'.default = report.default
        /\ IsReport(report)' /\ UNCHANGED <<facts, changes>>
    BY <1>0, <1>2, AddsStep
  <2>2. Gathered(n + 1)' = Gathered(n + 1) /\ Blocking' = Blocking
    BY <2>1 DEF Gathered, Blocking
  <2>3. changes = 0 => report'.reasons = Gathered(n + 1)
    BY <1>0, <1>2, <2>1
  <2> QED
    BY <1>0, <1>2, <2>1, <2>2, <2>3 DEF ReadinessOrder
<1>3. CASE Readiness!ReadConnection
  <2>1. Gathered(3) = Gathered(2) \cup Readiness!ConnectionReasons(facts)
    BY DEF Gathered
  <2> QED
    BY <1>2, <1>3, <2>1, ReadsInOrder, ReasonsBlock DEF Readiness!ReadConnection
<1>4. CASE Readiness!ReadCertificate
  <2>1. Gathered(4) = Gathered(3) \cup Readiness!CertificateReasons(facts)
    BY DEF Gathered
  <2> QED
    BY <1>2, <1>4, <2>1, ReadsInOrder, ReasonsBlock DEF Readiness!ReadCertificate
<1>5. CASE Readiness!ReadPoint
  <2>1. Gathered(5) = Gathered(4) \cup Readiness!PointReasons(facts)
    BY DEF Gathered
  <2> QED
    BY <1>2, <1>5, <2>1, ReadsInOrder, ReasonsBlock DEF Readiness!ReadPoint
<1>6. CASE Readiness!ReadTaxpayer
  <2>1. Gathered(6) = Gathered(5) \cup Readiness!TaxpayerReasons(facts)
    BY DEF Gathered
  <2> QED
    BY <1>2, <1>6, <2>1, ReadsInOrder, ReasonsBlock DEF Readiness!ReadTaxpayer
<1>7. CASE Readiness!ReadActivities
  <2>1. report.next = 6
    BY <1>7, ReadsInOrder DEF Readiness!ReadActivities
  <2>2. changes = 0 => report.profile = facts.profile /\ report.default = facts.default
    BY <1>0, <2>1
  <2>3. Gathered(7) = Gathered(6) \cup Readiness!ActivityReasons(facts, facts.profile, facts.default)
    BY DEF Gathered
  <2>4. changes = 0 => Gathered(7)
           = Gathered(6) \cup Readiness!ActivityReasons(facts, report.profile, report.default)
    BY <2>2, <2>3
  <2> QED
    BY <1>2, <1>7, <2>1, <2>4, ReasonsBlock DEF Readiness!ReadActivities
<1> QED
  BY <1>1, <1>3, <1>4, <1>5, <1>6, <1>7

LEMMA DimensionsStep ==
    ASSUME ReadinessOrder, Readiness!ReadDimensions
    PROVE  ReadinessOrder'
<1> DEFINE n == report.next  ok == report.ready  b == report.blocked
           rs == report.reasons  p == report.profile  d == report.default
           none == rs = {}
           blocked == {x \in DOMAIN Readiness!Dimensions : Readiness!Dimensions[x] \cap rs # {}}
                      \cup IF facts.point THEN {} ELSE {"sequence"}
<1>1. /\ changes \in Nat /\ IsReport(report) /\ report.next = 7 /\ rs \subseteq Blocking
      /\ changes = 0 => rs = Gathered(7) /\ p = facts.profile /\ d = facts.default
  BY ReadsInOrder DEF ReadinessOrder, Readiness!ReadDimensions
<1>2. /\ report' = [report EXCEPT !.next = 8, !.ready = none, !.blocked = blocked]
      /\ UNCHANGED <<facts, changes>>
  BY DEF Readiness!ReadDimensions
<1>3. report = [next |-> n, reasons |-> rs, profile |-> p, default |-> d, ready |-> ok,
                blocked |-> b]
  BY <1>1 DEF IsReport
<1>4. "sequence" \notin DOMAIN Readiness!Dimensions
  BY DEF Readiness!Dimensions
<1>5. /\ blocked \ {"sequence"}
           = {x \in DOMAIN Readiness!Dimensions : Readiness!Dimensions[x] \cap rs # {}}
      /\ "sequence" \in blocked <=> ~facts.point
  BY <1>4
<1> HIDE DEF n, rs, p, d, ok, b, blocked, none
<1>6. report' = [next |-> 8, reasons |-> rs, profile |-> p, default |-> d, ready |-> none,
                 blocked |-> blocked]
  BY <1>2, <1>3
<1>7. /\ report'.next = 8 /\ report'.reasons = rs /\ report'.profile = p /\ report'.default = d
      /\ report'.ready = none /\ report'.blocked = blocked /\ IsReport(report)'
  BY <1>6 DEF IsReport
<1>8. IsOfReasons'
  BY <1>2, <1>5, <1>7 DEF IsOfReasons, none, Readiness!Dimensions
<1>9. Gathered(7)' = Gathered(7) /\ Blocking' = Blocking
  BY <1>2 DEF Gathered, Blocking
<1> QED
  BY <1>1, <1>2, <1>7, <1>8, <1>9 DEF ReadinessOrder

LEMMA ChangeStep ==
    ASSUME ReadinessOrder, Readiness!Change
    PROVE  ReadinessOrder'
<1>1. report' = report /\ changes' \in Nat /\ changes' # 0 /\ report.next \in 1..7
  BY ReadsInOrder DEF Readiness!Change, ReadinessOrder
<1>2. Blocking' = Blocking
  BY DEF Blocking
<1> QED
  BY <1>1, <1>2 DEF ReadinessOrder, IsReport

LEMMA ReadinessInOrder == PlatformSpec => []ReadinessOrder
<1>1. PlatformInit => ReadinessOrder
  <2> SUFFICES ASSUME PlatformInit PROVE ReadinessOrder
    OBVIOUS
  <2>1. Readiness!NothingRead
    BY DEF PlatformInit, Readiness!ReadinessInit
  <2>2. /\ changes = 0 /\ report.next = 1 /\ report.reasons = {} /\ IsReport(report)
    BY <2>1 DEF Readiness!NothingRead, IsReport
  <2>3. Gathered(1) = {}
    BY DEF Gathered
  <2> QED
    BY <2>2, <2>3 DEF ReadinessOrder
<1>2. ReadinessOrder /\ [PlatformNext]_platformVars => ReadinessOrder'
  <2>1. CASE Readiness!ReadinessNext /\ ReadinessOrder
    BY <2>1, ReadSteps, DimensionsStep, ChangeStep DEF Readiness!ReadinessNext
  <2>2. CASE UNCHANGED readinessVars /\ ReadinessOrder
    BY <2>2 DEF readinessVars, ReadinessOrder, IsReport, IsOfReasons, Gathered, Blocking
  <2>3. [PlatformNext]_platformVars => Readiness!ReadinessNext \/ UNCHANGED readinessVars
    BY DEF PlatformNext, platformVars, flowVars, MoveSecrets, MoveInitialise, MoveBackup,
       MoveMigrate, MoveConnection, MoveSessions, MoveKeys, MoveTenants, MoveBreaker,
       MoveAnswers, MoveDocumentPdf, MoveRepresentation, MoveDocuments, MoveLookups,
       MoveReadiness
  <2> QED
    BY <2>1, <2>2, <2>3
<1> QED
  BY <1>1, <1>2, PTL DEF PlatformSpec

LEMMA ReadinessOrderIsEnough == ReadinessOrder => Readiness!ReadinessInv
<1> SUFFICES ASSUME ReadinessOrder PROVE Readiness!ReadinessInv
  OBVIOUS
<1>1. Readiness!Reported => report.next = 8
  BY ReadsInOrder DEF ReadinessOrder, Readiness!Reported
<1>2. Readiness!Reported /\ changes = 0 =>
         report.reasons = Gathered(7) /\ report.ready = (report.reasons = {})
  BY <1>1 DEF ReadinessOrder, IsOfReasons
<1>3. Gathered(7) = Readiness!ProfileReasons(facts) \cup Readiness!ConnectionReasons(facts)
                    \cup Readiness!CertificateReasons(facts) \cup Readiness!PointReasons(facts)
                    \cup Readiness!TaxpayerReasons(facts)
                    \cup Readiness!ActivityReasons(facts, facts.profile, facts.default)
  BY DEF Gathered
<1>4. ASSUME Readiness!Reported, changes = 0, report.ready
      PROVE  Readiness!CreationRefusal(facts)
               \in {"NONE", "COMPANY_FISCAL_PROFILE_INCOMPLETE", "COMPANY_NOT_FOUND"}
  <2>1. /\ Readiness!ProfileReasons(facts) = {} /\ Readiness!ConnectionReasons(facts) = {}
        /\ Readiness!PointReasons(facts) = {}
        /\ Readiness!ActivityReasons(facts, facts.profile, facts.default) = {}
    BY <1>2, <1>3, <1>4
  <2>2. facts.profile # "none" /\ Readiness!Eligible(facts) /\ facts.point
    BY <2>1 DEF Readiness!ProfileReasons, Readiness!ConnectionReasons, Readiness!PointReasons
  <2>3. Readiness!ActivityRefusal(facts) = "NONE"
    BY <2>1, <2>2 DEF Readiness!ActivityReasons, Readiness!ActivityRefusal, Readiness!HasDefault
  <2> QED
    BY <2>2, <2>3 DEF Readiness!CreationRefusal, Readiness!ProfileRefusal
<1>5. ASSUME Readiness!Reported, changes = 0, ~report.ready,
             Readiness!CreationRefusal(facts) = "NONE"
      PROVE  report.reasons \subseteq Readiness!Dimensions.issuer \cup Readiness!Dimensions.certificate
  <2>1. /\ facts.profile # "none" /\ Readiness!Eligible(facts) /\ facts.point
        /\ Readiness!ActivityRefusal(facts) = "NONE"
    BY <1>5 DEF Readiness!CreationRefusal, Readiness!ProfileRefusal
  <2>2. Readiness!ActivityReasons(facts, facts.profile, facts.default) = {}
    <3>1. ~Readiness!NoActivities(facts)
      BY <2>1 DEF Readiness!ActivityRefusal, Readiness!NoActivities, Readiness!IsValid,
         Readiness!OneOf, Readiness!ValidActivities, Readiness!Activities
    <3> QED
      BY <2>1, <3>1 DEF Readiness!ActivityReasons, Readiness!ActivityRefusal, Readiness!HasDefault
  <2>3. /\ Readiness!ProfileReasons(facts) = {} /\ Readiness!ConnectionReasons(facts) = {}
        /\ Readiness!PointReasons(facts) = {}
    BY <2>1 DEF Readiness!ProfileReasons, Readiness!ConnectionReasons, Readiness!PointReasons
  <2>4. /\ Readiness!CertificateReasons(facts) \subseteq Readiness!Dimensions.certificate
        /\ Readiness!TaxpayerReasons(facts) \subseteq Readiness!Dimensions.issuer
    BY DEF Readiness!CertificateReasons, Readiness!TaxpayerReasons, Readiness!Dimensions
  <2> QED
    BY <1>2, <1>3, <1>5, <2>2, <2>3, <2>4
<1>6. ASSUME Readiness!Reported
      PROVE  /\ report.ready <=> report.blocked \subseteq {"sequence"}
             /\ changes = 0 => (report.ready <=> report.blocked = {})
  <2>1. IsOfReasons /\ report.reasons \subseteq Blocking
    BY <1>1, <1>6 DEF ReadinessOrder
  <2>2. report.ready = (report.reasons = {})
    BY <2>1 DEF IsOfReasons
  <2>3. report.reasons = {} <=> report.blocked \ {"sequence"} = {}
    <3>1. ASSUME report.reasons # {} PROVE report.blocked \ {"sequence"} # {}
      <4>1. PICK x \in report.reasons : x \in Blocking
        BY <2>1, <3>1
      <4>2. PICK d \in DOMAIN Readiness!Dimensions : x \in Readiness!Dimensions[d]
        BY <4>1 DEF Blocking
      <4> QED
        BY <2>1, <4>1, <4>2 DEF IsOfReasons
    <3> QED
      BY <2>1, <3>1 DEF IsOfReasons
  <2>4. changes = 0 /\ report.reasons = {} => "sequence" \notin report.blocked
    <3> SUFFICES ASSUME changes = 0, report.reasons = {} PROVE facts.point
      BY <2>1 DEF IsOfReasons
    <3>1. Readiness!PointReasons(facts) = {}
      BY <1>2, <1>3, <1>6
    <3> QED
      BY <3>1 DEF Readiness!PointReasons
  <2> QED
    BY <2>2, <2>3, <2>4
<1> QED
  BY <1>4, <1>5, <1>6 DEF Readiness!ReadinessInv, Readiness!ReadyMeansIssuable,
     Readiness!UnreadyIssuesWithout, Readiness!StatusIsOfTheDimensions

\* A client finds what it created and nobody else does, and a company reported ready can
\* issue (FiscalDocumentService's lookups, FiscalReadinessService): IssuerInv.
THEOREM IssuerCorrect == PlatformSpec => []IssuerInv
<1>1. LookupsOrder /\ ReadinessOrder => IssuerInv
  BY ReadinessOrderIsEnough DEF LookupsOrder, IssuerInv
<1> QED
  BY <1>1, LookupsInOrder, ReadinessInOrder, PTL

-----------------------------------------------------------------------------
(* DocumentPdf: blocks placed by hand on pages of a fixed height *)

\* The block drawn last ends where the next may start, or is on an earlier page.
BoxesOrder ==
    /\ page \in Nat \ {0} /\ y \in Nat /\ rows \in 0..MaxRows /\ moved \in 0..508
    /\ box.page \in Nat /\ box.top \in Nat /\ box.bottom \in Nat /\ box.kind \in Pdf!Kinds
    /\ pdfPc \in {"header", "identification", "parties", "columns", "rows", "row", "totals",
                  "qr", "number", "done"}
    /\ box.page <= page
    /\ pdfPc = "header" => box.kind = "none" \/ box.page < page
    /\ pdfPc \notin {"header", "number", "done"} /\ box.page = page => box.bottom <= y

\* How low the next block may start, by what it is; a table has its columns, and a row is
\* left for the page that was begun for it.
DepthsOrder ==
    /\ pdfPc = "identification" => y <= 138 /\ page = 1
    /\ pdfPc = "parties" => y <= 206 /\ page = 1
    /\ pdfPc = "columns" => y <= 306 /\ (page # 1 => y <= 138)
    /\ pdfPc = "row" => y <= 156
    /\ pdfPc = "rows" => y <= Pdf!FooterSafeTop
    /\ pdfPc = "totals" => y <= Pdf!FooterSafeTop + 8
    /\ pdfPc = "qr" => box.bottom <= Pdf!QrTop - 10
    /\ pdfPc = "number" => box.bottom <= Pdf!PageNumberY
    /\ pdfPc \in {"rows", "row"} => headed = page
    /\ (pdfPc = "row" \/ (pdfPc \in {"header", "columns"} /\ page # 1)) => rows < MaxRows

PdfOrder == BoxesOrder /\ DepthsOrder /\ Pdf!DocumentPdfInv

\* The heights that depend on the document.
LEMMA PdfHeights ==
    /\ Pdf!HeaderHeight \in 74..98 /\ Pdf!PartiesHeight \in 64..100
    /\ Pdf!TotalsHeight \in 80..92
    /\ \A content \in ContentHeights : Pdf!RowHeight(content) \in 20..508
<1>1. Pdf!HeaderHeight \in 74..98 /\ Pdf!PartiesHeight \in 64..100 /\ Pdf!TotalsHeight \in 80..92
  BY DEF Pdf!HeaderHeight, Pdf!PartiesHeight, Pdf!TotalsHeight
<1>2. ASSUME NEW content \in ContentHeights PROVE Pdf!RowHeight(content) \in 20..508
  <2>1. content \in 0..500
    BY PlatformConstants
  <2> QED
    BY <2>1 DEF Pdf!RowHeight
<1> QED
  BY <1>1, <1>2

LEMMA PdfConstants ==
    /\ Pdf!FooterSafeTop = 695 /\ Pdf!QrTop = 730 /\ Pdf!PageNumberY = 804
    /\ Pdf!TextBottom = 824 /\ Pdf!Margin = 40 /\ Pdf!QrSize = 72 /\ Pdf!TextHeight = 9
  BY DEF Pdf!FooterSafeTop, Pdf!QrTop, Pdf!PageNumberY, Pdf!TextBottom, Pdf!Margin,
     Pdf!QrSize, Pdf!PageHeight, Pdf!TextHeight

\* A block below the last one, or on a new page, keeps the invariant, if it is not too low.
LEMMA DrawSteps ==
    ASSUME PdfOrder, NEW kind \in Pdf!Kinds, NEW onPage \in Nat, NEW top \in Nat,
           NEW height \in Nat, Pdf!Draw(kind, onPage, top, height),
           onPage = box.page /\ box.kind # "none" => box.bottom <= top,
           top + height <= Pdf!TextBottom,
           kind = "row" => top + height <= Pdf!FooterSafeTop /\ headed' = onPage,
           kind = "totals" => top + height <= Pdf!QrTop - 10,
           rows' \in 0..MaxRows
    PROVE  /\ Pdf!DocumentPdfInv'
           /\ box'.page = onPage /\ box'.kind = kind /\ box'.top = top
           /\ box'.bottom = top + height
<1>1. /\ box' = [page |-> onPage, kind |-> kind, top |-> top, bottom |-> top + height]
      /\ above' = box
  BY DEF Pdf!Draw
<1>2. /\ box'.page = onPage /\ box'.kind = kind /\ box'.top = top /\ box'.bottom = top + height
  BY <1>1
<1>3. Pdf!NothingOverlaps'
  BY <1>1, <1>2, PdfConstants DEF Pdf!NothingOverlaps, PdfOrder, BoxesOrder
<1>4. Pdf!StaysOnPage' /\ Pdf!RowsAreHeaded'
  BY <1>2 DEF Pdf!StaysOnPage, Pdf!RowsAreHeaded, Pdf!TextBottom, Pdf!FooterSafeTop, Pdf!QrTop
<1>5. rows' <= MaxRows
  BY PlatformConstants
<1> QED
  BY <1>2, <1>3, <1>4, <1>5 DEF Pdf!DocumentPdfInv, Pdf!Kinds

LEMMA FirstBlocks ==
    ASSUME PdfOrder,
           Pdf!PageHeader \/ Pdf!IdentificationBlock \/ Pdf!PartiesBlock \/ Pdf!ColumnHeaders
    PROVE  PdfOrder'
<1>0. /\ page \in Nat \ {0} /\ y \in Nat /\ rows \in 0..MaxRows /\ moved \in 0..508
      /\ box.page \in Nat /\ box.bottom \in Nat /\ box.page <= page
  BY DEF PdfOrder, BoxesOrder
<1> DEFINE h == Pdf!HeaderHeight  p == Pdf!PartiesHeight
<1>a. h \in 74..98 /\ p \in 64..100
  BY PdfHeights
<1> HIDE DEF h, p
<1>1. CASE Pdf!PageHeader
  <2>1. /\ Pdf!Draw("header", page, 40, h - 8) /\ y' = 40 + h /\ pdfPc = "header"
        /\ pdfPc' = IF page = 1 THEN "identification" ELSE "columns"
        /\ UNCHANGED <<shape, page, headed, moved, rows>>
    BY <1>1, PdfConstants DEF Pdf!PageHeader, h
  <2>2. h - 8 \in Nat /\ 40 + (h - 8) <= y' /\ y' <= 138 /\ y' \in Nat
    BY <1>a, <2>1
  <2>3. page = box.page /\ box.kind # "none" => box.bottom <= 40
    BY <1>0, <2>1 DEF PdfOrder, BoxesOrder
  <2>4. /\ Pdf!DocumentPdfInv' /\ box'.page = page /\ box'.kind = "header" /\ box'.top = 40
        /\ box'.bottom = 40 + (h - 8)
    BY <1>0, <1>a, <2>1, <2>2, <2>3, DrawSteps, PdfConstants DEF Pdf!Kinds
  <2> QED
    BY <1>0, <1>a, <2>1, <2>2, <2>4 DEF PdfOrder, BoxesOrder, DepthsOrder, Pdf!Kinds
<1>2. CASE Pdf!IdentificationBlock
  <2>1. /\ Pdf!Draw("identification", page, y, 60) /\ y' = y + 68 /\ pdfPc = "identification"
        /\ pdfPc' = "parties" /\ UNCHANGED <<shape, page, headed, moved, rows>>
    BY <1>2 DEF Pdf!IdentificationBlock
  <2>2. y <= 138 /\ page = 1 /\ (page = box.page => box.bottom <= y)
    BY <1>0, <2>1 DEF PdfOrder, BoxesOrder, DepthsOrder
  <2>3. /\ Pdf!DocumentPdfInv' /\ box'.page = page /\ box'.kind = "identification"
        /\ box'.top = y /\ box'.bottom = y + 60
    BY <1>0, <2>1, <2>2, DrawSteps, PdfConstants DEF Pdf!Kinds
  <2> QED
    BY <1>0, <2>1, <2>2, <2>3 DEF PdfOrder, BoxesOrder, DepthsOrder, Pdf!Kinds
<1>3. CASE Pdf!PartiesBlock
  <2>1. /\ Pdf!Draw("parties", page, y, p - 8) /\ y' = y + p /\ pdfPc = "parties"
        /\ pdfPc' = "columns" /\ UNCHANGED <<shape, page, headed, moved, rows>>
    BY <1>3 DEF Pdf!PartiesBlock, p
  <2>2. y <= 206 /\ page = 1 /\ (page = box.page => box.bottom <= y)
    BY <1>0, <2>1 DEF PdfOrder, BoxesOrder, DepthsOrder
  <2>3. p - 8 \in Nat /\ y + (p - 8) <= y' /\ y' <= 306 /\ y' \in Nat
    BY <1>0, <1>a, <2>1, <2>2
  <2>4. /\ Pdf!DocumentPdfInv' /\ box'.page = page /\ box'.kind = "parties"
        /\ box'.top = y /\ box'.bottom = y + (p - 8)
    BY <1>0, <2>1, <2>2, <2>3, DrawSteps, PdfConstants DEF Pdf!Kinds
  <2> QED
    BY <1>0, <1>a, <2>1, <2>2, <2>3, <2>4 DEF PdfOrder, BoxesOrder, DepthsOrder, Pdf!Kinds
<1>4. CASE Pdf!ColumnHeaders
  <2>1. /\ Pdf!Draw("columns", page, y, 16) /\ y' = y + 18 /\ pdfPc = "columns"
        /\ pdfPc' = IF page = 1 THEN "rows" ELSE "row"
        /\ headed' = page /\ UNCHANGED <<shape, page, moved, rows>>
    BY <1>4 DEF Pdf!ColumnHeaders
  <2>2. /\ y <= 306 /\ (page # 1 => y <= 138) /\ (page = box.page => box.bottom <= y)
        /\ page # 1 => rows < MaxRows
    BY <1>0, <2>1 DEF PdfOrder, BoxesOrder, DepthsOrder
  <2>3. /\ Pdf!DocumentPdfInv' /\ box'.page = page /\ box'.kind = "columns"
        /\ box'.top = y /\ box'.bottom = y + 16
    BY <1>0, <2>1, <2>2, DrawSteps, PdfConstants DEF Pdf!Kinds
  <2> QED
    BY <1>0, <2>1, <2>2, <2>3, PdfConstants DEF PdfOrder, BoxesOrder, DepthsOrder, Pdf!Kinds
<1> QED
  BY <1>1, <1>2, <1>3, <1>4

LEMMA RowBlocks ==
    ASSUME PdfOrder,
           \/ Pdf!Row \/ Pdf!ContinuationPage \/ Pdf!MovedRow \/ Pdf!TableEnds
    PROVE  PdfOrder'
<1>0. /\ page \in Nat \ {0} /\ y \in Nat /\ rows \in 0..MaxRows /\ moved \in 0..508
      /\ box.page \in Nat /\ box.bottom \in Nat /\ box.page <= page /\ MaxRows \in Nat
  BY PlatformConstants DEF PdfOrder, BoxesOrder
<1>1. CASE Pdf!Row
  <2>1. PICK content \in ContentHeights :
           /\ pdfPc = "rows" /\ rows < MaxRows /\ Pdf!RowFits(Pdf!RowHeight(content))
           /\ Pdf!DrawRow(Pdf!RowHeight(content))
           /\ UNCHANGED <<pdfPc, shape, page, headed, moved>>
    BY <1>1 DEF Pdf!Row
  <2> DEFINE h == Pdf!RowHeight(content)
  <2>2. /\ h \in 20..508 /\ y + h <= 695 /\ y' = y + h /\ rows' = rows + 1
        /\ Pdf!Draw("row", page, y, h)
    BY <2>1, PdfHeights, PdfConstants DEF Pdf!RowFits, Pdf!DrawRow
  <2> HIDE DEF h
  <2>3. headed = page /\ (page = box.page => box.bottom <= y)
    BY <2>1 DEF PdfOrder, BoxesOrder, DepthsOrder
  <2>4. h \in Nat /\ rows' \in 0..MaxRows /\ y' \in Nat
    BY <1>0, <2>1, <2>2
  <2>5. headed' = page /\ y + h <= Pdf!TextBottom /\ y + h <= Pdf!FooterSafeTop
    BY <1>0, <2>1, <2>2, <2>3, <2>4, PdfConstants
  <2>6. /\ Pdf!DocumentPdfInv' /\ box'.page = page /\ box'.kind = "row"
        /\ box'.top = y /\ box'.bottom = y + h
    BY <1>0, <2>2, <2>3, <2>4, <2>5, DrawSteps DEF Pdf!Kinds
  <2> QED
    BY <1>0, <2>1, <2>2, <2>3, <2>4, <2>5, <2>6, PdfConstants
    DEF PdfOrder, BoxesOrder, DepthsOrder, Pdf!Kinds
<1>2. CASE Pdf!ContinuationPage
  <2>1. PICK content \in ContentHeights : moved' = Pdf!RowHeight(content)
    BY <1>2 DEF Pdf!ContinuationPage
  <2>2. /\ pdfPc = "rows" /\ rows < MaxRows /\ page' = page + 1 /\ pdfPc' = "header"
        /\ UNCHANGED <<shape, y, box, above, headed, rows>>
    BY <1>2 DEF Pdf!ContinuationPage
  <2>3. moved' \in 0..508
    BY <2>1, PdfHeights
  <2>4. Pdf!DocumentPdfInv'
    BY <2>2 DEF PdfOrder, Pdf!DocumentPdfInv, Pdf!NothingOverlaps, Pdf!StaysOnPage,
       Pdf!RowsAreHeaded, Pdf!Kinds, Pdf!TextBottom, Pdf!FooterSafeTop, Pdf!QrTop
  <2> QED
    BY <1>0, <2>2, <2>3, <2>4 DEF PdfOrder, BoxesOrder, DepthsOrder, Pdf!Kinds
<1>3. CASE Pdf!MovedRow
  <2>1. /\ pdfPc = "row" /\ Pdf!Draw("row", page, y, moved) /\ y' = y + moved
        /\ rows' = rows + 1 /\ moved' = 0 /\ pdfPc' = "rows" /\ UNCHANGED <<shape, page, headed>>
    BY <1>3 DEF Pdf!MovedRow, Pdf!DrawRow
  <2>2. headed = page /\ (page = box.page => box.bottom <= y) /\ y <= 156 /\ rows < MaxRows
    BY <2>1 DEF PdfOrder, BoxesOrder, DepthsOrder
  <2>3. moved \in Nat /\ rows' \in 0..MaxRows /\ y' \in Nat /\ y + moved <= 664
    BY <1>0, <2>1, <2>2
  <2>4. headed' = page /\ y + moved <= Pdf!TextBottom /\ y + moved <= Pdf!FooterSafeTop
    BY <1>0, <2>1, <2>2, <2>3, PdfConstants
  <2>5. /\ Pdf!DocumentPdfInv' /\ box'.page = page /\ box'.kind = "row"
        /\ box'.top = y /\ box'.bottom = y + moved
    BY <1>0, <2>1, <2>2, <2>3, <2>4, DrawSteps DEF Pdf!Kinds
  <2> QED
    BY <1>0, <2>1, <2>2, <2>3, <2>4, <2>5, PdfConstants
    DEF PdfOrder, BoxesOrder, DepthsOrder, Pdf!Kinds
<1>4. CASE Pdf!TableEnds
  <2>1. /\ pdfPc = "rows" /\ y' = y + 8 /\ pdfPc' = "totals"
        /\ UNCHANGED <<shape, page, box, above, headed, moved, rows>>
    BY <1>4 DEF Pdf!TableEnds
  <2>2. y <= 695 /\ (page = box.page => box.bottom <= y)
    BY <2>1, PdfConstants DEF PdfOrder, BoxesOrder, DepthsOrder
  <2>3. Pdf!DocumentPdfInv'
    BY <2>1 DEF PdfOrder, Pdf!DocumentPdfInv, Pdf!NothingOverlaps, Pdf!StaysOnPage,
       Pdf!RowsAreHeaded, Pdf!Kinds, Pdf!TextBottom, Pdf!FooterSafeTop, Pdf!QrTop
  <2> QED
    BY <1>0, <2>1, <2>2, <2>3, PdfConstants DEF PdfOrder, BoxesOrder, DepthsOrder, Pdf!Kinds
<1> QED
  BY <1>1, <1>2, <1>3, <1>4

LEMMA LastBlocks ==
    ASSUME PdfOrder, Pdf!TotalsBlock \/ Pdf!FinalPageFooter \/ Pdf!PageNumbers
    PROVE  PdfOrder'
<1>0. /\ page \in Nat \ {0} /\ y \in Nat /\ rows \in 0..MaxRows /\ moved \in 0..508
      /\ box.page \in Nat /\ box.bottom \in Nat /\ box.page <= page
  BY DEF PdfOrder, BoxesOrder
<1>1. CASE Pdf!TotalsBlock
  <2> DEFINE h == Pdf!TotalsHeight
             top == IF Pdf!TotalsFit THEN y ELSE 60
             onPage == IF Pdf!TotalsFit THEN page ELSE page + 1
  <2>1. /\ Pdf!Draw("totals", onPage, top, h) /\ page' = onPage /\ y' = top + h
        /\ pdfPc = "totals" /\ pdfPc' = "qr" /\ UNCHANGED <<shape, headed, moved, rows>>
    BY <1>1, PdfConstants DEF Pdf!TotalsBlock
  <2>2. h \in 80..92
    BY PdfHeights
  <2>3. /\ onPage \in Nat \ {0} /\ top \in Nat /\ top + 96 <= 695 /\ page <= onPage
        /\ onPage = page => top = y
    BY <1>0, PdfConstants DEF Pdf!TotalsFit
  <2> HIDE DEF h, top, onPage
  <2>4. page = box.page => box.bottom <= y
    BY <2>1 DEF PdfOrder, BoxesOrder
  <2>5. onPage = box.page => box.bottom <= top
    BY <1>0, <2>3, <2>4
  <2>6. h \in Nat /\ top + h <= Pdf!TextBottom /\ top + h <= Pdf!QrTop - 10
    BY <2>2, <2>3, PdfConstants
  <2>7. /\ Pdf!DocumentPdfInv' /\ box'.page = onPage /\ box'.kind = "totals"
        /\ box'.top = top /\ box'.bottom = top + h
    BY <1>0, <2>1, <2>3, <2>5, <2>6, DrawSteps DEF Pdf!Kinds
  <2> QED
    BY <1>0, <2>1, <2>2, <2>3, <2>6, <2>7, PdfConstants
    DEF PdfOrder, BoxesOrder, DepthsOrder, Pdf!Kinds
<1>2. CASE Pdf!FinalPageFooter
  <2>1. /\ Pdf!Draw("qr", page, 720, 82) /\ pdfPc = "qr" /\ pdfPc' = "number"
        /\ UNCHANGED <<shape, page, y, headed, moved, rows>>
    BY <1>2, PdfConstants DEF Pdf!FinalPageFooter
  <2>2. box.bottom <= 720
    BY <2>1, PdfConstants DEF PdfOrder, DepthsOrder
  <2>3. /\ Pdf!DocumentPdfInv' /\ box'.page = page /\ box'.kind = "qr"
        /\ box'.top = 720 /\ box'.bottom = 720 + 82
    BY <1>0, <2>1, <2>2, DrawSteps, PdfConstants DEF Pdf!Kinds
  <2> QED
    BY <1>0, <2>1, <2>3, PdfConstants DEF PdfOrder, BoxesOrder, DepthsOrder, Pdf!Kinds
<1>3. CASE Pdf!PageNumbers
  <2>1. /\ Pdf!Draw("number", page, 804, 9) /\ pdfPc = "number" /\ pdfPc' = "done"
        /\ UNCHANGED <<shape, page, y, headed, moved, rows>>
    BY <1>3, PdfConstants DEF Pdf!PageNumbers
  <2>2. box.bottom <= 804
    BY <2>1, PdfConstants DEF PdfOrder, DepthsOrder
  <2>3. /\ Pdf!DocumentPdfInv' /\ box'.page = page /\ box'.kind = "number"
        /\ box'.top = 804 /\ box'.bottom = 804 + 9
    BY <1>0, <2>1, <2>2, DrawSteps, PdfConstants DEF Pdf!Kinds
  <2> QED
    BY <1>0, <2>1, <2>3, PdfConstants DEF PdfOrder, BoxesOrder, DepthsOrder, Pdf!Kinds
<1> QED
  BY <1>1, <1>2, <1>3

LEMMA PdfInOrder == PlatformSpec => []PdfOrder
<1>1. PlatformInit => PdfOrder
  <2> SUFFICES ASSUME PlatformInit PROVE PdfOrder
    OBVIOUS
  <2>1. Pdf!DocumentPdfInit
    BY DEF PlatformInit
  <2>2. /\ pdfPc = "header" /\ page = 1 /\ y = 40 /\ moved = 0 /\ rows = 0
        /\ box.page = 1 /\ box.kind = "none" /\ box.top = 0 /\ box.bottom = 0 /\ above = box
    BY <2>1, PdfConstants DEF Pdf!DocumentPdfInit
  <2>3. Pdf!DocumentPdfInv
    BY <2>2, PlatformConstants, PdfConstants DEF Pdf!DocumentPdfInv, Pdf!NothingOverlaps,
       Pdf!StaysOnPage, Pdf!RowsAreHeaded, Pdf!Kinds
  <2> QED
    BY <2>2, <2>3, PlatformConstants DEF PdfOrder, BoxesOrder, DepthsOrder, Pdf!Kinds
<1>2. PdfOrder /\ [PlatformNext]_platformVars => PdfOrder'
  <2>1. CASE Pdf!DocumentPdfNext /\ PdfOrder
    BY <2>1, FirstBlocks, RowBlocks, LastBlocks DEF Pdf!DocumentPdfNext
  <2>2. CASE UNCHANGED documentPdfVars /\ PdfOrder
    BY <2>2 DEF documentPdfVars, PdfOrder, BoxesOrder, DepthsOrder, Pdf!DocumentPdfInv,
       Pdf!NothingOverlaps, Pdf!StaysOnPage, Pdf!RowsAreHeaded, Pdf!Kinds, Pdf!TextBottom,
       Pdf!FooterSafeTop, Pdf!QrTop, Pdf!PageNumberY
  <2>3. [PlatformNext]_platformVars => Pdf!DocumentPdfNext \/ UNCHANGED documentPdfVars
    BY DEF PlatformNext, platformVars, pdfVars, MoveSecrets, MoveInitialise, MoveBackup,
       MoveMigrate, MoveConnection, MoveSessions, MoveKeys, MoveTenants, MoveBreaker,
       MoveAnswers, MoveDocumentPdf, MoveRepresentation, MoveDocuments, MoveLookups,
       MoveReadiness
  <2> QED
    BY <2>1, <2>2, <2>3
<1> QED
  BY <1>1, <1>2, PTL DEF PlatformSpec

-----------------------------------------------------------------------------
(* RepresentationPdf: sections that break where they must, and one promise *)

\* The blocks are still being drawn; the QR code is still awaited.
Placing == drawPc \notin {"finish", "flowing", "over"}
Awaited == drawPc = "making qr"

\* Blocks as in the other PDF; the QR code has its room reserved.
SheetsOrder ==
    /\ drawPage \in Nat \ {0} /\ drawY \in Nat
    /\ drawBox.page \in Nat /\ drawBox.top \in Nat /\ drawBox.bottom \in Nat
    /\ drawBox.page <= drawPage
    /\ Placing /\ drawBox.page = drawPage => drawBox.bottom <= drawY
    /\ Awaited => drawY + 92 <= Representation!ContentBottom

\* The promise is resolved by a stream whose pages are numbered; before the start nobody
\* listens, and only a document with a QR code waits for one.
PromiseOrder ==
    /\ drawPc \notin {"flowing", "over"} => footers = {}
    /\ drawPc = "flowing" => footers = 1 .. drawPage
    /\ promise = "resolved" => drawPc = "over"
    /\ drawPc \notin {"making qr", "over"} => promise = "pending"
    /\ drawPc = "start" => ~listening
    /\ drawPc \in {"qr", "making qr"} => qr = "https"

DrawingOrder == SheetsOrder /\ PromiseOrder /\ Representation!RepresentationPdfInv

LEMMA SheetConstants ==
    /\ Representation!ContentBottom = 776 /\ Representation!TextBottom = 802
    /\ Representation!FirstY = 79 /\ Representation!QrSize = 72
    /\ TextHeights \subseteq 0..600 /\ RowHeights \subseteq 0..600
<1>1. /\ Representation!ContentBottom = 776 /\ Representation!TextBottom = 802
      /\ Representation!FirstY = 79 /\ Representation!QrSize = 72
  BY DEF Representation!ContentBottom, Representation!TextBottom, Representation!FirstY,
     Representation!QrSize, Representation!PageHeight, Representation!Margin
<1>2. TextHeights \subseteq 0..600 /\ RowHeights \subseteq 0..600
  BY PlatformConstants
<1> QED
  BY <1>1, <1>2

\* A block that is not as high as a page is placed below the last one or on a new page.
LEMMA PlaceStep ==
    ASSUME SheetsOrder, Representation!LayoutIsSound,
           NEW kind, NEW needs \in Nat, NEW height \in Nat, NEW takes \in Nat,
           height <= needs, height <= takes, needs <= 690,
           Representation!Place(kind, needs, height, takes),
           Placing, ~Awaited'
    PROVE  SheetsOrder' /\ Representation!LayoutIsSound'
<1> DEFINE fits == Representation!Fits(needs)
           top == IF fits THEN drawY ELSE 79
           onPage == IF fits THEN drawPage ELSE drawPage + 1
<1>1. /\ drawBox' = [page |-> onPage, kind |-> kind, top |-> top, bottom |-> top + height]
      /\ drawAbove' = drawBox /\ drawPage' = onPage /\ drawY' = top + takes
  BY SheetConstants DEF Representation!Place
<1>2. /\ drawPage \in Nat \ {0} /\ drawY \in Nat /\ drawBox.page \in Nat
      /\ drawBox.bottom \in Nat /\ drawBox.page <= drawPage
      /\ drawBox.page = drawPage => drawBox.bottom <= drawY
  BY DEF SheetsOrder
<1>3. /\ onPage \in Nat \ {0} /\ top \in Nat /\ top + height <= 776
      /\ drawBox.page <= onPage /\ (drawBox.page = onPage => drawBox.bottom <= top)
  <2>1. CASE fits
    <3>1. top = drawY /\ onPage = drawPage /\ drawY + needs <= 776
      BY <2>1, SheetConstants DEF Representation!Fits
    <3> HIDE DEF top, onPage
    <3> QED
      BY <1>2, <3>1
  <2>2. CASE ~fits
    <3>1. top = 79 /\ onPage = drawPage + 1
      BY <2>2
    <3> HIDE DEF top, onPage
    <3> QED
      BY <1>2, <3>1
  <2> QED
    BY <2>1, <2>2
<1> HIDE DEF fits, top, onPage
<1>4. /\ drawBox'.page = onPage /\ drawBox'.top = top /\ drawBox'.bottom = top + height
      /\ top + height \in Nat /\ top + takes \in Nat /\ top + height <= top + takes
  BY <1>1, <1>3
<1>5. SheetsOrder'
  BY <1>1, <1>3, <1>4 DEF SheetsOrder
<1>6. Representation!LayoutIsSound'
  BY <1>1, <1>3, <1>4, SheetConstants DEF Representation!LayoutIsSound,
     Representation!ContentBottom, Representation!TextBottom, Representation!PageHeight,
     Representation!Margin
<1> QED
  BY <1>5, <1>6

LEMMA RowStep ==
    ASSUME SheetsOrder, Representation!LayoutIsSound, Representation!LineRow
    PROVE  SheetsOrder' /\ Representation!LayoutIsSound'
<1>1. PICK height \in RowHeights :
         LET top == IF Representation!Fits(height) THEN drawY ELSE 98
             onPage == IF Representation!Fits(height) THEN drawPage ELSE drawPage + 1
             columns == [page |-> onPage, kind |-> "columns", top |-> 79, bottom |-> 95] IN
         /\ drawBox' = [page |-> onPage, kind |-> "row", top |-> top, bottom |-> top + height]
         /\ drawAbove' = IF Representation!Fits(height) THEN drawBox ELSE columns
         /\ drawPage' = onPage
         /\ drawY' = top + height + 2
  BY SheetConstants DEF Representation!LineRow
<1> DEFINE fits == Representation!Fits(height)
           top == IF fits THEN drawY ELSE 98
           onPage == IF fits THEN drawPage ELSE drawPage + 1
<1>2. /\ drawPage \in Nat \ {0} /\ drawY \in Nat /\ drawBox.page \in Nat
      /\ drawBox.bottom \in Nat /\ drawBox.page <= drawPage
      /\ drawBox.page = drawPage => drawBox.bottom <= drawY
      /\ height \in 0..600
  <2>1. Placing
    BY DEF Placing, Representation!LineRow
  <2> QED
    BY <2>1, SheetConstants DEF SheetsOrder
<1>3. /\ onPage \in Nat \ {0} /\ top \in Nat /\ top + height <= 776
  <2>1. CASE fits
    BY <1>2, <2>1, SheetConstants DEF Representation!Fits
  <2>2. CASE ~fits
    BY <1>2, <2>2
  <2> QED
    BY <2>1, <2>2
<1>4. /\ drawBox'.page = onPage /\ drawBox'.top = top /\ drawBox'.bottom = top + height
      /\ drawPage' = onPage /\ drawY' = top + height + 2
  BY <1>1
<1>5. /\ drawAbove'.page <= onPage
      /\ drawAbove'.page = onPage => drawAbove'.bottom <= top
      /\ drawAbove'.page \in Nat
  <2>1. CASE fits
    <3>1. drawAbove' = drawBox /\ onPage = drawPage /\ top = drawY
      BY <1>1, <2>1
    <3> QED
      BY <1>2, <3>1
  <2>2. CASE ~fits
    <3>1. drawAbove' = [page |-> onPage, kind |-> "columns", top |-> 79, bottom |-> 95]
      BY <1>1, <2>2
    <3>2. drawAbove'.page = onPage /\ drawAbove'.bottom = 95 /\ top = 98
      BY <2>2, <3>1
    <3> QED
      BY <1>3, <3>2
  <2> QED
    BY <2>1, <2>2
<1> HIDE DEF top, onPage
<1>6. SheetsOrder'
  <2>1. ~Awaited'
    BY DEF Awaited, Representation!LineRow, Representation!Goto
  <2> QED
    BY <1>2, <1>3, <1>4, <2>1 DEF SheetsOrder
<1>7. Representation!LayoutIsSound'
  BY <1>3, <1>4, <1>5, SheetConstants DEF Representation!LayoutIsSound,
     Representation!ContentBottom, Representation!TextBottom, Representation!PageHeight,
     Representation!Margin
<1> QED
  BY <1>6, <1>7

\* The steps that place a block, and those that only make room for the code.
LEMMA BlockSteps ==
    ASSUME DrawingOrder,
           \/ Representation!Heading \/ Representation!Text \/ Representation!ColumnHeaders
           \/ Representation!LineRow
    PROVE  SheetsOrder' /\ Representation!LayoutIsSound'
<1>0. SheetsOrder /\ Representation!LayoutIsSound
  BY DEF DrawingOrder, Representation!RepresentationPdfInv
<1>1. CASE Representation!Heading
  <2>1. /\ Representation!Place("heading", 22, 13, 19) /\ Placing /\ ~Awaited'
    BY <1>1 DEF Representation!Heading, Representation!Goto, Placing, Awaited
  <2> QED
    BY <1>0, <2>1, PlaceStep
<1>2. CASE Representation!Text
  <2>1. PICK height \in TextHeights : Representation!Place("text", height + 3, height, height + 3)
    BY <1>2 DEF Representation!Text
  <2>2. Placing /\ ~Awaited'
    BY <1>2 DEF Representation!Text, Placing, Awaited
  <2>4. height \in 0..600
    BY SheetConstants
  <2>3. height \in Nat /\ height + 3 \in Nat /\ height <= height + 3 /\ height + 3 <= 690
    BY <2>4
  <2> QED
    BY <1>0, <2>1, <2>2, <2>3, PlaceStep
<1>3. CASE Representation!ColumnHeaders
  <2>1. /\ Representation!Place("columns", 19, 16, 19) /\ Placing /\ ~Awaited'
    BY <1>3 DEF Representation!ColumnHeaders, Representation!Goto, Placing, Awaited
  <2> QED
    BY <1>0, <2>1, PlaceStep
<1> QED
  BY <1>0, <1>1, <1>2, <1>3, RowStep

LEMMA QrSteps ==
    ASSUME DrawingOrder, Representation!AskForQr \/ Representation!QrArrives
    PROVE  SheetsOrder' /\ Representation!LayoutIsSound'
<1>0. /\ drawPage \in Nat \ {0} /\ drawY \in Nat /\ drawBox.page \in Nat
      /\ drawBox.bottom \in Nat /\ drawBox.top \in Nat /\ drawBox.page <= drawPage
      /\ drawBox.page = drawPage => drawBox.bottom <= drawY
      /\ Awaited => drawY + 92 <= 776
      /\ Representation!LayoutIsSound
  <2>1. Placing
    BY DEF Placing, Representation!AskForQr, Representation!QrArrives
  <2> QED
    BY <2>1, SheetConstants DEF DrawingOrder, SheetsOrder, Representation!RepresentationPdfInv
<1>1. CASE Representation!AskForQr
  <2>1. /\ UNCHANGED <<drawBox, drawAbove>>
        /\ drawPage' = IF Representation!Fits(92) THEN drawPage ELSE drawPage + 1
        /\ drawY' = IF Representation!Fits(92) THEN drawY ELSE 79
    <3>1. Representation!QrSize + 20 = 92
      BY SheetConstants
    <3> QED
      BY <1>1, <3>1, SheetConstants, ZenonT(60) DEF Representation!AskForQr
  <2>2. /\ drawPage' \in Nat \ {0} /\ drawY' \in Nat /\ drawY' + 92 <= 776
        /\ drawBox.page <= drawPage' /\ (drawBox.page = drawPage' => drawBox.bottom <= drawY')
    <3>1. CASE Representation!Fits(92)
      <4>1. drawPage' = drawPage /\ drawY' = drawY /\ drawY + 92 <= 776
        BY <2>1, <3>1, SheetConstants DEF Representation!Fits
      <4> QED
        BY <1>0, <4>1
    <3>2. CASE ~Representation!Fits(92)
      <4>1. drawPage' = drawPage + 1 /\ drawY' = 79
        BY <2>1, <3>2
      <4> QED
        BY <1>0, <4>1
    <3> QED
      BY <3>1, <3>2
  <2>3. Representation!ContentBottom' = 776
    BY DEF Representation!ContentBottom, Representation!PageHeight, Representation!Margin
  <2>4. SheetsOrder'
    BY <1>0, <2>1, <2>2, <2>3 DEF SheetsOrder
  <2>5. Representation!LayoutIsSound'
    BY <1>0, <2>1 DEF Representation!LayoutIsSound,
       Representation!ContentBottom, Representation!TextBottom, Representation!PageHeight,
       Representation!Margin
  <2> QED
    BY <2>4, <2>5
<1>2. CASE Representation!QrArrives
  <2>1. /\ UNCHANGED <<drawPage, drawY>>
        /\ drawBox' = [page |-> drawPage, kind |-> "qr", top |-> drawY, bottom |-> drawY + 72]
        /\ drawAbove' = drawBox
    BY <1>2, SheetConstants DEF Representation!QrArrives
  <2>2. /\ drawBox'.page = drawPage /\ drawBox'.top = drawY /\ drawBox'.bottom = drawY + 72
    BY <2>1
  <2>5. ~Awaited' /\ ~Placing' /\ Awaited
    BY <1>2 DEF Representation!QrArrives, Representation!Goto, Awaited, Placing
  <2>3. SheetsOrder'
    BY <1>0, <2>1, <2>2, <2>5 DEF SheetsOrder
  <2>4. Representation!LayoutIsSound'
    BY <1>0, <2>1, <2>2, <2>5 DEF Representation!LayoutIsSound,
       Representation!ContentBottom, Representation!TextBottom, Representation!PageHeight,
       Representation!Margin
  <2> QED
    BY <2>3, <2>4
<1> QED
  BY <1>1, <1>2

LEMMA SectionPlaces ==
    /\ Len(Representation!Sections) = 10
    /\ \A s \in DOMAIN Representation!Position : Representation!Position[s] \in 1..10
    /\ \A i \in 1..10 : Representation!Sections[i] \in DOMAIN Representation!Position
    /\ "identification" \in DOMAIN Representation!Position
<1>1. Len(Representation!Sections) = 10 /\ DOMAIN Representation!Sections = 1..10
      /\ Representation!Sections[1] = "identification"
  BY DEF Representation!Sections
<1>2. DOMAIN Representation!Position = {Representation!Sections[i] : i \in 1..10}
  BY <1>1 DEF Representation!Position
<1>3. ASSUME NEW s \in DOMAIN Representation!Position PROVE Representation!Position[s] \in 1..10
  <2>1. \E i \in 1..10 : Representation!Sections[i] = s
    BY <1>2
  <2>2. Representation!Position[s] = CHOOSE i \in 1..10 : Representation!Sections[i] = s
    BY <1>1, <1>2 DEF Representation!Position
  <2> QED
    BY <2>1, <2>2
<1> QED
  BY <1>1, <1>2, <1>3

\* A step that draws nothing goes on to a place that promises no more than the last.
LEMMA SheetsKept ==
    ASSUME DrawingOrder, UNCHANGED <<drawPage, drawY, drawBox, drawAbove>>,
           Placing' => Placing, Awaited' => Awaited
    PROVE  SheetsOrder' /\ Representation!LayoutIsSound'
BY DEF DrawingOrder, SheetsOrder, Representation!RepresentationPdfInv,
   Representation!LayoutIsSound, Representation!ContentBottom, Representation!TextBottom,
   Representation!PageHeight, Representation!Margin

LEMMA SheetSteps ==
    ASSUME DrawingOrder, Representation!RepresentationPdfNext
    PROVE  SheetsOrder' /\ Representation!LayoutIsSound'
<1>1. CASE \/ Representation!Heading \/ Representation!Text \/ Representation!ColumnHeaders
           \/ Representation!LineRow
  BY <1>1, BlockSteps
<1>2. CASE Representation!AskForQr \/ Representation!QrArrives
  BY <1>2, QrSteps
<1>3. CASE \/ Representation!Refused \/ Representation!Start \/ Representation!LineEnds
           \/ Representation!LateQr \/ Representation!QrFails \/ Representation!Finish
           \/ Representation!StreamEnds \/ Representation!StreamFails
  <2>1. UNCHANGED <<drawPage, drawY, drawBox, drawAbove>>
    BY <1>3 DEF Representation!Refused, Representation!Start, Representation!LineEnds,
       Representation!LateQr, Representation!QrFails, Representation!Finish,
       Representation!StreamEnds, Representation!StreamFails, Representation!layoutVars
  <2>2. (Placing' => Placing) /\ (Awaited' => Awaited)
    BY <1>3 DEF Representation!Refused, Representation!Start, Representation!LineEnds,
       Representation!LateQr, Representation!QrFails, Representation!Finish,
       Representation!StreamEnds, Representation!StreamFails, Representation!Goto,
       Placing, Awaited
  <2> QED
    BY <2>1, <2>2, SheetsKept
<1>4. CASE Representation!NextSection
  <2>1. UNCHANGED <<drawPage, drawY, drawBox, drawAbove>>
    BY <1>4 DEF Representation!NextSection
  <2>2. (Placing' => Placing) /\ (Awaited' => Awaited)
    BY <1>4 DEF Representation!NextSection, Representation!Goto, Placing, Awaited
  <2> QED
    BY <2>1, <2>2, SheetsKept
<1>5. CASE Representation!Abort
  <2>1. UNCHANGED <<drawPage, drawY, drawBox, drawAbove>>
    BY <1>5 DEF Representation!Abort, Representation!layoutVars
  <2>2. drawPc' = drawPc \/ drawPc' = "over"
    BY <1>5 DEF Representation!Abort, Representation!Goto
  <2>3. (Placing' => Placing) /\ (Awaited' => Awaited)
    BY <2>2 DEF Placing, Awaited
  <2> QED
    BY <2>1, <2>3, SheetsKept
<1> QED
  BY <1>1, <1>2, <1>3, <1>4, <1>5 DEF Representation!RepresentationPdfNext

\* The section drawn next is one of the sections.
LEMMA SectionSteps ==
    ASSUME DrawingOrder, Representation!RepresentationPdfNext
    PROVE  section' \in DOMAIN Representation!Position
<1>0. section \in DOMAIN Representation!Position
  BY DEF DrawingOrder, Representation!RepresentationPdfInv
<1>1. CASE Representation!NextSection
  <2>1. \/ section' = section
        \/ \E i \in (Representation!Position[section] + 1)..10 :
             section' = Representation!Sections[i]
    BY <1>1, SectionPlaces DEF Representation!NextSection
  <2> QED
    BY <1>0, <2>1, SectionPlaces
<1>2. CASE ~Representation!NextSection
  <2>1. section' = section
    BY <1>2 DEF Representation!RepresentationPdfNext, Representation!Refused,
       Representation!Start, Representation!Heading, Representation!Text,
       Representation!ColumnHeaders, Representation!LineRow, Representation!LineEnds,
       Representation!AskForQr, Representation!LateQr, Representation!QrArrives,
       Representation!QrFails, Representation!Finish, Representation!StreamEnds,
       Representation!StreamFails, Representation!Abort, Representation!layoutVars
  <2> QED
    BY <1>0, <2>1
<1> QED
  BY <1>1, <1>2

\* Who settles the promise, who listens and which pages have a footer.
LEMMA PromiseSteps ==
    ASSUME DrawingOrder, Representation!RepresentationPdfNext
    PROVE  /\ PromiseOrder' /\ Representation!ResolvedIsComplete'
           /\ Representation!NoListenerLeft' /\ promise' \in {"pending", "resolved", "rejected"}
<1>0. /\ PromiseOrder /\ Representation!ResolvedIsComplete /\ Representation!NoListenerLeft
      /\ promise \in {"pending", "resolved", "rejected"}
  BY DEF DrawingOrder, Representation!RepresentationPdfInv
<1>1. CASE Representation!Refused \/ Representation!Start
  <2>1. drawPc = "start" /\ UNCHANGED <<drawPage, qr, footers>>
    BY <1>1 DEF Representation!Refused, Representation!Start, Representation!layoutVars
  <2>2. footers = {} /\ ~listening /\ promise = "pending"
    BY <1>0, <2>1 DEF PromiseOrder
  <2>3. \/ drawPc' = "over" /\ promise' = "rejected" /\ ~listening'
        \/ drawPc' = "heading" /\ promise' = "pending"
    BY <1>1, <2>2 DEF Representation!Refused, Representation!Start, Representation!Goto
  <2> QED
    BY <2>1, <2>2, <2>3 DEF PromiseOrder, Representation!ResolvedIsComplete,
       Representation!NoListenerLeft
<1>2. CASE Representation!Heading \/ Representation!ColumnHeaders \/ Representation!LineEnds
  BY <1>0, <1>2 DEF Representation!Heading, Representation!ColumnHeaders,
     Representation!LineEnds, Representation!Goto, Representation!layoutVars, PromiseOrder,
     Representation!ResolvedIsComplete, Representation!NoListenerLeft
<1>3. CASE Representation!Text \/ Representation!LineRow \/ Representation!AskForQr
  <2>1. /\ drawPc \in {"texts", "details", "line", "qr"}
        /\ \/ drawPc' \in {"texts", "details", "line"}
           \/ drawPc' = "making qr" /\ drawPc = "qr"
        /\ UNCHANGED <<qr, footers, signal, listening, promise>>
    BY <1>3 DEF Representation!Text, Representation!LineRow, Representation!AskForQr,
       Representation!Goto
  <2> QED
    BY <1>0, <2>1 DEF PromiseOrder, Representation!ResolvedIsComplete,
       Representation!NoListenerLeft
<1>4. CASE Representation!NextSection
  <2>1. /\ drawPc \in {"texts", "line"}
        /\ \/ drawPc' \in {"heading", "finish"}
           \/ drawPc' = "qr" /\ qr = "https"
        /\ UNCHANGED <<qr, footers, signal, listening, promise>>
    BY <1>4 DEF Representation!NextSection, Representation!Goto
  <2> QED
    BY <1>0, <2>1 DEF PromiseOrder, Representation!ResolvedIsComplete,
       Representation!NoListenerLeft
<1>5. CASE Representation!LateQr \/ Representation!QrArrives \/ Representation!QrFails
  BY <1>0, <1>5 DEF Representation!LateQr, Representation!QrArrives, Representation!QrFails,
     Representation!Goto, Representation!layoutVars, PromiseOrder,
     Representation!ResolvedIsComplete, Representation!NoListenerLeft
<1>6. CASE Representation!Finish
  BY <1>0, <1>6 DEF Representation!Finish, Representation!Goto, Representation!layoutVars,
     PromiseOrder, Representation!ResolvedIsComplete, Representation!NoListenerLeft
<1>7. CASE Representation!StreamEnds \/ Representation!StreamFails
  BY <1>0, <1>7 DEF Representation!StreamEnds, Representation!StreamFails,
     Representation!Settle, Representation!Goto, Representation!layoutVars,
     PromiseOrder, Representation!ResolvedIsComplete, Representation!NoListenerLeft
<1>8. CASE Representation!Abort
  <2>1. UNCHANGED <<drawPage, qr, footers>>
        /\ drawPc \in {"start", "making qr", "flowing", "over"}
    BY <1>8 DEF Representation!Abort, Representation!layoutVars
  <2>2. CASE listening
    <3>1. /\ promise' = IF promise = "pending" THEN "rejected" ELSE promise
          /\ listening' = (listening /\ promise # "pending")
          /\ drawPc' = IF drawPc = "flowing" THEN "over" ELSE drawPc
      BY <1>8, <2>2 DEF Representation!Abort, Representation!Settle, Representation!Goto
    <3> QED
      BY <1>0, <2>1, <2>2, <3>1 DEF PromiseOrder, Representation!ResolvedIsComplete,
         Representation!NoListenerLeft
  <2>3. CASE ~listening
    <3>1. UNCHANGED <<promise, listening, drawPc>>
      BY <1>8, <2>3 DEF Representation!Abort
    <3> QED
      BY <1>0, <2>1, <2>3, <3>1 DEF PromiseOrder, Representation!ResolvedIsComplete,
         Representation!NoListenerLeft
  <2> QED
    BY <2>2, <2>3
<1> QED
  BY <1>1, <1>2, <1>3, <1>4, <1>5, <1>6, <1>7, <1>8 DEF Representation!RepresentationPdfNext

LEMMA DrawingInOrder == PlatformSpec => []DrawingOrder
<1>1. PlatformInit => DrawingOrder
  <2> SUFFICES ASSUME PlatformInit PROVE DrawingOrder
    OBVIOUS
  <2>1. Representation!RepresentationPdfInit
    BY DEF PlatformInit
  <2>2. /\ drawPage = 1 /\ drawY = 79 /\ drawAbove = drawBox
        /\ drawBox.page = 0 /\ drawBox.top = 0 /\ drawBox.bottom = 0
    BY <2>1, SheetConstants DEF Representation!RepresentationPdfInit
  <2>3. ~Awaited
    BY <2>1 DEF Representation!RepresentationPdfInit, Awaited
  <2>4. SheetsOrder
    BY <2>2, <2>3 DEF SheetsOrder
  <2>5. Representation!LayoutIsSound
    BY <2>2, SheetConstants DEF Representation!LayoutIsSound
  <2>6. /\ drawPc = "start" /\ section = "identification" /\ footers = {} /\ ~listening
        /\ promise = "pending"
    BY <2>1 DEF Representation!RepresentationPdfInit
  <2>7. PromiseOrder /\ Representation!ResolvedIsComplete /\ Representation!NoListenerLeft
    BY <2>6 DEF PromiseOrder, Representation!ResolvedIsComplete, Representation!NoListenerLeft
  <2> QED
    BY <2>4, <2>5, <2>6, <2>7, SectionPlaces
    DEF DrawingOrder, Representation!RepresentationPdfInv
<1>2. DrawingOrder /\ [PlatformNext]_platformVars => DrawingOrder'
  <2>1. CASE Representation!RepresentationPdfNext /\ DrawingOrder
    BY <2>1, SheetSteps, SectionSteps, PromiseSteps
    DEF DrawingOrder, Representation!RepresentationPdfInv
  <2>2. CASE UNCHANGED representationVars /\ DrawingOrder
    <3>1. SheetsOrder' /\ Representation!LayoutIsSound'
      <4>1. /\ UNCHANGED <<drawPage, drawY, drawBox, drawAbove>>
            /\ (Placing' => Placing) /\ (Awaited' => Awaited)
        BY <2>2 DEF representationVars, Placing, Awaited
      <4> QED
        BY <2>2, <4>1, SheetsKept
    <3>2. /\ PromiseOrder' /\ Representation!ResolvedIsComplete'
          /\ Representation!NoListenerLeft'
      BY <2>2 DEF representationVars, DrawingOrder, PromiseOrder,
         Representation!RepresentationPdfInv, Representation!ResolvedIsComplete,
         Representation!NoListenerLeft
    <3>3. promise' \in {"pending", "resolved", "rejected"}
          /\ section' \in DOMAIN Representation!Position
      BY <2>2 DEF representationVars, DrawingOrder, Representation!RepresentationPdfInv
    <3> QED
      BY <3>1, <3>2, <3>3 DEF DrawingOrder, Representation!RepresentationPdfInv
  <2>3. [PlatformNext]_platformVars
           => Representation!RepresentationPdfNext \/ UNCHANGED representationVars
    BY DEF PlatformNext, platformVars, pdfVars, MoveSecrets, MoveInitialise, MoveBackup,
       MoveMigrate, MoveConnection, MoveSessions, MoveKeys, MoveTenants, MoveBreaker,
       MoveAnswers, MoveDocumentPdf, MoveRepresentation, MoveDocuments, MoveLookups,
       MoveReadiness
  <2> QED
    BY <2>1, <2>2, <2>3
<1> QED
  BY <1>1, <1>2, PTL DEF PlatformSpec

\* In both PDFs no block overlaps another or is so low that the library starts a page nobody
\* counted, every table row has its columns on its page, an attempt that succeeds has all its
\* pages numbered, and one that is settled no longer listens to its signal.
THEOREM PdfsCorrect ==
    PlatformSpec => [](Pdf!DocumentPdfInv /\ Representation!RepresentationPdfInv)
<1>1. PdfOrder /\ DrawingOrder
        => Pdf!DocumentPdfInv /\ Representation!RepresentationPdfInv
  BY DEF PdfOrder, DrawingOrder
<1> QED
  BY <1>1, PdfInOrder, DrawingInOrder, PTL
=============================================================================
