------------------------ MODULE FiscalIssuanceProofs ------------------------
(***************************************************************************)
(* Proofs about FiscalIssuance: the inductive invariant, what it implies   *)
(* for answers, credentials and consecutives, and the refinement of        *)
(* FiscalIdentity, for any sets of calls, keys and bodies.                 *)
(***************************************************************************)
EXTENDS FiscalIssuance, TLAPS

-----------------------------------------------------------------------------
(* Type correctness *)

\* The end of a transaction, committed or not, writes locks and labels of their types.
LEMMA EndType ==
    ASSUME TypeOK, NEW r \in Requests, End(r)
    PROVE  /\ sequenceLock' \in Requests \cup {None}
           /\ keyLock' \in [Keys -> Requests \cup {None}]
           /\ pc' \in [Requests \cup Configurers -> Labels]
  BY DEF TypeOK, End, Unlocked, Goto, Labels

LEMMA RollbackType ==
    ASSUME TypeOK, NEW r \in Requests, Rollback(r)
    PROVE  TypeOK'
  <1>1. End(r)
    BY DEF Rollback
  <1>2. UNCHANGED <<sequence, idempotency, documents, connection, mem, asked, answer,
                    overwritten>>
    BY DEF Rollback
  <1>3. overtaken' = overtaken \ {r}
    BY DEF Rollback
  <1> QED
    BY <1>1, <1>2, <1>3, EndType DEF TypeOK

LEMMA ResolveType ==
    ASSUME TypeOK, NEW r \in Requests, mem[r].key \in Keys, Resolve(r)
    PROVE  TypeOK'
  <1>1. End(r)
    BY DEF Resolve
  <1>2. answer' \in [Requests -> Requests \cup {None}]
    BY DEF Resolve, TypeOK, Reservation
  <1>3. UNCHANGED <<sequence, idempotency, documents, connection, mem, asked, overwritten,
                    overtaken>>
    BY DEF Resolve
  <1> QED
    BY <1>1, <1>2, <1>3, EndType DEF TypeOK

LEMMA TypeStep ==
    ASSUME TypeOK, MemoryIsRight, [Next]_vars
    PROVE  TypeOK'
  <1> USE DEF Goto, Labels
  <1>1. ASSUME NEW r \in Requests, Begin(r)
        PROVE  TypeOK'
    <2>1. PICK k \in Keys, h \in Hashes :
             mem' = [mem EXCEPT ![r] = [NoMemory EXCEPT !.key = k, !.hash = h]]
      BY <1>1 DEF Begin
    <2>2. [NoMemory EXCEPT !.key = k, !.hash = h] \in Memory
      BY DEF NoMemory, Memory
    <2>3. mem' \in [Requests -> Memory]
      BY <2>1, <2>2 DEF TypeOK
    <2> QED
      BY <1>1, <2>3 DEF Begin, TypeOK
  <1>2. ASSUME NEW r \in Requests, Lookup(r)
        PROVE  TypeOK'
    <2>1. mem[r].key \in Keys
      BY <1>2 DEF Lookup, MemoryIsRight, InTransaction
    <2>2. CASE Resolve(r)
      BY <2>1, <2>2, ResolveType
    <2>3. CASE ~Resolve(r)
      BY <1>2, <2>3 DEF Lookup, TypeOK
    <2> QED
      BY <2>2, <2>3
  <1>3. ASSUME NEW r \in Requests, Reserve(r)
        PROVE  TypeOK'
    <2>1. mem[r].key \in Keys
      BY <1>3 DEF Reserve, MemoryIsRight, InTransaction
    <2>2. CASE Resolve(r)
      BY <2>1, <2>2, ResolveType
    <2>3. CASE ~Resolve(r)
      BY <1>3, <2>3 DEF Reserve, TypeOK
    <2> QED
      BY <2>2, <2>3
  <1>4. ASSUME NEW r \in Requests, CheckEligibility(r)
        PROVE  TypeOK'
    <2>1. CASE Rollback(r)
      BY <2>1, RollbackType
    <2>2. CASE ~Rollback(r)
      <3>1. mem' = [mem EXCEPT ![r] = [@ EXCEPT !.eligible = connection.reference]]
        BY <1>4, <2>2 DEF CheckEligibility
      <3>2. connection.reference \in Nat /\ mem[r] \in Memory
        BY DEF TypeOK, Connection
      <3>3. [mem[r] EXCEPT !.eligible = connection.reference] \in Memory
        BY <3>2 DEF Memory
      <3>4. mem' \in [Requests -> Memory]
        BY <3>1, <3>3 DEF TypeOK
      <3> QED
        BY <1>4, <2>2, <3>4 DEF CheckEligibility, TypeOK
    <2> QED
      BY <2>1, <2>2
  <1>5. ASSUME NEW r \in Requests, Recheck(r)
        PROVE  TypeOK'
    <2>1. CASE Rollback(r)
      BY <2>1, RollbackType
    <2>2. CASE ~Rollback(r)
      BY <1>5, <2>2 DEF Recheck, TypeOK
    <2> QED
      BY <2>1, <2>2
  <1>6. ASSUME NEW r \in Requests, Allocate(r)
        PROVE  TypeOK'
    <2>1. CASE Rollback(r)
      BY <2>1, RollbackType
    <2>2. CASE ~Rollback(r)
      <3>1. mem' = [mem EXCEPT ![r] = [@ EXCEPT !.value = sequence.next]]
        BY <1>6, <2>2 DEF Allocate
      <3>2. sequence.next \in Nat /\ mem[r] \in Memory
        BY DEF TypeOK, Sequence
      <3>3. [mem[r] EXCEPT !.value = sequence.next] \in Memory
        BY <3>2 DEF Memory
      <3>4. mem' \in [Requests -> Memory]
        BY <3>1, <3>3 DEF TypeOK
      <3> QED
        BY <1>6, <2>2, <3>4 DEF Allocate, TypeOK
    <2> QED
      BY <2>1, <2>2
  <1>7. ASSUME NEW r \in Requests, Create(r)
        PROVE  TypeOK'
    <2>1. CASE Rollback(r)
      BY <2>1, RollbackType
    <2>2. CASE ~Rollback(r)
      <3>1. End(r)
        BY <1>7, <2>2 DEF Create
      <3>2. /\ mem[r] \in Memory
            /\ mem[r].key \in Keys
            /\ mem[r].hash \in Hashes
        BY <1>7 DEF Create, TypeOK, MemoryIsRight, InTransaction
      <3>3. documents' \in [Requests -> Document]
        <4>1. mem[r].value \in Nat /\ connection \in Connection
          BY <3>2 DEF Memory, TypeOK
        <4>2. [value |-> mem[r].value, key |-> mem[r].key, hash |-> mem[r].hash,
               under |-> connection] \in Document
          BY <3>2, <4>1 DEF Document
        <4>3. documents' = [documents EXCEPT ![r] =
                 [value |-> mem[r].value, key |-> mem[r].key, hash |-> mem[r].hash,
                  under |-> connection]]
          BY <1>7, <2>2 DEF Create
        <4> QED
          BY <4>2, <4>3 DEF TypeOK
      <3>4. idempotency' \in [Keys -> Reservation]
        BY <1>7, <2>2, <3>2 DEF Create, TypeOK, Reservation
      <3>5. sequence' \in Sequence
        <4>1. mem[r].value \in Nat
          BY <3>2 DEF Memory
        <4>2. sequence' = [present |-> TRUE, next |-> mem[r].value + 1,
                           last |-> mem[r].value]
          BY <1>7, <2>2 DEF Create
        <4> QED
          BY <4>1, <4>2 DEF Sequence
      <3>6. answer' \in [Requests -> Requests \cup {None}]
        BY <1>7, <2>2 DEF Create, TypeOK
      <3>7. UNCHANGED <<connection, mem, asked, overwritten, overtaken>>
        BY <1>7, <2>2 DEF Create
      <3> QED
        BY <3>1, <3>3, <3>4, <3>5, <3>6, <3>7, EndType DEF TypeOK
    <2> QED
      BY <2>1, <2>2
  <1>8. ASSUME NEW r \in Requests, TimeOut(r)
        PROVE  TypeOK'
    BY <1>8, RollbackType DEF TimeOut
  <1>9. ASSUME NEW o \in Operators, ConfigureRead(o) \/ ConfigureWrite(o)
        PROVE  TypeOK'
    <2>1. o \in Configurers
      BY DEF Configurers
    <2>2. CASE ConfigureRead(o)
      BY <2>1, <2>2, FirstValuesAreValid, LastValueIsPositive DEF ConfigureRead, TypeOK
    <2>3. CASE ConfigureWrite(o)
      BY <2>1, <2>3 DEF ConfigureWrite, TypeOK, Sequence
    <2> QED
      BY <1>9, <2>2, <2>3
  <1>10. ASSUME NEW o \in Onboarders, InitializeRead(o) \/ InitializeWrite(o)
         PROVE  TypeOK'
    <2>1. o \in Configurers
      BY DEF Configurers
    <2>2. CASE InitializeRead(o)
      BY <2>1, <2>2, FirstValuesAreValid, LastValueIsPositive DEF InitializeRead, TypeOK
    <2>3. CASE InitializeWrite(o)
      BY <2>1, <2>3 DEF InitializeWrite, TypeOK, Sequence
    <2> QED
      BY <1>10, <2>2, <2>3
  <1>11. CASE RotateCredentials \/ ValidateConnection \/ DisableConnection
    <2>1. connection' \in Connection
      BY <1>11, PoolAndBoundsAreNat
         DEF RotateCredentials, ValidateConnection, DisableConnection, TypeOK, Connection
    <2>2. overtaken' \subseteq Requests
      BY <1>11 DEF RotateCredentials, ValidateConnection, DisableConnection, Overtakes, TypeOK
    <2> QED
      BY <1>11, <2>1, <2>2
         DEF RotateCredentials, ValidateConnection, DisableConnection, TypeOK
  <1>12. CASE UNCHANGED vars
    BY <1>12 DEF vars, TypeOK
  <1> QED
    BY <1>1, <1>2, <1>3, <1>4, <1>5, <1>6, <1>7, <1>8, <1>9, <1>10, <1>11, <1>12 DEF Next

-----------------------------------------------------------------------------
(* What open transactions know, and the locks they hold *)

\* A transaction that goes on sets one field of its memory and no other.
LEMMA CheckEligibilityMemory ==
    ASSUME TypeOK, NEW r \in Requests, CheckEligibility(r), ~Rollback(r), NEW q \in Requests
    PROVE  /\ mem'[q].eligible = IF q = r THEN connection.reference ELSE mem[q].eligible
           /\ mem'[q].key = mem[q].key
           /\ mem'[q].hash = mem[q].hash
           /\ mem'[q].value = mem[q].value
  <1>1. mem' = [mem EXCEPT ![r] = [@ EXCEPT !.eligible = connection.reference]]
    BY DEF CheckEligibility
  <1>2. mem \in [Requests -> Memory] /\ mem[r] \in Memory
    BY DEF TypeOK
  <1>3. CASE q = r
    <2>1. mem'[q] = [mem[r] EXCEPT !.eligible = connection.reference]
      BY <1>1, <1>2, <1>3
    <2> QED
      BY <1>2, <1>3, <2>1 DEF Memory
  <1>4. CASE q # r
    BY <1>1, <1>2, <1>4
  <1> QED
    BY <1>3, <1>4

LEMMA AllocateMemory ==
    ASSUME TypeOK, NEW r \in Requests, Allocate(r), ~Rollback(r), NEW q \in Requests
    PROVE  /\ mem'[q].value = IF q = r THEN sequence.next ELSE mem[q].value
           /\ mem'[q].key = mem[q].key
           /\ mem'[q].hash = mem[q].hash
           /\ mem'[q].eligible = mem[q].eligible
  <1>1. mem' = [mem EXCEPT ![r] = [@ EXCEPT !.value = sequence.next]]
    BY DEF Allocate
  <1>2. mem \in [Requests -> Memory] /\ mem[r] \in Memory
    BY DEF TypeOK
  <1>3. CASE q = r
    <2>1. mem'[q] = [mem[r] EXCEPT !.value = sequence.next]
      BY <1>1, <1>2, <1>3
    <2> QED
      BY <1>2, <1>3, <2>1 DEF Memory
  <1>4. CASE q # r
    BY <1>1, <1>2, <1>4
  <1> QED
    BY <1>3, <1>4

LEMMA MemoryRollback ==
    ASSUME TypeOK, MemoryIsRight, NEW r \in Requests, pc[r] \in InTransaction, Rollback(r)
    PROVE  MemoryIsRight'
  BY DEF Rollback, End, Unlocked, Goto, MemoryIsRight, TypeOK, InTransaction, Labels

LEMMA MemoryResolve ==
    ASSUME TypeOK, MemoryIsRight, NEW r \in Requests, pc[r] \in InTransaction, Resolve(r)
    PROVE  MemoryIsRight'
  BY DEF Resolve, End, Unlocked, Goto, MemoryIsRight, TypeOK, InTransaction, Labels

LEMMA MemoryStep ==
    ASSUME TypeOK, MemoryIsRight, [Next]_vars
    PROVE  MemoryIsRight'
  <1> USE DEF Goto, Labels
  <1>1. ASSUME NEW r \in Requests, Begin(r)
        PROVE  MemoryIsRight'
    BY <1>1 DEF Begin, MemoryIsRight, TypeOK, InTransaction, End
  <1>2. ASSUME NEW r \in Requests, Lookup(r)
        PROVE  MemoryIsRight'
    <2>1. pc[r] \in InTransaction
      BY <1>2 DEF Lookup, InTransaction
    <2>2. CASE Resolve(r)
      BY <2>1, <2>2, MemoryResolve
    <2>3. CASE ~Resolve(r)
      BY <1>2, <2>3 DEF Lookup, MemoryIsRight, TypeOK, InTransaction, End
    <2> QED
      BY <2>2, <2>3
  <1>3. ASSUME NEW r \in Requests, Reserve(r)
        PROVE  MemoryIsRight'
    <2>1. pc[r] \in InTransaction
      BY <1>3 DEF Reserve, InTransaction
    <2>2. CASE Resolve(r)
      BY <2>1, <2>2, MemoryResolve
    <2>3. CASE ~Resolve(r)
      BY <1>3, <2>3 DEF Reserve, MemoryIsRight, TypeOK, InTransaction, End
    <2> QED
      BY <2>2, <2>3
  <1>4. ASSUME NEW r \in Requests, CheckEligibility(r)
        PROVE  MemoryIsRight'
    <2>1. pc[r] \in InTransaction
      BY <1>4 DEF CheckEligibility, InTransaction
    <2>2. CASE Rollback(r)
      BY <2>1, <2>2, MemoryRollback
    <2>3. CASE ~Rollback(r)
      <3>1. \A q \in Requests :
             /\ mem'[q].eligible = IF q = r THEN connection.reference ELSE mem[q].eligible
             /\ mem'[q].key = mem[q].key
             /\ mem'[q].hash = mem[q].hash
             /\ mem'[q].value = mem[q].value
        BY <1>4, <2>3, CheckEligibilityMemory
      <3> QED
        BY <1>4, <2>3, <3>1 DEF CheckEligibility, MemoryIsRight, TypeOK, InTransaction, End
    <2> QED
      BY <2>2, <2>3
  <1>5. ASSUME NEW r \in Requests, Recheck(r)
        PROVE  MemoryIsRight'
    <2>1. pc[r] \in InTransaction
      BY <1>5 DEF Recheck, InTransaction
    <2>2. CASE Rollback(r)
      BY <2>1, <2>2, MemoryRollback
    <2>3. CASE ~Rollback(r)
      <3>1. connection = Connected(mem[r].eligible)
        BY <1>5, <2>3 DEF Recheck, StillEligible, Connected, TypeOK, Connection
      <3> QED
        BY <1>5, <2>3, <3>1 DEF Recheck, MemoryIsRight, TypeOK, InTransaction
    <2> QED
      BY <2>2, <2>3
  <1>6. ASSUME NEW r \in Requests, Allocate(r)
        PROVE  MemoryIsRight'
    <2>1. pc[r] \in InTransaction
      BY <1>6 DEF Allocate, InTransaction
    <2>2. CASE Rollback(r)
      BY <2>1, <2>2, MemoryRollback
    <2>3. CASE ~Rollback(r)
      <3>1. \A q \in Requests :
             /\ mem'[q].value = IF q = r THEN sequence.next ELSE mem[q].value
             /\ mem'[q].key = mem[q].key
             /\ mem'[q].hash = mem[q].hash
             /\ mem'[q].eligible = mem[q].eligible
        BY <1>6, <2>3, AllocateMemory
      <3>2. sequence.next \in 1..LastValue
        BY <1>6, <2>3, LastValueIsPositive DEF Allocate, Sequence, MemoryIsRight, TypeOK
      <3>3. \A q \in Requests : pc'[q] = IF q = r THEN "create" ELSE pc[q]
        BY <1>6, <2>3 DEF Allocate, TypeOK
      <3>4. \A o \in Configurers : pc'[o] = pc[o] /\ asked'[o] = asked[o]
        BY <1>6, <2>3, ActorsAreDisjoint DEF Allocate, TypeOK
      <3>5. UNCHANGED <<sequence, connection, overtaken>> /\ pc[r] = "allocate"
        BY <1>6, <2>3 DEF Allocate
      <3> QED
        BY <3>1, <3>2, <3>3, <3>4, <3>5 DEF MemoryIsRight, InTransaction
    <2> QED
      BY <2>2, <2>3
  <1>7. ASSUME NEW r \in Requests, Create(r)
        PROVE  MemoryIsRight'
    <2>1. pc[r] \in InTransaction
      BY <1>7 DEF Create, InTransaction
    <2>2. CASE Rollback(r)
      BY <2>1, <2>2, MemoryRollback
    <2>3. CASE ~Rollback(r)
      BY <1>7, <2>3 DEF Create, MemoryIsRight, TypeOK, InTransaction, End
    <2> QED
      BY <2>2, <2>3
  <1>8. ASSUME NEW r \in Requests, TimeOut(r)
        PROVE  MemoryIsRight'
    BY <1>8, MemoryRollback DEF TimeOut
  <1>9. ASSUME NEW o \in Operators, ConfigureRead(o)
        PROVE  MemoryIsRight'
    BY <1>9, ActorsAreDisjoint DEF ConfigureRead, Configurers, MemoryIsRight, TypeOK,
       InTransaction, End
  <1>10. ASSUME NEW o \in Operators, ConfigureWrite(o)
        PROVE  MemoryIsRight'
    BY <1>10, ActorsAreDisjoint, FirstValuesAreValid, LastValueIsPositive
       DEF ConfigureWrite, Configurers, Sequence, MemoryIsRight, TypeOK, InTransaction, End
  <1>11. ASSUME NEW o \in Onboarders, InitializeRead(o)
        PROVE  MemoryIsRight'
    BY <1>11, ActorsAreDisjoint DEF InitializeRead, Configurers, MemoryIsRight, TypeOK,
       InTransaction, End
  <1>12. ASSUME NEW o \in Onboarders, InitializeWrite(o)
        PROVE  MemoryIsRight'
    BY <1>12, ActorsAreDisjoint, FirstValuesAreValid, LastValueIsPositive
       DEF InitializeWrite, Configurers, Sequence, MemoryIsRight, TypeOK, InTransaction, End
  <1>13. CASE RotateCredentials \/ ValidateConnection \/ DisableConnection
    <2>1. UNCHANGED <<sequence, pc, mem, asked>> /\ Overtakes
      BY <1>13 DEF RotateCredentials, ValidateConnection, DisableConnection
    <2>2. \A r \in Requests : pc[r] \in {"allocate", "create"} /\ r \notin overtaken' =>
             r \notin overtaken /\ connection' = connection
      BY <2>1 DEF Overtakes
    <2> QED
      BY <2>1, <2>2 DEF MemoryIsRight, InTransaction
  <1>14. CASE UNCHANGED vars
    BY <1>14 DEF vars, MemoryIsRight, TypeOK, InTransaction, End
  <1> QED
    BY <1>1, <1>2, <1>3, <1>4, <1>5, <1>6, <1>7, <1>8, <1>9, <1>10, <1>11, <1>12, <1>13,
       <1>14 DEF Next

LEMMA LocksRollback ==
    ASSUME TypeOK, MemoryIsRight, LocksAreHeld, NEW r \in Requests, pc[r] \in InTransaction,
           Rollback(r)
    PROVE  LocksAreHeld'
  BY DEF Rollback, End, Unlocked, Goto, LocksAreHeld, MemoryIsRight, TypeOK, InTransaction,
     Reserved, Labels

LEMMA LocksResolve ==
    ASSUME TypeOK, MemoryIsRight, LocksAreHeld, NEW r \in Requests, pc[r] \in InTransaction,
           Resolve(r)
    PROVE  LocksAreHeld'
  BY DEF Resolve, End, Unlocked, Goto, LocksAreHeld, MemoryIsRight, TypeOK, InTransaction,
     Reserved, Labels

LEMMA LocksStep ==
    ASSUME TypeOK, MemoryIsRight, LocksAreHeld, [Next]_vars
    PROVE  LocksAreHeld'
  <1> USE DEF Goto, Labels
  <1>1. ASSUME NEW r \in Requests, Begin(r)
        PROVE  LocksAreHeld'
    BY <1>1 DEF Begin, LocksAreHeld, MemoryIsRight, TypeOK, InTransaction, Reserved, End,
       Unlocked
  <1>2. ASSUME NEW r \in Requests, Lookup(r)
        PROVE  LocksAreHeld'
    <2>1. pc[r] \in InTransaction
      BY <1>2 DEF Lookup, InTransaction
    <2>2. CASE Resolve(r)
      BY <2>1, <2>2, LocksResolve
    <2>3. CASE ~Resolve(r)
      BY <1>2, <2>3 DEF Lookup, LocksAreHeld, MemoryIsRight, TypeOK, InTransaction, Reserved,
         End, Unlocked
    <2> QED
      BY <2>2, <2>3
  <1>3. ASSUME NEW r \in Requests, Reserve(r)
        PROVE  LocksAreHeld'
    <2>1. pc[r] \in InTransaction
      BY <1>3 DEF Reserve, InTransaction
    <2>2. CASE Resolve(r)
      BY <2>1, <2>2, LocksResolve
    <2>3. CASE ~Resolve(r)
      <3>1. /\ pc[r] = "reserve"
            /\ mem[r].key \in Keys
            /\ keyLock[mem[r].key] = None
            /\ idempotency[mem[r].key].hash = None
        BY <1>3, <2>3 DEF Reserve, MemoryIsRight, InTransaction
      <3>2. \A k \in Keys : keyLock'[k] = IF k = mem[r].key THEN r ELSE keyLock[k]
        BY <1>3, <2>3, <3>1 DEF Reserve, TypeOK
      <3>3. \A q \in Requests : pc'[q] = IF q = r THEN "eligible" ELSE pc[q]
        BY <1>3, <2>3 DEF Reserve, TypeOK
      <3>4. UNCHANGED <<mem, idempotency, sequence, sequenceLock>>
        BY <1>3, <2>3 DEF Reserve
      <3>5. /\ keyLock \in [Keys -> Requests \cup {None}]
            /\ sequenceLock \in Requests \cup {None}
        BY DEF TypeOK
      <3>6. \A q \in Requests : pc[q] \in InTransaction => mem[q].key \in Keys
        BY DEF MemoryIsRight
      <3>7. \A k \in Keys : keyLock'[k] # None =>
               /\ pc'[keyLock'[k]] \in Reserved
               /\ mem'[keyLock'[k]].key = k
               /\ idempotency'[k].hash = None
        BY <3>1, <3>2, <3>3, <3>4, <3>5 DEF LocksAreHeld, Reserved
      <3>8. \A q \in Requests : pc'[q] \in Reserved => keyLock'[mem'[q].key] = q
        BY <3>1, <3>2, <3>3, <3>4, <3>6, NoneIsNobody DEF LocksAreHeld, Reserved, InTransaction
      <3> QED
        BY <3>1, <3>3, <3>4, <3>5, <3>7, <3>8 DEF LocksAreHeld
    <2> QED
      BY <2>2, <2>3
  <1>4. ASSUME NEW r \in Requests, CheckEligibility(r)
        PROVE  LocksAreHeld'
    <2>1. pc[r] \in InTransaction
      BY <1>4 DEF CheckEligibility, InTransaction
    <2>2. CASE Rollback(r)
      BY <2>1, <2>2, LocksRollback
    <2>3. CASE ~Rollback(r)
      <3>1. \A q \in Requests :
             /\ mem'[q].eligible = IF q = r THEN connection.reference ELSE mem[q].eligible
             /\ mem'[q].key = mem[q].key
             /\ mem'[q].hash = mem[q].hash
             /\ mem'[q].value = mem[q].value
        BY <1>4, <2>3, CheckEligibilityMemory
      <3> QED
        BY <1>4, <2>3, <3>1 DEF CheckEligibility, LocksAreHeld, MemoryIsRight, TypeOK,
           InTransaction, Reserved, End, Unlocked
    <2> QED
      BY <2>2, <2>3
  <1>5. ASSUME NEW r \in Requests, Recheck(r)
        PROVE  LocksAreHeld'
    <2>1. pc[r] \in InTransaction
      BY <1>5 DEF Recheck, InTransaction
    <2>2. CASE Rollback(r)
      BY <2>1, <2>2, LocksRollback
    <2>3. CASE ~Rollback(r)
      BY <1>5, <2>3 DEF Recheck, LocksAreHeld, MemoryIsRight, TypeOK, InTransaction,
         Reserved, End, Unlocked
    <2> QED
      BY <2>2, <2>3
  <1>6. ASSUME NEW r \in Requests, Allocate(r)
        PROVE  LocksAreHeld'
    <2>1. pc[r] \in InTransaction
      BY <1>6 DEF Allocate, InTransaction
    <2>2. CASE Rollback(r)
      BY <2>1, <2>2, LocksRollback
    <2>3. CASE ~Rollback(r)
      <3>1. \A q \in Requests :
             /\ mem'[q].value = IF q = r THEN sequence.next ELSE mem[q].value
             /\ mem'[q].key = mem[q].key
             /\ mem'[q].hash = mem[q].hash
             /\ mem'[q].eligible = mem[q].eligible
        BY <1>6, <2>3, AllocateMemory
      <3>2. /\ pc[r] = "allocate"
            /\ sequenceLock = None
            /\ sequenceLock' = r
        BY <1>6, <2>3 DEF Allocate
      <3>3. \A q \in Requests : pc'[q] = IF q = r THEN "create" ELSE pc[q]
        BY <1>6, <2>3 DEF Allocate, TypeOK
      <3>4. UNCHANGED <<sequence, idempotency, keyLock>>
        BY <1>6, <2>3 DEF Allocate
      <3>5. keyLock \in [Keys -> Requests \cup {None}]
        BY DEF TypeOK
      <3>6. \A q \in Requests : pc[q] # "create"
        BY <3>2, NoneIsNobody DEF LocksAreHeld
      <3> QED
        BY <3>1, <3>2, <3>3, <3>4, <3>5, <3>6, NoneIsNobody DEF LocksAreHeld, Reserved
    <2> QED
      BY <2>2, <2>3
  <1>7. ASSUME NEW r \in Requests, Create(r)
        PROVE  LocksAreHeld'
    <2>1. pc[r] \in InTransaction
      BY <1>7 DEF Create, InTransaction
    <2>2. CASE Rollback(r)
      BY <2>1, <2>2, LocksRollback
    <2>3. CASE ~Rollback(r)
      BY <1>7, <2>3 DEF Create, LocksAreHeld, MemoryIsRight, TypeOK, InTransaction, Reserved,
         End, Unlocked
    <2> QED
      BY <2>2, <2>3
  <1>8. ASSUME NEW r \in Requests, TimeOut(r)
        PROVE  LocksAreHeld'
    BY <1>8, LocksRollback DEF TimeOut
  <1>9. ASSUME NEW o \in Operators, ConfigureRead(o)
        PROVE  LocksAreHeld'
    BY <1>9, ActorsAreDisjoint DEF ConfigureRead, Configurers, LocksAreHeld, MemoryIsRight,
       TypeOK, InTransaction, Reserved, End, Unlocked
  <1>10. ASSUME NEW o \in Operators, ConfigureWrite(o)
        PROVE  LocksAreHeld'
    BY <1>10, ActorsAreDisjoint DEF ConfigureWrite, Configurers, LocksAreHeld, MemoryIsRight,
       TypeOK, InTransaction, Reserved, End, Unlocked
  <1>11. ASSUME NEW o \in Onboarders, InitializeRead(o)
        PROVE  LocksAreHeld'
    BY <1>11, ActorsAreDisjoint DEF InitializeRead, Configurers, LocksAreHeld, MemoryIsRight,
       TypeOK, InTransaction, Reserved, End, Unlocked
  <1>12. ASSUME NEW o \in Onboarders, InitializeWrite(o)
        PROVE  LocksAreHeld'
    BY <1>12, ActorsAreDisjoint DEF InitializeWrite, Configurers, LocksAreHeld,
       MemoryIsRight, TypeOK, InTransaction, Reserved, End, Unlocked
  <1>13. CASE RotateCredentials \/ ValidateConnection \/ DisableConnection
    BY <1>13 DEF RotateCredentials, ValidateConnection, DisableConnection, LocksAreHeld,
       MemoryIsRight, TypeOK, InTransaction, Reserved, End, Unlocked
  <1>14. CASE UNCHANGED vars
    BY <1>14 DEF vars, LocksAreHeld, MemoryIsRight, TypeOK, InTransaction, Reserved, End,
       Unlocked
  <1> QED
    BY <1>1, <1>2, <1>3, <1>4, <1>5, <1>6, <1>7, <1>8, <1>9, <1>10, <1>11, <1>12, <1>13,
       <1>14 DEF Next
-----------------------------------------------------------------------------
(* Reservations and documents *)

\* What a commit writes, row by row.
LEMMA CommitRows ==
    ASSUME TypeOK, MemoryIsRight, LocksAreHeld, NEW r \in Requests, Create(r), ~Rollback(r)
    PROVE  /\ pc[r] = "create" /\ mem[r].key \in Keys /\ mem[r].hash \in Hashes
           /\ mem[r].value \in 1..LastValue /\ mem[r].value = sequence.next
           /\ r \notin overtaken => connection = Connected(mem[r].eligible)
           /\ ~Taken(mem[r].value)
           /\ idempotency[mem[r].key].hash = None
           /\ sequence' = [present |-> TRUE, next |-> sequence.next + 1, last |-> sequence.next]
           /\ \A q \in Requests : pc'[q] = IF q = r THEN "done" ELSE pc[q]
           /\ \A q \in Requests : answer'[q] = IF q = r THEN r ELSE answer[q]
           /\ \A q \in Requests \ {r} : documents'[q] = documents[q]
           /\ documents'[r].value = mem[r].value /\ documents'[r].key = mem[r].key
           /\ documents'[r].hash = mem[r].hash /\ documents'[r].under = connection
           /\ \A k \in Keys \ {mem[r].key} : idempotency'[k] = idempotency[k]
           /\ idempotency'[mem[r].key].hash = mem[r].hash
           /\ idempotency'[mem[r].key].document = r
           /\ UNCHANGED <<mem, overwritten, overtaken>>
  <1>1. pc[r] = "create" /\ ~Taken(mem[r].value)
    BY DEF Create
  <1>2. mem[r].key \in Keys /\ mem[r].hash \in Hashes /\ mem[r].value \in 1..LastValue
        /\ (r \notin overtaken => connection = Connected(mem[r].eligible))
    BY <1>1 DEF MemoryIsRight, InTransaction, Labels
  <1>3. idempotency[mem[r].key].hash = None /\ mem[r].value = sequence.next
    BY <1>1, <1>2, NoneIsNobody DEF LocksAreHeld, Reserved
  <1>4. sequence' = [present |-> TRUE, next |-> sequence.next + 1, last |-> sequence.next]
    BY <1>3 DEF Create
  <1>5. \A q \in Requests : pc'[q] = IF q = r THEN "done" ELSE pc[q]
    BY DEF Create, End, Goto, TypeOK
  <1>6. \A q \in Requests : answer'[q] = IF q = r THEN r ELSE answer[q]
    BY DEF Create, TypeOK
  <1>7. documents' = [documents EXCEPT ![r] =
                [value |-> mem[r].value, key |-> mem[r].key, hash |-> mem[r].hash,
                 under |-> connection]]
    BY DEF Create
  <1>8. documents \in [Requests -> Document]
    BY DEF TypeOK
  <1>9. idempotency' = [idempotency EXCEPT ![mem[r].key] =
                [hash |-> mem[r].hash, document |-> r]]
    BY DEF Create
  <1>10. idempotency \in [Keys -> Reservation]
    BY DEF TypeOK
  <1>11. documents'[r] = [value |-> mem[r].value, key |-> mem[r].key,
                         hash |-> mem[r].hash, under |-> connection]
    BY <1>7, <1>8
  <1>12. UNCHANGED <<mem, overwritten, overtaken>>
    BY DEF Create
  <1> QED
    BY <1>1, <1>2, <1>3, <1>4, <1>5, <1>6, <1>7, <1>8, <1>9, <1>10, <1>11, <1>12

LEMMA ReservationsRollback ==
    ASSUME TypeOK, MemoryIsRight, LocksAreHeld, ReservationsPointAtDocuments,
           NEW r \in Requests, pc[r] \in InTransaction, Rollback(r)
    PROVE  ReservationsPointAtDocuments'
  BY DEF Rollback, End, Unlocked, Goto, ReservationsPointAtDocuments, TypeOK, InTransaction,
     Labels

LEMMA ReservationsResolve ==
    ASSUME TypeOK, MemoryIsRight, LocksAreHeld, ReservationsPointAtDocuments,
           NEW r \in Requests, pc[r] \in InTransaction, Resolve(r)
    PROVE  ReservationsPointAtDocuments'
  BY DEF Resolve, End, Unlocked, Goto, ReservationsPointAtDocuments, TypeOK, InTransaction,
     Labels

LEMMA ReservationsStep ==
    ASSUME TypeOK, MemoryIsRight, LocksAreHeld, ReservationsPointAtDocuments, [Next]_vars
    PROVE  ReservationsPointAtDocuments'
  <1> USE DEF Goto, Labels
  <1>1. ASSUME NEW r \in Requests, Begin(r)
        PROVE  ReservationsPointAtDocuments'
    BY <1>1 DEF Begin, ReservationsPointAtDocuments, TypeOK, InTransaction
  <1>2. ASSUME NEW r \in Requests, Lookup(r)
        PROVE  ReservationsPointAtDocuments'
    <2>1. pc[r] \in InTransaction
      BY <1>2 DEF Lookup, InTransaction
    <2>2. CASE Resolve(r)
      BY <2>1, <2>2, ReservationsResolve
    <2>3. CASE ~Resolve(r)
      BY <1>2, <2>3 DEF Lookup, ReservationsPointAtDocuments, TypeOK, InTransaction
    <2> QED
      BY <2>2, <2>3
  <1>3. ASSUME NEW r \in Requests, Reserve(r)
        PROVE  ReservationsPointAtDocuments'
    <2>1. pc[r] \in InTransaction
      BY <1>3 DEF Reserve, InTransaction
    <2>2. CASE Resolve(r)
      BY <2>1, <2>2, ReservationsResolve
    <2>3. CASE ~Resolve(r)
      BY <1>3, <2>3 DEF Reserve, ReservationsPointAtDocuments, TypeOK, InTransaction
    <2> QED
      BY <2>2, <2>3
  <1>4. ASSUME NEW r \in Requests, CheckEligibility(r)
        PROVE  ReservationsPointAtDocuments'
    <2>1. pc[r] \in InTransaction
      BY <1>4 DEF CheckEligibility, InTransaction
    <2>2. CASE Rollback(r)
      BY <2>1, <2>2, ReservationsRollback
    <2>3. CASE ~Rollback(r)
      BY <1>4, <2>3 DEF CheckEligibility, ReservationsPointAtDocuments, TypeOK, InTransaction
    <2> QED
      BY <2>2, <2>3
  <1>5. ASSUME NEW r \in Requests, Recheck(r)
        PROVE  ReservationsPointAtDocuments'
    <2>1. pc[r] \in InTransaction
      BY <1>5 DEF Recheck, InTransaction
    <2>2. CASE Rollback(r)
      BY <2>1, <2>2, ReservationsRollback
    <2>3. CASE ~Rollback(r)
      BY <1>5, <2>3 DEF Recheck, ReservationsPointAtDocuments, TypeOK, InTransaction
    <2> QED
      BY <2>2, <2>3
  <1>6. ASSUME NEW r \in Requests, Allocate(r)
        PROVE  ReservationsPointAtDocuments'
    <2>1. pc[r] \in InTransaction
      BY <1>6 DEF Allocate, InTransaction
    <2>2. CASE Rollback(r)
      BY <2>1, <2>2, ReservationsRollback
    <2>3. CASE ~Rollback(r)
      BY <1>6, <2>3 DEF Allocate, ReservationsPointAtDocuments, TypeOK, InTransaction
    <2> QED
      BY <2>2, <2>3
  <1>7. ASSUME NEW r \in Requests, Create(r)
        PROVE  ReservationsPointAtDocuments'
    <2>1. pc[r] \in InTransaction
      BY <1>7 DEF Create, InTransaction
    <2>2. CASE Rollback(r)
      BY <2>1, <2>2, ReservationsRollback
    <2>3. CASE ~Rollback(r)
      <3>1. documents[r].value = 0
        BY <1>7 DEF Create, ReservationsPointAtDocuments
      <3>2. \A k \in Keys : idempotency'[k].hash # None =>
               /\ idempotency'[k].document \in Requests
               /\ documents'[idempotency'[k].document].value # 0
               /\ documents'[idempotency'[k].document].key = k
               /\ documents'[idempotency'[k].document].hash = idempotency'[k].hash
        <4> SUFFICES ASSUME NEW k \in Keys, idempotency'[k].hash # None
                     PROVE  /\ idempotency'[k].document \in Requests
                            /\ documents'[idempotency'[k].document].value # 0
                            /\ documents'[idempotency'[k].document].key = k
                            /\ documents'[idempotency'[k].document].hash
                                  = idempotency'[k].hash
          OBVIOUS
        <4>1. CASE k = mem[r].key
          BY <1>7, <2>3, <4>1, CommitRows
        <4>2. CASE k # mem[r].key
          <5>1. idempotency'[k] = idempotency[k]
            BY <1>7, <2>3, <4>2, CommitRows
          <5>2. /\ idempotency[k].document \in Requests \ {r}
                /\ documents[idempotency[k].document].value # 0
                /\ documents[idempotency[k].document].key = k
                /\ documents[idempotency[k].document].hash = idempotency[k].hash
            BY <3>1, <5>1 DEF ReservationsPointAtDocuments
          <5> QED
            BY <1>7, <2>3, <5>1, <5>2, CommitRows
        <4> QED
          BY <4>1, <4>2
      <3>3. \A q \in Requests : documents'[q].value # 0 =>
               /\ pc'[q] = "done"
               /\ documents'[q].value \in 1..LastValue
               /\ documents'[q].key \in Keys
               /\ documents'[q].hash \in Hashes
               /\ idempotency'[documents'[q].key].document = q
               /\ idempotency'[documents'[q].key].hash = documents'[q].hash
        <4> SUFFICES ASSUME NEW q \in Requests, documents'[q].value # 0
                     PROVE  /\ pc'[q] = "done"
                            /\ documents'[q].value \in 1..LastValue
                            /\ documents'[q].key \in Keys
                            /\ documents'[q].hash \in Hashes
                            /\ idempotency'[documents'[q].key].document = q
                            /\ idempotency'[documents'[q].key].hash = documents'[q].hash
          OBVIOUS
        <4>1. CASE q = r
          BY <1>7, <2>3, <4>1, CommitRows
        <4>2. CASE q # r
          <5>1. documents'[q] = documents[q] /\ pc'[q] = pc[q]
            BY <1>7, <2>3, <4>2, CommitRows
          <5>2. /\ pc[q] = "done"
                /\ documents[q].value \in 1..LastValue
                /\ documents[q].key \in Keys
                /\ documents[q].hash \in Hashes
                /\ idempotency[documents[q].key].document = q
                /\ idempotency[documents[q].key].hash = documents[q].hash
            BY <5>1 DEF ReservationsPointAtDocuments
          <5>3. idempotency[mem[r].key].hash = None
            BY <1>7, <2>3, CommitRows
          <5>4. documents[q].key # mem[r].key
            BY <5>2, <5>3, NoneIsNobody
          <5> QED
            BY <1>7, <2>3, <5>1, <5>2, <5>4, CommitRows
        <4> QED
          BY <4>1, <4>2
      <3> QED
        BY <3>2, <3>3 DEF ReservationsPointAtDocuments
    <2> QED
      BY <2>2, <2>3
  <1>8. ASSUME NEW r \in Requests, TimeOut(r)
        PROVE  ReservationsPointAtDocuments'
    BY <1>8, ReservationsRollback DEF TimeOut
  <1>9. ASSUME NEW o \in Operators, ConfigureRead(o)
        PROVE  ReservationsPointAtDocuments'
    BY <1>9, ActorsAreDisjoint DEF ConfigureRead, Configurers, ReservationsPointAtDocuments,
       TypeOK, InTransaction
  <1>10. ASSUME NEW o \in Operators, ConfigureWrite(o)
        PROVE  ReservationsPointAtDocuments'
    BY <1>10, ActorsAreDisjoint DEF ConfigureWrite, Configurers,
       ReservationsPointAtDocuments, TypeOK, InTransaction
  <1>11. ASSUME NEW o \in Onboarders, InitializeRead(o)
        PROVE  ReservationsPointAtDocuments'
    BY <1>11, ActorsAreDisjoint DEF InitializeRead, Configurers,
       ReservationsPointAtDocuments, TypeOK, InTransaction
  <1>12. ASSUME NEW o \in Onboarders, InitializeWrite(o)
        PROVE  ReservationsPointAtDocuments'
    BY <1>12, ActorsAreDisjoint DEF InitializeWrite, Configurers,
       ReservationsPointAtDocuments, TypeOK, InTransaction
  <1>13. CASE RotateCredentials \/ ValidateConnection \/ DisableConnection
    BY <1>13 DEF RotateCredentials, ValidateConnection, DisableConnection,
       ReservationsPointAtDocuments, TypeOK, InTransaction
  <1>14. CASE UNCHANGED vars
    BY <1>14 DEF vars, ReservationsPointAtDocuments, TypeOK, InTransaction
  <1> QED
    BY <1>1, <1>2, <1>3, <1>4, <1>5, <1>6, <1>7, <1>8, <1>9, <1>10, <1>11, <1>12, <1>13,
       <1>14 DEF Next

-----------------------------------------------------------------------------
(* Answers and credentials *)

\* What every step other than a commit leaves alone: documents and reservations, and
\* all that a call that has ended knows; an answer is that of the reservation found.
Quiet ==
    /\ documents' = documents
    /\ idempotency' = idempotency
    /\ \A q \in Requests : pc[q] = "done" => /\ pc'[q] = "done"
                                           /\ mem'[q] = mem[q]
                                           /\ answer'[q] = answer[q]
    /\ \A q \in overtaken : pc[q] = "done" => q \in overtaken'
    /\ \A q \in Requests : answer'[q] = answer[q] \/ answer'[q] = None
          \/ /\ pc'[q] = "done"
             /\ mem'[q] = mem[q]
             /\ mem[q].key \in Keys
             /\ idempotency[mem[q].key].hash = mem[q].hash
             /\ idempotency[mem[q].key].hash # None
             /\ answer'[q] = idempotency[mem[q].key].document
    /\ ~overwritten' => /\ ~overwritten
                        /\ sequence'.last = sequence.last
                        /\ sequence.last # 0 => sequence'.next = sequence.next

LEMMA QuietRollback ==
    ASSUME TypeOK, MemoryIsRight, NEW r \in Requests, pc[r] \in InTransaction, Rollback(r)
    PROVE  Quiet
  BY DEF Rollback, End, Unlocked, Goto, Quiet, TypeOK, Labels, InTransaction

LEMMA QuietResolve ==
    ASSUME TypeOK, MemoryIsRight, NEW r \in Requests, pc[r] \in InTransaction,
           idempotency[mem[r].key].hash # None, Resolve(r)
    PROVE  Quiet
  <1>1. mem[r].key \in Keys /\ mem[r].hash \in Hashes
    BY DEF MemoryIsRight
  <1>2. UNCHANGED <<documents, idempotency, mem, sequence, overwritten, overtaken>>
    BY DEF Resolve
  <1>3. \A q \in Requests : pc'[q] = IF q = r THEN "done" ELSE pc[q]
    BY DEF Resolve, End, Goto, TypeOK
  <1>4. \A q \in Requests \ {r} : answer'[q] = answer[q]
    BY DEF Resolve, TypeOK
  <1>5. answer'[r] = IF idempotency[mem[r].key].hash = mem[r].hash
                     THEN idempotency[mem[r].key].document ELSE None
    BY DEF Resolve, TypeOK
  <1>6. pc[r] # "done"
    BY DEF InTransaction
  <1> QED
    BY <1>1, <1>2, <1>3, <1>4, <1>5, <1>6 DEF Quiet

LEMMA QuietStep ==
    ASSUME TypeOK, MemoryIsRight, \A r \in Requests : ~(Create(r) /\ ~Rollback(r)), [Next]_vars
    PROVE  Quiet
  <1> USE DEF Goto, Labels
  <1>1. ASSUME NEW r \in Requests, Begin(r)
        PROVE  Quiet
    BY <1>1 DEF Begin, Quiet, TypeOK, Sequence
  <1>2. ASSUME NEW r \in Requests, Lookup(r)
        PROVE  Quiet
    <2>1. pc[r] \in InTransaction
      BY <1>2 DEF Lookup, InTransaction
    <2>2. CASE idempotency[mem[r].key].hash # None
      BY <1>2, <2>1, <2>2, QuietResolve DEF Lookup
    <2>3. CASE idempotency[mem[r].key].hash = None
      BY <1>2, <2>3 DEF Lookup, Quiet, TypeOK, Sequence
    <2> QED
      BY <2>2, <2>3
  <1>3. ASSUME NEW r \in Requests, Reserve(r)
        PROVE  Quiet
    <2>1. pc[r] \in InTransaction
      BY <1>3 DEF Reserve, InTransaction
    <2>2. CASE idempotency[mem[r].key].hash # None
      BY <1>3, <2>1, <2>2, QuietResolve DEF Reserve
    <2>3. CASE idempotency[mem[r].key].hash = None
      BY <1>3, <2>3 DEF Reserve, Quiet, TypeOK, Sequence
    <2> QED
      BY <2>2, <2>3
  <1>4. ASSUME NEW r \in Requests, CheckEligibility(r)
        PROVE  Quiet
    <2>1. pc[r] \in InTransaction
      BY <1>4 DEF CheckEligibility, InTransaction
    <2>2. CASE Rollback(r)
      BY <2>1, <2>2, QuietRollback
    <2>3. CASE ~Rollback(r)
      BY <1>4, <2>3 DEF CheckEligibility, Quiet, TypeOK, Sequence
    <2> QED
      BY <2>2, <2>3
  <1>5. ASSUME NEW r \in Requests, Recheck(r)
        PROVE  Quiet
    <2>1. pc[r] \in InTransaction
      BY <1>5 DEF Recheck, InTransaction
    <2>2. CASE Rollback(r)
      BY <2>1, <2>2, QuietRollback
    <2>3. CASE ~Rollback(r)
      BY <1>5, <2>3 DEF Recheck, Quiet, TypeOK, Sequence
    <2> QED
      BY <2>2, <2>3
  <1>6. ASSUME NEW r \in Requests, Allocate(r)
        PROVE  Quiet
    <2>1. pc[r] \in InTransaction
      BY <1>6 DEF Allocate, InTransaction
    <2>2. CASE Rollback(r)
      BY <2>1, <2>2, QuietRollback
    <2>3. CASE ~Rollback(r)
      BY <1>6, <2>3 DEF Allocate, Quiet, TypeOK, Sequence
    <2> QED
      BY <2>2, <2>3
  <1>7. ASSUME NEW r \in Requests, Create(r)
        PROVE  Quiet
    <2>1. pc[r] \in InTransaction
      BY <1>7 DEF Create, InTransaction
    <2>2. CASE Rollback(r)
      BY <2>1, <2>2, QuietRollback
    <2>3. CASE ~Rollback(r)
      BY <1>7, <2>3 DEF Create, Quiet, TypeOK, Sequence
    <2> QED
      BY <2>2, <2>3
  <1>8. ASSUME NEW r \in Requests, TimeOut(r)
        PROVE  Quiet
    BY <1>8, QuietRollback DEF TimeOut
  <1>9. ASSUME NEW o \in Operators, ConfigureRead(o)
        PROVE  Quiet
    BY <1>9, ActorsAreDisjoint DEF ConfigureRead, Configurers, Quiet, TypeOK, Sequence
  <1>10. ASSUME NEW o \in Operators, ConfigureWrite(o)
        PROVE  Quiet
    BY <1>10, ActorsAreDisjoint DEF ConfigureWrite, Configurers, Quiet, TypeOK, Sequence
  <1>11. ASSUME NEW o \in Onboarders, InitializeRead(o)
        PROVE  Quiet
    BY <1>11, ActorsAreDisjoint DEF InitializeRead, Configurers, Quiet, TypeOK, Sequence
  <1>12. ASSUME NEW o \in Onboarders, InitializeWrite(o)
        PROVE  Quiet
    BY <1>12, ActorsAreDisjoint, FirstValuesAreValid, LastValueIsPositive
       DEF InitializeWrite, Configurers, Sequence, MemoryIsRight, Quiet, TypeOK, Sequence
  <1>13. CASE RotateCredentials \/ ValidateConnection \/ DisableConnection
    BY <1>13 DEF RotateCredentials, ValidateConnection, DisableConnection, Overtakes, Quiet,
       TypeOK, Sequence
  <1>14. CASE UNCHANGED vars
    BY <1>14 DEF vars, Quiet, TypeOK, Sequence
  <1> QED
    BY <1>1, <1>2, <1>3, <1>4, <1>5, <1>6, <1>7, <1>8, <1>9, <1>10, <1>11, <1>12, <1>13,
       <1>14 DEF Next

LEMMA AnsweredStep ==
    ASSUME IssuanceInv, AnsweredAsAsked, [Next]_vars
    PROVE  AnsweredAsAsked'
  <1> USE DEF IssuanceInv
  <1>1. SUFFICES ASSUME NEW q \in Requests, answer'[q] # None
                 PROVE  /\ pc'[q] = "done"
                        /\ documents'[answer'[q]].value # 0
                        /\ documents'[answer'[q]].key = mem'[q].key
                        /\ documents'[answer'[q]].hash = mem'[q].hash
    BY DEF AnsweredAsAsked
  <1>2. answer[q] \in Requests \cup {None}
    BY DEF TypeOK
  <1>3. ASSUME NEW r \in Requests, Create(r), ~Rollback(r)
        PROVE  /\ pc'[q] = "done"
               /\ documents'[answer'[q]].value # 0
               /\ documents'[answer'[q]].key = mem'[q].key
               /\ documents'[answer'[q]].hash = mem'[q].hash
    <2>1. CASE q = r
      BY <1>3, <2>1, LastValueIsPositive, CommitRows
    <2>2. CASE q # r
      <3>1. answer'[q] = answer[q] /\ mem' = mem /\ pc'[q] = pc[q] /\ pc[r] = "create"
        BY <1>3, <2>2, CommitRows
      <3>2. /\ pc[q] = "done"
            /\ documents[answer[q]].value # 0
            /\ documents[answer[q]].key = mem[q].key
            /\ documents[answer[q]].hash = mem[q].hash
        BY <1>1, <3>1 DEF AnsweredAsAsked
      <3>3. answer[q] \in Requests /\ answer[q] # r
        BY <1>1, <1>2, <3>1, <3>2 DEF ReservationsPointAtDocuments
      <3>4. documents'[answer[q]] = documents[answer[q]]
        BY <1>3, <3>3, CommitRows
      <3> QED
        BY <3>1, <3>2, <3>4
    <2> QED
      BY <2>1, <2>2
  <1>4. CASE \A r \in Requests : ~(Create(r) /\ ~Rollback(r))
    <2>1. Quiet
      BY <1>4, QuietStep
    <2>2. CASE answer'[q] = answer[q]
      <3>1. /\ pc[q] = "done"
            /\ documents[answer[q]].value # 0
            /\ documents[answer[q]].key = mem[q].key
            /\ documents[answer[q]].hash = mem[q].hash
        BY <1>1, <2>2 DEF AnsweredAsAsked
      <3> QED
        BY <2>1, <2>2, <3>1 DEF Quiet
    <2>3. CASE answer'[q] # answer[q]
      <3>1. /\ pc'[q] = "done"
            /\ mem'[q] = mem[q]
            /\ mem[q].key \in Keys
            /\ idempotency[mem[q].key].hash = mem[q].hash
            /\ idempotency[mem[q].key].hash # None
            /\ answer'[q] = idempotency[mem[q].key].document
            /\ documents' = documents
        BY <1>1, <2>1, <2>3 DEF Quiet
      <3> QED
        BY <3>1 DEF ReservationsPointAtDocuments
    <2> QED
      BY <2>2, <2>3
  <1> QED
    BY <1>3, <1>4

LEMMA CheckedStep ==
    ASSUME IssuanceInv, IssuedAsChecked, [Next]_vars
    PROVE  IssuedAsChecked'
  <1> USE DEF IssuanceInv
  <1>1. SUFFICES ASSUME NEW q \in Requests, documents'[q].value # 0, q \notin overtaken'
                 PROVE  documents'[q].under = Connected(mem'[q].eligible)
    BY DEF IssuedAsChecked
  <1>2. ASSUME NEW r \in Requests, Create(r), ~Rollback(r)
        PROVE  documents'[q].under = Connected(mem'[q].eligible)
    <2>1. CASE q = r
      BY <1>1, <1>2, <2>1, CommitRows
    <2>2. CASE q # r
      <3>1. documents'[q] = documents[q] /\ UNCHANGED <<mem, overtaken>>
        BY <1>2, <2>2, CommitRows
      <3> QED
        BY <1>1, <3>1 DEF IssuedAsChecked
    <2> QED
      BY <2>1, <2>2
  <1>3. CASE \A r \in Requests : ~(Create(r) /\ ~Rollback(r))
    <2>1. Quiet
      BY <1>3, QuietStep
    <2>2. documents[q].value # 0
      BY <1>1, <2>1 DEF Quiet
    <2>3. pc[q] = "done"
      BY <2>2 DEF ReservationsPointAtDocuments
    <2>4. documents[q].under = Connected(mem[q].eligible)
      BY <1>1, <2>1, <2>2, <2>3 DEF Quiet, IssuedAsChecked
    <2> QED
      BY <2>1, <2>3, <2>4 DEF Quiet
  <1> QED
    BY <1>2, <1>3

-----------------------------------------------------------------------------
(* Consecutives *)

LEMMA ValuesAreValid ==
    ASSUME IssuanceInv
    PROVE  Values \subseteq 1..LastValue
  BY DEF Values, IssuanceInv, ReservationsPointAtDocuments

LEMMA CommitAddsValue ==
    ASSUME IssuanceInv, NEW r \in Requests, Create(r), ~Rollback(r)
    PROVE  Values' = Values \cup {sequence.next}
  <1> USE DEF IssuanceInv
  <1>1. /\ pc[r] = "create"
        /\ mem[r].value = sequence.next
        /\ mem[r].value \in 1..LastValue
        /\ documents'[r].value = mem[r].value
        /\ \A q \in Requests \ {r} : documents'[q] = documents[q]
    BY CommitRows
  <1>2. documents[r].value = 0
    BY <1>1 DEF ReservationsPointAtDocuments
  <1>3. sequence.next # 0
    BY <1>1, LastValueIsPositive
  <1> QED
    BY <1>1, <1>2, <1>3 DEF Values

LEMMA DenseStep ==
    ASSUME IssuanceInv, SequenceIsDense, [Next]_vars
    PROVE  SequenceIsDense'
  <1>1. SUFFICES ASSUME ~overwritten'
                 PROVE  /\ sequence'.last # 0 => sequence'.next = sequence'.last + 1
                        /\ \A v \in Values' : /\ v..sequence'.last \subseteq Values'
                                             /\ v <= sequence'.last
                        /\ sequence'.last # 0 => sequence'.last \in Values'
    BY DEF SequenceIsDense
  <1>2. ASSUME NEW r \in Requests, Create(r), ~Rollback(r)
        PROVE  /\ sequence'.last # 0 => sequence'.next = sequence'.last + 1
               /\ \A v \in Values' : /\ v..sequence'.last \subseteq Values'
                                    /\ v <= sequence'.last
               /\ sequence'.last # 0 => sequence'.last \in Values'
    <2>1. /\ sequence' = [present |-> TRUE, next |-> sequence.next + 1,
                          last |-> sequence.next]
          /\ ~overwritten
      BY <1>1, <1>2, CommitRows DEF IssuanceInv
    <2>2. sequence'.last = sequence.next /\ sequence'.next = sequence.next + 1
      BY <2>1
    <2>3. sequence.next \in Nat /\ sequence.last \in Nat
      BY DEF IssuanceInv, TypeOK, Sequence
    <2>4. Values' = Values \cup {sequence.next}
      BY <1>2, CommitAddsValue
    <2>5. Values \subseteq Nat \ {0}
      BY ValuesAreValid, LastValueIsPositive
    <2>6. \A v \in Values : v..sequence.next \subseteq Values' /\ v <= sequence.next
      <3>1. SUFFICES ASSUME NEW v \in Values
                     PROVE  v..sequence.next \subseteq Values' /\ v <= sequence.next
        OBVIOUS
      <3>2. v \in Nat \ {0} /\ v <= sequence.last /\ v..sequence.last \subseteq Values
        BY <2>1, <2>5, <3>1 DEF SequenceIsDense
      <3>3. sequence.next = sequence.last + 1
        BY <2>1, <2>3, <3>2 DEF SequenceIsDense
      <3>4. v..sequence.next = (v..sequence.last) \cup {sequence.next}
        BY <2>3, <3>2, <3>3
      <3> QED
        BY <2>3, <2>4, <3>2, <3>3, <3>4
    <2>7. sequence.next..sequence.next = {sequence.next}
      BY <2>3
    <2> QED
      BY <2>2, <2>3, <2>4, <2>6, <2>7
  <1>3. CASE \A r \in Requests : ~(Create(r) /\ ~Rollback(r))
    <2>1. Quiet
      BY <1>3, QuietStep DEF IssuanceInv
    <2>2. Values' = Values
      BY <2>1 DEF Quiet, Values
    <2>3. /\ ~overwritten
          /\ sequence'.last = sequence.last
          /\ sequence.last # 0 => sequence'.next = sequence.next
      BY <1>1, <2>1 DEF Quiet
    <2> QED
      BY <2>2, <2>3 DEF SequenceIsDense
  <1> QED
    BY <1>2, <1>3

-----------------------------------------------------------------------------
(* The theorems *)

LEMMA IssuanceInit ==
    Init => IssuanceInv /\ AnsweredAsAsked /\ IssuedAsChecked /\ SequenceIsDense
  <1> SUFFICES ASSUME Init
               PROVE  IssuanceInv /\ AnsweredAsAsked /\ IssuedAsChecked /\ SequenceIsDense
    OBVIOUS
  <1> USE DEF Init, NoDocument, NoMemory, Connected
  <1>1. TypeOK
    BY DEF TypeOK, Sequence, Reservation, Document, Connection, Memory, Labels
  <1>2. MemoryIsRight
    BY DEF MemoryIsRight, InTransaction, Configurers
  <1>3. LocksAreHeld
    BY DEF LocksAreHeld, Reserved
  <1>4. ReservationsPointAtDocuments
    BY DEF ReservationsPointAtDocuments
  <1>5. AnsweredAsAsked /\ IssuedAsChecked /\ SequenceIsDense
    BY DEF AnsweredAsAsked, IssuedAsChecked, SequenceIsDense, Values
  <1> QED
    BY <1>1, <1>2, <1>3, <1>4, <1>5 DEF IssuanceInv

\* In every reachable state rows, locks and the memories of open transactions fit
\* together: one holder per key and sequence, one document per completed reservation.
THEOREM IssuanceCorrect == Spec => []IssuanceInv
  <1>1. Init => IssuanceInv
    BY IssuanceInit
  <1>2. IssuanceInv /\ [Next]_vars => IssuanceInv'
    BY TypeStep, MemoryStep, LocksStep, ReservationsStep DEF IssuanceInv
  <1> QED
    BY <1>1, <1>2, PTL DEF Spec

\* Whoever is answered, first or on a retry, gets the document of its key and body.
THEOREM AnsweredAsAskedHolds == Spec => []AnsweredAsAsked
  <1>1. Init => AnsweredAsAsked
    BY IssuanceInit
  <1>2. IssuanceInv /\ AnsweredAsAsked /\ [Next]_vars => AnsweredAsAsked'
    BY AnsweredStep
  <1> QED
    BY <1>1, <1>2, IssuanceCorrect, PTL DEF Spec

\* The connection a document is committed under is the CONNECTED one its eligibility
\* check has read, unless the row was saved between the recheck and the commit.
THEOREM IssuedAsCheckedHolds == Spec => []IssuedAsChecked
  <1>1. Init => IssuedAsChecked
    BY IssuanceInit
  <1>2. IssuanceInv /\ IssuedAsChecked /\ [Next]_vars => IssuedAsChecked'
    BY CheckedStep
  <1> QED
    BY <1>1, <1>2, IssuanceCorrect, PTL DEF Spec

\* Failed transactions leave no gap in the consecutives of a sequence that is not
\* overwritten.
THEOREM SequenceIsDenseHolds == Spec => []SequenceIsDense
  <1>1. Init => SequenceIsDense
    BY IssuanceInit
  <1>2. IssuanceInv /\ SequenceIsDense /\ [Next]_vars => SequenceIsDense'
    BY DenseStep
  <1> QED
    BY <1>1, <1>2, IssuanceCorrect, PTL DEF Spec

\* Every step issues one identity, of a new key and a new consecutive, or none.
LEMMA IdentityStep ==
    ASSUME IssuanceInv, [Next]_vars
    PROVE  [Abstract!Next]_Identities
  <1> USE DEF IssuanceInv
  <1>1. ASSUME NEW r \in Requests, Create(r), ~Rollback(r)
        PROVE  Abstract!Next
    <2> DEFINE new == [key |-> mem[r].key, hash |-> mem[r].hash, value |-> mem[r].value]
    <2>1. /\ pc[r] = "create"
          /\ mem[r].key \in Keys
          /\ mem[r].hash \in Hashes
          /\ mem[r].value \in 1..LastValue
          /\ ~Taken(mem[r].value)
          /\ idempotency[mem[r].key].hash = None
          /\ documents'[r].value = mem[r].value
          /\ documents'[r].key = mem[r].key
          /\ documents'[r].hash = mem[r].hash
          /\ \A q \in Requests \ {r} : documents'[q] = documents[q]
      BY <1>1, CommitRows
    <2>2. new \in Abstract!Identity
      BY <2>1 DEF Abstract!Identity
    <2>3. documents[r].value = 0 /\ mem[r].value # 0
      BY <2>1, LastValueIsPositive DEF ReservationsPointAtDocuments
    <2>4. Identities' = Identities \cup {new}
      <3>1. {d \in Requests : documents'[d].value # 0}
              = {d \in Requests : documents[d].value # 0} \cup {r}
        BY <2>1, <2>3
      <3> QED
        BY <2>1, <2>3, <3>1 DEF Identities
    <2>5. ASSUME NEW other \in Identities
          PROVE  other.key # new.key /\ other.value # new.value
      <3>1. PICK d \in Requests : /\ documents[d].value # 0
                                  /\ other.key = documents[d].key
                                  /\ other.value = documents[d].value
        BY DEF Identities
      <3>2. other.value # new.value
        BY <2>1, <3>1 DEF Taken
      <3>3. /\ idempotency[documents[d].key].hash = documents[d].hash
            /\ documents[d].hash \in Hashes
        BY <3>1 DEF ReservationsPointAtDocuments
      <3>4. other.key # new.key
        BY <2>1, <3>1, <3>3, NoneIsNobody
      <3> QED
        BY <3>2, <3>4
    <2>6. Abstract!Issue(new)
      BY <2>4, <2>5 DEF Abstract!Issue
    <2> HIDE DEF new
    <2> QED
      BY <2>2, <2>6 DEF Abstract!Next
  <1>2. CASE \A r \in Requests : ~(Create(r) /\ ~Rollback(r))
    <2>1. documents' = documents
      BY <1>2, QuietStep DEF Quiet
    <2> QED
      BY <2>1 DEF Identities
  <1> QED
    BY <1>1, <1>2

\* createDocument implements the promise of FiscalIdentity for every number of calls,
\* configurations and rotations.
THEOREM IdentityRefinementHolds == Spec => IdentityRefinement
  <1>1. Init => Abstract!Init
    BY DEF Init, Identities, NoDocument, Abstract!Init
  <1>2. IssuanceInv /\ [Next]_vars => [Abstract!Next]_Identities
    BY IdentityStep
  <1> QED
    BY <1>1, <1>2, IssuanceCorrect, PTL DEF Spec, IdentityRefinement, Abstract!Spec
=============================================================================
