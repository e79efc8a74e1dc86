---- MODULE DocumentProofs ----
(* The life of a fiscal document from its command to what its receiver reads, proved   *)
(* for every factor, unit, quantity and price, and for any number of lines: the hash    *)
(* of a command finds its document again, the totals that are stored, the summary that  *)
(* is written and the view that is shown agree, and what one stage accepts the next one *)
(* can make. Loops over the lines are running totals, compared at each turn; a list of  *)
(* checks refuses with the first that fails.                                            *)
EXTENDS PlatformProofs

(* What the loops over the lines compute, for any number of lines. *)

RunningTotal(total, amounts) ==
    total = [n \in 0..Len(amounts) |-> IF n = 0 THEN 0 ELSE total[n - 1] + amounts[n]]

\* What holds at the start of a loop and after each turn holds at its end.

LEMMA LoopEnds ==
    ASSUME NEW m \in Nat, NEW S, 0 \in S,
           \A n \in 1..m : n - 1 \in S => n \in S
    PROVE  \A n \in 0..m : n \in S
<1> DEFINE Missing == {n \in 0..m : n \notin S}
<1> SUFFICES ASSUME Missing # {} PROVE FALSE
  OBVIOUS
<1>1. Missing \subseteq Nat
  OBVIOUS
<1> HIDE DEF Missing
<1>2. PICK k \in Missing : \A i \in Missing : k <= i
  BY <1>1, LeastOf
<1>3. k \in 1..m /\ k - 1 \in 0..m /\ ~(k <= k - 1)
  BY <1>2 DEF Missing
<1>4. k - 1 \in S
  BY <1>2, <1>3 DEF Missing
<1> QED
  BY <1>2, <1>3, <1>4 DEF Missing

\* A function that keeps the running total of a loop exists: the loop ends.
LEMMA TotalExists ==
    ASSUME NEW m \in Nat, NEW a \in [1..m -> Int], Len(a) = m
    PROVE  \E total \in [0..m -> Int] : RunningTotal(total, a)
<1> DEFINE Upto(n, total) == /\ total \in [0..n -> Int] /\ total[0] = 0
                             /\ \A i \in 1..n : total[i] = total[i - 1] + a[i]
           Reached == {n \in 0..m : \E total : Upto(n, total)}
<1>1. 0 \in Reached
  <2> DEFINE start == [i \in 0..0 |-> 0]
  <2>1. Upto(0, start)
    OBVIOUS
  <2> HIDE DEF start, Upto
  <2> QED
    BY <2>1
<1>2. ASSUME NEW n \in 1..m, n - 1 \in Reached PROVE n \in Reached
  <2>1. PICK total : Upto(n - 1, total)
    BY <1>2
  <2> DEFINE more == [i \in 0..n |-> IF i = n THEN total[n - 1] + a[n] ELSE total[i]]
  <2>2. Upto(n, more)
    <3>1. more \in [0..n -> Int] /\ more[0] = 0
      BY <2>1
    <3>2. ASSUME NEW i \in 1..n PROVE more[i] = more[i - 1] + a[i]
      BY <2>1, <3>2
    <3> QED
      BY <3>1, <3>2
  <2> HIDE DEF more, Upto
  <2> QED
    BY <2>2
<1>3. m \in Reached
  <2>1. \A n \in 0..m : n \in Reached
    <3> HIDE DEF Reached
    <3> QED
      BY <1>1, <1>2, LoopEnds
  <2> HIDE DEF Reached
  <2> QED
    BY <2>1
<1>4. PICK total : Upto(m, total)
  BY <1>3
<1>5. total = [n \in 0..m |-> IF n = 0 THEN 0 ELSE total[n - 1] + a[n]]
  BY <1>4
<1> QED
  BY <1>4, <1>5 DEF RunningTotal

\* What SumOf is: the last of running totals that begin at zero (calculateTotals).
LEMMA SumIs ==
    ASSUME NEW m \in Nat, NEW a \in [1..m -> Int]
    PROVE  \E total \in [0..m -> Int] :
              /\ Documents!SumOf(a) = total[m] /\ total[0] = 0
              /\ \A n \in 1..m : total[n] = total[n - 1] + a[n]
<1>1. Len(a) = m
  OBVIOUS
<1> DEFINE total == CHOOSE f : RunningTotal(f, a)
<1>2. Documents!SumOf(a) = total[m]
  BY <1>1 DEF Documents!SumOf, RunningTotal
<1>3. RunningTotal(total, a)
  <2>1. \E f : RunningTotal(f, a)
    BY <1>1, TotalExists
  <2> QED
    BY <2>1, Zenon
<1> HIDE DEF total
<1>4. total = [n \in 0..m |-> IF n = 0 THEN 0 ELSE total[n - 1] + a[n]]
  BY <1>1, <1>3 DEF RunningTotal
<1> DEFINE Whole == {n \in 0..m : total[n] \in Int}
<1>5. 0 \in Whole
  BY <1>4
<1>6. ASSUME NEW n \in 1..m, n - 1 \in Whole PROVE n \in Whole
  BY <1>4, <1>6
<1>7. total \in [0..m -> Int]
  <2>1. \A n \in 0..m : n \in Whole
    <3> HIDE DEF Whole
    <3> QED
      BY <1>5, <1>6, LoopEnds
  <2> QED
    BY <1>4, <2>1
<1>8. total[0] = 0 /\ \A n \in 1..m : total[n] = total[n - 1] + a[n]
  BY <1>4
<1> QED
  BY <1>2, <1>7, <1>8

\* Loops that run over the same lines add up.

LEMMA SumsAdd ==
    ASSUME NEW m \in Nat, NEW a \in [1..m -> Int], NEW b \in [1..m -> Int],
           NEW c \in [1..m -> Int], \A n \in 1..m : c[n] = a[n] + b[n]
    PROVE  /\ Documents!SumOf(c) = Documents!SumOf(a) + Documents!SumOf(b)
           /\ Documents!SumOf(a) \in Int /\ Documents!SumOf(b) \in Int
<1>1. PICK ta \in [0..m -> Int] :
         /\ Documents!SumOf(a) = ta[m] /\ ta[0] = 0
         /\ \A n \in 1..m : ta[n] = ta[n - 1] + a[n]
  BY SumIs
<1>2. PICK tb \in [0..m -> Int] :
         /\ Documents!SumOf(b) = tb[m] /\ tb[0] = 0
         /\ \A n \in 1..m : tb[n] = tb[n - 1] + b[n]
  BY SumIs
<1>3. PICK tc \in [0..m -> Int] :
         /\ Documents!SumOf(c) = tc[m] /\ tc[0] = 0
         /\ \A n \in 1..m : tc[n] = tc[n - 1] + c[n]
  BY SumIs
<1> DEFINE Equal == {n \in 0..m : tc[n] = ta[n] + tb[n]}
<1>4. 0 \in Equal
  BY <1>1, <1>2, <1>3
<1>5. ASSUME NEW n \in 1..m, n - 1 \in Equal PROVE n \in Equal
  <2>1. /\ tc[n] = tc[n - 1] + c[n] /\ ta[n] = ta[n - 1] + a[n] /\ tb[n] = tb[n - 1] + b[n]
        /\ c[n] = a[n] + b[n] /\ tc[n - 1] = ta[n - 1] + tb[n - 1]
    BY <1>1, <1>2, <1>3, <1>5
  <2>2. n \in 0..m /\ n - 1 \in 0..m
    OBVIOUS
  <2>3. /\ ta[n - 1] \in Int /\ tb[n - 1] \in Int /\ a[n] \in Int /\ b[n] \in Int
    BY <2>2
  <2> QED
    BY <2>1, <2>2, <2>3
<1>6. m \in Equal
  <2>1. \A n \in 0..m : n \in Equal
    <3> HIDE DEF Equal
    <3> QED
      BY <1>4, <1>5, LoopEnds
  <2> QED
    BY <2>1
<1> QED
  BY <1>1, <1>2, <1>3, <1>6

(* The first check that fails. *)

\* A check that fails has something to say.
Coded(check) == check.failed => check.code # "NONE"

\* A command is refused exactly when one of the checks it meets fails.
LEMMA RefusalIs ==
    ASSUME NEW m \in Nat, NEW checks, DOMAIN checks = 1..m,
           \A i \in 1..m : Coded(checks[i])
    PROVE  Documents!Refusal(checks) = "NONE" <=> \A i \in 1..m : ~checks[i].failed
<1> DEFINE failing == {i \in 1..m : checks[i].failed}
<1>1. CASE failing = {}
  <2>1. Documents!Refusal(checks) = "NONE"
    BY <1>1 DEF Documents!Refusal
  <2> QED
    BY <1>1, <2>1
<1>2. CASE failing # {}
  <2>1. failing \subseteq Nat
    OBVIOUS
  <2> DEFINE first == CHOOSE i \in failing : \A j \in failing : i <= j
  <2>2. first \in failing
    <3> HIDE DEF failing
    <3>1. \E i \in failing : \A j \in failing : i <= j
      BY <1>2, <2>1, LeastOf
    <3> QED
      BY <3>1, Zenon
  <2>3. Documents!Refusal(checks) = checks[first].code
    BY <1>2 DEF Documents!Refusal
  <2> HIDE DEF first
  <2> QED
    BY <2>2, <2>3 DEF Coded
<1> QED
  BY <1>1, <1>2

\* The same of checks that are written out: one, two, three, four, six, eight, nine.
LEMMA RefusalOfOne ==
    ASSUME NEW c1,
           Coded(c1)
    PROVE  Documents!Refusal(<<c1>>) = "NONE"
             <=> ~c1.failed
<1> DEFINE checks == <<c1>>
<1>1. DOMAIN checks = 1..1
  OBVIOUS
<1>2. checks[1] = c1
  OBVIOUS
<1>3. \A i \in 1..1 : i = 1
  OBVIOUS
<1> HIDE DEF checks
<1>4. \A i \in 1..1 : Coded(checks[i])
  BY <1>2, <1>3
<1>5. (\A i \in 1..1 : ~checks[i].failed) <=> ~c1.failed
  BY <1>2, <1>3
<1>6. Documents!Refusal(checks) = "NONE" <=> \A i \in 1..1 : ~checks[i].failed
  BY <1>1, <1>4, RefusalIs
<1> QED
  BY <1>5, <1>6 DEF checks

LEMMA RefusalOfTwo ==
    ASSUME NEW c1, NEW c2,
           Coded(c1), Coded(c2)
    PROVE  Documents!Refusal(<<c1, c2>>) = "NONE"
             <=> ~c1.failed /\ ~c2.failed
<1> DEFINE checks == <<c1, c2>>
<1>1. DOMAIN checks = 1..2
  OBVIOUS
<1>2. checks[1] = c1 /\ checks[2] = c2
  OBVIOUS
<1>3. \A i \in 1..2 : i = 1 \/ i = 2
  OBVIOUS
<1> HIDE DEF checks
<1>4. \A i \in 1..2 : Coded(checks[i])
  BY <1>2, <1>3
<1>5. (\A i \in 1..2 : ~checks[i].failed) <=> ~c1.failed /\ ~c2.failed
  BY <1>2, <1>3
<1>6. Documents!Refusal(checks) = "NONE" <=> \A i \in 1..2 : ~checks[i].failed
  BY <1>1, <1>4, RefusalIs
<1> QED
  BY <1>5, <1>6 DEF checks

LEMMA RefusalOfThree ==
    ASSUME NEW c1, NEW c2, NEW c3,
           Coded(c1), Coded(c2), Coded(c3)
    PROVE  Documents!Refusal(<<c1, c2, c3>>) = "NONE"
             <=> ~c1.failed /\ ~c2.failed /\ ~c3.failed
<1> DEFINE checks == <<c1, c2, c3>>
<1>1. DOMAIN checks = 1..3
  OBVIOUS
<1>2. checks[1] = c1 /\ checks[2] = c2 /\ checks[3] = c3
  OBVIOUS
<1>3. \A i \in 1..3 : i = 1 \/ i = 2 \/ i = 3
  OBVIOUS
<1> HIDE DEF checks
<1>4. \A i \in 1..3 : Coded(checks[i])
  BY <1>2, <1>3
<1>5. (\A i \in 1..3 : ~checks[i].failed) <=> ~c1.failed /\ ~c2.failed /\ ~c3.failed
  BY <1>2, <1>3
<1>6. Documents!Refusal(checks) = "NONE" <=> \A i \in 1..3 : ~checks[i].failed
  BY <1>1, <1>4, RefusalIs
<1> QED
  BY <1>5, <1>6 DEF checks

LEMMA RefusalOfFour ==
    ASSUME NEW c1, NEW c2, NEW c3, NEW c4,
           Coded(c1), Coded(c2), Coded(c3), Coded(c4)
    PROVE  Documents!Refusal(<<c1, c2, c3, c4>>) = "NONE"
             <=> ~c1.failed /\ ~c2.failed /\ ~c3.failed /\ ~c4.failed
<1> DEFINE checks == <<c1, c2, c3, c4>>
<1>1. DOMAIN checks = 1..4
  OBVIOUS
<1>2. checks[1] = c1 /\ checks[2] = c2 /\ checks[3] = c3 /\ checks[4] = c4
  OBVIOUS
<1>3. \A i \in 1..4 : i = 1 \/ i = 2 \/ i = 3 \/ i = 4
  OBVIOUS
<1> HIDE DEF checks
<1>4. \A i \in 1..4 : Coded(checks[i])
  BY <1>2, <1>3
<1>5. (\A i \in 1..4 : ~checks[i].failed)
        <=> ~c1.failed /\ ~c2.failed /\ ~c3.failed /\ ~c4.failed
  BY <1>2, <1>3
<1>6. Documents!Refusal(checks) = "NONE" <=> \A i \in 1..4 : ~checks[i].failed
  BY <1>1, <1>4, RefusalIs
<1> QED
  BY <1>5, <1>6 DEF checks

LEMMA RefusalOfSix ==
    ASSUME NEW c1, NEW c2, NEW c3, NEW c4, NEW c5, NEW c6,
           Coded(c1), Coded(c2), Coded(c3), Coded(c4), Coded(c5), Coded(c6)
    PROVE  Documents!Refusal(<<c1, c2, c3, c4, c5, c6>>) = "NONE"
             <=> /\ ~c1.failed /\ ~c2.failed /\ ~c3.failed /\ ~c4.failed /\ ~c5.failed
                 /\ ~c6.failed
<1> DEFINE checks == <<c1, c2, c3, c4, c5, c6>>
<1>1. DOMAIN checks = 1..6
  OBVIOUS
<1>2. /\ checks[1] = c1 /\ checks[2] = c2 /\ checks[3] = c3 /\ checks[4] = c4
      /\ checks[5] = c5 /\ checks[6] = c6
  OBVIOUS
<1>3. \A i \in 1..6 : i = 1 \/ i = 2 \/ i = 3 \/ i = 4 \/ i = 5 \/ i = 6
  OBVIOUS
<1> HIDE DEF checks
<1>4. \A i \in 1..6 : Coded(checks[i])
  BY <1>2, <1>3
<1>5. (\A i \in 1..6 : ~checks[i].failed)
        <=> ~c1.failed /\ ~c2.failed /\ ~c3.failed /\ ~c4.failed /\ ~c5.failed /\ ~c6.failed
  BY <1>2, <1>3
<1>6. Documents!Refusal(checks) = "NONE" <=> \A i \in 1..6 : ~checks[i].failed
  BY <1>1, <1>4, RefusalIs
<1> QED
  BY <1>5, <1>6 DEF checks

LEMMA RefusalOfEight ==
    ASSUME NEW c1, NEW c2, NEW c3, NEW c4, NEW c5, NEW c6, NEW c7, NEW c8,
           Coded(c1), Coded(c2), Coded(c3), Coded(c4), Coded(c5), Coded(c6),
           Coded(c7), Coded(c8)
    PROVE  Documents!Refusal(<<c1, c2, c3, c4, c5, c6, c7, c8>>) = "NONE"
             <=> /\ ~c1.failed /\ ~c2.failed /\ ~c3.failed /\ ~c4.failed /\ ~c5.failed
                 /\ ~c6.failed /\ ~c7.failed /\ ~c8.failed
<1> DEFINE checks == <<c1, c2, c3, c4, c5, c6, c7, c8>>
<1>1. DOMAIN checks = 1..8
  OBVIOUS
<1>2. /\ checks[1] = c1 /\ checks[2] = c2 /\ checks[3] = c3 /\ checks[4] = c4
      /\ checks[5] = c5 /\ checks[6] = c6 /\ checks[7] = c7 /\ checks[8] = c8
  OBVIOUS
<1>3. \A i \in 1..8 : i = 1 \/ i = 2 \/ i = 3 \/ i = 4 \/ i = 5 \/ i = 6 \/ i = 7 \/ i = 8
  OBVIOUS
<1> HIDE DEF checks
<1>4. \A i \in 1..8 : Coded(checks[i])
  BY <1>2, <1>3
<1>5. (\A i \in 1..8 : ~checks[i].failed)
        <=> /\ ~c1.failed /\ ~c2.failed /\ ~c3.failed /\ ~c4.failed /\ ~c5.failed
            /\ ~c6.failed /\ ~c7.failed /\ ~c8.failed
  BY <1>2, <1>3
<1>6. Documents!Refusal(checks) = "NONE" <=> \A i \in 1..8 : ~checks[i].failed
  BY <1>1, <1>4, RefusalIs
<1> QED
  BY <1>5, <1>6 DEF checks

LEMMA RefusalOfNine ==
    ASSUME NEW c1, NEW c2, NEW c3, NEW c4, NEW c5, NEW c6, NEW c7, NEW c8, NEW c9,
           Coded(c1), Coded(c2), Coded(c3), Coded(c4), Coded(c5), Coded(c6),
           Coded(c7), Coded(c8), Coded(c9)
    PROVE  Documents!Refusal(<<c1, c2, c3, c4, c5, c6, c7, c8, c9>>) = "NONE"
             <=> /\ ~c1.failed /\ ~c2.failed /\ ~c3.failed /\ ~c4.failed /\ ~c5.failed
                 /\ ~c6.failed /\ ~c7.failed /\ ~c8.failed /\ ~c9.failed
<1> DEFINE checks == <<c1, c2, c3, c4, c5, c6, c7, c8, c9>>
<1>1. DOMAIN checks = 1..9
  OBVIOUS
<1>2. /\ checks[1] = c1 /\ checks[2] = c2 /\ checks[3] = c3 /\ checks[4] = c4
      /\ checks[5] = c5 /\ checks[6] = c6 /\ checks[7] = c7 /\ checks[8] = c8
      /\ checks[9] = c9
  OBVIOUS
<1>3. \A i \in 1..9 : i = 1 \/ i = 2 \/ i = 3 \/ i = 4 \/ i = 5 \/ i = 6 \/ i = 7 \/ i = 8 \/ i = 9
  OBVIOUS
<1> HIDE DEF checks
<1>4. \A i \in 1..9 : Coded(checks[i])
  BY <1>2, <1>3
<1>5. (\A i \in 1..9 : ~checks[i].failed)
        <=> /\ ~c1.failed /\ ~c2.failed /\ ~c3.failed /\ ~c4.failed /\ ~c5.failed
            /\ ~c6.failed /\ ~c7.failed /\ ~c8.failed /\ ~c9.failed
  BY <1>2, <1>3
<1>6. Documents!Refusal(checks) = "NONE" <=> \A i \in 1..9 : ~checks[i].failed
  BY <1>1, <1>4, RefusalIs
<1> QED
  BY <1>5, <1>6 DEF checks

\* A check fails when its condition holds, and then has something to say.
LEMMA CheckIs ==
    ASSUME NEW P, NEW code, code # "NONE"
    PROVE  Documents!Check(P, code).failed = P /\ Coded(Documents!Check(P, code))
<1> QED
  BY DEF Documents!Check, Coded

\* Checks that another function makes fail as one.
LEMMA GroupIs ==
    ASSUME NEW refusal
    PROVE  /\ Coded(Documents!Group(refusal))
           /\ ~Documents!Group(refusal).failed <=> refusal = "NONE"
<1> QED
  BY DEF Documents!Group, Documents!Check, Coded

\* The refusals of the lines: by the checks of creation, of the XML and of the projection.
LinesPass(these) == Documents!EachLine(these, Documents!LineChecks)
XmlOfLines(these) == Documents!EachLine(these, Documents!LineXmlChecks)
ViewOfLines(these) == Documents!EachLine(these, Documents!LineRefusal)

\* A discount that says what it is.
Described(l) ==
    /\ Documents!Given(l.discountCode) /\ Documents!Given(l.nature)
    /\ l.discountCode \in Documents!DiscountCodes /\ Documents!Said(l.nature)
    /\ l.discountCode = "99" => Documents!Said(l.other)
    /\ l.discountCode # "99" => ~Documents!Given(l.other)

\* A tax that says what it is.
Rated(l) ==
    Documents!Given(l.taxCode) /\ Documents!Given(l.rateCode) /\ l.rate # Documents!Absent

\* What validateSalePaymentTerms lets through.
LEMMA TermsPass ==
    ASSUME NEW h
    PROVE  Documents!SalePaymentTerms(h) = "NONE"
             <=> IF h.sale = "02" THEN h.term # -1 /\ h.method = "absent"
                 ELSE h.term = -1 /\ h.method = "01"
<1>1. CASE h.sale = "02"
  <2> DEFINE c1 == Documents!Check(h.term = Documents!Absent, "FISCAL_CREDIT_TERM_REQUIRED")
             c2 == Documents!Check(Documents!Given(h.method),
                                   "CREDIT_PAYMENT_METHOD_NOT_ALLOWED")
  <2>1. Coded(c1) /\ Coded(c2)
    BY CheckIs, GroupIs
  <2>2. /\ (~c1.failed <=> ~(h.term = Documents!Absent))
        /\ (~c2.failed <=> ~(Documents!Given(h.method)))
    BY DEF Documents!Check, Documents!Group
  <2>3. Documents!SalePaymentTerms(h) = Documents!Refusal(<<c1, c2>>)
    BY <1>1 DEF Documents!SalePaymentTerms
  <2> HIDE DEF c1, c2
  <2>4. Documents!SalePaymentTerms(h) = "NONE"
         <=> ~c1.failed /\ ~c2.failed
    BY <2>1, <2>3, RefusalOfTwo
  <2> QED
    BY <2>2, <2>4, <1>1 DEF Documents!Given, Documents!Absent
<1>2. CASE h.sale # "02"
  <2> DEFINE c1 == Documents!Check(h.term # Documents!Absent,
                                   "FISCAL_CREDIT_TERM_NOT_ALLOWED")
             c2 == Documents!Check(~Documents!Given(h.method), "PAYMENT_METHOD_REQUIRED")
             c3 == Documents!Check(h.method \notin Documents!AllowedPaymentMethods,
                                   "INVALID_PAYMENT_METHOD")
             c4 == Documents!Check(h.method = "99", "UNSUPPORTED_FISCAL_PAYMENT_METHOD")
  <2>1. Coded(c1) /\ Coded(c2) /\ Coded(c3) /\ Coded(c4)
    BY CheckIs, GroupIs
  <2>2. /\ (~c1.failed <=> ~(h.term # Documents!Absent))
        /\ (~c2.failed <=> ~(~Documents!Given(h.method)))
        /\ (~c3.failed <=> ~(h.method \notin Documents!AllowedPaymentMethods))
        /\ (~c4.failed <=> ~(h.method = "99"))
    BY DEF Documents!Check, Documents!Group
  <2>3. Documents!SalePaymentTerms(h) = Documents!Refusal(<<c1, c2, c3, c4>>)
    BY <1>2 DEF Documents!SalePaymentTerms
  <2> HIDE DEF c1, c2, c3, c4
  <2>4. Documents!SalePaymentTerms(h) = "NONE"
         <=> ~c1.failed /\ ~c2.failed /\ ~c3.failed /\ ~c4.failed
    BY <2>1, <2>3, RefusalOfFour
  <2> QED
    BY <2>2, <2>4, <1>2 DEF Documents!Given, Documents!Absent, Documents!AllowedPaymentMethods
<1> QED
  BY <1>1, <1>2

\* What validateReceiver lets through.
LEMMA ReceiverPasses ==
    ASSUME NEW type, NEW r
    PROVE  Documents!ReceiverChecks(type, r) = "NONE"
             => IF r.present THEN r.name = "text" /\ r.idType = "FISICA" /\ r.idNumber = "digits"
                ELSE type # "INVOICE"
<1>1. CASE ~r.present
  <2> DEFINE c1 == Documents!Check(type = "INVOICE", "INVOICE_RECEIVER_REQUIRED")
  <2>1. Coded(c1)
    BY CheckIs, GroupIs
  <2>2. (~c1.failed <=> ~(type = "INVOICE"))
    BY DEF Documents!Check, Documents!Group
  <2>3. Documents!ReceiverChecks(type, r) = Documents!Refusal(<<c1>>)
    BY <1>1 DEF Documents!ReceiverChecks
  <2> HIDE DEF c1
  <2>4. Documents!ReceiverChecks(type, r) = "NONE"
         <=> ~c1.failed
    BY <2>1, <2>3, RefusalOfOne
  <2> QED
    BY <2>2, <2>4, <1>1
<1>2. CASE r.present
  <2> DEFINE c1 == Documents!Check(~Documents!Said(r.name),
                                   "RECEIVER_IDENTIFICATION_REQUIRED")
             c2 == Documents!Check(r.idType \notin Documents!IdentificationTypes,
                                   "INVALID_RECEIVER_IDENTIFICATION_TYPE")
             c3 == Documents!Check(r.idNumber # "digits",
                                   "INVALID_RECEIVER_IDENTIFICATION_NUMBER")
             c4 == Documents!Check(type = "INVOICE" /\ ~r.email,
                                   "INVOICE_RECEIVER_EMAIL_REQUIRED")
  <2>1. Coded(c1) /\ Coded(c2) /\ Coded(c3) /\ Coded(c4)
    BY CheckIs, GroupIs
  <2>2. /\ (~c1.failed <=> ~(~Documents!Said(r.name)))
        /\ (~c2.failed <=> ~(r.idType \notin Documents!IdentificationTypes))
        /\ (~c3.failed <=> ~(r.idNumber # "digits"))
        /\ (~c4.failed <=> ~(type = "INVOICE" /\ ~r.email))
    BY DEF Documents!Check, Documents!Group
  <2>3. Documents!ReceiverChecks(type, r) = Documents!Refusal(<<c1, c2, c3, c4>>)
    BY <1>2 DEF Documents!ReceiverChecks
  <2> HIDE DEF c1, c2, c3, c4
  <2>4. Documents!ReceiverChecks(type, r) = "NONE"
         <=> ~c1.failed /\ ~c2.failed /\ ~c3.failed /\ ~c4.failed
    BY <2>1, <2>3, RefusalOfFour
  <2> QED
    BY <2>2, <2>4, <1>2 DEF Documents!Said, Documents!IdentificationTypes
<1> QED
  BY <1>1, <1>2

\* What validateLineDiscount lets through.
LEMMA DiscountPasses ==
    ASSUME NEW l
    PROVE  Documents!LineDiscount(l) = "NONE"
             <=> IF Documents!OrZero(l.discount) = 0
                 THEN /\ ~Documents!Given(l.discountCode) /\ ~Documents!Given(l.nature)
                      /\ ~Documents!Given(l.other)
                 ELSE Documents!DiscountFits(l) /\ Described(l)
<1>1. CASE Documents!OrZero(l.discount) = 0
  <2> DEFINE c1 == Documents!Check(Documents!Given(l.discountCode) \/ Documents!Given(l.nature)
                                     \/ Documents!Given(l.other),
                                   "FISCAL_DISCOUNT_METADATA_WITHOUT_AMOUNT")
  <2>1. Coded(c1)
    BY CheckIs, GroupIs
  <2>2. (~c1.failed
           <=> ~(Documents!Given(l.discountCode) \/ Documents!Given(l.nature)
                 \/ Documents!Given(l.other)))
    BY DEF Documents!Check, Documents!Group
  <2>3. Documents!LineDiscount(l) = Documents!Refusal(<<c1>>)
    BY <1>1 DEF Documents!LineDiscount
  <2> HIDE DEF c1
  <2>4. Documents!LineDiscount(l) = "NONE"
         <=> ~c1.failed
    BY <2>1, <2>3, RefusalOfOne
  <2> QED
    BY <2>2, <2>4, <1>1
<1>2. CASE Documents!OrZero(l.discount) # 0
  <2> DEFINE c1 == Documents!Check(~Documents!DiscountFits(l),
                                   "INVALID_FISCAL_DISCOUNT_AMOUNT")
             c2 == Documents!Check(~Documents!Given(l.discountCode)
                                     \/ ~Documents!Given(l.nature),
                                   "FISCAL_DISCOUNT_METADATA_REQUIRED")
             c3 == Documents!Check(l.discountCode \notin Documents!DiscountCodes,
                                   "INVALID_FISCAL_DISCOUNT_CODE")
             c4 == Documents!Check(~Documents!Said(l.nature),
                                   "INVALID_FISCAL_DISCOUNT_NATURE")
             c5 == Documents!Check(l.discountCode = "99" /\ ~Documents!Said(l.other),
                                   "FISCAL_DISCOUNT_OTHER_REQUIRED")
             c6 == Documents!Check(l.discountCode # "99" /\ Documents!Given(l.other),
                                   "FISCAL_DISCOUNT_OTHER_NOT_ALLOWED")
  <2>1. Coded(c1) /\ Coded(c2) /\ Coded(c3) /\ Coded(c4) /\ Coded(c5) /\ Coded(c6)
    BY CheckIs, GroupIs
  <2>2. /\ (~c1.failed <=> ~(~Documents!DiscountFits(l)))
        /\ (~c2.failed
              <=> ~(~Documents!Given(l.discountCode) \/ ~Documents!Given(l.nature)))
        /\ (~c3.failed <=> ~(l.discountCode \notin Documents!DiscountCodes))
        /\ (~c4.failed <=> ~(~Documents!Said(l.nature)))
        /\ (~c5.failed <=> ~(l.discountCode = "99" /\ ~Documents!Said(l.other)))
        /\ (~c6.failed <=> ~(l.discountCode # "99" /\ Documents!Given(l.other)))
    BY DEF Documents!Check, Documents!Group
  <2>3. Documents!LineDiscount(l) = Documents!Refusal(<<c1, c2, c3, c4, c5, c6>>)
    BY <1>2 DEF Documents!LineDiscount
  <2> HIDE DEF c1, c2, c3, c4, c5, c6
  <2>4. Documents!LineDiscount(l) = "NONE"
         <=> /\ ~c1.failed /\ ~c2.failed /\ ~c3.failed /\ ~c4.failed /\ ~c5.failed
             /\ ~c6.failed
    BY <2>1, <2>3, RefusalOfSix
  <2> QED
    BY <2>2, <2>4, <1>2 DEF Described
<1> QED
  BY <1>1, <1>2

\* What the checks of a line let through.
LEMMA LinePasses ==
    ASSUME NEW l
    PROVE  Documents!LineChecks(l) = "NONE"
             <=> /\ l.unit \in Documents!Units
                 /\ Documents!OrZero(l.tax) # 0 => Rated(l)
                 /\ Documents!LineDiscount(l) = "NONE"
<1> DEFINE c1 == Documents!Check(l.unit \notin Documents!Units,
                                 "UNSUPPORTED_FISCAL_UNIT_MEASURE")
           c2 == Documents!Check(Documents!OrZero(l.tax) # 0
                                   /\ (~Documents!Given(l.taxCode) \/ ~Documents!Given(l.rateCode)
                                        \/ l.rate = Documents!Absent),
                                 "FISCAL_TAX_METADATA_REQUIRED")
           c3 == Documents!Group(Documents!LineDiscount(l))
<1>1. Coded(c1) /\ Coded(c2) /\ Coded(c3)
  BY CheckIs, GroupIs
<1>2. /\ (~c1.failed <=> ~(l.unit \notin Documents!Units))
      /\ (~c2.failed
            <=> ~(Documents!OrZero(l.tax) # 0
                  /\ (~Documents!Given(l.taxCode) \/ ~Documents!Given(l.rateCode)
                       \/ l.rate = Documents!Absent)))
      /\ (~c3.failed <=> Documents!LineDiscount(l) = "NONE")
  BY DEF Documents!Check, Documents!Group
<1>3. Documents!LineChecks(l) = Documents!Refusal(<<c1, c2, c3>>)
  BY DEF Documents!LineChecks
<1> HIDE DEF c1, c2, c3
<1>4. Documents!LineChecks(l) = "NONE"
       <=> ~c1.failed /\ ~c2.failed /\ ~c3.failed
  BY <1>1, <1>3, RefusalOfThree
<1> QED
  BY <1>2, <1>4 DEF Rated

\* What a command that is accepted has passed.
LEMMA CommandPasses ==
    ASSUME NEW c, Documents!CommandRefusal(c) = "NONE"
    PROVE  /\ c.header.sale \in {"01", "02"}
           /\ Documents!SalePaymentTerms(c.header) = "NONE"
           /\ Documents!ReceiverChecks(c.header.type, c.receiver) = "NONE"
           /\ c.lines # <<>>
           /\ LinesPass(c.lines) = "NONE"
<1> DEFINE c1 == Documents!Check(c.header.sale \notin Documents!AllowedSaleConditions,
                                 "INVALID_SALE_CONDITION")
           c2 == Documents!Check(c.header.sale = "09", "UNSUPPORTED_FISCAL_SALE_CONDITION")
           c3 == Documents!Group(Documents!SalePaymentTerms(c.header))
           c4 == Documents!Check(c.header.currency # "CRC"
                                   /\ c.header.rate.units = Documents!Absent,
                                 "EXCHANGE_RATE_REQUIRED")
           c5 == Documents!Group(Documents!ReceiverChecks(c.header.type, c.receiver))
           c6 == Documents!Group(Documents!PayloadEvidence(c))
           c7 == Documents!Check(c.lines = <<>>, "FISCAL_DOCUMENT_LINES_REQUIRED")
           c8 == Documents!Group(LinesPass(c.lines))
<1>1. /\ Coded(c1) /\ Coded(c2) /\ Coded(c3) /\ Coded(c4) /\ Coded(c5) /\ Coded(c6)
      /\ Coded(c7) /\ Coded(c8)
  BY CheckIs, GroupIs
<1>2. /\ (~c1.failed <=> ~(c.header.sale \notin Documents!AllowedSaleConditions))
      /\ (~c2.failed <=> ~(c.header.sale = "09"))
      /\ (~c3.failed <=> Documents!SalePaymentTerms(c.header) = "NONE")
      /\ (~c4.failed
            <=> ~(c.header.currency # "CRC" /\ c.header.rate.units = Documents!Absent))
      /\ (~c5.failed <=> Documents!ReceiverChecks(c.header.type, c.receiver) = "NONE")
      /\ (~c6.failed <=> Documents!PayloadEvidence(c) = "NONE")
      /\ (~c7.failed <=> ~(c.lines = <<>>))
      /\ (~c8.failed <=> LinesPass(c.lines) = "NONE")
  BY DEF Documents!Check, Documents!Group
<1>3. Documents!CommandRefusal(c) = Documents!Refusal(<<c1, c2, c3, c4, c5, c6, c7, c8>>)
  BY DEF Documents!CommandRefusal, LinesPass
<1> HIDE DEF c1, c2, c3, c4, c5, c6, c7, c8
<1>4. Documents!CommandRefusal(c) = "NONE"
       <=> /\ ~c1.failed /\ ~c2.failed /\ ~c3.failed /\ ~c4.failed /\ ~c5.failed
           /\ ~c6.failed /\ ~c7.failed /\ ~c8.failed
  BY <1>1, <1>3, RefusalOfEight
<1> QED
  BY <1>2, <1>4 DEF Documents!AllowedSaleConditions

\* A discount the serializer writes.
LEMMA DiscountIsWritten ==
    ASSUME NEW l
    PROVE  Documents!DiscountXmlChecks(l) = "NONE"
             <=> (Documents!AppendDiscount(l).present
                    => ~(Documents!Net(l) < 0) /\ Described(l))
<1>1. CASE ~Documents!AppendDiscount(l).present
  BY <1>1 DEF Documents!DiscountXmlChecks
<1>2. CASE Documents!AppendDiscount(l).present
  <2> DEFINE c1 == Documents!Check(Documents!Net(l) < 0,
                                   "FISCAL_XML_INVALID_DISCOUNT_AMOUNT")
             c2 == Documents!Check(~Documents!Given(l.discountCode)
                                     \/ ~Documents!Given(l.nature),
                                   "FISCAL_XML_DISCOUNT_METADATA_REQUIRED")
             c3 == Documents!Check(l.discountCode \notin Documents!DiscountCodes,
                                   "FISCAL_XML_INVALID_DISCOUNT_CODE")
             c4 == Documents!Check(~Documents!Said(l.nature),
                                   "FISCAL_XML_INVALID_DISCOUNT_NATURE")
             c5 == Documents!Check(l.discountCode = "99" /\ ~Documents!Said(l.other),
                                   "FISCAL_XML_DISCOUNT_OTHER_REQUIRED")
             c6 == Documents!Check(l.discountCode # "99" /\ Documents!Given(l.other),
                                   "FISCAL_XML_DISCOUNT_OTHER_NOT_ALLOWED")
  <2>1. Coded(c1) /\ Coded(c2) /\ Coded(c3) /\ Coded(c4) /\ Coded(c5) /\ Coded(c6)
    BY CheckIs, GroupIs
  <2>2. /\ (~c1.failed <=> ~(Documents!Net(l) < 0))
        /\ (~c2.failed
              <=> ~(~Documents!Given(l.discountCode) \/ ~Documents!Given(l.nature)))
        /\ (~c3.failed <=> ~(l.discountCode \notin Documents!DiscountCodes))
        /\ (~c4.failed <=> ~(~Documents!Said(l.nature)))
        /\ (~c5.failed <=> ~(l.discountCode = "99" /\ ~Documents!Said(l.other)))
        /\ (~c6.failed <=> ~(l.discountCode # "99" /\ Documents!Given(l.other)))
    BY DEF Documents!Check, Documents!Group
  <2>3. Documents!DiscountXmlChecks(l) = Documents!Refusal(<<c1, c2, c3, c4, c5, c6>>)
    BY <1>2 DEF Documents!DiscountXmlChecks
  <2> HIDE DEF c1, c2, c3, c4, c5, c6
  <2>4. Documents!DiscountXmlChecks(l) = "NONE"
         <=> /\ ~c1.failed /\ ~c2.failed /\ ~c3.failed /\ ~c4.failed /\ ~c5.failed
             /\ ~c6.failed
    BY <2>1, <2>3, RefusalOfSix
  <2> QED
    BY <2>2, <2>4, <1>2 DEF Described
<1> QED
  BY <1>1, <1>2

\* A tax the serializer writes.
LEMMA TaxIsWritten ==
    ASSUME NEW l
    PROVE  Documents!TaxXmlChecks(l) = "NONE"
             <=> (Documents!Taxed(l)
                    => /\ Documents!Given(l.taxCode) /\ l.taxCode \in {"01", "07"}
                       /\ Documents!Given(l.rateCode) /\ l.rate # Documents!Absent)
<1>1. CASE ~Documents!Taxed(l)
  BY <1>1 DEF Documents!TaxXmlChecks
<1>2. CASE Documents!Taxed(l)
  <2> DEFINE c1 == Documents!Check(~Documents!Given(l.taxCode),
                                   "FISCAL_XML_TAX_METADATA_REQUIRED")
             c2 == Documents!Check(l.taxCode \notin Documents!SupportedTaxCodes,
                                   "FISCAL_XML_UNSUPPORTED_TAX_CODE")
             c3 == Documents!Check(l.taxCode \in Documents!IvaTaxCodes
                                     /\ (~Documents!Given(l.rateCode)
                                          \/ l.rate = Documents!Absent),
                                   "FISCAL_XML_IVA_RATE_CODE_REQUIRED")
  <2>1. Coded(c1) /\ Coded(c2) /\ Coded(c3)
    BY CheckIs, GroupIs
  <2>2. /\ (~c1.failed <=> ~(~Documents!Given(l.taxCode)))
        /\ (~c2.failed <=> ~(l.taxCode \notin Documents!SupportedTaxCodes))
        /\ (~c3.failed
              <=> ~(l.taxCode \in Documents!IvaTaxCodes
                    /\ (~Documents!Given(l.rateCode) \/ l.rate = Documents!Absent)))
    BY DEF Documents!Check, Documents!Group
  <2>3. Documents!TaxXmlChecks(l) = Documents!Refusal(<<c1, c2, c3>>)
    BY <1>2 DEF Documents!TaxXmlChecks
  <2> HIDE DEF c1, c2, c3
  <2>4. Documents!TaxXmlChecks(l) = "NONE"
         <=> ~c1.failed /\ ~c2.failed /\ ~c3.failed
    BY <2>1, <2>3, RefusalOfThree
  <2> QED
    BY <2>2, <2>4, <1>2 DEF Documents!SupportedTaxCodes, Documents!IvaTaxCodes
<1> QED
  BY <1>1, <1>2

\* A line the serializer writes.
LEMMA LineIsWritten ==
    ASSUME NEW l
    PROVE  Documents!LineXmlChecks(l) = "NONE"
             <=> /\ l.unit \in Documents!Units
                 /\ Documents!DiscountXmlChecks(l) = "NONE"
                 /\ Documents!TaxXmlChecks(l) = "NONE"
<1> DEFINE c1 == Documents!Check(l.unit \notin Documents!Units,
                                 "FISCAL_XML_UNSUPPORTED_CATALOG")
           c2 == Documents!Group(Documents!DiscountXmlChecks(l))
           c3 == Documents!Group(Documents!TaxXmlChecks(l))
<1>1. Coded(c1) /\ Coded(c2) /\ Coded(c3)
  BY CheckIs, GroupIs
<1>2. /\ (~c1.failed <=> ~(l.unit \notin Documents!Units))
      /\ (~c2.failed <=> Documents!DiscountXmlChecks(l) = "NONE")
      /\ (~c3.failed <=> Documents!TaxXmlChecks(l) = "NONE")
  BY DEF Documents!Check, Documents!Group
<1>3. Documents!LineXmlChecks(l) = Documents!Refusal(<<c1, c2, c3>>)
  BY DEF Documents!LineXmlChecks
<1> HIDE DEF c1, c2, c3
<1>4. Documents!LineXmlChecks(l) = "NONE"
       <=> ~c1.failed /\ ~c2.failed /\ ~c3.failed
  BY <1>1, <1>3, RefusalOfThree
<1> QED
  BY <1>2, <1>4

\* A document the serializer writes.
LEMMA DocumentIsWritten ==
    ASSUME NEW s
    PROVE  Documents!XmlRefusal(s) = "NONE"
             <=> /\ s.sale \in Documents!SupportedSaleConditions
                 /\ Documents!Given(s.method) => s.method \in Documents!SupportedPaymentMethods
                 /\ s.lines # <<>>
                 /\ Documents!RequirePartyChecks(s.receiver) = "NONE"
                 /\ Documents!ReceiverActivity(s.type, s.receiver) # "five"
                 /\ s.receiver.present => /\ s.receiver.idType \in Documents!IdentificationTypes
                                          /\ s.receiver.province => s.receiver.canton
                 /\ Documents!CreditTermChecks(s) = "NONE"
                 /\ XmlOfLines(s.lines) = "NONE"
<1> DEFINE c1 == Documents!Check(s.sale \notin Documents!SupportedSaleConditions,
                                 "FISCAL_XML_UNSUPPORTED_CATALOG")
           c2 == Documents!Check(Documents!Given(s.method)
                                   /\ s.method \notin Documents!SupportedPaymentMethods,
                                 "FISCAL_XML_UNSUPPORTED_CATALOG")
           c3 == Documents!Check(s.lines = <<>>, "FISCAL_XML_LINES_REQUIRED")
           c4 == Documents!Group(Documents!RequirePartyChecks(s.receiver))
           c5 == Documents!Check(Documents!ReceiverActivity(s.type, s.receiver) = "five",
                                 "FISCAL_XML_INVALID_RECEIVER_ACTIVITY")
           c6 == Documents!Check(s.receiver.present
                                   /\ s.receiver.idType \notin Documents!IdentificationTypes,
                                 "FISCAL_XML_UNSUPPORTED_CATALOG")
           c7 == Documents!Check(s.receiver.present /\ s.receiver.province
                                   /\ ~s.receiver.canton,
                                 "TypeError")
           c8 == Documents!Group(Documents!CreditTermChecks(s))
           c9 == Documents!Group(XmlOfLines(s.lines))
<1>1. /\ Coded(c1) /\ Coded(c2) /\ Coded(c3) /\ Coded(c4) /\ Coded(c5) /\ Coded(c6)
      /\ Coded(c7) /\ Coded(c8) /\ Coded(c9)
  BY CheckIs, GroupIs
<1>2. /\ (~c1.failed <=> ~(s.sale \notin Documents!SupportedSaleConditions))
      /\ (~c2.failed
            <=> ~(Documents!Given(s.method) /\ s.method \notin Documents!SupportedPaymentMethods))
      /\ (~c3.failed <=> ~(s.lines = <<>>))
      /\ (~c4.failed <=> Documents!RequirePartyChecks(s.receiver) = "NONE")
      /\ (~c5.failed <=> ~(Documents!ReceiverActivity(s.type, s.receiver) = "five"))
      /\ (~c6.failed
            <=> ~(s.receiver.present /\ s.receiver.idType \notin Documents!IdentificationTypes))
      /\ (~c7.failed <=> ~(s.receiver.present /\ s.receiver.province /\ ~s.receiver.canton))
      /\ (~c8.failed <=> Documents!CreditTermChecks(s) = "NONE")
      /\ (~c9.failed <=> XmlOfLines(s.lines) = "NONE")
  BY DEF Documents!Check, Documents!Group
<1>3. Documents!XmlRefusal(s) = Documents!Refusal(<<c1, c2, c3, c4, c5, c6, c7, c8, c9>>)
  BY DEF Documents!XmlRefusal, XmlOfLines
<1> HIDE DEF c1, c2, c3, c4, c5, c6, c7, c8, c9
<1>4. Documents!XmlRefusal(s) = "NONE"
       <=> /\ ~c1.failed /\ ~c2.failed /\ ~c3.failed /\ ~c4.failed /\ ~c5.failed
           /\ ~c6.failed /\ ~c7.failed /\ ~c8.failed /\ ~c9.failed
  BY <1>1, <1>3, RefusalOfNine
<1> QED
  BY <1>2, <1>4

\* A credit term the serializer writes.
LEMMA TermIsWritten ==
    ASSUME NEW s
    PROVE  Documents!CreditTermChecks(s) = "NONE"
             <=> (s.sale = "02" <=> s.term # Documents!Absent)
<1> DEFINE c1 == Documents!Check(s.sale = "02" /\ s.term = Documents!Absent,
                                 "FISCAL_XML_CREDIT_TERM_REQUIRED")
           c2 == Documents!Check(s.sale # "02" /\ s.term # Documents!Absent,
                                 "FISCAL_XML_CREDIT_TERM_NOT_ALLOWED")
<1>1. Coded(c1) /\ Coded(c2)
  BY CheckIs, GroupIs
<1>2. /\ (~c1.failed <=> ~(s.sale = "02" /\ s.term = Documents!Absent))
      /\ (~c2.failed <=> ~(s.sale # "02" /\ s.term # Documents!Absent))
  BY DEF Documents!Check, Documents!Group
<1>3. Documents!CreditTermChecks(s) = Documents!Refusal(<<c1, c2>>)
  BY DEF Documents!CreditTermChecks
<1> HIDE DEF c1, c2
<1>4. Documents!CreditTermChecks(s) = "NONE"
       <=> ~c1.failed /\ ~c2.failed
  BY <1>1, <1>3, RefusalOfTwo
<1> QED
  BY <1>2, <1>4

\* A receiver the serializer writes.
LEMMA PartyIsWritten ==
    ASSUME NEW r
    PROVE  Documents!RequirePartyChecks(r) = "NONE"
             <=> (r.present => r.name # "absent" /\ r.idNumber # "absent")
<1> DEFINE c1 == Documents!Check(r.present /\ (r.name = "absent" \/ r.idNumber = "absent"),
                                 "FISCAL_XML_PARTY_FIELD_REQUIRED")
<1>1. Coded(c1)
  BY CheckIs, GroupIs
<1>2. (~c1.failed <=> ~(r.present /\ (r.name = "absent" \/ r.idNumber = "absent")))
  BY DEF Documents!Check, Documents!Group
<1>3. Documents!RequirePartyChecks(r) = Documents!Refusal(<<c1>>)
  BY DEF Documents!RequirePartyChecks
<1> HIDE DEF c1
<1>4. Documents!RequirePartyChecks(r) = "NONE"
       <=> ~c1.failed
  BY <1>1, <1>3, RefusalOfOne
<1> QED
  BY <1>2, <1>4

\* A line the program may be given.
IsLine(l) ==
    /\ l.quantity \in Nat /\ l.unitPrice \in Nat
    /\ l.discount \in Nat \cup {-1} /\ l.tax \in Nat \cup {-1}
    /\ l.taxCode \in {"absent", "01", "02", "07"} /\ l.description \in {"text", "blank"}

AreLines(m, these) == DOMAIN these = 1..m /\ \A i \in 1..m : IsLine(these[i])

\* The amounts of a line are numbers, and follow from each other.
LEMMA AmountsAreInt ==
    ASSUME NEW l, IsLine(l)
    PROVE  /\ Documents!Gross(l) \in Nat /\ Documents!OrZero(l.discount) \in Nat
           /\ Documents!OrZero(l.tax) \in Nat /\ Documents!Net(l) \in Int
           /\ Documents!LineTotal(l) \in Int
           /\ Documents!Net(l) = Documents!Gross(l) - Documents!OrZero(l.discount)
           /\ Documents!LineTotal(l) = Documents!Net(l) + Documents!OrZero(l.tax)
<1>1. Documents!OrZero(l.discount) \in Nat /\ Documents!OrZero(l.tax) \in Nat
  BY DEF IsLine, Documents!OrZero, Documents!Absent
<1>2. Documents!Gross(l) \in Nat
  <2> DEFINE q == l.quantity
             p == l.unitPrice
             half == Factor \div 2
  <2>1. q \in Nat /\ p \in Nat /\ Factor \in Nat \ {0} /\ half \in Nat
    BY AmountConstants DEF IsLine
  <2>2. Documents!Gross(l) = (q * p + half) \div Factor
    BY DEF Documents!Gross, Documents!Multiply
  <2> HIDE DEF q, p, half
  <2> DEFINE product == q * p
  <2>3. product \in Nat
    BY <2>1
  <2> HIDE DEF product
  <2>4. (product + half) \div Factor \in Nat
    BY <2>1, <2>3
  <2> QED
    BY <2>2, <2>4 DEF product
<1> QED
  BY <1>1, <1>2 DEF Documents!Net, Documents!LineTotal

\* Lines pass creation when each of them does.
LEMMA LinesPassIs ==
    ASSUME NEW m \in Nat, NEW these, DOMAIN these = 1..m
    PROVE  LinesPass(these) = "NONE"
             <=> \A i \in 1..m : Documents!LineChecks(these[i]) = "NONE"
<1> DEFINE checks == [i \in DOMAIN these |-> Documents!Group(Documents!LineChecks(these[i]))]
<1>1. LinesPass(these) = Documents!Refusal(checks)
  BY DEF LinesPass, Documents!EachLine
<1>2. /\ DOMAIN checks = 1..m
      /\ \A i \in 1..m : /\ Coded(checks[i])
                         /\ ~checks[i].failed <=> Documents!LineChecks(these[i]) = "NONE"
  BY GroupIs
<1> HIDE DEF checks
<1> QED
  BY <1>1, <1>2, RefusalIs

\* Lines are written when each of them is.
LEMMA XmlOfLinesIs ==
    ASSUME NEW m \in Nat, NEW these, DOMAIN these = 1..m
    PROVE  XmlOfLines(these) = "NONE"
             <=> \A i \in 1..m : Documents!LineXmlChecks(these[i]) = "NONE"
<1> DEFINE checks == [i \in DOMAIN these |-> Documents!Group(Documents!LineXmlChecks(these[i]))]
<1>1. XmlOfLines(these) = Documents!Refusal(checks)
  BY DEF XmlOfLines, Documents!EachLine
<1>2. /\ DOMAIN checks = 1..m
      /\ \A i \in 1..m : /\ Coded(checks[i])
                         /\ ~checks[i].failed <=> Documents!LineXmlChecks(these[i]) = "NONE"
  BY GroupIs
<1> HIDE DEF checks
<1> QED
  BY <1>1, <1>2, RefusalIs

\* Lines are shown when each of them is.
LEMMA ViewOfLinesIs ==
    ASSUME NEW m \in Nat, NEW these, DOMAIN these = 1..m
    PROVE  ViewOfLines(these) = "NONE"
             <=> \A i \in 1..m : Documents!LineRefusal(these[i]) = "NONE"
<1> DEFINE checks == [i \in DOMAIN these |-> Documents!Group(Documents!LineRefusal(these[i]))]
<1>1. ViewOfLines(these) = Documents!Refusal(checks)
  BY DEF ViewOfLines, Documents!EachLine
<1>2. /\ DOMAIN checks = 1..m
      /\ \A i \in 1..m : /\ Coded(checks[i])
                         /\ ~checks[i].failed <=> Documents!LineRefusal(these[i]) = "NONE"
  BY GroupIs
<1> HIDE DEF checks
<1> QED
  BY <1>1, <1>2, RefusalIs

OfGross(these) == Documents!SumOf([i \in DOMAIN these |-> Documents!Gross(these[i])])
OfDiscounts(these) ==
    Documents!SumOf([i \in DOMAIN these |-> Documents!OrZero(these[i].discount)])
OfTaxes(these) == Documents!SumOf([i \in DOMAIN these |-> Documents!OrZero(these[i].tax)])
OfNet(these) == Documents!SumOf([i \in DOMAIN these |-> Documents!Net(these[i])])
OfTotals(these) == Documents!SumOf([i \in DOMAIN these |-> Documents!LineTotal(these[i])])

\* The totals of any number of lines add up.
LEMMA PartsAddUp ==
    ASSUME NEW m \in Nat, NEW these, AreLines(m, these)
    PROVE  /\ OfGross(these) \in Int /\ OfDiscounts(these) \in Int /\ OfTaxes(these) \in Int
           /\ OfNet(these) = OfGross(these) - OfDiscounts(these)
           /\ OfTotals(these) = (OfGross(these) - OfDiscounts(these)) + OfTaxes(these)
<1> DEFINE g == [i \in DOMAIN these |-> Documents!Gross(these[i])]
           d == [i \in DOMAIN these |-> Documents!OrZero(these[i].discount)]
           t == [i \in DOMAIN these |-> Documents!OrZero(these[i].tax)]
           n == [i \in DOMAIN these |-> Documents!Net(these[i])]
           a == [i \in DOMAIN these |-> Documents!LineTotal(these[i])]
<1>1. /\ g \in [1..m -> Int] /\ d \in [1..m -> Int] /\ t \in [1..m -> Int]
      /\ n \in [1..m -> Int] /\ a \in [1..m -> Int]
  BY AmountsAreInt DEF AreLines
<1>2. \A i \in 1..m : g[i] = n[i] + d[i] /\ a[i] = n[i] + t[i]
  <2> SUFFICES ASSUME NEW i \in 1..m PROVE g[i] = n[i] + d[i] /\ a[i] = n[i] + t[i]
    OBVIOUS
  <2>1. IsLine(these[i]) /\ i \in DOMAIN these
    BY DEF AreLines
  <2> QED
    BY <2>1, AmountsAreInt
<1> HIDE DEF g, d, t, n, a
<1>3. \A i \in 1..m : g[i] = n[i] + d[i]
  BY <1>2
<1>4. \A i \in 1..m : a[i] = n[i] + t[i]
  BY <1>2
<1>5. /\ Documents!SumOf(g) = Documents!SumOf(n) + Documents!SumOf(d)
      /\ Documents!SumOf(n) \in Int /\ Documents!SumOf(d) \in Int
  <2>1. g \in [1..m -> Int] /\ n \in [1..m -> Int] /\ d \in [1..m -> Int]
    BY <1>1
  <2> QED
    BY <1>3, <2>1, SumsAdd
<1>6. /\ Documents!SumOf(a) = Documents!SumOf(n) + Documents!SumOf(t)
      /\ Documents!SumOf(t) \in Int
  <2>1. a \in [1..m -> Int] /\ n \in [1..m -> Int] /\ t \in [1..m -> Int]
    BY <1>1
  <2> QED
    BY <1>4, <2>1, SumsAdd
<1>7. /\ OfGross(these) = Documents!SumOf(g) /\ OfDiscounts(these) = Documents!SumOf(d)
      /\ OfTaxes(these) = Documents!SumOf(t) /\ OfNet(these) = Documents!SumOf(n)
      /\ OfTotals(these) = Documents!SumOf(a)
  BY DEF OfGross, OfDiscounts, OfTaxes, OfNet, OfTotals, g, d, t, n, a
<1> QED
  BY <1>5, <1>6, <1>7

\* The summary of any number of lines is that of its four kinds of lines.
LEMMA SummaryIs ==
    ASSUME NEW m \in Nat, NEW these, AreLines(m, these)
    PROVE  LET s == Documents!ComputeSummary(these) IN
           /\ s.sale = OfGross(these) /\ s.discounts = OfDiscounts(these)
           /\ s.netSale = OfNet(these) /\ s.total = OfTotals(these)
<1> DEFINE taxed(i) == Documents!Taxed(these[i])
           service(i) == Documents!IsService(these[i])
           a1 == [i \in DOMAIN these |->
                    IF taxed(i) /\ service(i) THEN Documents!Gross(these[i]) ELSE 0]
           a2 == [i \in DOMAIN these |->
                    IF taxed(i) /\ ~service(i) THEN Documents!Gross(these[i]) ELSE 0]
           a3 == [i \in DOMAIN these |->
                    IF ~taxed(i) /\ service(i) THEN Documents!Gross(these[i]) ELSE 0]
           a4 == [i \in DOMAIN these |->
                    IF ~taxed(i) /\ ~service(i) THEN Documents!Gross(these[i]) ELSE 0]
           b1 == [i \in DOMAIN these |->
                    IF taxed(i) THEN Documents!Gross(these[i]) ELSE 0]
           b2 == [i \in DOMAIN these |->
                    IF ~taxed(i) THEN Documents!Gross(these[i]) ELSE 0]
           g == [i \in DOMAIN these |-> Documents!Gross(these[i])]
           s == Documents!ComputeSummary(these)
<1>1. /\ a1 \in [1..m -> Int] /\ a2 \in [1..m -> Int] /\ a3 \in [1..m -> Int]
      /\ a4 \in [1..m -> Int] /\ b1 \in [1..m -> Int] /\ b2 \in [1..m -> Int]
      /\ g \in [1..m -> Int]
  BY AmountsAreInt DEF AreLines
<1>2. \A i \in 1..m : b1[i] = a1[i] + a2[i] /\ b2[i] = a3[i] + a4[i] /\ g[i] = b1[i] + b2[i]
  <2> SUFFICES ASSUME NEW i \in 1..m
               PROVE  b1[i] = a1[i] + a2[i] /\ b2[i] = a3[i] + a4[i] /\ g[i] = b1[i] + b2[i]
    OBVIOUS
  <2>1. i \in DOMAIN these /\ Documents!Gross(these[i]) \in Nat
    BY AmountsAreInt DEF AreLines
  <2> HIDE DEF taxed, service
  <2> QED
    BY <2>1
<1>3. /\ s.sale = (Documents!SumOf(a1) + Documents!SumOf(a2))
                    + (Documents!SumOf(a3) + Documents!SumOf(a4))
      /\ s.netSale = (Documents!SumOf(a1) + Documents!SumOf(a2))
                       + ((Documents!SumOf(a3) + Documents!SumOf(a4)) - s.discounts)
  BY DEF Documents!ComputeSummary, Documents!GrossOf, Documents!Sum
<1>4. s.discounts = OfDiscounts(these) /\ s.total = s.netSale + s.tax
  BY DEF Documents!ComputeSummary, Documents!Sum, OfDiscounts
<1>5. s.tax = OfTaxes(these)
  BY DEF Documents!ComputeSummary, Documents!Sum, OfTaxes
<1>6. OfGross(these) = Documents!SumOf(g)
  BY DEF OfGross
<1> HIDE DEF a1, a2, a3, a4, b1, b2, g, s
<1>7. /\ Documents!SumOf(b1) = Documents!SumOf(a1) + Documents!SumOf(a2)
      /\ Documents!SumOf(a1) \in Int /\ Documents!SumOf(a2) \in Int
  <2>1. \A i \in 1..m : b1[i] = a1[i] + a2[i]
    BY <1>2
  <2>2. b1 \in [1..m -> Int] /\ a1 \in [1..m -> Int] /\ a2 \in [1..m -> Int]
    BY <1>1
  <2> QED
    BY <2>1, <2>2, SumsAdd
<1>8. /\ Documents!SumOf(b2) = Documents!SumOf(a3) + Documents!SumOf(a4)
      /\ Documents!SumOf(a3) \in Int /\ Documents!SumOf(a4) \in Int
  <2>1. \A i \in 1..m : b2[i] = a3[i] + a4[i]
    BY <1>2
  <2>2. b2 \in [1..m -> Int] /\ a3 \in [1..m -> Int] /\ a4 \in [1..m -> Int]
    BY <1>1
  <2> QED
    BY <2>1, <2>2, SumsAdd
<1>9. Documents!SumOf(g) = Documents!SumOf(b1) + Documents!SumOf(b2)
  <2>1. \A i \in 1..m : g[i] = b1[i] + b2[i]
    BY <1>2
  <2>2. g \in [1..m -> Int] /\ b1 \in [1..m -> Int] /\ b2 \in [1..m -> Int]
    BY <1>1
  <2> QED
    BY <2>1, <2>2, SumsAdd
<1>10. s.sale = OfGross(these)
  BY <1>3, <1>6, <1>7, <1>8, <1>9
<1>11. s.netSale = s.sale - s.discounts
  BY <1>3, <1>7, <1>8, <1>4, PartsAddUp
<1> QED
  BY <1>10, <1>4, <1>5, <1>11, PartsAddUp DEF s

IsCommand(c) == \E m \in Nat : AreLines(m, c.lines)

\* The shares of the factor the commands are made of are numbers.
LEMMA SharesAre ==
    /\ Factor \in Nat /\ Factor \div 2 \in Nat /\ Factor \div 8 \in Nat
    /\ Factor \div 10 \in Nat /\ 2 * Factor \in Nat
<1> QED
  BY AmountConstants

\* The lines the commands are made of are lines: the ordinary one first.
LEMMA OrdinaryLineIs == IsLine(Documents!OrdinaryLine)
<1> QED
  BY SharesAre DEF IsLine, Documents!OrdinaryLine, Documents!Absent

\* The lines of every quantity, price, discount and tax.
LEMMA LinesAre == \A l \in Documents!Lines : IsLine(l)
<1> SUFFICES ASSUME NEW l \in Documents!Lines PROVE IsLine(l)
  OBVIOUS
<1>1. \E g, a, d, t :
        /\ a \in [quantity : Quantities, unitPrice : Prices, discount : SomeDiscounts,
                  tax : SomeTaxes]
        /\ g.text \in {"text", "blank"} /\ t.code \in {"absent", "01"}
        /\ l.quantity = a.quantity /\ l.unitPrice = a.unitPrice /\ l.discount = a.discount
        /\ l.tax = a.tax /\ l.taxCode = t.code /\ l.description = g.text
  BY DEF Documents!Lines
<1>2. SomeDiscounts \subseteq Nat \cup {-1} /\ SomeTaxes \subseteq Nat \cup {-1}
  BY SharesAre DEF SomeDiscounts, SomeTaxes
<1> QED
  BY <1>1, <1>2, AmountConstants DEF IsLine

\* The lines with every description of a discount or a tax.
LEMMA DescribedLinesAre == \A l \in Documents!DescribedLines : IsLine(l)
<1> SUFFICES ASSUME NEW l \in Documents!DescribedLines PROVE IsLine(l)
  OBVIOUS
<1> DEFINE ordinary == Documents!OrdinaryLine
<1>1. DOMAIN ordinary = {"cabys", "unit", "description", "quantity", "unitPrice", "discount",
                         "discountCode", "nature", "other", "tax", "taxCode", "rateCode",
                         "rate"}
  BY DEF Documents!OrdinaryLine
<1>2. IsLine(ordinary)
  BY OrdinaryLineIs
<1> DEFINE discounted ==
             {[ordinary EXCEPT !.discount = amount, !.discountCode = code, !.nature = nature,
                               !.other = other] :
                amount \in {-1, 0, Factor \div 2, 2 * Factor},
                code \in {"absent", "07", "10", "99"},
                nature \in {"absent", "blank", "text"}, other \in {"absent", "blank", "text"}}
           taxed ==
             {[ordinary EXCEPT !.tax = amount, !.taxCode = code, !.rateCode = rateCode,
                               !.rate = rate] :
                amount \in {-1, 0, Factor \div 10}, code \in {"absent", "01", "02", "07"},
                rateCode \in {"absent", "08"}, rate \in {-1, 13 * Factor}}
<1>3. l \in discounted \/ l \in taxed
  <2>1. Documents!DescribedLines = discounted \cup taxed
    BY DEF Documents!DescribedLines, Documents!Absent
  <2> HIDE DEF discounted, taxed
  <2> QED
    BY <2>1
<1> HIDE DEF ordinary
<1>4. CASE l \in discounted
  <2>1. PICK amount \in {-1, 0, Factor \div 2, 2 * Factor},
             code \in {"absent", "07", "10", "99"},
             nature \in {"absent", "blank", "text"}, other \in {"absent", "blank", "text"} :
           l = [ordinary EXCEPT !.discount = amount, !.discountCode = code,
                                !.nature = nature, !.other = other]
    BY <1>4
  <2> QED
    BY <1>1, <1>2, <2>1, SharesAre DEF IsLine
<1>5. CASE l \in taxed
  <2>1. PICK amount \in {-1, 0, Factor \div 10}, code \in {"absent", "01", "02", "07"},
             rateCode \in {"absent", "08"}, rate \in {-1, 13 * Factor} :
           l = [ordinary EXCEPT !.tax = amount, !.taxCode = code, !.rateCode = rateCode,
                                !.rate = rate]
    BY <1>5
  <2> QED
    BY <1>1, <1>2, <2>1, SharesAre DEF IsLine
<1> QED
  BY <1>3, <1>4, <1>5

\* The lines that are sold two at a time.
LEMMA SoldLinesAre == \A l \in Documents!SoldLines : IsLine(l)
<1> SUFFICES ASSUME NEW l \in Documents!SoldLines PROVE IsLine(l)
  OBVIOUS
<1> DEFINE ordinary == Documents!OrdinaryLine
<1>1. DOMAIN ordinary = {"cabys", "unit", "description", "quantity", "unitPrice", "discount",
                         "discountCode", "nature", "other", "tax", "taxCode", "rateCode",
                         "rate"}
  BY DEF Documents!OrdinaryLine
<1>2. IsLine(ordinary)
  BY OrdinaryLineIs
<1>3. PICK cabys \in {"goods", "service"}, quantity \in Quantities,
           d \in Documents!SoldDiscounts, t \in Documents!SoldTaxes :
         l = Documents!SoldLine(cabys, quantity, d, t)
  BY DEF Documents!SoldLines
<1>4. l = [ordinary EXCEPT !.cabys = cabys, !.quantity = quantity, !.discount = d.amount,
                          !.discountCode = d.code, !.nature = d.nature, !.tax = t.amount,
                          !.taxCode = t.code, !.rateCode = "08", !.rate = 13 * Factor]
  BY <1>3 DEF Documents!SoldLine
<1>5. d.amount \in {-1, Factor \div 2}
  BY DEF Documents!SoldDiscounts, Documents!Absent
<1>6. t.amount \in {0, Factor \div 10} /\ t.code \in {"01", "07"}
  BY DEF Documents!SoldTaxes
<1> HIDE DEF ordinary
<1> QED
  BY <1>1, <1>2, <1>5, <1>6, <1>4, SharesAre, AmountConstants DEF IsLine

\* One line, or two, are lines.
LEMMA OneLineIs ==
    ASSUME NEW l, IsLine(l)
    PROVE  AreLines(1, <<l>>)
<1> QED
  BY DEF AreLines

LEMMA TwoLinesAre ==
    ASSUME NEW l, NEW k, IsLine(l), IsLine(k)
    PROVE  AreLines(2, <<l, k>>)
<1> QED
  BY DEF AreLines

\* The ordinary command is one.
LEMMA OrdinaryCommandIs == IsCommand(Documents!OrdinaryCommand)
<1>1. Documents!OrdinaryCommand.lines = <<Documents!OrdinaryLine>>
  BY DEF Documents!OrdinaryCommand
<1> QED
  BY <1>1, OneLineIs, OrdinaryLineIs DEF IsCommand

\* Every command a behaviour starts with is one.
LEMMA CommandsAre == \A c \in Documents!Commands : IsCommand(c)
<1> DEFINE ordinary == Documents!OrdinaryCommand
<1>1. /\ DOMAIN ordinary = {"header", "receiver", "lines", "evidence"}
      /\ DOMAIN ordinary.header = {"type", "currency", "rate", "sale", "term", "method"}
  BY DEF Documents!OrdinaryCommand, Documents!OrdinaryHeader
<1> SUFFICES ASSUME NEW c \in Documents!Commands PROVE IsCommand(c)
  OBVIOUS
<1> HIDE DEF ordinary
<1> DEFINE ones == {<<>>} \cup {<<l>> : l \in Documents!Lines \cup Documents!DescribedLines}
<1>2. CASE c \in Documents!ByHeader
  <2>1. c.lines = ordinary.lines
    BY <1>1, <1>2 DEF Documents!ByHeader, ordinary
  <2> QED
    BY <2>1, OrdinaryCommandIs DEF IsCommand, ordinary
<1>3. CASE c \in Documents!ByReceiver
  <2>1. PICK receiver \in Documents!Receivers \cup {Documents!NoReceiver},
             type \in {"INVOICE", "TICKET"} :
           c = Documents!SentTo(receiver, type)
    BY <1>3 DEF Documents!ByReceiver
  <2>2. c.lines = ordinary.lines
    BY <1>1, <2>1 DEF Documents!SentTo, ordinary
  <2> QED
    BY <2>2, OrdinaryCommandIs DEF IsCommand, ordinary
<1>4. CASE c \in Documents!ByEvidence
  <2>1. c.lines = ordinary.lines
    BY <1>1, <1>4 DEF Documents!ByEvidence, ordinary
  <2> QED
    BY <2>1, OrdinaryCommandIs DEF IsCommand, ordinary
<1>5. CASE c \in Documents!ByLine
  <2>1. c.lines \in ones
    <3>1. Documents!ByLine = {[ordinary EXCEPT !.lines = these] : these \in ones}
      BY DEF Documents!ByLine, ordinary
    <3> HIDE DEF ones
    <3> QED
      BY <1>1, <1>5, <3>1
  <2>2. c.lines = <<>>
          \/ \E l \in Documents!Lines \cup Documents!DescribedLines : c.lines = <<l>>
    BY <2>1
  <2>3. AreLines(0, <<>>)
    BY DEF AreLines
  <2> QED
    BY <2>2, <2>3, OneLineIs, LinesAre, DescribedLinesAre DEF IsCommand
<1>6. CASE c \in Documents!ByTwoLines
  <2>1. PICK first \in Documents!SoldLines, second \in Documents!SoldLines :
           c = [ordinary EXCEPT !.lines = <<first, second>>]
    BY <1>6 DEF Documents!ByTwoLines, ordinary
  <2>2. c.lines = <<first, second>>
    BY <1>1, <2>1
  <2> QED
    BY <2>2, TwoLinesAre, SoldLinesAre DEF IsCommand
<1> QED
  BY <1>2, <1>3, <1>4, <1>5, <1>6 DEF Documents!Commands

(* What a behaviour has made of its command so far. *)

Accepted ==
    stored.kept => /\ Documents!CommandRefusal(command) = "NONE"
                   /\ stored = Documents!StoredFrom(command)
Written ==
    /\ ~stored.kept => xml = Documents!NoXml
    /\ xml.written => /\ Documents!XmlRefusal(stored) = "NONE"
                      /\ xml = Documents!Document(stored)
    /\ xml.error # "NONE" => Documents!XmlRefusal(stored) # "NONE"
Represented ==
    /\ ~xml.written => file = "none"
    /\ file = "none" => view = Documents!NoView
    /\ view.projected => /\ Documents!ParserRefusal(file) = "NONE"
                         /\ view = Documents!Projected(xml)
    /\ view.error # "NONE" => \/ Documents!ParserRefusal(file) # "NONE"
                              \/ Documents!ProjectionRefusal(xml) # "NONE"
DocumentOrder == IsCommand(command) /\ Accepted /\ Written /\ Represented

\* What there is before anything is made.
LEMMA NothingIs ==
    /\ ~Documents!Nothing.kept
    /\ ~Documents!NoXml.written /\ Documents!NoXml.error = "NONE"
    /\ ~Documents!NoView.projected /\ Documents!NoView.error = "NONE"
<1> QED
  BY DEF Documents!Nothing, Documents!NoXml, Documents!NoView

\* What Document (serialize) makes of a stored document.
LEMMA DocumentIs ==
    ASSUME NEW s
    PROVE  /\ Documents!Document(s).written /\ Documents!Document(s).error = "NONE"
           /\ Documents!Document(s).type = s.type
           /\ Documents!Document(s).receiver = Documents!AppendReceiver(s.receiver)
           /\ Documents!Document(s).summary = Documents!ComputeSummary(s.lines)
           /\ DOMAIN Documents!Document(s).lines = DOMAIN s.lines
           /\ \A i \in DOMAIN s.lines :
                Documents!Document(s).lines[i] = Documents!AppendLine(s.lines[i])
           /\ Documents!Document(s).payment.present
                => Documents!Document(s).payment.total = Documents!ComputeSummary(s.lines).total
<1> DEFINE appended == [i \in DOMAIN s.lines |-> Documents!AppendLine(s.lines[i])]
           receiver == Documents!AppendReceiver(s.receiver)
           summary == Documents!ComputeSummary(s.lines)
<1>1. DOMAIN appended = DOMAIN s.lines
      /\ \A i \in DOMAIN s.lines : appended[i] = Documents!AppendLine(s.lines[i])
  OBVIOUS
<1>2. /\ Documents!Document(s).written /\ Documents!Document(s).error = "NONE"
      /\ Documents!Document(s).type = s.type
      /\ Documents!Document(s).receiver = receiver
      /\ Documents!Document(s).summary = summary
      /\ Documents!Document(s).lines = appended
  BY DEF Documents!Document
<1>3. Documents!Document(s).payment.present
        => Documents!Document(s).payment.total = summary.total
  BY DEF Documents!Document, Documents!NoElement
<1> QED
  BY <1>1, <1>2, <1>3

\* The order holds when nothing has been made of the command.
LEMMA DocumentsBegin ==
    ASSUME PlatformInit
    PROVE  DocumentOrder
<1>1. command \in Documents!Commands \/ command = Documents!OrdinaryCommand
  BY DEF PlatformInit, Documents!XmlDocumentInit, Documents!RequestsInit
<1>2. stored = Documents!Nothing /\ xml = Documents!NoXml /\ file = "none"
      /\ view = Documents!NoView
  BY DEF PlatformInit, Documents!XmlDocumentInit, Documents!RequestsInit,
     Documents!NothingWritten
<1> QED
  BY <1>1, <1>2, CommandsAre, OrdinaryCommandIs, NothingIs
  DEF DocumentOrder, Accepted, Written, Represented

\* Creation (create) keeps the order.
LEMMA CreateKeepsOrder ==
    ASSUME DocumentOrder, Documents!CreateDocument
    PROVE  DocumentOrder'
<1>1. stored = Documents!Nothing /\ xml = Documents!NoXml /\ file = "none"
      /\ view = Documents!NoView
  BY NothingIs
  DEF DocumentOrder, Written, Represented, Documents!CreateDocument, Documents!Create
<1>2. command' = command /\ xml' = xml /\ file' = file /\ view' = view
  BY DEF Documents!CreateDocument, Documents!Create
<1>3. stored'.kept => /\ Documents!CommandRefusal(command) = "NONE"
                      /\ stored' = Documents!StoredFrom(command)
  BY DEF Documents!CreateDocument, Documents!Create
<1> QED
  BY <1>1, <1>2, <1>3, NothingIs DEF DocumentOrder, IsCommand, Accepted, Written, Represented

\* The serializer (serialize) keeps the order.
LEMMA SerializeKeepsOrder ==
    ASSUME DocumentOrder, Documents!Serialize
    PROVE  DocumentOrder'
<1>1. /\ stored.kept /\ xml = Documents!NoXml
      /\ UNCHANGED <<command, stored, file, view>>
      /\ xml' = IF Documents!XmlRefusal(stored) # "NONE"
                THEN [error |-> Documents!XmlRefusal(stored), written |-> FALSE]
                ELSE Documents!Document(stored)
  BY DEF Documents!Serialize
<1>2. file = "none" /\ view = Documents!NoView
  BY <1>1, NothingIs DEF DocumentOrder, Represented
<1>3. Written'
  <2>1. CASE Documents!XmlRefusal(stored) # "NONE"
    BY <1>1, <2>1 DEF Written
  <2>2. CASE Documents!XmlRefusal(stored) = "NONE"
    BY <1>1, <2>2, DocumentIs DEF Written
  <2> QED
    BY <2>1, <2>2
<1> QED
  BY <1>1, <1>2, <1>3, NothingIs DEF DocumentOrder, IsCommand, Accepted, Represented

\* Storing the signed file, whole or spoiled, keeps the order.
LEMMA KeepFileKeepsOrder ==
    ASSUME DocumentOrder, Documents!KeepFile
    PROVE  DocumentOrder'
<1>1. /\ xml.written /\ file = "none" /\ UNCHANGED <<command, stored, xml, view>>
      /\ file' # "none"
  BY DEF Documents!KeepFile
<1> QED
  BY <1>1, NothingIs DEF DocumentOrder, IsCommand, Accepted, Written, Represented

\* The projection of the signed file keeps the order.
LEMMA ProjectKeepsOrder ==
    ASSUME DocumentOrder, Documents!Project
    PROVE  DocumentOrder'
<1>1. /\ file # "none" /\ UNCHANGED <<command, stored, xml, file>>
      /\ view' = IF Documents!ParserRefusal(file) # "NONE"
                 THEN Documents!Failed(Documents!ParserRefusal(file))
                 ELSE IF Documents!ProjectionRefusal(xml) # "NONE"
                 THEN Documents!Failed("PROJECTION_FAILED")
                 ELSE Documents!Projected(xml)
  BY DEF Documents!Project
<1>2. /\ Documents!Projected(xml).projected /\ Documents!Projected(xml).error = "NONE"
      /\ \A e : ~Documents!Failed(e).projected
  BY DEF Documents!Projected, Documents!Failed
<1>3. Represented'
  <2>1. CASE Documents!ParserRefusal(file) # "NONE"
    BY <1>1, <1>2, <2>1 DEF DocumentOrder, Represented
  <2>2. CASE /\ Documents!ParserRefusal(file) = "NONE"
             /\ Documents!ProjectionRefusal(xml) # "NONE"
    BY <1>1, <1>2, <2>2 DEF DocumentOrder, Represented
  <2>3. CASE /\ Documents!ParserRefusal(file) = "NONE"
             /\ Documents!ProjectionRefusal(xml) = "NONE"
    BY <1>1, <1>2, <2>3 DEF DocumentOrder, Represented
  <2> QED
    BY <2>1, <2>2, <2>3
<1> QED
  BY <1>1, <1>3 DEF DocumentOrder, IsCommand, Accepted, Written

\* What is kept of a command is what each step made of the one before.
LEMMA DocumentsInOrder == PlatformSpec => []DocumentOrder
<1>1. PlatformInit => DocumentOrder
  BY DocumentsBegin
<1>2. DocumentOrder /\ [PlatformNext]_platformVars => DocumentOrder'
  <2> SUFFICES ASSUME DocumentOrder, [PlatformNext]_platformVars PROVE DocumentOrder'
    OBVIOUS
  <2>1. CASE Documents!XmlDocumentNext
    BY <2>1, CreateKeepsOrder, SerializeKeepsOrder, KeepFileKeepsOrder, ProjectKeepsOrder
    DEF Documents!XmlDocumentNext
  <2>2. CASE UNCHANGED xmlDocumentVars
    BY <2>2 DEF xmlDocumentVars, DocumentOrder, IsCommand, Accepted, Written, Represented
  <2>3. Documents!XmlDocumentNext \/ UNCHANGED xmlDocumentVars
    BY DEF PlatformNext, platformVars, flowVars, MoveSecrets, MoveInitialise, MoveBackup,
       MoveMigrate, MoveConnection, MoveSessions, MoveKeys, MoveTenants, MoveBreaker,
       MoveAnswers, MoveDocumentPdf, MoveRepresentation, MoveDocuments, MoveLookups,
       MoveReadiness
  <2> QED
    BY <2>1, <2>2, <2>3
<1> QED
  BY <1>1, <1>2, PTL DEF PlatformSpec

(* What the order gives. *)

\* A stored document is that of its command, with totals of its lines.
LEMMA StoredIs ==
    ASSUME DocumentOrder, stored.kept
    PROVE  /\ stored.type = command.header.type /\ stored.receiver = command.receiver
           /\ stored.currency = command.header.currency
           /\ stored.rate = command.header.rate.units
           /\ stored.sale = command.header.sale /\ stored.term = command.header.term
           /\ stored.method = command.header.method /\ stored.lines = command.lines
           /\ stored.totals = Documents!CalculateTotals(stored.lines)
<1>1. stored = Documents!StoredFrom(command)
  BY DEF DocumentOrder, Accepted
<1> HIDE DEF Documents!CalculateTotals
<1> QED
  BY <1>1 DEF Documents!StoredFrom

\* A line that passed creation.

LEMMA LinesPassed ==
    ASSUME DocumentOrder, stored.kept
    PROVE  \E m \in Nat :
              /\ AreLines(m, stored.lines)
              /\ \A i \in 1..m : Documents!LineChecks(stored.lines[i]) = "NONE"
<1>1. PICK m \in Nat : AreLines(m, stored.lines)
  BY StoredIs DEF DocumentOrder, IsCommand
<1>2. LinesPass(stored.lines) = "NONE"
  BY StoredIs, CommandPasses DEF DocumentOrder, Accepted
<1> QED
  BY <1>1, <1>2, LinesPassIs DEF AreLines

\* What the canonical form keeps of a payload.

LEMMA CanonicalIs ==
    ASSUME NEW input, NEW receiver, NEW currency, NEW rate, NEW sale, NEW term, NEW method,
           NEW these,
           input = [receiver |-> receiver, currency |-> currency, rate |-> rate, sale |-> sale,
                    term |-> term, method |-> method, lines |-> these]
    PROVE  Documents!Canonical(input)
             = [receiver |-> receiver, currency |-> currency, rate |-> rate.units,
                sale |-> sale, term |-> term, method |-> method,
                lines |-> [i \in DOMAIN these |-> these[i]]]
<1> DEFINE kept == [i \in DOMAIN these |-> these[i]]
           units == rate.units
           canonical == [input EXCEPT !.rate = units, !.lines = kept]
<1>1. Documents!Canonical(input) = [input EXCEPT !.rate = input.rate.units, !.lines = kept]
  BY DEF Documents!Canonical, Documents!NormalizeDecimal, Documents!CanonicalLine
<1>2. input.rate.units = units
  OBVIOUS
<1> HIDE DEF kept, units
<1>3. /\ canonical.receiver = receiver /\ canonical.currency = currency
      /\ canonical.rate = units /\ canonical.sale = sale /\ canonical.term = term
      /\ canonical.method = method /\ canonical.lines = kept
  OBVIOUS
<1>4. canonical = [x \in {"receiver", "currency", "rate", "sale", "term", "method", "lines"} |->
                     canonical[x]]
  OBVIOUS
<1> HIDE DEF canonical
<1>5. canonical = [receiver |-> receiver, currency |-> currency, rate |-> units,
                   sale |-> sale, term |-> term, method |-> method, lines |-> kept]
  BY <1>3, <1>4
<1> QED
  BY <1>1, <1>2, <1>5 DEF canonical, kept, units

\* The canonical form of a stored document is that of its command: the hash that was
\* accepted at creation finds the document again.
LEMMA EvidenceIs == DocumentOrder => Documents!EvidenceSurvivesStorage
<1> SUFFICES ASSUME DocumentOrder, stored.kept
             PROVE  Documents!Canonical(Documents!FromStored(stored))
                      = Documents!Canonical(Documents!FromCommand(command))
  BY DEF Documents!EvidenceSurvivesStorage
<1> DEFINE plain == [units |-> stored.rate, written |-> "plain"]
           canonical(rate) ==
             [receiver |-> command.receiver, currency |-> command.header.currency,
              rate |-> rate, sale |-> command.header.sale, term |-> command.header.term,
              method |-> command.header.method,
              lines |-> [i \in DOMAIN command.lines |-> command.lines[i]]]
<1>1. Documents!Canonical(Documents!FromCommand(command)) = canonical(command.header.rate.units)
  BY CanonicalIs DEF Documents!FromCommand
<1>2. Documents!FromStored(stored)
        = [receiver |-> command.receiver, currency |-> command.header.currency,
           rate |-> plain, sale |-> command.header.sale, term |-> command.header.term,
           method |-> command.header.method, lines |-> command.lines]
  BY StoredIs DEF Documents!FromStored
<1>3. Documents!Canonical(Documents!FromStored(stored)) = canonical(plain.units)
  <2> HIDE DEF plain
  <2> QED
    BY <1>2, CanonicalIs
<1>4. plain.units = command.header.rate.units
  BY StoredIs
<1> HIDE DEF plain, canonical
<1> QED
  BY <1>1, <1>3, <1>4

\* The totals that are stored, as loops over the stored lines.
LEMMA StoredTotalsAre ==
    ASSUME DocumentOrder, stored.kept
    PROVE  /\ stored.totals.gross = OfGross(stored.lines)
           /\ stored.totals.discount = OfDiscounts(stored.lines)
           /\ stored.totals.tax = OfTaxes(stored.lines)
           /\ stored.totals.total = OfTotals(stored.lines)
<1>1. stored.totals = Documents!CalculateTotals(stored.lines)
  BY StoredIs
<1> QED
  BY <1>1 DEF Documents!CalculateTotals, Documents!Sum, OfGross, OfDiscounts, OfTaxes, OfTotals

\* No accepted line is negative, and the totals of a stored document add up.
LEMMA TotalsAre == DocumentOrder => Documents!TotalsAddUp
<1> SUFFICES ASSUME DocumentOrder, stored.kept
             PROVE  /\ \A i \in DOMAIN stored.lines : Documents!Net(stored.lines[i]) >= 0
                    /\ stored.totals.total
                         = stored.totals.gross - stored.totals.discount + stored.totals.tax
  BY DEF Documents!TotalsAddUp
<1>1. PICK m \in Nat :
         /\ AreLines(m, stored.lines)
         /\ \A i \in 1..m : Documents!LineChecks(stored.lines[i]) = "NONE"
  BY LinesPassed
<1>2. ASSUME NEW l, IsLine(l), Documents!LineChecks(l) = "NONE"
      PROVE  Documents!Net(l) >= 0
  BY <1>2, LinePasses, DiscountPasses, AmountsAreInt DEF Documents!DiscountFits
<1>3. \A i \in DOMAIN stored.lines : Documents!Net(stored.lines[i]) >= 0
  BY <1>1, <1>2 DEF AreLines
<1> QED
  BY <1>1, <1>3, PartsAddUp, StoredTotalsAre

\* A written document is that of the stored one.
LEMMA WrittenIs ==
    ASSUME DocumentOrder, xml.written
    PROVE  stored.kept /\ xml = Documents!Document(stored)
<1> QED
  BY NothingIs DEF DocumentOrder, Written

\* What AppendLine (appendLine) makes of a line.
LEMMA AppendedIs ==
    ASSUME NEW l
    PROVE  LET x == Documents!AppendLine(l) IN
           /\ x.total = Documents!LineTotal(l) /\ x.subtotal = Documents!Net(l)
           /\ x.gross = Documents!Gross(l) /\ x.unitPrice = l.unitPrice
           /\ x.quantity = Documents!QuantityDecimal(l.quantity)
           /\ x.detail = l.description
           /\ x.discount = Documents!AppendDiscount(l) /\ x.tax = Documents!AppendTax(l)
<1> QED
  BY DEF Documents!AppendLine

\* The summary is that of the lines that were written and of the stored totals, and each
\* group of taxes is the sum of the taxes written under its codes.
LEMMA SummaryAdds == DocumentOrder => Documents!SummaryAddsUp
<1> SUFFICES ASSUME DocumentOrder, xml.written PROVE Documents!SummaryAddsUp
  BY DEF Documents!SummaryAddsUp
<1>1. stored.kept /\ xml = Documents!Document(stored)
  BY WrittenIs
<1>2. PICK m \in Nat : AreLines(m, stored.lines)
  BY <1>1, LinesPassed
<1>3. /\ DOMAIN xml.lines = 1..m /\ DOMAIN stored.lines = 1..m
      /\ \A i \in 1..m : xml.lines[i] = Documents!AppendLine(stored.lines[i])
      /\ xml.summary = Documents!ComputeSummary(stored.lines)
  BY <1>1, <1>2, DocumentIs DEF AreLines
<1>4. Documents!Sum(xml.lines, LAMBDA l : l.total) = OfTotals(stored.lines)
  <2>1. [i \in DOMAIN xml.lines |-> xml.lines[i].total]
          = [i \in DOMAIN stored.lines |-> Documents!LineTotal(stored.lines[i])]
    BY <1>3, AppendedIs
  <2> QED
    BY <2>1 DEF Documents!Sum, OfTotals
<1>5. Documents!Sum(xml.lines, LAMBDA l : l.subtotal) = OfNet(stored.lines)
  <2>1. [i \in DOMAIN xml.lines |-> xml.lines[i].subtotal]
          = [i \in DOMAIN stored.lines |-> Documents!Net(stored.lines[i])]
    BY <1>3, AppendedIs
  <2> QED
    BY <2>1 DEF Documents!Sum, OfNet
<1>6. /\ xml.summary.total = OfTotals(stored.lines)
      /\ xml.summary.netSale = OfNet(stored.lines)
      /\ xml.summary.sale = stored.totals.gross
      /\ xml.summary.discounts = stored.totals.discount
      /\ xml.summary.total = stored.totals.total
  BY <1>1, <1>2, <1>3, SummaryIs, StoredTotalsAre
<1>7. ASSUME NEW group \in xml.summary.groups
      PROVE  group.total
               = Documents!Sum(xml.lines,
                               LAMBDA l : IF l.tax.present
                                             /\ <<l.tax.code, l.tax.rateCode>> = group.key
                                          THEN l.tax.amount ELSE 0)
  <2>1. group \in Documents!TaxGroups(stored.lines)
    BY <1>3, <1>7 DEF Documents!ComputeSummary
  <2> DEFINE k == group.key
             written(i) == Documents!Taxed(stored.lines[i])
                            /\ Documents!GroupKey(stored.lines[i]) = k
             after(i) == xml.lines[i].tax.present
                           /\ <<xml.lines[i].tax.code, xml.lines[i].tax.rateCode>> = k
             old == [i \in DOMAIN stored.lines |->
                       IF written(i) THEN stored.lines[i].tax ELSE 0]
             new == [i \in DOMAIN xml.lines |->
                       IF after(i) THEN xml.lines[i].tax.amount ELSE 0]
  <2>2. group.total = Documents!SumOf(old)
    <3>1. PICK of : group = Documents!TaxGroup(stored.lines, of)
      BY <2>1 DEF Documents!TaxGroups
    <3>2. group.key = of /\ group = Documents!TaxGroup(stored.lines, k)
      BY <3>1 DEF Documents!TaxGroup, Documents!Sum
    <3> QED
      BY <3>2 DEF Documents!TaxGroup, Documents!Sum
  <2>3. ASSUME NEW l
        PROVE  /\ Documents!AppendTax(l).present <=> Documents!Taxed(l)
               /\ Documents!Taxed(l)
                    => /\ <<Documents!AppendTax(l).code, Documents!AppendTax(l).rateCode>>
                            = Documents!GroupKey(l)
                       /\ Documents!AppendTax(l).amount = l.tax
    BY DEF Documents!AppendTax, Documents!NoElement, Documents!GroupKey
  <2>4. old = new
    <3>1. ASSUME NEW i \in 1..m
          PROVE  /\ written(i) <=> after(i)
                 /\ written(i) => xml.lines[i].tax.amount = stored.lines[i].tax
      <4>1. xml.lines[i].tax = Documents!AppendTax(stored.lines[i])
        BY <1>3, AppendedIs
      <4> QED
        BY <2>3, <4>1
    <3> HIDE DEF written, after
    <3> QED
      BY <1>3, <3>1
  <2> QED
    BY <2>2, <2>4 DEF Documents!Sum
<1> QED
  BY <1>4, <1>5, <1>6, <1>7 DEF Documents!SummaryAddsUp

\* The gross amount of a line is that of the quantity as it is written.
LEMMA AmountsMatch == DocumentOrder => Documents!LineAmountsMatch
<1> SUFFICES ASSUME DocumentOrder, xml.written, NEW i \in DOMAIN xml.lines,
                    stored.lines[i].quantity % QuantityUnit = 0
             PROVE  xml.lines[i].gross
                      = Documents!Multiply(xml.lines[i].quantity, xml.lines[i].unitPrice)
  BY DEF Documents!LineAmountsMatch
<1>1. stored.kept /\ xml = Documents!Document(stored)
  BY WrittenIs
<1>2. PICK m \in Nat : AreLines(m, stored.lines)
  BY <1>1, LinesPassed
<1> DEFINE l == stored.lines[i]
<1>3. IsLine(l) /\ xml.lines[i] = Documents!AppendLine(l)
  BY <1>1, <1>2, DocumentIs DEF AreLines
<1>4. l.quantity % QuantityUnit = 0 /\ l.quantity \in Nat
  BY <1>3 DEF IsLine
<1> HIDE DEF l
<1>5. Documents!QuantityDecimal(l.quantity) = l.quantity
  BY <1>4 DEF Documents!QuantityDecimal
<1> QED
  BY <1>3, <1>5, AppendedIs DEF Documents!Gross

\* A line that passed creation is written, unless its tax has a code that is not.

LEMMA PassedIsWritten ==
    ASSUME NEW l, IsLine(l), Documents!LineChecks(l) = "NONE",
           ~(Documents!Taxed(l) /\ l.taxCode = "02")
    PROVE  Documents!LineXmlChecks(l) = "NONE"
<1>1. Documents!DiscountXmlChecks(l) = "NONE"
  <2>1. Documents!AppendDiscount(l).present <=> Documents!OrZero(l.discount) # 0
    BY DEF Documents!AppendDiscount, Documents!NoElement
  <2>2. Documents!OrZero(l.discount) # 0 => Documents!Net(l) >= 0 /\ Described(l)
    BY LinePasses, DiscountPasses DEF Documents!DiscountFits
  <2>3. Documents!Net(l) \in Int
    BY AmountsAreInt
  <2> QED
    BY <2>1, <2>2, <2>3, DiscountIsWritten
<1>2. Documents!TaxXmlChecks(l) = "NONE"
  <2>1. Documents!Taxed(l) => Rated(l)
    BY LinePasses DEF Documents!Taxed
  <2>2. Documents!Taxed(l) => l.taxCode \in {"01", "07"}
    BY <2>1 DEF IsLine, Rated, Documents!Given
  <2> QED
    BY <2>1, <2>2, TaxIsWritten DEF Rated
<1> QED
  BY <1>1, <1>2, LineIsWritten, LinePasses

\* What creation accepts the serializer writes, outside the named exceptions.
LEMMA AcceptedIs == DocumentOrder => Documents!AcceptedIsSerialisable
<1> SUFFICES ASSUME DocumentOrder, stored.kept,
                    \A i \in DOMAIN stored.lines :
                       ~(Documents!Taxed(stored.lines[i]) /\ stored.lines[i].taxCode = "02"),
                    ~(stored.type = "INVOICE" /\ stored.receiver.activity = "five"),
                    stored.receiver.province => stored.receiver.canton
             PROVE  xml.error = "NONE"
  BY DEF Documents!AcceptedIsSerialisable
<1>1. PICK m \in Nat :
         /\ AreLines(m, stored.lines)
         /\ \A i \in 1..m : Documents!LineChecks(stored.lines[i]) = "NONE"
  BY LinesPassed
<1>2. XmlOfLines(stored.lines) = "NONE"
  <2>1. \A i \in 1..m : Documents!LineXmlChecks(stored.lines[i]) = "NONE"
    BY <1>1, PassedIsWritten DEF AreLines
  <2> QED
    BY <1>1, <2>1, XmlOfLinesIs DEF AreLines
<1>3. /\ stored.sale \in {"01", "02"} /\ stored.lines # <<>>
      /\ Documents!SalePaymentTerms(command.header) = "NONE"
      /\ Documents!ReceiverChecks(stored.type, stored.receiver) = "NONE"
  BY StoredIs, CommandPasses DEF DocumentOrder, Accepted
<1>4. IF stored.sale = "02" THEN stored.term # -1 /\ stored.method = "absent"
      ELSE stored.term = -1 /\ stored.method = "01"
  BY <1>3, TermsPass, StoredIs
<1>5. Documents!CreditTermChecks(stored) = "NONE"
  BY <1>4, TermIsWritten DEF Documents!Absent
<1>6. stored.receiver.present => /\ stored.receiver.name = "text"
                                 /\ stored.receiver.idType = "FISICA"
                                 /\ stored.receiver.idNumber = "digits"
  BY <1>3, ReceiverPasses
<1>7. Documents!RequirePartyChecks(stored.receiver) = "NONE"
  BY <1>6, PartyIsWritten
<1>8. Documents!ReceiverActivity(stored.type, stored.receiver) # "five"
  BY DEF Documents!ReceiverActivity
<1>9. Documents!XmlRefusal(stored) = "NONE"
  BY <1>2, <1>3, <1>4, <1>5, <1>6, <1>7, <1>8, DocumentIsWritten
  DEF Documents!SupportedSaleConditions, Documents!SupportedPaymentMethods, Documents!Given,
      Documents!IdentificationTypes
<1> QED
  BY <1>9 DEF DocumentOrder, Written

\* The parser accepts the file that was signed and no other.
LEMMA FileIs ==
    ASSUME NEW f
    PROVE  Documents!ParserRefusal(f) = "NONE" <=> f = "intact"
<1> DEFINE c1 == Documents!Check(f = "oversized", "SIGNED_XML_OVERSIZED")
           c2 == Documents!Check(~Documents!SameHash(f), "SIGNED_XML_HASH_MISMATCH")
           c3 == Documents!Check(Documents!FormRefusal(f) # "NONE", Documents!FormRefusal(f))
<1>1. Coded(c1) /\ Coded(c2) /\ Coded(c3)
  <2>1. Coded(c1) /\ Coded(c2)
    BY CheckIs
  <2>2. Coded(c3)
    BY DEF Documents!Check, Coded
  <2> QED
    BY <2>1, <2>2
<1>2. /\ ~c1.failed <=> f # "oversized"
      /\ ~c2.failed <=> f = "intact"
      /\ ~c3.failed <=> f # "other"
  BY DEF Documents!Check, Documents!SameHash, Documents!FormRefusal
<1>3. Documents!ParserRefusal(f) = Documents!Refusal(<<c1, c2, c3>>)
  BY DEF Documents!ParserRefusal
<1> HIDE DEF c1, c2, c3
<1>4. Documents!ParserRefusal(f) = "NONE" <=> ~c1.failed /\ ~c2.failed /\ ~c3.failed
  BY <1>1, <1>3, RefusalOfThree
<1> QED
  BY <1>2, <1>4

\* A line the projection shows.
LEMMA LineIsShown ==
    ASSUME NEW x
    PROVE  Documents!LineRefusal(x) = "NONE"
             <=> /\ ~Documents!Blank(x.detail)
                 /\ x.discount.present => ~Documents!Blank(x.discount.code)
                 /\ x.tax.present
<1> DEFINE c1 == Documents!Check(Documents!Blank(x.detail), "Detalle")
           c2 == Documents!Check(x.discount.present /\ Documents!Blank(x.discount.code),
                                 "CodigoDescuento")
           c3 == Documents!Check(~x.tax.present, "ImpuestoNeto")
<1>1. Coded(c1) /\ Coded(c2) /\ Coded(c3)
  BY CheckIs, GroupIs
<1>2. /\ (~c1.failed <=> ~(Documents!Blank(x.detail)))
      /\ (~c2.failed <=> ~(x.discount.present /\ Documents!Blank(x.discount.code)))
      /\ (~c3.failed <=> ~(~x.tax.present))
  BY DEF Documents!Check, Documents!Group
<1>3. Documents!LineRefusal(x) = Documents!Refusal(<<c1, c2, c3>>)
  BY DEF Documents!LineRefusal
<1> HIDE DEF c1, c2, c3
<1>4. Documents!LineRefusal(x) = "NONE"
       <=> ~c1.failed /\ ~c2.failed /\ ~c3.failed
  BY <1>1, <1>3, RefusalOfThree
<1> QED
  BY <1>2, <1>4

\* A document the projection shows.
LEMMA DocumentIsShown ==
    ASSUME NEW x
    PROVE  Documents!ProjectionRefusal(x) = "NONE"
             <=> /\ ~(x.type = "INVOICE" /\ ~x.receiver.present)
                 /\ ViewOfLines(x.lines) = "NONE"
<1> DEFINE c1 == Documents!Check(x.type = "INVOICE" /\ ~x.receiver.present, "Receptor")
           c2 == Documents!Group(ViewOfLines(x.lines))
<1>1. Coded(c1) /\ Coded(c2)
  BY CheckIs, GroupIs
<1>2. /\ (~c1.failed <=> ~(x.type = "INVOICE" /\ ~x.receiver.present))
      /\ (~c2.failed <=> ViewOfLines(x.lines) = "NONE")
  BY DEF Documents!Check, Documents!Group
<1>3. Documents!ProjectionRefusal(x) = Documents!Refusal(<<c1, c2>>)
  BY DEF Documents!ProjectionRefusal, ViewOfLines
<1> HIDE DEF c1, c2
<1>4. Documents!ProjectionRefusal(x) = "NONE"
       <=> ~c1.failed /\ ~c2.failed
  BY <1>1, <1>3, RefusalOfTwo
<1> QED
  BY <1>2, <1>4

\* What the serializer writes the projection shows, outside the named exceptions.
LEMMA SerialisedIs == DocumentOrder => Documents!SerialisedIsRepresentable
<1> SUFFICES ASSUME DocumentOrder, file = "intact",
                    \A l \in Documents!XmlLines : l.detail # "blank" /\ l.tax.present
             PROVE  view.error = "NONE"
  BY DEF Documents!SerialisedIsRepresentable
<1>1. xml.written
  BY DEF DocumentOrder, Represented
<1>2. /\ stored.kept /\ Documents!CommandRefusal(command) = "NONE"
      /\ xml = Documents!Document(stored)
  BY <1>1, WrittenIs DEF DocumentOrder, Accepted
<1>3. PICK m \in Nat :
         /\ AreLines(m, stored.lines)
         /\ \A i \in 1..m : Documents!LineChecks(stored.lines[i]) = "NONE"
  BY <1>2, LinesPassed
<1>4. /\ DOMAIN xml.lines = 1..m
      /\ \A i \in 1..m : xml.lines[i] = Documents!AppendLine(stored.lines[i])
  BY <1>2, <1>3, DocumentIs DEF AreLines
<1>5. ASSUME NEW i \in 1..m PROVE Documents!LineRefusal(xml.lines[i]) = "NONE"
  <2> DEFINE l == stored.lines[i]
             x == xml.lines[i]
  <2>1. IsLine(l) /\ Documents!LineChecks(l) = "NONE" /\ x = Documents!AppendLine(l)
    BY <1>3, <1>4 DEF AreLines
  <2>2. x \in Documents!XmlLines
    BY <1>4 DEF Documents!XmlLines
  <2> HIDE DEF l, x
  <2>3. x.detail = l.description /\ x.discount = Documents!AppendDiscount(l)
    BY <2>1, AppendedIs
  <2>4. ~Documents!Blank(x.detail)
    BY <2>1, <2>2, <2>3 DEF IsLine, Documents!Blank
  <2>5. x.discount.present => ~Documents!Blank(x.discount.code)
    <3>1. x.discount.present
            => Documents!OrZero(l.discount) # 0 /\ x.discount.code = l.discountCode
      BY <2>3 DEF Documents!AppendDiscount, Documents!NoElement
    <3>2. Documents!OrZero(l.discount) # 0 => l.discountCode \in {"07", "99"}
      BY <2>1, LinePasses, DiscountPasses DEF Described, Documents!DiscountCodes
    <3> QED
      BY <3>1, <3>2 DEF Documents!Blank
  <2> QED
    BY <2>2, <2>4, <2>5, LineIsShown DEF x
<1>6. ViewOfLines(xml.lines) = "NONE"
  BY <1>4, <1>5, ViewOfLinesIs
<1>7. ~(xml.type = "INVOICE" /\ ~xml.receiver.present)
  <2>1. /\ Documents!ReceiverChecks(stored.type, stored.receiver) = "NONE"
        /\ xml.type = stored.type /\ xml.receiver = Documents!AppendReceiver(stored.receiver)
    BY <1>2, StoredIs, CommandPasses, DocumentIs
  <2>2. stored.receiver.present => xml.receiver.present
    BY <2>1 DEF Documents!AppendReceiver
  <2> QED
    BY <2>1, <2>2, ReceiverPasses
<1>8. Documents!ProjectionRefusal(xml) = "NONE"
  BY <1>6, <1>7, DocumentIsShown
<1>9. Documents!ParserRefusal(file) = "NONE"
  BY FileIs
<1> QED
  BY <1>8, <1>9 DEF DocumentOrder, Represented

\* A view is that of the signed file, and shows the total that was stored.
LEMMA ViewIs == DocumentOrder => Documents!ViewIsOfTheFile
<1> SUFFICES ASSUME DocumentOrder, view.projected PROVE Documents!ViewIsOfTheFile
  BY DEF Documents!ViewIsOfTheFile
<1>1. file = "intact" /\ view = Documents!Projected(xml)
  BY FileIs DEF DocumentOrder, Represented
<1>2. xml.written
  BY <1>1 DEF DocumentOrder, Represented
<1>3. xml.summary.total = stored.totals.total
  BY <1>2, SummaryAdds DEF Documents!SummaryAddsUp
<1>4. view.total = xml.summary.total /\ view.payments = Documents!ProjectedPayments(xml)
  BY <1>1 DEF Documents!Projected
<1>5. xml.payment.present => xml.payment.total = xml.summary.total
  BY <1>2, WrittenIs, DocumentIs
<1>6. \A i \in DOMAIN view.payments : view.payments[i].total = view.total
  BY <1>4, <1>5 DEF Documents!ProjectedPayments
<1> QED
  BY <1>1, <1>3, <1>4, <1>6 DEF Documents!ViewIsOfTheFile

\* Of every command and any number of lines: evidence that was accepted finds the document
\* again, totals and summaries add up, what was accepted can be written and what was
\* written can be shown, outside the exceptions the properties name (FiscalDocumentService,
\* FiscalXmlSerializer, the signed XML parser and the projector).
THEOREM XmlDocumentCorrect == PlatformSpec => []Documents!XmlDocumentInv
<1>1. DocumentOrder => Documents!XmlDocumentInv
  BY EvidenceIs, TotalsAre, SummaryAdds, AmountsMatch, AcceptedIs, SerialisedIs, ViewIs
  DEF Documents!XmlDocumentInv, Documents!RequestsInv
<1> QED
  BY <1>1, DocumentsInOrder, PTL

\* The same with the two PDFs: the whole chain from a command to what its receiver reads.
THEOREM DocumentCorrect == PlatformSpec => []DocumentInv
<1>1. Documents!XmlDocumentInv /\ (Pdf!DocumentPdfInv /\ Representation!RepresentationPdfInv)
        => DocumentInv
  BY DEF DocumentInv
<1> QED
  BY <1>1, XmlDocumentCorrect, PdfsCorrect, PTL
====
