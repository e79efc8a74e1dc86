---------------------------- MODULE FiscalRequests ----------------------------
(***************************************************************************)
(* What createDocument accepts and keeps.  A command that passed the DTO is *)
(* validated in a fixed order, its totals are calculated with decimals of   *)
(* five places, and the document is stored with the lines as they came.     *)
(* The payload evidence is a hash of a canonical form, which the client     *)
(* computes from its command and Billing later from the stored document.    *)
(* A decimal is the number of its smallest units and the way it is written; *)
(* a text is "absent", "blank" (spaces) or "text".                          *)
(***************************************************************************)
EXTENDS Integers, Sequences

CONSTANTS
    Factor,         \* units of one: 10^5 in the code
    QuantityUnit,   \* units of the last place a quantity is printed with: 10^2
    Quantities, Prices, Discounts, Taxes   \* units a line may have; Absent is no value

VARIABLES
    command,   \* the request
    stored     \* its document, or why there is none

requestVars == <<command, stored>>

Absent == -1
Nothing == [refused |-> "NONE", kept |-> FALSE]

(* ScaledDecimal. *)

Multiply(a, b) == (a * b + Factor \div 2) \div Factor
OrZero(units) == IF units = Absent THEN 0 ELSE units

Gross(line) == Multiply(line.quantity, line.unitPrice)
Net(line) == Gross(line) - OrZero(line.discount)
LineTotal(line) == Net(line) + OrZero(line.tax)

\* A loop over the lines adds to a total, which starts at zero.
SumOf(amounts) ==
    LET total[n \in 0..Len(amounts)] ==
          IF n = 0 THEN 0 ELSE total[n - 1] + amounts[n]
    IN total[Len(amounts)]
Sum(lines, Of(_)) == SumOf([i \in DOMAIN lines |-> Of(lines[i])])

(* Requests: each aspect is varied while the others stay ordinary. *)

NoReceiver ==
    [present |-> FALSE, name |-> "absent", idType |-> "absent", idNumber |-> "absent",
     email |-> FALSE, activity |-> "absent", province |-> FALSE, canton |-> FALSE]

Receivers ==
    [present : {TRUE}, name : {"text", "blank"}, idType : {"FISICA", "05"},
     idNumber : {"digits", "letters"}, email : BOOLEAN,
     activity : {"absent", "blank", "six", "five"}, province : BOOLEAN, canton : BOOLEAN]

Rates == {[units |-> Absent, written |-> "plain"]}
         \cup [units : {0, 5 * Factor}, written : {"plain", "padded"}]

Headers ==
    [type : {"INVOICE", "TICKET"}, currency : {"CRC", "USD"}, rate : Rates,
     sale : {"01", "02", "09", "16"}, term : {Absent, 30},
     method : {"absent", "01", "06", "99"}]

Lines ==
    LET amounts == [quantity : Quantities, unitPrice : Prices, discount : Discounts,
                    tax : Taxes] IN
    {[cabys |-> g.cabys, unit |-> g.unit, description |-> g.text,
      quantity |-> a.quantity, unitPrice |-> a.unitPrice, discount |-> a.discount,
      discountCode |-> d.code, nature |-> d.nature, other |-> d.other,
      tax |-> a.tax, taxCode |-> t.code, rateCode |-> t.rateCode, rate |-> t.rate] :
        g \in {[cabys |-> "goods", unit |-> "Unid", text |-> "text"],
               [cabys |-> "service", unit |-> "Sp", text |-> "text"],
               [cabys |-> "goods", unit |-> "UN", text |-> "text"],
               [cabys |-> "goods", unit |-> "Unid", text |-> "blank"]},
        a \in amounts,
        d \in {[code |-> "absent", nature |-> "absent", other |-> "absent"],
               [code |-> "07", nature |-> "text", other |-> "absent"]},
        t \in {[code |-> "absent", rateCode |-> "absent", rate |-> Absent],
               [code |-> "01", rateCode |-> "08", rate |-> 13 * Factor]}}

OrdinaryLine ==
    [cabys |-> "goods", unit |-> "Unid", description |-> "text", quantity |-> Factor,
     unitPrice |-> Factor, discount |-> Absent, discountCode |-> "absent",
     nature |-> "absent", other |-> "absent", tax |-> Absent, taxCode |-> "absent",
     rateCode |-> "absent", rate |-> Absent]

\* Lines whose discount or tax is described in some way.
DescribedLines ==
    {[OrdinaryLine EXCEPT !.discount = amount, !.discountCode = code, !.nature = nature,
                          !.other = other] :
        amount \in {Absent, 0, Factor \div 2, 2 * Factor}, code \in {"absent", "07", "10", "99"},
        nature \in {"absent", "blank", "text"}, other \in {"absent", "blank", "text"}}
    \cup
    {[OrdinaryLine EXCEPT !.tax = amount, !.taxCode = code, !.rateCode = rateCode,
                          !.rate = rate] :
        amount \in {Absent, 0, Factor \div 10}, code \in {"absent", "01", "02", "07"},
        rateCode \in {"absent", "08"}, rate \in {Absent, 13 * Factor}}

\* Lines that are sold together: goods and services, taxed or not, discounted or not.
SoldDiscounts ==
    {[amount |-> Absent, code |-> "absent", nature |-> "absent"],
     [amount |-> Factor \div 2, code |-> "07", nature |-> "text"]}
SoldTaxes == [amount : {0, Factor \div 10}, code : {"01", "07"}]
SoldLine(cabys, quantity, d, t) ==
    [OrdinaryLine EXCEPT !.cabys = cabys, !.quantity = quantity, !.discount = d.amount,
                         !.discountCode = d.code, !.nature = d.nature, !.tax = t.amount,
                         !.taxCode = t.code, !.rateCode = "08", !.rate = 13 * Factor]
SoldLines ==
    {SoldLine(cabys, quantity, d, t) :
        cabys \in {"goods", "service"}, quantity \in Quantities, d \in SoldDiscounts,
        t \in SoldTaxes}

OrdinaryHeader ==
    [type |-> "INVOICE", currency |-> "CRC", rate |-> [units |-> Absent, written |-> "plain"],
     sale |-> "01", term |-> Absent, method |-> "01"]
OrdinaryReceiver ==
    [present |-> TRUE, name |-> "text", idType |-> "FISICA", idNumber |-> "digits",
     email |-> TRUE, activity |-> "absent", province |-> FALSE, canton |-> FALSE]
OrdinaryCommand ==
    [header |-> OrdinaryHeader, receiver |-> OrdinaryReceiver, lines |-> <<OrdinaryLine>>,
     evidence |-> "absent"]

Evidences == {"absent", "incomplete", "otherVersion", "malformed", "wrong", "right"}

\* One aspect of a command varies: its header, its receiver, its evidence, a line, or two.
ByHeader == {[OrdinaryCommand EXCEPT !.header = header] : header \in Headers}
SentTo(receiver, type) ==
    [OrdinaryCommand EXCEPT !.receiver = receiver, !.header.type = type]
ByReceiver ==
    {SentTo(receiver, type) :
        receiver \in Receivers \cup {NoReceiver}, type \in {"INVOICE", "TICKET"}}
ByEvidence == {[OrdinaryCommand EXCEPT !.evidence = evidence] : evidence \in Evidences}
ByLine ==
    {[OrdinaryCommand EXCEPT !.lines = lines] :
        lines \in {<<>>} \cup {<<line>> : line \in Lines \cup DescribedLines}}
ByTwoLines ==
    {[OrdinaryCommand EXCEPT !.lines = <<first, second>>] :
        first \in SoldLines, second \in SoldLines}

Commands == ByHeader \cup ByReceiver \cup ByEvidence \cup ByLine \cup ByTwoLines

(* Validation: the first check that fails names the refusal. *)

Check(failed, code) == [failed |-> failed, code |-> code]
Refusal(checks) ==
    LET failing == {i \in DOMAIN checks : checks[i].failed} IN
    IF failing = {} THEN "NONE"
    ELSE checks[CHOOSE i \in failing : \A j \in failing : i <= j].code

\* A check made of checks: it refuses with the first of them that fails.
Group(refusal) == Check(refusal # "NONE", refusal)
\* The lines are looked at in order.
EachLine(lines, RefusalOf(_)) == Refusal([i \in DOMAIN lines |-> Group(RefusalOf(lines[i]))])

Given(text) == text # "absent"
Said(text) == text = "text"

AllowedSaleConditions == {"01", "02", "09"}
AllowedPaymentMethods == {"01", "99"}
DiscountCodes == {"07", "99"}
Units == {"Unid", "Sp"}
IdentificationTypes == {"FISICA"}

\* validateSalePaymentTerms.
SalePaymentTerms(h) ==
    IF h.sale = "02"
      THEN Refusal(<< Check(h.term = Absent, "FISCAL_CREDIT_TERM_REQUIRED"),
                      Check(Given(h.method), "CREDIT_PAYMENT_METHOD_NOT_ALLOWED") >>)
      ELSE Refusal(<< Check(h.term # Absent, "FISCAL_CREDIT_TERM_NOT_ALLOWED"),
                      Check(~Given(h.method), "PAYMENT_METHOD_REQUIRED"),
                      Check(h.method \notin AllowedPaymentMethods, "INVALID_PAYMENT_METHOD"),
                      Check(h.method = "99", "UNSUPPORTED_FISCAL_PAYMENT_METHOD") >>)

\* validateReceiver.
ReceiverChecks(type, r) ==
    Refusal(IF ~r.present THEN << Check(type = "INVOICE", "INVOICE_RECEIVER_REQUIRED") >>
            ELSE << Check(~Said(r.name), "RECEIVER_IDENTIFICATION_REQUIRED"),
                    Check(r.idType \notin IdentificationTypes,
                          "INVALID_RECEIVER_IDENTIFICATION_TYPE"),
                    Check(r.idNumber # "digits", "INVALID_RECEIVER_IDENTIFICATION_NUMBER"),
                    Check(type = "INVOICE" /\ ~r.email, "INVOICE_RECEIVER_EMAIL_REQUIRED") >>)

\* Variant of DiscountFits: a discount is not compared with the line.
AnyDiscount(line) == TRUE

\* A discount may take the whole line but no more.
DiscountFits(line) == Net(line) >= 0

\* validateLineDiscount.
LineDiscount(line) ==
    IF OrZero(line.discount) = 0
      THEN Refusal(<< Check(Given(line.discountCode) \/ Given(line.nature)
                              \/ Given(line.other),
                            "FISCAL_DISCOUNT_METADATA_WITHOUT_AMOUNT") >>)
      ELSE Refusal(<< Check(~DiscountFits(line), "INVALID_FISCAL_DISCOUNT_AMOUNT"),
                      Check(~Given(line.discountCode) \/ ~Given(line.nature),
                            "FISCAL_DISCOUNT_METADATA_REQUIRED"),
                      Check(line.discountCode \notin DiscountCodes,
                            "INVALID_FISCAL_DISCOUNT_CODE"),
                      Check(~Said(line.nature), "INVALID_FISCAL_DISCOUNT_NATURE"),
                      Check(line.discountCode = "99" /\ ~Said(line.other),
                            "FISCAL_DISCOUNT_OTHER_REQUIRED"),
                      Check(line.discountCode # "99" /\ Given(line.other),
                            "FISCAL_DISCOUNT_OTHER_NOT_ALLOWED") >>)

\* The checks of one line; that its tax code has two digits is all that is asked of it.
LineChecks(line) ==
    Refusal(<< Check(line.unit \notin Units, "UNSUPPORTED_FISCAL_UNIT_MEASURE"),
               Check(OrZero(line.tax) # 0
                       /\ (~Given(line.taxCode) \/ ~Given(line.rateCode)
                             \/ line.rate = Absent),
                     "FISCAL_TAX_METADATA_REQUIRED"),
               Group(LineDiscount(line)) >>)

(* The canonical payload. *)

FromCommand(c) ==
    [receiver |-> c.receiver, currency |-> c.header.currency, rate |-> c.header.rate,
     sale |-> c.header.sale, term |-> c.header.term, method |-> c.header.method,
     lines |-> c.lines]

\* The rate is a decimal column, which keeps its value and not how it was written.
FromStored(s) ==
    [receiver |-> s.receiver, currency |-> s.currency,
     rate |-> [units |-> s.rate, written |-> "plain"],
     sale |-> s.sale, term |-> s.term, method |-> s.method, lines |-> s.lines]

\* Variant of NormalizeDecimal: the text as it came.
AsWritten(decimal) == decimal

\* normalizeOptionalDecimal: five places, however it was written.
NormalizeDecimal(decimal) == decimal.units

CanonicalLine(line) == line

Canonical(input) ==
    [input EXCEPT !.rate = NormalizeDecimal(input.rate),
                  !.lines = [i \in DOMAIN input.lines |-> CanonicalLine(input.lines[i])]]

\* A hash is right when it is that of the command's canonical form.
PayloadEvidence(c) ==
    Refusal(<< Check(c.evidence = "incomplete", "FISCAL_PAYLOAD_EQUIVALENCE_HEADERS_REQUIRED"),
               Check(c.evidence = "otherVersion",
                     "FISCAL_PAYLOAD_CONTRACT_VERSION_UNSUPPORTED"),
               Check(c.evidence \in {"malformed", "wrong"}, "FISCAL_PAYLOAD_HASH_INVALID") >>)

\* validateCreateCommand.
CommandRefusal(c) ==
    Refusal(<< Check(c.header.sale \notin AllowedSaleConditions, "INVALID_SALE_CONDITION"),
               Check(c.header.sale = "09", "UNSUPPORTED_FISCAL_SALE_CONDITION"),
               Group(SalePaymentTerms(c.header)),
               Check(c.header.currency # "CRC" /\ c.header.rate.units = Absent,
                     "EXCHANGE_RATE_REQUIRED"),
               Group(ReceiverChecks(c.header.type, c.receiver)),
               Group(PayloadEvidence(c)),
               Check(c.lines = <<>>, "FISCAL_DOCUMENT_LINES_REQUIRED"),
               Group(EachLine(c.lines, LineChecks)) >>)

\* calculateTotals.
CalculateTotals(lines) ==
    [gross |-> Sum(lines, Gross),
     discount |-> Sum(lines, LAMBDA line : OrZero(line.discount)),
     tax |-> Sum(lines, LAMBDA line : OrZero(line.tax)),
     total |-> Sum(lines, LineTotal)]

StoredFrom(c) ==
    [refused |-> "NONE", kept |-> TRUE, type |-> c.header.type, receiver |-> c.receiver,
     currency |-> c.header.currency, rate |-> c.header.rate.units, sale |-> c.header.sale,
     term |-> c.header.term, method |-> c.header.method, lines |-> c.lines,
     totals |-> CalculateTotals(c.lines)]

RequestsInit == command \in Commands /\ stored = Nothing

Create ==
    /\ stored = Nothing
    /\ stored' = IF CommandRefusal(command) # "NONE"
                   THEN [refused |-> CommandRefusal(command), kept |-> FALSE]
                   ELSE StoredFrom(command)
    /\ UNCHANGED command

-----------------------------------------------------------------------------
(* Properties. *)

\* The evidence a client computed from its command finds the document again, and a
\* refused one is not kept (canonicalFiscalPayloadHash at creation and at lookup).
EvidenceSurvivesStorage ==
    stored.kept => Canonical(FromStored(stored)) = Canonical(FromCommand(command))

\* No amount of an accepted document is negative, and its total is what its parts say.
TotalsAddUp ==
    stored.kept =>
        /\ \A i \in DOMAIN stored.lines : Net(stored.lines[i]) >= 0
        /\ stored.totals.total
             = stored.totals.gross - stored.totals.discount + stored.totals.tax

RequestsInv == EvidenceSurvivesStorage /\ TotalsAddUp
=============================================================================
