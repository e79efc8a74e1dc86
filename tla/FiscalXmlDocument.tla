--------------------------- MODULE FiscalXmlDocument ---------------------------
(***************************************************************************)
(* From the stored document to its XML and back.  The serializer writes the *)
(* document of an accepted command, or refuses it after its number has been *)
(* spent; the signed file is kept; the projection reads it again for the    *)
(* PDF, after its size and its hash.  Signing keeps every element, so it is *)
(* not a step here.  An element is absent or has its value; the elements no *)
(* document of this program contains are left out.                         *)
(***************************************************************************)
EXTENDS FiscalRequests

VARIABLES
    xml,    \* the elements written, or why there are none
    file,   \* the signed file: "none", "intact", "changed", "oversized", "other"
    view    \* what the projection made of the file, or why it failed

xmlDocumentVars == <<command, stored, xml, file, view>>

NoXml == [error |-> "NONE", written |-> FALSE]
NoView == [error |-> "NONE", projected |-> FALSE]
NoElement == [present |-> FALSE]

IvaTaxCodes == {"01", "07"}
SupportedTaxCodes == {"01", "07"}
SupportedSaleConditions == {"01", "02"}
SupportedPaymentMethods == {"01", "06", "99"}

(* The serializer. *)

\* quantityDecimal: a quantity is cut to three places.
QuantityDecimal(units) == units - (units % QuantityUnit)

\* computeSummary: what belongs to a category or a tax group, in line order.
Taxed(line) == OrZero(line.tax) # 0
IsService(line) == line.cabys = "service"
GrossOf(lines, Member(_)) == Sum(lines, LAMBDA l : IF Member(l) THEN Gross(l) ELSE 0)

\* Variant of GroupKey: one group for a rate, whatever the code.
GroupOfRate(line) == <<"01", line.rateCode>>

\* Groups are the pairs of tax code and rate code of the taxed lines.
GroupKey(line) == <<line.taxCode, line.rateCode>>

TaxGroup(lines, k) ==
    [key |-> k,
     total |-> Sum(lines, LAMBDA l : IF Taxed(l) /\ GroupKey(l) = k THEN l.tax ELSE 0)]

TaxGroups(lines) ==
    {TaxGroup(lines, k) :
        k \in {GroupKey(lines[i]) : i \in {j \in DOMAIN lines : Taxed(lines[j])}}}

ComputeSummary(lines) ==
    LET taxable == GrossOf(lines, LAMBDA l : Taxed(l) /\ IsService(l))
                     + GrossOf(lines, LAMBDA l : Taxed(l) /\ ~IsService(l))
        exempt == GrossOf(lines, LAMBDA l : ~Taxed(l) /\ IsService(l))
                     + GrossOf(lines, LAMBDA l : ~Taxed(l) /\ ~IsService(l))
        discounts == Sum(lines, LAMBDA l : OrZero(l.discount))
        taxes == Sum(lines, LAMBDA l : OrZero(l.tax)) IN
    [taxable |-> taxable, exempt |-> exempt, sale |-> taxable + exempt,
     discounts |-> discounts, netSale |-> taxable + exempt - discounts,
     groups |-> TaxGroups(lines), tax |-> taxes,
     total |-> taxable + exempt - discounts + taxes]

\* appendDiscount, checked again because documents may be older than the checks.
AppendDiscount(line) ==
    IF OrZero(line.discount) = 0 THEN NoElement
    ELSE [present |-> TRUE, amount |-> line.discount, code |-> line.discountCode,
          other |-> line.other, nature |-> line.nature]

\* The tax elements of a line: they are written together or not at all.
AppendTax(line) ==
    IF ~Taxed(line) THEN NoElement
    ELSE [present |-> TRUE, base |-> Net(line), code |-> line.taxCode,
          rateCode |-> line.rateCode, rate |-> line.rate, amount |-> line.tax,
          net |-> line.tax]

AppendLine(line) ==
    [cabys |-> line.cabys, quantity |-> QuantityDecimal(line.quantity), unit |-> line.unit,
     detail |-> line.description, unitPrice |-> line.unitPrice, gross |-> Gross(line),
     discount |-> AppendDiscount(line), subtotal |-> Net(line), tax |-> AppendTax(line),
     total |-> LineTotal(line)]

\* The receiver as a party: its location is written when it has a province.
AppendReceiver(r) ==
    IF ~r.present THEN NoElement
    ELSE [present |-> TRUE, name |-> r.name, idType |-> r.idType, idNumber |-> r.idNumber,
          location |-> IF r.province THEN <<"province", r.canton>> ELSE <<>>,
          email |-> r.email]

\* extractReceiverActivityCode: invoices only, six characters, never cut or padded.
ReceiverActivity(type, r) ==
    IF type = "INVOICE" /\ r.present /\ r.activity \in {"six", "five"}
      THEN r.activity ELSE "absent"

RequirePartyChecks(r) ==
    Refusal(<< Check(r.present /\ (r.name = "absent" \/ r.idNumber = "absent"),
                     "FISCAL_XML_PARTY_FIELD_REQUIRED") >>)

\* What appendDiscount asks of a discount, and appendLine of a tax.
DiscountXmlChecks(line) ==
    IF ~AppendDiscount(line).present THEN "NONE"
    ELSE Refusal(<< Check(Net(line) < 0, "FISCAL_XML_INVALID_DISCOUNT_AMOUNT"),
                    Check(~Given(line.discountCode) \/ ~Given(line.nature),
                          "FISCAL_XML_DISCOUNT_METADATA_REQUIRED"),
                    Check(line.discountCode \notin DiscountCodes,
                          "FISCAL_XML_INVALID_DISCOUNT_CODE"),
                    Check(~Said(line.nature), "FISCAL_XML_INVALID_DISCOUNT_NATURE"),
                    Check(line.discountCode = "99" /\ ~Said(line.other),
                          "FISCAL_XML_DISCOUNT_OTHER_REQUIRED"),
                    Check(line.discountCode # "99" /\ Given(line.other),
                          "FISCAL_XML_DISCOUNT_OTHER_NOT_ALLOWED") >>)

TaxXmlChecks(line) ==
    IF ~Taxed(line) THEN "NONE"
    ELSE Refusal(<< Check(~Given(line.taxCode), "FISCAL_XML_TAX_METADATA_REQUIRED"),
                    Check(line.taxCode \notin SupportedTaxCodes,
                          "FISCAL_XML_UNSUPPORTED_TAX_CODE"),
                    Check(line.taxCode \in IvaTaxCodes
                            /\ (~Given(line.rateCode) \/ line.rate = Absent),
                          "FISCAL_XML_IVA_RATE_CODE_REQUIRED") >>)

LineXmlChecks(line) ==
    Refusal(<< Check(line.unit \notin Units, "FISCAL_XML_UNSUPPORTED_CATALOG"),
               Group(DiscountXmlChecks(line)), Group(TaxXmlChecks(line)) >>)

\* The credit term goes with a credit sale and with no other.
CreditTermChecks(s) ==
    Refusal(<< Check(s.sale = "02" /\ s.term = Absent, "FISCAL_XML_CREDIT_TERM_REQUIRED"),
               Check(s.sale # "02" /\ s.term # Absent, "FISCAL_XML_CREDIT_TERM_NOT_ALLOWED") >>)

\* Everything serialize may refuse, in the order it looks.
XmlRefusal(s) ==
    Refusal(<< Check(s.sale \notin SupportedSaleConditions, "FISCAL_XML_UNSUPPORTED_CATALOG"),
               Check(Given(s.method) /\ s.method \notin SupportedPaymentMethods,
                     "FISCAL_XML_UNSUPPORTED_CATALOG"),
               Check(s.lines = <<>>, "FISCAL_XML_LINES_REQUIRED"),
               Group(RequirePartyChecks(s.receiver)),
               Check(ReceiverActivity(s.type, s.receiver) = "five",
                     "FISCAL_XML_INVALID_RECEIVER_ACTIVITY"),
               Check(s.receiver.present /\ s.receiver.idType \notin IdentificationTypes,
                     "FISCAL_XML_UNSUPPORTED_CATALOG"),
               Check(s.receiver.present /\ s.receiver.province /\ ~s.receiver.canton,
                     "TypeError"),
               Group(CreditTermChecks(s)),
               Group(EachLine(s.lines, LineXmlChecks)) >>)

\* ResumenFactura and what is around it.
Document(s) ==
    [error |-> "NONE", written |-> TRUE, type |-> s.type,
     activity |-> ReceiverActivity(s.type, s.receiver),
     receiver |-> AppendReceiver(s.receiver), sale |-> s.sale, term |-> s.term,
     lines |-> [i \in DOMAIN s.lines |-> AppendLine(s.lines[i])],
     currency |-> s.currency, rate |-> IF s.rate = Absent THEN Factor ELSE s.rate,
     summary |-> ComputeSummary(s.lines),
     payment |-> IF Given(s.method)
                   THEN [present |-> TRUE, type |-> s.method,
                         total |-> ComputeSummary(s.lines).total]
                   ELSE NoElement]

(* The projection. *)

Blank(text) == text \in {"blank", "absent"}

\* line: what each LineaDetalle must contain, ImpuestoNeto included.
LineRefusal(line) ==
    Refusal(<< Check(Blank(line.detail), "Detalle"),
               Check(line.discount.present /\ Blank(line.discount.code), "CodigoDescuento"),
               Check(~line.tax.present, "ImpuestoNeto") >>)

ProjectedLine(line) ==
    [quantity |-> line.quantity, unitPrice |-> line.unitPrice, gross |-> line.gross,
     discounts |-> IF line.discount.present THEN <<line.discount>> ELSE <<>>,
     subtotal |-> line.subtotal,
     taxes |-> IF line.tax.present THEN <<line.tax>> ELSE <<>>, total |-> line.total]

\* receiver and party: an invoice has one, its texts may lack.
ProjectedReceiver(x) ==
    IF ~x.receiver.present THEN NoElement
    ELSE [present |-> TRUE, name |-> x.receiver.name, activity |-> x.activity]

ProjectedPayments(x) == IF x.payment.present THEN <<x.payment>> ELSE <<>>

ProjectionRefusal(x) ==
    Refusal(<< Check(x.type = "INVOICE" /\ ~x.receiver.present, "Receptor"),
               Group(EachLine(x.lines, LineRefusal)) >>)

Projected(x) ==
    [error |-> "NONE", projected |-> TRUE, type |-> x.type, receiver |-> ProjectedReceiver(x),
     sale |-> x.sale, currency |-> x.currency, rate |-> x.rate,
     lines |-> [i \in DOMAIN x.lines |-> ProjectedLine(x.lines[i])],
     payments |-> ProjectedPayments(x),
     gross |-> x.summary.sale, net |-> x.summary.netSale, total |-> x.summary.total,
     groups |-> x.summary.groups]

\* assertBounds and the checks of the root: a file that is no document of this program.
FormRefusal(f) == IF f = "other" THEN "XML_SECURITY_REJECTED" ELSE "NONE"

\* Variant of SameHash: the bytes are not hashed again.
HashIsTrusted(f) == TRUE

\* sameHash: is this the file whose hash is stored?
SameHash(f) == f = "intact"

ParserRefusal(f) ==
    Refusal(<< Check(f = "oversized", "SIGNED_XML_OVERSIZED"),
               Check(~SameHash(f), "SIGNED_XML_HASH_MISMATCH"),
               Check(FormRefusal(f) # "NONE", FormRefusal(f)) >>)

Failed(error) == [error |-> error, projected |-> FALSE]

NothingWritten == xml = NoXml /\ file = "none" /\ view = NoView
XmlDocumentInit == RequestsInit /\ NothingWritten

CreateDocument == Create /\ UNCHANGED <<xml, file, view>>

Serialize ==
    /\ stored.kept /\ xml = NoXml
    /\ xml' = IF XmlRefusal(stored) # "NONE"
                THEN [error |-> XmlRefusal(stored), written |-> FALSE]
                ELSE Document(stored)
    /\ UNCHANGED <<command, stored, file, view>>

\* The signed file is stored; what is read later may not be what was written.
KeepFile ==
    /\ xml.written /\ file = "none"
    /\ file' \in {"intact", "changed", "oversized", "other"}
    /\ UNCHANGED <<command, stored, xml, view>>

Project ==
    /\ file # "none" /\ view = NoView
    /\ view' = IF ParserRefusal(file) # "NONE" THEN Failed(ParserRefusal(file))
               ELSE IF ProjectionRefusal(xml) # "NONE" THEN Failed("PROJECTION_FAILED")
               ELSE Projected(xml)
    /\ UNCHANGED <<command, stored, xml, file>>

XmlDocumentNext == CreateDocument \/ Serialize \/ KeepFile \/ Project

-----------------------------------------------------------------------------
(* Properties. *)

XmlLines == {xml.lines[i] : i \in DOMAIN xml.lines}

\* The summary of the XML is that of its lines and of the stored totals: nothing is
\* lost between categories, groups and lines (computeSummary against appendLine and
\* calculateTotals).
SummaryAddsUp ==
    xml.written =>
        /\ xml.summary.total = Sum(xml.lines, LAMBDA l : l.total)
        /\ xml.summary.netSale = Sum(xml.lines, LAMBDA l : l.subtotal)
        /\ xml.summary.sale = stored.totals.gross
        /\ xml.summary.discounts = stored.totals.discount
        /\ xml.summary.total = stored.totals.total
        /\ \A g \in xml.summary.groups :
             g.total = Sum(xml.lines,
                           LAMBDA l : IF l.tax.present
                                         /\ <<l.tax.code, l.tax.rateCode>> = g.key
                                      THEN l.tax.amount ELSE 0)

\* The amount of a line is its printed quantity times its price, except where the
\* quantity has more places than are printed.
LineAmountsMatch ==
    xml.written =>
        \A i \in DOMAIN xml.lines :
            stored.lines[i].quantity % QuantityUnit = 0
                => xml.lines[i].gross = Multiply(xml.lines[i].quantity, xml.lines[i].unitPrice)

\* What creation accepts can be serialised, with three exceptions it does not look for:
\* a tax code other than 01 and 07, a receiver's activity code that has not six
\* characters, a receiver's province without the rest of its location.
AcceptedIsSerialisable ==
    (stored.kept /\ xml.error # "NONE")
        => \/ \E i \in DOMAIN stored.lines :
                Taxed(stored.lines[i]) /\ stored.lines[i].taxCode = "02"
           \/ stored.type = "INVOICE" /\ stored.receiver.activity = "five"
           \/ stored.receiver.province /\ ~stored.receiver.canton

\* What was serialised can be represented, with two exceptions: a line without tax,
\* and a description of spaces.
SerialisedIsRepresentable ==
    (file = "intact" /\ view.error # "NONE")
        => \E l \in XmlLines : l.detail = "blank" \/ ~l.tax.present

\* Only the file that was signed is represented, and with its amounts.
ViewIsOfTheFile ==
    view.projected =>
        /\ file = "intact"
        /\ view.total = stored.totals.total
        /\ \A i \in DOMAIN view.payments : view.payments[i].total = view.total

XmlDocumentInv ==
    /\ RequestsInv /\ SummaryAddsUp /\ LineAmountsMatch
    /\ AcceptedIsSerialisable /\ SerialisedIsRepresentable /\ ViewIsOfTheFile
=============================================================================
