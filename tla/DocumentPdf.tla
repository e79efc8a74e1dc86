----------------------------- MODULE DocumentPdf -----------------------------
(***************************************************************************)
(* The pages BillingDefaultV1PdfRendererAdapter.render draws for one fiscal *)
(* document: page header, identification, parties, a table of atomic rows   *)
(* that goes on from page to page, totals, and the QR code in the lower     *)
(* right corner of the last page.  Everything is placed by hand at a height *)
(* y in points, so what must not happen is arithmetic: a row that runs into *)
(* the footer, totals under the QR code, text so low that PDFKit adds a     *)
(* page of its own.  Widths, fonts and wording are left out; a row is as    *)
(* high as its description makes it.                                        *)
(***************************************************************************)
EXTENDS Naturals

CONSTANTS ContentHeights,   \* heights of a row's highest cell
          MaxRows           \* bound: rows of one document

VARIABLES
    pdfPc,     \* the block to draw next
    shape,     \* what of the document decides the height of its blocks
    page, y,   \* where the next block goes
    box,       \* the block drawn last: its page, kind, top and bottom
    above,     \* the block drawn before it
    headed,    \* the last page with the table's column headers
    moved,     \* the height of the row that goes to the next page, or 0
    rows       \* rows drawn

documentPdfVars == <<pdfPc, shape, page, y, box, above, headed, moved, rows>>

PageHeight == 842
Margin == 40
QrSize == 72
FooterSafeTop == PageHeight - Margin - QrSize - 35
PageNumberY == PageHeight - 38
QrTop == PageHeight - Margin - QrSize
TextBottom == PageHeight - 18   \* below it PDFKit starts a page by itself

TextHeight == 9

Kinds == {"none", "header", "identification", "parties", "columns", "row", "totals",
          "qr", "number"}

Shapes == [address : BOOLEAN, phone : BOOLEAN,
           receiver : {"none", "anonymous", "identified"}, rate : BOOLEAN]

\* The header's lines: bar, name, number, and the address and telephone that are known.
\* Here and in PartiesHeight each text is taken to fit on one line.  The code lets the names
\* and the address wrap, so a very long one would run into the next block; no caller at run
\* time uses this rendering any more.
HeaderHeight ==
    74 + (IF shape.address THEN 12 ELSE 0) + (IF shape.phone THEN 12 ELSE 0)

PartiesHeight ==
    64 + (CASE shape.receiver = "none" -> 0
            [] shape.receiver = "anonymous" -> 24
            [] OTHER -> 36)

RowHeight(content) == IF content + 8 > 20 THEN content + 8 ELSE 20

\* What the totals need: a gap, four rows and perhaps the exchange rate.
TotalsHeight == 80 + (IF shape.rate THEN 12 ELSE 0)

\* Variant of RowFits: the reserved area is measured from where the row starts.
RowStarts(height) == y <= FooterSafeTop

\* A row is moved whole to the next page when it would cross the reserved area.
RowFits(height) == y + height <= FooterSafeTop

\* Variant of TotalsFit: the totals always follow the table.
TotalsFollow == TRUE

\* renderTotalsBlock reserves 96 points.
TotalsFit == y + 96 <= FooterSafeTop

Draw(kind, onPage, top, height) ==
    /\ box' = [page |-> onPage, kind |-> kind, top |-> top, bottom |-> top + height]
    /\ above' = box

DocumentPdfInit ==
    /\ pdfPc = "header"
    /\ shape \in Shapes
    /\ page = 1 /\ y = Margin
    /\ box = [page |-> 1, kind |-> "none", top |-> 0, bottom |-> 0]
    /\ above = box
    /\ headed = 0
    /\ moved = 0
    /\ rows = 0

\* renderPageHeader, on the first page and on every page the table goes on to.
PageHeader ==
    /\ pdfPc = "header"
    /\ Draw("header", page, Margin, HeaderHeight - 8)
    /\ y' = Margin + HeaderHeight
    /\ pdfPc' = IF page = 1 THEN "identification" ELSE "columns"
    /\ UNCHANGED <<shape, page, headed, moved, rows>>

IdentificationBlock ==
    /\ pdfPc = "identification"
    /\ Draw("identification", page, y, 60)
    /\ y' = y + 68
    /\ pdfPc' = "parties"
    /\ UNCHANGED <<shape, page, headed, moved, rows>>

PartiesBlock ==
    /\ pdfPc = "parties"
    /\ Draw("parties", page, y, PartiesHeight - 8)
    /\ y' = y + PartiesHeight
    /\ pdfPc' = "columns"
    /\ UNCHANGED <<shape, page, headed, moved, rows>>

ColumnHeaders ==
    /\ pdfPc = "columns"
    /\ Draw("columns", page, y, 16)
    /\ y' = y + 18
    /\ headed' = page
    /\ pdfPc' = IF page = 1 THEN "rows" ELSE "row"
    /\ UNCHANGED <<shape, page, moved, rows>>

DrawRow(height) ==
    /\ Draw("row", page, y, height)
    /\ y' = y + height
    /\ rows' = rows + 1

\* The next line, on this page when it fits.
Row ==
    /\ pdfPc = "rows" /\ rows < MaxRows
    /\ \E content \in ContentHeights :
         /\ RowFits(RowHeight(content))
         /\ DrawRow(RowHeight(content))
    /\ UNCHANGED <<pdfPc, shape, page, headed, moved>>

\* A line that does not fit takes a page, whose header and columns come first.
ContinuationPage ==
    /\ pdfPc = "rows" /\ rows < MaxRows
    /\ \E content \in ContentHeights :
         /\ ~RowFits(RowHeight(content))
         /\ moved' = RowHeight(content)
    /\ page' = page + 1
    /\ pdfPc' = "header"
    /\ UNCHANGED <<shape, y, box, above, headed, rows>>

MovedRow ==
    /\ pdfPc = "row"
    /\ DrawRow(moved)
    /\ moved' = 0
    /\ pdfPc' = "rows"
    /\ UNCHANGED <<shape, page, headed>>

TableEnds ==
    /\ pdfPc = "rows"
    /\ y' = y + 8
    /\ pdfPc' = "totals"
    /\ UNCHANGED <<shape, page, box, above, headed, moved, rows>>

\* The totals follow the table, or take a page without header.
TotalsBlock ==
    /\ pdfPc = "totals"
    /\ LET top == IF TotalsFit THEN y ELSE Margin + 20
           onPage == IF TotalsFit THEN page ELSE page + 1 IN
       /\ Draw("totals", onPage, top, TotalsHeight)
       /\ page' = onPage
       /\ y' = top + TotalsHeight
    /\ pdfPc' = "qr"
    /\ UNCHANGED <<shape, headed, moved, rows>>

\* renderFinalPageFooter: the label, the code and the footer of the last page.
FinalPageFooter ==
    /\ pdfPc = "qr"
    /\ Draw("qr", page, QrTop - 10, QrSize + 10)
    /\ pdfPc' = "number"
    /\ UNCHANGED <<shape, page, y, headed, moved, rows>>

PageNumbers ==
    /\ pdfPc = "number"
    /\ Draw("number", page, PageNumberY, TextHeight)
    /\ pdfPc' = "done"
    /\ UNCHANGED <<shape, page, y, headed, moved, rows>>

DocumentPdfNext ==
    \/ PageHeader \/ IdentificationBlock \/ PartiesBlock \/ ColumnHeaders
    \/ Row \/ ContinuationPage \/ MovedRow \/ TableEnds
    \/ TotalsBlock \/ FinalPageFooter \/ PageNumbers

-----------------------------------------------------------------------------
(* Properties. *)

\* What is drawn is drawn below what was drawn before it on that page: a row never
\* runs over another, nor the totals under the QR code (renderLineItemsTable,
\* renderTotalsBlock, renderFinalPageFooter).
NothingOverlaps ==
    (box.page = above.page /\ above.kind # "none") => box.top >= above.bottom

\* Nothing is drawn so low that PDFKit would start a page by itself, and rows and
\* totals stay out of the area reserved for the QR code.
StaysOnPage ==
    /\ box.bottom <= TextBottom
    /\ box.kind = "row" => box.bottom <= FooterSafeTop
    /\ box.kind = "totals" => box.bottom <= QrTop - 10

\* Every row stands on a page with column headers.
RowsAreHeaded == box.kind = "row" => headed = box.page

DocumentPdfInv ==
    /\ box.kind \in Kinds /\ rows <= MaxRows
    /\ NothingOverlaps /\ StaysOnPage /\ RowsAreHeaded
=============================================================================
