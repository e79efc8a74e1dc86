-------------------------- MODULE RepresentationPdf --------------------------
(***************************************************************************)
(* The PDF of a signed document: renderRepresentation draws the projected   *)
(* view section by section, asking before every block whether it still fits *)
(* and starting a page when it does not, then fetches the QR code if one is *)
(* wanted, writes the footers and lets the PDF flow out.  The attempt may   *)
(* be aborted: before it starts, while the QR code is made, or while the    *)
(* bytes flow (drawing itself never yields).  What a text says is left out; *)
(* it is as high as its wrapping makes it.                                  *)
(***************************************************************************)
EXTENDS Naturals, Sequences

CONSTANTS TextHeights, RowHeights,  \* heights texts and table rows may have
          MaxTexts,                 \* bound: texts of one section or line
          MaxLines                  \* bound: lines of the document

VARIABLES
    drawPc,      \* what is drawn next
    section,     \* the section being drawn
    texts,       \* its texts so far
    lines,       \* lines drawn
    page, y,     \* where the next block goes
    box, above,  \* the last block and the one before it: page, kind, top, bottom
    qr,          \* is a QR code wanted
    footers,     \* pages with a footer
    signal,      \* "none", "quiet" or "aborted"
    listening,   \* the attempt listens to the signal
    promise      \* "pending", "resolved" or "rejected"

representationPdfVars == <<drawPc, section, texts, lines, page, y, box, above, qr, footers,
                           signal, listening, promise>>
layoutVars == <<section, texts, lines, page, y, box, above>>

PageHeight == 842
Margin == 40
QrSize == 72
ContentBottom == PageHeight - Margin - 26
TextBottom == PageHeight - Margin   \* below it PDFKit starts a page by itself
FirstY == Margin + 39               \* newPage: bar, title and key of the document

\* The sections in their order, and those a document may lack.
Sections == <<"identification", "issuer", "receiver", "sale", "lines", "summary",
              "charges", "references", "information", "additional">>
Optional == {"receiver", "charges", "references", "information", "additional"}
Position == [s \in {Sections[i] : i \in DOMAIN Sections} |->
               CHOOSE i \in DOMAIN Sections : Sections[i] = s]

\* Variant of Fits: the block may start anywhere above the bottom.
StartsAbove(height) == y <= ContentBottom

\* ensure: does a block of this height need a page of its own?
Fits(height) == y + height <= ContentBottom

\* Put a block where it fits: y afterwards is its top and what it takes.
Place(kind, needs, height, takes) ==
    LET onPage == IF Fits(needs) THEN page ELSE page + 1
        top == IF Fits(needs) THEN y ELSE FirstY IN
    /\ box' = [page |-> onPage, kind |-> kind, top |-> top, bottom |-> top + height]
    /\ above' = box
    /\ page' = onPage
    /\ y' = top + takes

Goto(at) == drawPc' = at

RepresentationPdfInit ==
    /\ drawPc = "start"
    /\ section = "identification" /\ texts = 0 /\ lines = 0
    /\ page = 1 /\ y = FirstY
    /\ box = [page |-> 0, kind |-> "none", top |-> 0, bottom |-> 0]
    /\ above = box
    /\ qr \in {"none", "https", "invalid"}
    /\ footers = {}
    /\ signal \in {"none", "quiet", "aborted"}
    /\ listening = FALSE
    /\ promise = "pending"

\* An aborted signal or a QR payload that is no HTTPS URL is an error at once.
Refused ==
    /\ drawPc = "start"
    /\ signal = "aborted" \/ qr = "invalid"
    /\ promise' = "rejected"
    /\ Goto("over")
    /\ UNCHANGED <<layoutVars, qr, footers, signal, listening>>

Start ==
    /\ drawPc = "start"
    /\ signal # "aborted" /\ qr # "invalid"
    /\ listening' = (signal # "none")
    /\ Goto("heading")
    /\ UNCHANGED <<layoutVars, qr, footers, signal, promise>>

Heading ==
    /\ drawPc = "heading"
    /\ Place("heading", 22, 13, 19)
    /\ Goto(IF section = "lines" THEN "columns" ELSE "texts")
    /\ UNCHANGED <<section, texts, lines, qr, footers, signal, listening, promise>>

\* text, amount and the texts of party: absent values are skipped.
Text ==
    /\ drawPc \in {"texts", "details"} /\ texts < MaxTexts
    /\ \E height \in TextHeights : Place("text", height + 3, height, height + 3)
    /\ texts' = texts + 1
    /\ UNCHANGED <<drawPc, section, lines, qr, footers, signal, listening, promise>>

ColumnHeaders ==
    /\ drawPc = "columns"
    /\ Place("columns", 19, 16, 19)
    /\ Goto("line")
    /\ UNCHANGED <<section, texts, lines, qr, footers, signal, listening, promise>>

\* line: the row of an item; on a new page the column headers come first.
LineRow ==
    /\ drawPc = "line" /\ lines < MaxLines
    /\ \E height \in RowHeights :
         LET top == IF Fits(height) THEN y ELSE FirstY + 19
             onPage == IF Fits(height) THEN page ELSE page + 1
             columns == [page |-> onPage, kind |-> "columns",
                         top |-> FirstY, bottom |-> FirstY + 16] IN
         /\ box' = [page |-> onPage, kind |-> "row", top |-> top, bottom |-> top + height]
         /\ above' = IF Fits(height) THEN box ELSE columns
         /\ page' = onPage
         /\ y' = top + height + 2
    /\ lines' = lines + 1
    /\ texts' = 0
    /\ Goto("details")
    /\ UNCHANGED <<section, qr, footers, signal, listening, promise>>

\* Amounts, discounts, taxes, exemptions of the item are done: the next item.
LineEnds ==
    /\ drawPc = "details" /\ texts > 0
    /\ Goto("line")
    /\ UNCHANGED <<layoutVars, qr, footers, signal, listening, promise>>

\* The next section; those the view lacks are passed over.
NextSection ==
    /\ (drawPc = "texts" /\ texts > 0) \/ (drawPc = "line" /\ lines > 0)
    /\ LET here == Position[section] IN
       \/ \E i \in (here + 1) .. Len(Sections) :
            /\ \A j \in (here + 1) .. (i - 1) : Sections[j] \in Optional
            /\ section' = Sections[i]
            /\ texts' = 0
            /\ Goto("heading")
       \/ /\ \A j \in (here + 1) .. Len(Sections) : Sections[j] \in Optional
          /\ Goto(IF qr = "https" THEN "qr" ELSE "finish")
          /\ UNCHANGED <<section, texts>>
    /\ UNCHANGED <<lines, page, y, box, above, qr, footers, signal, listening, promise>>

\* A page with room for the code; the code itself comes later.
AskForQr ==
    /\ drawPc = "qr"
    /\ page' = IF Fits(QrSize + 20) THEN page ELSE page + 1
    /\ y' = IF Fits(QrSize + 20) THEN y ELSE FirstY
    /\ Goto("making qr")
    /\ UNCHANGED <<section, texts, lines, box, above, qr, footers, signal, listening, promise>>

\* Settled or aborted meanwhile: the code is dropped and the attempt just ends.
LateQr ==
    /\ drawPc = "making qr"
    /\ promise # "pending" \/ signal = "aborted"
    /\ Goto("over")
    /\ UNCHANGED <<layoutVars, qr, footers, signal, listening, promise>>

\* The code, whose caption may touch the end of the line above.
QrArrives ==
    /\ drawPc = "making qr"
    /\ promise = "pending" /\ signal # "aborted"
    /\ box' = [page |-> page, kind |-> "qr", top |-> y, bottom |-> y + QrSize]
    /\ above' = box
    /\ Goto("finish")
    /\ UNCHANGED <<section, texts, lines, page, y, qr, footers, signal, listening, promise>>

\* The library fails: the promise is rejected without the clean-up of rejectOnce.
QrFails ==
    /\ drawPc = "making qr"
    /\ promise' = IF promise = "pending" THEN "rejected" ELSE promise
    /\ Goto("over")
    /\ UNCHANGED <<layoutVars, qr, footers, signal, listening>>

\* finishRepresentationPdf: footer and number on every page, and the stream ends.
Finish ==
    /\ drawPc = "finish"
    /\ footers' = 1 .. page
    /\ Goto("flowing")
    /\ UNCHANGED <<layoutVars, qr, signal, listening, promise>>

\* Variant of Settle: the listener is not removed.
SettleListening(outcome) ==
    /\ promise' = IF promise = "pending" THEN outcome ELSE promise
    /\ UNCHANGED listening

\* resolveOnce, rejectOnce: only the first of them counts, and it stops listening.
Settle(outcome) ==
    /\ promise' = IF promise = "pending" THEN outcome ELSE promise
    /\ listening' = (listening /\ promise # "pending")

StreamEnds ==
    /\ drawPc = "flowing"
    /\ Settle("resolved")
    /\ Goto("over")
    /\ UNCHANGED <<layoutVars, qr, footers, signal>>

StreamFails ==
    /\ drawPc = "flowing"
    /\ Settle("rejected")
    /\ Goto("over")
    /\ UNCHANGED <<layoutVars, qr, footers, signal>>

\* The owner of the attempt gives up; a stream that is destroyed never ends.
Abort ==
    /\ signal = "quiet" /\ drawPc \in {"start", "making qr", "flowing", "over"}
    /\ signal' = "aborted"
    /\ IF listening
         THEN /\ Settle("rejected")
              /\ Goto(IF drawPc = "flowing" THEN "over" ELSE drawPc)
         ELSE UNCHANGED <<promise, listening, drawPc>>
    /\ UNCHANGED <<layoutVars, qr, footers>>

RepresentationPdfNext ==
    \/ Refused \/ Start \/ Heading \/ Text \/ ColumnHeaders \/ LineRow \/ LineEnds
    \/ NextSection \/ AskForQr \/ LateQr \/ QrArrives \/ QrFails
    \/ Finish \/ StreamEnds \/ StreamFails \/ Abort

-----------------------------------------------------------------------------
(* Properties. *)

\* Blocks of one page never run over each other, and none is so low that PDFKit
\* starts a page nobody counted (ensure, contentBottom).
LayoutIsSound ==
    /\ box.page = above.page => box.top >= above.bottom
    /\ box.page >= above.page
    /\ box.bottom <= ContentBottom /\ ContentBottom < TextBottom

\* An attempt that succeeded has every page numbered, and was not aborted before.
ResolvedIsComplete ==
    promise = "resolved" => footers = 1 .. page

\* A settled attempt no longer listens to its signal, except after a QR failure.
NoListenerLeft ==
    (promise # "pending" /\ listening) => (qr = "https" /\ drawPc = "over" /\ footers = {})

RepresentationPdfInv ==
    /\ promise \in {"pending", "resolved", "rejected"} /\ section \in DOMAIN Position
    /\ LayoutIsSound /\ ResolvedIsComplete /\ NoListenerLeft
=============================================================================
