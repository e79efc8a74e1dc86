----------------------------- MODULE PdfArtifacts -----------------------------
(***************************************************************************)
(* The PDF of one fiscal document and the branding of its company: calls   *)
(* of generateOrReuse that race, the artifact rows they leave, the files   *)
(* they store and delete, and the uploads of logos meanwhile.  The bytes   *)
(* of a rendering depend on the second it happens in (PDFKit stamps it)    *)
(* and on the logo; the key of the file contains their hash, so a file is  *)
(* named by its content.                                                   *)
(***************************************************************************)
EXTENDS Naturals

CONSTANTS
    Generations,    \* calls of generateOrReuse
    Logos,          \* calls of uploadLogo, each with a key of its own
    LastSecond,     \* bound: the seconds the clock counts
    MaxPdfMishaps   \* bound: failed services, timeouts, crashes, damaged files

VARIABLES
    second,
    rows,          \* the FiscalArtifact rows of type PDF, not superseded
    files,         \* the state of each PDF file
    logoFiles,     \* the logos stored
    logo,          \* CompanyPdfSettings.logoStorageKey
    pdfPc, pdfMem,
    answer,        \* the content each successful call was answered with
    served,        \* the contents downloads were answered with
    logoPc,
    misled,        \* history: generations that lost to no other rendering they could see
    unanswered,    \* history: logo uploads whose commit was not answered
    pdfMishaps

pdfVars == <<second, rows, files, logoFiles, logo, pdfPc, pdfMem, answer, served,
             logoPc, misled, unanswered, pdfMishaps>>

None == "NONE"

Content == [second : 0..LastSecond, logo : Logos \cup {None}]
NoContent == [second |-> LastSecond + 1, logo |-> None]      \* not rendered yet
Historical == [second |-> LastSecond + 2, logo |-> None]     \* of an earlier renderer
AnyContent == Content \cup {NoContent, Historical}

\* What classifyFiscalPdfVersion makes of templateId, rendererVersion and marker.
Versions == {"VALID_REAL_CURRENT", "VALID_REAL_OLDER_VERSION", "HISTORICAL_MOCK",
             "WRONG_VERSION"}
Row == [version : Versions, content : Content \cup {Historical}]

Labels == {"find", "assess", "findAny", "branding", "render", "upload", "insert",
           "collision", "compensate", "done"}

TypeOK ==
    /\ second \in 0..LastSecond
    /\ rows \subseteq Row
    /\ files \in [AnyContent -> {"absent", "intact", "damaged"}]
    /\ logoFiles \subseteq Logos
    /\ logo \in Logos \cup {None}
    /\ pdfPc \in [Generations -> Labels]
    /\ pdfMem \in [Generations -> [logo : Logos \cup {None}, content : AnyContent]]
    /\ answer \in [Generations -> AnyContent]
    /\ served \subseteq AnyContent
    /\ logoPc \in [Logos -> {"store", "save", "compensate", "done"}]
    /\ misled \subseteq Generations
    /\ unanswered \subseteq Logos
    /\ pdfMishaps \in 0..MaxPdfMishaps

HistoricalRows == {[version |-> v, content |-> Historical] : v \in Versions \ {"VALID_REAL_CURRENT"}}

Init ==
    /\ second = 0
    /\ rows \in {{}} \cup {{r} : r \in HistoricalRows}
    /\ files = [c \in AnyContent |-> IF c = Historical /\ rows # {} THEN "intact" ELSE "absent"]
    /\ logoFiles = {}
    /\ logo = None
    /\ pdfPc = [g \in Generations |-> "find"]
    /\ pdfMem = [g \in Generations |-> [logo |-> None, content |-> NoContent]]
    /\ answer = [g \in Generations |-> NoContent]
    /\ served = {}
    /\ logoPc = [l \in Logos |-> "store"]
    /\ misled = {}
    /\ unanswered = {}
    /\ pdfMishaps = 0

-----------------------------------------------------------------------------
(* FiscalPdfArtifactStateService *)

Current == {r \in rows : r.version = "VALID_REAL_CURRENT"}

\* assess: the file, its hash, then what the version says of an intact file.
Assess(row) ==
    CASE files[row.content] = "absent"  -> "MISSING"
      [] files[row.content] = "damaged" -> "HASH_MISMATCH"
      [] OTHER -> row.version

Reusable(row) == Assess(row) = "VALID_REAL_CURRENT"

-----------------------------------------------------------------------------
(* One call of generateOrReuse *)

At(g, from, to) ==
    /\ pdfPc[g] = from
    /\ pdfPc' = [pdfPc EXCEPT ![g] = to]

LogosUnchanged == UNCHANGED <<logoFiles, logo, logoPc, unanswered>>

\* The row of the current template and renderer is looked up ...
FindCurrent(g) ==
    /\ At(g, "find", IF Current = {} THEN "findAny" ELSE "assess")
    /\ LogosUnchanged
    /\ UNCHANGED <<second, rows, files, pdfMem, answer, served, misled, pdfMishaps>>

\* ... and only an intact one is reused; anything else is refused.
ReuseCurrent(g) ==
    /\ At(g, "assess", "done")
    /\ \E row \in Current :
          answer' = IF Reusable(row) THEN [answer EXCEPT ![g] = row.content] ELSE answer
    /\ LogosUnchanged
    /\ UNCHANGED <<second, rows, files, pdfMem, served, misled, pdfMishaps>>

\* Variant of FindAny: a document with an older PDF gets a current one beside it.
IgnoreHistorical(g) ==
    /\ At(g, "findAny", "branding")
    /\ LogosUnchanged
    /\ UNCHANGED <<second, rows, files, pdfMem, answer, served, misled, pdfMishaps>>

\* Any other PDF of the document ends the call, in one exception or another.
FindAny(g) ==
    /\ At(g, "findAny", IF rows = {} THEN "branding" ELSE "done")
    /\ LogosUnchanged
    /\ UNCHANGED <<second, rows, files, pdfMem, answer, served, misled, pdfMishaps>>

\* getBrandingView: a logo that is missing, or not intact, is left out.
ReadBranding(g) ==
    /\ At(g, "branding", "render")
    /\ pdfMem' = [pdfMem EXCEPT ![g].logo = IF logo \in logoFiles THEN logo ELSE None]
    /\ LogosUnchanged
    /\ UNCHANGED <<second, rows, files, answer, served, misled, pdfMishaps>>

\* The signed XML is projected, rendered and verified within 30 seconds.
Render(g) ==
    /\ At(g, "render", "upload")
    /\ pdfMem' = [pdfMem EXCEPT ![g].content = [second |-> second, logo |-> pdfMem[g].logo]]
    /\ LogosUnchanged
    /\ UNCHANGED <<second, rows, files, answer, served, misled, pdfMishaps>>

\* Write-once storage refuses a key that holds other bytes, here damaged ones.
Upload(g) ==
    LET file == files[pdfMem[g].content] IN
    /\ At(g, "upload", IF file = "damaged" THEN "done" ELSE "insert")
    /\ files' = IF file = "damaged" THEN files
                ELSE [files EXCEPT ![pdfMem[g].content] = "intact"]
    /\ LogosUnchanged
    /\ UNCHANGED <<second, rows, pdfMem, answer, served, misled, pdfMishaps>>

CurrentRow(content) == [version |-> "VALID_REAL_CURRENT", content |-> content]

\* The unique key of document, type, template and version admits one row.
Insert(g) ==
    /\ At(g, "insert", "done")
    /\ Current = {}
    /\ rows' = rows \cup {CurrentRow(pdfMem[g].content)}
    /\ answer' = [answer EXCEPT ![g] = pdfMem[g].content]
    /\ LogosUnchanged
    /\ UNCHANGED <<second, files, pdfMem, served, misled, pdfMishaps>>

InsertCollides(g) ==
    /\ At(g, "insert", "collision")
    /\ Current # {}
    /\ LogosUnchanged
    /\ UNCHANGED <<second, rows, files, pdfMem, answer, served, misled, pdfMishaps>>

\* The insert fails for another reason, before its commit or after it.
InsertFails(g) ==
    /\ pdfMishaps < MaxPdfMishaps
    /\ At(g, "insert", "collision")
    /\ Current = {}
    /\ rows' \in {rows, rows \cup {CurrentRow(pdfMem[g].content)}}
    /\ pdfMishaps' = pdfMishaps + 1
    /\ LogosUnchanged
    /\ UNCHANGED <<second, files, pdfMem, answer, served, misled>>

\* Variant of MatchingWinners: every winner is the answer, whatever its bytes.
AnyWinner(g) == {row \in Current : Reusable(row)}

\* The winner with the same key, hash and size, still intact.
MatchingWinners(g) == {row \in Current : row.content = pdfMem[g].content /\ Reusable(row)}

FindWinner(g) ==
    /\ At(g, "collision", "done")
    /\ MatchingWinners(g) # {}
    /\ answer' = [answer EXCEPT ![g] = pdfMem[g].content]
    /\ LogosUnchanged
    /\ UNCHANGED <<second, rows, files, pdfMem, served, misled, pdfMishaps>>

NoteIfMisled(g) ==
    misled' = IF \E row \in Current : row.content # pdfMem[g].content THEN misled
              ELSE misled \cup {g}

FindNoWinner(g) ==
    /\ At(g, "collision", "compensate")
    /\ MatchingWinners(g) = {}
    /\ NoteIfMisled(g)
    /\ LogosUnchanged
    /\ UNCHANGED <<second, rows, files, pdfMem, answer, pdfMishaps, served>>

\* assess takes every error of a download for a missing file.
WinnerUnreadable(g) ==
    /\ pdfMishaps < MaxPdfMishaps
    /\ At(g, "collision", "compensate")
    /\ NoteIfMisled(g)
    /\ pdfMishaps' = pdfMishaps + 1
    /\ LogosUnchanged
    /\ UNCHANGED <<second, rows, files, pdfMem, answer, served>>

\* Variant of Compensate: the file of the row is deleted, not the uploaded one.
CompensateRow(g) ==
    /\ At(g, "compensate", "done")
    /\ files' = [c \in AnyContent |->
                   IF \E row \in Current : row.content = c THEN "absent" ELSE files[c]]
    /\ LogosUnchanged
    /\ UNCHANGED <<second, rows, pdfMem, answer, served, misled, pdfMishaps>>

\* Variant of Compensate: the call fails and the uploaded file stays.
CompensateNothing(g) ==
    /\ At(g, "compensate", "done")
    /\ LogosUnchanged
    /\ UNCHANGED <<second, rows, files, pdfMem, answer, served, misled, pdfMishaps>>

\* Otherwise the uploaded file is deleted, and the call fails.
Compensate(g) ==
    /\ At(g, "compensate", "done")
    /\ files' = [files EXCEPT ![pdfMem[g].content] = "absent"]
    /\ LogosUnchanged
    /\ UNCHANGED <<second, rows, pdfMem, answer, served, misled, pdfMishaps>>

\* Variant of Downloadable: an artifact of any renderer is served.
DownloadableAny(row) == files[row.content] = "intact"

\* requireDownloadable: intact, and of this renderer or an approved older one.
Downloadable(row) == Assess(row) \in {"VALID_REAL_CURRENT", "VALID_REAL_OLDER_VERSION"}

Download(row) ==
    /\ Downloadable(row)
    /\ served' = served \cup {row.content}
    /\ LogosUnchanged
    /\ UNCHANGED <<second, rows, files, pdfPc, pdfMem, answer, misled, pdfMishaps>>

\* A service fails, the rendering times out, or the process dies.
Abandon(g) ==
    /\ pdfMishaps < MaxPdfMishaps
    /\ pdfPc[g] # "done"
    /\ pdfPc' = [pdfPc EXCEPT ![g] = "done"]
    /\ pdfMishaps' = pdfMishaps + 1
    /\ LogosUnchanged
    /\ UNCHANGED <<second, rows, files, pdfMem, answer, served, misled>>

\* A stored file no longer has the hash on record.
Damage(c) ==
    /\ pdfMishaps < MaxPdfMishaps
    /\ files[c] = "intact"
    /\ files' = [files EXCEPT ![c] = "damaged"]
    /\ pdfMishaps' = pdfMishaps + 1
    /\ LogosUnchanged
    /\ UNCHANGED <<second, rows, pdfPc, pdfMem, answer, served, misled>>

Tick ==
    /\ second < LastSecond
    /\ second' = second + 1
    /\ LogosUnchanged
    /\ UNCHANGED <<rows, files, pdfPc, pdfMem, answer, served, misled, pdfMishaps>>

-----------------------------------------------------------------------------
(* One call of uploadLogo *)

PdfUnchanged == UNCHANGED <<second, rows, files, pdfPc, pdfMem, answer, served, misled>>

LogoAt(l, from, to) ==
    /\ logoPc[l] = from
    /\ logoPc' = [logoPc EXCEPT ![l] = to]

StoreLogo(l) ==
    /\ LogoAt(l, "store", "save")
    /\ logoFiles' = logoFiles \cup {l}
    /\ PdfUnchanged
    /\ UNCHANGED <<logo, unanswered, pdfMishaps>>

\* Variant of SaveLogo: the file of the previous logo is deleted with the row's change.
SaveLogoAndDeletePrevious(l) ==
    /\ LogoAt(l, "save", "done")
    /\ logo' = l
    /\ logoFiles' = logoFiles \ {x \in Logos : x # l}
    /\ PdfUnchanged
    /\ UNCHANGED <<unanswered, pdfMishaps>>

SaveLogo(l) ==
    /\ LogoAt(l, "save", "done")
    /\ logo' = l
    /\ PdfUnchanged
    /\ UNCHANGED <<logoFiles, unanswered, pdfMishaps>>

\* The upsert fails, with or without its effect; the file is then deleted.
SaveLogoFails(l) ==
    /\ pdfMishaps < MaxPdfMishaps
    /\ LogoAt(l, "save", "compensate")
    /\ \/ logo' = l /\ unanswered' = unanswered \cup {l}
       \/ UNCHANGED <<logo, unanswered>>
    /\ pdfMishaps' = pdfMishaps + 1
    /\ PdfUnchanged
    /\ UNCHANGED logoFiles

DeleteLogo(l) ==
    /\ LogoAt(l, "compensate", "done")
    /\ logoFiles' = logoFiles \ {l}
    /\ PdfUnchanged
    /\ UNCHANGED <<logo, unanswered, pdfMishaps>>

Step(g) ==
    \/ FindCurrent(g) \/ ReuseCurrent(g) \/ FindAny(g) \/ ReadBranding(g) \/ Render(g)
    \/ Upload(g) \/ Insert(g) \/ InsertCollides(g) \/ InsertFails(g) \/ FindWinner(g)
    \/ FindNoWinner(g) \/ WinnerUnreadable(g) \/ Compensate(g) \/ Abandon(g)

Next ==
    \/ \E g \in Generations : Step(g)
    \/ \E l \in Logos : StoreLogo(l) \/ SaveLogo(l) \/ SaveLogoFails(l) \/ DeleteLogo(l)
    \/ \E row \in rows : Download(row)
    \/ \E c \in AnyContent : Damage(c)
    \/ Tick

Spec == Init /\ [][Next]_pdfVars
-----------------------------------------------------------------------------
(* Properties *)

\* A document has one PDF: callers that race and downloads meanwhile are all
\* answered with the one row's bytes, in whichever seconds the callers rendered.
OnePdf ==
    /\ \A g \in Generations :
          answer[g] # NoContent => [version |-> "VALID_REAL_CURRENT", content |-> answer[g]] \in rows
    /\ \A c \in served : \E row \in rows : rows = {row} /\ row.content = c

\* A losing call deletes its own rendering, never the file of the row, unless it
\* could not see that the row holds another rendering: its insert failed before
\* there was a winner, or the winner's file could not be read.
RowHasFile ==
    \A row \in Current :
        files[row.content] = "absent" =>
            \E g \in misled : pdfMem[g].content = row.content

\* A PDF of an earlier renderer is never joined, replaced or deleted by generation,
\* and is served only if that renderer is an approved one.
HistoryIsKept ==
    \A row \in rows :
        row.version # "VALID_REAL_CURRENT" => 
            /\ rows = {row} /\ files[Historical] # "absent"
            /\ row.version # "VALID_REAL_OLDER_VERSION" => served = {}

\* When every call has ended, and none failed, no file is left without a row.
NoOrphanFile ==
    pdfMishaps = 0 /\ (\A g \in Generations : pdfPc[g] = "done") =>
        \A c \in AnyContent : files[c] # "absent" => \E row \in rows : row.content = c

\* The settings name a stored logo, whichever uploads race or fail, unless a
\* save took effect and was reported as failed.
LogoIsStored == logo \in logoFiles \cup unanswered \cup {None}

\* One PDF stands behind a document, with its file, and its history is untouched,
\* however generations race and fail; the logo it is made from is stored.
PdfInv ==
    /\ TypeOK
    /\ OnePdf
    /\ RowHasFile
    /\ HistoryIsKept
    /\ NoOrphanFile
    /\ LogoIsStored
=============================================================================
