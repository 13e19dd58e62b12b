-------------------------------- MODULE Pandoc --------------------------------
(***************************************************************************)
(* internal/service/pandoc.go: the conversions, each an external program   *)
(* run in a directory of its own, which is made first and removed whatever *)
(* happens.  A conversion is a sequence of ways to do it, tried in turn; a *)
(* way is a sequence of commands, all of which must work.                  *)
(*                                                                         *)
(* A command leaves its result in a file, except those of in2csv, whose    *)
(* output is looked for in the buffer given to NewExecWithOutput.          *)
(***************************************************************************)
EXTENDS Naturals, Sequences

VARIABLES
    dir,       \* the conversion's temporary directory exists
    ways,      \* ways of the running conversion that are left, the current one first
    sheets     \* sheets of a workbook in the last text: "all", or "first" only

pandocVars == <<dir, ways, sheets>>

Commands == {"pdftohtml", "pandoc", "pandocSome", "libreoffice", "sheetToCsv",
             "antiword", "names", "postprocess"}

PandocTypeOK ==
    /\ dir \in BOOLEAN
    /\ ways \in Seq(Seq(Commands))
    /\ sheets \in {"all", "first"}

PandocInit == dir = FALSE /\ ways = <<>> /\ sheets = "all"

PdfToHtml == << <<"pdftohtml">> >>

DocToPdf == << <<"pandoc">> >>

HtmlToDocx == << <<"pandoc", "postprocess">> >>

DocToText == << <<"antiword">> >>

DocToHtml == << <<"libreoffice">> >>

libreOfficeToHtml == << <<"libreoffice">> >>

AnythingToHtml == << <<"pandoc">> >>

XlsToXlsx == << <<"libreoffice">> >>

DocxToHtml == << <<"libreoffice">> >>

convertExcelToMarkdownViaCsv == << <<"sheetToCsv">> >>

\* The table of each sheet would follow its name.
convertExcelViaIn2csv == << <<"names">> >> \o convertExcelToMarkdownViaCsv

ExcelToHtml == << <<"pandocSome">> >> \o convertExcelViaIn2csv

XlsToHtml == << <<"names">> >> \o convertExcelToMarkdownViaCsv

convertPptxViaLibreOffice == << <<"libreoffice">> >>

PptxToHtml == << <<"pandocSome">> >> \o convertPptxViaLibreOffice

PptToHtml == convertPptxViaLibreOffice

HtmlToMarkdown == << <<"pandoc">> >>

Ways(conversion) ==
    CASE conversion = "PdfToHtml"         -> PdfToHtml
      [] conversion = "DocToPdf"          -> DocToPdf
      [] conversion = "HtmlToDocx"        -> HtmlToDocx
      [] conversion = "DocToText"         -> DocToText
      [] conversion = "DocToHtml"         -> DocToHtml
      [] conversion = "libreOfficeToHtml" -> libreOfficeToHtml
      [] conversion = "AnythingToHtml"    -> AnythingToHtml
      [] conversion = "XlsToXlsx"         -> XlsToXlsx
      [] conversion = "DocxToHtml"        -> DocxToHtml
      [] conversion = "ExcelToHtml"       -> ExcelToHtml
      [] conversion = "XlsToHtml"         -> XlsToHtml
      [] conversion = "PptxToHtml"        -> PptxToHtml
      [] conversion = "PptToHtml"         -> PptToHtml
      [] conversion = "HtmlToMarkdown"    -> HtmlToMarkdown

Conversions ==
    {"PdfToHtml", "DocToPdf", "HtmlToDocx", "DocToText", "DocToHtml",
     "libreOfficeToHtml", "AnythingToHtml", "XlsToXlsx", "DocxToHtml",
     "ExcelToHtml", "XlsToHtml", "PptxToHtml", "PptToHtml", "HtmlToMarkdown"}

Command == Head(Head(ways))

\* ExecCommand returns what a program prints and leaves the buffer empty.
Prints(command) == FALSE

\* What may be found after a command: its status says it failed, there is no
\* file, there is a blank one, or one with a text.
Outcomes == {"failed", "nothing", "blank", "text"}

Works(command, outcome) ==
    CASE command = "names"      -> outcome # "failed" /\ Prints(command)
      [] command = "pandocSome" -> outcome = "text"
      [] OTHER                  -> outcome \in {"blank", "text"}

\* createTempDir and the input file.
Enter(conversion) ==
    /\ ~dir
    /\ dir' = TRUE
    /\ ways' = Ways(conversion)
    /\ UNCHANGED sheets

\* The directory is removed by a deferred call.
Leave == dir' = FALSE /\ ways' = <<>>

CommandWorks ==
    /\ dir
    /\ \E outcome \in Outcomes : Works(Command, outcome)
    /\ Len(Head(ways)) > 1
    /\ ways' = <<Tail(Head(ways))>> \o Tail(ways)
    /\ UNCHANGED <<dir, sheets>>

Converts ==
    /\ dir
    /\ \E outcome \in Outcomes : Works(Command, outcome)
    /\ Len(Head(ways)) = 1
    /\ sheets' = IF Command = "sheetToCsv" THEN "first" ELSE "all"
    /\ Leave

TriesNextWay ==
    /\ dir
    /\ \E outcome \in Outcomes : ~Works(Command, outcome)
    /\ Len(ways) > 1
    /\ ways' = Tail(ways)
    /\ UNCHANGED <<dir, sheets>>

ConversionFails ==
    /\ dir
    /\ \E outcome \in Outcomes : ~Works(Command, outcome)
    /\ Len(ways) = 1
    /\ Leave
    /\ UNCHANGED sheets
=============================================================================
