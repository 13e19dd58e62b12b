------------------------------- MODULE Formats -------------------------------
(***************************************************************************)
(* How a document's format is found and which tools turn it into text:     *)
(* internal/service/formats.go, endpoints_parse_markdown.go,               *)
(* endpoints_eke_extract.go and the fallback chains of pandoc.go.          *)
(*                                                                         *)
(* A content type is represented by the format its predicates recognise,   *)
(* "octet" for application/octet-stream, "none" where there is none,       *)
(* "html" and "other" for what is no document format.  An extension is     *)
(* represented likewise.                                                   *)
(***************************************************************************)
EXTENDS Sequences

Office == {"doc", "docx", "ppt", "pptx", "xls", "xlsx"}

OpenOffice == {"odt", "ods", "odp", "rtf", "rst"}

\* "none" for a format that was not determined.
Formats == Office \union OpenOffice \union {"pdf", "csv", "tsv", "plain", "none"}

Types == Formats \union {"octet", "html", "other"}

\* fmtTypeByExtension
ByExtension == Office \union {"csv", "tsv", "pdf"}

\* The switch of determineFmtType.
ByContentType == Office \union {"csv", "pdf", "plain"}

\* A type that says nothing of the format: the extension is looked at first.
Generic == {"plain", "octet", "none"}

FormatOf(type, extension) ==
    IF type \in Generic /\ extension \in ByExtension THEN extension
    ELSE IF type \in ByContentType THEN type
    ELSE "none"

-----------------------------------------------------------------------------
(***************************************************************************)
(* What a request's text is made with: a sequence of stages, all of which  *)
(* must succeed, each a sequence of tools, of which one must, in the order *)
(* in which they are tried.  A tool is a conversion of Pandoc, or one of   *)
(* the others: "go" is work of the server itself, which may fail.  A stage *)
(* without a tool fails.                                                   *)
(***************************************************************************)

\* parsePdf, parseMsOffice; a workbook's tables are parsed, wanted or not.
OfficeText(fmt) ==
    CASE fmt = "pdf"             -> << <<"PdfToHtml", "reader">> >>
      [] fmt = "doc"             -> << <<"DocToHtml", "DocToText">> >>
      [] fmt = "ppt"             -> << <<"PptToHtml">> >>
      [] fmt = "pptx"            -> << <<"AnythingToHtml", "PptxToHtml">> >>
      [] fmt \in {"docx", "rst"} -> << <<"AnythingToHtml">> >>
      [] fmt = "xlsx"            -> << <<"AnythingToHtml">>, <<"parser">> >>
      [] fmt = "xls"             -> << <<"XlsToXlsx">>, <<"AnythingToHtml">>, <<"parser">> >>
      [] OTHER                   -> << <<"libreOfficeToHtml">> >>

\* parsePlainText, parseSeparatedValues.
PlainText == << <<"go">> >>

\* Fault: a PDF is only read with pdftohtml.
ArticleByToolsOnly(fmt) ==
    CASE fmt \in {"plain", "csv"} -> PlainText
      [] fmt \in {"tsv", "none"}  -> << <<>> >>
      [] fmt = "pdf"               -> << <<"PdfToHtml">>, <<"go">> >>
      [] OTHER                     -> OfficeText(fmt) \o << <<"go">> >>

\* parseDocument, for a format that determineFmtType can give.
Article(fmt) ==
    CASE fmt \in {"plain", "csv"} -> PlainText
      [] fmt \in {"tsv", "none"}  -> << <<>> >>
      [] OTHER                     -> OfficeText(fmt) \o << <<"go">> >>

\* doRunEkeExtract; "none" stands for a text that is not one of the formats.
Upload(fmt) ==
    IF fmt \in {"plain", "csv", "tsv", "none"} THEN PlainText ELSE Article(fmt)

ViaHtml(conversion) == << <<conversion>>, <<"HtmlToMarkdown">> >>

\* convertCsvToMarkdown, convertTxtToMarkdown.
TextToMarkdown == << <<"go">> >>

\* doParseToMarkdownKv: what has no converter of its own is taken for text.
Markdown(fmt) ==
    CASE fmt = "doc"  -> ViaHtml("DocToHtml")
      [] fmt = "docx" -> ViaHtml("DocxToHtml")
      [] fmt = "ppt"  -> ViaHtml("PptToHtml")
      [] fmt = "pptx" -> << <<"PptxToHtml">> >>
      [] fmt = "xlsx" -> << <<"ExcelToHtml">> >>
      [] fmt = "xls"  -> << <<"XlsToHtml">> >>
      [] OTHER        -> TextToMarkdown

\* doRunDocParse, and what the endpoint makes of its result.
Parsed(toPdf) ==
    (IF toPdf THEN << <<"DocToPdf">> >> ELSE <<>>) \o << <<"parser">>, <<"go">> >>

\* The scripts that render markdown and the template's style, the browser that
\* prints a page, and the service that keeps a file and names its link.
Render == << <<"node">> >>
ApplyHtmlTemplate == << <<"node">> >>
HtmlToPdf == << <<"chrome">> >>
Store == << <<"storage">> >>

\* doRenderMarkdown
Rendered(format) ==
    Render \o ApplyHtmlTemplate
    \o (CASE format = "pdf"  -> HtmlToPdf \o Store
          [] format = "docx" -> << <<"HtmlToDocx">> >> \o Store
          [] format = "html" -> Store
          [] OTHER           -> << <<>> >>)
=============================================================================
