------------------------------ MODULE Documents ------------------------------
(***************************************************************************)
(* The document endpoints (endpoints_readability.go, endpoints_parse.go,   *)
(* endpoints_parse_markdown.go, endpoints_markdown.go,                     *)
(* endpoints_eke_extract.go): a request is normalised, answered from the   *)
(* cache or attempted several times; an attempt finds the format of the    *)
(* document, fetches it, with a proxy, a second time or with Chrome, and   *)
(* converts it with tools which this build may not have.                   *)
(*                                                                         *)
(* The requests of a behaviour are alike but for the proxy they ask for.   *)
(***************************************************************************)
EXTENDS Formats, ProxyHost, Pandoc, PdfImages

CONSTANTS
    Setups,        \* configurations of the requests, each with the parts of the
                   \* document toolchain that the build has and the upstream proxy
    MaxAttempts,   \* bound: attempts of a request
    MaxRequests    \* bound: requests of a behaviour; one but for readability,
                   \* as the requests of the others share nothing

Endpoints == {"readability", "parse", "kv", "extract", "eke", "render", "images"}

\* A ReadabilityConfig, or what the other endpoints take, less UseProxy.
Config == [endpoint : Endpoints, random : BOOLEAN, force : BOOLEAN,
           fallback : BOOLEAN, noCache : BOOLEAN, pandocOut : BOOLEAN,
           toPdf : BOOLEAN, forced : BOOLEAN]

\* What RequireDocumentTools, newPandoc, newPdfToImages and probeParser find.
Parts == {"pandoc", "images", "parser"}

ASSUME DocumentsAssumption ==
    /\ Setups \subseteq [config : Config, tools : SUBSET Parts, proxy : Upstreams]
    /\ MaxAttempts \in Nat \ {0}
    /\ MaxRequests \in Nat

VARIABLES
    tools,      \* what initDocumentTools found
    cfg,        \* configuration of the requests
    asked,      \* the proxy the request came with
    useProxy,   \* cfg.UseProxy, which attempts may replace
    key,        \* configHash, by the proxy that was hashed
    attempt,    \* number of the attempt
    step,       \* what the request does next
    fmt,        \* docFmt, or in "read" and "chrome" the type it has no name for
    body,       \* what the bytes at hand are of
    via,        \* the proxy they were fetched through
    browser,    \* usedBrowser
    plan,       \* stages of the conversion that are left
    error,      \* the error of an attempt
    cache,      \* the readability cache
    answer,     \* the response
    requests    \* requests so far

requestVars == <<asked, useProxy, key, attempt, step, fmt, body, via, browser,
                 plan, error, answer, requests>>

vars == <<tools, cfg, requestVars, cache, proxyVars, pandocVars, imageVars>>

Steps == {"idle", "start", "fetch", "again", "read", "chrome", "convert",
          "pages", "batches", "upload", "failed", "finish", "answered"}

\* "errorpage" is the body of a response whose status is not 200, "part" a
\* body that could not be read to its end.
Bodies == {"none", "document", "errorpage", "part"}

Errors == {"none", "failed", "unavailable"}

Statuses == {"none", "200", "500", "501", "panic"}

Answers == [status : Statuses, cached : BOOLEAN, error : BOOLEAN]

NoAnswer == [status |-> "none", cached |-> FALSE, error |-> FALSE]

\* An entry's `of` is the proxy asked for by the request that was answered.
Entries == [key : Proxies, of : Proxies, via : Proxies, body : Bodies,
            error : BOOLEAN, browser : BOOLEAN, fresh : BOOLEAN]

Init ==
    /\ \E setup \in Setups :
          /\ cfg = setup.config
          /\ tools = setup.tools
          /\ proxy = setup.proxy
    /\ asked = "none" /\ useProxy = "none" /\ key = "none"
    /\ attempt = 1
    /\ step = "idle"
    /\ fmt = "none" /\ body = "none" /\ via = "none" /\ browser = FALSE
    /\ plan = <<>>
    /\ error = "none"
    /\ cache = {}
    /\ answer = NoAnswer
    /\ requests = 0
    /\ ProxyInit
    /\ PandocInit
    /\ ImagesInit

-----------------------------------------------------------------------------
(***************************************************************************)
(* The request and its attempts                                            *)
(***************************************************************************)

Frame == UNCHANGED <<tools, cfg, proxyVars>>

Retries == cfg.endpoint \in {"readability", "parse", "kv", "extract"}

\* Endpoints whose request names a URL to be fetched with a proxy.
FirstStep ==
    CASE cfg.endpoint = "readability" -> "start"
      [] cfg.endpoint = "images"      -> "pages"
      [] cfg.endpoint \in {"eke", "render"} -> "convert"
      [] OTHER                        -> "fetch"

\* What the request itself says of the format and of the work to be done: the
\* file of eke-extract may be of any type.
Given ==
    CASE cfg.endpoint = "eke"    -> {<<f, Upload(f)>> : f \in Formats}
      [] cfg.endpoint = "render" -> {<<f, Rendered(f)>> : f \in {"pdf", "docx", "html", "none"}}
      [] OTHER                   -> {<<"none", <<>> >>}

\* The caller knows no address of a local proxy.
Request(p) ==
    /\ step \in {"idle", "answered"} /\ requests < MaxRequests
    /\ p \in Proxies \ {"local"}
    /\ p = "named" => Retries
    /\ requests > 0 => cfg.endpoint = "readability"
    /\ requests' = requests + 1
    /\ asked' = p /\ useProxy' = p /\ key' = p
    /\ attempt' = 1
    /\ step' = FirstStep
    /\ \E g \in Given : fmt' = g[1] /\ plan' = g[2]
    /\ body' = IF cfg.endpoint \in {"eke", "render"} THEN "document" ELSE "none"
    /\ via' = p /\ browser' = FALSE /\ error' = "none"
    /\ answer' = NoAnswer
    /\ Frame
    /\ UNCHANGED <<cache, pandocVars, imageVars>>

Answered(status, cached) ==
    /\ step' = "answered"
    /\ answer' = [status |-> status, cached |-> cached, error |-> error # "none"]

\* The framework, which is not under src/, recovers a handler's panic.
Panic ==
    /\ Answered("panic", FALSE)
    /\ dir' = FALSE /\ ways' = <<>>

Fails(reason) ==
    /\ step' = "failed"
    /\ error' = reason

ErrorStatus == IF error = "unavailable" THEN "501" ELSE "500"

MoreAttempts == Retries /\ attempt < MaxAttempts

\* Fault: the proxy is replaced whether or not a random one is wanted.
SwapsProxy ==
    /\ step = "failed" /\ MoreAttempts
    /\ ~(cfg.random /\ proxy = "none")
    /\ attempt' = attempt + 1
    /\ useProxy' = Host
    /\ step' = "fetch"
    /\ fmt' = "none" /\ body' = "none" /\ browser' = FALSE /\ error' = "none" /\ plan' = <<>>
    /\ Frame
    /\ UNCHANGED <<asked, key, via, cache, answer, requests, pandocVars, imageVars>>

\* AttemptErrorCallback, then the next attempt.
AttemptFails ==
    /\ step = "failed" /\ MoreAttempts
    /\ ~(cfg.random /\ proxy = "none")
    /\ attempt' = attempt + 1
    /\ useProxy' = IF cfg.random THEN Host ELSE useProxy
    /\ step' = "fetch"
    /\ fmt' = "none" /\ body' = "none" /\ browser' = FALSE /\ error' = "none" /\ plan' = <<>>
    /\ Frame
    /\ UNCHANGED <<asked, key, via, cache, answer, requests, pandocVars, imageVars>>

\* s.proxy is nil.
AttemptPanics ==
    /\ step = "failed" /\ Retries /\ cfg.random /\ proxy = "none"
    /\ Panic
    /\ Frame
    /\ UNCHANGED <<asked, useProxy, key, attempt, fmt, body, via, browser, plan, error,
                   cache, requests, sheets, imageVars>>

\* A request may ask for fewer attempts than the bound.
NoMoreAttempts ==
    /\ step = "failed"
    /\ ~(Retries /\ cfg.random /\ proxy = "none")
    /\ Answered(ErrorStatus, FALSE)
    /\ Frame
    /\ UNCHANGED <<asked, useProxy, key, attempt, fmt, body, via, browser, plan, error,
                   cache, requests, pandocVars, imageVars>>

-----------------------------------------------------------------------------
(***************************************************************************)
(* The cache                                                               *)
(***************************************************************************)

\* Entries that getReadabilityFromCache may return; it may also fail, which
\* is the same as finding none.
Found == {e \in cache : e.key = key /\ e.fresh}

AnswersFromCache ==
    /\ step = "start" /\ ~cfg.noCache
    /\ \E e \in Found :
          /\ answer' = [status |-> "200", cached |-> TRUE, error |-> e.error]
          /\ via' = e.via /\ browser' = e.browser /\ body' = e.body
    /\ step' = "answered"
    /\ Frame
    /\ UNCHANGED <<asked, useProxy, key, attempt, fmt, plan, error, requests, cache,
                   pandocVars, imageVars>>

Starts ==
    /\ step = "start"
    /\ step' = "fetch"
    /\ Frame
    /\ UNCHANGED <<asked, useProxy, key, attempt, fmt, body, via, browser, plan, error,
                   answer, requests, cache, pandocVars, imageVars>>

\* Fault: the configuration is hashed when the result is stored.
EntryLate == [key |-> useProxy, of |-> asked, via |-> via, body |-> body,
              error |-> error' # "none", browser |-> browser, fresh |-> TRUE]

Entry == [key |-> key, of |-> asked, via |-> via, body |-> body,
          error |-> error' # "none", browser |-> browser, fresh |-> TRUE]

\* Fault: what has an error is kept as well.
StoredAlways ==
    IF cfg.endpoint = "readability"
    THEN {cache, {e \in cache : e.key # key} \union {Entry}}
    ELSE {cache}

\* addToCache, which may fail, and not for a result with an error.
Stored ==
    IF cfg.endpoint = "readability" /\ error' = "none"
    THEN {cache, {e \in cache : e.key # key} \union {Entry}}
    ELSE {cache}

CacheAges ==
    /\ \E e \in cache : e.fresh
    /\ \E e \in cache : cache' = (cache \ {e}) \union {[e EXCEPT !.fresh = FALSE]}
    /\ Frame
    /\ UNCHANGED <<requestVars, pandocVars, imageVars>>

-----------------------------------------------------------------------------
(***************************************************************************)
(* Fetching                                                                *)
(***************************************************************************)

\* What FetchFromURL may give, or "none".  It writes "http://" before
\* the address of the local proxy, which names its own scheme if the upstream
\* proxy is a SOCKS proxy.
Responses ==
    IF useProxy = "local" /\ (proxy = "socks" \/ local # "listening")
    THEN {"none"}
    ELSE {"none", "errorpage", "document"}

PlanOf(f) ==
    CASE cfg.endpoint = "readability" -> Article(f)
      [] cfg.endpoint = "kv"          -> Markdown(f)
      [] cfg.endpoint = "eke"         -> Upload(f)
      [] OTHER                        -> Parsed(cfg.toPdf)

Reparses == cfg.endpoint \in {"parse", "extract"}

FetchFrame == Frame /\ UNCHANGED <<asked, useProxy, key, attempt, requests, cache,
                                   sheets, imageVars>>

\* determineFmtType.  A body of no known type is read to its end, or nearly.
DeterminesFormat ==
    /\ step = "fetch"
    /\ \E r \in Responses \ {"none"}, t \in Types, x \in ByExtension \union {"other"} :
          /\ FormatOf(t, x) # "none"
          /\ fmt' = FormatOf(t, x)
          /\ body' \in {r} \union (IF t \in {"octet", "none"} THEN {"part"} ELSE {})
    /\ via' = useProxy
    /\ plan' = PlanOf(fmt')
    /\ step' = IF ~Reparses THEN "convert" ELSE IF cfg.force THEN "chrome" ELSE "again"
    /\ FetchFrame
    /\ UNCHANGED <<browser, error, answer, dir, ways>>

\* The type has no format, or there is neither a response nor an extension.
FormatUnknown ==
    /\ step = "fetch"
    /\ Responses # {"none"} \/ ~cfg.forced
    /\ IF cfg.endpoint = "readability"
       THEN /\ step' = "read" /\ UNCHANGED error
            /\ fmt' \in {"none"} \union (IF Responses = {"none"} THEN {} ELSE OpenOffice)
       ELSE Fails("failed") /\ UNCHANGED fmt
    /\ FetchFrame
    /\ UNCHANGED <<body, via, browser, plan, answer, dir, ways>>

\* There is a type, forced or guessed from the URL, and no response.
FormatPanics ==
    /\ step = "fetch"
    /\ Panic
    /\ FetchFrame
    /\ UNCHANGED <<fmt, body, via, browser, plan, error>>

\* Fault: the status of the response is not looked at.
FetchesAnything ==
    /\ step = "again" /\ Responses # {"none"}
    /\ body' \in {"document", "part", "errorpage"}
    /\ via' = useProxy
    /\ step' = "convert"
    /\ FetchFrame
    /\ UNCHANGED <<fmt, browser, plan, error, answer, dir, ways>>

\* The document is fetched a second time for its bytes.
FetchesAgain ==
    /\ step = "again" /\ "document" \in Responses
    /\ body' \in {"document", "part"}
    /\ via' = useProxy
    /\ step' = "convert"
    /\ FetchFrame
    /\ UNCHANGED <<fmt, browser, plan, error, answer, dir, ways>>

\* Without a browser to fall back to, no bytes are parsed.
FetchFailsAgain ==
    /\ step = "again"
    /\ step' = IF cfg.fallback THEN "chrome" ELSE "convert"
    /\ body' = "none"
    /\ FetchFrame
    /\ UNCHANGED <<fmt, via, browser, plan, error, answer, dir, ways>>

\* ReadFromURL: an article, or an empty one that must do.
Reads ==
    /\ step = "read" /\ ~cfg.force /\ "document" \in Responses
    /\ body' = "document" /\ via' = useProxy
    /\ step' = "finish"
    /\ FetchFrame
    /\ UNCHANGED <<fmt, browser, plan, error, answer, dir, ways>>

\* An error or an empty article.
ReadsWithChrome ==
    /\ step = "read" /\ (cfg.force \/ cfg.fallback)
    /\ step' = "chrome"
    /\ FetchFrame
    /\ UNCHANGED <<fmt, body, via, browser, plan, error, answer, dir, ways>>

ReadFails ==
    /\ step = "read" /\ ~cfg.force /\ ~cfg.fallback
    /\ Fails("failed")
    /\ FetchFrame
    /\ UNCHANGED <<fmt, body, via, browser, plan, answer, dir, ways>>

\* readabilityWithChrome, docDownloadWithChrome: with the server's own proxy
\* in place of the one in the request.
ChromeProxy == IF useProxy = "none" THEN "none" ELSE Host

ChromeFetches ==
    /\ step = "chrome" /\ (useProxy = "none" \/ proxy # "none")
    /\ ChromeProxy = "local" => local = "listening"
    /\ body' \in IF Reparses THEN {"document"} ELSE {"document", "errorpage"}
    /\ via' = ChromeProxy /\ browser' = TRUE
    /\ step' = IF Reparses THEN "convert" ELSE "finish"
    /\ FetchFrame
    /\ UNCHANGED <<fmt, plan, error, answer, dir, ways>>

ChromeFails ==
    /\ step = "chrome" /\ (useProxy = "none" \/ proxy # "none")
    /\ Fails("failed")
    /\ FetchFrame
    /\ UNCHANGED <<fmt, body, via, browser, plan, answer, dir, ways>>

ChromePanics ==
    /\ step = "chrome" /\ useProxy # "none" /\ proxy = "none"
    /\ Panic
    /\ FetchFrame
    /\ UNCHANGED <<fmt, body, via, browser, plan, error>>

-----------------------------------------------------------------------------
(***************************************************************************)
(* Converting                                                              *)
(***************************************************************************)

ConvertFrame == Frame /\ UNCHANGED <<asked, useProxy, key, attempt, via, browser,
                                     requests, cache, answer, imageVars>>

\* The stand-ins that initDocumentTools installs for what is missing.
Provided(tool) ==
    CASE tool \in Conversions -> "pandoc" \in tools
      [] tool = "parser"      -> "parser" \in tools
      [] OTHER                -> TRUE

\* A tool of the current stage can be tried.
Converting == step = "convert" /\ ~dir /\ Head(plan) # <<>>

Tool == Head(Head(plan))

TryNextTool(reason) ==
    IF Len(Head(plan)) > 1
    THEN /\ plan' = <<Tail(Head(plan))>> \o Tail(plan)
         /\ UNCHANGED <<step, error>>
    ELSE Fails(reason) /\ UNCHANGED plan

\* The parser refuses to parse nothing, and what has no PDF in it is no PDF.
Accepts(tool) ==
    /\ tool = "parser" => body # "none" \/ cfg.toPdf
    /\ tool \in {"PdfToHtml", "reader"} => body # "errorpage"

StageDone ==
    /\ plan' = Tail(plan)
    /\ step' = IF plan' = <<>> THEN "finish" ELSE "convert"
    /\ fmt' = IF Tool = "DocToPdf" THEN "pdf" ELSE fmt
    /\ UNCHANGED <<body, error>>

\* The rest of the body cannot be read: readBytes takes what it has.
BodyBreaks ==
    /\ Converting /\ ~Reparses /\ plan = PlanOf(fmt)
    /\ IF cfg.endpoint = "kv" /\ fmt \in Office
       THEN body' = "part" /\ UNCHANGED <<step, error>>
       ELSE Fails("failed") /\ UNCHANGED body
    /\ ConvertFrame
    /\ UNCHANGED <<fmt, plan, pandocVars>>

NoTool ==
    /\ step = "convert" /\ Head(plan) = <<>>
    /\ Fails("failed")
    /\ ConvertFrame
    /\ UNCHANGED <<fmt, body, plan, pandocVars>>

ToolMissing ==
    /\ Converting /\ ~Provided(Tool)
    /\ TryNextTool("unavailable")
    /\ ConvertFrame
    /\ UNCHANGED <<fmt, body, pandocVars>>

\* A file system without room, or a tool of the server's own.
ToolFails ==
    /\ Converting /\ Provided(Tool)
    /\ TryNextTool("failed")
    /\ ConvertFrame
    /\ UNCHANGED <<fmt, body, pandocVars>>

ToolWorks ==
    /\ Converting /\ Provided(Tool) /\ Accepts(Tool) /\ Tool \notin Conversions
    /\ StageDone
    /\ ConvertFrame
    /\ UNCHANGED pandocVars

ConversionStarts ==
    /\ Converting /\ Provided(Tool) /\ Accepts(Tool) /\ Tool \in Conversions
    /\ Enter(Tool)
    /\ ConvertFrame
    /\ UNCHANGED <<fmt, body, plan, step, error>>

ConversionRuns ==
    /\ CommandWorks \/ TriesNextWay
    /\ ConvertFrame
    /\ UNCHANGED <<fmt, body, plan, step, error>>

ConversionEnds ==
    /\ \/ Converts /\ StageDone
       \/ ConversionFails /\ TryNextTool("failed") /\ UNCHANGED <<fmt, body>>
    /\ ConvertFrame

\* articleToResult's conversion to another markup only leaves its error in the
\* result.
MarkupFails ==
    IF ~cfg.pandocOut THEN {FALSE}
    ELSE IF "pandoc" \in tools THEN BOOLEAN
    ELSE {TRUE}

Finishes ==
    /\ step = "finish"
    /\ \E failed \in MarkupFails :
          /\ error' = IF failed THEN "failed" ELSE "none"
          /\ answer' = [status |-> "200", cached |-> FALSE, error |-> failed]
    /\ step' = "answered"
    /\ cache' \in Stored
    /\ Frame
    /\ UNCHANGED <<asked, useProxy, key, attempt, fmt, body, via, browser, plan,
                   requests, pandocVars, imageVars>>

-----------------------------------------------------------------------------
(***************************************************************************)
(* Images of a PDF's pages                                                 *)
(***************************************************************************)

ImagesFrame == Frame /\ UNCHANGED <<asked, useProxy, key, attempt, fmt, via, browser,
                                    plan, requests, cache, pandocVars>>

CountsPages ==
    /\ step = "pages" /\ "images" \in tools
    /\ CountPages
    /\ body' = "document"
    /\ step' = "batches"
    /\ ImagesFrame
    /\ UNCHANGED <<error, answer>>

PagesFail ==
    /\ step = "pages"
    /\ Fails(IF "images" \in tools THEN "failed" ELSE "unavailable")
    /\ ImagesFrame
    /\ UNCHANGED <<body, answer, imageVars>>

BatchStarts ==
    /\ step = "batches"
    /\ StartBatch \/ NextBatch \/ \E r \in sent : Receive(r)
    /\ ImagesFrame
    /\ UNCHANGED <<step, body, error, answer>>

\* A page fails, or the format of the images is none that is known.
BatchFails ==
    /\ step = "batches"
    /\ BatchNotStarted \/ \E r \in sent : ~r.ok
    /\ Fails("failed")
    /\ ImagesFrame
    /\ UNCHANGED <<body, answer, imageVars>>

BatchFailsAtOnce ==
    /\ step = "batches" /\ BatchPanics
    /\ step' = "answered"
    /\ answer' = [status |-> "panic", cached |-> FALSE, error |-> FALSE]
    /\ ImagesFrame
    /\ UNCHANGED <<body, error, imageVars>>

BatchesEnd ==
    /\ step = "batches" /\ AllBatchesDone
    /\ step' = "upload"
    /\ ImagesFrame
    /\ UNCHANGED <<body, error, answer, imageVars>>

\* Each image is read and put into the storage.
Uploads ==
    /\ step = "upload"
    /\ \/ Fails("failed") /\ UNCHANGED answer
       \/ Answered("200", FALSE) /\ UNCHANGED error
    /\ ImagesFrame
    /\ UNCHANGED <<body, imageVars>>

\* A page is converted whether or not somebody waits for it.
PageEnds ==
    /\ \E p \in running : PageDone(p)
    /\ Frame
    /\ UNCHANGED <<requestVars, cache, pandocVars>>

-----------------------------------------------------------------------------
ProxyStep == ProxyNext /\ UNCHANGED <<tools, cfg, requestVars, cache, pandocVars, imageVars>>

Fetching ==
    \/ DeterminesFormat \/ FormatUnknown \/ FormatPanics
    \/ FetchesAgain \/ FetchFailsAgain
    \/ Reads \/ ReadsWithChrome \/ ReadFails
    \/ ChromeFetches \/ ChromeFails \/ ChromePanics

ConvertStep ==
    \/ BodyBreaks \/ NoTool \/ ToolMissing \/ ToolFails \/ ToolWorks
    \/ ConversionStarts \/ ConversionRuns \/ ConversionEnds

ImageStep ==
    \/ CountsPages \/ PagesFail \/ BatchStarts \/ BatchFails \/ BatchFailsAtOnce
    \/ BatchesEnd \/ Uploads

Serve ==
    \/ AnswersFromCache \/ Starts
    \/ Fetching \/ ConvertStep \/ ImageStep
    \/ Finishes
    \/ AttemptFails \/ AttemptPanics \/ NoMoreAttempts

Next ==
    \/ \E p \in Proxies : Request(p)
    \/ Serve
    \/ PageEnds
    \/ CacheAges
    \/ ProxyStep

Spec == Init /\ [][Next]_vars /\ WF_vars(Serve) /\ WF_vars(PageEnds)

-----------------------------------------------------------------------------
(***************************************************************************)
(* Properties                                                              *)
(***************************************************************************)

TypeOK ==
    /\ tools \subseteq Parts /\ cfg \in Config
    /\ asked \in Proxies /\ useProxy \in Proxies /\ key \in Proxies /\ via \in Proxies
    /\ attempt \in 1 .. MaxAttempts
    /\ step \in Steps
    /\ body \in Bodies
    /\ browser \in BOOLEAN
    /\ error \in Errors
    /\ cache \subseteq Entries
    /\ answer \in Answers
    /\ requests \in 0 .. MaxRequests
    /\ ProxyTypeOK

Succeeds == step = "answered" /\ answer.status = "200"

\* An answer from the cache is one that was given to a request like this one,
\* the proxy it asked for included, and not one with an error; unless proxies
\* are random or a browser was used it came through that proxy.
CachedAnswersMatch ==
    answer.cached =>
        /\ ~answer.error
        /\ \E e \in cache : e.key = asked /\ e.of = asked
        /\ via = asked \/ cfg.random \/ browser

\* A format of an office program is converted, a workbook's tables are parsed.
NeedsOf(f) ==
    (IF f \in Office \union OpenOffice THEN {"pandoc"} ELSE {})
    \union (IF f \in {"xls", "xlsx"} THEN {"parser"} ELSE {})

\* What README.md:70-78 says needs the toolchain: a PDF is made into markdown with
\* it, and read as an article without; html is printed by Chrome.
Needs ==
    CASE cfg.endpoint = "images" -> {"images"}
      [] Reparses -> {"parser"} \union (IF cfg.toPdf THEN {"pandoc"} ELSE {})
      [] cfg.endpoint = "render" -> IF fmt = "docx" THEN {"pandoc"} ELSE {}
      [] cfg.endpoint = "kv" -> IF fmt \in Office \union {"pdf"} THEN {"pandoc"} ELSE {}
      [] cfg.endpoint \in {"readability", "eke"} -> NeedsOf(fmt)

(***************************************************************************)
(* The documents that no endpoint knows for what they are: the bytes of a  *)
(* PDF are markdown as they stand, since doParseToMarkdownKv takes for     *)
(* text what it has no converter for, and an ODF or RTF document is read   *)
(* as a web page, since determineFmtType has no format for its type.       *)
(***************************************************************************)
TakenForText == cfg.endpoint = "kv" /\ fmt = "pdf"
TakenForPage == cfg.endpoint = "readability" /\ fmt \in OpenOffice

\* A request is refused as not implemented only if it needs a part that this
\* build does not have, and no such request is answered as if it had it, but for
\* the two kinds of document that are taken for something else.
MissingToolIs501 ==
    /\ answer.status = "501" => ~(Needs \subseteq tools)
    /\ Succeeds /\ ~answer.cached => Needs \subseteq tools \/ TakenForText \/ TakenForPage

\* "/api/parse-to-markdown-kv on Office and PDF input (CSV and plain text still
\* work)" is among what answers 501 without the toolchain (README.md:67-73).
MarkdownNeedsTheToolchain ==
    Succeeds /\ cfg.endpoint = "kv" => Needs \subseteq tools

\* A successful answer is made of the document: of all its pages; of what could
\* be read of it, where read errors are dropped; of an error page only where
\* one fetch or the browser is trusted with everything but a PDF; of nothing
\* only if the endpoint may make a PDF of nothing.
AnswerIsOfTheDocument ==
    Succeeds =>
        CASE body = "document"  -> cfg.endpoint = "images" => images = 1 .. pages
          [] body = "part"      -> Retries
          [] body = "errorpage" -> \/ cfg.endpoint \in {"readability", "kv"}
                                      /\ (fmt = "pdf" => cfg.endpoint = "kv" \/ answer.cached)
          [] body = "none"          -> Reparses /\ cfg.toPdf /\ ~cfg.fallback

\* Unless it asked for random ones, no request's document is fetched through
\* another proxy than the one it named, however often it is tried; a browser
\* has a proxy of its own.
NamedProxyKept ==
    Succeeds /\ ~cfg.random /\ ~browser => via = asked

\* Every request is answered, but for a batch of no page.
RequestEnds ==
    (step \notin {"idle", "answered"})
        ~> (step = "answered" \/ (step = "batches" /\ size = 0 /\ pages > 0))

\* The service as DocumentService has it: how the response reads, and the
\* requests for which the cache has an entry that is not too old.
serviceState == IF step \in {"idle", "answered"} THEN step ELSE "working"

serviceOutcome ==
    CASE answer.status = "none"            -> "none"
      [] answer.status = "501"             -> "refused"
      [] answer.status \in {"500", "panic"} -> "failed"
      [] answer.status = "200"             ->
            IF answer.cached THEN "recalled"
            ELSE IF answer.error THEN "in part"
            ELSE IF TakenForText \/ TakenForPage THEN "as it is"
            ELSE "done"

serviceKept == {e.key : e \in {f \in cache : f.fresh}}

Service == INSTANCE DocumentService
             WITH state <- serviceState, needed <- Needs, outcome <- serviceOutcome,
                  known <- ~TakenForText /\ ~TakenForPage, kept <- serviceKept

\* Every behaviour of the endpoints is one the abstract specification allows.
IsTheService == Service!Spec

\* A workbook is answered with all of its sheets.
EverySheetIsGiven ==
    Succeeds /\ cfg.endpoint = "kv" /\ fmt \in {"xls", "xlsx"} => sheets = "all"
=============================================================================
