--------------------------- MODULE Documents_proofs ---------------------------
(***************************************************************************)
(* Proofs about Documents, for any configurations, toolchains, proxies and *)
(* bounds: type correctness, what the cache answers, which proxy a         *)
(* document comes through, which requests are refused for a missing tool,  *)
(* what a successful answer is made of, that the channel of a batch of     *)
(* pages has room, and that the endpoints implement DocumentService.       *)
(***************************************************************************)
EXTENDS Documents, FiniteSetTheorems, TLAPS
-----------------------------------------------------------------------------
\* The initial state has the types.
LEMMA InitTypes == Init => TypeOK
<1> SUFFICES ASSUME Init PROVE TypeOK
  OBVIOUS
<1>1. cfg \in Config /\ tools \subseteq Parts
  BY DocumentsAssumption DEF Init
<1>2. attempt \in 1 .. MaxAttempts /\ requests \in 0 .. MaxRequests
  BY DocumentsAssumption DEF Init
<1>3. answer \in Answers
  BY DEF Init, NoAnswer, Answers, Statuses
<1>4. ProxyTypeOK
  BY DEF Init, ProxyInit, ProxyTypeOK
<1>5. asked \in Proxies /\ useProxy \in Proxies /\ key \in Proxies /\ via \in Proxies
  BY DEF Init, Proxies
<1>6. step \in Steps /\ body \in Bodies /\ browser \in BOOLEAN /\ error \in Errors
  BY DEF Init, Steps, Bodies, Errors
<1>7. cache \subseteq Entries
  BY DEF Init
<1> QED BY <1>1, <1>2, <1>3, <1>4, <1>5, <1>6, <1>7 DEF TypeOK

\* Responses are records of these three.
LEMMA AnswersHave ==
  ASSUME NEW s \in Statuses, NEW c \in BOOLEAN, NEW e \in BOOLEAN
  PROVE  [status |-> s, cached |-> c, error |-> e] \in Answers
  BY DEF Answers

\* Every step of the server keeps them.
LEMMA ServeTypes == ASSUME TypeOK, Serve PROVE TypeOK'
<1> USE DocumentsAssumption DEF TypeOK, Frame, ProxyTypeOK, proxyVars
<1>1. ASSUME NEW status \in Statuses, NEW cached \in BOOLEAN, Answered(status, cached)
      PROVE  answer' \in Answers
  BY <1>1, AnswersHave DEF Answered
<1>2. CASE AnswersFromCache
  BY <1>2 DEF AnswersFromCache, Found, Entries, Bodies, Steps, Answers, Statuses
<1>3. CASE Starts \/ FormatUnknown \/ FetchesAgain \/ FetchFailsAgain \/ Reads \/ ReadsWithChrome
        \/ ReadFails \/ ChromeFails
  BY <1>3 DEF Starts, FormatUnknown, FetchesAgain, FetchFailsAgain, Reads, ReadsWithChrome,
     ReadFails, ChromeFails, FetchFrame, Fails, Bodies, Errors, Steps
<1>4. CASE DeterminesFormat
  BY <1>4 DEF DeterminesFormat, FetchFrame, Responses, Bodies, Steps
<1>5. CASE ChromeFetches
  <2>1. ChromeProxy \in Proxies
    BY DEF ChromeProxy, Host, Proxies
  <2> QED BY <1>5, <2>1 DEF ChromeFetches, FetchFrame, Bodies, Steps
<1>6. CASE FormatPanics \/ ChromePanics
  <2>1. Answered("panic", FALSE) /\ "panic" \in Statuses
    BY <1>6 DEF FormatPanics, ChromePanics, Panic, Statuses
  <2> QED BY <1>1, <1>6, <2>1 DEF FormatPanics, ChromePanics, FetchFrame, Answered, Steps
<1>7. CASE ConvertStep
  BY <1>7 DEF ConvertStep, BodyBreaks, NoTool, ToolMissing, ToolFails, ToolWorks, ConversionStarts,
     ConversionRuns, ConversionEnds, ConvertFrame, StageDone, TryNextTool, Fails, Bodies, Errors, Steps
<1>8. CASE CountsPages \/ PagesFail \/ BatchStarts \/ BatchFails \/ BatchesEnd
  BY <1>8 DEF CountsPages, PagesFail, BatchStarts, BatchFails, BatchesEnd, ImagesFrame, Fails,
     Bodies, Errors, Steps
<1>9. CASE BatchFailsAtOnce
  BY <1>9 DEF BatchFailsAtOnce, ImagesFrame, Steps, Answers, Statuses
<1>10. CASE Uploads
  <2>1. Answered("200", FALSE) => answer' \in Answers
    <3>1. (error # "none") \in BOOLEAN /\ FALSE \in BOOLEAN /\ "200" \in Statuses
      BY DEF Statuses
    <3> QED BY <3>1, AnswersHave DEF Answered
  <2>2. Fails("failed") /\ UNCHANGED answer => answer' \in Answers
    BY DEF TypeOK
  <2>3. error' \in Errors /\ step' \in Steps
    BY <1>10 DEF Uploads, Fails, Answered, TypeOK, Errors, Steps
  <2> QED
    BY <1>10, <2>1, <2>2, <2>3 DEF Uploads, ImagesFrame, Frame, TypeOK
<1>11. CASE Finishes
  <2>1. PICK failed \in MarkupFails :
          /\ error' = IF failed THEN "failed" ELSE "none"
          /\ answer' = [status |-> "200", cached |-> FALSE, error |-> failed]
    BY <1>11 DEF Finishes
  <2>2. error' \in Errors /\ step' \in Steps
    BY <1>11, <2>1 DEF Finishes, Errors, Steps
  <2>3. answer' \in Answers
    <3>1. failed \in BOOLEAN /\ FALSE \in BOOLEAN /\ "200" \in Statuses
      BY <2>1, Zenon DEF MarkupFails, Statuses
    <3> QED BY <2>1, <3>1, AnswersHave
  <2>4. Entry \in Entries
    BY <2>2 DEF Entry, Entries, TypeOK
  <2>5. cache' \subseteq Entries
    BY <1>11, <2>4 DEF Finishes, Stored, TypeOK
  <2> QED
    BY <1>11, <2>2, <2>3, <2>5 DEF Finishes, Frame, TypeOK
<1>12. CASE AttemptFails
  <2>1. attempt' \in 1 .. MaxAttempts
    BY <1>12 DEF AttemptFails, MoreAttempts, TypeOK
  <2>2. useProxy' \in Proxies
    BY <1>12 DEF AttemptFails, Host, TypeOK, Proxies
  <2>3. step' \in Steps /\ body' \in Bodies /\ browser' \in BOOLEAN /\ error' \in Errors
    BY <1>12 DEF AttemptFails, Steps, Bodies, Errors
  <2> QED BY <1>12, <2>1, <2>2, <2>3 DEF AttemptFails, Frame, TypeOK
<1>13. CASE AttemptPanics
  BY <1>13 DEF AttemptPanics, Panic, Answered, Frame, TypeOK, Steps, Answers,
     Statuses, Proxies, ProxyTypeOK, proxyVars
<1>14. CASE NoMoreAttempts
  BY <1>14 DEF NoMoreAttempts, Answered, ErrorStatus, Frame, TypeOK, Steps,
     Answers, Statuses, Proxies, ProxyTypeOK, proxyVars
<1> QED BY <1>2, <1>3, <1>4, <1>5, <1>6, <1>7, <1>8, <1>9, <1>10, <1>11, <1>12,
   <1>13, <1>14 DEF Serve, Fetching, ImageStep

\* The other steps keep them too.
LEMMA NextTypes == TypeOK /\ [Next]_vars => TypeOK'
<1> SUFFICES ASSUME TypeOK, [Next]_vars PROVE TypeOK'
  OBVIOUS
<1> USE DocumentsAssumption
<1>1. ASSUME NEW p \in Proxies, Request(p) PROVE TypeOK'
  <2>1. asked' \in Proxies /\ useProxy' \in Proxies /\ key' \in Proxies /\ via' \in Proxies
    BY <1>1 DEF Request
  <2>2. attempt' \in 1 .. MaxAttempts /\ requests' \in 0 .. MaxRequests
    BY <1>1 DEF Request, TypeOK
  <2>3. step' \in Steps
    BY <1>1 DEF Request, FirstStep, Steps
  <2>4. body' \in Bodies /\ browser' \in BOOLEAN /\ error' \in Errors
    BY <1>1 DEF Request, Bodies, Errors
  <2>5. answer' \in Answers
    BY <1>1 DEF Request, NoAnswer, Answers, Statuses
  <2> QED
    BY <1>1, <2>1, <2>2, <2>3, <2>4, <2>5 DEF Request, Frame, TypeOK, ProxyTypeOK, proxyVars
<1>2. CASE Serve
  BY <1>2, ServeTypes
<1>3. CASE PageEnds
  BY <1>3 DEF PageEnds, Frame, requestVars, TypeOK, ProxyTypeOK, proxyVars
<1>4. CASE CacheAges
  <2>1. cache' \subseteq Entries
    BY <1>4 DEF CacheAges, TypeOK, Entries
  <2> QED
    BY <1>4, <2>1 DEF CacheAges, Frame, requestVars, TypeOK, ProxyTypeOK, proxyVars
<1>5. CASE ProxyStep
  <2>1. ProxyTypeOK'
    BY <1>5 DEF ProxyStep, ProxyNext, Check, Publish, Listen, LocalProxyFails, TypeOK, ProxyTypeOK
  <2> QED
    BY <1>5, <2>1 DEF ProxyStep, requestVars, TypeOK
<1>6. CASE UNCHANGED vars
  BY <1>6 DEF vars, requestVars, TypeOK, ProxyTypeOK, proxyVars
<1> QED BY <1>1, <1>2, <1>3, <1>4, <1>5, <1>6 DEF Next

\* Every variable of a request, and the cache and proxy, has its type always.
THEOREM TypeCorrect == Spec => []TypeOK
<1> QED BY InitTypes, NextTypes, PTL DEF Spec

-----------------------------------------------------------------------------
(***************************************************************************)
(* The inductive invariant.  What a request got came through the proxy it  *)
(* asked for, and so did what the cache keeps under that proxy: true since *)
(* the configuration is hashed before the first attempt, and no attempt    *)
(* replaces the proxy unless a random one is wanted.  Nothing is at hand   *)
(* while a request has yet to be fetched, and a conversion that runs holds *)
(* the request where it is.                                                *)
(***************************************************************************)

ProxyKept ==
    /\ key = asked
    /\ ~cfg.random => useProxy = asked

Through == via = asked \/ cfg.random \/ browser

Got == step \in {"again", "convert", "pages", "batches", "upload", "finish"}

Obtained == Got \/ Succeeds => Through

EntriesSound ==
    \A e \in cache :
        /\ e.of = e.key /\ ~e.error
        /\ e.via = e.key \/ cfg.random \/ e.browser

CachedIsAnswered ==
    answer.cached =>
        /\ Succeeds /\ ~answer.error
        /\ \E e \in cache : e.key = asked /\ e.of = asked

Tidy == dir => step = "convert" /\ Head(plan) # <<>>

Inv == ProxyKept /\ Obtained /\ EntriesSound /\ CachedIsAnswered /\ Tidy

\* It holds at first.
LEMMA InitInv == Init => Inv
  BY DEF Init, PandocInit, NoAnswer, Inv, ProxyKept, Obtained, Got, Succeeds,
     EntriesSound, CachedIsAnswered, Tidy

\* Every step of the server keeps it.
LEMMA ServeKeeps == ASSUME TypeOK, Inv, Serve PROVE Inv'
<1> USE DEF Inv, ProxyKept, Obtained, Got, Through, Succeeds, EntriesSound, CachedIsAnswered, Tidy,
            Frame, pandocVars
<1>1. CASE AnswersFromCache \/ Starts
  BY <1>1 DEF AnswersFromCache, Starts, Found, Entries, TypeOK
<1>2. CASE Fetching
  BY <1>2 DEF Fetching, DeterminesFormat, FormatUnknown, FormatPanics, FetchesAgain,
     FetchFailsAgain,
     Reads, ReadsWithChrome, ReadFails, ChromeFetches, ChromeFails, ChromePanics, FetchFrame, Fails,
     Panic, Answered, Reparses
<1>3. CASE BodyBreaks \/ NoTool \/ ToolMissing \/ ToolFails \/ ToolWorks
  BY <1>3 DEF BodyBreaks, NoTool, ToolMissing, ToolFails, ToolWorks, ConvertFrame, StageDone,
     TryNextTool, Fails, Converting
<1>4. CASE ConversionStarts \/ ConversionRuns \/ ConversionEnds
  BY <1>4 DEF ConversionStarts, ConversionRuns, ConversionEnds, CommandWorks, TriesNextWay,
     Converts,
     ConversionFails, Enter, Leave, ConvertFrame, StageDone, TryNextTool, Fails, Converting
<1>5. CASE ImageStep
  BY <1>5 DEF ImageStep, CountsPages, PagesFail, BatchStarts, BatchFails, BatchFailsAtOnce,
     BatchesEnd, Uploads, ImagesFrame, Fails, Answered
<1>6. CASE Finishes
  <2>1. ProxyKept' /\ Tidy'
    BY <1>6 DEF Finishes, Frame, Inv, ProxyKept, Tidy, pandocVars
  <2>2. Through
    BY <1>6 DEF Finishes, Inv, Obtained, Got
  <2>3. Obtained'
    BY <1>6, <2>2 DEF Finishes, Frame, Obtained, Through
  <2>4. Entry.of = Entry.key /\ (Entry.via = Entry.key \/ cfg.random \/ Entry.browser)
    BY <2>2 DEF Entry, Through, Inv, ProxyKept
  <2>5. error' = "none" => ~Entry.error
    BY DEF Entry
  <2>6. cache' = cache \/ (error' = "none" /\ cache' \subseteq cache \union {Entry})
    BY <1>6 DEF Finishes, Stored
  <2>7. EntriesSound'
    BY <1>6, <2>4, <2>5, <2>6 DEF Finishes, Frame, Inv, EntriesSound
  <2>8. ~answer'.cached
    BY <1>6 DEF Finishes
  <2> QED BY <2>1, <2>3, <2>7, <2>8 DEF Inv, CachedIsAnswered
<1>7. CASE AttemptFails \/ AttemptPanics \/ NoMoreAttempts
  BY <1>7 DEF AttemptFails, AttemptPanics, NoMoreAttempts, Panic, Answered, ErrorStatus
<1> QED BY <1>1, <1>2, <1>3, <1>4, <1>5, <1>6, <1>7 DEF Serve, ConvertStep

\* The other steps keep it too: a new request starts with nothing at hand, and
\* an entry that ages stays what it is.
LEMMA NextKeeps == ASSUME TypeOK, Inv, [Next]_vars PROVE Inv'
<1>1. ASSUME NEW p \in Proxies, Request(p) PROVE Inv'
  <2>1. ProxyKept' /\ Obtained' /\ Tidy'
    BY <1>1 DEF Request, Inv, ProxyKept, Obtained, Through, Tidy, pandocVars
  <2>2. EntriesSound' /\ CachedIsAnswered'
    BY <1>1 DEF Request, NoAnswer, Frame, Inv, EntriesSound, CachedIsAnswered
  <2> QED BY <2>1, <2>2 DEF Inv
<1>2. CASE Serve
  BY <1>2, ServeKeeps
<1>3. CASE PageEnds
  BY <1>3 DEF PageEnds, requestVars, pandocVars, Frame, Inv, ProxyKept, Obtained, Got, Through,
     Succeeds, EntriesSound, CachedIsAnswered, Tidy
<1>4. CASE CacheAges
  <2>1. PICK e \in cache : cache' = (cache \ {e}) \union {[e EXCEPT !.fresh = FALSE]}
    BY <1>4 DEF CacheAges
  <2> DEFINE aged == [e EXCEPT !.fresh = FALSE]
  <2>2. /\ aged.key = e.key /\ aged.of = e.of /\ aged.via = e.via
        /\ aged.error = e.error /\ aged.browser = e.browser
    BY <2>1 DEF TypeOK, Entries
  <2> HIDE DEF aged
  <2>3. cache' = (cache \ {e}) \union {aged}
    BY <2>1 DEF aged
  <2>4. ProxyKept' /\ Obtained' /\ Tidy'
    BY <1>4 DEF CacheAges, Frame, requestVars, pandocVars, Inv, ProxyKept, Obtained, Got, Through,
       Succeeds, Tidy
  <2>5. EntriesSound'
    BY <1>4, <2>1, <2>2, <2>3 DEF CacheAges, Frame, Inv, EntriesSound
  <2>6. CachedIsAnswered'
    BY <1>4, <2>2, <2>3 DEF CacheAges, requestVars, Inv, CachedIsAnswered, Succeeds
  <2> QED BY <2>4, <2>5, <2>6 DEF Inv
<1>5. CASE ProxyStep
  BY <1>5 DEF ProxyStep, requestVars, pandocVars, Frame, Inv, ProxyKept, Obtained, Got, Through,
     Succeeds, EntriesSound, CachedIsAnswered, Tidy
<1>6. CASE UNCHANGED vars
  BY <1>6 DEF vars, requestVars, pandocVars, Frame, Inv, ProxyKept, Obtained, Got, Through,
     Succeeds, EntriesSound, CachedIsAnswered, Tidy
<1> QED BY <1>1, <1>2, <1>3, <1>4, <1>5, <1>6 DEF Next

\* So both hold in every state.
LEMMA Invariance == Spec => [](TypeOK /\ Inv)
<1>1. TypeOK /\ Inv /\ [Next]_vars => (TypeOK /\ Inv)'
  BY NextTypes, NextKeeps
<1> QED BY InitTypes, InitInv, <1>1, PTL DEF Spec

-----------------------------------------------------------------------------
(***************************************************************************)
(* What a plan promises.  A part is refused only with the last tool of a   *)
(* stage, so each stage ends with a tool that needs no more than the       *)
(* request does (Honest); and what the request needs is there, or some     *)
(* stage still ahead cannot be passed without it (Covers).                 *)
(***************************************************************************)

\* The part of the toolchain that a tool is.
PartOf(tool) ==
    IF tool \in Conversions THEN {"pandoc"}
    ELSE IF tool = "parser" THEN {"parser"}
    ELSE {}

ToolNames == Conversions \union {"parser", "reader", "go", "node", "chrome", "storage"}

Plans == Seq(Seq(ToolNames))

\* No stage ends with a tool of a part that is not needed.
Honest(stages, needs) ==
    \A i \in 1 .. Len(stages) :
        stages[i] # <<>> => PartOf(stages[i][Len(stages[i])]) \subseteq needs

\* Each tool of some stage is of this part.
Covers(stages, part) ==
    \E i \in 1 .. Len(stages) : \A j \in 1 .. Len(stages[i]) : part \in PartOf(stages[i][j])

Without(stages, names) ==
    \A i \in 1 .. Len(stages) : \A j \in 1 .. Len(stages[i]) : stages[i][j] \notin names

\* Only parsing prints what it is given as a PDF.
Suits(stages, needs) ==
    /\ stages \in Plans /\ stages # <<>>
    /\ Honest(stages, needs)
    /\ \A part \in needs : part \in tools \/ Covers(stages, part)
    /\ ~Reparses => Without(stages, {"DocToPdf"})

\* What the plan of a request needs: nothing where its document is taken for
\* something that it is not.
Used ==
    CASE cfg.endpoint = "images" -> {"images"}
      [] Reparses -> {"parser"} \union (IF cfg.toPdf THEN {"pandoc"} ELSE {})
      [] cfg.endpoint = "render" -> IF fmt = "docx" THEN {"pandoc"} ELSE {}
      [] cfg.endpoint = "kv" -> IF fmt \in Office THEN {"pandoc"} ELSE {}
      [] cfg.endpoint = "readability" -> IF fmt \in OpenOffice THEN {} ELSE NeedsOf(fmt)
      [] cfg.endpoint = "eke" -> NeedsOf(fmt)

\* A request that is still to be converted, or was.
Planned == step = "convert" \/ (Reparses /\ step \in {"again", "chrome"})

\* The plan suits the request, a directory is there for a tool that was found,
\* and what has been converted did not lack a part.
PlanInv ==
    /\ Planned => Suits(plan, Used)
    /\ dir => Provided(Tool) /\ Accepts(Tool)
    /\ step = "finish" => Used \subseteq tools

\* Which endpoint goes through which steps, and where no format is known yet.
FlowInv ==
    /\ step = "again" => Reparses /\ plan = Parsed(cfg.toPdf)
    /\ step \in {"start", "read"} => cfg.endpoint = "readability"
    /\ step = "chrome" => Reparses \/ cfg.endpoint = "readability"
    /\ step = "fetch" => Retries
    /\ step \in {"pages", "batches", "upload"} => cfg.endpoint = "images"
    /\ step \in {"convert", "finish"} => cfg.endpoint # "images"
    /\ step \in {"start", "fetch"} => fmt = "none"
    /\ step = "read" \/ (step = "chrome" /\ ~Reparses) => fmt \in {"none"} \union OpenOffice

\* An error is only there with the failure, and an answer only at the end.
AnswerInv ==
    /\ step \notin {"failed", "answered"} => error = "none"
    /\ error = "unavailable" => ~(Used \subseteq tools)
    /\ step # "answered" => answer = NoAnswer
    /\ answer.status = "501" => ~(Used \subseteq tools)
    /\ Succeeds /\ ~answer.cached => Used \subseteq tools

\* A request whose bytes are converted now, or were.
Converted == step = "convert" \/ step = "finish" \/ (Succeeds /\ ~answer.cached)

\* Only tools of these names are left in the stage at hand.
OnlyFirst(names) ==
    step = "convert" /\ \A j \in 1 .. Len(Head(plan)) : Head(plan)[j] \in names

\* What the bytes at hand are of: an error page that is taken for a PDF, and
\* nothing where a text is wanted, get no further than the tools that refuse them.
BodyInv ==
    /\ Converted /\ ~Retries => body = "document"
    /\ Converted /\ body = "errorpage" =>
          /\ cfg.endpoint \in {"readability", "kv"}
          /\ cfg.endpoint = "readability" /\ fmt = "pdf" => OnlyFirst({"PdfToHtml", "reader"})
    /\ Converted /\ body = "none" =>
          Reparses /\ ~cfg.fallback /\ (cfg.toPdf \/ OnlyFirst({"parser"}))
    /\ answer.cached => cfg.endpoint = "readability" /\ body # "none"
    /\ \A e \in cache : e.body # "none"

\* The pages that were converted: all up to the current batch, and none that
\* the document does not have.
PagesInv ==
    /\ first \in Nat \ {0} /\ pages \in Nat /\ size \in Int
    /\ running \union images \subseteq 1 .. pages
    /\ \A r \in sent : r.page \in 1 .. pages
    /\ \A p \in 1 .. pages : p < first => p \in images
    /\ step \in {"batches", "upload"} => body = "document" /\ "images" \in tools
    /\ step = "upload" => images = 1 .. pages
    /\ cfg.endpoint = "images" /\ Succeeds => images = 1 .. pages

DocInv == PlanInv /\ FlowInv /\ AnswerInv /\ BodyInv /\ PagesInv

(***************************************************************************)
(* What is kept of a plan when a tool or a stage of it is done with, and   *)
(* when two plans are joined.                                              *)
(***************************************************************************)

\* A tool can be tried if the part that it is was found.
LEMMA ProvidedIsPart ==
  ASSUME NEW tool
  PROVE  Provided(tool) <=> PartOf(tool) \subseteq tools
BY DEF Provided, PartOf, Conversions

\* The head of a plan's stage, and the rest of it.
LEMMA PlanParts ==
  ASSUME NEW stages \in Plans, stages # <<>>
  PROVE  /\ Len(stages) \in Nat \ {0}
         /\ Head(stages) \in Seq(ToolNames) /\ Head(stages) = stages[1]
         /\ Tail(stages) \in Plans /\ Len(Tail(stages)) = Len(stages) - 1
         /\ \A i \in 1 .. Len(stages) - 1 : Tail(stages)[i] = stages[i + 1]
BY DEF Plans

\* What is left without the first element ends like the whole.
LEMMA TailOf ==
  ASSUME NEW S, NEW s \in Seq(S), Len(s) > 1
  PROVE  /\ Tail(s) \in Seq(S) /\ Tail(s) # <<>>
         /\ Tail(s)[Len(Tail(s))] = s[Len(s)]
         /\ \A j \in 1 .. Len(Tail(s)) : j + 1 \in 1 .. Len(s) /\ Tail(s)[j] = s[j + 1]
<1>1. Len(s) \in Nat /\ Len(Tail(s)) = Len(s) - 1 /\ Tail(s) \in Seq(S)
  OBVIOUS
<1>2. ASSUME NEW j \in 1 .. Len(Tail(s)) PROVE j + 1 \in 1 .. Len(s) /\ Tail(s)[j] = s[j + 1]
  BY <1>1
<1>3. Len(Tail(s)) \in 1 .. Len(Tail(s)) /\ Len(Tail(s)) + 1 = Len(s)
  BY <1>1
<1>4. Tail(s)[Len(Tail(s))] = s[Len(Tail(s)) + 1]
  BY <1>2, <1>3
<1>5. Tail(s)[Len(Tail(s))] = s[Len(s)]
  BY <1>3, <1>4
<1>6. ASSUME NEW t \in Seq(S), Len(t) > 0 PROVE t # <<>>
  BY <1>6
<1>7. Len(Tail(s)) > 0
  BY <1>1
<1>8. Tail(s) # <<>>
  BY <1>1, <1>6, <1>7
<1> QED BY <1>1, <1>2, <1>5, <1>8

\* A stage loses its first tool and keeps its last.
LEMMA NextTool ==
  ASSUME NEW stages \in Plans, stages # <<>>, Len(Head(stages)) > 1,
         NEW rest, rest = <<Tail(Head(stages))>> \o Tail(stages)
  PROVE  /\ rest \in Plans /\ rest # <<>>
         /\ \A needs : Honest(stages, needs) => Honest(rest, needs)
         /\ \A part : Covers(stages, part) => Covers(rest, part)
         /\ \A names : Without(stages, names) => Without(rest, names)
<1> DEFINE stage == Head(stages)
<1>1. /\ Len(stages) \in Nat \ {0} /\ stage \in Seq(ToolNames) /\ stage = stages[1]
      /\ Tail(stages) \in Plans /\ Len(Tail(stages)) = Len(stages) - 1
      /\ \A i \in 1 .. Len(stages) - 1 : Tail(stages)[i] = stages[i + 1]
  BY PlanParts
<1>2. /\ Tail(stage) \in Seq(ToolNames) /\ stage # <<>>
      /\ Tail(stage)[Len(Tail(stage))] = stage[Len(stage)]
      /\ \A j \in 1 .. Len(Tail(stage)) : j + 1 \in 1 .. Len(stage) /\ Tail(stage)[j] = stage[j + 1]
  BY <1>1, TailOf
<1> HIDE DEF stage
<1>3. /\ rest \in Plans /\ Len(rest) = Len(stages) /\ rest[1] = Tail(stage)
      /\ \A i \in 2 .. Len(stages) : rest[i] = stages[i]
  BY <1>1, <1>2 DEF Plans, stage
<1>4. ASSUME NEW needs, Honest(stages, needs) PROVE Honest(rest, needs)
  <2> SUFFICES ASSUME NEW i \in 1 .. Len(rest), rest[i] # <<>>
               PROVE  PartOf(rest[i][Len(rest[i])]) \subseteq needs
    BY DEF Honest
  <2>1. CASE i = 1
    <3>1. rest[i][Len(rest[i])] = stage[Len(stage)]
      BY <1>2, <1>3, <2>1
    <3> QED BY <1>1, <1>2, <1>4, <3>1 DEF Honest
  <2>2. CASE i # 1
    BY <1>3, <1>4, <2>2 DEF Honest
  <2> QED BY <2>1, <2>2
<1>5. ASSUME NEW part, Covers(stages, part) PROVE Covers(rest, part)
  <2>1. PICK i \in 1 .. Len(stages) : \A j \in 1 .. Len(stages[i]) : part \in PartOf(stages[i][j])
    BY <1>5 DEF Covers
  <2>2. ASSUME NEW j \in 1 .. Len(rest[i]) PROVE part \in PartOf(rest[i][j])
    <3>1. CASE i = 1
      <4>1. j + 1 \in 1 .. Len(stage) /\ rest[i][j] = stage[j + 1]
        BY <1>2, <1>3, <2>2, <3>1
      <4> QED BY <1>1, <2>1, <3>1, <4>1
    <3>2. CASE i # 1
      BY <1>3, <2>1, <2>2, <3>2
    <3> QED BY <3>1, <3>2
  <2> QED BY <1>3, <2>2 DEF Covers
<1>6. ASSUME NEW names, Without(stages, names) PROVE Without(rest, names)
  <2> SUFFICES ASSUME NEW i \in 1 .. Len(rest), NEW j \in 1 .. Len(rest[i])
               PROVE  rest[i][j] \notin names
    BY DEF Without
  <2>1. CASE i = 1
    <3>1. rest[i] = Tail(stage)
      BY <1>3, <2>1
    <3>2. j + 1 \in 1 .. Len(stage) /\ rest[i][j] = stage[j + 1]
      BY <1>2, <3>1
    <3>3. \A k \in 1 .. Len(stage) : stage[k] \notin names
      BY <1>1, <1>6 DEF Without
    <3> QED BY <3>2, <3>3
  <2>2. CASE i # 1
    BY <1>3, <1>6, <2>2 DEF Without
  <2> QED BY <2>1, <2>2
<1> QED BY <1>1, <1>3, <1>4, <1>5, <1>6

\* A stage that is done with is no more needed: what it cannot be passed without
\* is what its tool is a part of.
LEMMA NextStage ==
  ASSUME NEW stages \in Plans, stages # <<>>, Head(stages) # <<>>
  PROVE  /\ Tail(stages) \in Plans
         /\ \A needs : Honest(stages, needs) => Honest(Tail(stages), needs)
         /\ \A part : Covers(stages, part) =>
               Covers(Tail(stages), part) \/ part \in PartOf(Head(Head(stages)))
         /\ \A names : Without(stages, names) =>
               Without(Tail(stages), names) /\ Head(Head(stages)) \notin names
<1> DEFINE rest == Tail(stages)
<1>1. /\ Len(stages) \in Nat \ {0} /\ Head(stages) = stages[1]
      /\ rest \in Plans /\ Len(rest) = Len(stages) - 1
      /\ \A i \in 1 .. Len(rest) : rest[i] = stages[i + 1]
  BY PlanParts
<1>2. Head(Head(stages)) = stages[1][1] /\ 1 \in 1 .. Len(stages[1])
  BY <1>1, PlanParts
<1> HIDE DEF rest
<1>3. ASSUME NEW needs, Honest(stages, needs) PROVE Honest(rest, needs)
  BY <1>1, <1>3 DEF Honest
<1>4. ASSUME NEW part, Covers(stages, part)
      PROVE  Covers(rest, part) \/ part \in PartOf(Head(Head(stages)))
  <2>1. PICK i \in 1 .. Len(stages) : \A j \in 1 .. Len(stages[i]) : part \in PartOf(stages[i][j])
    BY <1>4 DEF Covers
  <2>2. CASE i = 1
    BY <1>2, <2>1, <2>2
  <2>3. CASE i # 1
    <3>1. i - 1 \in 1 .. Len(rest) /\ rest[i - 1] = stages[i]
      BY <1>1, <2>3
    <3> QED BY <2>1, <3>1 DEF Covers
  <2> QED BY <2>2, <2>3
<1>5. ASSUME NEW names, Without(stages, names)
      PROVE  Without(rest, names) /\ Head(Head(stages)) \notin names
  <2>1. ASSUME NEW i \in 1 .. Len(rest), NEW j \in 1 .. Len(rest[i])
        PROVE  rest[i][j] \notin names
    <3>1. i + 1 \in 1 .. Len(stages) /\ rest[i] = stages[i + 1]
      BY <1>1
    <3> QED BY <1>5, <2>1, <3>1 DEF Without
  <2>2. Head(Head(stages)) \notin names
    BY <1>1, <1>2, <1>5 DEF Without
  <2> QED BY <2>1, <2>2 DEF Without
<1> QED BY <1>1, <1>3, <1>4, <1>5 DEF rest

\* Two plans, one after the other.
LEMMA Joined ==
  ASSUME NEW some \in Plans, NEW more \in Plans, NEW all, all = some \o more
  PROVE  /\ all \in Plans
         /\ \A needs : Honest(some, needs) /\ Honest(more, needs) => Honest(all, needs)
         /\ \A part : Covers(some, part) \/ Covers(more, part) => Covers(all, part)
         /\ \A names : Without(some, names) /\ Without(more, names) => Without(all, names)
<1>1. /\ all \in Plans /\ Len(all) = Len(some) + Len(more)
      /\ Len(some) \in Nat /\ Len(more) \in Nat
      /\ \A i \in 1 .. Len(some) : all[i] = some[i]
      /\ \A i \in 1 .. Len(more) : all[Len(some) + i] = more[i]
      /\ \A i \in 1 .. Len(all) : i \in 1 .. Len(some) \/ i - Len(some) \in 1 .. Len(more)
  BY DEF Plans
<1>2. \A i \in 1 .. Len(all) :
        \/ i \in 1 .. Len(some) /\ all[i] = some[i]
        \/ i - Len(some) \in 1 .. Len(more) /\ all[i] = more[i - Len(some)]
  BY <1>1
<1>3. ASSUME NEW needs, Honest(some, needs), Honest(more, needs) PROVE Honest(all, needs)
  BY <1>2, <1>3 DEF Honest
<1>4. ASSUME NEW part, Covers(some, part) \/ Covers(more, part) PROVE Covers(all, part)
  <2>1. CASE Covers(some, part)
    <3>1. PICK i \in 1 .. Len(some) : \A j \in 1 .. Len(some[i]) : part \in PartOf(some[i][j])
      BY <2>1 DEF Covers
    <3>2. i \in 1 .. Len(all) /\ all[i] = some[i]
      BY <1>1
    <3> QED BY <3>1, <3>2 DEF Covers
  <2>2. CASE Covers(more, part)
    <3>1. PICK i \in 1 .. Len(more) : \A j \in 1 .. Len(more[i]) : part \in PartOf(more[i][j])
      BY <2>2 DEF Covers
    <3>2. Len(some) + i \in 1 .. Len(all) /\ all[Len(some) + i] = more[i]
      BY <1>1
    <3> QED BY <3>1, <3>2 DEF Covers
  <2> QED BY <1>4, <2>1, <2>2
<1>5. ASSUME NEW names, Without(some, names), Without(more, names) PROVE Without(all, names)
  BY <1>2, <1>5 DEF Without
<1> QED BY <1>1, <1>3, <1>4, <1>5

\* A plan of one stage.
LEMMA OneStage ==
  ASSUME NEW stage \in Seq(ToolNames)
  PROVE  /\ <<stage>> \in Plans /\ <<stage>> # <<>>
         /\ \A needs : Honest(<<stage>>, needs) <=>
               (stage # <<>> => PartOf(stage[Len(stage)]) \subseteq needs)
         /\ \A part : Covers(<<stage>>, part) <=>
               \A j \in 1 .. Len(stage) : part \in PartOf(stage[j])
         /\ \A names : Without(<<stage>>, names) <=>
               \A j \in 1 .. Len(stage) : stage[j] \notin names
<1>1. <<stage>> \in Plans /\ Len(<<stage>>) = 1 /\ <<stage>>[1] = stage
  BY DEF Plans
<1>2. \A i \in 1 .. Len(<<stage>>) : i = 1
  BY <1>1
<1> QED BY <1>1, <1>2 DEF Honest, Covers, Without

(***************************************************************************)
(* The plans of formats.go and the endpoints keep their promise.           *)
(***************************************************************************)

\* Work of the server itself refuses nothing and needs nothing.
LEMMA OwnStage ==
  ASSUME NEW tool \in {"go", "node", "chrome", "storage", "reader"}
  PROVE  /\ << <<tool>> >> \in Plans /\ << <<tool>> >> # <<>>
         /\ \A needs : Honest(<< <<tool>> >>, needs)
         /\ Without(<< <<tool>> >>, {"DocToPdf"})
<1> DEFINE stage == <<tool>>
<1>1. stage \in Seq(ToolNames) /\ Len(stage) = 1 /\ stage[1] = tool
  BY DEF ToolNames
<1>2. PartOf(tool) = {} /\ tool # "DocToPdf"
  BY DEF PartOf, Conversions
<1>3. \A j \in 1 .. Len(stage) : stage[j] = tool
  BY <1>1
<1> HIDE DEF stage
<1>4. \A needs : Honest(<<stage>>, needs)
  BY <1>1, <1>2, OneStage
<1>5. Without(<<stage>>, {"DocToPdf"})
  BY <1>1, <1>2, <1>3, OneStage
<1> QED BY <1>1, <1>4, <1>5, OneStage DEF stage

\* Conversions, one instead of the other, need pandoc.
LEMMA ConversionStage ==
  ASSUME NEW stage \in Seq(Conversions), stage # <<>>
  PROVE  /\ <<stage>> \in Plans /\ <<stage>> # <<>>
         /\ \A needs : "pandoc" \in needs => Honest(<<stage>>, needs)
         /\ Covers(<<stage>>, "pandoc")
         /\ stage \in Seq(Conversions \ {"DocToPdf"}) => Without(<<stage>>, {"DocToPdf"})
<1>1. stage \in Seq(ToolNames)
  BY DEF ToolNames
<1>2. \A j \in 1 .. Len(stage) : stage[j] \in Conversions
  OBVIOUS
<1>3. \A j \in 1 .. Len(stage) : PartOf(stage[j]) = {"pandoc"}
  BY <1>2 DEF PartOf
<1>4. Len(stage) \in 1 .. Len(stage)
  <2>1. Len(stage) \in Nat /\ Len(stage) # 0
    OBVIOUS
  <2> QED BY <2>1
<1>5. ASSUME NEW needs, "pandoc" \in needs PROVE Honest(<<stage>>, needs)
  <2>1. PartOf(stage[Len(stage)]) \subseteq needs
    BY <1>3, <1>4, <1>5
  <2> QED BY <1>1, <2>1, OneStage
<1>6. Covers(<<stage>>, "pandoc")
  <2>1. \A j \in 1 .. Len(stage) : "pandoc" \in PartOf(stage[j])
    BY <1>3
  <2> QED BY <1>1, <2>1, OneStage
<1>7. ASSUME stage \in Seq(Conversions \ {"DocToPdf"}) PROVE Without(<<stage>>, {"DocToPdf"})
  <2>1. \A j \in 1 .. Len(stage) : stage[j] \in Conversions \ {"DocToPdf"}
    BY <1>7
  <2>2. \A j \in 1 .. Len(stage) : stage[j] \notin {"DocToPdf"}
    BY <2>1
  <2> QED BY <1>1, <2>2, OneStage
<1> QED BY <1>1, <1>5, <1>6, <1>7, OneStage

\* So does parsing need the parser.
LEMMA ParserStage ==
  /\ << <<"parser">> >> \in Plans /\ << <<"parser">> >> # <<>>
  /\ \A needs : "parser" \in needs => Honest(<< <<"parser">> >>, needs)
  /\ Covers(<< <<"parser">> >>, "parser")
  /\ Without(<< <<"parser">> >>, {"DocToPdf"})
<1> DEFINE stage == <<"parser">>
<1>1. stage \in Seq(ToolNames) /\ Len(stage) = 1 /\ stage[1] = "parser"
  BY DEF ToolNames
<1>2. PartOf("parser") = {"parser"}
  BY DEF PartOf, Conversions
<1>3. \A j \in 1 .. Len(stage) : stage[j] = "parser"
  BY <1>1
<1> HIDE DEF stage
<1>4. ASSUME NEW needs, "parser" \in needs PROVE Honest(<<stage>>, needs)
  BY <1>1, <1>2, <1>4, OneStage
<1>5. Covers(<<stage>>, "parser") /\ Without(<<stage>>, {"DocToPdf"})
  BY <1>1, <1>2, <1>3, OneStage
<1> QED BY <1>1, <1>4, <1>5, OneStage DEF stage

\* A plan that suits, and more that refuses nothing for another reason, suits.
LEMMA SuitsJoined ==
  ASSUME NEW some \in Plans, NEW more \in Plans, some # <<>> \/ more # <<>>, NEW needs,
         Honest(some, needs), Honest(more, needs),
         \A part \in needs : part \in tools \/ Covers(some, part) \/ Covers(more, part),
         ~Reparses => Without(some, {"DocToPdf"}) /\ Without(more, {"DocToPdf"})
  PROVE  Suits(some \o more, needs)
<1>1. some \o more # <<>>
  <2>1. Len(some) > 0 \/ Len(more) > 0
    BY DEF Plans
  <2>2. Len(some \o more) > 0
    BY <2>1 DEF Plans
  <2> QED BY <2>2
<1> QED BY <1>1, Joined DEF Suits

\* Stages of one conversion, or of two, with no printing among them.
LEMMA Stages ==
  ASSUME NEW a \in Conversions \ {"DocToPdf"}, NEW b \in Conversions \ {"DocToPdf"},
         NEW stage, stage = <<a>> \/ stage = <<a, b>>
  PROVE  /\ <<stage>> \in Plans /\ <<stage>> # <<>>
         /\ \A needs : "pandoc" \in needs => Honest(<<stage>>, needs)
         /\ Covers(<<stage>>, "pandoc") /\ Without(<<stage>>, {"DocToPdf"})
<1> DEFINE C == Conversions \ {"DocToPdf"}
<1>1. <<a>> \in Seq(C) /\ <<a, b>> \in Seq(C)
  OBVIOUS
<1>2. Len(<<a>>) = 1 /\ Len(<<a, b>>) = 2
  OBVIOUS
<1>3. stage \in Seq(C) /\ stage # <<>>
  <2>1. CASE stage = <<a>>
    BY <1>1, <2>1
  <2>2. CASE stage = <<a, b>>
    BY <1>1, <2>2
  <2> QED BY <2>1, <2>2
<1>4. stage \in Seq(Conversions)
  BY <1>3
<1> QED BY <1>3, <1>4, ConversionStage

\* The text of an office document.
LEMMA OfficeTextSuits ==
  ASSUME NEW f \in Office \union OpenOffice
  PROVE  Suits(OfficeText(f), NeedsOf(f)) /\ Without(OfficeText(f), {"DocToPdf"})
<1>1. CASE f \notin {"xls", "xlsx"}
  <2>1. /\ NeedsOf(f) = {"pandoc"}
    BY <1>1 DEF NeedsOf
  <2>2. \E a, b \in Conversions \ {"DocToPdf"} : \E stage :
           (stage = <<a>> \/ stage = <<a, b>>) /\ OfficeText(f) = <<stage>>
    <3>1. CASE f = "doc"
      BY <3>1 DEF OfficeText, Conversions
    <3>2. CASE f = "ppt"
      BY <3>2 DEF OfficeText, Conversions
    <3>3. CASE f = "pptx"
      BY <3>3 DEF OfficeText, Conversions
    <3>4. CASE f \in {"docx", "rst"}
      BY <3>4 DEF OfficeText, Conversions
    <3>5. CASE f \in {"odt", "ods", "odp", "rtf"}
      BY <3>5 DEF OfficeText, Conversions
    <3> QED BY <1>1, <3>1, <3>2, <3>3, <3>4, <3>5 DEF Office, OpenOffice
  <2>3. /\ OfficeText(f) \in Plans /\ OfficeText(f) # <<>>
        /\ Honest(OfficeText(f), {"pandoc"}) /\ Covers(OfficeText(f), "pandoc")
        /\ Without(OfficeText(f), {"DocToPdf"})
    BY <2>2, Stages
  <2> QED BY <2>1, <2>3 DEF Suits
<1>2. CASE f \in {"xls", "xlsx"}
  <2> DEFINE needs == {"pandoc", "parser"}
             first_ == << <<"AnythingToHtml">> >>
             last_ == << <<"parser">> >>
             both == first_ \o last_
  <2>1. NeedsOf(f) = needs
    BY <1>2 DEF NeedsOf, Office
  <2>2. "AnythingToHtml" \in Conversions \ {"DocToPdf"} /\ "XlsToXlsx" \in Conversions \ {"DocToPdf"}
    BY DEF Conversions
  <2>3. /\ first_ \in Plans /\ first_ # <<>> /\ Honest(first_, needs)
        /\ Covers(first_, "pandoc") /\ Without(first_, {"DocToPdf"})
    BY <2>2, Stages
  <2>4. /\ << <<"XlsToXlsx">> >> \in Plans /\ << <<"XlsToXlsx">> >> # <<>>
        /\ Honest(<< <<"XlsToXlsx">> >>, needs)
        /\ Without(<< <<"XlsToXlsx">> >>, {"DocToPdf"})
    BY <2>2, Stages
  <2>5. /\ last_ \in Plans /\ last_ # <<>> /\ Honest(last_, needs)
        /\ Covers(last_, "parser") /\ Without(last_, {"DocToPdf"})
    BY ParserStage
  <2>6. OfficeText("xlsx") = both /\ OfficeText("xls") = << <<"XlsToXlsx">> >> \o both
    BY DEF OfficeText
  <2> HIDE DEF first_, last_
  <2>7. Suits(both, needs) /\ Without(both, {"DocToPdf"})
    <3>1. \A part \in needs : Covers(first_, part) \/ Covers(last_, part)
      BY <2>3, <2>5
    <3>2. Suits(first_ \o last_, needs)
      BY <2>3, <2>5, <3>1, SuitsJoined
    <3> QED BY <2>3, <2>5, <3>2, Joined
  <2>8. both \in Plans /\ Honest(both, needs) /\ Covers(both, "pandoc") /\ Covers(both, "parser")
    BY <2>3, <2>5, Joined
  <2> HIDE DEF both
  <2>9. /\ Suits(<< <<"XlsToXlsx">> >> \o both, needs)
        /\ Without(<< <<"XlsToXlsx">> >> \o both, {"DocToPdf"})
    <3>1. \A part \in needs : Covers(both, part)
      BY <2>8
    <3>2. Suits(<< <<"XlsToXlsx">> >> \o both, needs)
      BY <2>4, <2>7, <2>8, <3>1, SuitsJoined
    <3> QED BY <2>4, <2>7, <2>8, <3>2, Joined
  <2> QED BY <1>2, <2>1, <2>6, <2>7, <2>9
<1> QED BY <1>1, <1>2

\* Stages that need nothing of the toolchain: no tool at all, a PDF's text.
LEMMA FreeStage ==
  ASSUME NEW stage \in {<<>>, <<"PdfToHtml", "reader">>}
  PROVE  /\ <<stage>> \in Plans /\ <<stage>> # <<>>
         /\ \A needs : Honest(<<stage>>, needs)
         /\ Without(<<stage>>, {"DocToPdf"})
<1>1. ASSUME NEW s \in Seq(ToolNames), s # <<>> => PartOf(s[Len(s)]) = {},
             \A j \in 1 .. Len(s) : s[j] \notin {"DocToPdf"}
      PROVE  /\ <<s>> \in Plans /\ <<s>> # <<>>
             /\ \A needs : Honest(<<s>>, needs)
             /\ Without(<<s>>, {"DocToPdf"})
  BY <1>1, OneStage
<1>2. /\ stage \in Seq(ToolNames)
      /\ stage # <<>> => PartOf(stage[Len(stage)]) = {}
      /\ \A j \in 1 .. Len(stage) : stage[j] \notin {"DocToPdf"}
  <2>1. CASE stage = <<>>
    BY <2>1
  <2>2. CASE stage = <<"PdfToHtml", "reader">>
    <3>1. stage \in Seq(ToolNames) /\ Len(stage) = 2 /\ stage[1] = "PdfToHtml" /\ stage[2] = "reader"
      BY <2>2 DEF ToolNames, Conversions
    <3>2. PartOf("reader") = {}
      BY DEF PartOf, Conversions
    <3> QED BY <3>1, <3>2
  <2> QED BY <2>1, <2>2
<1> QED BY <1>1, <1>2

\* parseDocument, and the same for the file of a request.
LEMMA ArticleSuits ==
  ASSUME NEW f \in Formats
  PROVE  Suits(Article(f), NeedsOf(f)) /\ Suits(Upload(f), NeedsOf(f))
<1>1. /\ << <<"go">> >> \in Plans /\ << <<"go">> >> # <<>>
      /\ \A needs : Honest(<< <<"go">> >>, needs)
      /\ Without(<< <<"go">> >>, {"DocToPdf"})
  BY OwnStage
<1>2. f \notin Office \union OpenOffice => NeedsOf(f) = {}
  BY DEF NeedsOf, Office
<1>3. Suits(PlainText, {})
  BY <1>1 DEF Suits, PlainText
<1>4. CASE f \in {"plain", "csv"}
  <2>1. Article(f) = PlainText /\ Upload(f) = PlainText
    BY <1>4 DEF Article, Upload
  <2>2. NeedsOf(f) = {}
    BY <1>4 DEF NeedsOf, Office, OpenOffice
  <2> QED BY <1>3, <2>1, <2>2
<1>5. CASE f \in {"tsv", "none"}
  <2>1. Article(f) = << <<>> >> /\ Upload(f) = PlainText
    BY <1>5 DEF Article, Upload
  <2>2. NeedsOf(f) = {}
    BY <1>5 DEF NeedsOf, Office, OpenOffice
  <2>3. Suits(<< <<>> >>, {})
    BY FreeStage DEF Suits
  <2> QED BY <1>3, <2>1, <2>2, <2>3
<1>6. CASE f \in {"pdf"} \union Office \union OpenOffice
  <2> DEFINE text == OfficeText(f)
  <2>1. Article(f) = text \o << <<"go">> >> /\ Upload(f) = Article(f)
    BY <1>6 DEF Article, Upload, Office, OpenOffice
  <2>2. Suits(text, NeedsOf(f)) /\ Without(text, {"DocToPdf"})
    <3>1. CASE f = "pdf"
      <4>1. text = << <<"PdfToHtml", "reader">> >>
        BY <3>1 DEF OfficeText
      <4>2. NeedsOf(f) = {}
        BY <3>1 DEF NeedsOf, Office, OpenOffice
      <4> QED BY <4>1, <4>2, FreeStage DEF Suits
    <3>2. CASE f # "pdf"
      BY <1>6, <3>2, OfficeTextSuits
    <3> QED BY <3>1, <3>2
  <2> HIDE DEF text
  <2>3. Suits(text \o << <<"go">> >>, NeedsOf(f))
    BY <1>1, <2>2, SuitsJoined DEF Suits
  <2> QED BY <2>1, <2>3
<1> QED BY <1>4, <1>5, <1>6 DEF Formats

\* doParseToMarkdownKv
LEMMA MarkdownSuits ==
  ASSUME NEW f \in Formats
  PROVE  Suits(Markdown(f), IF f \in Office THEN {"pandoc"} ELSE {})
<1>1. CASE f \notin Office
  <2>1. Markdown(f) = << <<"go">> >>
    BY <1>1 DEF Markdown, TextToMarkdown, Office
  <2>2. Suits(<< <<"go">> >>, {})
    BY OwnStage DEF Suits
  <2> QED BY <1>1, <2>1, <2>2
<1>2. CASE f \in {"doc", "docx", "ppt"}
  <2> DEFINE end == << <<"HtmlToMarkdown">> >>
  <2>1. PICK a \in Conversions \ {"DocToPdf"} : Markdown(f) = << <<a>>, <<"HtmlToMarkdown">> >>
    BY <1>2 DEF Markdown, ViaHtml, Conversions
  <2>2. Markdown(f) = << <<a>> >> \o end
    BY <2>1
  <2>3. "HtmlToMarkdown" \in Conversions \ {"DocToPdf"}
    BY DEF Conversions
  <2>4. /\ << <<a>> >> \in Plans /\ << <<a>> >> # <<>>
        /\ Honest(<< <<a>> >>, {"pandoc"}) /\ Covers(<< <<a>> >>, "pandoc")
        /\ Without(<< <<a>> >>, {"DocToPdf"})
    BY Stages
  <2>5. end \in Plans /\ Honest(end, {"pandoc"}) /\ Without(end, {"DocToPdf"})
    BY <2>3, Stages
  <2> HIDE DEF end
  <2>6. Suits(<< <<a>> >> \o end, {"pandoc"})
    BY <2>4, <2>5, SuitsJoined
  <2> QED BY <1>2, <2>2, <2>6 DEF Office
<1>3. CASE f \in {"pptx", "xls", "xlsx"}
  <2>1. PICK a \in Conversions \ {"DocToPdf"} : Markdown(f) = << <<a>> >>
    BY <1>3 DEF Markdown, Conversions
  <2>2. Suits(<< <<a>> >>, {"pandoc"})
    BY Stages DEF Suits
  <2> QED BY <1>3, <2>1, <2>2 DEF Office
<1> QED BY <1>1, <1>2, <1>3 DEF Office

\* doRunDocParse
LEMMA ParsedSuits ==
  ASSUME NEW toPdf \in BOOLEAN, Reparses
  PROVE  Suits(Parsed(toPdf), {"parser"} \union (IF toPdf THEN {"pandoc"} ELSE {}))
<1> DEFINE parse == << <<"parser">> >>
           go == << <<"go">> >>
           print == << <<"DocToPdf">> >>
           both == parse \o go
<1>1. parse \in Plans /\ parse # <<>> /\ Covers(parse, "parser")
      /\ \A needs : "parser" \in needs => Honest(parse, needs)
  BY ParserStage
<1>2. go \in Plans /\ \A needs : Honest(go, needs)
  BY OwnStage
<1>3. << <<"parser">>, <<"go">> >> = both
  OBVIOUS
<1>4. Parsed(toPdf) = (IF toPdf THEN print ELSE <<>>) \o both
  BY <1>3 DEF Parsed
<1>5. /\ print \in Plans /\ print # <<>> /\ Covers(print, "pandoc")
      /\ \A needs : "pandoc" \in needs => Honest(print, needs)
  <2>1. <<"DocToPdf">> \in Seq(Conversions) /\ Len(<<"DocToPdf">>) = 1
    BY DEF Conversions
  <2>2. <<"DocToPdf">> # <<>>
    BY <2>1
  <2> QED BY <2>1, <2>2, ConversionStage
<1> HIDE DEF parse, go, print
<1>6. /\ both \in Plans /\ Covers(both, "parser")
      /\ \A needs : "parser" \in needs => Honest(both, needs)
  BY <1>1, <1>2, Joined
<1>7. Suits(both, {"parser"})
  BY <1>1, <1>2, SuitsJoined
<1> HIDE DEF both
<1>8. CASE toPdf
  <2>1. Suits(print \o both, {"parser", "pandoc"})
    BY <1>5, <1>6, SuitsJoined
  <2>2. {"parser"} \union (IF toPdf THEN {"pandoc"} ELSE {}) = {"parser", "pandoc"}
    BY <1>8
  <2> QED BY <1>4, <1>8, <2>1, <2>2
<1>9. CASE ~toPdf
  <2>1. <<>> \o both = both
    BY <1>6 DEF Plans
  <2>2. {"parser"} \union (IF toPdf THEN {"pandoc"} ELSE {}) = {"parser"}
    BY <1>9
  <2> QED BY <1>4, <1>7, <1>9, <2>1, <2>2
<1> QED BY <1>8, <1>9

\* doRenderMarkdown
LEMMA RenderedSuits ==
  ASSUME NEW f \in {"pdf", "docx", "html", "none"}
  PROVE  Suits(Rendered(f), IF f = "docx" THEN {"pandoc"} ELSE {})
<1> DEFINE Free(some) ==
             /\ some \in Plans /\ some # <<>>
             /\ \A needs : Honest(some, needs)
             /\ Without(some, {"DocToPdf"})
           last == CASE f = "pdf"  -> HtmlToPdf \o Store
                     [] f = "docx" -> << <<"HtmlToDocx">> >> \o Store
                     [] f = "html" -> Store
                     [] OTHER      -> << <<>> >>
           needs == IF f = "docx" THEN {"pandoc"} ELSE {}
<1>1. ASSUME NEW some, NEW more, Free(some), Free(more) PROVE Free(some \o more)
  <2>1. /\ some \o more \in Plans
        /\ \A wants : Honest(some \o more, wants)
        /\ Without(some \o more, {"DocToPdf"})
    BY <1>1, Joined
  <2>2. some \o more # <<>>
    <3>1. Suits(some \o more, {})
      BY <1>1, SuitsJoined
    <3> QED BY <3>1 DEF Suits
  <2> QED BY <2>1, <2>2
<1>2. Free(Render) /\ Free(ApplyHtmlTemplate) /\ Free(HtmlToPdf) /\ Free(Store)
  BY OwnStage DEF Render, ApplyHtmlTemplate, HtmlToPdf, Store
<1>3. Free(<< <<>> >>)
  BY FreeStage
<1>4. Free(Render \o ApplyHtmlTemplate)
  BY <1>1, <1>2
<1>5. Suits(last, needs)
  <2>1. CASE f = "docx"
    <3>1. "HtmlToDocx" \in Conversions \ {"DocToPdf"}
      BY DEF Conversions
    <3>2. /\ << <<"HtmlToDocx">> >> \in Plans /\ << <<"HtmlToDocx">> >> # <<>>
          /\ Honest(<< <<"HtmlToDocx">> >>, {"pandoc"}) /\ Covers(<< <<"HtmlToDocx">> >>, "pandoc")
          /\ Without(<< <<"HtmlToDocx">> >>, {"DocToPdf"})
      BY <3>1, Stages
    <3>3. Suits(<< <<"HtmlToDocx">> >> \o Store, {"pandoc"})
      BY <1>2, <3>2, SuitsJoined
    <3>4. last = << <<"HtmlToDocx">> >> \o Store /\ needs = {"pandoc"}
      BY <2>1
    <3> QED BY <3>3, <3>4
  <2>2. CASE f # "docx"
    <3>1. last \in {HtmlToPdf \o Store, Store, << <<>> >>} /\ needs = {}
      BY <2>2
    <3>2. Free(HtmlToPdf \o Store)
      BY <1>1, <1>2
    <3>3. Free(last)
      BY <1>2, <1>3, <3>1, <3>2
    <3> QED BY <3>1, <3>3 DEF Suits
  <2> QED BY <2>1, <2>2
<1>6. Rendered(f) = (Render \o ApplyHtmlTemplate) \o last
  BY DEF Rendered
<1> HIDE DEF last, needs
<1>7. Suits((Render \o ApplyHtmlTemplate) \o last, needs)
  <2> DEFINE start == Render \o ApplyHtmlTemplate
  <2>1. Free(start)
    BY <1>4
  <2> HIDE DEF start
  <2>2. Suits(start \o last, needs)
    BY <1>5, <2>1, SuitsJoined DEF Suits
  <2> QED BY <2>2 DEF start
<1> QED BY <1>6, <1>7 DEF needs

\* What is needed once the format is known.
LEMMA PlanSuits ==
  ASSUME cfg.endpoint \in {"readability", "kv"} \/ Reparses, cfg \in Config,
         UNCHANGED <<tools, cfg>>, fmt' \in Formats \ OpenOffice
  PROVE  Suits(PlanOf(fmt'), Used')
<1>1. CASE Reparses
  <2>1. PlanOf(fmt') = Parsed(cfg.toPdf)
    BY <1>1 DEF PlanOf, Reparses
  <2>2. Used' = {"parser"} \union (IF cfg.toPdf THEN {"pandoc"} ELSE {})
    BY <1>1 DEF Used, Reparses
  <2>3. cfg.toPdf \in BOOLEAN
    BY DEF Config
  <2> QED BY <1>1, <2>1, <2>2, <2>3, ParsedSuits
<1>2. CASE cfg.endpoint = "readability"
  <2>1. PlanOf(fmt') = Article(fmt')
    BY <1>2 DEF PlanOf
  <2>2. Used' = NeedsOf(fmt')
    BY <1>2 DEF Used, Reparses
  <2> QED BY <2>1, <2>2, ArticleSuits
<1>3. CASE cfg.endpoint = "kv"
  <2>1. PlanOf(fmt') = Markdown(fmt')
    BY <1>3 DEF PlanOf
  <2>2. Used' = IF fmt' \in Office THEN {"pandoc"} ELSE {}
    BY <1>3 DEF Used, Reparses
  <2> QED BY <2>1, <2>2, MarkdownSuits
<1> QED BY <1>1, <1>2, <1>3

\* What a request needs that brings its document.
LEMMA GivenSuits ==
  ASSUME cfg.endpoint \in {"eke", "render"}, UNCHANGED <<tools, cfg>>,
         NEW g \in Given, fmt' = g[1]
  PROVE  Suits(g[2], Used')
<1>1. CASE cfg.endpoint = "eke"
  <2>1. PICK f \in Formats : g = <<f, Upload(f)>>
    BY <1>1 DEF Given
  <2>2. Used' = NeedsOf(f)
    BY <1>1, <2>1 DEF Used, Reparses
  <2> QED BY <2>1, <2>2, ArticleSuits
<1>2. CASE cfg.endpoint = "render"
  <2>1. PICK f \in {"pdf", "docx", "html", "none"} : g = <<f, Rendered(f)>>
    BY <1>2 DEF Given
  <2>2. Used' = IF f = "docx" THEN {"pandoc"} ELSE {}
    BY <1>2, <2>1 DEF Used, Reparses
  <2> QED BY <2>1, <2>2, RenderedSuits
<1> QED BY <1>1, <1>2

\* What is needed does not change but with the format, where it matters.
LEMMA NeedsKept ==
  ASSUME UNCHANGED <<tools, cfg>>, UNCHANGED fmt \/ Reparses
  PROVE  Used' = Used /\ (\A some : Suits(some, Used)' <=> Suits(some, Used))
<1>1. Used' = Used
  BY DEF Used, Reparses
<1> QED BY <1>1 DEF Suits, Reparses

-----------------------------------------------------------------------------
\* Which steps follow which.
LEMMA StepFlow == ASSUME TypeOK, Inv, FlowInv, Serve PROVE FlowInv'
<1> USE DEF FlowInv, Frame
<1>1. CASE AnswersFromCache \/ Starts \/ Finishes
  BY <1>1 DEF AnswersFromCache, Starts, Finishes, Retries, Reparses
<1>2. CASE DeterminesFormat
  <2>1. Reparses => PlanOf(fmt') = Parsed(cfg.toPdf)
    BY DEF PlanOf, Reparses
  <2> QED BY <1>2, <2>1 DEF DeterminesFormat, FetchFrame, Retries, Reparses
<1>3. CASE FormatUnknown \/ FormatPanics \/ FetchesAgain \/ FetchFailsAgain
  BY <1>3 DEF FormatUnknown, FormatPanics, FetchesAgain, FetchFailsAgain, FetchFrame, Fails,
     Panic, Answered, Retries, Reparses
<1>4. CASE Reads \/ ReadsWithChrome \/ ReadFails \/ ChromeFetches \/ ChromeFails \/ ChromePanics
  BY <1>4 DEF Reads, ReadsWithChrome, ReadFails, ChromeFetches, ChromeFails, ChromePanics,
     FetchFrame, Fails, Panic, Answered, Retries, Reparses
<1>5. CASE BodyBreaks \/ NoTool \/ ToolMissing \/ ToolFails \/ ToolWorks \/ ConversionStarts
  BY <1>5 DEF BodyBreaks, NoTool, ToolMissing, ToolFails, ToolWorks, ConversionStarts,
     ConvertFrame, Converting, TryNextTool, StageDone, Fails, Retries, Reparses
<1>6. CASE ConversionRuns \/ ConversionEnds
  BY <1>6 DEF ConversionRuns, ConversionEnds, Converts, ConversionFails, ConvertFrame, TryNextTool,
     StageDone, Fails, Retries, Reparses, Inv, Tidy
<1>7. CASE ImageStep
  BY <1>7 DEF ImageStep, CountsPages, PagesFail, BatchStarts, BatchFails, BatchFailsAtOnce,
     BatchesEnd, Uploads, ImagesFrame, Fails, Answered, Retries, Reparses
<1>8. CASE AttemptFails \/ AttemptPanics \/ NoMoreAttempts
  BY <1>8 DEF AttemptFails, AttemptPanics, NoMoreAttempts, MoreAttempts, Panic, Answered, Retries,
     Reparses
<1> QED BY <1>1, <1>2, <1>3, <1>4, <1>5, <1>6, <1>7, <1>8 DEF Serve, Fetching, ConvertStep

-----------------------------------------------------------------------------
\* A step that leaves the plan, or the request it is for, alone.
LEMMA PlanQuiet ==
  ASSUME PlanInv, UNCHANGED <<tools, cfg>>,
         Planned' => Planned /\ UNCHANGED <<plan, fmt>>,
         dir' => dir /\ UNCHANGED <<body, plan>>,
         step' = "finish" => step = "finish" /\ UNCHANGED fmt
  PROVE  PlanInv'
<1>1. ASSUME Planned' PROVE Suits(plan, Used)'
  <2>1. Suits(plan, Used) /\ plan' = plan /\ fmt' = fmt
    BY <1>1 DEF PlanInv
  <2> QED BY <2>1, NeedsKept
<1>2. ASSUME dir' PROVE (Provided(Tool) /\ Accepts(Tool))'
  BY <1>2 DEF PlanInv, Provided, Accepts, Tool
<1>3. ASSUME step' = "finish" PROVE Used' \subseteq tools'
  BY <1>3, NeedsKept DEF PlanInv
<1> QED BY <1>1, <1>2, <1>3 DEF PlanInv

\* A stage that is done with: the part its tool is of was there.
LEMMA PlanAfterStage ==
  ASSUME Suits(plan, Used), Head(plan) # <<>>, Provided(Tool), StageDone, UNCHANGED <<tools, cfg>>
  PROVE  /\ plan' # <<>> => Suits(plan', Used')
         /\ plan' = <<>> => Used' \subseteq tools
<1>1. plan \in Plans /\ plan # <<>>
  BY DEF Suits
<1>2. UNCHANGED fmt \/ Reparses
  <2>1. ~Reparses => Tool # "DocToPdf"
    BY <1>1, NextStage DEF Suits, Tool
  <2> QED BY <2>1 DEF StageDone
<1>3. Used' = Used
  BY <1>2, NeedsKept
<1>4. plan' = Tail(plan)
  BY DEF StageDone
<1>5. \A part : part \in PartOf(Tool) => part \in tools
  BY ProvidedIsPart
<1>6. /\ plan' \in Plans /\ Honest(plan', Used)
      /\ ~Reparses => Without(plan', {"DocToPdf"})
      /\ \A part \in Used : part \in tools \/ Covers(plan', part)
  BY <1>1, <1>4, <1>5, NextStage DEF Suits, Tool
<1>7. CASE plan' = <<>>
  <2>1. \A part : ~Covers(<<>>, part)
    BY DEF Covers
  <2> QED BY <1>3, <1>6, <1>7, <2>1
<1>8. CASE plan' # <<>>
  BY <1>3, <1>6, <1>8 DEF Suits
<1> QED BY <1>7, <1>8

\* The last tool of a stage is its first if there is no other.
LEMMA OnlyOne ==
  ASSUME NEW S, NEW s \in Seq(S), s # <<>>, ~(Len(s) > 1)
  PROVE  Len(s) = 1 /\ Head(s) = s[1]
<1>1. Len(s) \in Nat
  OBVIOUS
<1>2. Len(s) # 0
  OBVIOUS
<1>3. ASSUME NEW n \in Nat, n # 0, ~(n > 1) PROVE n = 1
  BY <1>3
<1>4. Len(s) = 1
  BY <1>1, <1>2, <1>3
<1>5. Head(s) = s[1]
  OBVIOUS
<1> QED BY <1>4, <1>5

\* A tool that is given up: the next of its stage, or none.
LEMMA PlanAfterTool ==
  ASSUME step = "convert", Suits(plan, Used), Head(plan) # <<>>, NEW reason, TryNextTool(reason),
         UNCHANGED <<tools, cfg, fmt>>
  PROVE  /\ step' # "failed" => Suits(plan', Used')
         /\ step' = "failed" /\ ~Provided(Tool) => ~(Used' \subseteq tools)
<1>1. plan \in Plans /\ plan # <<>>
  BY DEF Suits
<1>2. Used' = Used
  BY NeedsKept
<1>3. CASE Len(Head(plan)) > 1
  <2>1. plan' = <<Tail(Head(plan))>> \o Tail(plan)
    BY <1>3 DEF TryNextTool
  <2>2. Suits(plan', Used)
    BY <1>1, <1>3, <2>1, NextTool DEF Suits
  <2> QED BY <1>2, <1>3, <2>2 DEF TryNextTool
<1>4. CASE ~(Len(Head(plan)) > 1)
  <2>1. /\ Len(plan) \in Nat \ {0} /\ Head(plan) = plan[1]
        /\ Head(plan) \in Seq(ToolNames)
    BY <1>1, PlanParts
  <2>2. Len(Head(plan)) = 1 /\ Head(Head(plan)) = Head(plan)[1]
    BY <1>4, <2>1, OnlyOne
  <2>3. PartOf(Tool) \subseteq Used
    BY <2>1, <2>2 DEF Suits, Honest, Tool
  <2>4. step' = "failed"
    BY <1>4 DEF TryNextTool, Fails
  <2> QED BY <1>2, <2>3, <2>4, ProvidedIsPart
<1> QED BY <1>3, <1>4

\* The plan of a request goes on to suit it, and a directory is there for a
\* conversion that could be started.
LEMMA StepPlan == ASSUME TypeOK, Inv, FlowInv, PlanInv, Serve PROVE PlanInv'
<1> USE DEF Planned, Frame
<1>1. ASSUME UNCHANGED <<tools, cfg>>, ~dir', ~Planned', step' # "finish" PROVE PlanInv'
  BY <1>1 DEF PlanInv
<1>2. CASE AnswersFromCache \/ Starts \/ Finishes
  BY <1>2, <1>1 DEF AnswersFromCache, Starts, Finishes, Inv, Tidy, pandocVars
<1>3. CASE DeterminesFormat
  <2>1. UNCHANGED <<tools, cfg>> /\ fmt' \in Formats \ OpenOffice /\ plan' = PlanOf(fmt')
    BY <1>3 DEF DeterminesFormat, FetchFrame, FormatOf, Formats, ByExtension, ByContentType, Office,
       OpenOffice
  <2>2. cfg.endpoint \in {"readability", "kv"} \/ Reparses
    BY <1>3 DEF DeterminesFormat, FlowInv, Retries, Reparses
  <2>3. Suits(plan', Used')
    BY <2>1, <2>2, PlanSuits DEF TypeOK
  <2>4. step' # "finish" /\ ~dir'
    BY <1>3 DEF DeterminesFormat, Inv, Tidy
  <2>5. UNCHANGED Reparses
    BY <2>1 DEF Reparses
  <2> QED BY <2>1, <2>3, <2>4, <2>5 DEF PlanInv, Suits
<1>4. CASE FormatPanics \/ FetchesAgain \/ FetchFailsAgain
  <2>1. UNCHANGED <<tools, cfg, plan, fmt>> /\ ~dir' /\ step' # "finish" /\ (Planned' => Planned)
    BY <1>4 DEF FormatPanics, FetchesAgain, FetchFailsAgain, FetchFrame, Panic, Answered, Reparses,
       FlowInv, Inv, Tidy
  <2> QED BY <2>1, PlanQuiet
<1>5. CASE Reads
  <2>1. UNCHANGED <<tools, cfg>> /\ ~dir' /\ ~Planned'
    BY <1>5 DEF Reads, FetchFrame, Inv, Tidy
  <2>2. cfg'.endpoint = "readability" /\ fmt' \in {"none"} \union OpenOffice
    BY <1>5 DEF Reads, FetchFrame, FlowInv
  <2>3. Used' = {}
    BY <2>2 DEF Used, NeedsOf, Reparses, Office, OpenOffice
  <2> QED BY <2>1, <2>3 DEF PlanInv
<1>6. CASE FormatUnknown \/ ReadsWithChrome \/ ReadFails \/ ChromeFails \/ ChromePanics
  <2>1. UNCHANGED <<tools, cfg>> /\ ~dir' /\ ~Planned' /\ step' # "finish"
    BY <1>6 DEF FormatUnknown, ReadsWithChrome, ReadFails, ChromeFails, ChromePanics, FetchFrame, Fails, Panic,
       Answered, Reparses, FlowInv, Inv, Tidy
  <2> QED BY <2>1, <1>1
<1>7. CASE ChromeFetches
  <2>1. UNCHANGED <<tools, cfg, plan, fmt>> /\ ~dir'
    BY <1>7 DEF ChromeFetches, FetchFrame, Inv, Tidy
  <2>2. CASE Reparses
    BY <1>7, <2>1, <2>2, PlanQuiet DEF ChromeFetches
  <2>3. CASE ~Reparses
    <3>1. cfg'.endpoint = "readability" /\ fmt' \in {"none"} \union OpenOffice /\ ~Planned'
      BY <1>7, <2>1, <2>3 DEF ChromeFetches, FlowInv
    <3>2. Used' = {}
      BY <3>1 DEF Used, NeedsOf, Reparses, Office, OpenOffice
    <3> QED BY <2>1, <3>1, <3>2 DEF PlanInv
  <2> QED BY <2>2, <2>3
<1>8. CASE BodyBreaks \/ NoTool
  <2>1. UNCHANGED <<tools, cfg, plan, fmt>> /\ ~dir' /\ step' # "finish" /\ (Planned' => Planned)
    BY <1>8 DEF BodyBreaks, NoTool, Converting, ConvertFrame, Fails, Reparses, Inv, Tidy, pandocVars
  <2> QED BY <2>1, PlanQuiet
<1>9. ASSUME step = "convert", Head(plan) # <<>>, Provided(Tool), StageDone,
             UNCHANGED <<tools, cfg>>, ~dir'
      PROVE  PlanInv'
  <2>1. Suits(plan, Used)
    BY <1>9 DEF PlanInv
  <2>2. /\ plan' # <<>> => Suits(plan', Used')
        /\ plan' = <<>> => Used' \subseteq tools
    BY <1>9, <2>1, PlanAfterStage
  <2>3. IF plan' = <<>> THEN step' = "finish" ELSE step' = "convert"
    BY <1>9 DEF StageDone
  <2>4. UNCHANGED Reparses
    BY <1>9 DEF Reparses
  <2> QED BY <1>9, <2>2, <2>3, <2>4 DEF PlanInv, Suits
<1>10. ASSUME step = "convert", Head(plan) # <<>>, NEW reason, TryNextTool(reason),
              UNCHANGED <<tools, cfg, fmt>>, ~dir'
       PROVE  PlanInv'
  <2>1. Suits(plan, Used)
    BY <1>10 DEF PlanInv
  <2>2. step' # "failed" => Suits(plan', Used')
    BY <1>10, <2>1, PlanAfterTool
  <2>3. step' \in {"convert", "failed"}
    BY <1>10 DEF TryNextTool, Fails
  <2>4. UNCHANGED Reparses
    BY <1>10 DEF Reparses
  <2> QED BY <1>10, <2>2, <2>3, <2>4 DEF PlanInv, Suits
<1>11. CASE ToolMissing \/ ToolFails
  <2>1. step = "convert" /\ Head(plan) # <<>> /\ UNCHANGED <<tools, cfg, fmt>> /\ ~dir'
    BY <1>11 DEF ToolMissing, ToolFails, Converting, ConvertFrame, pandocVars
  <2>2. TryNextTool("unavailable") \/ TryNextTool("failed")
    BY <1>11 DEF ToolMissing, ToolFails
  <2> QED BY <2>1, <2>2, <1>10
<1>12. CASE ToolWorks
  <2>1. step = "convert" /\ Head(plan) # <<>> /\ UNCHANGED <<tools, cfg>> /\ ~dir'
    BY <1>12 DEF ToolWorks, Converting, ConvertFrame, pandocVars
  <2> QED BY <1>12, <2>1, <1>9 DEF ToolWorks
<1>13. CASE ConversionStarts
  <2>1. UNCHANGED <<tools, cfg, plan, fmt, step, body>> /\ Provided(Tool) /\ Accepts(Tool)
    BY <1>13 DEF ConversionStarts, ConvertFrame
  <2>2. (Provided(Tool) /\ Accepts(Tool))'
    BY <2>1 DEF Provided, Accepts, Tool
  <2>3. Suits(plan, Used)
    BY <1>13 DEF ConversionStarts, Converting, PlanInv
  <2>4. Suits(plan, Used)' /\ step' # "finish"
    BY <1>13, <2>1, <2>3, NeedsKept DEF ConversionStarts, Converting
  <2> QED BY <2>2, <2>4 DEF PlanInv
<1>14. CASE ConversionRuns
  <2>1. UNCHANGED <<tools, cfg, plan, fmt, step, body, dir>>
    BY <1>14 DEF ConversionRuns, CommandWorks, TriesNextWay, ConvertFrame
  <2>2. Planned' => Planned
    BY <2>1 DEF Reparses
  <2> QED BY <2>1, <2>2, PlanQuiet
<1>15. CASE ConversionEnds
  <2>1. step = "convert" /\ Head(plan) # <<>> /\ UNCHANGED <<tools, cfg>> /\ ~dir'
    BY <1>15 DEF ConversionEnds, Converts, ConversionFails, Leave, ConvertFrame, Inv, Tidy
  <2>2. CASE Converts /\ StageDone
    <3>1. Provided(Tool)
      BY <2>2 DEF Converts, PlanInv
    <3> QED BY <2>1, <2>2, <3>1, <1>9
  <2>3. CASE ConversionFails /\ TryNextTool("failed") /\ UNCHANGED <<fmt, body>>
    BY <2>1, <2>3, <1>10
  <2> QED BY <1>15, <2>2, <2>3 DEF ConversionEnds
<1>16. CASE ImageStep
  <2>1. UNCHANGED <<tools, cfg>> /\ ~dir' /\ ~Planned' /\ step' # "finish"
    BY <1>16 DEF ImageStep, CountsPages, PagesFail, BatchStarts, BatchFails, BatchFailsAtOnce,
       BatchesEnd, Uploads, ImagesFrame, Fails, Answered, pandocVars, Inv, Tidy
  <2> QED BY <2>1, <1>1
<1>17. CASE AttemptFails \/ AttemptPanics \/ NoMoreAttempts
  <2>1. UNCHANGED <<tools, cfg>> /\ ~dir' /\ ~Planned' /\ step' # "finish"
    BY <1>17 DEF AttemptFails, AttemptPanics, NoMoreAttempts, Panic, Answered, pandocVars, Inv, Tidy
  <2> QED BY <2>1, <1>1
<1> QED BY <1>2, <1>3, <1>4, <1>5, <1>6, <1>7, <1>8, <1>11, <1>12, <1>13, <1>14, <1>15, <1>16, <1>17
        DEF Serve, Fetching, ConvertStep

\* A request fails as unavailable, and is refused for it, only where a part it
\* needs is missing; and ends well only where none is.
LEMMA StepAnswer ==
  ASSUME TypeOK, Inv, FlowInv, PlanInv, PagesInv, AnswerInv, Serve
  PROVE  AnswerInv'
<1> USE DEF AnswerInv, Succeeds, Frame
<1>1. CASE AnswersFromCache
  BY <1>1, NeedsKept DEF AnswersFromCache
<1>2. ASSUME UNCHANGED <<tools, cfg, answer>>, error' # "unavailable",
             step \notin {"failed", "answered"}, step' = "failed" \/ error' = "none", step' # "answered"
      PROVE  AnswerInv'
  BY <1>2 DEF NoAnswer
<1>3. ASSUME UNCHANGED <<tools, cfg, fmt, error>>, step' = "answered", answer'.status = "panic"
      PROVE  AnswerInv'
  BY <1>3, NeedsKept
<1>4. CASE Starts \/ FetchesAgain \/ FetchFailsAgain \/ Reads \/ ReadsWithChrome \/ ChromeFetches
  BY <1>4, <1>2 DEF Starts, FetchesAgain, FetchFailsAgain, Reads, ReadsWithChrome, ChromeFetches,
     FetchFrame
<1>5. CASE DeterminesFormat \/ FormatUnknown \/ ReadFails \/ ChromeFails \/ BodyBreaks \/ NoTool
  BY <1>5, <1>2 DEF DeterminesFormat, FormatUnknown, ReadFails, ChromeFails, BodyBreaks, NoTool,
     FetchFrame, ConvertFrame, Fails, Converting
<1>6. CASE FormatPanics \/ ChromePanics \/ AttemptPanics
  BY <1>6, <1>3 DEF FormatPanics, ChromePanics, AttemptPanics, Panic, Answered, FetchFrame
<1>7. CASE ToolMissing
  <2>1. /\ step = "convert" /\ Head(plan) # <<>> /\ ~Provided(Tool) /\ TryNextTool("unavailable")
        /\ UNCHANGED <<tools, cfg, fmt, answer>>
    BY <1>7 DEF ToolMissing, Converting, ConvertFrame
  <2>2. step' = "failed" => ~(Used' \subseteq tools')
    BY <2>1, PlanAfterTool DEF PlanInv, Planned
  <2>3. (step' = "convert" /\ error' = error) \/ step' = "failed"
    BY <2>1 DEF TryNextTool, Fails
  <2> QED BY <2>1, <2>2, <2>3 DEF NoAnswer
<1>8. CASE ToolFails \/ ToolWorks \/ ConversionStarts
  BY <1>8, <1>2 DEF ToolFails, ToolWorks, ConversionStarts, Converting, ConvertFrame, StageDone,
     TryNextTool, Fails
<1>9. CASE ConversionRuns \/ ConversionEnds
  BY <1>9, <1>2 DEF ConversionRuns, ConversionEnds, CommandWorks, TriesNextWay, Converts,
     ConversionFails, ConvertFrame, StageDone, TryNextTool, Fails, Inv, Tidy
<1>10. CASE CountsPages \/ BatchStarts \/ BatchFails \/ BatchesEnd
  BY <1>10, <1>2 DEF CountsPages, BatchStarts, BatchFails, BatchesEnd, ImagesFrame, Fails
<1>11. CASE PagesFail
  <2>1. cfg'.endpoint = "images" /\ UNCHANGED <<tools, answer>> /\ step = "pages"
    BY <1>11 DEF PagesFail, ImagesFrame, FlowInv
  <2>2. Used' = {"images"}
    BY <2>1 DEF Used, Reparses
  <2> QED BY <1>11, <2>1, <2>2 DEF PagesFail, Fails, NoAnswer
<1>12. CASE BatchFailsAtOnce
  BY <1>12, <1>3 DEF BatchFailsAtOnce, ImagesFrame
<1>13. CASE Uploads
  <2>1. /\ cfg'.endpoint = "images" /\ UNCHANGED <<tools, cfg, fmt>> /\ step = "upload"
        /\ "images" \in tools
    BY <1>13 DEF Uploads, ImagesFrame, FlowInv, PagesInv
  <2>2. Used' = {"images"}
    BY <2>1 DEF Used, Reparses
  <2> QED BY <1>13, <2>1, <2>2 DEF Uploads, Fails, Answered, NoAnswer
<1>14. CASE Finishes
  <2>1. UNCHANGED <<tools, cfg, fmt>> /\ Used \subseteq tools
    BY <1>14 DEF Finishes, PlanInv
  <2>2. Used' \subseteq tools'
    BY <2>1, NeedsKept
  <2>3. step' = "answered" /\ answer'.status = "200" /\ error' # "unavailable"
    BY <1>14 DEF Finishes
  <2> QED BY <2>2, <2>3
<1>15. CASE AttemptFails
  BY <1>15 DEF AttemptFails, NoAnswer
<1>16. CASE NoMoreAttempts
  <2>1. /\ step = "failed" /\ step' = "answered" /\ UNCHANGED <<tools, cfg, fmt, error>>
        /\ answer'.status = ErrorStatus
    BY <1>16 DEF NoMoreAttempts, Answered
  <2> QED BY <2>1, NeedsKept DEF ErrorStatus
<1> QED BY <1>1, <1>4, <1>5, <1>6, <1>7, <1>8, <1>9, <1>10, <1>11, <1>12, <1>13, <1>14, <1>15, <1>16
        DEF Serve, Fetching, ConvertStep, ImageStep

\* The bytes that no tool but a PDF's or the parser may be given are given to
\* no other.
LEMMA OnlyFirstKept ==
  ASSUME plan \in Plans, plan # <<>>, step = "convert", NEW reason, TryNextTool(reason),
         NEW names, OnlyFirst(names), step' = "convert"
  PROVE  OnlyFirst(names)'
<1>1. Len(Head(plan)) > 1 /\ plan' = <<Tail(Head(plan))>> \o Tail(plan)
  BY DEF TryNextTool, Fails
<1>2. /\ Head(plan) \in Seq(ToolNames) /\ Tail(plan) \in Plans
  BY PlanParts
<1>3. /\ Tail(Head(plan)) \in Seq(ToolNames)
      /\ \A j \in 1 .. Len(Tail(Head(plan))) :
            j + 1 \in 1 .. Len(Head(plan)) /\ Tail(Head(plan))[j] = Head(plan)[j + 1]
  BY <1>1, <1>2, TailOf
<1>4. Head(plan') = Tail(Head(plan))
  <2>1. ASSUME NEW stage \in Seq(ToolNames), NEW rest \in Plans
        PROVE  Head(<<stage>> \o rest) = stage
    BY DEF Plans
  <2> QED BY <1>1, <1>2, <1>3, <2>1
<1> QED BY <1>3, <1>4 DEF OnlyFirst

\* The first tool of a stage is one of its tools.
LEMMA ToolIsFirst ==
  ASSUME plan \in Plans, plan # <<>>, Head(plan) # <<>>, NEW names, OnlyFirst(names)
  PROVE  Tool \in names
<1>1. Head(plan) \in Seq(ToolNames)
  BY PlanParts
<1>2. ASSUME NEW S, NEW s \in Seq(S), s # <<>> PROVE 1 \in 1 .. Len(s) /\ Head(s) = s[1]
  BY <1>2
<1>3. 1 \in 1 .. Len(Head(plan)) /\ Tool = Head(plan)[1]
  BY <1>1, <1>2 DEF Tool
<1> QED BY <1>3 DEF OnlyFirst

\* Where the text of a PDF, or parsing, starts.
LEMMA FirstStages ==
  step' = "convert" =>
      /\ plan' = Article("pdf") => OnlyFirst({"PdfToHtml", "reader"})'
      /\ plan' = Parsed(FALSE) => OnlyFirst({"parser"})'
<1>1. ASSUME plan' = Article("pdf") PROVE Head(plan') = <<"PdfToHtml", "reader">>
  BY <1>1 DEF Article, OfficeText
<1>2. ASSUME plan' = Parsed(FALSE) PROVE Head(plan') = <<"parser">>
  BY <1>2 DEF Parsed
<1>3. \A j \in 1 .. Len(<<"PdfToHtml", "reader">>) :
         <<"PdfToHtml", "reader">>[j] \in {"PdfToHtml", "reader"}
  OBVIOUS
<1>4. \A j \in 1 .. Len(<<"parser">>) : <<"parser">>[j] \in {"parser"}
  OBVIOUS
<1> QED BY <1>1, <1>2, <1>3, <1>4 DEF OnlyFirst

\* A stage that is done with was given what its tools accept.
LEMMA BodyAfterStage ==
  ASSUME BodyInv, Suits(plan, Used), step = "convert", Head(plan) # <<>>, Accepts(Tool), StageDone,
         UNCHANGED <<cfg, answer, cache>>, ~answer.cached
  PROVE  BodyInv'
<1>1. plan \in Plans /\ plan # <<>>
  BY DEF Suits
<1>2. ASSUME NEW names, OnlyFirst(names) PROVE Tool \in names
  BY <1>1, <1>2, ToolIsFirst
<1>3. ~Reparses => fmt' = fmt
  <2>1. ~Reparses => Tool # "DocToPdf"
    BY <1>1, NextStage DEF Suits, Tool
  <2> QED BY <2>1 DEF StageDone
<1>4. body' = body
  BY DEF StageDone
<1>5. body = "errorpage" => ~(cfg.endpoint = "readability" /\ fmt = "pdf")
  BY <1>2 DEF BodyInv, Converted, Accepts
<1>6. body = "none" => cfg.toPdf
  BY <1>2 DEF BodyInv, Converted, Accepts
<1> QED BY <1>3, <1>4, <1>5, <1>6 DEF BodyInv, Converted, Retries, Reparses

\* A tool that is given up leaves the rest of its stage.
LEMMA BodyAfterTool ==
  ASSUME BodyInv, plan \in Plans, plan # <<>>, step = "convert", NEW reason, TryNextTool(reason),
         UNCHANGED <<cfg, fmt, body, answer, cache>>, ~answer.cached
  PROVE  BodyInv'
<1>1. CASE step' = "failed"
  BY <1>1 DEF BodyInv, Converted, Succeeds, Retries, Reparses
<1>2. CASE step' # "failed"
  <2>1. step' = "convert"
    BY <1>2 DEF TryNextTool, Fails
  <2>2. \A names : OnlyFirst(names) => OnlyFirst(names)'
    BY <2>1, OnlyFirstKept
  <2> QED BY <2>1, <2>2 DEF BodyInv, Converted, Succeeds, Retries, Reparses
<1> QED BY <1>1, <1>2

\* What a request is answered with is its document, or what is trusted as one;
\* nothing at all is only ever on its way to the parser, or to become a PDF.
LEMMA StepBody ==
  ASSUME TypeOK, Inv, FlowInv, PlanInv, PagesInv, AnswerInv, BodyInv, Serve
  PROVE  BodyInv'
<1> USE DEF Converted, Succeeds, Frame
<1>1. step # "answered" => ~answer.cached
  BY DEF AnswerInv, NoAnswer
<1>2. ASSUME UNCHANGED <<cfg, answer, cache>>, ~answer.cached,
             step' \notin {"convert", "finish", "answered"}
      PROVE  BodyInv'
  BY <1>2 DEF BodyInv, Retries, Reparses
<1>3. CASE AnswersFromCache
  BY <1>3 DEF AnswersFromCache, Found, FlowInv, BodyInv, Retries, Reparses
<1>4. CASE Starts \/ FormatUnknown \/ ReadsWithChrome \/ ReadFails \/ ChromeFails \/ NoTool \/ AttemptFails
  BY <1>4, <1>1, <1>2 DEF Starts, FormatUnknown, ReadsWithChrome, ReadFails, ChromeFails, NoTool,
     AttemptFails, FetchFrame, ConvertFrame, Fails
<1>5. CASE FormatPanics \/ ChromePanics \/ AttemptPanics \/ NoMoreAttempts \/ BatchFailsAtOnce
  BY <1>5 DEF FormatPanics, ChromePanics, AttemptPanics, NoMoreAttempts, BatchFailsAtOnce,
     FetchFrame, ImagesFrame,
     Panic, Answered, ErrorStatus, BodyInv, Retries, Reparses
<1>6. CASE DeterminesFormat
  <2>1. CASE Reparses
    BY <1>6, <2>1, <1>1, <1>2 DEF DeterminesFormat, FetchFrame
  <2>2. CASE ~Reparses
    <3>1. /\ UNCHANGED <<cfg, answer, cache>> /\ step = "fetch" /\ step' = "convert" /\ ~answer.cached
          /\ body' \in {"document", "errorpage", "part"} /\ plan' = PlanOf(fmt')
      BY <1>6, <2>2, <1>1 DEF DeterminesFormat, FetchFrame, Responses
    <3>2. cfg.endpoint \in {"readability", "kv"}
      BY <2>2, <3>1 DEF FlowInv, Retries, Reparses
    <3>3. cfg.endpoint = "readability" /\ fmt' = "pdf" => plan' = Article("pdf")
      BY <3>1 DEF PlanOf
    <3> QED BY <3>1, <3>2, <3>3, FirstStages DEF BodyInv, Retries, Reparses
  <2> QED BY <2>1, <2>2
<1>7. CASE FetchesAgain \/ Reads \/ ChromeFetches
  BY <1>7, <1>1 DEF FetchesAgain, Reads, ChromeFetches, FetchFrame, FlowInv, BodyInv, Retries,
     Reparses, OpenOffice
<1>8. CASE FetchFailsAgain
  <2>1. /\ UNCHANGED <<cfg, answer, cache, plan>> /\ ~answer.cached /\ body' = "none"
        /\ step' = IF cfg.fallback THEN "chrome" ELSE "convert"
        /\ Reparses /\ plan = Parsed(cfg.toPdf)
    BY <1>8, <1>1 DEF FetchFailsAgain, FetchFrame, FlowInv
  <2>2. CASE cfg.fallback
    BY <1>2, <2>1, <2>2
  <2>3. CASE ~cfg.fallback
    <3>1. cfg.toPdf \in BOOLEAN
      BY DEF TypeOK, Config
    <3>2. cfg.toPdf \/ OnlyFirst({"parser"})'
      BY <2>1, <2>3, <3>1, FirstStages
    <3> QED BY <2>1, <2>3, <3>2 DEF BodyInv, Retries, Reparses
  <2> QED BY <2>2, <2>3
<1>9. CASE BodyBreaks
  <2>1. CASE step' = "failed"
    BY <1>9, <2>1, <1>1, <1>2 DEF BodyBreaks, Converting, ConvertFrame
  <2>2. CASE step' # "failed"
    BY <1>9, <2>2, <1>1 DEF BodyBreaks, Converting, ConvertFrame, Fails, BodyInv, Retries, Reparses
  <2> QED BY <2>1, <2>2
<1>10. step = "convert" => Suits(plan, Used) /\ plan \in Plans /\ plan # <<>>
  BY DEF PlanInv, Planned, Suits
<1>11. CASE ToolMissing \/ ToolFails
  BY <1>1, <1>10, <1>11, BodyAfterTool DEF ToolMissing, ToolFails, Converting, ConvertFrame
<1>12. CASE ToolWorks
  BY <1>1, <1>10, <1>12, BodyAfterStage DEF ToolWorks, Converting, ConvertFrame
<1>13. CASE ConversionStarts \/ ConversionRuns
  BY <1>13 DEF ConversionStarts, ConversionRuns, ConvertFrame, BodyInv, OnlyFirst, Retries, Reparses
<1>14. CASE ConversionEnds
  <2>1. dir /\ step = "convert" /\ Head(plan) # <<>> /\ Accepts(Tool)
    BY <1>14 DEF ConversionEnds, Converts, ConversionFails, Inv, Tidy, PlanInv
  <2>2. CASE Converts /\ StageDone
    BY <1>1, <1>10, <1>14, <2>1, <2>2, BodyAfterStage DEF ConversionEnds, ConvertFrame
  <2>3. CASE ConversionFails /\ TryNextTool("failed") /\ UNCHANGED <<fmt, body>>
    BY <1>1, <1>10, <1>14, <2>1, <2>3, BodyAfterTool DEF ConversionEnds, ConvertFrame
  <2> QED BY <1>14, <2>2, <2>3 DEF ConversionEnds
<1>15. CASE CountsPages \/ PagesFail \/ BatchStarts \/ BatchFails \/ BatchesEnd
  BY <1>15, <1>1, <1>2 DEF CountsPages, PagesFail, BatchStarts, BatchFails, BatchesEnd,
     ImagesFrame, Fails
<1>16. CASE Uploads
  BY <1>16, <1>1 DEF Uploads, ImagesFrame, Fails, Answered, PagesInv, BodyInv, Retries, Reparses
<1>17. CASE Finishes
  <2>1. UNCHANGED <<cfg, fmt, body>> /\ step = "finish" /\ step' = "answered" /\ ~answer'.cached
    BY <1>17 DEF Finishes
  <2>2. cfg.endpoint = "readability" => Entry.body # "none"
    BY <2>1 DEF Entry, BodyInv, Reparses
  <2>3. cache' \subseteq cache \union {Entry} /\ (cfg.endpoint # "readability" => cache' = cache)
    BY <1>17 DEF Finishes, Stored
  <2>4. \A e \in cache' : e.body # "none"
    BY <2>2, <2>3 DEF BodyInv
  <2> QED BY <2>1, <2>4 DEF BodyInv, OnlyFirst, Retries, Reparses
<1> QED BY <1>3, <1>4, <1>5, <1>6, <1>7, <1>8, <1>9, <1>11, <1>12, <1>13, <1>14, <1>15, <1>16, <1>17
        DEF Serve, Fetching, ConvertStep, ImageStep

\* A batch is done with only when each of its pages has been received.
LEMMA StepPages == ASSUME TypeOK, Inv, FlowInv, AnswerInv, PagesInv, Serve PROVE PagesInv'
<1> USE DEF Frame
<1>1. ASSUME UNCHANGED <<imageVars, tools, cfg>>, step' \notin {"batches", "upload"},
             cfg.endpoint = "images" => step' # "answered" \/ answer'.status # "200"
      PROVE  PagesInv'
  BY <1>1 DEF PagesInv, Succeeds, imageVars
<1>2. CASE AnswersFromCache \/ Starts \/ Finishes
  BY <1>1, <1>2 DEF AnswersFromCache, Starts, Finishes, FlowInv
<1>3. CASE Fetching
  BY <1>1, <1>3 DEF Fetching, DeterminesFormat, FormatUnknown, FormatPanics, FetchesAgain,
     FetchFailsAgain, Reads, ReadsWithChrome, ReadFails, ChromeFetches, ChromeFails, ChromePanics,
     FetchFrame, Fails, Panic, Answered
<1>4. CASE ConvertStep
  <2>1. step = "convert" \/ UNCHANGED step
    BY <1>4 DEF ConvertStep, BodyBreaks, NoTool, ToolMissing, ToolFails, ToolWorks,
       ConversionStarts, ConversionRuns, ConversionEnds, Converts, ConversionFails, Converting, Inv, Tidy
  <2>2. /\ UNCHANGED <<imageVars, tools, cfg, answer>>
        /\ (UNCHANGED step \/ step' \in {"convert", "finish", "failed"})
    BY <1>4 DEF ConvertStep, BodyBreaks, NoTool, ToolMissing, ToolFails, ToolWorks,
       ConversionStarts, ConversionRuns, ConversionEnds, ConvertFrame, TryNextTool, StageDone, Fails
  <2>3. UNCHANGED step => UNCHANGED body \/ step = "convert"
    BY <1>4 DEF ConvertStep, BodyBreaks, NoTool, ToolMissing, ToolFails, ToolWorks,
       ConversionStarts, ConversionRuns, ConversionEnds, Converting, StageDone
  <2> QED BY <2>1, <2>2, <2>3 DEF PagesInv, Succeeds, imageVars
<1>5. CASE CountsPages
  <2>1. /\ pages' \in Nat /\ size' \in Int /\ first' = 1 /\ running' = {} /\ images' = {} /\ sent' = {}
    BY <1>5, PagesAssumption DEF CountsPages, CountPages, pdfToCairoBatchSize
  <2> QED BY <1>5, <2>1 DEF CountsPages, ImagesFrame, PagesInv, Succeeds
<1>6. CASE BatchStarts
  <2>1. /\ step = "batches" /\ UNCHANGED <<tools, cfg, step, body, pages, size>>
    BY <1>6 DEF BatchStarts, ImagesFrame, StartBatch, NextBatch, Receive
  <2>2. CASE StartBatch
    <3>1. Batch(first) \subseteq 1 .. pages
      BY DEF Batch, PagesInv
    <3> QED BY <2>1, <2>2, <3>1 DEF StartBatch, PagesInv, Succeeds
  <2>3. CASE NextBatch
    <3>1. first' \in Nat \ {0} /\ first' = first + size /\ UNCHANGED <<running, sent, images>>
      BY <2>3 DEF NextBatch, PagesInv
    <3>2. ASSUME NEW p \in 1 .. pages, p < first + size PROVE p \in images
      <4>1. p < first \/ p \in Batch(first)
        BY <3>2 DEF Batch, PagesInv
      <4> QED BY <2>3, <4>1 DEF NextBatch, BatchReceived, PagesInv
    <3> QED BY <2>1, <3>1, <3>2 DEF PagesInv, Succeeds
  <2>4. CASE \E r \in sent : Receive(r)
    BY <2>1, <2>4 DEF Receive, PagesInv, Succeeds
  <2> QED BY <1>6, <2>2, <2>3, <2>4 DEF BatchStarts
<1>7. CASE BatchesEnd
  <2>1. \A p \in 1 .. pages : p \in images
    BY <1>7 DEF BatchesEnd, AllBatchesDone, PagesInv
  <2>2. UNCHANGED <<pages, size, first, running, sent, images, tools, cfg, body>> /\ step' = "upload"
    BY <1>7 DEF BatchesEnd, ImagesFrame, imageVars
  <2>3. images = 1 .. pages
    BY <2>1 DEF PagesInv
  <2> QED BY <1>7, <2>2, <2>3 DEF BatchesEnd, PagesInv, Succeeds
<1>8. CASE Uploads
  BY <1>8 DEF Uploads, ImagesFrame, Fails, Answered, PagesInv, Succeeds, imageVars
<1>9. CASE PagesFail \/ BatchFails \/ BatchFailsAtOnce
  BY <1>1, <1>9 DEF PagesFail, BatchFails, BatchFailsAtOnce, ImagesFrame, Fails
<1>10. CASE AttemptFails \/ AttemptPanics
  BY <1>1, <1>10 DEF AttemptFails, AttemptPanics, Panic, Answered
<1>11. CASE NoMoreAttempts
  BY <1>1, <1>11 DEF NoMoreAttempts, Answered, ErrorStatus
<1> QED BY <1>2, <1>3, <1>4, <1>5, <1>6, <1>7, <1>8, <1>9, <1>10, <1>11 DEF Serve, ImageStep

-----------------------------------------------------------------------------
\* At first nothing is asked, planned or answered.
LEMMA InitDoc == Init => DocInv
<1> SUFFICES ASSUME Init PROVE DocInv
  OBVIOUS
<1>1. PlanInv /\ FlowInv
  BY DEF Init, PandocInit, PlanInv, FlowInv, Planned
<1>2. AnswerInv
  BY DEF Init, AnswerInv, NoAnswer, Succeeds
<1>3. BodyInv
  BY DEF Init, BodyInv, Converted, NoAnswer, Succeeds
<1>4. PagesInv
  BY DEF Init, ImagesInit, pdfToCairoBatchSize, PagesInv, Succeeds
<1> QED BY <1>1, <1>2, <1>3, <1>4 DEF DocInv

\* A new request starts with the plan for the document it brings, or with none.
LEMMA RequestDoc ==
  ASSUME TypeOK, Inv, DocInv, NEW p \in Proxies, Request(p)
  PROVE  DocInv'
<1> USE DEF Frame
<1>1. /\ step \in {"idle", "answered"} /\ step' = FirstStep /\ UNCHANGED <<tools, cfg, cache, imageVars>>
      /\ error' = "none" /\ answer' = NoAnswer /\ ~dir' /\ cfg \in Config
      /\ body' = IF cfg.endpoint \in {"eke", "render"} THEN "document" ELSE "none"
  BY DEF Request, Inv, Tidy, pandocVars, TypeOK
<1>2. PICK g \in Given : fmt' = g[1] /\ plan' = g[2]
  BY DEF Request
<1>3. /\ cfg.endpoint = "readability" => step' = "start"
      /\ cfg.endpoint = "images" => step' = "pages"
      /\ cfg.endpoint \in {"eke", "render"} => step' = "convert"
      /\ cfg.endpoint \in {"parse", "kv", "extract"} => step' = "fetch"
  BY <1>1 DEF FirstStep
<1>4. cfg.endpoint \in Endpoints
  BY <1>1 DEF Config
<1>5. PlanInv'
  <2>1. CASE cfg.endpoint \in {"eke", "render"}
    <3>1. Suits(g[2], Used')
      BY <1>1, <1>2, <2>1, GivenSuits
    <3>2. Suits(plan', Used')
      BY <1>2, <3>1
    <3>3. UNCHANGED Reparses
      BY <1>1 DEF Reparses
    <3> QED BY <1>1, <1>3, <2>1, <3>2, <3>3 DEF PlanInv, Suits
  <2>2. CASE cfg.endpoint \notin {"eke", "render"}
    BY <1>1, <1>3, <1>4, <2>2 DEF PlanInv, Planned, Endpoints
  <2> QED BY <2>1, <2>2
<1>6. FlowInv'
  <2>1. cfg.endpoint \notin {"eke", "render"} => fmt' = "none"
    BY <1>2 DEF Given
  <2> QED BY <1>1, <1>3, <1>4, <2>1 DEF FlowInv, Endpoints, Retries, Reparses
<1>7. AnswerInv'
  BY <1>1 DEF AnswerInv, NoAnswer, Succeeds
<1>8. BodyInv'
  BY <1>1, <1>3, <1>4 DEF DocInv, BodyInv, Converted, NoAnswer, Succeeds, Endpoints, Retries,
     Reparses
<1>9. PagesInv'
  BY <1>1, <1>3, <1>4 DEF DocInv, PagesInv, NoAnswer, Succeeds, Endpoints, imageVars
<1> QED BY <1>5, <1>6, <1>7, <1>8, <1>9 DEF DocInv

\* Whatever happens beside the request leaves it and its plan alone.
LEMMA AsideDoc ==
  ASSUME TypeOK, Inv, DocInv, PageEnds \/ CacheAges \/ ProxyStep \/ UNCHANGED vars
  PROVE  DocInv'
<1> USE DEF Frame
<1>1. UNCHANGED <<tools, cfg, requestVars, pandocVars>>
  BY DEF PageEnds, CacheAges, ProxyStep, vars
<1>2. UNCHANGED <<step, fmt, body, plan, error, answer, dir>>
  BY <1>1 DEF requestVars, pandocVars
<1>3. \A e \in cache' : e.body # "none"
  <2>1. CASE UNCHANGED cache
    BY <2>1 DEF DocInv, BodyInv
  <2>2. CASE CacheAges
    <3>1. PICK e \in cache : cache' = (cache \ {e}) \union {[e EXCEPT !.fresh = FALSE]}
      BY <2>2 DEF CacheAges
    <3>2. [e EXCEPT !.fresh = FALSE].body = e.body
      BY <3>1 DEF TypeOK, Entries
    <3> QED BY <3>1, <3>2 DEF DocInv, BodyInv
  <2> QED BY <2>1, <2>2 DEF PageEnds, ProxyStep, vars
<1>4. PlanInv'
  <2>1. Planned' => Planned
    BY <1>1, <1>2 DEF Planned, Reparses
  <2> QED BY <1>1, <1>2, <2>1, PlanQuiet DEF DocInv
<1>5. FlowInv'
  BY <1>1, <1>2 DEF DocInv, FlowInv, Retries, Reparses
<1>6. AnswerInv'
  BY <1>1, <1>2, NeedsKept DEF DocInv, AnswerInv, Succeeds
<1>7. BodyInv'
  BY <1>1, <1>2, <1>3 DEF DocInv, BodyInv, Converted, OnlyFirst, Succeeds, Retries, Reparses
<1>8. PagesInv'
  <2>1. CASE UNCHANGED imageVars
    BY <1>1, <1>2, <2>1 DEF DocInv, PagesInv, Succeeds, imageVars
  <2>2. CASE PageEnds
    <3>1. PICK q \in running : PageDone(q)
      BY <2>2 DEF PageEnds
    <3>2. PICK ok \in BOOLEAN : sent' = sent \union {[page |-> q, ok |-> ok]}
      BY <3>1 DEF PageDone
    <3>3. running' \subseteq running /\ UNCHANGED <<pages, size, first, images>>
      BY <3>1 DEF PageDone
    <3> QED BY <1>1, <1>2, <3>2, <3>3 DEF DocInv, PagesInv, Succeeds
  <2> QED BY <2>1, <2>2 DEF CacheAges, ProxyStep, vars
<1> QED BY <1>4, <1>5, <1>6, <1>7, <1>8 DEF DocInv

\* All of it holds in every state.
LEMMA DocInvariance == Spec => [](TypeOK /\ Inv /\ DocInv)
<1>1. TypeOK /\ Inv /\ DocInv /\ [Next]_vars => DocInv'
  <2> SUFFICES ASSUME TypeOK, Inv, DocInv, [Next]_vars PROVE DocInv'
    OBVIOUS
  <2>1. CASE Serve
    BY <2>1, StepFlow, StepPlan, StepAnswer, StepBody, StepPages DEF DocInv
  <2> QED BY <2>1, RequestDoc, AsideDoc DEF Next
<1> QED BY Invariance, InitDoc, <1>1, PTL DEF Spec

-----------------------------------------------------------------------------
\* The plan of a request needs what the request does, but for the documents that
\* are taken for something else, where it needs nothing.
LEMMA UsedIsNeeded ==
  ASSUME TypeOK
  PROVE  IF TakenForText \/ TakenForPage THEN Used = {} ELSE Used = Needs
<1>1. cfg.endpoint \in Endpoints
  BY DEF TypeOK, Config
<1>2. CASE cfg.endpoint = "kv"
  BY <1>2 DEF Used, Needs, TakenForText, TakenForPage, Reparses, Office
<1>3. CASE cfg.endpoint = "readability"
  BY <1>3 DEF Used, Needs, TakenForText, TakenForPage, Reparses
<1>4. CASE cfg.endpoint \notin {"kv", "readability"}
  BY <1>1, <1>4 DEF Used, Needs, TakenForText, TakenForPage, Reparses, Endpoints
<1> QED BY <1>2, <1>3, <1>4

\* A request is refused as not implemented only where a part of the toolchain
\* that it needs is missing, and no request is answered as if that part were
\* there, but a PDF whose bytes are given back as markdown, and an ODF or RTF
\* document read as a web page (the stand-ins of initDocumentTools, whichever
\* tool of a chain was tried last; the switches of doParseToMarkdownKv and of
\* determineFmtType, which know neither).
THEOREM RefusedOnlyForMissing == Spec => []MissingToolIs501
<1>1. TypeOK /\ DocInv => MissingToolIs501
  BY UsedIsNeeded DEF DocInv, AnswerInv, MissingToolIs501
<1> QED BY DocInvariance, <1>1, PTL

\* A successful answer is made of the document, of all its pages where it is
\* made into images, and of anything else only where the endpoint trusts it
\* (readBytes, docDownload, the batches of pdfToImagesConverter).
THEOREM AnswersAreOfTheDocument == Spec => []AnswerIsOfTheDocument
<1>1. TypeOK /\ Inv /\ DocInv => AnswerIsOfTheDocument
  <2> SUFFICES ASSUME TypeOK, Inv, DocInv, Succeeds PROVE AnswerIsOfTheDocument
    BY DEF AnswerIsOfTheDocument
  <2> body \in Bodies
    BY DEF TypeOK
  <2>1. CASE answer.cached
    BY <2>1 DEF Bodies, DocInv, BodyInv, PagesInv, AnswerIsOfTheDocument, Retries
  <2>2. CASE ~answer.cached
    <3>1. Converted /\ step # "convert"
      BY <2>2 DEF Converted, Succeeds
    <3> QED BY <2>2, <3>1 DEF Bodies, DocInv, BodyInv, PagesInv, OnlyFirst, AnswerIsOfTheDocument,
       Retries, Reparses
  <2> QED BY <2>1, <2>2
<1> QED BY DocInvariance, <1>1, PTL

-----------------------------------------------------------------------------
(***************************************************************************)
(* The channel of a batch of pages.                                        *)
(***************************************************************************)
\* A page of the batch is being converted, has its result in the channel, or
\* has its image; no other page is.
OnePlaceEach ==
    /\ running \subseteq Batch(first) /\ running \intersect images = {}
    /\ \A r \in sent : r.page \in Batch(first) \ (running \union images)
    /\ \A r, q \in sent : r.page = q.page => r = q

\* The channel of a batch has room for what is in it and what is still to come.
ResultsHaveRoom == Cardinality(sent) + Cardinality(running) <= Cardinality(Batch(first))

\* Only these steps move pages.
LEMMA PagesMove ==
  ASSUME Next
  PROVE  \/ UNCHANGED imageVars
         \/ CountPages \/ StartBatch \/ NextBatch \/ \E r \in sent : Receive(r)
         \/ \E p \in running : PageDone(p)
<1>1. CASE \E p \in Proxies : Request(p)
  BY <1>1 DEF Request
<1>2. CASE PageEnds \/ CacheAges \/ ProxyStep
  BY <1>2 DEF PageEnds, CacheAges, ProxyStep
<1>3. CASE AnswersFromCache \/ Starts \/ Finishes \/ AttemptFails \/ AttemptPanics \/ NoMoreAttempts
  BY <1>3 DEF AnswersFromCache, Starts, Finishes, AttemptFails, AttemptPanics, NoMoreAttempts
<1>4. CASE Fetching
  BY <1>4 DEF Fetching, DeterminesFormat, FormatUnknown, FormatPanics, FetchesAgain,
     FetchFailsAgain, Reads, ReadsWithChrome, ReadFails, ChromeFetches, ChromeFails, ChromePanics,
     FetchFrame
<1>5. CASE ConvertStep
  BY <1>5 DEF ConvertStep, BodyBreaks, NoTool, ToolMissing, ToolFails, ToolWorks,
     ConversionStarts, ConversionRuns, ConversionEnds, ConvertFrame
<1>6. CASE ImageStep
  BY <1>6 DEF ImageStep, CountsPages, PagesFail, BatchStarts, BatchFails, BatchFailsAtOnce,
     BatchesEnd, Uploads
<1> QED BY <1>1, <1>2, <1>3, <1>4, <1>5, <1>6 DEF Next, Serve

\* Each of them leaves a page in one place.
LEMMA PagesStep == ASSUME OnePlaceEach, [Next]_vars PROVE OnePlaceEach'
<1> USE DEF OnePlaceEach, Batch
<1>1. CASE UNCHANGED imageVars
  BY <1>1 DEF imageVars
<1>2. CASE CountPages
  BY <1>2 DEF CountPages
<1>3. CASE StartBatch
  BY <1>3 DEF StartBatch
<1>4. CASE NextBatch
  <2>1. running = {} /\ sent = {}
    BY <1>4 DEF NextBatch, BatchReceived
  <2> QED BY <1>4, <2>1 DEF NextBatch
<1>5. CASE \E r \in sent : Receive(r)
  BY <1>5 DEF Receive
<1>6. CASE \E p \in running : PageDone(p)
  <2>1. PICK p \in running, ok \in BOOLEAN : /\ sent' = sent \union {[page |-> p, ok |-> ok]}
                                             /\ running' = running \ {p}
                                             /\ UNCHANGED <<pages, size, first, images>>
    BY <1>6 DEF PageDone
  <2>2. [page |-> p, ok |-> ok].page = p
    OBVIOUS
  <2>3. \A r \in sent' : r \in sent \/ r = [page |-> p, ok |-> ok]
    BY <2>1
  <2>4. \A r \in sent : r.page # p
    OBVIOUS
  <2> HIDE DEF Batch
  <2>5. UNCHANGED Batch(first)
    BY <2>1 DEF Batch
  <2>6. running' \subseteq Batch(first)' /\ (running \intersect images = {})'
    BY <2>1, <2>5
  <2>7. ASSUME NEW r \in sent' PROVE r.page \in (Batch(first) \ (running \union images))'
    BY <2>1, <2>2, <2>3, <2>5, <2>7
  <2>8. ASSUME NEW r \in sent', NEW q \in sent', r.page = q.page PROVE r = q
    BY <2>2, <2>3, <2>4, <2>8
  <2> QED BY <2>6, <2>7, <2>8
<1> QED BY <1>1, <1>2, <1>3, <1>4, <1>5, <1>6, PagesMove DEF vars

\* So results do not outnumber the pages.
LEMMA RoomForEach == ASSUME OnePlaceEach, PagesInv PROVE ResultsHaveRoom
<1> DEFINE B == Batch(first)
           left == B \ running
           f == [r \in sent |-> r.page]
<1>1. IsFiniteSet(B)
  <2>1. B \subseteq first .. first + size - 1 /\ first \in Int /\ first + size - 1 \in Int
    BY DEF Batch, PagesInv
  <2>2. IsFiniteSet(first .. first + size - 1)
    BY <2>1, FS_Interval
  <2> QED BY <2>1, <2>2, FS_Subset
<1> HIDE DEF B
<1>2. running \in SUBSET B
  BY DEF OnePlaceEach, B
<1>3. /\ IsFiniteSet(running) /\ IsFiniteSet(left)
      /\ Cardinality(left) = Cardinality(B) - Cardinality(running)
  <2>1. IsFiniteSet(running)
    BY <1>1, <1>2, FS_Subset
  <2>2. B \intersect running = running
    BY <1>2
  <2> QED BY <1>1, <2>1, <2>2, FS_Difference
<1>4. f \in Injection(sent, left)
  <2>1. \A r \in sent : r.page \in left
    BY DEF OnePlaceEach, B
  <2>2. \A r, q \in sent : f[r] = f[q] => r = q
    BY DEF OnePlaceEach
  <2> QED BY <2>1, <2>2 DEF Injection, IsInjective
<1>5. Cardinality(sent) <= Cardinality(left) /\ IsFiniteSet(sent)
  <2> HIDE DEF f, left
  <2> QED BY <1>3, <1>4, FS_Injection
<1>6. Cardinality(sent) \in Int /\ Cardinality(running) \in Int /\ Cardinality(B) \in Int
  BY <1>1, <1>3, <1>5, FS_CardinalityType
<1> QED BY <1>3, <1>5, <1>6 DEF ResultsHaveRoom, B

\* No goroutine of a page is ever stuck with its result, although nobody reads
\* the channel once a page has failed (pdfToImagesConverter.Convert).
THEOREM PagesAreNeverStuck == Spec => []ResultsHaveRoom
<1>1. Init => OnePlaceEach
  BY DEF Init, ImagesInit, OnePlaceEach
<1>2. OnePlaceEach /\ [Next]_vars => OnePlaceEach'
  BY PagesStep
<1>3. OnePlaceEach /\ DocInv => ResultsHaveRoom
  BY RoomForEach DEF DocInv
<1> QED BY <1>1, <1>2, <1>3, DocInvariance, PTL DEF Spec

-----------------------------------------------------------------------------
(***************************************************************************)
(* The endpoints implement DocumentService.                                *)
(***************************************************************************)
serviceKnown == ~TakenForText /\ ~TakenForPage

ServiceStep ==
    [Service!Next]_<<serviceState, asked, tools, Needs, serviceKnown, serviceOutcome, serviceKept>>

\* What is needed are parts of the toolchain, and a document is known or not.
LEMMA NeedsAreParts ==
  ASSUME TypeOK, TypeOK'
  PROVE  /\ Needs \subseteq Parts /\ Needs' \subseteq Parts
         /\ serviceKnown \in BOOLEAN /\ serviceKnown' \in BOOLEAN
<1>1. Needs \subseteq Parts /\ Needs' \subseteq Parts
  BY DEF TypeOK, Config, Endpoints, Parts, Needs, NeedsOf, Reparses
<1>2. serviceKnown \in BOOLEAN /\ serviceKnown' \in BOOLEAN
  BY DEF serviceKnown, TakenForText, TakenForPage
<1> QED BY <1>1, <1>2

\* Neither changes but with the format.
LEMMA RequestKept ==
  ASSUME UNCHANGED <<cfg, fmt>>
  PROVE  UNCHANGED <<Needs, serviceKnown>>
BY DEF Needs, Reparses, serviceKnown, TakenForText, TakenForPage

\* The kept requests are those of the cache.
LEMMA SameKept == ASSUME UNCHANGED cache PROVE UNCHANGED serviceKept
BY DEF serviceKept

\* The response that is kept is the one to the request at hand.
LEMMA StoredIsKept ==
  ASSUME Inv, cache' \in Stored
  PROVE  \/ UNCHANGED serviceKept
         \/ error' = "none" /\ serviceKept' = serviceKept \union {asked}
<1>1. CASE UNCHANGED cache
  BY <1>1, SameKept
<1>2. CASE error' = "none" /\ cache' = {e \in cache : e.key # key} \union {Entry}
  <2>1. key = asked /\ Entry.key = key /\ Entry.fresh
    BY <1>2 DEF Entry, Inv, ProxyKept
  <2>2. ASSUME NEW p PROVE p \in serviceKept' <=> p \in serviceKept \/ p = asked
    <3>1. p \in serviceKept' <=> \E e \in cache' : e.fresh /\ e.key = p
      BY DEF serviceKept
    <3>2. p \in serviceKept <=> \E e \in cache : e.fresh /\ e.key = p
      BY DEF serviceKept
    <3> QED BY <1>2, <2>1, <3>1, <3>2
  <2> QED BY <1>2, <2>2
<1> QED BY <1>1, <1>2 DEF Stored

\* The first request is not there yet.
LEMMA InitMaps == Init => Service!Init
<1> SUFFICES ASSUME Init PROVE Service!Init
  OBVIOUS
<1>1. serviceState = "idle" /\ serviceOutcome = "none" /\ serviceKept = {}
  BY DEF Init, NoAnswer, serviceState, serviceOutcome, serviceKept
<1>2. asked \in Proxies /\ tools \subseteq Parts /\ TypeOK
  BY InitTypes DEF TypeOK
<1>3. Needs \subseteq Parts
  BY <1>2 DEF TypeOK, Config, Endpoints, Parts, Needs, NeedsOf, Reparses
<1>4. serviceKnown \in BOOLEAN
  BY DEF serviceKnown, TakenForText, TakenForPage
<1> QED BY <1>1, <1>2, <1>3, <1>4 DEF Service!Init, serviceKnown

\* A request is asked.
LEMMA RequestMaps ==
  ASSUME TypeOK, TypeOK', Inv, NEW p \in Proxies, Request(p)
  PROVE  ServiceStep
<1>1. /\ step \in {"idle", "answered"} /\ step' = FirstStep /\ cfg.endpoint \in Endpoints
      /\ asked' = p /\ answer' = NoAnswer /\ UNCHANGED <<tools, cache>>
  BY DEF Request, Frame, TypeOK, Config
<1>2. serviceState # "working" /\ serviceState' = "working"
  BY <1>1 DEF serviceState, FirstStep, Endpoints
<1>3. serviceOutcome' = "none" /\ UNCHANGED serviceKept
  BY <1>1, SameKept DEF serviceOutcome, NoAnswer
<1>4. Service!Ask(p)
  BY <1>1, <1>2, <1>3, NeedsAreParts DEF Service!Ask, serviceKnown
<1> QED BY <1>4 DEF ServiceStep, Service!Next

\* A step on the way to an answer only finds out what is needed.
LEMMA WorkMaps ==
  ASSUME TypeOK, TypeOK', step \notin {"idle", "answered"}, step' \notin {"idle", "answered"},
         UNCHANGED <<tools, asked, answer, cache>>, answer.status = "none"
  PROVE  ServiceStep
<1>1. serviceState = "working" /\ serviceState' = "working"
  BY DEF serviceState
<1>2. UNCHANGED <<serviceOutcome, serviceKept>>
  BY SameKept DEF serviceOutcome
<1>3. Service!Learn
  BY <1>1, <1>2, NeedsAreParts DEF Service!Learn, serviceKnown
<1> QED BY <1>3 DEF ServiceStep, Service!Next

\* A request may fail whatever it needs.
LEMMA FailureMaps ==
  ASSUME step \notin {"idle", "answered"}, step' = "answered", answer'.status \in {"500", "panic"},
         UNCHANGED <<tools, cfg, asked, fmt, cache>>
  PROVE  ServiceStep
<1>1. serviceState = "working" /\ serviceState' = "answered" /\ serviceOutcome' = "failed"
  BY DEF serviceState, serviceOutcome
<1>2. UNCHANGED <<tools, asked, Needs, serviceKnown, serviceKept>>
  BY RequestKept, SameKept
<1>3. Service!Fail
  BY <1>1, <1>2 DEF Service!Fail, Service!Answer, serviceKnown
<1> QED BY <1>3 DEF ServiceStep, Service!Next

\* What the cache answers is kept for this request.
LEMMA RecallMaps == ASSUME Inv, AnswersFromCache PROVE ServiceStep
<1>1. /\ step = "start" /\ step' = "answered" /\ UNCHANGED <<tools, cfg, asked, fmt, cache>>
      /\ answer'.status = "200" /\ answer'.cached
  BY DEF AnswersFromCache, Frame
<1>2. serviceState = "working" /\ serviceState' = "answered" /\ serviceOutcome' = "recalled"
  BY <1>1 DEF serviceState, serviceOutcome
<1>3. UNCHANGED <<tools, asked, Needs, serviceKnown, serviceKept>>
  BY <1>1, RequestKept, SameKept
<1>4. asked \in serviceKept
  <2>1. PICK e \in cache : e.key = key /\ e.fresh
    BY DEF AnswersFromCache, Found
  <2>2. key = asked
    BY <1>1 DEF Inv, ProxyKept
  <2> QED BY <2>1, <2>2 DEF serviceKept
<1>5. Service!Recall
  BY <1>2, <1>3, <1>4 DEF Service!Recall, Service!Answer, serviceKnown
<1> QED BY <1>5 DEF ServiceStep, Service!Next

\* A request is done where nothing it needs is missing, or answered with its
\* document as it is where that is taken for something else.
LEMMA DoneMaps ==
  ASSUME TypeOK, Inv, DocInv, Finishes \/ (Uploads /\ step' = "answered")
  PROVE  ServiceStep
<1>1. /\ step \in {"finish", "upload"} /\ step' = "answered" /\ answer'.status = "200"
      /\ ~answer'.cached /\ (answer'.error => UNCHANGED cache) /\ UNCHANGED <<tools, cfg, asked, fmt>>
  <2>1. CASE Finishes
    BY <2>1 DEF Finishes, Frame, Stored
  <2>2. CASE Uploads /\ step' = "answered"
    BY <2>2 DEF Uploads, Answered, Fails, ImagesFrame, Frame
  <2> QED BY <2>1, <2>2
<1>2. serviceState = "working" /\ serviceState' = "answered"
  BY <1>1 DEF serviceState
<1>3. UNCHANGED <<tools, asked, Needs, serviceKnown>>
  BY <1>1, RequestKept
<1>4. serviceOutcome' = IF answer'.error THEN "in part" ELSE IF serviceKnown THEN "done" ELSE "as it is"
  BY <1>1, <1>3 DEF serviceOutcome, serviceKnown
<1>5. serviceKnown => Needs \subseteq tools
  <2>1. CASE step = "finish"
    BY <2>1, UsedIsNeeded DEF DocInv, PlanInv, serviceKnown
  <2>2. CASE step = "upload"
    <3>1. cfg.endpoint = "images" /\ "images" \in tools
      BY <2>2 DEF DocInv, FlowInv, PagesInv
    <3>2. Needs = {"images"}
      BY <3>1 DEF Needs, Reparses
    <3> QED BY <3>1, <3>2
  <2> QED BY <1>1, <2>1, <2>2
<1>6. serviceKept' \in {serviceKept, serviceKept \union {asked}}
  <2>1. CASE Finishes
    BY <2>1, StoredIsKept DEF Finishes
  <2>2. CASE Uploads
    BY <2>2, SameKept DEF Uploads, ImagesFrame
  <2> QED BY <2>1, <2>2
<1>7. CASE answer'.error
  <2>1. Service!DoInPart
    BY <1>1, <1>2, <1>3, <1>4, <1>5, <1>7, SameKept DEF Service!DoInPart, Service!Answer, serviceKnown
  <2> QED BY <2>1 DEF ServiceStep, Service!Next
<1>8. CASE ~answer'.error /\ serviceKnown
  <2>1. Service!Do
    BY <1>2, <1>3, <1>4, <1>5, <1>6, <1>8 DEF Service!Do, Service!Answer, Service!MayKeep, serviceKnown
  <2> QED BY <2>1 DEF ServiceStep, Service!Next
<1>9. CASE ~answer'.error /\ ~serviceKnown
  <2>1. Service!Return
    BY <1>2, <1>3, <1>4, <1>6, <1>9 DEF Service!Return, Service!Answer, Service!MayKeep, serviceKnown
  <2> QED BY <2>1 DEF ServiceStep, Service!Next
<1> QED BY <1>7, <1>8, <1>9

\* A request that is not tried again is refused only for a part that is missing.
LEMMA RefusalMaps == ASSUME TypeOK, Inv, DocInv, NoMoreAttempts PROVE ServiceStep
<1>1. /\ step = "failed" /\ step' = "answered" /\ UNCHANGED <<tools, cfg, asked, fmt, cache>>
      /\ answer'.status = ErrorStatus
  BY DEF NoMoreAttempts, Answered, Frame
<1>2. CASE error = "unavailable"
  <2>1. answer'.status = "501" /\ ~(Needs \subseteq tools) /\ serviceKnown
    BY <1>1, <1>2, UsedIsNeeded DEF ErrorStatus, DocInv, AnswerInv, serviceKnown
  <2>2. serviceState = "working" /\ serviceState' = "answered" /\ serviceOutcome' = "refused"
    BY <1>1, <2>1 DEF serviceState, serviceOutcome
  <2>3. UNCHANGED <<tools, asked, Needs, serviceKnown, serviceKept>>
    BY <1>1, RequestKept, SameKept
  <2>4. Service!Refuse
    BY <2>1, <2>2, <2>3 DEF Service!Refuse, Service!Answer, serviceKnown
  <2> QED BY <2>4 DEF ServiceStep, Service!Next
<1>3. CASE error # "unavailable"
  BY <1>1, <1>3, FailureMaps DEF ErrorStatus
<1> QED BY <1>2, <1>3

\* Every step of the server is one of the service's.
LEMMA ServeMaps == ASSUME TypeOK, TypeOK', Inv, DocInv, Serve PROVE ServiceStep
<1> USE DEF Frame
<1>0. step # "answered" => answer.status = "none"
  BY DEF DocInv, AnswerInv, NoAnswer
<1>1. CASE Starts \/ (Fetching /\ ~FormatPanics /\ ~ChromePanics)
  <2>1. /\ step \notin {"idle", "answered"} /\ step' \notin {"idle", "answered"}
        /\ UNCHANGED <<tools, asked, answer, cache>>
    BY <1>1 DEF Starts, Fetching, DeterminesFormat, FormatUnknown, FetchesAgain, FetchFailsAgain,
       Reads, ReadsWithChrome, ReadFails, ChromeFetches, ChromeFails, FetchFrame, Fails
  <2> QED BY <1>0, <2>1, WorkMaps
<1>2. CASE ConvertStep
  <2>1. step = "convert"
    BY <1>2 DEF ConvertStep, BodyBreaks, NoTool, ToolMissing, ToolFails, ToolWorks,
       ConversionStarts, ConversionRuns, ConversionEnds, CommandWorks, TriesNextWay, Converts,
       ConversionFails, Converting, Inv, Tidy
  <2>2. /\ step' \notin {"idle", "answered"}
        /\ UNCHANGED <<tools, asked, answer, cache>>
    BY <1>2, <2>1 DEF ConvertStep, BodyBreaks, NoTool, ToolMissing, ToolFails, ToolWorks,
       ConversionStarts, ConversionRuns, ConversionEnds, ConvertFrame, TryNextTool, StageDone, Fails
  <2> QED BY <1>0, <2>1, <2>2, WorkMaps
<1>3. CASE CountsPages \/ PagesFail \/ BatchStarts \/ BatchFails \/ BatchesEnd
           \/ (Uploads /\ step' # "answered")
  <2>1. /\ step \notin {"idle", "answered"} /\ step' \notin {"idle", "answered"}
        /\ UNCHANGED <<tools, asked, answer, cache>>
    BY <1>3 DEF CountsPages, PagesFail, BatchStarts, BatchFails, BatchesEnd, Uploads, Answered,
       ImagesFrame, Fails
  <2> QED BY <1>0, <2>1, WorkMaps
<1>4. CASE AttemptFails
  <2>1. /\ step \notin {"idle", "answered"} /\ step' \notin {"idle", "answered"}
        /\ UNCHANGED <<tools, asked, answer, cache>>
    BY <1>4 DEF AttemptFails
  <2> QED BY <1>0, <2>1, WorkMaps
<1>5. CASE FormatPanics \/ ChromePanics \/ AttemptPanics \/ BatchFailsAtOnce
  <2>1. /\ step \notin {"idle", "answered"} /\ step' = "answered" /\ answer'.status = "panic"
        /\ UNCHANGED <<tools, cfg, asked, fmt, cache>>
    BY <1>5 DEF FormatPanics, ChromePanics, AttemptPanics, BatchFailsAtOnce, Panic, Answered,
       FetchFrame, ImagesFrame
  <2> QED BY <2>1, FailureMaps
<1>6. CASE AnswersFromCache \/ Finishes \/ (Uploads /\ step' = "answered") \/ NoMoreAttempts
  BY <1>6, RecallMaps, DoneMaps, RefusalMaps
<1> QED BY <1>1, <1>2, <1>3, <1>4, <1>5, <1>6 DEF Serve, Fetching, ImageStep

\* An answer that grows old is forgotten, or is kept in a newer one.
LEMMA AgingMaps == ASSUME TypeOK, CacheAges PROVE ServiceStep
<1>1. PICK e \in cache : cache' = (cache \ {e}) \union {[e EXCEPT !.fresh = FALSE]}
  BY DEF CacheAges
<1>2. ~[e EXCEPT !.fresh = FALSE].fresh
  BY <1>1 DEF TypeOK, Entries
<1>3. serviceKept' \subseteq serviceKept
  BY <1>1, <1>2 DEF serviceKept
<1>4. UNCHANGED <<tools, cfg, asked, step, fmt, answer>>
  BY DEF CacheAges, Frame, requestVars
<1>5. UNCHANGED <<serviceState, asked, tools, Needs, serviceKnown, serviceOutcome>>
  BY <1>4, RequestKept DEF serviceState, serviceOutcome, serviceKnown
<1>6. Service!Forget
  BY <1>3, <1>5 DEF Service!Forget, serviceKnown
<1> QED BY <1>6 DEF ServiceStep, Service!Next

\* The pages and the local proxy are none of the service's.
LEMMA AsideMaps == ASSUME PageEnds \/ ProxyStep \/ UNCHANGED vars PROVE ServiceStep
<1>1. UNCHANGED <<tools, cfg, asked, step, fmt, answer, cache>>
  BY DEF PageEnds, ProxyStep, Frame, vars, requestVars
<1>2. UNCHANGED <<serviceState, asked, tools, Needs, serviceKnown, serviceOutcome, serviceKept>>
  BY <1>1, RequestKept, SameKept DEF serviceState, serviceOutcome, serviceKnown
<1> QED BY <1>2 DEF ServiceStep

\* The document endpoints implement the abstract service: each request is
\* answered once, done only with all the parts it needs and refused only without
\* one, recalled only from what was kept of a request like it, and answered with
\* the document as it is only where that is taken for something else (the handlers
\* of the endpoints, initDocumentTools' stand-ins, the readability cache).
THEOREM EndpointsAreTheService == Spec => IsTheService
<1>1. Init => Service!Init
  BY InitMaps
<1>2. ASSUME TypeOK, TypeOK', Inv, DocInv, [Next]_vars
      PROVE  [Service!Next]_(Service!serviceVars)
  <2>1. ServiceStep
    BY <1>2, RequestMaps, ServeMaps, AgingMaps, AsideMaps DEF Next
  <2> QED BY <2>1 DEF ServiceStep, Service!serviceVars, serviceKnown
<1> QED BY <1>1, <1>2, DocInvariance, PTL DEF Spec, IsTheService, Service!Spec

-----------------------------------------------------------------------------
\* No answer without random proxies or a browser is of a document that came
\* through another proxy than the one its request named, whatever attempts
\* failed before (AttemptErrorCallback).
THEOREM NamedProxy == Spec => []NamedProxyKept
<1>1. Inv => NamedProxyKept
  BY DEF Inv, Obtained, Through, NamedProxyKept
<1> QED BY Invariance, <1>1, PTL

\* What the cache answers was the answer, without an error, to a request with
\* the same proxy (getReadabilityFromCache, addToCache).
THEOREM CachedAnswers == Spec => []CachedAnswersMatch
<1>1. Inv => CachedAnswersMatch
  BY DEF Inv, Obtained, Through, CachedIsAnswered, CachedAnswersMatch
<1> QED BY Invariance, <1>1, PTL

\* The directory of a conversion is gone when its request is answered,
\* fails or goes on to the next attempt (createTempDir and its cleanup).
THEOREM NoDirectoryIsLeft == Spec => [](dir => step = "convert")
<1>1. Inv => (dir => step = "convert")
  BY DEF Inv, Tidy
<1> QED BY Invariance, <1>1, PTL
=============================================================================
