# BaaS: TLA+ models and proofs

BaaS ("browser as a service") runs JavaScript programs in headless Chrome for
HTTP clients. A client either posts a program and gets the result in the
answer, or starts a *session* that keeps its browser and sends it one program
after another. This directory holds TLA+ models of the parts whose correctness
depends on the order of events, TLC configurations that check them on small
instances, and proofs, checked by TLAPS, of their safety properties for every
value of the constants. Paths below are relative to the repository.

## 1. The system

| Part | Code | State | Interacts with |
|---|---|---|---|
| Message bus | `internal/messagebus/mongodb.go` | two MongoDB collections, in and out messages; one change stream per `OnMessage` | inserts and change streams |
| Asynchronous session | `internal/service/browser.go` 159-290 | per call: context, watcher goroutine, channel `done`; per worker: two goroutines, channels `inMsg` and `done`, program context | bus; browser |
| Browser run | `browser.go` 405-771 | browser, download directory, program context, listener | registry; page |
| Session registry | `internal/sessions/registry.go` | one document per session id with creation time and TTL | start endpoint, doRun, sweep |
| Temporary files | `internal/tempfiles/manager.go`, `internal/service/http_download.go` | one document per file, keyed by session id; the files | uploads, registry |
| Start endpoint, cleanup loop | `internal/service/endpoints.go` 266-363, `server.go` 336-344 | heartbeat goroutine, ticker | registry, session |
| Downloads | `browser.go` 602-626, 930-964, 1517-1569 | `downloadFile` record per message, buffered channel | listener and program goroutines |
| Program actions | `browser.go` 844-898, 992-1304, 1312-2150 | options of the current action, outputs of the program, count of open requests | page |
| Log truncation | `browser.go` 292-403 | none | responses |
| LLM actions | `browser.go` 2150-2571, `internal/llm` | generation info | external models |
| SOCKS5 server | `internal/socks5` | linked list of requests, UDP exchange map | upstream proxy |
| Proxy service | `internal/proxy/proxy_service.go` | liveness flag, local address | SOCKS5 or HTTP proxy |
| Readability, conversion | `internal/service/endpoints_*.go`, `readability*.go`, `formats.go`, `http_errors.go`, `document_tools.go` | cache collection; which tools the build has | external sites, proxy service, tools |
| Renderers, external tools | `internal/service/pandoc.go`, `html`, `markdown`, `internal/exec`, `internal/doctools` | a temporary directory per conversion | external programs |
| PDF to images, storage | `internal/service/pdf`, `storage` | temporary directory, a goroutine per page | external tools |
| Go client, CLI | `pkg/baasclient` | request ids, program history | HTTP API |

What is hard about them, and what makes them correct:

* *Session.* A call is a message and a wait for the response with the same
  request id, on a bus without acknowledgement: messages inserted before the
  subscription are lost, responses may come after the caller gave up, two
  workers of one id both answer, a stop queues behind programs. Correct means:
  an answer stems from a finished run of a call with that id, each worker runs
  its stream in order and once, nothing runs after a stop, every call returns.
* *Registry and files.* The start check and the registration are far apart, the
  sweep acts on ids it read earlier, the record's lifetime is not the
  browser's, documents survive a crash and browsers do not. Correct means: one
  browser to an id, nothing left behind, no id refused for ever, files there
  for as long as their session needs them.
* *Downloads.* The browser's event loop and the program share a record without
  a lock. Correct means: the event loop is never stuck, a file goes to one
  response and to the message it belongs to.
* *SOCKS5 server.* Handlers come and go while the accept loop ends and closes
  what is left; one request is closed by its handler, its relay goroutines and
  the drain. Correct means: the drain closes everyone, a request ends as a whole
  and leaves nothing open, a client gets one verdict.
* *Program actions.* One call's options, contexts and errors live in fields that
  the next call finds: `actionOpts` is set only by a run that makes an action,
  the outputs are reset by nobody, a timeout is kept in two places of which one
  may lose it. Correct means: a timeout that was given ends its action, an
  error is reported with the message it belongs to, what a program kept is what
  its response carries, and what is left over does no harm.
* *LLM actions.* A model may choose another element on every attempt and every
  operation on the page may be cut short. Correct means: a login is submitted
  only with both values where they belong, and every action ends.
* *Documents.* A request changes its own configuration from one attempt to the
  next, its answer may be kept for others, its conversion takes fallbacks that
  may hide why a tool failed. Correct means: a cached answer is of a request
  like this one, 501 is said exactly for a missing tool, an answer is made of
  the document that was asked for, every request ends.

## 2. Modules

| Module | Models |
|---|---|
| `SessionCall` | abstract promise of the session API: issue, begin, finish, answer, fail |
| `AsyncSession` | `DoAsyncAndWait`, `RunAsync` and the bus between them |
| `AsyncSession_proofs` | its invariants, and the step simulation into `SessionCall` |
| `SessionLifecycle` | one session id: start check, registration, uploads, removal, sweep, restart |
| `SessionLifecycle_proofs` | its invariants |
| `Downloads` | listener, per-message record, `waitFileDownload` |
| `Socks5Server` | accept loop, request list, drain at the end |
| `Socks5Server_proofs` | its invariants |
| `Socks5Request` | one request: handshake, dial, TCP and UDP relay |
| `Socks5Request_proofs` | its invariants |
| `NetworkIdle` | `waitForNetworkIdle`: its listener's count, and the page's requests |
| `ProgramActions` | `setupOttoActions`, the options, the runs and the ends of all actions, `RunAsync`'s use of their outputs; extends `NetworkIdle` |
| `LlmActions` | `llmLogin`, `llmSetValue`, `llmClick`, `llmSendKeys`, `llmText` and what they share |
| `Formats` | format detection, and the tools each endpoint uses for each format, as operators |
| `ProxyHost` | `proxy_service.go`: the flag, the local proxy, `Host` |
| `Pandoc` | `pandoc.go`: conversions as ways of commands, with their directory |
| `PdfImages` | `pdf_to_images_converter.go`: batches of pages |
| `Documents` | the document endpoints; extends the four above |
| `DocumentService` | abstract promise of the document endpoints: ask, learn, do, recall, refuse, fail, forget |
| `Downloads_proofs`, `LlmActions_proofs`, `ProgramActions_proofs` | the invariants of these modules |
| `Documents_proofs` | its invariants, and the step simulation into `DocumentService` |
| `MC...` | constants for TLC |

A definition whose comment begins with "Fault:" is a wrong version of the next
one, as a plausible slip in the code would make it. No specification uses it;
substituted for the right one it makes TLC find a property violated, which
shows that the property depends on that code.

### AsyncSession

The collections are sequences in insertion order; a change stream is a position
in one of them, set when `Watch` returns. A call has the goroutine of the HTTP
handler (`caller`) and the one in `OnMessage` (`outSub`), which meet in
`Receive`, the rendezvous on the unbuffered `done`. A worker has `worker` (the
loop) and `inSub` (the subscriber), which meet in `TakeMessage` and
`LeaveOnDone`. Contexts are Booleans: `callDone` is the context with the call's
timeout, `outerDone` the one `RunAsync` was given (only a held request has one
that ends, `Disconnect`), `actionDone` the one `doRun` puts around the action.
A `select` with two ready branches is two enabled actions. A message is the
call that sent it, a response the call and the worker that gave it; contents,
logging and metadata are abstracted. `inFrom` and `ran` are history variables.
A send that fails is a disjunct that changes nothing but the goroutine's place,
as in the code, where errors of `Send` are logged. `answer`, the position of
the response a call returned, lets `AnsweredByARun` relate the client's view to
the worker's.

Bus delivery is modelled as MongoDB documents it: events after the watch, in
order, once; the stream may end with an error at any time (`CloseIn`,
`CloseOut`). Decoding errors, which skip a message, are left out.

### SessionLifecycle

Several start requests for the *same* session id, since registry and temp-file
documents are keyed by id. A database operation is a step that works or fails;
whether the code logs and goes on or gives up decides the step's effect.
`Cleanup` is two steps, the read with the removal of files and the
`DeleteMany`. A run uploads one file at most (bound). `record` is the document:
none, fresh, or stale once the TTL has passed. `Crash` ends browsers and
sweeps and leaves documents and files. `excuses` is a history variable that
collects why an id may have two browsers: a start during another's boot
("booting"), a start while a run that has removed its record has yet to cancel its
browser ("leaving": the deferred calls of `doRun` remove the record first,
`browser.go:700-705`, then the download directory and the browser, 533-558), a
sweep that deleted a running session's record ("sweep"), or a failed operation of
a run ("database"). `OneBrowser` is about every run that has a browser, from the
start to its cancellation, and holds when there is none, so the four are all the
ways. It does not say that they do not happen. `FileGoesWithRecord` follows
an uploaded file: it may go under its running session, as `browser.go:1582`
denies, but only by a sweep that takes the session's record along.

### Downloads

The listener's handling of a completed download is three steps (set the flag,
send, close), each of which reads `programCtx.downloadFileInfo` anew, as the
code does without a lock; a message may replace the record in between. A send
on a closed channel is a panic the listener recovers from. Records are numbered
by message. `waitFileDownload` says true if the record holds content, which
nothing clears: a second wait of a program is told true of the first one's file,
though "returns true if file was downloaded successfully, returns false if file
wasn't downloaded within the provided duration" (`browser.go:1549-1551`).
`TrueIsOfThisMessage` says that it is never told so of another message's.

### Socks5Server and Socks5Request

`Socks5Server` keeps the doubly linked list as the code does, `head`, `prev`
and `next`; inserting and removing hold the mutex and are one step.
`closeRequests` is four: test of the head, second read of it, removal, closing,
of which only the removal holds the mutex. `dead` is the panic on a nil
request, after which nothing happens: it ends the whole service. `Process` is
one step here, `ProcessEnds`, free to come at any time; `Socks5Request` is what
is behind it, and its `OneEndEndsAll` is why a request that the drain closed
does end.

`removeRequestList` cuts `l.prev` before it hands it to the successor
(`server.go:145`), so a request that leaves from the middle takes its
successor's link back with it. `BackLinksAgree` is what remains true, every
link back has its link ahead; what is lost is the reverse. When such a
successor leaves in turn, its predecessor goes on pointing to it, and what came
after it is out of the list. `DrainIsComplete` says that this takes two removals
of requests that were not the head (`skips`), and that nothing else makes the
drain miss a request except an accept that had not been inserted (`late`).
No text of the repository promises more, so there is no finding; dropping
either exception makes TLC produce the history.

`Socks5Request` has the handler and up to two more goroutines. Reads and writes
fail on closed sockets and may fail on open ones, which covers deadlines. Three
oddities of the code are in the model as they are: an unresolved name is
refused and then dialled all the same, since the handshake returns the outer,
nil error; a UDP loop left by a failed write to the client keeps `udpMutex`;
an IPv6 address never parses, so an IPv6 connect is refused. `Request.Close` is
one step, although it reads the three sockets without a lock.

### NetworkIdle and ProgramActions

`NetworkIdle` has the page's requests, which go on whether anybody listens, and
the listener's `inflight`. A redirect announces a request again and one end
follows, so the count may stay too high; the end of a request from before the
listener takes one off that was never added, so it may be too low.
`CountMissesOnlyByEarlier` bounds that second error, and says with it that the
wait misses no request when the page was quiet at its beginning.

`ProgramActions` has one call at a time, in stages: `run` (the action is made),
`do`, `wait` (for idleness, if asked for), `return`. Every action of
`supportedActions` is a member of one class of `ProgramActions`, by when it asks
the page, under which context, and what it keeps; what it does to the page is
left out. `clock` counts the time of a call. `OptionsOf` puts the options
together in the code's order. `TimeoutOf` is `withActionOptions`, with the slip
of `browser.go:1216`: `withoutTimeout` stores `withTimeout`. `Wraps` is
`withTimeoutOption`, which puts the context of each timeout around the action
itself; this is why `ExplicitTimeoutHolds` although the options have lost the
timeout, and why a `sleep` is cut at the default timeout.

Three actions have no simple end. `waitFileDownload` looks at its own duration only
and `getInnerText` asks the page again, with the program's context, to give its
value: both may go on after their time. A `sleep` asks for no timeout and
has one all the same, so it may be cut short, which contradicts what it says of
itself (finding 1). Panics in an action are recovered and become the response's error;
an error that cannot be converted for the program is one of them. `html` and
`article` are the numbers of the messages that wrote them: a response whose
program kept none carries an earlier one's, which `OwnOutputsWin` allows and
nothing in the repository promises otherwise.

### LlmActions

The model's answer is any element or none (`Ask`), and some elements are
`Buttons`: an `input` of type `submit` is among the candidates for every choice of
`llmLogin` (`browser.go:2268`, `2278`). `setValueOnControl` is the code's three ways
to enter a value (click and key events, `SendKeys`, `SetValue`), each followed by
a check if the caller wants one. Only `llmLogin` does: `llmSetValue` and
`llmSetValueSkipVerify` both pass `false` (`browser.go:1876`, `1890`), so the former
does not verify either. The click that comes before the typing presses a button
(`TypeInto`), and submits the form before a value is in. Every operation may fail
having done its work, half of it or none. The page may rewrite fields, `MaxTouches`
times. A choice that is not on the page ends its attempt after three seconds
where `includeInvisible` scrolls to it (`browser.go:2381-2387`), and otherwise waits
for the operation's end. `submits` changes with every submission by a login;
`chosen` and `strayed` relate it to the fields chosen in earlier attempts.
`SubmitNeedsBoth` says that both values are in, read back and still there, unless
the submission is the press of a button that was chosen for a value's field;
`Holds` allows that a password was also typed into what was then the name's field,
by an attempt with another choice.
`retry.With` is external; it is modelled as a count of attempts.

### Documents and its parts

A request goes through `start`, `fetch`, `again` (a second fetch without a
proxy), `read`, `chrome`, `convert`; a failed attempt is followed by another
until `MaxAttempts`. `useProxy` is `cfg.UseProxy`, which an attempt replaces when
proxies are random; `key` is the hash computed before the first attempt. `body`
says what the bytes at hand are of: the document, the body of an error status, a
part, or nothing. `ProxyHost` runs beside it, so an attempt may find another
host than the one before.

`Formats` gives for each endpoint and format the *plan*: stages that must all
work, each a list of tools tried in turn. `Pandoc` runs a tool of `pandoc.go` as
ways of commands in a directory which is made first and removed by the deferred
call. A part of the toolchain that the build lacks fails with "unavailable",
which the status of an answer depends on through fallbacks and retries.
`PdfImages` has a goroutine per page, the channel with room for all, the return
at the first failure, sizes of zero and below (zero never advances: the exception
in `RequestEnds`; below, it panics).

`DocumentService` knows no formats, tools or attempts: a request is worked on and
answered once; what it needs of the toolchain comes out on the way (`Learn`); it is
done only with all of that, refused only without some of it, and recalled only
while an answer to a request like it is kept. A document whose format goes
unrecognised (`known` is false) may be answered as it is. `IsTheService` maps
`step` and `answer` to the service's state and outcome, `Needs` to what is needed,
and the keys of the fresh entries to what is kept. The article whose conversion
to another markup failed is the one that is done in part, and is not kept.

`Needs` is what `README.md:70-78` of the repository says, not what the code
uses; that it is what the endpoints' plans use is what the properties are about. Two
kinds of document are answered without it, and `MissingToolIs501` names them:
`TakenForText`, a PDF given to the kv endpoint, whose bytes come back as
markdown (finding 3), and `TakenForPage`, an ODF or RTF document given to readability,
whose content type `determineFmtType` does not know (`formats.go:107-128`).

Seen in the code while modelling, and in the model as they are:

* An extension `tsv` is known to `fmtTypeByExtension`, and no endpoint has a
  converter for it.
* The sheet names are read from a buffer nothing writes, so the loops over sheets
  are never reached (finding 2).
* `UsedProxy` reports `cfg.UseProxy` while Chrome is given `s.proxy.Host()`; the
  kv endpoint reports `usedBrowser` as `ForceUseBrowser` although it uses none.
* `docDownloadWithChrome` cannot be reached from `doRunReadability`.
* A URL that cannot be reached but has a content type (`formats.go:88`), and a
  server without a proxy service (`endpoints_readability.go:55`), panic; the
  HTTP framework's recovery makes that a failed request.

## 3. Runs

| Run | Instance | Shows |
|---|---|---|
| `async_live` | one message, one stop, one held worker, own request ids | liveness and the refinement of `SessionCall` |
| `async_two_workers` | one message, one stop, two workers, no hold, one shared request id | safety with duplicate answers and reused ids |
| `lifecycle` | two starts, loop and cleanup endpoint, one failure, one restart | `OneBrowser`, `QuietIsClean`, `FileGoesWithRecord`, `DeadRecordGoesAway` |
| `downloads` | three files, three messages | `ListenerNeverBlocks`, `EachFileOnce`, `FirstFileIsOffered`, `TrueIsOfThisMessage` |
| `socks_server` | four requests | `DrainIsComplete`, `DiesOnlyOvertaken`, `BackLinksAgree`, `ListEnds` |
| `program` | two messages of two calls, twelve calls of all classes, two requests, clock to 4 | `ExplicitTimeoutHolds`, `ErrorIsOwn`, `StaleOptionsAreHarmless`, `OwnOutputsWin`, `CountMissesOnlyByEarlier` |
| `program_sleep` | two calls, one of them a sleep of 3 under a default timeout of 2 | `SleepIsWhole` is violated |
| `llm` | two fields and a button, three attempts, one rewriting | `SubmitNeedsBoth`, `ActionEnds` |
| `documents` | two attempts, two requests, three pages, sizes -1, 0, 2 and 10, the configurations of `MCSetups` | `CachedAnswersMatch`, `MissingToolIs501`, `AnswerIsOfTheDocument`, `NamedProxyKept`, `RequestEnds`; the refinement of `DocumentService` (`IsTheService`) |
| `documents_sheets` | the same | `EverySheetIsGiven` is violated |
| `documents_kv` | the kv endpoint in a build without the toolchain | `MarkdownNeedsTheToolchain` is violated |
| `socks_request` | two addresses, password or not, UDP or not | `EndedIsReleased`, `OneVerdict`, `LockLeaksByForwardOnly`; `OneEndEndsAll`, `ExpiryEnds` |

*Why the bounds are enough.* A session's hazards are between one program and
what comes next to it: a message and a stop give every order of two messages on
a worker (both, either, the stop first, after the subscription or before it),
two workers give duplicate answers, a shared id a late answer that meets a
retry. The invariants are proved for every number of calls and workers.
In the lifecycle, two runs and two sweepers suffice for every interference
between a start and another's boot, end or sweep; again the invariants are
proved in general. Three messages let a record be left half set in the second and found
so by the third. The shortest list that loses a request has four: a head, two
that leave, one that is lost. Two addresses are a client's and a target's, or
two strangers of which the first is taken for the client.
In `program`, a call can only be disturbed by the one before it and a message by
the message before it; the default timeout is 2 and the clock goes beyond every
timeout and duration given, so each can be the one that ends an action, and the
two requests are one from before a wait and one from its time. In `llm` the
code's three attempts are kept, and with two fields and a button a choice may be
right, wrong, the other value's, a press or absent. In `documents`, every endpoint occurs with the
options that change its course, in builds with all, none or one of the parts; two
attempts are one and a retry, two requests are one that fills the cache and one
that finds it. The setups name no state of their own, so larger instances repeat
these.

*Fairness.* In `AsyncSession`: goroutines that can run do run; a call's timer
fires (`Expire`); a program ends, because its actions have timeouts (a program
with an endless loop of its own is not covered: the interpreter has no
interrupt); `net/http` ends the context of a handler that returned. Nothing is
assumed of the database: sends may fail and streams may never open. In
`SessionLifecycle`: time passes, the sweep is called every minute and each
sweep goes on, a session that has begun to end goes on. Nothing says that a
session ends. `Downloads` and `Socks5Server` have no liveness property; that the
drain meets the end of the list is the invariant `ListEnds`. In `Socks5Request` goroutines that can
run do run: every read and write of the handler and of `back` has a deadline.
Dialling has none and is given no fairness: the dialer of `startSocksProxy` limits
the time of the TCP connect only (`proxy_service.go:139-142`), the negotiation with
the upstream proxy behind `request.go:70` has no limit, and `Request.Close` does not
reach a connection that is not there yet. `OneEndEndsAll` therefore promises a
request whose client has gone an end, or a dialling that never comes back.
`watch` has one only by accident and is assumed to end once its
socket is closed. In `LlmActions` an action that can
go on does, and its context expires: every operation has a timeout
(`browser.go:1020`). Nothing is assumed of the model or the page, and without the
context's end `ActionEnds` would be false, since the query at `browser.go:2389` has no
timeout of its own. In `Documents` a request that can go on does, and so does a
page's goroutine: fetching, Chrome and the tools have timeouts or are ended with
their request. `ProgramActions` has no liveness property. The expiry goroutine takes
`doneExchange` under strong fairness: each of its selects starts with a fresh
timer of two seconds, so a closed channel is taken at once.

### Findings

1. `SleepIsWhole` (`browser.go:1599-1600`: "accepts duration ... sleeps for the
   provided duration"). `sleep` passes `WithoutTimeout` for that (line 1607), and
   `withActionOptions` stores `WithTimeout` instead (line 1216), so the test at line
   1028 finds nothing and the default operation timeout ends a longer sleep.
2. `EverySheetIsGiven` (`endpoints_parse_markdown.go:25`: "For Excel files, each
   sheet becomes a separate section with ## heading"). The sheet names are read
   into the buffer of `NewExecWithOutput`, which `ExecCommand` never writes
   (`exec.go:39-55`); no name is found, and the fallback gives the first sheet.
3. `MarkdownNeedsTheToolchain` (`README.md:67-73` of the repository: "What needs the
   toolchain answers `501 Not Implemented`", among it "`/api/parse-to-markdown-kv` on
   Office and PDF input"). The default converter (`endpoints_parse_markdown.go:101`),
   whose comment speaks of an error for binary content, is the one for text and is
   given the PDF. Line 76 of the same README promises 501 for ODF and RTF URLs of
   readability, which are read as web pages instead.

Two more disagreements are in the models without a run of their own, since the
property beside them says what does hold: a file handed to the page may be removed
while its session runs (`browser.go:1582`; `FileGoesWithRecord`), and a second
`waitFileDownload` says true of the first one's file (`browser.go:1549-1551`;
`TrueIsOfThisMessage`).

## 4. Proofs

All for arbitrary constants, under `AsyncAssumption` (stops are calls, held
workers are workers, every call has a request id), `LifecycleAssumption` (the
two bounds are natural numbers), `SocksAssumption` and `RequestAssumption` (the
null value is not a request, not an address), `DownloadsAssumption`, `LlmAssumption`,
`ProgramAssumption`, `NetworkAssumption` (a page makes finitely many requests),
`DocumentsAssumption` and `PagesAssumption`, which type the constants.

*AsyncSession.* `SessionInvariant` proves `IndInv`. The safety properties are not
inductive alone: that an answer comes from a run needs that a watcher offers
only responses with its id (`CallerInv`), that responses are of messages the
worker has taken and finished (`ResponsesInv`); that a worker answers a call
once needs that a call is inserted once (`InsertedOnce`) and that what the worker
has taken is exactly the part of its stream handed over, with the current
message the last of it (`WorkerInv`); that a stop is last needs that a worker
which took one is at it or has ended (`WorkerInv` again). From `IndInv` follow
`TypeCorrect`, `AnswersComeFromRuns`, `MessagesRunInOrder`,
`ResponsesAreUnique` and `StopComesLast`. `SessionImplementsCalls` shows that
the mapped initial state and every mapped step are steps or stutters of
`SessionCall`, whose liveness part `async_live` checks.

*SessionLifecycle.* `OneBrowser` is inductive with the types: the start that
finds no document, no boot in progress and no run about to cancel its browser is
alone. `QuietIsClean` needs `OwnedInv`: whatever is in the database or on disk has a
run that will still take it away. `FileGoesWithRecord` needs `OneBrowser`, since the
other remover of an id's files is another run of it, and `UploadInv`: only attached
files are in the documents that removers read, and a file is on disk until then.
`LifecycleInvariant` proves them together.

*Socks5Server.* The links agree because a request enters the list once, unlinked
on both sides (`FreshUnlinked`), and a removal that cuts a link ahead cuts the
link back that answers it. `TakeInv` follows the drain from its test to its
second read: the head it saw is there unless a handler removed itself in
between. What the drain leaves, and that it comes to an end, are about paths along
the links, for which an induction over their length would be the usual argument.
They are stated with sets instead. A circle is a set of requests each of which
links into it, and `ListEnds` says there is none: an insertion links a request to
the old head and nothing to itself, a removal shortens a path (`LinksEnd`). A path
from the head leads to a request if every set that has the head and goes along with
the links has the request: `ReachInv` says so of all that are in the list and
not closed (`Pending`) while fewer than two removals were out of order, and that
before the first one links go both ways. That is the strengthening needed: one
removal from the middle leaves a link that is not answered, and only the next one
uses it. With `LateInv`, which follows the requests that come after the loop has
ended, it gives `DrainLeavesNothing`.

*Socks5Request.* `VerdictInv` and `ThreadInv` give for each stage of the handler
what the client has been told and which goroutines there are; the refused twice
are those with no address, for whom the dialler cannot succeed. `LockInv` follows
the mutex.

*Downloads.* That the listener is never stuck needs that a full channel is its
record's last file: the record is closed, or complete so that no other file is
sent, or the listener is about to close it (`RoomOrOver`), and that records to
come are untouched (`FreshAhead`). That a file is given once follows it from its
completion to the one record it is offered to (`OfferedOnce`). That the first
file reaches its program needs, without a race, that the flag of a record is set
exactly when a file was found complete (`SendsTheFirst`), and that this file is the
one offered (`OffersTheFirst`), from which `TrueIsOfThisMessage` follows too.

*LlmActions.* `LoginInOrder`: a login that has come to its password has its name
entered, one that has come to its button both; `StepFits` keeps the steps of one
goal from being taken for another. `SubmitNeedsBoth` is an action property that
follows from the two: a form is submitted by the click or ENTER at the end, or by
what enters a value if it meets a button. `TypeOK`
needs `StepFits` too: only a value to be entered may be written.

*ProgramActions.* `WithinTime` says that an action is within the shortest of its
timeouts; that there is a shortest, and a last of the options, is proved from
the well-foundedness of the numbers (`Least`, `Greatest`). `OwnAction` ties the
wrappers to the options of the call, from which `ExplicitTimeoutHolds` follows for
any list of options. `ResponseInv` numbers responses like messages and keeps
`outError` equal to what happened to this program. The bound on the count of
`NetworkIdle` is inductive with the types, by the cardinalities of the requests
that begin and end.

*Documents.* `Inv` says that a request which names its proxy keeps it
(`ProxyKept`), that what was obtained came through it (`Obtained`), that entries
of the cache are of requests like their key (`EntriesSound`), that a cached answer
is an entry's (`CachedIsAnswered`), and that a temporary directory exists only
while a conversion runs (`Tidy`). From it follow `CachedAnswers`, `NamedProxy` and
`NoDirectoryIsLeft`.

`DocInv` is about plans. A plan *suits* a request (`Suits`) if no stage ends with a
tool of a part the request has no use for (`Honest`; a chain says "unavailable" only
when its last tool is missing), and if each part it has use for is there or is what
all the tools of some stage are of (`Covers`; such a stage is not passed without it).
What a request has use for (`Used`) is read off the code; it is what the README
says it needs but for the two kinds of document that go unrecognised
(`UsedIsNeeded`).
Both survive a tool that is given up and a stage that is done with (`NextTool`,
`NextStage`) and the joining of plans (`Joined`), so they are proved for each plan
of `Formats` from its stages (`ArticleSuits`, `MarkdownSuits`, `ParsedSuits`,
`RenderedSuits`) and kept by every step (`PlanInv`). `FlowInv` says which endpoint
goes through which steps, `AnswerInv` that "unavailable" is only there where a part
is missing. From these follows `RefusedOnlyForMissing`. `BodyInv` says that an error
page taken for a PDF, and no bytes at all, get no further than the tools that refuse
them, and `PagesInv` that a batch is over when each of its pages was received: with
them follows `AnswersAreOfTheDocument`. `PagesAreNeverStuck` counts: a page is in one
place (`OnePlaceEach`), so the results cannot outnumber the room in the channel.
`EndpointsAreTheService` is the refinement: a step on the way to an answer maps to
`Learn`, an answer to the outcome it stands for, pages and local proxy to a stutter.

Only model-checked: the properties under fairness, which are out of the prover's
reach. Every invariant and action property of a passing run is a theorem.

## 5. Plan

Done: the session, its promise, the life of a session id, downloads, programs
and their actions with the wait for idleness, the actions that ask a model, the
document endpoints with proxy service, conversions and pages, the SOCKS5 server
and its requests.

What is left, in this order:

1. The start endpoint's heartbeat, its goroutine's end included
   (`endpoints.go:312`), composed with `AsyncSession`: today the answer of a start
   is a step of the worker.
2. `truncateLogsIfNeeded` (`browser.go:292-403`) as operators over sizes, compared
   with the limit.

## 6. Not modelled

* What a page does, what a model answers, the text of messages and documents:
  free choices in the models. CSV sniffing and the layout of tables are contents.
* `retry.With` and the recovery of panics by the HTTP framework are external, and
  modelled as the code uses them: attempts up to a count, a failed request.
* Log truncation (`browser.go:292-403`), the heartbeat's goroutine
  (`endpoints.go:312`), the growth of the actions' context with each action
  (`browser.go:1011`): hazards without a property, see `PROJECT.json`.
* The removal of a temporary directory is assumed to succeed. The directory that
  an early return of the page conversion removes while its goroutines still write
  is not a file system here.
* The error text that a second attempt with pandoc leaves beside an answer
  (`endpoints_eke_extract.go`).
* The clients in `internal/llm` are requests without a state of their own;
  `DocxToText` is used by nobody; `internal/docs` is generated; `pkg/baasclient` and
  the CLI keep what they show on a screen.
* Database migrations, configuration, listing endpoints.
