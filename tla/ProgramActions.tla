--------------------------- MODULE ProgramActions ---------------------------
(***************************************************************************)
(* The programs of one session of internal/service/browser.go: RunAsync    *)
(* takes a message and evaluates its program, which calls actions one      *)
(* after the other; setupOttoActions gives each call its options, its time *)
(* and its handling of errors.  The page's requests are those of           *)
(* NetworkIdle, whose wait an action may be or may end in.                 *)
(*                                                                         *)
(* Time is counted from the beginning of a call, in units long compared    *)
(* with the pauses of a second between attempts.  What a page answers, and *)
(* when, is free.                                                          *)
(***************************************************************************)
EXTENDS NetworkIdle, Sequences, FiniteSetsExt

CONSTANTS
    Calls,                    \* calls a program may contain
    MessageOptions,           \* operationTimeout and errOnTimeout of a message
    DefaultOperationTimeout,
    MaxMessages, MaxCalls,    \* bounds: messages of the session, calls of a program
    MaxClock                  \* bound on the time of a call

OptionKinds == {"timeout", "ignoreNavigationErrors", "waitForNetworkIdle", "withoutTimeout"}

\* An option as parseActionOpts reads it; a duration that does not parse is 0.
Option == [kind : OptionKinds, value : Nat]

-----------------------------------------------------------------------------
(***************************************************************************)
(* supportedActions, in classes by when an action asks the page, under     *)
(* which context, and what it keeps.                                       *)
(***************************************************************************)

\* These ask it in their Do, under the operation's context, and keep nothing.
NavigateActions == {"navigate", "navigateResponse", "navigateStatus"}
PageActions ==
    {"takeScreenshot", "dragAndDropBySelectors", "countElements", "isElementPresent",
     "getURL", "replaceInnerHtml", "waitReady", "waitVisible", "waitForNetworkIdle"}
ElementActions ==
    {"getElementInnerTextN", "getElementValueN", "sendKeysToElement", "scrollIntoView",
     "scrollIntoViewN", "setValueN", "clickN", "scrollToBottom", "evaluateJS"}
FormActions == {"click", "submit", "reload", "uploadFileFromUrl", "isTextPresent"}
LlmActions ==
    {"llmLogin", "llmClickElement", "llmClick", "llmSetValue", "llmSetValueSkipVerify",
     "llmText", "llmSendKeys"}
QueryActions ==
    {"getInnerHtml", "getOuterHtml", "getElementCoords", "findVisibleElements", "sendKeys",
     "logURL", "text"}

\* The result goes where the response takes it from.
HtmlActions == {"innerHtml", "outerHtml"}

\* They try again whatever the page answers, until their time is over.
ConditionActions == {"waitForHtml", "waitForText"}
ArticleActions == {"waitReadabilityContent"}

\* Their Do does nothing: all there is is the value returned, or a log line.
PureActions == {"getValue", "getSecret", "sessionID", "log"}

\* The same, but the value is asked of the page, in the program's context.
AskingReturns == {"getInnerText"}

\* Their run asks the page, in the program's context, before there are options.
AskingRuns == {"readability", "pandoc"}

\* They wait for a duration of their own, and never fail.
DownloadWaits == {"waitFileDownloadStarted", "waitFileDownload"}

\* Of these one looks at its duration alone, not at the operation's context.
DeafActions == {"waitFileDownload"}

\* Their run gives up on a duration that does not parse, without an action.
DurationActions == {"sleep"} \union DownloadWaits

\* Their options end in withoutTimeout.
PatientActions == {"sleep", "isTextPresent"} \union ConditionActions

\* What the page answers may be an error of theirs.
FallibleActions ==
    NavigateActions \union PageActions \union ElementActions \union FormActions
        \union LlmActions \union QueryActions \union HtmlActions \union AskingRuns

InfallibleActions == PureActions \union AskingReturns \union DownloadWaits

Actions ==
    FallibleActions \union InfallibleActions \union ConditionActions
        \union ArticleActions \union {"sleep"}

ASSUME ProgramAssumption ==
    /\ Calls \subseteq [action : Actions, opts : Seq(Option), duration : Nat]
    /\ MessageOptions \subseteq [operationTimeout : Nat, errOnTimeout : BOOLEAN]
    /\ DefaultOperationTimeout \in Nat \ {0}
    /\ MaxMessages \in Nat /\ MaxCalls \in Nat /\ MaxClock \in Nat

-----------------------------------------------------------------------------
VARIABLES
    stage,       \* idle, program, run, do, wait, return
    message,     \* number of the message being worked on
    options,     \* its MessageOptions
    calls,       \* calls its program has made
    call,        \* the current one
    cdp,         \* what its run returned: "nil", "error" or "action"
    own,         \* actionOpts are those of the current call
    actionOpts,  \* pCtx.actionOpts
    wraps,       \* timeouts withTimeoutOption has wrapped the action in
    clock,       \* time the run of the current call has taken, then its operation
    outError,    \* pCtx.outError
    panicked,    \* history: an action of this message's program panicked
    kept,        \* history: outputs this message's program has kept
    html,        \* message that wrote pCtx.outHtml, 0 for none
    article,     \* message that set pCtx.readabilityArticle, 0 for none
    responses    \* the responses sent, one to a message

callVars == <<calls, call, cdp, own, actionOpts, wraps, clock>>
outVars == <<outError, panicked, kept, html, article>>
programVars == <<stage, message, options, callVars, outVars, responses>>
vars == <<programVars, networkVars>>

NoOptions == [timeout |-> 0, ignoreNavigationErrors |-> FALSE, networkIdle |-> FALSE]

Init ==
    /\ stage = "idle" /\ message = 0
    /\ options \in MessageOptions
    /\ calls = 0 /\ call \in Calls
    /\ cdp = "nil" /\ own = FALSE /\ actionOpts = NoOptions /\ wraps = {} /\ clock = 0
    /\ outError = FALSE /\ panicked = FALSE /\ kept = {} /\ html = 0 /\ article = 0
    /\ responses = <<>>
    /\ NetworkInit

-----------------------------------------------------------------------------
(***************************************************************************)
(* Options.                                                                *)
(***************************************************************************)

\* An option that is there by the action's own doing.
Always(kind, actions, action) ==
    IF action \in actions THEN <<[kind |-> kind, value |-> 0]>> ELSE <<>>

\* parseActionOpts: the defaults, the arguments, what the action appends.
OptionsOf(c) ==
    Always("ignoreNavigationErrors", NavigateActions, c.action)
        \o c.opts \o Always("withoutTimeout", PatientActions, c.action)

Has(opts, kind) == \E i \in DOMAIN opts : opts[i].kind = kind

(***************************************************************************)
(* withActionOptions: withoutTimeout stores the timeout of its own option, *)
(* which has none, and WithoutTimeout stays unset.                         *)
(***************************************************************************)
TimeoutOf(opts) ==
    LET setting == {i \in DOMAIN opts : opts[i].kind \in {"timeout", "withoutTimeout"}}
        last == CHOOSE i \in setting : \A j \in setting : j <= i
    IN  IF setting # {} /\ opts[last].kind = "timeout" THEN opts[last].value ELSE 0

ActionOpts(opts) ==
    [timeout |-> TimeoutOf(opts),
     ignoreNavigationErrors |-> Has(opts, "ignoreNavigationErrors"),
     networkIdle |-> Has(opts, "waitForNetworkIdle")]

\* Fault: the timeout of an option only replaces the operation's.
WrapsNothing(opts) == {}

\* withTimeoutOption: each timeout that parses wraps the action once more.
Wraps(opts) ==
    {opts[i].value : i \in {j \in DOMAIN opts : opts[j].kind = "timeout"}} \ {0}

-----------------------------------------------------------------------------
(***************************************************************************)
(* One message.                                                            *)
(***************************************************************************)

\* Fault: the error of the message before it is not erased.
TakeMessageKeepingError(o) ==
    /\ stage = "idle" /\ message < MaxMessages
    /\ stage' = "program" /\ message' = message + 1
    /\ options' = o
    /\ calls' = 0
    /\ panicked' = FALSE /\ kept' = {}
    /\ UNCHANGED <<call, cdp, own, actionOpts, wraps, clock, html, article, outError,
                   responses, networkVars>>

TakeMessage(o) ==
    /\ stage = "idle" /\ message < MaxMessages
    /\ stage' = "program" /\ message' = message + 1
    /\ options' = o
    /\ calls' = 0
    /\ outError' = FALSE /\ panicked' = FALSE /\ kept' = {}
    /\ UNCHANGED <<call, cdp, own, actionOpts, wraps, clock, html, article,
                   responses, networkVars>>

\* The program ends, with a value or with an exception of its own.
Respond(exception) ==
    /\ stage = "program"
    /\ stage' = "idle"
    /\ responses' = Append(responses,
            [error |-> outError \/ exception, html |-> html, article |-> article,
             wrong |-> panicked \/ exception, kept |-> kept])
    /\ UNCHANGED <<message, options, callVars, outVars, networkVars>>

CallAction(c) ==
    /\ stage = "program" /\ calls < MaxCalls
    /\ stage' = "run"
    /\ calls' = calls + 1 /\ call' = c /\ clock' = 0 /\ own' = FALSE
    /\ UNCHANGED <<message, options, cdp, actionOpts, wraps, outVars, responses, networkVars>>

-----------------------------------------------------------------------------
(***************************************************************************)
(* action.run: no action for a bad duration, one that fails if the page    *)
(* could not be read, else one with options.  Only the last sets           *)
(* pCtx.actionOpts.                                                        *)
(***************************************************************************)

BadDuration == call.action \in DurationActions /\ call.duration = 0

WithoutOptions(result) ==
    /\ cdp' = result /\ wraps' = {}
    /\ UNCHANGED <<own, actionOpts>>

WithActionOptions ==
    /\ cdp' = "action"
    /\ own' = TRUE
    /\ actionOpts' = ActionOpts(OptionsOf(call))
    /\ wraps' = Wraps(OptionsOf(call))

\* Fault: a bad duration makes an action that does nothing.
RunBadAsEmpty ==
    /\ stage = "run"
    /\ \/ BadDuration /\ WithoutOptions("action")
       \/ call.action \in AskingRuns /\ WithoutOptions("error")
       \/ ~BadDuration /\ WithActionOptions
    /\ stage' = "do" /\ clock' = 0
    /\ IF call.action = "waitForNetworkIdle" THEN StartWait ELSE UNCHANGED networkVars
    /\ UNCHANGED <<message, options, calls, call, outVars, responses>>

Run ==
    /\ stage = "run"
    /\ \/ BadDuration /\ WithoutOptions("nil")
       \/ call.action \in AskingRuns /\ WithoutOptions("error")
       \/ ~BadDuration /\ WithActionOptions
    /\ stage' = "do" /\ clock' = 0
    /\ IF call.action = "waitForNetworkIdle" THEN StartWait ELSE UNCHANGED networkVars
    /\ UNCHANGED <<message, options, calls, call, outVars, responses>>

-----------------------------------------------------------------------------
(***************************************************************************)
(* The timeout: the one of the options if it parses, else the message's,   *)
(* else the default.  The action has the shortest of it and its wrappers,  *)
(* the wait for idleness after it what is left of the first.               *)
(***************************************************************************)
OpTimeout ==
    IF actionOpts.timeout > 0 THEN actionOpts.timeout
    ELSE IF options.operationTimeout > 0 THEN options.operationTimeout
    ELSE DefaultOperationTimeout

DoTimeout == Min(wraps \union {OpTimeout})

Honours == call.action \notin DeafActions

\* The contexts in force in this stage still give time.
TimeLeft ==
    CASE stage = "do" -> /\ cdp = "action"
                         /\ Honours => clock < DoTimeout
                         /\ call.action \in DurationActions => clock < call.duration
                         /\ call.action \notin PureActions \union AskingReturns
      [] stage = "wait" -> clock < OpTimeout
      [] stage = "run" -> call.action \in AskingRuns
      [] stage = "return" -> call.action \in AskingReturns
      [] OTHER -> FALSE

Tick ==
    /\ clock < MaxClock
    /\ TimeLeft
    /\ clock' = clock + 1
    /\ UNCHANGED <<stage, message, options, calls, call, cdp, own, actionOpts, wraps,
                   outVars, responses, networkVars>>

-----------------------------------------------------------------------------
(***************************************************************************)
(* The end of the action.                                                  *)
(***************************************************************************)

\* What the recover of setupOttoActions does: the program goes on.
Panics ==
    /\ stage' = "program"
    /\ outError' = TRUE /\ panicked' = TRUE
    /\ UNCHANGED <<kept, html, article>>

Leaves(next) == stage' = next /\ UNCHANGED outVars

\* A nil action: its Do is a nil pointer.
DoNil ==
    /\ stage = "do" /\ cdp = "nil"
    /\ Panics
    /\ UNCHANGED <<message, options, callVars, responses, networkVars>>

\* The action's own end; sleep's is the end of its duration.
Finished ==
    CASE call.action = "sleep" -> clock >= call.duration
      [] call.action = "waitForNetworkIdle" -> IsIdle
      [] OTHER -> TRUE

Kept ==
    (IF call.action \in HtmlActions THEN {"html"} ELSE {})
        \union (IF call.action \in ArticleActions THEN {"article"} ELSE {})

\* Fault: what was kept first stays for the rest of the session.
DoneKeepingFirst(toWait) ==
    /\ stage' = IF toWait THEN "wait" ELSE "return"
    /\ kept' = kept \union Kept
    /\ html' = IF "html" \in Kept /\ html = 0 THEN message ELSE html
    /\ article' = IF "article" \in Kept /\ article = 0 THEN message ELSE article
    /\ UNCHANGED <<outError, panicked>>

Done(toWait) ==
    /\ stage' = IF toWait THEN "wait" ELSE "return"
    /\ kept' = kept \union Kept
    /\ html' = IF "html" \in Kept THEN message ELSE html
    /\ article' = IF "article" \in Kept THEN message ELSE article
    /\ UNCHANGED <<outError, panicked>>

DoSucceeds ==
    /\ stage = "do" /\ cdp = "action"
    /\ Finished
    /\ Done(actionOpts.networkIdle)
    /\ IF actionOpts.networkIdle THEN StartWait
       ELSE IF waiting THEN StopWait ELSE UNCHANGED networkVars
    /\ UNCHANGED <<message, options, callVars, responses>>

(***************************************************************************)
(* Errors of an action.  A deadline may be the operation's, a wrapper's,   *)
(* the 30 seconds of the wait for idleness or, for a run that asked the    *)
(* page, the program's.  waitReadabilityContent answers a deadline with    *)
(* the error of its last attempt, whichever that was.                      *)
(***************************************************************************)
PageErrors == IF call.action \in FallibleActions THEN {"page", "aborted"} ELSE {}

TimeErrors ==
    IF clock = DoTimeout
    THEN {"deadline"} \union (IF call.action \in ArticleActions THEN {"page"} ELSE {})
    ELSE IF call.action = "waitForNetworkIdle" THEN {"deadline"} ELSE {}

Errors ==
    IF cdp = "error" THEN {"page", "deadline"}
    ELSE IF call.action \in InfallibleActions THEN {}
    ELSE PageErrors \union TimeErrors

Ignored(e) ==
    \/ e = "deadline" /\ ~options.errOnTimeout
    \/ e = "aborted" /\ actionOpts.ignoreNavigationErrors

\* Handed to the program as a value, which the conversion may refuse.
DoFails(e) ==
    /\ stage = "do" /\ cdp # "nil"
    /\ e \in Errors
    /\ IF Ignored(e) THEN Leaves("return") ELSE Leaves("program") \/ Panics
    /\ IF waiting THEN StopWait ELSE UNCHANGED networkVars
    /\ UNCHANGED <<message, options, callVars, responses>>

\* The wait for idleness ends one way or the other; its error is only logged.
WaitEnds ==
    /\ stage = "wait"
    /\ Leaves("return")
    /\ StopWait
    /\ UNCHANGED <<message, options, callVars, responses>>

\* getReturn, and the conversion of its value.
Return ==
    /\ stage = "return"
    /\ Leaves("program") \/ Panics
    /\ UNCHANGED <<message, options, callVars, responses, networkVars>>

Next ==
    \/ \E o \in MessageOptions : TakeMessage(o)
    \/ \E exception \in BOOLEAN : Respond(exception)
    \/ \E c \in Calls : CallAction(c)
    \/ Run \/ Tick
    \/ DoNil \/ DoSucceeds \/ WaitEnds \/ Return
    \/ \E e \in {"page", "aborted", "deadline"} : DoFails(e)
    \/ (PageEvent \/ QuietPasses) /\ UNCHANGED programVars

Spec == Init /\ [][Next]_vars

-----------------------------------------------------------------------------
TypeOK ==
    /\ stage \in {"idle", "program", "run", "do", "wait", "return"}
    /\ message \in Nat /\ options \in MessageOptions
    /\ calls \in Nat /\ call \in Calls
    /\ cdp \in {"nil", "error", "action"} /\ own \in BOOLEAN
    /\ actionOpts \in [timeout : Nat, ignoreNavigationErrors : BOOLEAN, networkIdle : BOOLEAN]
    /\ wraps \in SUBSET Nat /\ clock \in Nat
    /\ outError \in BOOLEAN /\ panicked \in BOOLEAN
    /\ kept \in SUBSET {"html", "article"}
    /\ html \in Nat /\ article \in Nat
    /\ responses \in Seq([error : BOOLEAN, html : Nat, article : Nat, wrong : BOOLEAN,
                           kept : SUBSET {"html", "article"}])
    /\ NetworkTypeOK

(***************************************************************************)
(* A timeout given with a call ends its action, even where withoutTimeout  *)
(* has erased it from the options: the wrapper is still there.             *)
(***************************************************************************)
ExplicitTimeoutHolds ==
    stage = "do" /\ cdp = "action" /\ Honours =>
        \A i \in DOMAIN call.opts :
            call.opts[i].kind = "timeout" /\ call.opts[i].value > 0 =>
                clock <= call.opts[i].value

(***************************************************************************)
(* "sleeps for the provided duration" (browser.go:1599-1600): a sleep that *)
(* was given no timeout of its own and is not answered with an error has   *)
(* taken its duration.                                                     *)
(***************************************************************************)
SleepIsWhole ==
    call.action = "sleep" /\ ~Has(call.opts, "timeout") /\ stage = "return" =>
        clock >= call.duration

(***************************************************************************)
(* A response carries an error if and only if an action of its own program *)
(* panicked or the program threw: no error is lost, and none is left over  *)
(* from the message before.                                                *)
(***************************************************************************)
ErrorIsOwn ==
    \A i \in DOMAIN responses : responses[i].error = responses[i].wrong

(***************************************************************************)
(* A call without an action of its own runs under the options of the call  *)
(* before it, yet never waits for the idleness that one asked for, and     *)
(* comes to return a value only where timeouts are ignored.                *)
(***************************************************************************)
StaleOptionsAreHarmless ==
    ~own => /\ stage # "wait"
            /\ stage = "return" => ~options.errOnTimeout

(***************************************************************************)
(* The html and the article of a response are those its own program kept   *)
(* last, if it kept any.  If not they are an earlier program's: RunAsync   *)
(* resets neither.                                                         *)
(***************************************************************************)
OwnOutputsWin ==
    \A i \in DOMAIN responses :
        /\ "html" \in responses[i].kept => responses[i].html = i
        /\ "article" \in responses[i].kept => responses[i].article = i
=============================================================================
