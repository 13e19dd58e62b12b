----------------------------- MODULE LlmActions -----------------------------
(***************************************************************************)
(* The actions of internal/service/browser.go that have a language model   *)
(* choose elements of the page: llmLogin, llmSetValue, llmClick,           *)
(* llmSendKeys, llmText.  The model may name any element, or one that is   *)
(* not there; every operation on the page may fail, half done or not done; *)
(* the page may rewrite its fields; the operation's context may expire,    *)
(* after which everything fails.                                           *)
(*                                                                         *)
(* What a field holds is one of the values to be entered, nothing, or      *)
(* something else: keys typed into a field that holds anything are         *)
(* something else.  Buttons submit the form when they are pressed, and an  *)
(* input of type submit is among the candidates for every choice of        *)
(* llmLogin (browser.go:2268, 2278, 2304): the model may take a button for *)
(* a field, and the click that is to focus it then presses it.             *)
(***************************************************************************)
EXTENDS Naturals, FiniteSets

CONSTANTS
    Elements,      \* elements of the page that can be named
    Buttons,       \* those that submit the form when they are pressed
    NoElement,     \* a name that is on none of them
    MaxRetries,    \* attempts of retry.With
    MaxTouches     \* bound: rewrites of fields by the page

ASSUME LlmAssumption ==
    /\ Elements # {} /\ NoElement \notin Elements
    /\ Buttons \subseteq Elements
    /\ MaxRetries \in Nat \ {0}
    /\ MaxTouches \in Nat

Operations == {"llmLogin", "llmSetValue", "llmClick", "llmSendKeys", "llmText"}

\* An element's value attribute; "username" is also what llmSetValue enters.
Contents == {"empty", "username", "password", "other"}

Steps == {"ask", "ready", "type", "check1", "send", "check2", "set", "check3",
          "click", "enter", "body", "keys", "read", "judge", "done"}

VARIABLES
    op,        \* the action
    includeInvisible,  \* its option of that name
    goal,      \* what the current step of it is about: a value, "click", "keys", "text"
    step,      \* where it is in that
    attempt,   \* of retry.With
    element,   \* the model's last choice
    chosen,    \* elements the two values of a login went to, by value
    field,     \* what each element holds
    expired,   \* the operation's context is over
    submits,   \* of the form, by a login: whether their number is odd
    outcome,   \* of the action: "none", "ok" or "error"
    touched,   \* history: elements the page has rewritten
    strayed,   \* history: elements written for the password
    touches    \* bound

vars == <<op, includeInvisible, goal, step, attempt, element, chosen, field, expired, submits, outcome,
          touched, strayed, touches>>

Values == {"username", "password"}

TypeOK ==
    /\ op \in Operations /\ includeInvisible \in BOOLEAN
    /\ goal \in Values \union {"click", "keys", "text"}
    /\ step \in Steps
    /\ attempt \in 1 .. MaxRetries
    /\ element \in Elements \union {NoElement}
    /\ chosen \in [Values -> Elements \union {NoElement}]
    /\ field \in [Elements -> Contents]
    /\ expired \in BOOLEAN
    /\ submits \in BOOLEAN
    /\ outcome \in {"none", "ok", "error"}
    /\ touched \in SUBSET Elements /\ strayed \in SUBSET Elements
    /\ touches \in 0 .. MaxTouches

FirstGoal(o) ==
    CASE o \in {"llmLogin", "llmSetValue"} -> "username"
      [] o = "llmClick" -> "click"
      [] o = "llmSendKeys" -> "keys"
      [] o = "llmText" -> "text"

Init ==
    /\ op \in Operations /\ includeInvisible \in BOOLEAN
    /\ goal = FirstGoal(op) /\ step = "ask" /\ attempt = 1
    /\ element = NoElement
    /\ chosen = [v \in Values |-> NoElement]
    /\ field \in [Elements -> {"empty", "other"}]
    /\ expired = FALSE /\ submits = FALSE /\ outcome = "none"
    /\ touched = {} /\ strayed = {} /\ touches = 0

-----------------------------------------------------------------------------
(***************************************************************************)
(* Ends of an action and of its parts.                                     *)
(***************************************************************************)

Finish(result) ==
    /\ step' = "done" /\ outcome' = result
    /\ UNCHANGED <<goal, attempt>>

Go(next) ==
    /\ step' = next
    /\ UNCHANGED <<goal, attempt, outcome>>

NextGoal(g) ==
    /\ goal' = g /\ step' = "ask" /\ attempt' = 1
    /\ UNCHANGED outcome

\* The button could not be clicked: llmLogin goes on to ENTER.
LastAttemptFailed ==
    IF op = "llmLogin" /\ goal = "click" THEN Go("enter")
    ELSE IF op = "llmSetValue" THEN Finish("ok")
    ELSE Finish("error")

\* Fault: every attempt is taken for the first.
TryForEver ==
    /\ step' = "ask"
    /\ UNCHANGED <<goal, attempt, outcome>>

(***************************************************************************)
(* The end of an attempt that failed.  llmSetValue drops the error and     *)
(* reports success, llmSendKeys has no retry, and llmText takes a text it  *)
(* could not read to be empty, which is no failure to retry.with.          *)
(***************************************************************************)
AttemptFails ==
    IF goal = "keys" THEN Finish("error")
    ELSE IF goal = "text" THEN Go("judge")
    ELSE IF attempt = MaxRetries THEN LastAttemptFailed
    ELSE /\ attempt' = attempt + 1 /\ step' = "ask"
         /\ UNCHANGED <<goal, outcome>>

\* The value is in: the next of a login, or the end.
ValueEntered ==
    /\ chosen' = [chosen EXCEPT ![goal] = element]
    /\ IF op = "llmSetValue" THEN Finish("ok")
       ELSE IF goal = "username" THEN NextGoal("password")
       ELSE NextGoal("click")

call == <<op, includeInvisible>>
page == <<field, submits, touched, strayed, touches>>

-----------------------------------------------------------------------------
(***************************************************************************)
(* llmProcessHtmlElements: the elements are collected, the model is asked, *)
(* and its answer reduced to one selector.                                 *)
(***************************************************************************)

AskFails ==
    /\ step = "ask"
    /\ AttemptFails
    /\ UNCHANGED <<call, element, chosen, expired, page>>

Ask(e) ==
    /\ step = "ask" /\ ~expired
    /\ element' = e
    /\ Go(CASE goal \in Values -> "ready"
            [] goal = "click" -> "click"
            [] goal = "keys" -> "keys"
            [] goal = "text" -> "read")
    /\ UNCHANGED <<call, chosen, expired, page>>

Present == element # NoElement /\ ~expired

-----------------------------------------------------------------------------
(***************************************************************************)
(* setValueOnControl.  Its three ways to enter a value, each of which may  *)
(* be cut short, and after each the check, if the caller wants any.        *)
(***************************************************************************)

Submits == submits' = (IF op = "llmLogin" THEN ~submits ELSE submits)

Typed(content, value) == IF content = "empty" THEN value ELSE "other"

\* Whatever happens to the value, the element has been written.
Writes(content) ==
    /\ field' = [field EXCEPT ![element] = content]
    /\ strayed' = IF goal = "password" THEN strayed \union {element} ELSE strayed
    /\ UNCHANGED <<submits, touched, touches>>

Ready ==
    /\ step = "ready"
    /\ \/ Present /\ Go("type")
       \/ AttemptFails
    /\ UNCHANGED <<call, element, chosen, expired, page>>

AfterType == IF op = "llmLogin" THEN Go("check1") /\ UNCHANGED chosen ELSE ValueEntered

(***************************************************************************)
(* Keys are typed into a field, wholly or in part.  A button keeps its     *)
(* label, but the click that comes first presses it, or a space among the  *)
(* keys.                                                                   *)
(***************************************************************************)
TypeInto ==
    /\ Present
    /\ IF element \in Buttons
       THEN Submits /\ UNCHANGED <<field, touched, strayed, touches>>
       ELSE Writes(Typed(field[element], goal)) \/ Writes("other")

\* Click and key events; without a click nothing is typed.
Type ==
    /\ step = "type"
    /\ TypeInto \/ UNCHANGED page
    /\ AfterType
    /\ UNCHANGED <<call, element, expired>>

SendKeys ==
    /\ step = "send"
    /\ TypeInto \/ UNCHANGED page
    /\ Go("check2")
    /\ UNCHANGED <<call, element, chosen, expired>>

SetValue ==
    /\ step = "set"
    /\ \/ Present /\ Writes(goal)
       \/ UNCHANGED page
    /\ Go("check3")
    /\ UNCHANGED <<call, element, chosen, expired>>

Checks == {"check1", "check2", "check3"}

\* Fault: the value is taken to be in if it cannot be read.
CheckPassesUnread ==
    /\ step \in Checks
    /\ ValueEntered
    /\ UNCHANGED <<call, element, expired, page>>

\* getElementValueBySelector: a value that cannot be read is not the one wanted.
CheckPasses ==
    /\ step \in Checks
    /\ Present /\ field[element] = goal
    /\ ValueEntered
    /\ UNCHANGED <<call, element, expired, page>>

CheckFails ==
    /\ step \in Checks
    /\ CASE step = "check1" -> Go("send")
         [] step = "check2" -> Go("set")
         [] step = "check3" -> AttemptFails
    /\ UNCHANGED <<call, element, chosen, expired, page>>

-----------------------------------------------------------------------------
(***************************************************************************)
(* llmFindAndClick, and what llmLogin does with and after it.  A click may *)
(* have reached the page even where it failed.  The query that logs the    *)
(* button's position waits for the button to be visible, and has no        *)
(* timeout of its own: where includeInvisible has not scrolled to the      *)
(* choice, with a timeout, only the operation's end gets past one that is  *)
(* not on the page.                                                        *)
(***************************************************************************)

ClickReaches ==
    /\ Present
    /\ IF element \in Buttons THEN Submits ELSE UNCHANGED submits
    /\ UNCHANGED <<field, touched, strayed, touches>>

Click ==
    /\ step = "click"
    /\ \/ /\ ClickReaches
          /\ \/ IF op = "llmLogin" THEN Go("body") ELSE Finish("ok")
             \/ AttemptFails
       \/ /\ Present \/ expired \/ includeInvisible
          /\ AttemptFails /\ UNCHANGED page
    /\ UNCHANGED <<call, element, chosen, expired>>

\* ENTER in the password field; if that fails, in the username field.  Not every
\* field submits its form for it.
Enter ==
    /\ step = "enter"
    /\ \/ /\ ~expired /\ (Submits \/ UNCHANGED submits)
          /\ UNCHANGED <<field, touched, strayed, touches>>
          /\ Go("body") \/ Finish("error")
       \/ UNCHANGED page /\ Finish("error")
    /\ UNCHANGED <<call, element, chosen, expired>>

WaitBody ==
    /\ step = "body"
    /\ (~expired /\ Finish("ok")) \/ Finish("error")
    /\ UNCHANGED <<call, element, chosen, expired, page>>

-----------------------------------------------------------------------------
(***************************************************************************)
(* llmSendKeys and llmText.                                                *)
(***************************************************************************)

TypeKeys ==
    /\ step = "keys"
    /\ \/ /\ Present /\ (IF element \in Buttons THEN UNCHANGED page ELSE Writes("other"))
          /\ Finish("ok") \/ Finish("error")
       \/ UNCHANGED page /\ Finish("error")
    /\ UNCHANGED <<call, element, chosen, expired>>

ReadText ==
    /\ step = "read"
    /\ Go("judge")
    /\ UNCHANGED <<call, element, chosen, expired, page>>

\* The model is asked again whether the text is about what was wanted.  It is
\* only an error if there is no model to ask.
Judge ==
    /\ step = "judge"
    /\ Finish("ok") \/ Finish("error")
    /\ UNCHANGED <<call, element, chosen, expired, page>>

-----------------------------------------------------------------------------
(***************************************************************************)
(* Surroundings.                                                           *)
(***************************************************************************)

Touch(e, content) ==
    /\ touches < MaxTouches /\ field[e] # content
    /\ field' = [field EXCEPT ![e] = content]
    /\ touches' = touches + 1
    /\ touched' = touched \union {e}
    /\ UNCHANGED <<call, goal, step, attempt, element, chosen, expired, submits, outcome, strayed>>

Expire ==
    /\ ~expired /\ step # "done"
    /\ expired' = TRUE
    /\ UNCHANGED <<call, goal, step, attempt, element, chosen, outcome, page>>

Act ==
    \/ AskFails
    \/ \E e \in Elements \union {NoElement} : Ask(e)
    \/ Ready \/ Type \/ SendKeys \/ SetValue
    \/ CheckPasses \/ CheckFails
    \/ Click \/ Enter \/ WaitBody
    \/ TypeKeys \/ ReadText \/ Judge

Next ==
    \/ Act
    \/ \E e \in Elements : \E c \in {"empty", "other"} : Touch(e, c)
    \/ Expire

(***************************************************************************)
(* A goroutine that can run does, and every operation on the page and      *)
(* every request to the model ends, by its own timeout or the operation's, *)
(* which every operation has (browser.go:1020).                            *)
(***************************************************************************)
Spec == Init /\ [][Next]_vars /\ WF_vars(Act) /\ WF_vars(Expire)

-----------------------------------------------------------------------------
(***************************************************************************)
(* What a login leaves in the field it chose for the value v: the value,   *)
(* unless the page rewrote the field or the password was also written to   *)
(* it, by an attempt with another choice.                                  *)
(***************************************************************************)
Holds(v) ==
    \/ field[chosen[v]] = v
    \/ chosen[v] \in touched
    \/ v = "username" /\ chosen[v] \in strayed

(***************************************************************************)
(* llmLogin submits nothing before both values have been read back from    *)
(* the fields that the model chose, and they are still there then, but for *)
(* what Holds allows, unless the model took a button for the field that a  *)
(* value was to be entered in: keys that were typed into the wrong field,  *)
(* half a value, or a value that no check has seen are submitted in that   *)
(* case alone (browser.go:2241-2262, 2442-2527).                           *)
(***************************************************************************)
ButtonTakenForField == goal \in Values /\ element \in Buttons

SubmitNeedsBoth ==
    [][submits' # submits =>
        \/ ButtonTakenForField
        \/ \A v \in Values : chosen[v] # NoElement /\ Holds(v)]_vars

(***************************************************************************)
(* However often the model is wrong and the page fails, an action ends:    *)
(* its attempts are counted, and what waits without a timeout of its own   *)
(* is ended by the operation's (browser.go:2364, 2382, 2531).              *)
(***************************************************************************)
ActionEnds == <>(step = "done")
=============================================================================
