------------------------- MODULE LlmActions_proofs -------------------------
(***************************************************************************)
(* Proofs about LlmActions, for any set of elements, any number of         *)
(* attempts and any number of rewritings by the page: type correctness,    *)
(* and that a login is submitted only when both values are where the model *)
(* wanted them.                                                            *)
(***************************************************************************)
EXTENDS LlmActions, TLAPS

\* The value v is in the field that was chosen for it.
Entered(v) == chosen[v] # NoElement /\ Holds(v)

\* The steps that belong to a goal are taken for no other.
StepFits ==
  /\ step \in {"ready", "type", "check1", "send", "check2", "set", "check3"} => goal \in Values
  /\ step = "click" => goal = "click"
  /\ step = "enter" => op = "llmLogin" /\ goal = "click"
  /\ step = "keys" => goal = "keys"

\* A login has come to a goal with all values before it entered.
LoginInOrder ==
  op = "llmLogin" =>
    /\ goal \in Values \union {"click"}
    /\ goal # "username" => Entered("username")
    /\ goal = "click" => Entered("password")

Inv == StepFits /\ LoginInOrder

IInv == TypeOK /\ Inv

-----------------------------------------------------------------------------
\* No attempt is made and nothing is chosen in the beginning.
LEMMA InitInv ==
  Init => IInv
<1> SUFFICES ASSUME Init PROVE IInv
  OBVIOUS
<1>1. TypeOK
  <2>1. goal \in Values \union {"click", "keys", "text"}
    BY DEF Init, Operations, Values, FirstGoal
  <2>2. field \in [Elements -> Contents]
    BY DEF Init, Contents
  <2>3. attempt \in 1 .. MaxRetries /\ touches \in 0 .. MaxTouches
    BY LlmAssumption DEF Init
  <2>4. step \in Steps /\ expired \in BOOLEAN /\ submits \in BOOLEAN
    BY DEF Init, Steps
  <2> QED BY <2>1, <2>2, <2>3, <2>4 DEF Init, TypeOK
<1>2. Inv
  BY DEF Init, Inv, StepFits, LoginInOrder, Values, FirstGoal
<1> QED BY <1>1, <1>2 DEF IInv

\* A field that is written still holds one of the contents.
LEMMA WritesType ==
  ASSUME TypeOK, Present, NEW c \in Contents, Writes(c)
  PROVE  /\ field' \in [Elements -> Contents]
         /\ strayed' \in SUBSET Elements
         /\ UNCHANGED <<submits, touched, touches>>
<1>1. element \in Elements
  BY DEF TypeOK, Present
<1> QED BY <1>1 DEF Writes, TypeOK

\* What is typed or set is one of the contents.
LEMMA FieldType ==
  ASSUME TypeOK, Present
  PROVE  /\ "other" \in Contents
         /\ goal \in Values => goal \in Contents /\ Typed(field[element], goal) \in Contents
BY DEF Contents, Values, Typed

\* Whatever a step does to the form, submits is a Boolean.
LEMMA SubmitsType ==
  ASSUME submits \in BOOLEAN, Submits \/ submits' = submits
  PROVE  submits' \in BOOLEAN
<1>1. submits' = submits \/ submits' = ~submits
  BY Zenon DEF Submits
<1> QED BY <1>1, Zenon

\* Keys leave fields with contents of theirs, in a field or on a button.
LEMMA TypeIntoType ==
  ASSUME TypeOK, goal \in Values, TypeInto \/ UNCHANGED page
  PROVE  /\ field' \in [Elements -> Contents]
         /\ strayed' \in SUBSET Elements
         /\ submits' \in BOOLEAN
         /\ UNCHANGED <<touched, touches>>
<1>1. submits \in BOOLEAN /\ field \in [Elements -> Contents] /\ strayed \in SUBSET Elements
  BY DEF TypeOK
<1>2. CASE UNCHANGED page
  BY <1>1, <1>2 DEF page
<1>3. CASE Present /\ Submits /\ UNCHANGED <<field, touched, strayed, touches>>
  <2>1. submits' \in BOOLEAN
    BY <1>1, <1>3, SubmitsType
  <2> QED BY <1>1, <1>3, <2>1
<1>4. CASE Present /\ \E c \in Contents : Writes(c)
  <2>1. PICK c \in Contents : Writes(c)
    BY <1>4
  <2>2. /\ field' \in [Elements -> Contents]
        /\ strayed' \in SUBSET Elements
        /\ UNCHANGED <<submits, touched, touches>>
    BY <1>4, <2>1, WritesType
  <2> QED BY <1>1, <2>2
<1>5. ASSUME TypeInto PROVE Present /\ (\/ Submits /\ UNCHANGED <<field, touched, strayed, touches>>
                                        \/ \E c \in Contents : Writes(c))
  BY <1>5, FieldType, Zenon DEF TypeInto
<1> QED BY <1>2, <1>3, <1>4, <1>5

\* An attempt that fails leads to another attempt, or to an end.
LEMMA FailType ==
  ASSUME TypeOK, AttemptFails
  PROVE  /\ goal' \in Values \union {"click", "keys", "text"} /\ step' \in Steps
         /\ attempt' \in 1 .. MaxRetries /\ outcome' \in {"none", "ok", "error"}
BY LlmAssumption
DEF AttemptFails, LastAttemptFailed, Finish, Go, TypeOK, Steps, Values

\* Every step keeps the types.
LEMMA TypeStep ==
  ASSUME TypeOK, StepFits, [Next]_vars
  PROVE  TypeOK'
<1>1. CASE AskFails
  BY <1>1, LlmAssumption
  DEF AskFails, AttemptFails, LastAttemptFailed, Finish, Go, page, call, TypeOK, Contents,
      Steps, Values
<1>2. ASSUME NEW e \in Elements \union {NoElement}, Ask(e) PROVE TypeOK'
  BY <1>2, LlmAssumption DEF Ask, Go, page, call, TypeOK, Contents, Steps, Values
<1>3. CASE Ready
  BY <1>3, LlmAssumption
  DEF Ready, Present, AttemptFails, LastAttemptFailed, Finish, Go, page, call, TypeOK,
      Contents, Steps, Values
<1>4. CASE Type
  <2>0. goal \in Values
    BY <1>4 DEF Type, StepFits
  <2>2. /\ field' \in [Elements -> Contents]
        /\ strayed' \in SUBSET Elements
        /\ submits' \in BOOLEAN
        /\ UNCHANGED <<touched, touches>>
    BY <1>4, <2>0, TypeIntoType DEF Type
  <2>3. AfterType /\ UNCHANGED <<call, element, expired>>
    BY <1>4 DEF Type
  <2>4. /\ step' \in Steps /\ goal' \in Values \union {"click", "keys", "text"}
        /\ attempt' \in 1 .. MaxRetries /\ outcome' \in {"none", "ok", "error"}
        /\ chosen' \in [Values -> Elements \union {NoElement}]
    BY <2>3, LlmAssumption
    DEF AfterType, ValueEntered, NextGoal, Finish, Go, TypeOK, Steps, Values
  <2> QED BY <2>2, <2>3, <2>4 DEF call, TypeOK
<1>5. CASE SendKeys
  <2>0. goal \in Values
    BY <1>5 DEF SendKeys, StepFits
  <2>2. /\ field' \in [Elements -> Contents]
        /\ strayed' \in SUBSET Elements
        /\ submits' \in BOOLEAN
        /\ UNCHANGED <<touched, touches>>
    BY <1>5, <2>0, TypeIntoType DEF SendKeys
  <2>3. /\ step' \in Steps /\ UNCHANGED <<goal, attempt, outcome, chosen>>
    BY <1>5 DEF SendKeys, Go, Steps
  <2> QED BY <1>5, <2>2, <2>3 DEF SendKeys, call, TypeOK
<1>6. CASE SetValue
  <2>0. goal \in Values
    BY <1>6 DEF SetValue, StepFits
  <2>1. ASSUME Present, NEW c \in Contents, Writes(c)
        PROVE  /\ field' \in [Elements -> Contents]
               /\ strayed' \in SUBSET Elements
               /\ UNCHANGED <<submits, touched, touches>>
    BY <2>1, WritesType
  <2>2. /\ field' \in [Elements -> Contents]
        /\ strayed' \in SUBSET Elements
        /\ UNCHANGED <<submits, touched, touches>>
    BY <1>6, <2>0, <2>1, FieldType DEF SetValue, page, call, TypeOK
  <2>3. /\ step' \in Steps /\ UNCHANGED <<goal, attempt, outcome, chosen>>
    BY <1>6 DEF SetValue, Go, Steps
  <2> QED BY <1>6, <2>2, <2>3 DEF SetValue, call, TypeOK
<1>7. CASE CheckPasses
  BY <1>7, LlmAssumption
  DEF CheckPasses, Checks, Present, ValueEntered, NextGoal, Finish, page, call, TypeOK,
      Contents, Steps, Values
<1>8. CASE CheckFails
  <2>1. /\ goal' \in Values \union {"click", "keys", "text"} /\ step' \in Steps
        /\ attempt' \in 1 .. MaxRetries /\ outcome' \in {"none", "ok", "error"}
    <3>1. Go("send") \/ Go("set") \/ AttemptFails
      BY <1>8 DEF CheckFails, Checks
    <3> QED BY <3>1, FailType DEF Go, TypeOK, Steps
  <2> QED BY <1>8, <2>1 DEF CheckFails, page, call, TypeOK
<1>9. CASE Click
  <2>1. submits' \in BOOLEAN
    BY <1>9, SubmitsType DEF Click, ClickReaches, page, TypeOK
  <2>2. /\ goal' \in Values \union {"click", "keys", "text"} /\ step' \in Steps
        /\ attempt' \in 1 .. MaxRetries /\ outcome' \in {"none", "ok", "error"}
    <3>1. Go("body") \/ Finish("ok") \/ AttemptFails
      BY <1>9 DEF Click
    <3> QED BY <3>1, FailType DEF Go, Finish, TypeOK, Steps
  <2> QED BY <1>9, <2>1, <2>2 DEF Click, ClickReaches, page, call, TypeOK
<1>10. CASE Enter
  <2>1. submits' \in BOOLEAN
    BY <1>10, SubmitsType DEF Enter, page, TypeOK
  <2>2. /\ goal' = goal /\ attempt' = attempt
        /\ step' \in Steps /\ outcome' \in {"none", "ok", "error"}
    BY <1>10 DEF Enter, Go, Finish, TypeOK, Steps
  <2> QED BY <1>10, <2>1, <2>2 DEF Enter, page, call, TypeOK
<1>11. CASE WaitBody
  BY <1>11, LlmAssumption DEF WaitBody, Finish, page, call, TypeOK, Contents, Steps, Values
<1>12. CASE TypeKeys
  BY <1>12, LlmAssumption
  DEF TypeKeys, Present, Writes, Finish, page, call, TypeOK, Contents, Steps, Values
<1>13. CASE ReadText
  BY <1>13, LlmAssumption DEF ReadText, Go, page, call, TypeOK, Contents, Steps, Values
<1>14. CASE Judge
  BY <1>14, LlmAssumption DEF Judge, Finish, page, call, TypeOK, Contents, Steps, Values
<1>15. ASSUME NEW e \in Elements, NEW c \in {"empty", "other"}, Touch(e, c) PROVE TypeOK'
  BY <1>15, LlmAssumption DEF Touch, call, TypeOK, Contents, Steps, Values
<1>16. CASE Expire
  BY <1>16, LlmAssumption DEF Expire, page, call, TypeOK, Contents, Steps, Values
<1>17. CASE UNCHANGED vars
  BY <1>17 DEF vars, TypeOK, Contents, Steps, Values
<1> QED BY <1>1, <1>2, <1>3, <1>4, <1>5, <1>6, <1>7, <1>8, <1>9, <1>10, <1>11, <1>12,
   <1>13, <1>14, <1>15, <1>16, <1>17
  DEF Next, Act

\* Every step is followed by one of the same goal, or by the first of the next.
LEMMA StepFitsStep ==
  ASSUME TypeOK, StepFits, [Next]_vars
  PROVE  StepFits'
<1>1. CASE AskFails
  BY <1>1
  DEF AskFails, AttemptFails, LastAttemptFailed, Finish, Go, page, call, TypeOK, Steps, Values,
      StepFits
<1>2. ASSUME NEW e \in Elements \union {NoElement}, Ask(e) PROVE StepFits'
  BY <1>2 DEF Ask, Go, page, call, TypeOK, Steps, Values, StepFits
<1>3. CASE Ready
  BY <1>3
  DEF Ready, Present, AttemptFails, LastAttemptFailed, Finish, Go, page, call, TypeOK, Steps,
      Values, StepFits
<1>4. CASE Type
  BY <1>4
  DEF Type, AfterType, ValueEntered, NextGoal, Finish, Go, call, TypeOK, Steps, Values,
      StepFits
<1>5. CASE SendKeys
  BY <1>5 DEF SendKeys, Go, call, Values, StepFits
<1>6. CASE SetValue
  BY <1>6 DEF SetValue, Writes, Present, Go, page, call, TypeOK, Steps, Values, StepFits
<1>7. CASE CheckPasses
  BY <1>7
  DEF CheckPasses, Checks, Present, ValueEntered, NextGoal, Finish, page, call, TypeOK, Steps,
      Values, StepFits
<1>8. CASE CheckFails
  BY <1>8
  DEF CheckFails, Checks, AttemptFails, LastAttemptFailed, Finish, Go, page, call, TypeOK,
      Steps, Values, StepFits
<1>9. CASE Click
  BY <1>9
  DEF Click, AttemptFails, LastAttemptFailed, Finish, Go, call, Values, StepFits
<1>10. CASE Enter
  BY <1>10 DEF Enter, Finish, Go, call, Values, StepFits
<1>11. CASE WaitBody
  BY <1>11 DEF WaitBody, Finish, page, call, TypeOK, Steps, Values, StepFits
<1>12. CASE TypeKeys
  BY <1>12 DEF TypeKeys, Present, Writes, Finish, page, call, TypeOK, Steps, Values, StepFits
<1>13. CASE ReadText
  BY <1>13 DEF ReadText, Go, page, call, TypeOK, Steps, Values, StepFits
<1>14. CASE Judge
  BY <1>14 DEF Judge, Finish, page, call, TypeOK, Steps, Values, StepFits
<1>15. ASSUME NEW e \in Elements, NEW c \in {"empty", "other"}, Touch(e, c) PROVE StepFits'
  BY <1>15 DEF Touch, call, TypeOK, Steps, Values, StepFits
<1>16. CASE Expire
  BY <1>16 DEF Expire, page, call, TypeOK, Steps, Values, StepFits
<1>17. CASE UNCHANGED vars
  BY <1>17 DEF vars, TypeOK, Steps, Values, StepFits
<1> QED BY <1>1, <1>2, <1>3, <1>4, <1>5, <1>6, <1>7, <1>8, <1>9, <1>10, <1>11, <1>12,
   <1>13, <1>14, <1>15, <1>16, <1>17
  DEF Next, Act

\* What has been entered stays where it is, but for the page and for an attempt at
\* the password that strays.
LEMMA LoginStep ==
  ASSUME TypeOK, Inv, [Next]_vars
  PROVE  LoginInOrder'
<1>1. CASE AskFails
  BY <1>1
  DEF AskFails, AttemptFails, LastAttemptFailed, Finish, Go, page, call, TypeOK, Contents,
      Steps, Values, Inv, StepFits, LoginInOrder, Entered, Holds
<1>2. ASSUME NEW e \in Elements \union {NoElement}, Ask(e) PROVE LoginInOrder'
  BY <1>2
  DEF Ask, Go, page, call, TypeOK, Contents, Steps, Values, Inv, StepFits, LoginInOrder,
      Entered, Holds
<1>3. CASE Ready
  BY <1>3
  DEF Ready, Present, AttemptFails, LastAttemptFailed, Finish, Go, page, call, TypeOK,
      Contents, Steps, Values, Inv, StepFits, LoginInOrder, Entered, Holds
<1>4. CASE Type
  <2>1. CASE UNCHANGED <<field, touched, strayed>>
    BY <1>4, <2>1
    DEF Type, AfterType, Go, Finish, ValueEntered, call, TypeOK, Values, Inv, StepFits,
        LoginInOrder, Entered, Holds
  <2>2. CASE Present /\ \E c : Writes(c)
    BY <1>4, <2>2
    DEF Type, AfterType, ValueEntered, NextGoal, Writes, Present, Finish, Go,
        call, TypeOK, Values, Inv, StepFits, LoginInOrder, Entered, Holds
  <2> QED BY <1>4, <2>1, <2>2 DEF Type, TypeInto, page
<1>5. CASE SendKeys
  <2>1. CASE UNCHANGED <<field, touched, strayed>>
    BY <1>5, <2>1 DEF SendKeys, Go, call, Inv, LoginInOrder, Entered, Holds
  <2>2. CASE Present /\ \E c : Writes(c)
    BY <1>5, <2>2
    DEF SendKeys, Writes, Present, Go, call, TypeOK, Values, Inv,
        StepFits, LoginInOrder, Entered, Holds
  <2> QED BY <1>5, <2>1, <2>2 DEF SendKeys, TypeInto, page
<1>6. CASE SetValue
  BY <1>6
  DEF SetValue, Writes, Present, Go, page, call, TypeOK, Contents, Steps, Values, Inv,
      StepFits, LoginInOrder, Entered, Holds
<1>7. CASE CheckPasses
  BY <1>7
  DEF CheckPasses, Checks, Present, ValueEntered, NextGoal, Finish, page, call, TypeOK,
      Contents, Steps, Values, Inv, StepFits, LoginInOrder, Entered, Holds
<1>8. CASE CheckFails
  BY <1>8
  DEF CheckFails, Checks, AttemptFails, LastAttemptFailed, Finish, Go, page, call, TypeOK,
      Contents, Steps, Values, Inv, StepFits, LoginInOrder, Entered, Holds
<1>9. CASE Click
  BY <1>9
  DEF Click, ClickReaches, Present, Submits, AttemptFails, LastAttemptFailed, Finish, Go, page, call, TypeOK,
      Contents, Steps, Values, Inv, StepFits, LoginInOrder, Entered, Holds
<1>10. CASE Enter
  BY <1>10
  DEF Enter, Submits, Finish, Go, page, call, TypeOK, Contents, Steps, Values, Inv, StepFits,
      LoginInOrder, Entered, Holds
<1>11. CASE WaitBody
  BY <1>11
  DEF WaitBody, Finish, page, call, TypeOK, Contents, Steps, Values, Inv, StepFits,
      LoginInOrder, Entered, Holds
<1>12. CASE TypeKeys
  BY <1>12
  DEF TypeKeys, Present, Writes, Finish, page, call, TypeOK, Contents, Steps, Values, Inv,
      StepFits, LoginInOrder, Entered, Holds
<1>13. CASE ReadText
  BY <1>13
  DEF ReadText, Go, page, call, TypeOK, Contents, Steps, Values, Inv, StepFits, LoginInOrder,
      Entered, Holds
<1>14. CASE Judge
  BY <1>14
  DEF Judge, Finish, page, call, TypeOK, Contents, Steps, Values, Inv, StepFits, LoginInOrder,
      Entered, Holds
<1>15. ASSUME NEW e \in Elements, NEW c \in {"empty", "other"}, Touch(e, c) PROVE LoginInOrder'
  BY <1>15
  DEF Touch, call, TypeOK, Contents, Steps, Values, Inv, StepFits, LoginInOrder, Entered, Holds
<1>16. CASE Expire
  BY <1>16
  DEF Expire, page, call, TypeOK, Contents, Steps, Values, Inv, StepFits, LoginInOrder,
      Entered, Holds
<1>17. CASE UNCHANGED vars
  BY <1>17
  DEF vars, TypeOK, Contents, Steps, Values, Inv, StepFits, LoginInOrder, Entered, Holds
<1> QED BY <1>1, <1>2, <1>3, <1>4, <1>5, <1>6, <1>7, <1>8, <1>9, <1>10, <1>11, <1>12,
   <1>13, <1>14, <1>15, <1>16, <1>17
  DEF Next, Act

\* The inductive invariant holds in every reachable state.
THEOREM LlmInvariant == Spec => []IInv
<1>1. IInv /\ [Next]_vars => IInv'
  BY TypeStep, StepFitsStep, LoginStep DEF IInv, Inv
<1> QED BY <1>1, InitInv, PTL DEF Spec

\* Type correctness of the actions that ask a language model.
THEOREM LlmTypeCorrect == Spec => []TypeOK
BY LlmInvariant, PTL DEF IInv

\* llmLogin submits the form only with the username and the password in the
\* fields chosen for them (browser.go:2260-2319, 2442-2527), or by the click on a
\* button that the model took for one of these fields (2461), for any elements,
\* buttons and attempts.
THEOREM LoginSubmitsBoth == Spec => SubmitNeedsBoth
<1>1. IInv /\ [Next]_vars =>
        [submits' # submits =>
            \/ ButtonTakenForField
            \/ \A v \in Values : chosen[v] # NoElement /\ Holds(v)]_vars
  <2> SUFFICES ASSUME IInv, [Next]_vars, submits' # submits
               PROVE  ButtonTakenForField \/ \A v \in Values : chosen[v] # NoElement /\ Holds(v)
    OBVIOUS
  <2>1. Type \/ SendKeys \/ Click \/ Enter
    BY
    DEF Next, Act, vars, page, AskFails, Ask, Ready, SetValue, CheckPasses, CheckFails,
        WaitBody, TypeKeys, ReadText, Judge, Touch, Expire, Writes
  <2>2. CASE Type \/ SendKeys
    <3>1. goal \in Values
      BY <2>2 DEF Type, SendKeys, IInv, Inv, StepFits
    <3>2. element \in Buttons
      BY <2>2 DEF Type, SendKeys, TypeInto, Writes, page
    <3> QED BY <3>1, <3>2 DEF ButtonTakenForField
  <2>3. CASE Click \/ Enter
    <3>1. op = "llmLogin"
      BY <2>3 DEF Click, ClickReaches, Enter, Submits, page
    <3>2. goal = "click"
      BY <2>3 DEF Click, Enter, IInv, Inv, StepFits
    <3> QED BY <3>1, <3>2 DEF IInv, Inv, LoginInOrder, Entered, Values
  <2> QED BY <2>1, <2>2, <2>3
<1> QED BY <1>1, LlmInvariant, PTL DEF Spec, SubmitNeedsBoth
=============================================================================
