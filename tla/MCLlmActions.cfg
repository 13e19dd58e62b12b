SPECIFICATION Spec
CONSTANTS
    e1 = e1
    e2 = e2
    b1 = b1
    Elements <- MCElements
    Buttons <- MCButtons
    NoElement = NoElement
    MaxRetries = 3
    MaxTouches = 1
PROPERTY SubmitNeedsBoth
PROPERTY ActionEnds
\* The actions end.
CHECK_DEADLOCK FALSE
