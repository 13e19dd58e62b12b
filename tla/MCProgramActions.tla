------------------------- MODULE MCProgramActions -------------------------
(* One call of each class of actions, with the options that matter to it. *)
EXTENDS ProgramActions

Timeout(t) == [kind |-> "timeout", value |-> t]
Idle == [kind |-> "waitForNetworkIdle", value |-> 1]
C(action, opts, duration) == [action |-> action, opts |-> opts, duration |-> duration]

MCCalls ==
    {C("navigate", <<>>, 0), C("click", <<Timeout(3), Idle>>, 0), C("innerHtml", <<>>, 0),
     C("sleep", <<Timeout(1)>>, 3), C("sleep", <<>>, 0), C("waitForText", <<Timeout(3)>>, 0),
     C("waitFileDownload", <<Timeout(1), Idle>>, 3), C("getInnerText", <<>>, 0),
     C("getValue", <<>>, 0), C("readability", <<>>, 0), C("waitReadabilityContent", <<>>, 0),
     C("waitForNetworkIdle", <<Timeout(0)>>, 0)}

MCMessageOptions ==
    {[operationTimeout |-> 0, errOnTimeout |-> TRUE],
     [operationTimeout |-> 1, errOnTimeout |-> FALSE]}

\* A sleep longer than the default timeout, and an action beside it.
MCSleeps == {C("sleep", <<>>, 3), C("click", <<>>, 0)}

MCSilent == {[operationTimeout |-> 0, errOnTimeout |-> FALSE]}
=============================================================================
