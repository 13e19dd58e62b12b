--------------------------- MODULE DocumentService ---------------------------
(***************************************************************************)
(* What the document endpoints promise their clients, without formats,     *)
(* attempts, tools and pages: a request is answered once.  While it is     *)
(* worked on the service finds out which parts of the document toolchain   *)
(* it needs; it is done only where the build has them all, and refused as  *)
(* not implemented only where one is missing.  A document that the service *)
(* does not know for one is answered as it is, whatever it needs.  What    *)
(* was done without an error may be kept for a while, and a request is     *)
(* answered with what was kept for one like it, and for no other.          *)
(***************************************************************************)
CONSTANTS Proxies,   \* the proxies a request may name, by which requests differ
          Parts      \* the parts of the toolchain

VARIABLES state,     \* "idle", "working" or "answered"
          asked,     \* the proxy of the last request
          tools,     \* the parts this build has
          needed,    \* the parts the request needs, as far as is known
          known,     \* the service knows the document for what it is
          outcome,   \* how the request was answered
          kept       \* the requests whose answer is kept

serviceVars == <<state, asked, tools, needed, known, outcome, kept>>

Init ==
  /\ state = "idle" /\ asked \in Proxies
  /\ tools \subseteq Parts /\ needed \subseteq Parts /\ known \in BOOLEAN
  /\ outcome = "none"
  /\ kept = {}

Ask(p) ==
  /\ state # "working"
  /\ state' = "working" /\ asked' = p
  /\ needed' \in SUBSET Parts /\ known' \in BOOLEAN
  /\ outcome' = "none"
  /\ UNCHANGED <<tools, kept>>

\* The work goes on: a format is determined.
Learn ==
  /\ state = "working"
  /\ needed' \in SUBSET Parts /\ known' \in BOOLEAN
  /\ UNCHANGED <<state, asked, tools, outcome, kept>>

Answer(how) ==
  /\ state = "working"
  /\ state' = "answered" /\ outcome' = how
  /\ UNCHANGED <<asked, tools, needed, known>>

MayKeep == kept' \in {kept, kept \union {asked}}

Do == Answer("done") /\ known /\ needed \subseteq tools /\ MayKeep

Return == Answer("as it is") /\ ~known /\ MayKeep

\* The text was found, and could not be put into the markup that was wanted.
DoInPart == Answer("in part") /\ (known => needed \subseteq tools) /\ UNCHANGED kept

Recall == Answer("recalled") /\ asked \in kept /\ UNCHANGED kept

Refuse == Answer("refused") /\ known /\ ~(needed \subseteq tools) /\ UNCHANGED kept

Fail == Answer("failed") /\ UNCHANGED kept

\* An answer grows old.
Forget ==
  /\ kept' \in SUBSET kept
  /\ UNCHANGED <<state, asked, tools, needed, known, outcome>>

Next ==
  \/ \E p \in Proxies : Ask(p)
  \/ Learn \/ Do \/ Return \/ DoInPart \/ Recall \/ Refuse \/ Fail \/ Forget

Spec == Init /\ [][Next]_serviceVars
==============================================================================
