---------------------------- MODULE MCLlmActions ----------------------------
(***************************************************************************)
(* Two fields and a button, the three attempts of the code, and one        *)
(* rewriting by the page.                                                  *)
(***************************************************************************)
EXTENDS LlmActions
CONSTANTS e1, e2, b1
MCElements == {e1, e2, b1}
MCButtons == {b1}
=============================================================================
