--------------------------- MODULE MC_BrowserSession ---------------------------
(* An instance of BrowserSession for TLC.                                    *)
EXTENDS BrowserSession

(* The shortest interview; MC_InterviewSession mixes the question types.     *)
TwoQuestions == {<<"written", "written">>}
=============================================================================
