------------------------- MODULE MC_InterviewSession -------------------------
(* Instances of InterviewSession for TLC: the plans of an interview.         *)
EXTENDS InterviewSession

(* A written question before, after and next to an executed one, and a last  *)
(* question of either type.                                                  *)
ShortPlans == {<<"exec", "written", "written">>, <<"written", "exec", "exec">>}
=============================================================================
