-------------------------- MODULE InterviewProtocol --------------------------
(***************************************************************************)
(* What an interview promises the candidate, without handlers, loaders or  *)
(* graphs: the questions come one at a time; an answer is graded, or       *)
(* visibly not graded; a question is left with a verdict that is good      *)
(* enough, or when the attempts are used up; and the interview closes when *)
(* the last of the planned questions has been graded.                      *)
(*                                                                         *)
(* InterviewSession is shown to implement it.                              *)
(***************************************************************************)
EXTENDS Naturals

CONSTANTS
  Totals,        \* how many questions an interview may have
  Verdicts,      \* what an answer may be found to be
  Failing,       \* the verdict one may not leave a question with
  NoVerdict,     \* there is none
  MaxAttempts    \* the attempts after which one may leave it all the same

VARIABLES screen, current, total, tries, verdict

protocol == <<screen, current, total, tries, verdict>>

Setup ==
  /\ screen = "setup"
  /\ current = 0 /\ total = 0 /\ tries = 0
  /\ verdict = NoVerdict

Start ==
  /\ screen = "setup"
  /\ screen' = "question"
  /\ total' \in Totals
  /\ UNCHANGED <<current, tries, verdict>>

(* An answer counts as an attempt whether its evaluation succeeds or not.    *)
Answer(v, next) ==
  /\ screen = "question"
  /\ tries' = tries + 1
  /\ verdict' = v
  /\ screen' = next
  /\ UNCHANGED <<current, total>>

Grade == \E v \in Verdicts : Answer(v, "feedback")
Fail  == Answer(NoVerdict, "question")

TryAgain ==
  /\ screen = "feedback"
  /\ tries < MaxAttempts
  /\ screen' = "question"
  /\ verdict' = NoVerdict
  /\ UNCHANGED <<current, total, tries>>

MayLeave ==
  /\ screen = "feedback"
  /\ verdict # Failing \/ tries >= MaxAttempts

Advance ==
  /\ MayLeave
  /\ current + 1 < total
  /\ screen' = "question"
  /\ current' = current + 1
  /\ tries' = 0
  /\ verdict' = NoVerdict
  /\ UNCHANGED total

Close ==
  /\ MayLeave
  /\ current + 1 = total
  /\ screen' = "closed"
  /\ UNCHANGED <<current, total, tries, verdict>>

Restart ==
  /\ screen = "closed"
  /\ screen' = "setup"
  /\ current' = 0 /\ total' = 0 /\ tries' = 0
  /\ verdict' = NoVerdict

ProtocolStep ==
  Start \/ Grade \/ Fail \/ TryAgain \/ Advance \/ Close \/ Restart

ProtocolSpec == Setup /\ [][ProtocolStep]_protocol
=============================================================================
