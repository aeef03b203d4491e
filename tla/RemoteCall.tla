----------------------------- MODULE RemoteCall -----------------------------
(***************************************************************************)
(* What a request without payload promises, whichever it is: the server    *)
(* acts at most once, and what the client is told is what happened.        *)
(*                                                                         *)
(*   ok        the server did what was asked, and the answer is its answer *)
(*   refused   the server said no, and then it has changed nothing         *)
(*   failed    the client cannot know                                      *)
(***************************************************************************)
EXTENDS Naturals, Sequences

CONSTANTS Answers,   \* what a server may answer
          NoAnswer   \* none of them

VARIABLES status,    \* of the client's call
          effect,    \* what the server has done about it
          result,    \* its answer
          answer     \* the answer as the client reports it

vars == <<status, effect, result, answer>>

Init == /\ status = "running" /\ effect = "none"
        /\ result = NoAnswer /\ answer = NoAnswer

\* The request may also be served after its client gave up.
Act == /\ effect = "none"
       /\ \/ effect' = "done" /\ result' \in Answers
          \/ effect' = "refused" /\ result' = NoAnswer
       /\ UNCHANGED <<status, answer>>

Succeed == /\ status = "running" /\ effect = "done"
           /\ status' = "ok" /\ answer' = result
           /\ UNCHANGED <<effect, result>>

BeRefused == /\ status = "running" /\ effect = "refused"
             /\ status' = "refused"
             /\ UNCHANGED <<effect, result, answer>>

GiveUp == /\ status = "running"
          /\ status' = "failed"
          /\ UNCHANGED <<effect, result, answer>>

Return == Succeed \/ BeRefused \/ GiveUp

Spec == Init /\ [][Act \/ Return]_vars /\ WF_vars(Return)
=============================================================================
