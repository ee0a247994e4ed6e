---------------------------- MODULE PlainDecoder ----------------------------
(***************************************************************************)
(* What a greedy generation promises: from a prompt, the target's own next *)
(* token, over and over, until an end-of-generation id or the budget.      *)
(***************************************************************************)
EXTENDS Naturals, Sequences

CONSTANTS Eog, Target(_)

VARIABLES prompt, budget, out, running, ended

decoderVars == <<prompt, budget, out, running, ended>>

Begin == /\ ~running /\ running'
         /\ out' = <<>> /\ ended' = "none"

NextToken == Target(prompt \o out)

Step == /\ running /\ running' /\ Len(out) + 1 < budget
        /\ NextToken \notin Eog
        /\ out' = Append(out, NextToken)
        /\ UNCHANGED <<prompt, budget, ended>>

\* The last token of the budget, or the end the target chose.
Finish == /\ running /\ ~running' /\ ended' = "done"
          /\ \/ NextToken \in Eog /\ out' = out
             \/ /\ NextToken \notin Eog /\ Len(out) + 1 = budget
                /\ out' = Append(out, NextToken)
          /\ UNCHANGED <<prompt, budget>>

Stop == /\ running /\ ~running' /\ ended' \in {"dropped", "error"}
        /\ UNCHANGED <<prompt, budget, out>>

Next == Begin \/ Step \/ Finish \/ Stop
=============================================================================
