------------------------------- MODULE Greedy -------------------------------
(***************************************************************************)
(* What mtp_generate promises to whoever called it: the tokens reported    *)
(* are, one after the other, those greedy decoding of the main model gives *)
(* after the prompt.  A request may report several at a time, and may end  *)
(* at any point (max_tokens, a stop, an error).                            *)
(***************************************************************************)
EXTENDS Naturals, Sequences

CONSTANTS Tokens, Argmax(_), MaxTokens

VARIABLES prompt, out       \* both empty between requests

Idle == prompt = <<>> /\ out = <<>>

GreedyRun(p, s) == \A i \in DOMAIN s : s[i] = Argmax(p \o SubSeq(s, 1, i - 1))

Init == Idle

Ask ==
    /\ Idle
    /\ prompt' \in Seq(Tokens) \ {<<>>}
    /\ out' = <<Argmax(prompt')>>

Report ==
    /\ ~Idle
    /\ \E n \in 1..(MaxTokens - Len(out)) : \E more \in [1..n -> Tokens] :
          /\ out' = out \o more
          /\ GreedyRun(prompt, out')
    /\ UNCHANGED prompt

End ==
    /\ ~Idle
    /\ prompt' = <<>> /\ out' = <<>>

Next == Ask \/ Report \/ End
Spec == Init /\ [][Next]_<<prompt, out>>
=============================================================================
