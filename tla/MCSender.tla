------------------------------ MODULE MCSender ------------------------------
(* Sender with room for six bytes and answers of up to eight.               *)
EXTENDS Sender

MCAnswers == {a \in [len : 1..8, mark : 1..9] : a.mark >= a.len - 1 /\ a.mark <= a.len + 1}
=============================================================================
