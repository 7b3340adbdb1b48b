-------------------------- MODULE DecisionRegister --------------------------
(* What the learning chain and the human review store promise together: a    *)
(* request is opened once and for all, is decided once, or deferred and then *)
(* decided once, and no decision is ever changed or taken back.              *)
EXTENDS Sequences, Naturals

CONSTANTS Requests, Orders   \* requests for a decision; the decisions that may be taken

VARIABLES open, history

Init == open = {} /\ history = [q \in Requests |-> <<>>]

Open(q) == q \notin open /\ open' = open \cup {q} /\ UNCHANGED history

Decide(q, d) ==
  /\ q \in open
  /\ \/ history[q] = <<>> /\ d.seq = 1
     \/ /\ Len(history[q]) = 1 /\ history[q][1].action = "defer"
        /\ d.seq = 2 /\ d.action # "defer"
  /\ history' = [history EXCEPT ![q] = Append(@, d)]
  /\ UNCHANGED open

Next == \E q \in Requests : Open(q) \/ \E d \in Orders : Decide(q, d)

Spec == Init /\ [][Next]_<<open, history>>
=============================================================================
