------------------------ MODULE MCBridgeProjection ------------------------
(* Instances of BridgeProjection for TLC. *)
EXTENDS BridgeProjection, TLC

CONSTANTS user, answer, again, check, chat, m1, m2, m3, m4

event(kind, message, parent) ==
  [kind |-> kind, session |-> chat, message |-> message, parent |-> parent]

\* a question and its answer
Reply == user :> event("user", m1, None) @@ answer :> event("assistant", m2, m1)
\* two answers, which wait for nothing, and a checkpoint
TwoTurns == answer :> event("assistant", m2, None) @@ again :> event("assistant", m3, None)
              @@ check :> event("checkpoint", m4, None)
\* only one of the turns used a tool
OneTool == [e \in Events |-> IF e = answer THEN 1 ELSE 0]
Symmetric == Permutations(Procs) \cup Permutations(Texts)
Every == [k \in Topics |-> 1]
Intervals == [k \in Topics |-> IF k = "memory" THEN 2 ELSE 1]
=============================================================================
