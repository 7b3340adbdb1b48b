----------------------------- MODULE SessionLog -----------------------------
(***************************************************************************)
(* What the bridge promises (docs/bridge_ingestion.md, "Guarantees", and   *)
(* bridge/projector.py), without queues, retries, processes or crashes:    *)
(* the final version of an event is fixed once; each message is appended   *)
(* to its session's log with its final text and after its parent, and only *)
(* then acknowledged.  Once says that this happens once and for good;      *)
(* without it a message may be appended again, and its acknowledgement be  *)
(* taken back, which is what is left when servers take each other's events.*)
(***************************************************************************)
EXTENDS Sequences

CONSTANTS
  Events, Sessions,
  Texts,  \* contents of messages
  About,  \* kind, session, message and parent message of each event
  None,   \* no parent, no text
  Once    \* each message once, and acknowledged for good

VARIABLES
  final,        \* events with their final text, once it is known
  log,          \* the messages of each session
  acknowledged  \* events that are done

vars == <<final, log, acknowledged>>

Logged(e) == \E i \in DOMAIN log[About[e].session] : log[About[e].session][i].event = e
IsMessage(e) == About[e].kind # "checkpoint"
Parents(e) == {f \in Events : /\ About[f].session = About[e].session
                              /\ About[f].message = About[e].parent}

Init == final = {} /\ log = [s \in Sessions |-> << >>] /\ acknowledged = {}

Finalize(e, text) ==
  /\ \A pair \in final : pair[1] # e
  /\ final' = final \cup {<<e, text>>}
  /\ UNCHANGED <<log, acknowledged>>

Deliver(e, text) ==
  /\ IsMessage(e) /\ <<e, text>> \in final
  /\ Once => ~Logged(e)
  /\ About[e].parent # None => \E f \in Parents(e) : Logged(f)
  /\ log' = [log EXCEPT ![About[e].session] =
               Append(@, [event |-> e, text |-> text])]
  /\ UNCHANGED <<final, acknowledged>>

Acknowledge(e) ==
  /\ IsMessage(e) => Logged(e)
  /\ acknowledged' = acknowledged \cup {e}
  /\ UNCHANGED <<final, log>>

Retract(e) ==
  /\ ~Once
  /\ acknowledged' = acknowledged \ {e}
  /\ UNCHANGED <<final, log>>

Next ==
  \E e \in Events :
    \/ \E text \in Texts \cup {None} : Finalize(e, text) \/ Deliver(e, text)
    \/ Acknowledge(e)
    \/ Retract(e)

Spec == Init /\ [][Next]_vars

=============================================================================
