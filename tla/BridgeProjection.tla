-------------------------- MODULE BridgeProjection --------------------------
(***************************************************************************)
(* The bridge: events of a conversation arrive in a durable inbox          *)
(* (bridge/inbox.py), a projector turns them into the messages of a        *)
(* session (bridge/projector.py, sessions/store.py) and, every few turns   *)
(* or at a checkpoint, has the session reviewed for memory and procedure   *)
(* candidates (reflection/coordinator.py, state.py, conversation_review.py).*)
(*                                                                         *)
(* The callers are servers (tools/bridge_server.py, tools/serve_laos.py)   *)
(* that share one state directory.  A server, when it starts, requeues     *)
(* what was being processed (recovery.py) and drains the inbox; for each   *)
(* event it receives, it ingests the event and drains the inbox.  The      *)
(* inbox, the sessions, the review counters and the candidates live in     *)
(* four different stores: every step below is one transaction on one of    *)
(* them, and a server may be killed between any two.                       *)
(*                                                                         *)
(* Abstractions.  Two events never carry the same message and version (the *)
(* inbox refuses the second).  A final row is never changed, so it stands  *)
(* for the copy that claim_next returns.  A review proposes at most one    *)
(* memory and one procedure.  drain's limit of 100 events is not reached.  *)
(* Every server has its own scope mapping, so one may refuse what another  *)
(* one projects.                                                           *)
(***************************************************************************)
EXTENDS Naturals, Sequences, FiniteSets

CONSTANTS
  Events, Sessions,
  Names,      \* ids of messages
  Texts,      \* contents of messages
  About,      \* kind, session, message and parent message of each event
  None,       \* no parent, no text, no event
  Contested,  \* sessions that the scope mapping of some server refuses
  Restricted, \* sessions that must not be reviewed
  Tools,      \* the tool iterations each event reports
  Interval,   \* how many turns, and tool iterations, make a review due
  Procs,      \* servers
  RecoverAlone, \* TRUE: a server that starts finds no other one projecting
  Outages,      \* TRUE: database operations may fail
  MaxAttempts,  \* attempts before a failing event is given up (5 in the code)
  MaxClaims, MaxCrashes \* bounds of the model

Topics == {"memory", "skills"}
Kinds == {"user", "assistant", "checkpoint"}

ASSUME AboutAssumption ==
  /\ About \in [Events -> [kind : Kinds, session : Sessions,
                            message : Names, parent : Names \cup {None}]]
  \* A checkpoint has no parent, and is nobody's parent.
  /\ \A e, f \in Events : About[e].kind = "checkpoint" =>
       About[e].parent = None /\ About[f].parent # About[e].message
ASSUME ReviewAssumption ==
  /\ Tools \in [Events -> Nat] /\ Interval \in [Topics -> Nat \ {0}]
  /\ Contested \subseteq Sessions /\ Restricted \subseteq Sessions
ASSUME SettingAssumption ==
  /\ None \notin Events \cup Texts
  /\ RecoverAlone \in BOOLEAN /\ Outages \in BOOLEAN
  /\ MaxAttempts \in Nat /\ MaxClaims \in Nat /\ MaxCrashes \in Nat

VARIABLES
  inbox,    \* bridge_events
  arrival,  \* the order of its rows
  sessions, \* sessions: not there, open or ended
  messages, \* the messages of each session, by ordinal
  counted,  \* review_events: the events whose turn was counted
  counters, \* review_state: turns and tool iterations since the last review
  reviewed, \* review_state: how many messages the last review of a topic saw
  made,     \* candidates and proposals created by the review of each event
  proc,     \* what each server is doing
  crashes

vars == <<inbox, arrival, sessions, messages, counted, counters, reviewed, made,
          proc, crashes>>
rows == <<inbox, arrival>>
store == <<sessions, messages>>
reviews == <<counted, counters, reviewed, made>>

Row == [status : {"absent", "captured", "queued", "processing", "processed", "failed"},
        text : Texts \cup {None}, final : BOOLEAN, attempts : Nat]
Message == [event : Events, text : Texts \cup {None}]
Points == {"idle", "draining", "claimed", "creating", "checking", "measuring",
           "appending", "history", "advancing", "deciding", "reviewing", "saving",
           "storing", "marking", "failing", "recording"}
\* The event a server projects and, as far as it has got: the ordinal or position
\* it read, the topics that are due, what the reviewer proposed, whether a failed
\* event is to be retried.
Local == [at : Points, event : Events \cup {None}, position : Nat,
          due : SUBSET Topics, todo : SUBSET Topics, retry : BOOLEAN]

Idle == [at |-> "idle", event |-> None, position |-> 0, due |-> {}, todo |-> {},
         retry |-> FALSE]
Draining == [Idle EXCEPT !.at = "draining"]

At(p, point) == proc[p].at = point
Goto(p, point) == proc' = [proc EXCEPT ![p].at = point]
Become(p, local) == proc' = [proc EXCEPT ![p] = local]
\* project raises; process_next will call mark_failed.
Fail(p, retry) == proc' = [proc EXCEPT ![p].at = "failing", ![p].retry = retry]

Event(p) == proc[p].event
Session(p) == About[proc[p].event].session
IsMessage(e) == About[e].kind # "checkpoint"
InSession(e) == \E i \in DOMAIN messages[About[e].session] :
                  messages[About[e].session][i].event = e

----------------------------------------------------------------------------
(* Delivery: an event may arrive again and again, as drafts and as final *)

Contents(e) == IF IsMessage(e) THEN Texts ELSE {None}
Versions(e) == IF IsMessage(e) THEN BOOLEAN ELSE {TRUE}
Arrived(final) == IF final THEN "queued" ELSE "captured"

IngestNew(p, e, text, final) ==
  /\ At(p, "idle")
  /\ inbox[e].status = "absent"
  /\ inbox' = [inbox EXCEPT ![e] = [status |-> Arrived(final), text |-> text,
                                    final |-> final, attempts |-> 0]]
  /\ arrival' = Append(arrival, e)
  /\ Become(p, Draining)
  /\ UNCHANGED <<store, reviews, crashes>>

\* The same content again, and not the first time as final: nothing changes.
Repeated(e, text, final) ==
  inbox[e].text = text /\ (inbox[e].final \/ ~final)

IngestDuplicate(p, e, text, final) ==
  /\ At(p, "idle")
  /\ inbox[e].status # "absent"
  /\ Repeated(e, text, final)
  /\ Become(p, Draining)
  /\ UNCHANGED <<rows, store, reviews, crashes>>

\* A fault: a final event takes another content.
IngestOverwrite(p, e, text, final) ==
  /\ At(p, "idle")
  /\ inbox[e].status \notin {"absent", "processing", "processed"}
  /\ ~Repeated(e, text, final)
  /\ inbox' = [inbox EXCEPT ![e].status = Arrived(final), ![e].text = text,
                            ![e].final = final]
  /\ Become(p, Draining)
  /\ UNCHANGED <<arrival, store, reviews, crashes>>

\* A draft gets its next content, or its final one; a final event is immutable.
IngestUpdate(p, e, text, final) ==
  /\ At(p, "idle")
  /\ inbox[e].status \notin {"absent", "processing", "processed"}
  /\ ~inbox[e].final
  /\ ~Repeated(e, text, final)
  /\ inbox' = [inbox EXCEPT ![e].status = Arrived(final), ![e].text = text,
                            ![e].final = final]
  /\ Become(p, Draining)
  /\ UNCHANGED <<arrival, store, reviews, crashes>>

\* A fault: a server that starts drains the inbox, and requeues nothing.
RecoverNothing(p) ==
  /\ At(p, "idle")
  /\ RecoverAlone => \A q \in Procs : At(q, "idle")
  /\ Become(p, Draining)
  /\ UNCHANGED <<rows, store, reviews, crashes>>

\* A server starts: recover_processing, then drain.  The code does not ask whether
\* another server is projecting.  MaxClaims only bounds the model.
Recover(p) ==
  /\ At(p, "idle")
  /\ RecoverAlone => \A q \in Procs : At(q, "idle")
  /\ \A e \in Events : inbox[e].status = "processing" => inbox[e].attempts < MaxClaims
  /\ inbox' = [e \in Events |->
       IF inbox[e].status = "processing" THEN [inbox[e] EXCEPT !.status = "queued"]
       ELSE inbox[e]]
  /\ Become(p, Draining)
  /\ UNCHANGED <<arrival, store, reviews, crashes>>

----------------------------------------------------------------------------
(* claim_next: the first queued event that does not wait for its parent *)

\* A fault: a parent need only have arrived.
ClaimableEarly(e) ==
  /\ inbox[e].status = "queued"
  /\ About[e].parent # None =>
       \E f \in Events : /\ About[f].session = About[e].session
                         /\ About[f].message = About[e].parent
                         /\ inbox[f].status # "absent"

Claimable(e) ==
  /\ inbox[e].status = "queued"
  /\ About[e].parent # None =>
       \E f \in Events : /\ About[f].session = About[e].session
                         /\ About[f].message = About[e].parent
                         /\ inbox[f].status = "processed"

Claim(p) ==
  /\ At(p, "draining")
  /\ \E i \in DOMAIN arrival :
       /\ Claimable(arrival[i])
       /\ \A j \in 1..(i - 1) : ~Claimable(arrival[j])
       /\ inbox' = [inbox EXCEPT ![arrival[i]].status = "processing",
                                 ![arrival[i]].attempts = @ + 1]
       /\ Become(p, [Idle EXCEPT !.at = "claimed", !.event = arrival[i]])
  /\ UNCHANGED <<arrival, store, reviews, crashes>>

EndDrain(p) ==
  /\ At(p, "draining")
  /\ \A e \in Events : ~Claimable(e)
  /\ Become(p, Idle)
  /\ UNCHANGED <<rows, store, reviews, crashes>>

----------------------------------------------------------------------------
(* SessionProjector.project: the session, then the message *)

\* What is projected once the session is there.
Content(p) == IF IsMessage(Event(p)) THEN "checking" ELSE "history"
\* What follows the message: a turn ends with the assistant's answer.
AfterMessage(p) == IF About[Event(p)].kind = "assistant" THEN "history" ELSE "marking"

EnsureSession(p) ==
  /\ At(p, "claimed")
  /\ Goto(p, IF sessions[Session(p)] = "none" THEN "creating" ELSE Content(p))
  /\ UNCHANGED <<rows, store, reviews, crashes>>

\* The account is not mapped to a scope (PermissionError), or the session has
\* another one (ValueError): such an event is not retried.
RefuseScope(p) ==
  /\ At(p, "claimed")
  /\ Session(p) \in Contested
  /\ Fail(p, FALSE)
  /\ UNCHANGED <<rows, store, reviews, crashes>>

CreateSession(p) ==
  /\ At(p, "creating")
  /\ sessions[Session(p)] = "none"
  /\ sessions' = [sessions EXCEPT ![Session(p)] = "open"]
  /\ Goto(p, Content(p))
  /\ UNCHANGED <<rows, messages, reviews, crashes>>

\* Another server created it meanwhile: the primary key refuses the second row.
SessionTaken(p) ==
  /\ At(p, "creating")
  /\ sessions[Session(p)] # "none"
  /\ Fail(p, TRUE)
  /\ UNCHANGED <<rows, store, reviews, crashes>>

\* A fault: a replayed event is not looked up in the session.
CheckNothing(p) ==
  /\ At(p, "checking")
  /\ Goto(p, "measuring")
  /\ UNCHANGED <<rows, store, reviews, crashes>>

\* _already_projected
CheckProjected(p) ==
  /\ At(p, "checking")
  /\ Goto(p, IF InSession(Event(p)) THEN AfterMessage(p) ELSE "measuring")
  /\ UNCHANGED <<rows, store, reviews, crashes>>

\* SessionStore.append reads the next ordinal, then inserts the message.
MeasureSession(p) ==
  /\ At(p, "measuring")
  /\ sessions[Session(p)] = "open"
  /\ proc' = [proc EXCEPT ![p].at = "appending",
                          ![p].position = Len(messages[Session(p)]) + 1]
  /\ UNCHANGED <<rows, store, reviews, crashes>>

RefuseEnded(p) ==
  /\ At(p, "measuring")
  /\ sessions[Session(p)] # "open"
  /\ Fail(p, FALSE)
  /\ UNCHANGED <<rows, store, reviews, crashes>>

AppendMessage(p) ==
  /\ At(p, "appending")
  /\ proc[p].position = Len(messages[Session(p)]) + 1
  /\ messages' = [messages EXCEPT ![Session(p)] =
                    Append(@, [event |-> Event(p), text |-> inbox[Event(p)].text])]
  /\ Goto(p, AfterMessage(p))
  /\ UNCHANGED <<rows, sessions, reviews, crashes>>

\* A fault: the ordinal's unique index refuses the message, and nobody notices.
OrdinalIgnored(p) ==
  /\ At(p, "appending")
  /\ proc[p].position # Len(messages[Session(p)]) + 1
  /\ Goto(p, AfterMessage(p))
  /\ UNCHANGED <<rows, store, reviews, crashes>>

\* Another server took the ordinal: UNIQUE(session_id, ordinal).
OrdinalTaken(p) ==
  /\ At(p, "appending")
  /\ proc[p].position # Len(messages[Session(p)]) + 1
  /\ Fail(p, TRUE)
  /\ UNCHANGED <<rows, store, reviews, crashes>>

----------------------------------------------------------------------------
(* The review: SessionProjector._review, ConversationReviewCoordinator *)

\* Turns and tool iterations that an event adds; a checkpoint adds none.
Increment(e) ==
  [k \in Topics |-> IF About[e].kind = "checkpoint" THEN 0
                    ELSE IF k = "memory" THEN 1 ELSE Tools[e]]

\* An empty session and a restricted one are not reviewed.
ReadHistory(p) ==
  LET seen == Len(messages[Session(p)])
  IN /\ At(p, "history")
     /\ proc' = [proc EXCEPT ![p].position = seen,
          ![p].at = IF seen = 0 \/ Session(p) \in Restricted THEN "marking"
                    ELSE "advancing"]
     /\ UNCHANGED <<rows, store, reviews, crashes>>

\* ReviewStateStore.advance: an event is counted the first time only.
Advance(p) ==
  LET s == Session(p)
  IN /\ At(p, "advancing")
     /\ counted' = counted \cup {Event(p)}
     /\ counters' = IF Event(p) \in counted THEN counters
                    ELSE [counters EXCEPT ![s] =
                           [k \in Topics |-> @[k] + Increment(Event(p))[k]]]
     /\ Goto(p, "deciding")
     /\ UNCHANGED <<rows, store, reviewed, made, crashes>>

\* A checkpoint forces the review of what was not seen yet; a turn waits for the
\* thresholds.  The counters are read again after the transaction that changed them.
Due(p) ==
  LET s == Session(p)
  IN IF About[Event(p)].kind = "checkpoint"
     THEN {k \in Topics : reviewed[s][k] < proc[p].position}
     ELSE {k \in Topics : counters[s][k] >= Interval[k]}

Decide(p) ==
  /\ At(p, "deciding")
  /\ proc' = [proc EXCEPT ![p].due = Due(p),
                          ![p].at = IF Due(p) = {} THEN "marking" ELSE "reviewing"]
  /\ UNCHANGED <<rows, store, reviews, crashes>>

\* The model answers; whatever it proposes is saved.
Review(p, proposals) ==
  /\ At(p, "reviewing")
  /\ proc' = [proc EXCEPT ![p].todo = proposals, ![p].at = "saving"]
  /\ UNCHANGED <<rows, store, reviews, crashes>>

\* The model, the parser or a store raises: the failure is recorded, and the event
\* counts as projected.
ReviewFails(p) ==
  /\ proc[p].at \in {"reviewing", "saving", "storing"}
  /\ Goto(p, "marking")
  /\ UNCHANGED <<rows, store, reviews, crashes>>

\* A fault: the memory candidate of an earlier attempt is not looked up.
FindNothing(p) ==
  /\ At(p, "saving")
  /\ "memory" \in proc[p].todo
  /\ Goto(p, "storing")
  /\ UNCHANGED <<rows, store, reviews, crashes>>

\* find_candidate_by_source_id: an earlier attempt may have created the candidate.
FindCandidate(p) ==
  /\ At(p, "saving")
  /\ "memory" \in proc[p].todo
  /\ IF made[Event(p)]["memory"] > 0
     THEN proc' = [proc EXCEPT ![p].todo = @ \ {"memory"}]
     ELSE Goto(p, "storing")
  /\ UNCHANGED <<rows, store, reviews, crashes>>

CreateCandidate(p) ==
  /\ At(p, "storing")
  /\ made' = [made EXCEPT ![Event(p)]["memory"] = @ + 1]
  /\ proc' = [proc EXCEPT ![p].at = "saving", ![p].todo = @ \ {"memory"}]
  /\ UNCHANGED <<rows, store, counted, counters, reviewed, crashes>>

\* ProcedureProposalStore.create looks its review key up in the same transaction.
SaveProcedure(p) ==
  /\ At(p, "saving")
  /\ proc[p].todo = {"skills"}
  /\ made' = [made EXCEPT ![Event(p)]["skills"] = 1]
  /\ proc' = [proc EXCEPT ![p].todo = {}]
  /\ UNCHANGED <<rows, store, counted, counters, reviewed, crashes>>

\* ReviewStateStore.complete
Complete(p) ==
  LET s == Session(p)
  IN /\ At(p, "saving")
     /\ proc[p].todo = {}
     /\ counters' = [counters EXCEPT ![s] =
          [k \in Topics |-> IF k \in proc[p].due THEN 0 ELSE @[k]]]
     /\ reviewed' = [reviewed EXCEPT ![s] =
          [k \in Topics |-> IF k \in proc[p].due THEN proc[p].position ELSE @[k]]]
     /\ Goto(p, "marking")
     /\ UNCHANGED <<rows, store, counted, made, crashes>>

----------------------------------------------------------------------------
(* process_next: how an event ends *)

MarkProcessed(p) ==
  /\ At(p, "marking")
  /\ inbox[Event(p)].status = "processing"
  /\ inbox' = [inbox EXCEPT ![Event(p)].status = "processed"]
  /\ Become(p, Draining)
  /\ UNCHANGED <<arrival, store, reviews, crashes>>

\* A database error anywhere in project
ProjectRaises(p) ==
  /\ Outages
  /\ proc[p].at \in {"claimed", "creating", "checking", "measuring", "appending",
                     "history", "advancing", "deciding", "saving"}
  /\ Fail(p, TRUE)
  /\ UNCHANGED <<rows, store, reviews, crashes>>

\* mark_failed reads the event, and then writes what becomes of it.
ReadFailure(p) ==
  /\ At(p, "failing")
  /\ inbox[Event(p)].status = "processing"
  /\ proc' = [proc EXCEPT ![p].at = "recording",
       ![p].retry = @ /\ inbox[Event(p)].attempts < MaxAttempts]
  /\ UNCHANGED <<rows, store, reviews, crashes>>

\* A retry ends the drain: the event waits for the next one.
RecordFailure(p) ==
  /\ At(p, "recording")
  /\ inbox' = [inbox EXCEPT ![Event(p)].status =
                 IF proc[p].retry THEN "queued" ELSE "failed"]
  /\ Become(p, IF proc[p].retry THEN Idle ELSE Draining)
  /\ UNCHANGED <<arrival, store, reviews, crashes>>

\* Somebody requeued or finished the event meanwhile: drain raises.
MarkRefused(p) ==
  /\ proc[p].at \in {"marking", "failing"}
  /\ inbox[Event(p)].status # "processing"
  /\ Become(p, Idle)
  /\ UNCHANGED <<rows, store, reviews, crashes>>

----------------------------------------------------------------------------

EndSession(s) ==
  /\ sessions[s] = "open"
  /\ sessions' = [sessions EXCEPT ![s] = "ended"]
  /\ UNCHANGED <<rows, messages, reviews, proc, crashes>>

\* A server is killed, or an error escapes from claim_next, mark_processed or
\* mark_failed: an event it was projecting stays 'processing'.
Crash(p) ==
  /\ ~At(p, "idle")
  /\ crashes < MaxCrashes
  /\ crashes' = crashes + 1
  /\ Become(p, Idle)
  /\ UNCHANGED <<rows, store, reviews>>

----------------------------------------------------------------------------

Init ==
  /\ inbox = [e \in Events |-> [status |-> "absent", text |-> None, final |-> FALSE,
                                attempts |-> 0]]
  /\ arrival = << >>
  /\ sessions = [s \in Sessions |-> "none"]
  /\ messages = [s \in Sessions |-> << >>]
  /\ counted = {}
  /\ counters = [s \in Sessions |-> [k \in Topics |-> 0]]
  /\ reviewed = [s \in Sessions |-> [k \in Topics |-> 0]]
  /\ made = [e \in Events |-> [k \in Topics |-> 0]]
  /\ proc = [p \in Procs |-> Idle]
  /\ crashes = 0

Ingest(p) ==
  \E e \in Events : \E text \in Contents(e), final \in Versions(e) :
    \/ IngestNew(p, e, text, final)
    \/ IngestDuplicate(p, e, text, final)
    \/ IngestUpdate(p, e, text, final)

Project(p) ==
  \/ EnsureSession(p) \/ RefuseScope(p) \/ CreateSession(p) \/ SessionTaken(p)
  \/ CheckProjected(p) \/ MeasureSession(p) \/ RefuseEnded(p)
  \/ AppendMessage(p) \/ OrdinalTaken(p)

ReviewStep(p) ==
  \/ ReadHistory(p) \/ Advance(p) \/ Decide(p)
  \/ \E proposals \in SUBSET Topics : Review(p, proposals)
  \/ ReviewFails(p)
  \/ FindCandidate(p) \/ CreateCandidate(p) \/ SaveProcedure(p) \/ Complete(p)

\* What a server does by itself once it drains the inbox.
Step(p) ==
  \/ Claim(p) \/ EndDrain(p) \/ Project(p) \/ ReviewStep(p)
  \/ MarkProcessed(p) \/ ProjectRaises(p)
  \/ ReadFailure(p) \/ RecordFailure(p) \/ MarkRefused(p)

Next ==
  \/ \E p \in Procs : Ingest(p) \/ Recover(p) \/ Step(p) \/ Crash(p)
  \/ \E s \in Sessions : EndSession(s)

Spec == Init /\ [][Next]_vars

----------------------------------------------------------------------------
(* Properties *)

\* Every variable has its type.
TypeOK ==
  /\ inbox \in [Events -> Row]
  /\ arrival \in Seq(Events)
  /\ sessions \in [Sessions -> {"none", "open", "ended"}]
  /\ messages \in [Sessions -> Seq(Message)]
  /\ counted \subseteq Events
  /\ counters \in [Sessions -> [Topics -> Nat]]
  /\ reviewed \in [Sessions -> [Topics -> Nat]]
  /\ made \in [Events -> [Topics -> Nat]]
  /\ proc \in [Procs -> Local]
  /\ crashes \in Nat

\* "Project finalized bridge events into SessionStore exactly once": no event is in
\* its session twice, however often it is delivered, retried or recovered.
MessageOnce ==
  \A s \in Sessions : \A i, j \in DOMAIN messages[s] :
    messages[s][i].event = messages[s][j].event => i = j

\* A review that is repeated after a crash finds the candidates it created: there
\* is one for each thing it proposes.
CandidateOnce == \A e \in Events : \A k \in Topics : made[e][k] <= 1

\* Nothing is lost: an event is acknowledged only once its message is in its session,
\* even when servers requeue, fail and finish each other's events.
AcknowledgedLogged ==
  \A e \in Events : inbox[e].status = "processed" /\ IsMessage(e) => InSession(e)

\* A reply comes after a message it replies to, whichever servers project the two,
\* and whatever was requeued in between.
AfterParent ==
  \A s \in Sessions : \A i \in DOMAIN messages[s] :
    LET reply == About[messages[s][i].event]
    IN reply.parent # None =>
         \E j \in 1..(i - 1) : About[messages[s][j].event].message = reply.parent

Finals == {<<e, inbox[e].text>> : e \in {f \in Events : inbox[f].final}}
Acknowledged == {e \in Events : inbox[e].status = "processed"}

\* Seen through the final rows, the sessions and the processed rows, one server at
\* a time is the log the bridge promises to be: SessionProjector appends each message
\* once, and acknowledges it for good.
Log == INSTANCE SessionLog WITH
  final <- Finals, log <- messages, acknowledged <- Acknowledged, Once <- TRUE

ImplementsLog == Log!Spec

\* Whatever servers overlap, and requeue, fail or finish each other's events: what
\* they append to a session is still a final text, after its parent, and never taken
\* away or acknowledged before it is there.
Deliveries == INSTANCE SessionLog WITH
  final <- Finals, log <- messages, acknowledged <- Acknowledged, Once <- FALSE

ImplementsDeliveries == Deliveries!Spec

----------------------------------------------------------------------------
(* Progress.  A server that drains does so without waiting for anybody, and    *)
(* is started again from time to time: that an event left queued by a failed   *)
(* attempt or left processing by a crash is taken up again depends on it.      *)

FairSpec ==
  /\ Spec
  /\ \A p \in Procs : WF_vars(Step(p)) /\ SF_vars(Recover(p))

\* Every event that waits for nobody is projected or given up in the end.
EventSettled ==
  \A e \in Events :
    Claimable(e) ~> inbox[e].status \in {"processed", "failed"}

=============================================================================
