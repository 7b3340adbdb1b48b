----------------------- MODULE BridgeProjectionProofs -----------------------
(***************************************************************************)
(* Theorems about BridgeProjection, for any events, servers and failures.  *)
(* They hold whenever servers start, and whatever they requeue, fail or    *)
(* finish of each other's events.  A message may then be appended twice,   *)
(* but an acknowledged one is never missing, a reply never precedes what   *)
(* it replies to (OrderInv), and the text of an event that is worked on is *)
(* settled (FinalInv): together, the bridge implements the SessionLog that *)
(* delivers at least once.                                                 *)
(***************************************************************************)
EXTENDS BridgeProjection, TLAPS

\* A server at one of these points has claimed an event.
Working == Points \ {"idle", "draining"}

EventKnown == \A p \in Procs : proc[p].at \in Working => proc[p].event \in Events

TypeInv == TypeOK /\ EventKnown

LEMMA IdleType ==
  /\ Idle \in Local /\ Draining \in Local
  /\ Idle.at \notin Working /\ Draining.at \notin Working
BY DEF Idle, Draining, Local, Points, Working

\* A step of server p whose writes have their types.
LEMMA WriteType ==
  ASSUME TypeInv, NEW p \in Procs, NEW new \in Local,
         new.at \in Working => new.event \in Events,
         proc' = [proc EXCEPT ![p] = new],
         inbox' \in [Events -> Row], arrival' \in Seq(Events),
         sessions' \in [Sessions -> {"none", "open", "ended"}],
         messages' \in [Sessions -> Seq(Message)],
         counted' \subseteq Events,
         counters' \in [Sessions -> [Topics -> Nat]],
         reviewed' \in [Sessions -> [Topics -> Nat]],
         made' \in [Events -> [Topics -> Nat]], crashes' \in Nat
  PROVE  TypeInv'
<1>1. proc \in [Procs -> Local]
  BY DEF TypeInv, TypeOK
<1>2. proc' \in [Procs -> Local]
  BY <1>1
<1>3. \A q \in Procs : proc'[q] = IF q = p THEN new ELSE proc[q]
  BY <1>1
<1>4. EventKnown'
  BY <1>3 DEF EventKnown, TypeInv
<1>5. TypeOK'
  BY <1>2 DEF TypeOK
<1>6. QED
  BY <1>4, <1>5 DEF TypeInv

LEMMA Types ==
  ASSUME TypeInv
  PROVE  /\ inbox \in [Events -> Row] /\ arrival \in Seq(Events)
         /\ sessions \in [Sessions -> {"none", "open", "ended"}]
         /\ messages \in [Sessions -> Seq(Message)]
         /\ counted \subseteq Events
         /\ counters \in [Sessions -> [Topics -> Nat]]
         /\ reviewed \in [Sessions -> [Topics -> Nat]]
         /\ made \in [Events -> [Topics -> Nat]]
         /\ proc \in [Procs -> Local] /\ crashes \in Nat
BY DEF TypeInv, TypeOK

\* A step that only moves server p.
LEMMA MoveType ==
  ASSUME TypeInv, NEW p \in Procs, NEW new \in Local,
         new.at \in Working => new.event \in Events,
         proc' = [proc EXCEPT ![p] = new],
         UNCHANGED <<rows, store, reviews, crashes>>
  PROVE  TypeInv'
BY Types, WriteType DEF rows, store, reviews

\* A server that works on an event, and the event's session.
LEMMA WorkingType ==
  ASSUME TypeInv, NEW p \in Procs, proc[p].at \in Working
  PROVE  /\ proc[p] \in Local /\ proc[p].event \in Events
         /\ About[proc[p].event].session \in Sessions
         /\ Event(p) = proc[p].event
         /\ Session(p) = About[proc[p].event].session
         /\ inbox[proc[p].event] \in Row
         /\ messages[Session(p)] \in Seq(Message)
         /\ Len(messages[Session(p)]) \in Nat
BY Types, AboutAssumption DEF TypeInv, EventKnown, Event, Session

LEMMA PointsOf ==
  /\ \A x \in {"claimed", "creating", "checking", "measuring", "appending", "history",
               "advancing", "deciding", "reviewing", "saving", "storing", "marking",
               "failing", "recording"} : x \in Working
  /\ Working \subseteq Points
BY DEF Working, Points

LEMMA TypeInit == Init => TypeInv
BY IdleType, AboutAssumption DEF Init, TypeInv, TypeOK, EventKnown, Row, Message, Topics

----------------------------------------------------------------------------
(* Types: delivery and claims *)

LEMMA RowType ==
  ASSUME NEW status \in {"captured", "queued", "processing", "processed", "failed"},
         NEW text \in Texts \cup {None}, NEW final \in BOOLEAN
  PROVE  [status |-> status, text |-> text, final |-> final, attempts |-> 0] \in Row
BY DEF Row

LEMMA ArrivalType ==
  ASSUME TypeInv, NEW i \in DOMAIN arrival
  PROVE  arrival[i] \in Events
BY Types

LEMMA IngestType ==
  ASSUME TypeInv, NEW p \in Procs, Ingest(p)
  PROVE  TypeInv'
<1> SUFFICES ASSUME NEW e \in Events, NEW text \in Contents(e), NEW final \in Versions(e),
                    \/ IngestNew(p, e, text, final)
                    \/ IngestDuplicate(p, e, text, final)
                    \/ IngestUpdate(p, e, text, final)
             PROVE  TypeInv'
  BY DEF Ingest
<1>1. text \in Texts \cup {None} /\ final \in BOOLEAN
  BY DEF Contents, Versions
<1>2. Arrived(final) \in {"queued", "captured"}
  BY DEF Arrived
<1>3. CASE IngestNew(p, e, text, final)
  <2>1. inbox' \in [Events -> Row]
    BY <1>1, <1>2, <1>3, RowType, Types DEF IngestNew
  <2>2. arrival' \in Seq(Events)
    BY <1>3, Types DEF IngestNew
  <2>3. proc' = [proc EXCEPT ![p] = Draining]
    BY <1>3 DEF IngestNew, Become
  <2>4. QED
    BY <1>3, <2>1, <2>2, <2>3, IdleType, Types, WriteType DEF IngestNew, store, reviews
<1>4. CASE IngestDuplicate(p, e, text, final)
  BY <1>4, IdleType, MoveType DEF IngestDuplicate, Become
<1>5. CASE IngestUpdate(p, e, text, final)
  <2> DEFINE row == [inbox[e] EXCEPT !.status = Arrived(final), !.text = text,
                                      !.final = final]
  <2>3. row \in Row
    BY <1>1, <1>2, Types, ZenonT(30) DEF Row
  <2>4. inbox' = [inbox EXCEPT ![e] = row]
    BY <1>5, Types DEF IngestUpdate
  <2> HIDE DEF row
  <2>1. inbox' \in [Events -> Row]
    BY <2>3, <2>4, Types
  <2>2. proc' = [proc EXCEPT ![p] = Draining]
    BY <1>5 DEF IngestUpdate, Become
  <2>5. QED
    BY <1>5, <2>1, <2>2, IdleType, Types, WriteType DEF IngestUpdate, store, reviews
<1>6. QED
  BY <1>3, <1>4, <1>5

LEMMA RecoverType ==
  ASSUME TypeInv, NEW p \in Procs, Recover(p)
  PROVE  TypeInv'
<1>1. inbox' \in [Events -> Row]
  BY Types, ZenonT(30) DEF Recover, Row
<1>2. proc' = [proc EXCEPT ![p] = Draining]
  BY DEF Recover, Become
<1>3. QED
  BY <1>1, <1>2, IdleType, Types, WriteType DEF Recover, store, reviews

LEMMA ClaimType ==
  ASSUME TypeInv, NEW p \in Procs, Claim(p)
  PROVE  TypeInv'
<1> PICK i \in DOMAIN arrival :
      /\ inbox' = [inbox EXCEPT ![arrival[i]].status = "processing",
                                ![arrival[i]].attempts = @ + 1]
      /\ Become(p, [Idle EXCEPT !.at = "claimed", !.event = arrival[i]])
  BY DEF Claim
<1> DEFINE new == [Idle EXCEPT !.at = "claimed", !.event = arrival[i]]
<1>1. arrival[i] \in Events
  BY ArrivalType
<1>2. inbox' \in [Events -> Row]
  BY <1>1, Types DEF Row
<1>3. new \in Local /\ new.event = arrival[i]
  BY <1>1 DEF Idle, Local, Points
<1>4. proc' = [proc EXCEPT ![p] = new]
  BY DEF Become
<1> HIDE DEF new
<1>5. QED
  BY <1>1, <1>2, <1>3, <1>4, Types, WriteType DEF Claim, store, reviews

----------------------------------------------------------------------------
(* Types: projection and review *)

\* A server that works on an event goes on, or raises; nothing else changes.
LEMMA GotoType ==
  ASSUME TypeInv, NEW p \in Procs, proc[p].at \in Working, NEW point \in Points,
         Goto(p, point), UNCHANGED <<rows, store, reviews, crashes>>
  PROVE  TypeInv'
<1> DEFINE new == [proc[p] EXCEPT !.at = point]
<1>1. new \in Local /\ new.event = proc[p].event
  BY WorkingType DEF Local
<1>2. proc' = [proc EXCEPT ![p] = new]
  BY DEF Goto
<1> HIDE DEF new
<1>3. QED
  BY <1>1, <1>2, WorkingType, MoveType

LEMMA FailType ==
  ASSUME TypeInv, NEW p \in Procs, proc[p].at \in Working, NEW retry \in BOOLEAN,
         Fail(p, retry), UNCHANGED <<rows, store, reviews, crashes>>
  PROVE  TypeInv'
<1> DEFINE new == [proc[p] EXCEPT !.at = "failing", !.retry = retry]
<1>1. new \in Local /\ new.event = proc[p].event
  BY WorkingType, PointsOf DEF Local
<1>2. proc' = [proc EXCEPT ![p] = new]
  BY Types DEF Fail
<1> HIDE DEF new
<1>3. QED
  BY <1>1, <1>2, WorkingType, MoveType

LEMMA ProjectType ==
  ASSUME TypeInv, NEW p \in Procs, Project(p)
  PROVE  TypeInv'
<1> DEFINE r == proc[p]
<1>1. r.at \in Working
  BY PointsOf DEF Project, EnsureSession, RefuseScope, CreateSession, SessionTaken,
     CheckProjected, MeasureSession, RefuseEnded, AppendMessage, OrdinalTaken, At
<1>2. /\ Content(p) \in Points /\ AfterMessage(p) \in Points
      /\ \A x \in {"creating", "measuring", "appending", "failing"} : x \in Points
  BY DEF Content, AfterMessage, Points
<1>3. r \in Local
  BY Types
<1>6. CASE EnsureSession(p)
  BY <1>1, <1>2, <1>6, GotoType DEF EnsureSession
<1>7. CASE RefuseScope(p) \/ SessionTaken(p) \/ RefuseEnded(p) \/ OrdinalTaken(p)
  BY <1>1, <1>7, FailType DEF RefuseScope, SessionTaken, RefuseEnded, OrdinalTaken
<1>8. CASE CheckProjected(p)
  BY <1>1, <1>2, <1>8, GotoType DEF CheckProjected
<1>9. CASE MeasureSession(p)
  <2> DEFINE new == [r EXCEPT !.at = "appending", !.position = Len(messages[Session(p)]) + 1]
  <2>1. Len(messages[Session(p)]) + 1 \in Nat
    BY <1>1, WorkingType
  <2>2. new \in Local /\ new.event = r.event
    BY <1>2, <1>3, <2>1 DEF Local
  <2>3. proc' = [proc EXCEPT ![p] = new]
    BY <1>9, Types DEF MeasureSession
  <2> HIDE DEF new
  <2>4. QED
    BY <1>1, <1>9, <2>2, <2>3, WorkingType, MoveType DEF MeasureSession
<1>10. CASE CreateSession(p)
  <2> DEFINE new == [r EXCEPT !.at = Content(p)]
  <2>1. new \in Local /\ new.event = r.event
    BY <1>2, <1>3 DEF Local
  <2>2. proc' = [proc EXCEPT ![p] = new]
    BY <1>10 DEF CreateSession, Goto
  <2>3. sessions' \in [Sessions -> {"none", "open", "ended"}]
    BY <1>10, Types DEF CreateSession
  <2> HIDE DEF new
  <2>4. QED
    BY <1>1, <1>10, <2>1, <2>2, <2>3, WorkingType, Types, WriteType
       DEF CreateSession, rows, reviews
<1>11. CASE AppendMessage(p)
  <2> DEFINE new == [r EXCEPT !.at = AfterMessage(p)]
             m == [event |-> Event(p), text |-> inbox[Event(p)].text]
  <2>1. new \in Local /\ new.event = r.event
    BY <1>2, <1>3 DEF Local
  <2>2. proc' = [proc EXCEPT ![p] = new]
    BY <1>11 DEF AppendMessage, Goto
  <2>3. m \in Message
    BY <1>1, WorkingType DEF Message, Row
  <2>4. messages' = [messages EXCEPT ![Session(p)] = Append(@, m)]
    BY <1>11 DEF AppendMessage
  <2> HIDE DEF m, new
  <2>5. messages' \in [Sessions -> Seq(Message)]
    <3>1. Session(p) \in Sessions /\ messages[Session(p)] \in Seq(Message)
      BY <1>1, WorkingType
    <3>2. Append(messages[Session(p)], m) \in Seq(Message)
      BY <2>3, <3>1
    <3>3. QED
      BY <2>4, <3>1, <3>2, Types
  <2>6. QED
    BY <1>1, <1>11, <2>1, <2>2, <2>5, WorkingType, Types, WriteType
       DEF AppendMessage, rows, reviews
<1>12. QED
  BY <1>6, <1>7, <1>8, <1>9, <1>10, <1>11 DEF Project

LEMMA ReviewType ==
  ASSUME TypeInv, NEW p \in Procs, ReviewStep(p)
  PROVE  TypeInv'
<1> DEFINE r == proc[p]
           s == Session(p)
<1>1. r.at \in Working
  BY PointsOf DEF ReviewStep, ReadHistory, Advance, Decide, Review, ReviewFails,
     FindCandidate, CreateCandidate, SaveProcedure, Complete, At
<1>2. /\ r \in Local /\ r.event \in Events /\ Event(p) = r.event /\ s \in Sessions
      /\ r.position \in Nat /\ r.todo \subseteq Topics
  BY <1>1, WorkingType DEF Local
<1>3. \A x \in {"marking", "advancing", "deciding", "reviewing", "saving", "storing"} :
        x \in Points
  BY DEF Points
<1>4. \A e \in Events : Increment(e) \in [Topics -> Nat]
  BY ReviewAssumption DEF Increment
<1>5. CASE ReadHistory(p)
  <2> DEFINE point == IF Len(messages[s]) = 0 \/ s \in Restricted THEN "marking"
                      ELSE "advancing"
             new == [r EXCEPT !.position = Len(messages[s]), !.at = point]
  <2>1. Len(messages[s]) \in Nat /\ point \in Points
    BY <1>1, <1>3, WorkingType
  <2>2. proc' = [proc EXCEPT ![p] = new]
    BY <1>5, Types DEF ReadHistory
  <2> HIDE DEF point
  <2>3. new \in Local /\ new.event = r.event
    BY <1>2, <2>1 DEF Local
  <2> HIDE DEF new
  <2>4. QED
    BY <1>2, <1>5, <2>2, <2>3, MoveType DEF ReadHistory
<1>6. CASE Advance(p)
  <2> DEFINE new == [r EXCEPT !.at = "deciding"]
             sum == [k \in Topics |-> counters[s][k] + Increment(Event(p))[k]]
  <2>1. new \in Local /\ new.event = r.event
    BY <1>2, <1>3 DEF Local
  <2>2. proc' = [proc EXCEPT ![p] = new]
    BY <1>6 DEF Advance, Goto
  <2>3. sum \in [Topics -> Nat]
    BY <1>2, <1>4, Types
  <2>4. counters' = counters \/ counters' = [counters EXCEPT ![s] = sum]
    BY <1>6 DEF Advance
  <2> HIDE DEF new, sum
  <2>5. counters' \in [Sessions -> [Topics -> Nat]]
    BY <1>2, <2>3, <2>4, Types
  <2>6. counted' \subseteq Events
    BY <1>2, <1>6, Types DEF Advance
  <2>7. QED
    BY <1>2, <1>6, <2>1, <2>2, <2>5, <2>6, Types, WriteType DEF Advance, rows, store
<1>7. CASE Decide(p)
  <2> DEFINE point == IF Due(p) = {} THEN "marking" ELSE "reviewing"
             new == [r EXCEPT !.due = Due(p), !.at = point]
  <2>1. Due(p) \in SUBSET Topics /\ point \in Points
    BY <1>3 DEF Due
  <2>2. proc' = [proc EXCEPT ![p] = new]
    BY <1>7, Types DEF Decide
  <2> HIDE DEF point
  <2>3. new \in Local /\ new.event = r.event
    BY <1>2, <2>1 DEF Local
  <2> HIDE DEF new
  <2>4. QED
    BY <1>2, <1>7, <2>2, <2>3, MoveType DEF Decide
<1>8. ASSUME NEW proposals \in SUBSET Topics, Review(p, proposals) PROVE TypeInv'
  <2> DEFINE new == [r EXCEPT !.todo = proposals, !.at = "saving"]
  <2>1. proc' = [proc EXCEPT ![p] = new]
    BY <1>8, Types DEF Review
  <2>2. new \in Local /\ new.event = r.event
    BY <1>2, <1>3 DEF Local
  <2> HIDE DEF new
  <2>3. QED
    BY <1>2, <1>8, <2>1, <2>2, MoveType DEF Review
<1>9. CASE ReviewFails(p)
  BY <1>1, <1>3, <1>9, GotoType DEF ReviewFails
<1>10. CASE FindCandidate(p)
  <2> DEFINE new == [r EXCEPT !.todo = @ \ {"memory"}]
  <2>1. CASE proc' = [proc EXCEPT ![p] = new]
    <3>1. new \in Local /\ new.event = r.event
      BY <1>2 DEF Local
    <3> HIDE DEF new
    <3>2. QED
      BY <1>2, <1>10, <2>1, <3>1, MoveType DEF FindCandidate
  <2>2. CASE Goto(p, "storing")
    BY <1>1, <1>3, <1>10, <2>2, GotoType DEF FindCandidate
  <2>3. QED
    BY <1>10, <2>1, <2>2 DEF FindCandidate
<1>11. CASE CreateCandidate(p)
  <2> DEFINE new == [r EXCEPT !.at = "saving", !.todo = @ \ {"memory"}]
  <2>1. new \in Local /\ new.event = r.event
    BY <1>2, <1>3 DEF Local
  <2>2. proc' = [proc EXCEPT ![p] = new]
    BY <1>11, Types DEF CreateCandidate
  <2>3. "memory" \in Topics /\ made[r.event]["memory"] + 1 \in Nat
    BY <1>2, Types DEF Topics
  <2>4. made' = [made EXCEPT ![r.event]["memory"] = made[r.event]["memory"] + 1]
    BY <1>2, <1>11, Types DEF CreateCandidate
  <2>5. made' \in [Events -> [Topics -> Nat]]
    BY <1>2, <2>3, <2>4, Types
  <2> HIDE DEF new
  <2>6. QED
    BY <1>2, <1>11, <2>1, <2>2, <2>5, Types, WriteType DEF CreateCandidate, rows, store
<1>12. CASE SaveProcedure(p)
  <2> DEFINE new == [r EXCEPT !.todo = {}]
  <2>1. new \in Local /\ new.event = r.event
    BY <1>2 DEF Local
  <2>2. proc' = [proc EXCEPT ![p] = new] /\ made' = [made EXCEPT ![r.event]["skills"] = 1]
    BY <1>2, <1>12 DEF SaveProcedure
  <2>3. made' \in [Events -> [Topics -> Nat]]
    BY <1>2, <2>2, Types DEF Topics
  <2> HIDE DEF new
  <2>4. QED
    BY <1>2, <1>12, <2>1, <2>2, <2>3, Types, WriteType DEF SaveProcedure, rows, store
<1>13. CASE Complete(p)
  <2> DEFINE new == [r EXCEPT !.at = "marking"]
             reset == [k \in Topics |-> IF k \in r.due THEN 0 ELSE counters[s][k]]
             seen == [k \in Topics |-> IF k \in r.due THEN r.position ELSE reviewed[s][k]]
  <2>1. new \in Local /\ new.event = r.event
    BY <1>2, <1>3 DEF Local
  <2>2. proc' = [proc EXCEPT ![p] = new]
    BY <1>13 DEF Complete, Goto
  <2>3. reset \in [Topics -> Nat] /\ seen \in [Topics -> Nat]
    BY <1>2, Types
  <2>4. /\ counters' = [counters EXCEPT ![s] = reset]
        /\ reviewed' = [reviewed EXCEPT ![s] = seen]
    BY <1>13 DEF Complete
  <2> HIDE DEF new, reset, seen
  <2>5. /\ counters' \in [Sessions -> [Topics -> Nat]]
        /\ reviewed' \in [Sessions -> [Topics -> Nat]]
    BY <1>2, <2>3, <2>4, Types
  <2>6. QED
    BY <1>2, <1>13, <2>1, <2>2, <2>5, Types, WriteType DEF Complete, rows, store
<1>14. QED
  BY <1>5, <1>6, <1>7, <1>8, <1>9, <1>10, <1>11, <1>12, <1>13 DEF ReviewStep

----------------------------------------------------------------------------
(* Types: how an event ends *)

LEMMA FinishType ==
  ASSUME TypeInv, NEW p \in Procs,
         \/ EndDrain(p) \/ MarkProcessed(p) \/ ProjectRaises(p) \/ ReadFailure(p)
         \/ RecordFailure(p) \/ MarkRefused(p) \/ Crash(p)
  PROVE  TypeInv'
<1> DEFINE r == proc[p]
<1>1. CASE EndDrain(p) \/ MarkRefused(p)
  BY <1>1, IdleType, MoveType DEF EndDrain, MarkRefused, Become
<1>2. CASE Crash(p)
  <2>1. crashes' \in Nat /\ proc' = [proc EXCEPT ![p] = Idle]
    BY <1>2, Types DEF Crash, Become
  <2>2. QED
    BY <1>2, <2>1, IdleType, Types, WriteType DEF Crash, rows, store, reviews
<1>3. CASE ProjectRaises(p)
  <2>1. r.at \in Working
    BY <1>3, PointsOf DEF ProjectRaises
  <2>2. QED
    BY <1>3, <2>1, FailType DEF ProjectRaises
<1>4. CASE MarkProcessed(p)
  <2>1. inbox' \in [Events -> Row]
    BY <1>4, Types, ZenonT(30) DEF MarkProcessed, Row
  <2>2. QED
    BY <1>4, <2>1, IdleType, Types, WriteType DEF MarkProcessed, Become, store, reviews
<1>5. CASE ReadFailure(p)
  <2> DEFINE retry == r.retry /\ inbox[Event(p)].attempts < MaxAttempts
             new == [r EXCEPT !.at = "recording", !.retry = retry]
  <2>1. r.at \in Working
    BY <1>5, PointsOf DEF ReadFailure, At
  <2>2. retry \in BOOLEAN
    OBVIOUS
  <2>3. proc' = [proc EXCEPT ![p] = new]
    BY <1>5, Types DEF ReadFailure
  <2> HIDE DEF retry
  <2>4. new \in Local /\ new.event = r.event
    BY <2>1, <2>2, WorkingType, PointsOf DEF Local
  <2> HIDE DEF new
  <2>5. QED
    BY <1>5, <2>1, <2>3, <2>4, WorkingType, MoveType DEF ReadFailure
<1>6. CASE RecordFailure(p)
  <2> DEFINE status == IF r.retry THEN "queued" ELSE "failed"
             new == IF r.retry THEN Idle ELSE Draining
  <2>1. inbox' \in [Events -> Row]
    <3>1. inbox' = [inbox EXCEPT ![Event(p)].status = status]
      BY <1>6 DEF RecordFailure
    <3>2. status \in {"queued", "failed"}
      OBVIOUS
    <3> HIDE DEF status
    <3>3. QED
      BY <3>1, <3>2, Types, ZenonT(30) DEF Row
  <2>2. new \in Local /\ new.at \notin Working
    BY IdleType
  <2>3. proc' = [proc EXCEPT ![p] = new]
    BY <1>6 DEF RecordFailure, Become
  <2> HIDE DEF new
  <2>4. QED
    BY <1>6, <2>1, <2>2, <2>3, Types, WriteType DEF RecordFailure, store, reviews
<1>7. QED
  BY <1>1, <1>2, <1>3, <1>4, <1>5, <1>6

LEMMA TypeStep ==
  ASSUME TypeInv, [Next]_vars
  PROVE  TypeInv'
<1>1. ASSUME NEW s \in Sessions, EndSession(s) PROVE TypeInv'
  <2>1. sessions' \in [Sessions -> {"none", "open", "ended"}]
    BY <1>1, Types DEF EndSession
  <2>2. QED
    BY <1>1, <2>1 DEF EndSession, TypeInv, TypeOK, EventKnown, rows, reviews
<1>2. CASE UNCHANGED vars
  BY <1>2 DEF vars, TypeInv, TypeOK, EventKnown
<1>3. QED
  BY <1>1, <1>2, IngestType, RecoverType, ClaimType, ProjectType, ReviewType, FinishType
     DEF Next, Step

\* Whatever the servers do and whatever fails, every table of the inbox, the
\* sessions and the reviews keeps its type.
THEOREM TypeCorrect == Spec => []TypeOK
<1>1. TypeInv => TypeOK
  BY DEF TypeInv
<1>2. QED
  BY <1>1, TypeInit, TypeStep, PTL DEF Spec
----------------------------------------------------------------------------
(* What servers know of the messages, whoever else works on their events *)

Logged == {e \in Events : InSession(e)}

\* Points after the message of an event: the review and the end.
After == {"history", "advancing", "deciding", "reviewing", "saving", "storing", "marking"}

\* The parent of an event is one of these.
ParentIn(e, logged) ==
  About[e].parent # None =>
    \E f \in logged : /\ About[f].session = About[e].session
                      /\ About[f].message = About[e].parent
LEMMA LoggedSame == ASSUME UNCHANGED messages PROVE Logged' = Logged
BY DEF Logged, InSession

\* What the insertion of a message changes.
LEMMA AppendEffect ==
  ASSUME TypeInv, NEW p \in Procs, AppendMessage(p)
  PROVE  LET e == proc[p].event
             s == About[e].session
             n == Len(messages[s])
         IN /\ proc[p].at \in Working /\ proc[p].at = "appending"
            /\ e \in Events /\ s \in Sessions /\ n \in Nat
            /\ DOMAIN messages[s] = 1..n /\ DOMAIN messages'[s] = 1..(n + 1)
            /\ messages'[s][n + 1].event = e
            /\ \A i \in 1..n : messages'[s][i] = messages[s][i]
            /\ \A x \in Sessions : x # s => messages'[x] = messages[x]
            /\ Logged' = Logged \cup {e}
<1> DEFINE e == proc[p].event
           s == Session(p)
           m == [event |-> Event(p), text |-> inbox[Event(p)].text]
           n == Len(messages[s])
<1>1. proc[p].at \in Working
  BY PointsOf DEF AppendMessage, At
<1>2. e \in Events /\ s = About[e].session /\ s \in Sessions
  BY <1>1, WorkingType
<1>3. messages[s] \in Seq(Message) /\ n \in Nat /\ m.event = e
  BY <1>1, WorkingType
<1>4. messages' = [messages EXCEPT ![s] = Append(messages[s], m)]
  BY DEF AppendMessage
<1>5. /\ DOMAIN messages[s] = 1..n
      /\ messages'[s] = Append(messages[s], m)
      /\ \A x \in Sessions : x # s => messages'[x] = messages[x]
  BY <1>2, <1>3, <1>4, Types
<1> HIDE DEF m
<1>6. /\ DOMAIN messages'[s] = 1..(n + 1)
      /\ messages'[s][n + 1].event = e
      /\ \A i \in 1..n : messages'[s][i] = messages[s][i]
  BY <1>3, <1>5
<1>7. \A f \in Events : InSession(f)' <=> InSession(f) \/ f = e
  <2> SUFFICES ASSUME NEW f \in Events PROVE InSession(f)' <=> InSession(f) \/ f = e
    OBVIOUS
  <2>1. About[f].session \in Sessions
    BY AboutAssumption
  <2>2. CASE About[f].session # s
    BY <1>2, <1>5, <2>1, <2>2 DEF InSession
  <2>3. CASE About[f].session = s
    <3>1. InSession(f) <=> \E i \in 1..n : messages[s][i].event = f
      BY <1>5, <2>3 DEF InSession
    <3>2. InSession(f)' <=> \E i \in 1..(n + 1) : messages'[s][i].event = f
      BY <1>6, <2>3 DEF InSession
    <3>3. QED
      BY <1>3, <1>6, <3>1, <3>2, SMTT(30)
  <2>4. QED
    BY <2>2, <2>3
<1>8. Logged' = Logged \cup {e}
  BY <1>2, <1>7 DEF Logged
<1>9. proc[p].at = "appending"
  BY DEF AppendMessage, At
<1>10. QED
  BY <1>1, <1>2, <1>3, <1>5, <1>6, <1>8, <1>9

\* A step of a review: the server goes on with its event, after its message.
LEMMA ReviewMoves ==
  ASSUME TypeInv, NEW p \in Procs, ReviewStep(p), TypeInv'
  PROVE  /\ proc[p].at \in Working /\ proc[p].at \in After
         /\ UNCHANGED <<inbox, messages>>
         /\ \E new \in Local :
              /\ proc' = [proc EXCEPT ![p] = new]
              /\ new.event = proc[p].event /\ new.at \in After
<1> DEFINE r == proc[p]
           new == proc'[p]
<1>1. r.at \in Working /\ r.at \in After
  BY PointsOf DEF ReviewStep, ReadHistory, Advance, Decide, Review, ReviewFails,
     FindCandidate, CreateCandidate, SaveProcedure, Complete, At, After
<1>2. r \in Local
  BY <1>1, WorkingType
<1>3. /\ proc' = [proc EXCEPT ![p] = new]
      /\ new.event = r.event /\ new.at \in After
  <2>1. CASE ReadHistory(p)
    BY <1>2, <2>1, Types DEF ReadHistory, Local, After
  <2>2. CASE Advance(p) \/ ReviewFails(p) \/ Complete(p)
    BY <1>2, <2>2, Types DEF Advance, ReviewFails, Complete, Goto, Local, After
  <2>3. CASE Decide(p)
    BY <1>2, <2>3, Types DEF Decide, Local, After
  <2>4. CASE \E proposals \in SUBSET Topics : Review(p, proposals)
    <3>1. PICK proposals \in SUBSET Topics : Review(p, proposals)
      BY <2>4
    <3>2. proc' = [proc EXCEPT ![p] = [r EXCEPT !.todo = proposals, !.at = "saving"]]
      BY <1>2, <3>1, Types DEF Review, Local
    <3>3. QED
      BY <1>2, <3>2, Types DEF Local, After
  <2>5. CASE FindCandidate(p)
    BY <1>1, <1>2, <2>5, Types DEF FindCandidate, Goto, Local, After
  <2>6. CASE CreateCandidate(p)
    BY <1>2, <2>6, Types DEF CreateCandidate, Local, After
  <2>7. CASE SaveProcedure(p)
    BY <1>1, <1>2, <2>7, Types DEF SaveProcedure, Local, After
  <2>8. QED
    BY <2>1, <2>2, <2>3, <2>4, <2>5, <2>6, <2>7 DEF ReviewStep
<1>4. UNCHANGED <<inbox, messages>>
  BY DEF ReviewStep, ReadHistory, Advance, Decide, Review, ReviewFails, FindCandidate,
     CreateCandidate, SaveProcedure, Complete, rows, store
<1>5. new \in Local
  BY DEF TypeInv, TypeOK
<1>6. QED
  BY <1>1, <1>3, <1>4, <1>5

\* What a server whose record is r knows even when others work on its event: the
\* messages are never removed.
Learnt(r, logged) ==
  /\ ParentIn(r.event, logged)
  /\ r.at \in {"checking", "measuring", "appending"} => IsMessage(r.event)
  /\ r.at \in After /\ IsMessage(r.event) => r.event \in logged

AllLearnt == \A p \in Procs : proc[p].at \in Working => Learnt(proc[p], Logged)

OrderInv == AllLearnt /\ AcknowledgedLogged /\ AfterParent

LEMMA OrderParts ==
  ASSUME OrderInv
  PROVE  AllLearnt /\ AcknowledgedLogged /\ AfterParent
BY DEF OrderInv

LEMMA AcknowledgedIn ==
  ASSUME OrderInv, NEW e \in Events, inbox[e].status = "processed", IsMessage(e)
  PROVE  e \in Logged
BY DEF OrderInv, AcknowledgedLogged, Logged

\* A step of server p that removes no message and acknowledges none that is missing.
LEMMA OrderStep ==
  ASSUME TypeInv, OrderInv, NEW p \in Procs, NEW new \in Local,
         proc' = [proc EXCEPT ![p] = new], Logged \subseteq Logged', AfterParent',
         new.at \in Working => Learnt(new, Logged'),
         \A e \in Events : inbox'[e].status = "processed" /\ IsMessage(e) =>
           inbox[e].status = "processed" \/ e \in Logged'
  PROVE  OrderInv'
<1>1. \A q \in Procs : proc'[q] = IF q = p THEN new ELSE proc[q]
  BY Types
<1>2. ASSUME NEW r \in Local, Learnt(r, Logged) PROVE Learnt(r, Logged')
  BY <1>2 DEF Learnt, ParentIn
<1>3. AllLearnt'
  <2> SUFFICES ASSUME NEW q \in Procs, proc'[q].at \in Working
               PROVE  Learnt(proc'[q], Logged')
    BY DEF AllLearnt
  <2>1. CASE q = p
    BY <1>1, <2>1
  <2>2. CASE q # p
    BY <1>1, <1>2, <2>2, OrderParts, Types DEF AllLearnt
  <2>3. QED
    BY <2>1, <2>2
<1>4. AcknowledgedLogged'
  <2> SUFFICES ASSUME NEW e \in Events, inbox'[e].status = "processed", IsMessage(e)
               PROVE  e \in Logged'
    BY DEF AcknowledgedLogged, Logged, IsMessage
  <2>1. QED
    BY AcknowledgedIn
<1>5. QED
  BY <1>3, <1>4 DEF OrderInv

\* The same when no message is appended.
LEMMA QuietStep ==
  ASSUME TypeInv, OrderInv, NEW p \in Procs, NEW new \in Local,
         proc' = [proc EXCEPT ![p] = new], UNCHANGED messages,
         new.at \in Working => Learnt(new, Logged),
         \A e \in Events : inbox'[e].status = "processed" /\ IsMessage(e) =>
           inbox[e].status = "processed" \/ e \in Logged
  PROVE  OrderInv'
<1>1. Logged' = Logged
  BY LoggedSame
<1>2. AfterParent'
  BY OrderParts DEF AfterParent
<1>3. QED
  BY <1>1, <1>2, OrderStep

\* A server goes on with its event, and the inbox stays.
LEMMA OnwardStep ==
  ASSUME TypeInv, OrderInv, NEW p \in Procs, proc[p].at \in Working,
         NEW new \in Local, new.event = proc[p].event,
         proc' = [proc EXCEPT ![p] = new], UNCHANGED <<inbox, messages>>,
         \/ new.at \in {"creating", "failing", "recording"}
         \/ new.at \in After /\ (IsMessage(new.event) => new.event \in Logged)
         \/ new.at \in {"checking", "measuring", "appending"} /\ IsMessage(new.event)
  PROVE  OrderInv'
<1>1. Learnt(proc[p], Logged)
  BY OrderParts DEF AllLearnt
<1>2. Learnt(new, Logged)
  BY <1>1 DEF Learnt, After
<1>3. QED
  BY <1>2, QuietStep

LEMMA OrderInit == Init => OrderInv
BY AboutAssumption
   DEF Init, OrderInv, AllLearnt, AcknowledgedLogged, AfterParent, Working, Idle

----------------------------------------------------------------------------
(* The steps *)

\* A delivery or a server's start acknowledges nothing.
LEMMA ArrivalOrder ==
  ASSUME TypeInv, OrderInv, NEW p \in Procs, Ingest(p) \/ Recover(p)
  PROVE  OrderInv'
<1>1. proc' = [proc EXCEPT ![p] = Draining] /\ UNCHANGED messages
  BY DEF Ingest, IngestNew, IngestDuplicate, IngestUpdate, Recover, Become, store
<1>2. \A e \in Events : inbox'[e].status = "processed" => inbox[e].status = "processed"
  <2>1. CASE Ingest(p)
    <3> SUFFICES ASSUME NEW e \in Events, NEW text \in Contents(e), NEW final \in Versions(e),
                        \/ IngestNew(p, e, text, final)
                        \/ IngestDuplicate(p, e, text, final)
                        \/ IngestUpdate(p, e, text, final)
                 PROVE  \A f \in Events : inbox'[f].status = "processed" =>
                                          inbox[f].status = "processed"
      BY <2>1 DEF Ingest
    <3>1. CASE IngestDuplicate(p, e, text, final)
      BY <3>1 DEF IngestDuplicate, rows
    <3>2. CASE IngestNew(p, e, text, final) \/ IngestUpdate(p, e, text, final)
      <4>1. \A f \in Events \ {e} : inbox'[f] = inbox[f]
        BY <3>2, Types DEF IngestNew, IngestUpdate
      <4>2. inbox'[e].status = Arrived(final)
        BY <3>2, Types DEF IngestNew, IngestUpdate, Row
      <4>3. QED
        BY <4>1, <4>2 DEF Arrived
    <3>3. QED
      BY <3>1, <3>2
  <2>2. CASE Recover(p)
    BY <2>2, Types DEF Recover, Row
  <2>3. QED
    BY <2>1, <2>2
<1>3. QED
  BY <1>1, <1>2, IdleType, QuietStep

\* A claimed event's parent was acknowledged, so it is in the session.
LEMMA ClaimOrder ==
  ASSUME TypeInv, OrderInv, NEW p \in Procs, Claim(p)
  PROVE  OrderInv'
<1> PICK e \in Events :
      /\ Claimable(e)
      /\ inbox' = [inbox EXCEPT ![e].status = "processing", ![e].attempts = @ + 1]
      /\ Become(p, [Idle EXCEPT !.at = "claimed", !.event = e])
  BY ArrivalType DEF Claim
<1> DEFINE new == [Idle EXCEPT !.at = "claimed", !.event = e]
<1>1. new \in Local /\ new.event = e /\ new.at = "claimed"
  BY DEF Idle, Local, Points
<1>2. ParentIn(e, Logged)
  <2> SUFFICES ASSUME About[e].parent # None PROVE ParentIn(e, Logged)
    BY DEF ParentIn
  <2>1. PICK f \in Events : /\ About[f].session = About[e].session
                            /\ About[f].message = About[e].parent
                            /\ inbox[f].status = "processed"
    BY DEF Claimable
  <2>2. IsMessage(f)
    BY <2>1, AboutAssumption DEF IsMessage
  <2>3. QED
    BY <2>1, <2>2, AcknowledgedIn DEF ParentIn
<1>3. Learnt(new, Logged)
  BY <1>1, <1>2 DEF Learnt, After
<1>4. \A f \in Events : inbox'[f].status = "processed" => inbox[f].status = "processed"
  BY Types DEF Row
<1>5. proc' = [proc EXCEPT ![p] = new] /\ UNCHANGED messages
  BY DEF Become, Claim, store
<1> HIDE DEF new
<1>6. QED
  BY <1>1, <1>3, <1>4, <1>5, QuietStep

\* A message is appended by a server that knows its parent to be in the session.
LEMMA AppendOrder ==
  ASSUME TypeInv, OrderInv, NEW p \in Procs, AppendMessage(p)
  PROVE  OrderInv'
<1> DEFINE r == proc[p]
           e == proc[p].event
           s == About[e].session
           n == Len(messages[s])
           new == [r EXCEPT !.at = AfterMessage(p)]
<1>1. /\ r.at \in Working /\ r.at = "appending"
      /\ e \in Events /\ s \in Sessions /\ n \in Nat
      /\ DOMAIN messages[s] = 1..n /\ DOMAIN messages'[s] = 1..(n + 1)
      /\ messages'[s][n + 1].event = e
      /\ \A i \in 1..n : messages'[s][i] = messages[s][i]
      /\ \A x \in Sessions : x # s => messages'[x] = messages[x]
      /\ Logged' = Logged \cup {e}
  BY AppendEffect
<1>2. new \in Local /\ new.event = e /\ new.at \in After
  <2>1. AfterMessage(p) \in Points /\ AfterMessage(p) \in After
    BY DEF Points, AfterMessage, After
  <2>2. r \in Local
    BY Types
  <2>3. QED
    BY <2>1, <2>2 DEF Local
<1>3. proc' = [proc EXCEPT ![p] = new] /\ UNCHANGED inbox
  BY DEF AppendMessage, Goto, rows
<1>4. Learnt(r, Logged)
  BY <1>1, OrderParts DEF AllLearnt
<1>5. Learnt(new, Logged')
  <2>1. ParentIn(e, Logged') /\ e \in Logged'
    <3>1. ParentIn(e, Logged)
      BY <1>4 DEF Learnt
    <3>2. Logged' = Logged \cup {e}
      BY <1>1
    <3>3. QED
      BY <3>1, <3>2 DEF ParentIn
  <2> HIDE DEF new, e
  <2>2. QED
    BY <1>2, <2>1 DEF Learnt, After
<1>6. About[e].parent # None =>
        \E j \in 1..n : About[messages[s][j].event].message = About[e].parent
  <2> SUFFICES ASSUME About[e].parent # None
               PROVE  \E j \in 1..n : About[messages[s][j].event].message = About[e].parent
    OBVIOUS
  <2>1. PICK f \in Logged : About[f].session = s /\ About[f].message = About[e].parent
    BY <1>4 DEF Learnt, ParentIn
  <2>2. PICK j \in DOMAIN messages[s] : messages[s][j].event = f
    BY <2>1 DEF Logged, InSession
  <2>3. QED
    BY <1>1, <2>1, <2>2
<1> HIDE DEF e, s, n, new
<1>7. AfterParent'
  <2> SUFFICES ASSUME NEW x \in Sessions, NEW i \in DOMAIN messages'[x],
                      About[messages'[x][i].event].parent # None
               PROVE  \E j \in 1..(i - 1) : About[messages'[x][j].event].message
                                            = About[messages'[x][i].event].parent
    BY DEF AfterParent
  <2>1. CASE x # s
    BY <1>1, <2>1, OrderParts DEF AfterParent
  <2>2. CASE x = s /\ i = n + 1
    <3>1. PICK j \in 1..n : About[messages[s][j].event].message = About[e].parent
      BY <1>1, <1>6, <2>2
    <3>2. j \in 1..(i - 1) /\ messages'[x][j] = messages[s][j]
      BY <1>1, <2>2
    <3>3. QED
      BY <1>1, <2>2, <3>1, <3>2
  <2>3. CASE x = s /\ i # n + 1
    <3>1. i \in 1..n
      BY <1>1, <2>3
    <3>2. messages'[x][i] = messages[s][i]
      BY <1>1, <2>3, <3>1
    <3>3. PICK j \in 1..(i - 1) : About[messages[s][j].event].message
                                  = About[messages[s][i].event].parent
      <4>1. i \in DOMAIN messages[s] /\ About[messages[s][i].event].parent # None
        BY <1>1, <2>3, <3>1, <3>2
      <4>2. QED
        BY <1>1, <4>1, OrderParts DEF AfterParent
    <3>4. messages'[x][j] = messages[s][j]
      <4>1. n \in Nat /\ i \in Nat
        BY <1>1, <3>1
      <4>2. j \in 1..n
        BY <3>1, <3>3, <4>1
      <4>3. QED
        BY <1>1, <2>3, <4>2
    <3>5. QED
      BY <3>2, <3>3, <3>4
  <2>4. QED
    BY <2>1, <2>2, <2>3
<1>8. QED
  BY <1>1, <1>2, <1>3, <1>5, <1>7, OrderStep

LEMMA ProjectOrder ==
  ASSUME TypeInv, OrderInv, NEW p \in Procs, Project(p), ~AppendMessage(p)
  PROVE  OrderInv'
<1> DEFINE r == proc[p]
<1>1. r.at \in Working
  BY PointsOf DEF Project, EnsureSession, RefuseScope, CreateSession, SessionTaken,
     CheckProjected, MeasureSession, RefuseEnded, AppendMessage, OrdinalTaken, At
<1>2. r \in Local /\ r.event \in Events /\ Event(p) = r.event /\ Learnt(r, Logged)
  BY <1>1, WorkingType, OrderParts DEF AllLearnt
<1>3. UNCHANGED <<inbox, messages>>
  BY DEF Project, EnsureSession, RefuseScope, CreateSession, SessionTaken, CheckProjected,
     MeasureSession, RefuseEnded, OrdinalTaken, rows, store
<1>4. ASSUME NEW point \in Points, Goto(p, point),
             \/ point = "creating"
             \/ point \in After /\ (IsMessage(r.event) => r.event \in Logged)
             \/ point \in {"checking", "measuring"} /\ IsMessage(r.event)
      PROVE  OrderInv'
  <2> DEFINE new == [r EXCEPT !.at = point]
  <2>1. new \in Local /\ new.event = r.event /\ new.at = point
    BY <1>2 DEF Local
  <2>2. proc' = [proc EXCEPT ![p] = new]
    BY <1>4 DEF Goto
  <2> HIDE DEF new
  <2>3. QED
    BY <1>1, <1>3, <1>4, <2>1, <2>2, OnwardStep
<1>5. /\ Content(p) = IF IsMessage(r.event) THEN "checking" ELSE "history"
      /\ AfterMessage(p) \in {"history", "marking"}
      /\ \A x \in {"creating", "checking", "measuring", "history", "marking"} : x \in Points
  BY <1>2 DEF Content, AfterMessage, Points
<1>6. CASE EnsureSession(p) \/ CreateSession(p)
  <2>1. Goto(p, "creating") \/ Goto(p, Content(p))
    BY <1>6 DEF EnsureSession, CreateSession
  <2>2. QED
    BY <1>4, <1>5, <2>1 DEF After
<1>7. CASE CheckProjected(p)
  <2>1. IsMessage(r.event)
    BY <1>2, <1>7 DEF CheckProjected, At, Learnt
  <2>2. CASE InSession(r.event)
    BY <1>2, <1>4, <1>5, <1>7, <2>2 DEF CheckProjected, Logged, After
  <2>3. CASE ~InSession(r.event)
    BY <1>2, <1>4, <1>5, <1>7, <2>1, <2>3 DEF CheckProjected
  <2>4. QED
    BY <2>2, <2>3
<1>8. CASE MeasureSession(p)
  <2> DEFINE new == [r EXCEPT !.at = "appending", !.position = Len(messages[Session(p)]) + 1]
  <2>1. Len(messages[Session(p)]) + 1 \in Nat
    BY <1>1, WorkingType
  <2>2. new \in Local /\ new.event = r.event /\ new.at = "appending"
    BY <1>2, <2>1 DEF Local, Points
  <2>3. proc' = [proc EXCEPT ![p] = new]
    BY <1>8, Types DEF MeasureSession
  <2>4. IsMessage(r.event)
    BY <1>2, <1>8 DEF MeasureSession, At, Learnt
  <2> HIDE DEF new
  <2>5. QED
    BY <1>1, <1>3, <2>2, <2>3, <2>4, OnwardStep
<1>9. CASE RefuseScope(p) \/ SessionTaken(p) \/ RefuseEnded(p) \/ OrdinalTaken(p)
  <2>1. PICK retry \in BOOLEAN : Fail(p, retry)
    BY <1>9 DEF RefuseScope, SessionTaken, RefuseEnded, OrdinalTaken
  <2> DEFINE new == [r EXCEPT !.at = "failing", !.retry = retry]
  <2>2. new \in Local /\ new.event = r.event /\ new.at = "failing"
    BY <1>2 DEF Local, Points
  <2>3. proc' = [proc EXCEPT ![p] = new]
    BY <2>1, Types DEF Fail
  <2> HIDE DEF new
  <2>4. QED
    BY <1>1, <1>3, <2>2, <2>3, OnwardStep
<1>10. QED
  BY <1>6, <1>7, <1>8, <1>9 DEF Project

LEMMA ReviewOrder ==
  ASSUME TypeInv, OrderInv, NEW p \in Procs, ReviewStep(p), TypeInv'
  PROVE  OrderInv'
<1>1. PICK new \in Local :
        /\ proc' = [proc EXCEPT ![p] = new]
        /\ new.event = proc[p].event /\ new.at \in After
  BY ReviewMoves
<1>2. /\ proc[p].at \in Working /\ UNCHANGED <<inbox, messages>>
      /\ IsMessage(proc[p].event) => proc[p].event \in Logged
  BY ReviewMoves, OrderParts DEF AllLearnt, Learnt
<1>3. QED
  BY <1>1, <1>2, OnwardStep

LEMMA FinishOrder ==
  ASSUME TypeInv, OrderInv, NEW p \in Procs,
         \/ EndDrain(p) \/ MarkProcessed(p) \/ ProjectRaises(p) \/ ReadFailure(p)
         \/ RecordFailure(p) \/ MarkRefused(p) \/ Crash(p)
  PROVE  OrderInv'
<1> DEFINE r == proc[p]
<1>1. CASE EndDrain(p) \/ MarkRefused(p) \/ Crash(p)
  <2>1. PICK new \in {Idle, Draining} : proc' = [proc EXCEPT ![p] = new]
    BY <1>1 DEF EndDrain, MarkRefused, Crash, Become
  <2>2. UNCHANGED <<inbox, messages>>
    BY <1>1 DEF EndDrain, MarkRefused, Crash, rows, store
  <2>3. QED
    BY <2>1, <2>2, IdleType, QuietStep
<1>2. CASE ProjectRaises(p)
  <2> DEFINE new == [r EXCEPT !.at = "failing", !.retry = TRUE]
  <2>1. r.at \in Working
    BY <1>2, PointsOf DEF ProjectRaises
  <2>2. new \in Local /\ new.event = r.event /\ new.at = "failing"
    BY <2>1, WorkingType, PointsOf DEF Local
  <2>3. proc' = [proc EXCEPT ![p] = new]
    BY <1>2, Types DEF ProjectRaises, Fail
  <2> HIDE DEF new
  <2>4. QED
    BY <1>2, <2>1, <2>2, <2>3, OnwardStep DEF ProjectRaises, rows, store
<1>3. CASE ReadFailure(p)
  <2> DEFINE retry == r.retry /\ inbox[Event(p)].attempts < MaxAttempts
             new == [r EXCEPT !.at = "recording", !.retry = retry]
  <2>1. r.at \in Working
    BY <1>3, PointsOf DEF ReadFailure, At
  <2>2. proc' = [proc EXCEPT ![p] = new] /\ retry \in BOOLEAN
    BY <1>3, Types DEF ReadFailure
  <2> HIDE DEF retry
  <2>3. new \in Local /\ new.event = r.event /\ new.at = "recording"
    BY <2>1, <2>2, WorkingType, PointsOf DEF Local
  <2> HIDE DEF new
  <2>4. QED
    BY <1>3, <2>1, <2>2, <2>3, OnwardStep DEF ReadFailure, rows, store
<1>4. CASE MarkProcessed(p) \/ RecordFailure(p)
  <2>1. PICK new \in {Idle, Draining} : proc' = [proc EXCEPT ![p] = new]
    BY <1>4 DEF MarkProcessed, RecordFailure, Become
  <2>2. r.at \in Working /\ UNCHANGED messages
    BY <1>4, PointsOf DEF MarkProcessed, RecordFailure, At, store
  <2>3. r.event \in Events /\ Event(p) = r.event /\ Learnt(r, Logged)
    BY <2>2, WorkingType, OrderParts DEF AllLearnt
  <2>4. PICK status \in {"processed", "queued", "failed"} :
          /\ inbox' = [inbox EXCEPT ![Event(p)].status = status]
          /\ status = "processed" => r.at = "marking"
    <3>1. CASE MarkProcessed(p)
      BY <3>1 DEF MarkProcessed, At
    <3>2. CASE RecordFailure(p)
      <4>1. CASE r.retry
        BY <3>2, <4>1 DEF RecordFailure
      <4>2. CASE ~r.retry
        BY <3>2, <4>2 DEF RecordFailure
      <4>3. QED
        BY <4>1, <4>2
    <3>3. QED
      BY <1>4, <3>1, <3>2
  <2>5. /\ \A e \in Events \ {r.event} : inbox'[e] = inbox[e]
        /\ inbox'[r.event].status = status
    BY <2>3, <2>4, Types DEF Row
  <2>6. \A e \in Events : inbox'[e].status = "processed" /\ IsMessage(e) =>
          inbox[e].status = "processed" \/ e \in Logged
    BY <2>3, <2>4, <2>5 DEF Learnt, After
  <2>7. QED
    BY <2>1, <2>2, <2>6, IdleType, QuietStep
<1>5. QED
  BY <1>1, <1>2, <1>3, <1>4

LEMMA OrderNext ==
  ASSUME TypeInv, OrderInv, [Next]_vars
  PROVE  OrderInv'
<1>1. TypeInv'
  BY TypeStep
<1>2. CASE (\E s \in Sessions : EndSession(s)) \/ UNCHANGED vars
  <2>1. UNCHANGED <<inbox, messages, proc>>
    BY <1>2 DEF EndSession, vars, rows
  <2>2. Logged' = Logged
    BY <2>1, LoggedSame
  <2>3. QED
    BY <2>1, <2>2 DEF OrderInv, AllLearnt, AcknowledgedLogged, AfterParent, InSession
<1>3. QED
  BY <1>1, <1>2, ArrivalOrder, ClaimOrder, AppendOrder, ProjectOrder, ReviewOrder,
     FinishOrder DEF Next, Step

\* Whatever was requeued, failed or finished by whom, every working server knows its
\* event's parent to be in the session.
THEOREM Order == Spec => [](TypeInv /\ OrderInv)
<1>1. Init => TypeInv /\ OrderInv
  BY TypeInit, OrderInit
<1>2. TypeInv /\ OrderInv /\ [Next]_vars => (TypeInv /\ OrderInv)'
  BY TypeStep, OrderNext
<1>3. QED
  BY <1>1, <1>2, PTL DEF Spec

\* mark_processed acknowledges no message that is not in its session, for any number
\* of servers that start at any time.
THEOREM AcknowledgedLoggedAlways == Spec => []AcknowledgedLogged
<1>1. OrderInv => AcknowledgedLogged
  BY DEF OrderInv
<1>2. QED
  BY <1>1, Order, PTL

\* No message precedes its parent in a session, for any number of servers that start
\* at any time: claim_next waits for the parent, and messages are only appended.
THEOREM AfterParentAlways == Spec => []AfterParent
<1>1. OrderInv => AfterParent
  BY DEF OrderInv
<1>2. QED
  BY <1>1, Order, PTL

----------------------------------------------------------------------------
(* Which rows are final: the text of an event that is worked on never changes *)

FinalRows == \A e \in Events : inbox[e].final <=> inbox[e].status \notin {"absent", "captured"}
WorkFinal == \A p \in Procs : proc[p].at \in Working => inbox[proc[p].event].final
FinalInv == FinalRows /\ WorkFinal

LEMMA FinalInit == Init => FinalInv
BY DEF Init, FinalInv, FinalRows, WorkFinal, Working, Idle

\* A server goes on with its event, or takes up a final one, and no row ceases to be
\* final.
LEMMA FinalStep ==
  ASSUME TypeInv, FinalInv, NEW p \in Procs, NEW new,
         proc' = [proc EXCEPT ![p] = new], FinalRows',
         \A e \in Events : inbox[e].final => inbox'[e].final,
         new.at \in Working => new.event \in Events /\ inbox'[new.event].final
  PROVE  FinalInv'
<1> SUFFICES ASSUME NEW q \in Procs, proc'[q].at \in Working
             PROVE  inbox'[proc'[q].event].final
  BY DEF FinalInv, WorkFinal
<1>1. proc'[q] = IF q = p THEN new ELSE proc[q]
  BY Types
<1>2. CASE q # p
  BY <1>1, <1>2 DEF FinalInv, WorkFinal, TypeInv, EventKnown
<1>3. QED
  BY <1>1, <1>2

\* The status of one final row changes, and stays that of a final row.
LEMMA RowsStayFinal ==
  ASSUME FinalInv, NEW e \in Events, inbox[e].final,
         \A f \in Events : inbox'[f].final <=> inbox[f].final,
         \A f \in Events \ {e} : inbox'[f].status = inbox[f].status,
         inbox'[e].status \notin {"absent", "captured"}
  PROVE  FinalRows' /\ (\A f \in Events : inbox[f].final => inbox'[f].final)
BY DEF FinalInv, FinalRows

LEMMA IngestFinal ==
  ASSUME TypeInv, FinalInv, NEW p \in Procs, Ingest(p)
  PROVE  FinalInv'
<1> SUFFICES ASSUME NEW e \in Events, NEW text \in Contents(e), NEW final \in Versions(e),
                    \/ IngestNew(p, e, text, final)
                    \/ IngestDuplicate(p, e, text, final)
                    \/ IngestUpdate(p, e, text, final)
             PROVE  FinalInv'
  BY DEF Ingest
<1>1. final \in BOOLEAN
  BY DEF Versions
<1>2. FinalRows
  BY DEF FinalInv
<1>3. proc' = [proc EXCEPT ![p] = Draining]
  BY DEF IngestNew, IngestDuplicate, IngestUpdate, Become
<1>4. CASE IngestDuplicate(p, e, text, final)
  <2>1. UNCHANGED inbox
    BY <1>4 DEF IngestDuplicate, rows
  <2>2. FinalRows'
    BY <1>2, <2>1 DEF FinalRows
  <2>3. QED
    BY <1>3, <2>1, <2>2, IdleType, FinalStep
<1>5. CASE IngestNew(p, e, text, final) \/ IngestUpdate(p, e, text, final)
  <2>1. ~inbox[e].final
    BY <1>2, <1>5 DEF IngestNew, IngestUpdate, FinalRows
  <2>2. /\ \A f \in Events \ {e} : inbox'[f] = inbox[f]
        /\ inbox'[e].status = Arrived(final) /\ inbox'[e].final = final
    BY <1>5, Types DEF IngestNew, IngestUpdate, Row
  <2>3. inbox'[e].final <=> inbox'[e].status \notin {"absent", "captured"}
    BY <1>1, <2>2 DEF Arrived
  <2>4. FinalRows'
    BY <1>2, <2>2, <2>3 DEF FinalRows
  <2>5. QED
    BY <1>3, <2>1, <2>2, <2>4, IdleType, FinalStep
<1>6. QED
  BY <1>4, <1>5

LEMMA RecoverFinal ==
  ASSUME TypeInv, FinalInv, NEW p \in Procs, Recover(p)
  PROVE  FinalInv'
<1>1. \A e \in Events :
        /\ inbox'[e].final = inbox[e].final
        /\ inbox'[e].status = IF inbox[e].status = "processing" THEN "queued"
                              ELSE inbox[e].status
  BY Types DEF Recover, Row
<1>2. FinalRows'
  BY <1>1 DEF FinalInv, FinalRows
<1>3. proc' = [proc EXCEPT ![p] = Draining]
  BY DEF Recover, Become
<1>4. QED
  BY <1>1, <1>2, <1>3, IdleType, FinalStep

LEMMA ClaimFinal ==
  ASSUME TypeInv, FinalInv, NEW p \in Procs, Claim(p)
  PROVE  FinalInv'
<1> PICK e \in Events :
      /\ Claimable(e)
      /\ inbox' = [inbox EXCEPT ![e].status = "processing", ![e].attempts = @ + 1]
      /\ Become(p, [Idle EXCEPT !.at = "claimed", !.event = e])
  BY ArrivalType DEF Claim
<1> DEFINE new == [Idle EXCEPT !.at = "claimed", !.event = e]
<1>1. new.event = e
  BY DEF Idle
<1>2. /\ \A f \in Events : inbox'[f].final <=> inbox[f].final
      /\ \A f \in Events \ {e} : inbox'[f].status = inbox[f].status
      /\ inbox'[e].status = "processing"
  BY Types DEF Row
<1>3. inbox[e].final
  BY DEF Claimable, FinalInv, FinalRows
<1>4. proc' = [proc EXCEPT ![p] = new]
  BY DEF Become
<1> HIDE DEF new
<1>5. FinalRows' /\ (\A f \in Events : inbox[f].final => inbox'[f].final)
  BY <1>2, <1>3, RowsStayFinal
<1>6. QED
  BY <1>1, <1>3, <1>4, <1>5, FinalStep

\* mark_processed, and the second half of mark_failed, whatever became of the row.
LEMMA MarkFinal ==
  ASSUME TypeInv, FinalInv, NEW p \in Procs, MarkProcessed(p) \/ RecordFailure(p)
  PROVE  FinalInv'
<1>1. proc[p].at \in Working
  BY PointsOf DEF MarkProcessed, RecordFailure, At
<1>2. PICK e \in Events : e = proc[p].event
  BY <1>1, WorkingType
<1>3. inbox[e].final
  BY <1>1, <1>2 DEF FinalInv, WorkFinal
<1>4. PICK new \in {Idle, Draining} : proc' = [proc EXCEPT ![p] = new]
  BY DEF MarkProcessed, RecordFailure, Become
<1>5. PICK status \in {"processed", "queued", "failed"} :
        inbox' = [inbox EXCEPT ![e].status = status]
  <2>1. CASE MarkProcessed(p)
    BY <1>2, <2>1 DEF MarkProcessed, Event
  <2>2. CASE RecordFailure(p)
    BY <1>2, <2>2 DEF RecordFailure, Event
  <2>3. QED
    BY <2>1, <2>2
<1>6. /\ \A f \in Events : inbox'[f].final <=> inbox[f].final
      /\ \A f \in Events \ {e} : inbox'[f].status = inbox[f].status
      /\ inbox'[e].status = status
  BY <1>5, Types DEF Row
<1>7. FinalRows' /\ (\A f \in Events : inbox[f].final => inbox'[f].final)
  BY <1>3, <1>6, RowsStayFinal
<1>8. new.at \notin Working
  BY IdleType
<1>9. QED
  BY <1>4, <1>7, <1>8, FinalStep

\* Every other step leaves the inbox alone, and a server with the event it has.
LEMMA OtherFinal ==
  ASSUME TypeInv, FinalInv, TypeInv', NEW p \in Procs,
         \/ EndDrain(p) \/ Project(p) \/ ReviewStep(p) \/ ProjectRaises(p)
         \/ ReadFailure(p) \/ MarkRefused(p) \/ Crash(p)
  PROVE  FinalInv'
<1>1. UNCHANGED inbox
  <2>1. CASE ReviewStep(p)
    BY <2>1, ReviewMoves
  <2>2. CASE Project(p)
    BY <2>2 DEF Project, EnsureSession, RefuseScope, CreateSession, SessionTaken,
       CheckProjected, MeasureSession, RefuseEnded, AppendMessage, OrdinalTaken, rows
  <2>3. QED
    BY <2>1, <2>2 DEF EndDrain, ProjectRaises, ReadFailure, MarkRefused, Crash, rows
<1>2. FinalRows' /\ FinalRows
  BY <1>1 DEF FinalInv, FinalRows
<1>3. PICK new : proc' = [proc EXCEPT ![p] = new] /\
                 (new.at \in Working => proc[p].at \in Working /\ new.event = proc[p].event)
  <2>1. CASE ReviewStep(p)
    BY <2>1, ReviewMoves
  <2>2. CASE EndDrain(p) \/ MarkRefused(p) \/ Crash(p)
    BY <2>2, IdleType DEF EndDrain, MarkRefused, Crash, Become
  <2>3. CASE Project(p) \/ ProjectRaises(p) \/ ReadFailure(p)
    <3>1. proc[p].at \in Working
      BY <2>3, PointsOf DEF Project, EnsureSession, RefuseScope, CreateSession,
         SessionTaken, CheckProjected, MeasureSession, RefuseEnded, AppendMessage,
         OrdinalTaken, ProjectRaises, ReadFailure, At
    <3>2. proc[p] \in Local
      BY Types
    <3>3. proc' = [proc EXCEPT ![p] = proc'[p]] /\ proc'[p].event = proc[p].event
      <4>1. CASE EnsureSession(p) \/ CreateSession(p) \/ CheckProjected(p) \/ AppendMessage(p)
        BY <3>2, <4>1, Types DEF EnsureSession, CreateSession, CheckProjected,
           AppendMessage, Goto, Local
      <4>2. CASE MeasureSession(p) \/ ReadFailure(p)
        BY <3>2, <4>2, Types DEF MeasureSession, ReadFailure, Local
      <4>3. CASE RefuseScope(p) \/ SessionTaken(p) \/ RefuseEnded(p) \/ OrdinalTaken(p)
                 \/ ProjectRaises(p)
        BY <3>2, <4>3, Types DEF RefuseScope, SessionTaken, RefuseEnded, OrdinalTaken,
           ProjectRaises, Fail, Local
      <4>4. QED
        BY <2>3, <4>1, <4>2, <4>3 DEF Project
    <3>4. QED
      BY <3>1, <3>3
  <2>4. QED
    BY <2>1, <2>2, <2>3
<1>4. new.at \in Working => new.event \in Events /\ inbox'[new.event].final
  BY <1>1, <1>3, WorkingType DEF FinalInv, WorkFinal
<1>5. QED
  BY <1>1, <1>2, <1>3, <1>4, FinalStep

LEMMA FinalNext ==
  ASSUME TypeInv, FinalInv, [Next]_vars
  PROVE  FinalInv'
<1>1. CASE (\E s \in Sessions : EndSession(s)) \/ UNCHANGED vars
  <2>1. UNCHANGED <<inbox, proc>>
    BY <1>1 DEF EndSession, vars, rows
  <2>2. QED
    BY <2>1 DEF FinalInv, FinalRows, WorkFinal
<1>2. QED
  BY <1>1, TypeStep, IngestFinal, RecoverFinal, ClaimFinal, MarkFinal, OtherFinal
     DEF Next, Step

\* Whatever a server works on is final, and stays so.
THEOREM Final == Spec => [](TypeInv /\ FinalInv)
<1>1. Init => TypeInv /\ FinalInv
  BY TypeInit, FinalInit
<1>2. TypeInv /\ FinalInv /\ [Next]_vars => (TypeInv /\ FinalInv)'
  BY TypeStep, FinalNext
<1>3. QED
  BY <1>1, <1>2, PTL DEF Spec

----------------------------------------------------------------------------
(* The bridge implements SessionLog, with deliveries that may be repeated *)

\* A step that neither logs, nor settles the text of an event, nor acknowledges one.
LEMMA Stutter ==
  ASSUME UNCHANGED messages,
         \A e \in Events :
           /\ inbox'[e].final <=> inbox[e].final
           /\ inbox[e].final => inbox'[e].text = inbox[e].text
           /\ inbox'[e].status = "processed" <=> inbox[e].status = "processed"
  PROVE  UNCHANGED Deliveries!vars
BY DEF Deliveries!vars, Finals, Acknowledged

\* A delivery settles the text of an event, or nothing.
LEMMA IngestLogs ==
  ASSUME TypeInv, OrderInv, FinalInv, NEW p \in Procs, Ingest(p)
  PROVE  [Deliveries!Next]_Deliveries!vars
<1> SUFFICES ASSUME NEW e \in Events, NEW text \in Contents(e), NEW final \in Versions(e),
                    \/ IngestNew(p, e, text, final)
                    \/ IngestDuplicate(p, e, text, final)
                    \/ IngestUpdate(p, e, text, final)
             PROVE  [Deliveries!Next]_Deliveries!vars
  BY DEF Ingest
<1>1. text \in Texts \cup {None} /\ final \in BOOLEAN
  BY DEF Contents, Versions
<1>2. CASE IngestDuplicate(p, e, text, final)
  BY <1>2, Stutter DEF IngestDuplicate, rows, store
<1>3. ASSUME ~inbox[e].final, inbox[e].status # "processed", NEW row,
             row.status = Arrived(final), row.text = text, row.final = final,
             inbox' = [inbox EXCEPT ![e] = row], UNCHANGED messages
      PROVE  [Deliveries!Next]_Deliveries!vars
  <2>1. inbox'[e] = row /\ \A f \in Events : f # e => inbox'[f] = inbox[f]
    BY <1>3, Types
  <2>2. row.status # "processed"
    BY <1>3 DEF Arrived
  <2>3. CASE ~final
    BY <1>3, <2>1, <2>2, <2>3, Stutter
  <2>4. CASE final
    <3>1. Finals' = Finals \cup {<<e, text>>}
      <4>1. \A f \in Events :
              /\ inbox'[f].final <=> inbox[f].final \/ f = e
              /\ inbox'[f].text = IF f = e THEN text ELSE inbox[f].text
        <5>1. /\ inbox'[e].final /\ inbox'[e].text = text
              /\ \A f \in Events : f # e =>
                   inbox'[f].final = inbox[f].final /\ inbox'[f].text = inbox[f].text
          BY <1>3, <2>1, <2>4
        <5>2. QED
          BY <5>1, <1>3
      <4>2. Finals' = {<<f, inbox'[f].text>> : f \in {g \in Events : inbox'[g].final}}
        BY DEF Finals
      <4>3. \A pair \in Finals' : pair \in Finals \cup {<<e, text>>}
        BY <4>1, <4>2 DEF Finals
      <4>4. <<e, text>> \in Finals'
        BY <4>1, <4>2 DEF Finals
      <4>5. \A pair \in Finals : pair \in Finals'
        BY <1>3, <4>1, <4>2 DEF Finals
      <4>6. QED
        BY <4>3, <4>4, <4>5
    <3>2. Acknowledged' = Acknowledged
      BY <1>3, <2>1, <2>2 DEF Acknowledged
    <3>3. \A pair \in Finals : pair[1] # e
      BY <1>3 DEF Finals
    <3>4. Deliveries!Finalize(e, text)
      BY <1>3, <3>1, <3>2, <3>3 DEF Deliveries!Finalize
    <3>5. QED
      BY <1>1, <3>4 DEF Deliveries!Next
  <2>5. QED
    BY <1>1, <2>3, <2>4
<1>4. CASE IngestNew(p, e, text, final)
  <2> DEFINE row == [status |-> Arrived(final), text |-> text, final |-> final,
                     attempts |-> 0]
  <2>1. row.status = Arrived(final) /\ row.text = text /\ row.final = final
    OBVIOUS
  <2>2. inbox' = [inbox EXCEPT ![e] = row]
    BY <1>4 DEF IngestNew
  <2>3. ~inbox[e].final /\ inbox[e].status # "processed"
    BY <1>4 DEF IngestNew, FinalInv, FinalRows
  <2> HIDE DEF row
  <2>4. QED
    BY <1>3, <1>4, <2>1, <2>2, <2>3 DEF IngestNew, store
<1>5. CASE IngestUpdate(p, e, text, final)
  <2> DEFINE row == [inbox[e] EXCEPT !.status = Arrived(final), !.text = text,
                                      !.final = final]
  <2>1. row.status = Arrived(final) /\ row.text = text /\ row.final = final
    BY Types DEF Row
  <2>2. inbox' = [inbox EXCEPT ![e] = row]
    BY <1>5, Types DEF IngestUpdate
  <2>3. ~inbox[e].final /\ inbox[e].status # "processed"
    BY <1>5 DEF IngestUpdate
  <2> HIDE DEF row
  <2>4. QED
    BY <1>3, <1>5, <2>1, <2>2, <2>3 DEF IngestUpdate, store
<1>6. QED
  BY <1>2, <1>4, <1>5

\* The insertion of a message delivers it: its text is settled, its parent logged.
LEMMA AppendLogs ==
  ASSUME TypeInv, OrderInv, FinalInv, NEW p \in Procs, AppendMessage(p)
  PROVE  Deliveries!Next
<1> DEFINE e == proc[p].event
           text == inbox[e].text
<1>1. proc[p].at \in Working /\ proc[p].at = "appending"
  BY PointsOf DEF AppendMessage, At
<1>2. /\ e \in Events /\ Event(p) = e /\ Session(p) = About[e].session
      /\ Learnt(proc[p], Logged) /\ text \in Texts \cup {None}
  BY <1>1, WorkingType, OrderParts DEF AllLearnt, Row
<1>3. IsMessage(e) /\ ParentIn(e, Logged)
  BY <1>1, <1>2 DEF Learnt
<1>4. inbox[e].final
  BY <1>1, <1>2 DEF FinalInv, WorkFinal
<1>5. \A f \in Events : InSession(f) <=> Deliveries!Logged(f)
  BY DEF InSession, Deliveries!Logged
<1>6. Deliveries!IsMessage(e)
  BY <1>2, <1>3 DEF IsMessage, Deliveries!IsMessage
<1>7. About[e].parent # None => \E f \in Deliveries!Parents(e) : Deliveries!Logged(f)
  BY <1>3, <1>5 DEF ParentIn, Logged, Deliveries!Parents
<1>8. messages' = [messages EXCEPT ![About[e].session] =
                     Append(@, [event |-> e, text |-> text])]
  BY <1>2 DEF AppendMessage
<1>9. UNCHANGED inbox
  BY DEF AppendMessage, rows
<1>10. <<e, text>> \in Finals
  BY <1>2, <1>4 DEF Finals
<1>11. Deliveries!Deliver(e, text)
  BY <1>6, <1>7, <1>8, <1>9, <1>10 DEF Deliveries!Deliver, Finals, Acknowledged
<1>12. QED
  BY <1>2, <1>11 DEF Deliveries!Next

\* mark_processed acknowledges what is in the session.
LEMMA MarkLogs ==
  ASSUME TypeInv, OrderInv, FinalInv, NEW p \in Procs, MarkProcessed(p)
  PROVE  Deliveries!Next
<1>1. proc[p].at \in Working /\ proc[p].at = "marking"
  BY PointsOf DEF MarkProcessed, At
<1> PICK e \in Events : e = proc[p].event
  BY <1>1, WorkingType
<1>2. Event(p) = e /\ Learnt(proc[p], Logged)
  BY <1>1, OrderParts DEF AllLearnt, Event
<1>3. Deliveries!IsMessage(e) => Deliveries!Logged(e)
  BY <1>1, <1>2 DEF Learnt, After, Logged, InSession, IsMessage, Deliveries!IsMessage, Deliveries!Logged
<1>4. inbox' = [inbox EXCEPT ![e].status = "processed"]
  BY <1>2 DEF MarkProcessed
<1>5. \A f \in Events :
        /\ inbox'[f].text = inbox[f].text /\ inbox'[f].final = inbox[f].final
        /\ inbox'[f].status = IF f = e THEN "processed" ELSE inbox[f].status
  BY <1>2, <1>4, Types DEF Row
<1>6. Finals' = Finals
  BY <1>5 DEF Finals
<1>7. Acknowledged' = Acknowledged \cup {e}
  BY <1>2, <1>5 DEF Acknowledged
<1>8. UNCHANGED messages
  BY DEF MarkProcessed, store
<1>9. Deliveries!Acknowledge(e)
  BY <1>3, <1>6, <1>7, <1>8 DEF Deliveries!Acknowledge
<1>10. QED
  BY <1>9 DEF Deliveries!Next

LEMMA LogStep ==
  ASSUME TypeInv, OrderInv, FinalInv, [Next]_vars
  PROVE  [Deliveries!Next]_Deliveries!vars
<1>1. ASSUME UNCHANGED <<inbox, messages>> PROVE UNCHANGED Deliveries!vars
  BY <1>1, Stutter
<1>2. ASSUME NEW e \in Events, NEW status \in {"queued", "processing", "failed"},
             inbox[e].status # "processed", UNCHANGED messages,
             \A f \in Events :
               /\ inbox'[f].text = inbox[f].text /\ inbox'[f].final = inbox[f].final
               /\ inbox'[f].status = IF f = e THEN status ELSE inbox[f].status
      PROVE  UNCHANGED Deliveries!vars
  BY <1>2, Stutter
<1>3. ASSUME NEW p \in Procs, Claim(p) PROVE UNCHANGED Deliveries!vars
  <2> PICK e \in Events :
        /\ Claimable(e)
        /\ inbox' = [inbox EXCEPT ![e].status = "processing", ![e].attempts = @ + 1]
    BY <1>3, ArrivalType DEF Claim
  <2>1. \A f \in Events :
          /\ inbox'[f].text = inbox[f].text /\ inbox'[f].final = inbox[f].final
          /\ inbox'[f].status = IF f = e THEN "processing" ELSE inbox[f].status
    BY Types DEF Row
  <2>2. inbox[e].status # "processed" /\ UNCHANGED messages
    BY <1>3 DEF Claimable, Claim, store
  <2>3. QED
    BY <1>2, <2>1, <2>2
<1>4. ASSUME NEW p \in Procs, Recover(p) PROVE UNCHANGED Deliveries!vars
  <2>1. \A f \in Events :
          /\ inbox'[f].text = inbox[f].text /\ inbox'[f].final = inbox[f].final
          /\ inbox'[f].status = IF inbox[f].status = "processing" THEN "queued"
                                ELSE inbox[f].status
    BY <1>4, Types DEF Recover, Row
  <2>2. UNCHANGED messages
    BY <1>4 DEF Recover, store
  <2>3. QED
    BY <2>1, <2>2, Stutter
<1>5. ASSUME NEW p \in Procs, RecordFailure(p) PROVE [Deliveries!Next]_Deliveries!vars
  <2> DEFINE status == IF proc[p].retry THEN "queued" ELSE "failed"
             e == proc[p].event
  <2>1. proc[p].at \in Working
    BY <1>5, PointsOf DEF RecordFailure, At
  <2>2. e \in Events /\ Event(p) = e
    BY <2>1, WorkingType
  <2>3. inbox' = [inbox EXCEPT ![e].status = status] /\ UNCHANGED messages
    BY <1>5, <2>2 DEF RecordFailure, store
  <2>4. status \in {"queued", "failed"}
    OBVIOUS
  <2> HIDE DEF status
  <2>5. \A f \in Events :
          /\ inbox'[f].text = inbox[f].text /\ inbox'[f].final = inbox[f].final
          /\ inbox'[f].status = IF f = e THEN status ELSE inbox[f].status
    BY <2>2, <2>3, Types DEF Row
  <2>6. Finals' = Finals
    BY <2>5 DEF Finals
  <2>7. Acknowledged' = Acknowledged \ {e}
    BY <2>2, <2>4, <2>5 DEF Acknowledged
  <2>8. Deliveries!Retract(e)
    BY <2>3, <2>6, <2>7 DEF Deliveries!Retract
  <2>9. QED
    BY <2>2, <2>8 DEF Deliveries!Next
<1>6. ASSUME NEW p \in Procs, Step(p) PROVE [Deliveries!Next]_Deliveries!vars
  <2>1. CASE Project(p) /\ ~AppendMessage(p)
    <3>1. UNCHANGED <<inbox, messages>>
      BY <2>1 DEF Project, EnsureSession, RefuseScope, CreateSession, SessionTaken,
         CheckProjected, MeasureSession, RefuseEnded, OrdinalTaken, rows, store
    <3>2. QED
      BY <1>1, <3>1
  <2>2. CASE ReviewStep(p)
    <3>1. UNCHANGED <<inbox, messages>>
      BY <2>2 DEF ReviewStep, ReadHistory, Advance, Decide, Review, ReviewFails,
         FindCandidate, CreateCandidate, SaveProcedure, Complete, rows, store
    <3>2. QED
      BY <1>1, <3>1
  <2>3. CASE EndDrain(p) \/ ProjectRaises(p) \/ ReadFailure(p) \/ MarkRefused(p)
    <3>1. UNCHANGED <<inbox, messages>>
      BY <2>3 DEF EndDrain, ProjectRaises, ReadFailure, MarkRefused, rows, store
    <3>2. QED
      BY <1>1, <3>1
  <2>4. QED
    BY <1>3, <1>5, <1>6, <2>1, <2>2, <2>3, AppendLogs, MarkLogs DEF Step
<1>7. CASE (\E p \in Procs : Crash(p)) \/ (\E s \in Sessions : EndSession(s)) \/ UNCHANGED vars
  <2>1. UNCHANGED <<inbox, messages>>
    BY <1>7 DEF Crash, EndSession, vars, rows, store
  <2>2. QED
    BY <1>1, <2>1
<1>8. QED
  BY <1>4, <1>6, <1>7, IngestLogs DEF Next

\* Whenever servers start, and whatever they take of each other: what they append to
\* a session is the final text of an event, after its parent, it stays there, and no
\* event is acknowledged before it.
THEOREM BridgeImplementsDeliveries == Spec => ImplementsDeliveries
<1>1. Init => Deliveries!Init
  BY DEF Init, Deliveries!Init, Finals, Acknowledged
<1>2. TypeInv /\ OrderInv /\ FinalInv /\ [Next]_vars => [Deliveries!Next]_Deliveries!vars
  BY LogStep
<1>3. QED
  BY <1>1, <1>2, Order, Final, PTL DEF Spec, ImplementsDeliveries, Deliveries!Spec

=============================================================================
