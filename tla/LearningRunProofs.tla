------------------------- MODULE LearningRunProofs -------------------------
(***************************************************************************)
(* Theorems about LearningRun, for any criteria and any reviewers that     *)
(* overlap as they like.  What activation committed stays committed, but   *)
(* the memory may be withdrawn later, and the coordinator looks it up      *)
(* record by record through a copy of run.json that it read before: the    *)
(* invariant remembers what it has found so far.  VerdictInv follows the   *)
(* loop's artifacts from the first run to the comparison.                  *)
(***************************************************************************)
EXTENDS LearningRun, TLAPS

\* The two local records keep their shape.
DriverShape(x) == x = [pc |-> x.pc, run |-> x.run, seen |-> x.seen, passed |-> x.passed,
                       found |-> x.found, todo |-> x.todo]
Shapes ==
  /\ auto = [state |-> auto.state, accepted |-> auto.accepted]
  /\ DriverShape(drv)

\* The driver schedules a verification only after it saw the memory active; of a record
\* it has read between the two it knows that it was activated.
ScheduledAfter == drv.pc = "schedule" => auto.state = "memory_activated"
ReadSoFar ==
  /\ drv.pc = "sources" => \A c \in drv.found : Activated(c)
  /\ drv.pc = "looking" => /\ Accepted(drv.seen) # {}
                           /\ \A c \in Accepted(drv.seen) \ drv.todo : Activated(c)
Watched == {"schedule", "sources", "looking"}

BackedInv == Shapes /\ ScheduledAfter /\ ReadSoFar /\ ActivatedBacked

LEMMA ActivatedStays ==
  ASSUME committed \subseteq committed', NEW c, Activated(c)
  PROVE  Activated(c)'
BY DEF Activated

\* Steps of reviewers, of others and of the run: the coordinator's state stays
\* and decisions are only added.
LEMMA OthersStep ==
  ASSUME BackedInv, auto' = auto, committed \subseteq committed', DriverShape(drv'),
         drv' = drv \/ drv'.pc \notin Watched
  PROVE  BackedInv'
<1>1. ActivatedBacked'
  BY ActivatedStays DEF BackedInv, ActivatedBacked
<1>2. CASE drv' = drv
  <2>1. ReadSoFar'
    BY <1>2, ActivatedStays DEF BackedInv, ReadSoFar, Accepted
  <2> QED BY <1>1, <1>2, <2>1 DEF BackedInv, Shapes, ScheduledAfter
<1>3. CASE drv'.pc \notin Watched
  BY <1>1, <1>3 DEF BackedInv, Shapes, ScheduledAfter, ReadSoFar, Watched
<1> QED BY <1>2, <1>3

\* The same when the driver goes on to, or on with, records to read.
LEMMA ReadingStep ==
  ASSUME BackedInv, auto' = auto, committed' = committed, DriverShape(drv'),
         ScheduledAfter', ReadSoFar'
  PROVE  BackedInv'
BY DEF BackedInv, Shapes, ActivatedBacked, Activated

\* A new state of the coordinator that needs no memory.
LEMMA UnbackedStep ==
  ASSUME BackedInv, NEW s, auto' = [auto EXCEPT !.state = s],
         s \notin {"memory_activated", "verification_scheduled"},
         DriverShape(drv'), drv'.pc \notin Watched \/ (drv' = drv /\ drv.pc \notin Watched)
  PROVE  BackedInv'
BY DEF BackedInv, Shapes, DriverShape, ScheduledAfter, ReadSoFar, ActivatedBacked, Watched

\* The driver goes on with the run.
LEMMA GotoStep ==
  ASSUME BackedInv, NEW pc, Goto(pc), pc \notin Watched,
         auto' = auto, committed' = committed
  PROVE  BackedInv'
<1>1. drv'.pc = pc /\ DriverShape(drv')
  BY DEF Goto, BackedInv, Shapes, DriverShape
<1> QED BY <1>1, OthersStep

\* Where execute leads.
LEMMA ExecuteGoes ==
  ASSUME BackedInv, NEW r \in Runs, Execute(r)
  PROVE  /\ drv'.pc \in {"reconcile", "compare", "context"}
         /\ DriverShape(drv')
BY DEF Execute, Returned, BackedInv, Shapes, DriverShape

LEMMA ReviewersStep ==
  ASSUME BackedInv, NEW p \in Reviewers, Reviewer(p) \/ CrashReviewer(p)
  PROVE  BackedInv'
<1>1. auto' = auto /\ drv' = drv /\ committed \subseteq committed'
  <2>1. ASSUME NEW c \in Candidates, NEW a \in Actions, ReviewLoad(p, c, a)
        PROVE  auto' = auto /\ drv' = drv /\ committed' = committed
    BY <2>1 DEF ReviewLoad, ledger
  <2>2. ASSUME NEW c \in Candidates, ActivateLoad(p, c)
        PROVE  auto' = auto /\ drv' = drv /\ committed' = committed
    BY <2>2 DEF ActivateLoad, ledger
  <2>3. CASE PublishDecision(p)
    BY <2>3 DEF PublishDecision, ledger
  <2>4. CASE WriteDecisions(p) \/ SaveReview(p) \/ SaveActivation(p) \/ CrashReviewer(p)
    BY <2>4 DEF WriteDecisions, SaveReview, SaveActivation, CrashReviewer, Receipt, ledger
  <2>5. CASE Activate(p)
    BY <2>5 DEF Activate, Commit, Receipt, ledger
  <2> QED BY <2>1, <2>2, <2>3, <2>4, <2>5 DEF Reviewer
<1> QED BY <1>1, OthersStep DEF BackedInv, Shapes

\* Memory for the second run: what the query found was active, and stays activated.
LEMMA ContextStep ==
  ASSUME BackedInv, QueryContext \/ CheckSource \/ WriteContext
  PROVE  BackedInv'
<1>0. auto' = auto /\ committed' = committed
  BY DEF QueryContext, CheckSource, WriteContext, ledger
<1>a. \A c : Activated(c)' = Activated(c)
  BY <1>0 DEF Activated
<1>s. DriverShape(drv)
  BY DEF BackedInv, Shapes
<1>1. CASE QueryContext
  <2>1. CASE Goto("result")
    BY <1>0, <2>1, GotoStep DEF Watched
  <2>2. CASE ~Goto("result")
    <3>1. PICK found \in SUBSET {c \in Candidates : ActiveMemory(c)} :
            drv' = [drv EXCEPT !.pc = "sources", !.found = found, !.todo = found]
      BY <1>1, <2>2 DEF QueryContext
    <3>2. drv'.pc = "sources" /\ drv'.found = found /\ DriverShape(drv')
      BY <1>s, <3>1 DEF DriverShape
    <3>3. ScheduledAfter' /\ ReadSoFar'
      BY <1>a, <3>2 DEF ScheduledAfter, ReadSoFar, ActiveMemory
    <3> QED BY <1>0, <3>2, <3>3, ReadingStep
  <2> QED BY <2>1, <2>2
<1>2. CASE CheckSource
  <2>0. drv.pc = "sources"
    BY <1>2 DEF CheckSource, At
  <2>1. PICK c \in drv.todo : \/ drv' = [drv EXCEPT !.todo = @ \ {c}]
                              \/ drv' = [drv EXCEPT !.pc = "failed", !.found = {}, !.todo = {}]
    BY <1>2 DEF CheckSource
  <2>2. CASE drv' = [drv EXCEPT !.todo = @ \ {c}]
    <3>1. drv'.pc = "sources" /\ drv'.found = drv.found /\ DriverShape(drv')
      BY <1>s, <2>0, <2>2 DEF DriverShape
    <3>2. ScheduledAfter' /\ ReadSoFar'
      BY <1>a, <2>0, <3>1 DEF BackedInv, ScheduledAfter, ReadSoFar
    <3> QED BY <1>0, <3>1, <3>2, ReadingStep
  <2>3. CASE drv' = [drv EXCEPT !.pc = "failed", !.found = {}, !.todo = {}]
    <3>1. drv'.pc = "failed" /\ DriverShape(drv')
      BY <1>s, <2>3 DEF DriverShape
    <3> QED BY <1>0, <3>1, OthersStep DEF Watched
  <2> QED BY <2>1, <2>2, <2>3
<1>3. CASE WriteContext
  <2>1. drv'.pc = "result" /\ DriverShape(drv')
    BY <1>s, <1>3 DEF WriteContext, DriverShape
  <2> QED BY <1>0, <2>1, OthersStep DEF Watched
<1> QED BY <1>1, <1>2, <1>3

LEMMA RunStep ==
  ASSUME BackedInv,
         CallBackend \/ WriteEvidence \/ Evaluate \/ SaveOutcome \/ Reflect
           \/ CreateCandidate \/ WriteSuggestions \/ SaveRun \/ Interrupt
  PROVE  BackedInv'
<1>2. CASE CallBackend
  BY <1>2, GotoStep DEF CallBackend, ledger, Watched
<1>3. CASE WriteEvidence \/ SaveOutcome \/ Reflect \/ WriteSuggestions \/ Interrupt
  BY <1>3, GotoStep DEF WriteEvidence, SaveOutcome, Reflect, WriteSuggestions, Interrupt, ledger,
     Watched
<1>4. CASE Evaluate
  BY <1>4, GotoStep DEF Evaluate, ledger, Watched
<1>5. CASE CreateCandidate
  <2>1. auto' = auto /\ committed' = committed /\ (drv' = drv \/ Goto("suggestions"))
    BY <1>5 DEF CreateCandidate, ledger
  <2> QED BY <2>1, GotoStep, OthersStep DEF BackedInv, Shapes, Watched
<1>6. CASE SaveRun
  <2>1. auto' = auto /\ committed' = committed
    BY <1>6 DEF SaveRun, ledger
  <2>2. drv'.pc \in {"reconcile", "compare"} /\ DriverShape(drv')
    BY <1>6 DEF SaveRun, Returned, BackedInv, Shapes, DriverShape
  <2> QED BY <2>1, <2>2, OthersStep DEF Watched
<1> QED BY <1>2, <1>3, <1>4, <1>5, <1>6

\* The coordinator looks each accepted candidate up before it counts it.
LEMMA ReviewStateStep ==
  ASSUME BackedInv, ReviewState
  PROVE  BackedInv'
<1>1. committed' = committed /\ drv.pc = "reconcile" /\ DriverShape(drv)
  BY DEF ReviewState, ledger, At, BackedInv, Shapes
<1>2. CASE ReviewTarget(drv.seen) = {}
  <2>0. auto' = auto
    BY <1>2 DEF ReviewState
  <2>1. CASE ToLookUp(drv.seen)
    <3>1. drv' = [drv EXCEPT !.pc = "looking", !.todo = Accepted(drv.seen)]
      BY <1>2, <2>1 DEF ReviewState
    <3>2. /\ drv'.pc = "looking" /\ drv'.todo = Accepted(drv.seen) /\ drv'.seen = drv.seen
          /\ DriverShape(drv')
      BY <1>1, <3>1 DEF DriverShape
    <3>3. Accepted(drv.seen) # {}
      BY <2>1 DEF ToLookUp, AllActivated
    <3>4. ScheduledAfter' /\ ReadSoFar'
      BY <3>2, <3>3 DEF ScheduledAfter, ReadSoFar, Accepted
    <3> QED BY <1>1, <2>0, <3>2, <3>4, ReadingStep
  <2>2. CASE ~ToLookUp(drv.seen)
    <3>1. Goto(IF auto.state = "memory_activated" THEN "schedule" ELSE "idle")
      BY <1>2, <2>2 DEF ReviewState, Goto
    <3>2. /\ drv'.pc = IF auto.state = "memory_activated" THEN "schedule" ELSE "idle"
          /\ DriverShape(drv')
      BY <1>1, <3>1 DEF Goto, DriverShape
    <3>3. ScheduledAfter' /\ ReadSoFar'
      BY <2>0, <3>2 DEF ScheduledAfter, ReadSoFar
    <3> QED BY <1>1, <2>0, <3>2, <3>3, ReadingStep
  <2> QED BY <2>1, <2>2
<1>3. CASE ReviewTarget(drv.seen) # {}
  <2>1. PICK s \in ReviewTarget(drv.seen) : auto' = [state |-> s, accepted |-> Accepted(drv.seen)]
    BY <1>3 DEF ReviewState
  <2>2. drv' = drv
    BY <1>3 DEF ReviewState
  <2>3. s \notin {"memory_activated", "verification_scheduled"}
    BY <2>1 DEF ReviewTarget
  <2>4. auto'.state = s /\ auto'.accepted = Accepted(drv.seen)
    BY <2>1
  <2>5. Shapes' /\ ScheduledAfter' /\ ReadSoFar' /\ ActivatedBacked'
    BY <1>1, <2>1, <2>2, <2>3, <2>4 DEF Shapes, ScheduledAfter, ReadSoFar, ActivatedBacked
  <2> QED BY <2>5 DEF BackedInv
<1> QED BY <1>2, <1>3

LEMMA LookingStep ==
  ASSUME BackedInv, LookUp \/ CountActivated
  PROVE  BackedInv'
<1>1. /\ drv.pc = "looking" /\ committed' = committed /\ DriverShape(drv)
      /\ Accepted(drv.seen) # {} /\ \A c \in Accepted(drv.seen) \ drv.todo : Activated(c)
  BY DEF LookUp, CountActivated, At, ledger, BackedInv, Shapes, ReadSoFar
<1>a. \A c : Activated(c)' = Activated(c)
  BY <1>1 DEF Activated
<1>2. CASE LookUp
  <2>0. auto' = auto
    BY <1>2 DEF LookUp
  <2>1. PICK c \in drv.todo : drv' = IF ActiveMemory(c) THEN [drv EXCEPT !.todo = @ \ {c}]
                                     ELSE [drv EXCEPT !.pc = "failed", !.todo = {}]
    BY <1>2 DEF LookUp
  <2>2. CASE ActiveMemory(c)
    <3>1. /\ drv'.pc = "looking" /\ drv'.todo = drv.todo \ {c} /\ drv'.seen = drv.seen
          /\ DriverShape(drv')
      BY <1>1, <2>1, <2>2 DEF DriverShape
    <3>2. \A e \in Accepted(drv.seen) \ (drv.todo \ {c}) : Activated(e)
      BY <1>1, <2>2 DEF ActiveMemory
    <3>3. ScheduledAfter' /\ ReadSoFar'
      BY <1>1, <1>a, <3>1, <3>2 DEF ScheduledAfter, ReadSoFar, Accepted
    <3> QED BY <1>1, <2>0, <3>1, <3>3, ReadingStep
  <2>3. CASE ~ActiveMemory(c)
    <3>1. drv'.pc = "failed" /\ DriverShape(drv')
      BY <1>1, <2>1, <2>3 DEF DriverShape
    <3> QED BY <1>1, <2>0, <3>1, OthersStep DEF Watched
  <2> QED BY <2>2, <2>3
<1>3. CASE CountActivated
  <2>1. drv.todo = {} /\ auto' = [state |-> "memory_activated", accepted |-> Accepted(drv.seen)]
        /\ Goto("reconcile")
    BY <1>3 DEF CountActivated
  <2>2. drv'.pc = "reconcile" /\ DriverShape(drv')
    BY <1>1, <2>1 DEF Goto, DriverShape
  <2>3. auto'.state = "memory_activated" /\ auto'.accepted = Accepted(drv.seen)
    BY <2>1
  <2>4. ActivatedBacked'
    BY <1>1, <1>a, <2>1, <2>3 DEF ActivatedBacked
  <2>5. Shapes' /\ ScheduledAfter' /\ ReadSoFar'
    BY <2>1, <2>2, <2>3 DEF Shapes, ScheduledAfter, ReadSoFar
  <2> QED BY <2>4, <2>5 DEF BackedInv
<1> QED BY <1>2, <1>3

LEMMA CoordinatorStep ==
  ASSUME BackedInv,
         Advance \/ Reconcile \/ RecordError \/ ScheduleVerification
           \/ NoVerificationTask \/ Compare \/ SaveComparison \/ Conclude
           \/ DecideElsewhere \/ Retire \/ CrashDriver
  PROVE  BackedInv'
<1>s. DriverShape(drv)
  BY DEF BackedInv, Shapes
<1>1. CASE Advance
  <2>1. PICK r \in Runs : Execute(r)
    BY <1>1 DEF Advance, Runs, Baseline
  <2>2. drv'.pc \notin Watched /\ DriverShape(drv')
    BY <2>1, ExecuteGoes DEF Watched
  <2>3. committed' = committed
    BY <1>1 DEF Advance, ledger
  <2>4. auto' = auto \/ auto' = [auto EXCEPT !.state = "task_created"]
    BY <1>1 DEF Advance
  <2> QED BY <2>2, <2>3, <2>4, OthersStep, UnbackedStep
<1>2. CASE Reconcile
  <2>1. PICK i \in 2..6 : Transition(ArtifactStates[i][1])
    BY <1>2 DEF Reconcile, NextArtifactState, ArtifactStates
  <2>2. ArtifactStates[i][1] \notin {"memory_activated", "verification_scheduled"}
    BY DEF ArtifactStates
  <2>3. drv' = drv /\ drv.pc \notin Watched
    BY <1>2 DEF Reconcile, Watched
  <2> QED BY <1>s, <2>1, <2>2, <2>3, UnbackedStep DEF Transition
<1>3. CASE ScheduleVerification
  <2>1. drv'.pc \notin Watched /\ DriverShape(drv')
    BY <1>3, ExecuteGoes DEF ScheduleVerification, Runs, Watched
  <2>2. auto' = [auto EXCEPT !.state = "verification_scheduled"] /\ committed' = committed
        /\ auto.state = "memory_activated"
    BY <1>3 DEF ScheduleVerification, Transition, ledger, At, BackedInv, ScheduledAfter
  <2>3. auto'.state = "verification_scheduled" /\ auto'.accepted = auto.accepted
        /\ auto' = [state |-> auto'.state, accepted |-> auto'.accepted]
    BY <2>2 DEF BackedInv, Shapes
  <2>4. ActivatedBacked'
    BY <2>2, <2>3 DEF BackedInv, ActivatedBacked, Activated
  <2> QED BY <2>1, <2>3, <2>4 DEF BackedInv, Shapes, ScheduledAfter, ReadSoFar, Watched
<1>4. CASE RecordError \/ NoVerificationTask \/ SaveComparison
  BY <1>4, GotoStep DEF RecordError, NoVerificationTask, SaveComparison, ledger, Watched
<1>5. CASE Compare
  <2>1. auto' = auto /\ committed' = committed
    BY <1>5 DEF Compare, ledger
  <2>2. drv'.pc = "compared" /\ DriverShape(drv')
    BY <1>5, <1>s DEF Compare, DriverShape
  <2> QED BY <2>1, <2>2, OthersStep DEF Watched
<1>6. CASE Conclude
  <2>1. drv'.pc = "idle" /\ DriverShape(drv')
    BY <1>6, <1>s DEF Conclude, Goto, DriverShape
  <2> QED BY <1>6, <2>1, UnbackedStep DEF Conclude, Transition, Verdict, Watched
<1>7. CASE DecideElsewhere \/ Retire
  <2>1. auto' = auto /\ drv' = drv /\ committed \subseteq committed'
    BY <1>7 DEF DecideElsewhere, Retire, Receipt
  <2> QED BY <1>s, <2>1, OthersStep
<1>8. CASE CrashDriver
  <2>1. auto' = auto /\ committed' = committed
    BY <1>8 DEF CrashDriver, ledger
  <2>2. drv'.pc = "idle" /\ DriverShape(drv')
    BY <1>8, <1>s DEF CrashDriver, DriverShape
  <2> QED BY <2>1, <2>2, OthersStep DEF Watched
<1> QED BY <1>1, <1>2, <1>3, <1>4, <1>5, <1>6, <1>7, <1>8

\* The coordinator's state and local records, whoever acts.
LEMMA Backing == Spec => []BackedInv
<1>1. Init => BackedInv
  BY LearningRunAssumption DEF Init, BackedInv, Shapes, DriverShape, ScheduledAfter, ReadSoFar,
     ActivatedBacked
<1>2. BackedInv /\ [Next]_vars => BackedInv'
  <2>1. ASSUME BackedInv, UNCHANGED vars PROVE BackedInv'
    BY <2>1, OthersStep DEF vars, ledger, BackedInv, Shapes
  <2>2. ASSUME BackedInv, Next PROVE BackedInv'
    BY <2>2, ReviewersStep, ContextStep, RunStep, ReviewStateStep, LookingStep, CoordinatorStep
       DEF Next, Driver
  <2> QED BY <2>1, <2>2
<1> QED BY <1>1, <1>2, PTL DEF Spec

\* However reviewers overwrite each other's files, whatever is decided elsewhere
\* and wherever a process is killed: a loop that counts its memory as activated has
\* accepted something, and a committed decision activated all of it.
THEOREM ActivatedBackedAlways == Spec => []ActivatedBacked
<1>1. BackedInv => ActivatedBacked
  BY DEF BackedInv
<1> QED BY <1>1, Backing, PTL

-----------------------------------------------------------------------------
(* A loop that ends verified.                                              *)

\* Every run and every call keeps its shape.
RunShape(x) == x = [state |-> x.state, cands |-> x.cands, reviewed |-> x.reviewed,
                    activated |-> x.activated]
DataShape(x) == x = [sources |-> x.sources, mentions |-> x.mentions, missed |-> x.missed]
CallShape(x) == x = [pc |-> x.pc, cand |-> x.cand, action |-> x.action, run |-> x.run,
                     file |-> x.file]
RunShapes ==
  /\ run = [r \in Runs |-> run[r]] /\ art = [r \in Runs |-> art[r]]
  /\ data = [r \in Runs |-> data[r]] /\ rev = [p \in Reviewers |-> rev[p]]
  /\ \A r \in Runs : RunShape(run[r]) /\ DataShape(data[r])
  /\ drv.run \in Runs /\ (drv.pc = "compared" => RunShape(drv.seen))

\* A run cites what it was given, was given what was activated, and has both from
\* its files; what it missed is in its outcome.
DataOf(r) ==
  /\ data[r].mentions \subseteq data[r].sources
  /\ \A c \in data[r].sources : Activated(c)
  /\ data[r].sources # {} => "context" \in art[r]
  /\ data[r].missed # {} => "outcome" \in art[r]

\* A call works on copies in which the candidates are those of the run.
CallOf(x) ==
  x # Idle =>
    /\ CallShape(x) /\ RunShape(x.run)
    /\ x.run.cands = run[Baseline].cands
    /\ x.cand \in run[Baseline].cands
    /\ DOMAIN x.file \subseteq run[Baseline].cands

CandidatesNamed ==
  /\ run[Baseline].cands # {} => run[Baseline].cands = Missed(Baseline)
  /\ DOMAIN file \subseteq run[Baseline].cands
  /\ \A p \in Reviewers : CallOf(rev[p])

\* A run that goes on past its answer, or has finished, has it in a file; one that
\* still reads its memory has no context yet.
AfterResult == {"evidence", "outcome", "outcome_state", "reflection", "candidates",
                "suggestions", "save"}
Comparing == {"compare", "compared", "conclude"}
ResultThere ==
  /\ run["verification"].state \in Finished => "result" \in art["verification"]
  /\ drv.pc \in AfterResult => "result" \in art[drv.run]
  /\ drv.pc = "sources" => "context" \notin art[drv.run]
  /\ drv.pc \in Comparing => "result" \in art["verification"]

\* The second run, whose answer is fixed, cited a candidate of the first.
Improved ==
  /\ "result" \in art["verification"]
  /\ run[Baseline].cands \cap data["verification"].mentions # {}

VerdictInv ==
  /\ RunShapes
  /\ \A r \in Runs : DataOf(r)
  /\ CandidatesNamed
  /\ ResultThere
  /\ drv.pc \in {"compared", "conclude"} /\ drv.passed => Improved
  /\ auto.state = "verified" /\ auto.accepted # {} => Improved

LEMMA VerdictParts ==
  ASSUME VerdictInv
  PROVE  /\ RunShapes /\ (\A r \in Runs : DataOf(r)) /\ CandidatesNamed /\ ResultThere
         /\ drv.pc \in {"compared", "conclude"} /\ drv.passed => Improved
         /\ auto.state = "verified" /\ auto.accepted # {} => Improved
BY DEF VerdictInv

\* Nothing is written but states of runs, the driver's record and the coordinator's.
LEMMA GoesOn ==
  ASSUME VerdictInv, RunShapes', UNCHANGED <<art, data, file, rev>>, committed \subseteq committed',
         run'[Baseline].cands = run[Baseline].cands, ResultThere',
         drv'.pc \in {"compared", "conclude"} /\ drv'.passed => Improved,
         auto'.state = "verified" /\ auto'.accepted # {} => Improved
  PROVE  VerdictInv'
<1>1. \A r \in Runs : DataOf(r)'
  BY DEF VerdictInv, DataOf, Activated
<1>2. CandidatesNamed'
  BY DEF VerdictInv, CandidatesNamed, CallOf, Missed
<1>3. Improved => Improved'
  BY DEF Improved
<1> QED BY <1>1, <1>2, <1>3 DEF VerdictInv

LEMMA GotoIs ==
  ASSUME Shapes, NEW pc, Goto(pc)
  PROVE  /\ drv'.pc = pc /\ drv'.run = drv.run /\ drv'.seen = drv.seen
         /\ drv'.passed = drv.passed
BY DEF Shapes, DriverShape, Goto

\* One run writes a state, an artifact or what the artifact says, and goes on.
LEMMA WriteStep ==
  ASSUME VerdictInv, NEW r \in Runs, NEW pc, drv'.pc = pc, drv'.run = r,
         pc \notin {"compared", "conclude", "sources"},
         UNCHANGED <<auto, file, rev, committed>>,
         NEW x, run' = [run EXCEPT ![r] = x], RunShape(x), x.cands = run[r].cands,
         x.state \in Finished => x.state = run[r].state \/ "result" \in art[r],
         NEW a, art' = [art EXCEPT ![r] = a], art[r] \subseteq a,
         NEW d, data' = [data EXCEPT ![r] = d], DataShape(d),
         d.mentions \subseteq d.sources, \A c \in d.sources : Activated(c),
         d.sources # {} => "context" \in a, d.missed # {} => "outcome" \in a,
         "result" \in art[r] => d.mentions = data[r].mentions,
         "outcome" \in art[r] => d.missed = data[r].missed,
         pc \in AfterResult => "result" \in a,
         pc \in Comparing => r = "verification" /\ "result" \in a
  PROVE  VerdictInv'
<1>t. RunShapes /\ (\A q \in Runs : DataOf(q)) /\ CandidatesNamed /\ ResultThere
  BY VerdictParts
<1>r. Baseline \in Runs /\ "verification" \in Runs
  BY DEF Runs, Baseline
<1>1. /\ \A q \in Runs : run'[q] = IF q = r THEN x ELSE run[q]
      /\ \A q \in Runs : art'[q] = IF q = r THEN a ELSE art[q]
      /\ \A q \in Runs : data'[q] = IF q = r THEN d ELSE data[q]
  BY <1>t DEF RunShapes
<1>2. drv'.pc = pc /\ drv'.run = r
  OBVIOUS
<1>3. RunShapes'
  <2>1. /\ run' = [q \in Runs |-> run'[q]] /\ art' = [q \in Runs |-> art'[q]]
        /\ data' = [q \in Runs |-> data'[q]]
    BY <1>t DEF RunShapes
  <2>2. \A q \in Runs : RunShape(run'[q]) /\ DataShape(data'[q])
    BY <1>t, <1>1 DEF RunShapes
  <2> QED BY <1>t, <1>2, <2>1, <2>2, ZenonT(30) DEF RunShapes, RunShape, DataShape
<1>4. ASSUME NEW q \in Runs PROVE DataOf(q)'
  <2>1. CASE q = r
    <3>1. data'[q] = d /\ art'[q] = a
      BY <1>1, <2>1
    <3> QED BY <3>1 DEF DataOf, Activated
  <2>2. CASE q # r
    <3>1. data'[q] = data[q] /\ art'[q] = art[q]
      BY <1>1, <2>2
    <3> QED BY <1>t, <3>1 DEF DataOf, Activated
  <2> QED BY <2>1, <2>2
<1>5. run'[Baseline].cands = run[Baseline].cands
  BY <1>1, <1>r
<1>6. CandidatesNamed'
  <2>1. ASSUME run[Baseline].cands # {} PROVE Missed(Baseline)' = Missed(Baseline)
    <3>1. Missed(Baseline) # {}
      BY <1>t, <2>1 DEF CandidatesNamed
    <3>2. data[Baseline].missed # {}
      BY <3>1 DEF Missed
    <3>3. "outcome" \in art[Baseline]
      BY <1>t, <1>r, <3>2 DEF DataOf
    <3>4. data'[Baseline].missed = data[Baseline].missed
      BY <1>1, <1>r, <3>3
    <3> QED BY <3>4 DEF Missed
  <2> QED BY <1>t, <1>5, <2>1 DEF CandidatesNamed, CallOf
<1>7. \A q \in Runs : art[q] \subseteq art'[q]
  BY <1>1
<1>8. ResultThere'
  <2>1. run'["verification"].state \in Finished => "result" \in art'["verification"]
    BY <1>t, <1>1, <1>r, <1>7 DEF ResultThere
  <2> QED BY <1>1, <1>2, <2>1 DEF ResultThere
<1>9. Improved => Improved'
  BY <1>1, <1>5, <1>7, <1>r DEF Improved
<1> QED BY <1>2, <1>3, <1>4, <1>6, <1>8, <1>9 DEF VerdictInv

LEMMA ExecutionStep ==
  ASSUME VerdictInv, Shapes, ReadSoFar,
         \/ QueryContext \/ CheckSource \/ WriteContext \/ CallBackend \/ Interrupt \/ WriteEvidence \/ Evaluate \/ SaveOutcome
         \/ Reflect \/ WriteSuggestions \/ RecordError \/ NoVerificationTask \/ CrashDriver
  PROVE  VerdictInv'
<1> DEFINE r == drv.run
<1>t. /\ RunShapes /\ DataOf(r) /\ ResultThere /\ r \in Runs
      /\ RunShape(run[r]) /\ DataShape(data[r])
  BY VerdictParts DEF RunShapes
<1>s. /\ run = [run EXCEPT ![r] = run[r]] /\ art = [art EXCEPT ![r] = art[r]]
      /\ data = [data EXCEPT ![r] = data[r]]
  BY <1>t DEF RunShapes
<1>d. /\ data[r].mentions \subseteq data[r].sources /\ \A c \in data[r].sources : Activated(c)
      /\ data[r].sources # {} => "context" \in art[r]
      /\ data[r].missed # {} => "outcome" \in art[r]
  BY <1>t DEF DataOf
<1>g. \A pc : Goto(pc) => drv'.pc = pc /\ drv'.run = r
  BY GotoIs
\* A state and an artifact.
<1>1. ASSUME NEW pc, drv'.pc = pc, drv'.run = r,
             pc \notin {"compared", "conclude", "sources"} \cup Comparing,
             UNCHANGED <<auto, file, rev, committed, data>>,
             NEW s, run' = run \/ run' = State(r, s), s \in Finished => "result" \in art[r],
             NEW new, art' = art \/ art' = [art EXCEPT ![r] = @ \cup new],
             pc \in AfterResult => "result" \in art[r]
      PROVE  VerdictInv'
  <2>1. PICK x : /\ run' = [run EXCEPT ![r] = x] /\ RunShape(x) /\ x.cands = run[r].cands
                 /\ x.state \in Finished => x.state = run[r].state \/ "result" \in art[r]
    <3>1. CASE run' = run
      BY <1>s, <1>t, <3>1
    <3>2. CASE run' = State(r, s)
      <4> DEFINE y == [run[r] EXCEPT !.state = s]
      <4>1. run' = [run EXCEPT ![r] = y]
        BY <3>2 DEF State
      <4>2. RunShape(y) /\ y.cands = run[r].cands /\ y.state = s
        BY <1>t DEF RunShape
      <4> QED BY <1>1, <4>1, <4>2
    <3> QED BY <1>1, <3>1, <3>2
  <2>2. PICK a : art' = [art EXCEPT ![r] = a] /\ art[r] \subseteq a
    <3>1. CASE art' = art
      BY <1>s, <3>1
    <3>2. CASE art' # art
      <4>1. art' = [art EXCEPT ![r] = art[r] \cup new]
        BY <1>1, <3>2
      <4> QED BY <4>1
    <3> QED BY <3>1, <3>2
  <2>3. data' = [data EXCEPT ![r] = data[r]]
    BY <1>s, <1>1
  <2> QED BY <1>1, <1>d, <1>t, <2>1, <2>2, <2>3, WriteStep
<1>2. CASE QueryContext
  <2>1. UNCHANGED <<run, art, data, auto, file, rev, committed>>
    BY <1>2 DEF QueryContext, ledger
  <2>2. CASE "context" \in art[r]
    <3>1. drv'.pc = "result" /\ drv'.run = r
      BY <1>2, <1>g, <2>2 DEF QueryContext
    <3> QED BY <1>1, <2>1, <3>1 DEF AfterResult, Comparing, Finished
  <2>3. CASE "context" \notin art[r]
    <3>1. PICK found : drv' = [drv EXCEPT !.pc = "sources", !.found = found, !.todo = found]
      BY <1>2, <2>3 DEF QueryContext
    <3>2. drv'.pc = "sources" /\ drv'.run = r
      BY <3>1 DEF Shapes, DriverShape
    <3>3. RunShapes'
      BY <1>t, <2>1, <3>2 DEF RunShapes, RunShape, DataShape
    <3>4. ResultThere'
      BY <1>t, <2>1, <2>3, <3>2 DEF ResultThere, AfterResult, Comparing
    <3>5. auto'.state = "verified" /\ auto'.accepted # {} => Improved
      BY <2>1, VerdictParts
    <3> QED BY <2>1, <3>2, <3>3, <3>4, <3>5, GoesOn
  <2> QED BY <2>2, <2>3
<1>8. CASE CheckSource
  <2>1. UNCHANGED <<art, data, auto, file, rev, committed>> /\ drv.pc = "sources"
    BY <1>8 DEF CheckSource, ledger, At
  <2>2. PICK c \in drv.todo :
          \/ drv' = [drv EXCEPT !.todo = @ \ {c}] /\ UNCHANGED run
          \/ /\ drv' = [drv EXCEPT !.pc = "failed", !.found = {}, !.todo = {}]
             /\ run' = State(r, "interrupted")
    BY <1>8 DEF CheckSource
  <2>3. CASE drv' = [drv EXCEPT !.todo = @ \ {c}] /\ UNCHANGED run
    <3>2. drv'.pc = "sources" /\ drv'.run = r
      BY <2>1, <2>3 DEF Shapes, DriverShape
    <3>3. RunShapes'
      BY <1>t, <2>1, <2>3, <3>2 DEF RunShapes, RunShape, DataShape
    <3>4. ResultThere'
      BY <1>t, <2>1, <2>3, <3>2 DEF ResultThere, AfterResult, Comparing
    <3>5. auto'.state = "verified" /\ auto'.accepted # {} => Improved
      BY <2>1, VerdictParts
    <3> QED BY <2>1, <2>3, <3>2, <3>3, <3>4, <3>5, GoesOn
  <2>4. CASE /\ drv' = [drv EXCEPT !.pc = "failed", !.found = {}, !.todo = {}]
             /\ run' = State(r, "interrupted")
    <3>1. drv'.pc = "failed" /\ drv'.run = r
      BY <2>4 DEF Shapes, DriverShape
    <3> QED BY <1>1, <2>1, <2>4, <3>1 DEF Comparing, AfterResult, Finished
  <2> QED BY <2>2, <2>3, <2>4
<1>9. CASE WriteContext
  <2>1. UNCHANGED <<auto, file, rev, committed>> /\ drv.pc = "sources"
    BY <1>9 DEF WriteContext, ledger, At
  <2>2. "context" \notin art[r] /\ \A c \in drv.found : Activated(c)
    BY <1>t, <2>1 DEF ResultThere, ReadSoFar
  <2>3. drv'.pc = "result" /\ drv'.run = r
    BY <1>9 DEF WriteContext, Shapes, DriverShape
  <2> DEFINE d == [data[r] EXCEPT !.sources = drv.found]
             x == [run[r] EXCEPT !.state = "context_ready"]
             a == art[r] \cup {"context"}
  <2>4. /\ data' = [data EXCEPT ![r] = d] /\ run' = [run EXCEPT ![r] = x]
        /\ art' = [art EXCEPT ![r] = a]
    BY <1>9 DEF WriteContext, State
  <2>5. /\ DataShape(d) /\ d.mentions = data[r].mentions /\ d.missed = data[r].missed
        /\ d.sources = drv.found
    BY <1>t DEF DataShape
  <2>6. d.mentions = {} /\ \A c \in d.sources : Activated(c)
    BY <1>d, <2>2, <2>5
  <2>7. RunShape(x) /\ x.cands = run[r].cands /\ x.state \notin Finished
    BY <1>t DEF RunShape, Finished
  <2>8. "context" \in a /\ art[r] \subseteq a
    OBVIOUS
  <2> HIDE DEF d, x, a
  <2> QED BY <1>d, <1>t, <2>1, <2>3, <2>4, <2>5, <2>6, <2>7, <2>8, WriteStep,
              ZenonT(30) DEF AfterResult, Comparing
<1>3. CASE CallBackend
  <2>1. drv'.pc = "evidence" /\ drv'.run = r /\ UNCHANGED <<auto, file, rev, committed>>
    BY <1>3, <1>g DEF CallBackend, ledger
  <2>2. CASE "result" \in art[r]
    BY <1>1, <1>3, <2>1, <2>2 DEF CallBackend, Comparing
  <2>3. CASE "result" \notin art[r]
    <3>1. PICK cited \in SUBSET data[r].sources : data' = [data EXCEPT ![r].mentions = cited]
      BY <1>3, <2>3 DEF CallBackend
    <3> DEFINE d == [data[r] EXCEPT !.mentions = cited]
               x == [run[r] EXCEPT !.state = "running"]
               a == art[r] \cup {"result"}
    <3>2. data' = [data EXCEPT ![r] = d] /\ run' = [run EXCEPT ![r] = x]
          /\ art' = [art EXCEPT ![r] = a]
      BY <1>3, <2>3, <3>1 DEF CallBackend, State
    <3>3. /\ DataShape(d) /\ d.mentions = cited /\ d.missed = data[r].missed
          /\ d.sources = data[r].sources
      BY <1>t DEF DataShape
    <3>5. RunShape(x) /\ x.cands = run[r].cands /\ x.state \notin Finished
      BY <1>t DEF RunShape, Finished
    <3>6. "result" \in a /\ art[r] \subseteq a
      OBVIOUS
    <3> HIDE DEF d, x, a
    <3>7. /\ d.sources # {} => "context" \in a
          /\ d.missed # {} => "outcome" \in a
      BY <1>d, <3>3, <3>6
    <3>8. /\ d.mentions \subseteq d.sources /\ \A c \in d.sources : Activated(c)
          /\ "result" \in art[r] => d.mentions = data[r].mentions
          /\ "outcome" \in art[r] => d.missed = data[r].missed
      BY <1>d, <2>3, <3>1, <3>3
    <3>9. /\ "evidence" \in AfterResult => "result" \in a
          /\ "evidence" \in Comparing => r = "verification" /\ "result" \in a
          /\ x.state \in Finished => x.state = run[r].state \/ "result" \in art[r]
      BY <3>5, <3>6 DEF Comparing
    <3>10. drv'.pc = "evidence" /\ drv'.run = r /\ "evidence" \notin {"compared", "conclude", "sources"}
      BY <2>1
    <3> QED BY <1>t, <2>1, <3>2, <3>3, <3>5, <3>6, <3>7, <3>8, <3>9, <3>10, WriteStep
  <2> QED BY <2>2, <2>3
<1>4. CASE Evaluate
  <2>1. UNCHANGED <<run, auto, file, rev, committed>> /\ drv.pc = "outcome"
    BY <1>4 DEF Evaluate, ledger, At
  <2>2. "result" \in art[r]
    BY <1>t, <2>1 DEF ResultThere, AfterResult
  <2>3. CASE "outcome" \in art[r]
    <3>1. drv'.pc = "reflection" /\ drv'.run = r /\ UNCHANGED <<art, data>>
      BY <1>4, <1>g, <2>3 DEF Evaluate
    <3> QED BY <1>1, <2>1, <2>2, <3>1 DEF Comparing, Finished
  <2>4. CASE "outcome" \notin art[r]
    <3>1. PICK missed \in SUBSET Criteria : data' = [data EXCEPT ![r].missed = missed]
      BY <1>4, <2>4 DEF Evaluate
    <3> DEFINE d == [data[r] EXCEPT !.missed = missed]
               a == art[r] \cup {"outcome"}
    <3>2. data' = [data EXCEPT ![r] = d] /\ run' = [run EXCEPT ![r] = run[r]]
          /\ art' = [art EXCEPT ![r] = a] /\ drv'.pc = "outcome_state" /\ drv'.run = r
      BY <1>4, <1>g, <1>s, <2>1, <2>4, <3>1 DEF Evaluate
    <3>3. /\ DataShape(d) /\ d.mentions = data[r].mentions /\ d.sources = data[r].sources
      BY <1>t DEF DataShape
    <3>4. "outcome" \in a /\ art[r] \subseteq a /\ "result" \in a
      BY <2>2
    <3> HIDE DEF d, a
    <3>5. d.sources # {} => "context" \in a
      BY <1>d, <3>3, <3>4
    <3>6. /\ d.mentions \subseteq d.sources /\ \A c \in d.sources : Activated(c)
          /\ "result" \in art[r] => d.mentions = data[r].mentions
          /\ "outcome" \in art[r] => d.missed = data[r].missed
          /\ d.missed # {} => "outcome" \in a
      BY <1>d, <2>4, <3>3, <3>4
    <3>7. /\ "outcome_state" \notin {"compared", "conclude", "sources"}
          /\ "outcome_state" \in AfterResult => "result" \in a
          /\ "outcome_state" \in Comparing => r = "verification" /\ "result" \in a
      BY <3>4 DEF Comparing
    <3> QED BY <1>t, <2>1, <3>2, <3>3, <3>4, <3>5, <3>6, <3>7, WriteStep
  <2> QED BY <2>3, <2>4
<1>5. CASE WriteEvidence \/ SaveOutcome \/ Reflect \/ WriteSuggestions
  <2>1. drv.pc \in AfterResult /\ UNCHANGED <<auto, file, rev, committed, data>>
    BY <1>5 DEF WriteEvidence, SaveOutcome, Reflect, WriteSuggestions, At, AfterResult, ledger
  <2>2. "result" \in art[r]
    BY <1>t, <2>1 DEF ResultThere
  <2>3. drv'.pc \in {"outcome", "reflection", "candidates", "save"} /\ drv'.run = r
    BY <1>5, <1>g DEF WriteEvidence, SaveOutcome, Reflect, WriteSuggestions
  <2>4. \E s : run' = run \/ run' = State(r, s)
    BY <1>5 DEF WriteEvidence, SaveOutcome, Reflect, WriteSuggestions
  <2>5. \E new : art' = art \/ art' = [art EXCEPT ![r] = @ \cup new]
    BY <1>5 DEF WriteEvidence, SaveOutcome, Reflect, WriteSuggestions
  <2> QED BY <1>1, <2>1, <2>2, <2>3, <2>4, <2>5 DEF Comparing
<1>6. CASE Interrupt
  <2>1. /\ drv'.pc = "failed" /\ drv'.run = r /\ UNCHANGED <<auto, file, rev, committed, data, art>>
        /\ run' = State(r, "interrupted")
    BY <1>6, <1>g DEF Interrupt, ledger
  <2> QED BY <1>1, <2>1 DEF Comparing, AfterResult, Finished
<1>7. CASE RecordError \/ NoVerificationTask \/ CrashDriver
  <2>1. /\ drv'.pc = "idle" /\ drv'.run = r
        /\ UNCHANGED <<auto, file, rev, committed, data, art, run>>
    BY <1>7, <1>g DEF RecordError, NoVerificationTask, CrashDriver, ledger, loopVars, Shapes,
       DriverShape
  <2> QED BY <1>1, <2>1 DEF Comparing, AfterResult, Finished
<1> QED BY <1>2, <1>3, <1>4, <1>5, <1>6, <1>7, <1>8, <1>9

\* The run names its candidates: those it named before, if it did.
LEMMA SaveRunStep ==
  ASSUME VerdictInv, Shapes, SaveRun
  PROVE  VerdictInv'
<1> DEFINE r == drv.run
<1>t. RunShapes /\ (\A q \in Runs : DataOf(q)) /\ CandidatesNamed /\ ResultThere
  BY VerdictParts
<1>r. Baseline \in Runs /\ "verification" \in Runs /\ r \in Runs /\ Baseline # "verification"
  BY <1>t DEF Runs, Baseline, RunShapes
<1>1. /\ UNCHANGED <<art, data, file, rev, auto, committed>> /\ drv.pc = "save"
      /\ drv' = Returned(r, run'[r])
  BY DEF SaveRun, ledger, At
<1>2. PICK s : run' = [run EXCEPT ![r].cands = Missed(r), ![r].state = s]
  BY DEF SaveRun
<1> DEFINE x == [run[r] EXCEPT !.cands = Missed(r), !.state = s]
<1>3. run' = [run EXCEPT ![r] = x]
  BY <1>2
<1>4. RunShape(x) /\ x.cands = Missed(r)
  <2>1. RunShape(run[r])
    BY <1>t, <1>r DEF RunShapes
  <2> DEFINE w == [run[r] EXCEPT !.cands = Missed(r)]
  <2>w. w = [state |-> w.state, cands |-> Missed(r), reviewed |-> run[r].reviewed,
             activated |-> run[r].activated]
    BY <2>1 DEF RunShape
  <2>x. x = [w EXCEPT !.state = s]
    OBVIOUS
  <2> HIDE DEF w, x
  <2>2. x = [state |-> s, cands |-> Missed(r), reviewed |-> run[r].reviewed,
             activated |-> run[r].activated]
    BY <2>w, <2>x
  <2> QED BY <2>2 DEF RunShape
<1> HIDE DEF x
<1>5. \A q \in Runs : run'[q] = IF q = r THEN x ELSE run[q]
  BY <1>t, <1>3 DEF RunShapes
<1>6. /\ drv'.pc = IF r = "baseline" THEN "reconcile" ELSE "compare"
      /\ drv'.run = r
  BY <1>1 DEF Returned, Shapes, DriverShape
<1>7. RunShapes'
  <2>1. run' = [q \in Runs |-> run'[q]] /\ \A q \in Runs : RunShape(run'[q])
    BY <1>t, <1>3, <1>4, <1>5 DEF RunShapes
  <2> QED BY <1>t, <1>1, <1>6, <1>r, <2>1 DEF RunShapes, RunShape, DataShape
<1>8. "result" \in art[r]
  BY <1>t, <1>1 DEF ResultThere, AfterResult
<1>9. ResultThere'
  <2>1. run'["verification"].state \in Finished => "result" \in art["verification"]
    BY <1>t, <1>5, <1>8, <1>r DEF ResultThere
  <2>2. drv'.pc \notin AfterResult /\ drv'.pc # "sources"
    BY <1>6 DEF AfterResult
  <2>3. drv'.pc \in Comparing => r = "verification"
    BY <1>6, <1>r DEF Comparing, Runs
  <2> QED BY <1>1, <1>8, <2>1, <2>2, <2>3 DEF ResultThere
<1>10. run[Baseline].cands # {} => run'[Baseline].cands = run[Baseline].cands
  BY <1>t, <1>4, <1>5, <1>r DEF CandidatesNamed
<1>11. \A q \in Runs : DataOf(q)'
  BY <1>t, <1>1 DEF DataOf, Activated
<1>12. CandidatesNamed'
  <2>1. run'[Baseline].cands # {} => run'[Baseline].cands = Missed(Baseline)
    BY <1>t, <1>4, <1>5, <1>r DEF CandidatesNamed
  <2>2. Missed(Baseline)' = Missed(Baseline)
    BY <1>1 DEF Missed
  <2>3. DOMAIN file' \subseteq run'[Baseline].cands
    BY <1>t, <1>1, <1>10 DEF CandidatesNamed
  <2>4. ASSUME NEW p \in Reviewers PROVE CallOf(rev[p])'
    BY <1>t, <1>1, <1>10 DEF CandidatesNamed, CallOf
  <2> QED BY <2>1, <2>2, <2>3, <2>4 DEF CandidatesNamed
<1>13. Improved => Improved'
  BY <1>1, <1>10 DEF Improved
<1> QED BY <1>1, <1>6, <1>7, <1>9, <1>11, <1>12, <1>13 DEF VerdictInv

\* execute begins, or returns the status of a finished run.
LEMMA ExecuteStep ==
  ASSUME VerdictInv, Shapes, NEW r \in Runs, Execute(r), UNCHANGED <<art, data, file, rev, committed>>,
         auto'.state = "verified" /\ auto'.accepted # {} => Improved
  PROVE  VerdictInv'
<1>t. RunShapes /\ ResultThere
  BY VerdictParts
<1>r. Baseline \in Runs /\ "verification" \in Runs
  BY DEF Runs, Baseline
<1>1. CASE run[r].state \in Finished
  <2>1. /\ run' = run /\ drv'.run = r
        /\ drv'.pc = IF r = "baseline" THEN "reconcile" ELSE "compare"
    BY <1>1 DEF Execute, Returned, Shapes, DriverShape
  <2>2. ResultThere'
    BY <1>t, <1>1, <2>1 DEF ResultThere, Runs, AfterResult, Comparing
  <2>3. RunShapes'
    BY <1>t, <2>1 DEF RunShapes, RunShape, DataShape
  <2> QED BY <2>1, <2>2, <2>3, GoesOn
<1>2. CASE run[r].state \notin Finished
  <2>1. /\ drv'.pc = "context" /\ drv'.run = r
        /\ run' = State(r, "created") \/ run' = run
    BY <1>2 DEF Execute, Shapes, DriverShape
  <2>2. /\ run' = [q \in Runs |-> run'[q]]
        /\ \A q \in Runs : /\ RunShape(run'[q]) /\ run'[q].cands = run[q].cands
                           /\ run'[q].state \in {run[q].state, "created"}
    <3>1. CASE run' = run
      BY <1>t, <3>1 DEF RunShapes
    <3>2. CASE run' = State(r, "created")
      <4> DEFINE y == [run[r] EXCEPT !.state = "created"]
      <4>1. run' = [run EXCEPT ![r] = y]
        BY <3>2 DEF State
      <4>2. RunShape(y) /\ y.cands = run[r].cands /\ y.state = "created"
        BY <1>t DEF RunShapes, RunShape
      <4> HIDE DEF y
      <4> QED BY <1>t, <4>1, <4>2 DEF RunShapes
    <3> QED BY <2>1, <3>1, <3>2
  <2>3. ResultThere'
    BY <1>t, <1>r, <2>1, <2>2 DEF ResultThere, Finished, AfterResult, Comparing
  <2>4. RunShapes'
    BY <1>t, <2>1, <2>2 DEF RunShapes, RunShape, DataShape
  <2> QED BY <1>r, <2>1, <2>2, <2>3, <2>4, GoesOn
<1> QED BY <1>1, <1>2

LEMMA CompareStep ==
  ASSUME VerdictInv, Shapes, Compare
  PROVE  VerdictInv'
<1>t. RunShapes /\ ResultThere /\ CandidatesNamed
  BY VerdictParts
<1>1. /\ UNCHANGED <<run, art, data, file, rev, auto, committed>> /\ drv.pc = "compare"
  BY DEF Compare, loopVars, ledger, At
<1>2. PICK challenged \in BOOLEAN :
        drv' = [drv EXCEPT !.pc = "compared", !.seen = run["verification"],
                           !.passed = Checks(challenged)]
  BY DEF Compare
<1>3. /\ drv'.pc = "compared" /\ drv'.run = drv.run /\ drv'.seen = run["verification"]
      /\ drv'.passed = Checks(challenged)
  BY <1>2 DEF Shapes, DriverShape
<1>4. "result" \in art["verification"]
  BY <1>t, <1>1 DEF ResultThere, Comparing
<1>5. Checks(challenged) => Improved
  <2> SUFFICES ASSUME Checks(challenged) PROVE Improved
    OBVIOUS
  <2>1. PICK c : c \in Of("accept") /\ c \in data["verification"].mentions
    BY DEF Checks
  <2>2. c \in run[Baseline].cands
    BY <1>t, <2>1 DEF Of, CandidatesNamed
  <2> QED BY <1>4, <2>1, <2>2 DEF Improved
<1>6. RunShapes'
  BY <1>t, <1>1, <1>3 DEF RunShapes, RunShape, DataShape, Runs
<1>7. ResultThere'
  BY <1>t, <1>1, <1>3, <1>4 DEF ResultThere, AfterResult
<1>8. auto'.state = "verified" /\ auto'.accepted # {} => Improved
  BY <1>1 DEF VerdictInv
<1> QED BY <1>1, <1>3, <1>5, <1>6, <1>7, <1>8, GoesOn

LEMMA SaveComparisonStep ==
  ASSUME VerdictInv, Shapes, SaveComparison
  PROVE  VerdictInv'
<1> DEFINE x == [drv.seen EXCEPT !.state = Verdict]
<1>t. RunShapes /\ ResultThere /\ CandidatesNamed /\ (\A q \in Runs : DataOf(q))
  BY VerdictParts
<1>r. Baseline \in Runs /\ "verification" \in Runs /\ Baseline # "verification"
  BY DEF Runs, Baseline
<1>1. /\ UNCHANGED <<data, file, rev, auto, committed>> /\ drv.pc = "compared"
      /\ run' = [run EXCEPT !["verification"] = x] /\ Goto("conclude")
      /\ art' = [art EXCEPT !["verification"] = art["verification"] \cup {"comparison"}]
  BY DEF SaveComparison, ledger, At
<1>2. RunShape(x)
  BY <1>t, <1>1 DEF RunShapes, RunShape
<1> HIDE DEF x
<1>3. \A q \in Runs : /\ run'[q] = IF q = "verification" THEN x ELSE run[q]
                      /\ art[q] \subseteq art'[q]
  BY <1>t, <1>1 DEF RunShapes
<1>4. drv'.pc = "conclude" /\ drv'.run = drv.run /\ drv'.passed = drv.passed
  BY <1>1, GotoIs
<1>5. "result" \in art["verification"]
  BY <1>t, <1>1 DEF ResultThere, Comparing
<1>6. RunShapes'
  <2>1. run' = [q \in Runs |-> run'[q]] /\ art' = [q \in Runs |-> art'[q]]
    BY <1>t, <1>1 DEF RunShapes
  <2>2. \A q \in Runs : RunShape(run'[q])
    BY <1>t, <1>2, <1>3 DEF RunShapes
  <2> QED BY <1>t, <1>1, <1>4, <2>1, <2>2 DEF RunShapes, RunShape, DataShape
<1>7. ResultThere'
  BY <1>3, <1>4, <1>5, <1>r DEF ResultThere, AfterResult
<1>8. \A q \in Runs : DataOf(q)'
  BY <1>t, <1>1, <1>3 DEF DataOf, Activated
<1>9. run'[Baseline] = run[Baseline]
  BY <1>3, <1>r
<1>10. CandidatesNamed'
  BY <1>t, <1>1, <1>9 DEF CandidatesNamed, CallOf, Missed
<1>11. Improved => Improved'
  BY <1>1, <1>3, <1>9, <1>r DEF Improved
<1> QED BY <1>1, <1>4, <1>6, <1>7, <1>8, <1>10, <1>11 DEF VerdictInv

\* The steps of the coordinator.
LEMMA CoordinationStep ==
  ASSUME VerdictInv, Shapes, Shapes',
         \/ Advance \/ Reconcile \/ ReviewState \/ LookUp \/ CountActivated
         \/ ScheduleVerification \/ Conclude \/ CreateCandidate \/ DecideElsewhere \/ Retire
  PROVE  VerdictInv'
<1> DEFINE Onward == {"idle", "schedule", "suggestions", "looking", "failed", "reconcile"}
<1>t. RunShapes /\ ResultThere
  BY VerdictParts
<1>v. /\ auto.state = "verified" /\ auto.accepted # {} => Improved
      /\ drv.pc \in {"compared", "conclude"} /\ drv.passed => Improved
  BY VerdictParts
<1>1. CASE Advance
  <2>1. PICK r \in Runs : Execute(r)
    BY <1>1 DEF Advance, Runs, Baseline
  <2>2. UNCHANGED <<art, data, file, rev, committed>>
    BY <1>1 DEF Advance, ledger
  <2>3. auto' = auto \/ auto' = [auto EXCEPT !.state = "task_created"]
    BY <1>1 DEF Advance
  <2>4. auto' = auto \/ auto'.state = "task_created"
    BY <2>3 DEF Shapes, DriverShape
  <2>5. auto'.state = "verified" /\ auto'.accepted # {} => Improved
    BY <1>v, <2>4
  <2> QED BY <2>1, <2>2, <2>5, ExecuteStep
<1>2. CASE ScheduleVerification
  <2>1. /\ Execute("verification") /\ UNCHANGED <<art, data, file, rev, committed>>
        /\ auto'.state = "verification_scheduled"
    BY <1>2 DEF ScheduleVerification, Transition, ledger, Shapes, DriverShape
  <2> QED BY <2>1, ExecuteStep DEF Runs
\* Only the coordinator's state or the driver's place changes.
<1>3. ASSUME UNCHANGED <<run, art, data, file, rev>>, committed \subseteq committed',
             drv' = drv \/ (drv'.run = drv.run /\ drv'.pc \in Onward),
             drv'.pc = "suggestions" => drv.pc = "candidates" \/ drv' = drv,
             auto'.state = "verified" /\ auto'.accepted # {} => Improved
      PROVE  VerdictInv'
  <2>1. drv'.run = drv.run /\ (drv' = drv \/ drv'.pc \in Onward)
    BY <1>3
  <2>2. RunShapes'
    BY <1>t, <1>3, <2>1 DEF RunShapes, RunShape, DataShape
  <2>3. ResultThere'
    BY <1>t, <1>3, <2>1 DEF ResultThere, AfterResult, Comparing
  <2>4. drv'.pc \in {"compared", "conclude"} /\ drv'.passed => Improved
    BY <1>v, <2>1
  <2> QED BY <1>3, <2>2, <2>3, <2>4, GoesOn
<1>4. CASE Reconcile
  <2>1. PICK i \in 2..6 : Transition(ArtifactStates[i][1])
    BY <1>4 DEF Reconcile, NextArtifactState, ArtifactStates
  <2>2. ArtifactStates[i][1] # "verified"
    BY DEF ArtifactStates
  <2>3. auto'.state # "verified"
    BY <2>1, <2>2 DEF Transition, Shapes, DriverShape
  <2> QED BY <1>3, <1>4, <2>3 DEF Reconcile, loopVars, ledger
<1>5. CASE ReviewState
  <2>1. UNCHANGED <<run, art, data, file, rev, committed>> /\ drv.pc = "reconcile"
    BY <1>5 DEF ReviewState, loopVars, ledger, At
  <2>2. CASE ReviewTarget(drv.seen) = {}
    <3>1. auto' = auto /\ drv'.run = drv.run /\ drv'.pc \in {"schedule", "idle", "looking"}
      BY <1>5, <2>2 DEF ReviewState, Shapes, DriverShape
    <3> QED BY <1>3, <1>v, <2>1, <3>1
  <2>3. CASE ReviewTarget(drv.seen) # {}
    <3>1. PICK s \in ReviewTarget(drv.seen) :
            auto' = [state |-> s, accepted |-> Accepted(drv.seen)] /\ drv' = drv
      BY <1>5, <2>3 DEF ReviewState
    <3>2. s = "verified" => drv.seen.cands = {}
      BY <3>1 DEF ReviewTarget
    <3>3. s = "verified" => auto'.accepted = {}
      BY <3>1, <3>2 DEF Accepted
    <3>4. auto'.state = s
      BY <3>1
    <3> QED BY <1>3, <2>1, <3>1, <3>3, <3>4
  <2> QED BY <2>2, <2>3
<1>6. CASE Conclude
  <2>1. /\ UNCHANGED <<run, art, data, file, rev, committed>> /\ drv.pc = "conclude"
        /\ Goto("idle") /\ auto'.state = Verdict
    BY <1>6 DEF Conclude, loopVars, ledger, At, Transition, Shapes, DriverShape
  <2>2. auto'.state = "verified" => Improved
    BY <1>v, <2>1 DEF Verdict
  <2>3. drv'.pc = "idle" /\ drv'.run = drv.run
    BY <2>1, GotoIs
  <2> QED BY <1>3, <2>1, <2>2, <2>3
<1>7. CASE CreateCandidate
  <2>1. /\ UNCHANGED <<run, art, data, file, rev, committed, auto>> /\ drv.pc = "candidates"
        /\ drv' = drv \/ Goto("suggestions")
    BY <1>7 DEF CreateCandidate, ledger, At
  <2>2. drv' = drv \/ (drv'.run = drv.run /\ drv'.pc = "suggestions")
    BY <2>1, GotoIs
  <2> QED BY <1>3, <1>v, <2>1, <2>2
<1>8. CASE DecideElsewhere \/ Retire
  <2>1. UNCHANGED <<run, art, data, file, rev, auto, drv>> /\ committed \subseteq committed'
    BY <1>8 DEF DecideElsewhere, Retire, Receipt, loopVars
  <2> QED BY <1>3, <1>v, <2>1
<1>9. CASE LookUp
  <2>1. UNCHANGED <<run, art, data, file, rev, auto, committed>> /\ drv.pc = "looking"
    BY <1>9 DEF LookUp, loopVars, ledger, At
  <2>2. drv'.run = drv.run /\ drv'.pc \in {"looking", "failed"}
    BY <1>9, <2>1 DEF LookUp, Shapes, DriverShape
  <2> QED BY <1>3, <1>v, <2>1, <2>2
<1>10. CASE CountActivated
  <2>1. UNCHANGED <<run, art, data, file, rev, committed>> /\ Goto("reconcile")
    BY <1>10 DEF CountActivated, loopVars, ledger
  <2>2. auto'.state # "verified"
    BY <1>10 DEF CountActivated
  <2>3. drv'.run = drv.run /\ drv'.pc = "reconcile"
    BY <2>1, GotoIs
  <2> QED BY <1>3, <2>1, <2>2, <2>3
<1> QED BY <1>1, <1>2, <1>4, <1>5, <1>6, <1>7, <1>8, <1>9, <1>10

\* A reviewer writes back the copies it loaded: the candidates are the same.
LEMMA ReviewerStep ==
  ASSUME VerdictInv, NEW p \in Reviewers, Reviewer(p) \/ CrashReviewer(p)
  PROVE  VerdictInv'
<1> DEFINE me == rev[p]
<1>t. RunShapes /\ ResultThere /\ CandidatesNamed /\ (\A q \in Runs : DataOf(q)) /\ CallOf(me)
  BY VerdictParts DEF CandidatesNamed
<1>r. Baseline \in Runs /\ "verification" \in Runs /\ Baseline # "verification"
  BY DEF Runs, Baseline
\* What a call does is seen in its record and in the two files.
<1>1. ASSUME UNCHANGED <<art, data, auto, drv>>, committed \subseteq committed',
             NEW x, run' = [run EXCEPT ![Baseline] = x], RunShape(x),
             x.cands = run[Baseline].cands,
             NEW y, rev' = [rev EXCEPT ![p] = y], CallOf(y),
             DOMAIN file' \subseteq run[Baseline].cands
      PROVE  VerdictInv'
  <2>1. /\ \A q \in Runs : run'[q] = IF q = Baseline THEN x ELSE run[q]
        /\ \A q \in Reviewers : rev'[q] = IF q = p THEN y ELSE rev[q]
    BY <1>1, <1>t DEF RunShapes
  <2>2. RunShapes'
    <3>1. run' = [q \in Runs |-> run'[q]] /\ rev' = [q \in Reviewers |-> rev'[q]]
      BY <1>1, <1>t DEF RunShapes
    <3>2. \A q \in Runs : RunShape(run'[q])
      BY <1>1, <1>t, <2>1 DEF RunShapes
    <3> QED BY <1>1, <1>t, <3>1, <3>2 DEF RunShapes, RunShape, DataShape
  <2>3. \A q \in Runs : DataOf(q)'
    BY <1>1, <1>t DEF DataOf, Activated
  <2>4. run'[Baseline].cands = run[Baseline].cands /\ run'["verification"] = run["verification"]
    BY <1>1, <1>r, <2>1
  <2>5. ASSUME NEW q \in Reviewers PROVE CallOf(rev[q])'
    <3>1. CallOf(rev[q]) /\ rev'[q] = IF q = p THEN y ELSE rev[q]
      BY <1>t, <2>1 DEF CandidatesNamed
    <3> QED BY <1>1, <2>4, <3>1 DEF CallOf, CallShape, RunShape
  <2>6. CandidatesNamed'
    BY <1>1, <1>t, <2>4, <2>5 DEF CandidatesNamed, Missed
  <2>7. ResultThere'
    BY <1>1, <1>t, <2>4 DEF ResultThere
  <2>8. Improved => Improved'
    BY <1>1, <2>4 DEF Improved
  <2> QED BY <1>1, <2>2, <2>3, <2>6, <2>7, <2>8 DEF VerdictInv
<1>2. /\ run = [run EXCEPT ![Baseline] = run[Baseline]] /\ RunShape(run[Baseline])
      /\ DOMAIN file \subseteq run[Baseline].cands /\ CallOf(Idle)
  BY <1>t, <1>r DEF RunShapes, CandidatesNamed, CallOf
<1>3. ASSUME UNCHANGED <<loopVars, file, auto, drv>>, committed \subseteq committed',
             NEW y, rev' = [rev EXCEPT ![p] = y], CallOf(y)
      PROVE  VerdictInv'
  BY <1>1, <1>2, <1>3 DEF loopVars
<1>4. ASSUME NEW c \in Candidates, NEW a \in Actions, ReviewLoad(p, c, a) \/ ActivateLoad(p, c)
      PROVE  VerdictInv'
  <2>1. /\ UNCHANGED <<loopVars, file, auto, drv, committed>> /\ c \in run[Baseline].cands
        /\ \E pc, act : rev' = [rev EXCEPT ![p] = [pc |-> pc, cand |-> c, action |-> act,
                                                   run |-> run[Baseline], file |-> file]]
    BY <1>4 DEF ReviewLoad, ActivateLoad, Begin, ledger
  <2>2. PICK pc, act : rev' = [rev EXCEPT ![p] = [pc |-> pc, cand |-> c, action |-> act,
                                                  run |-> run[Baseline], file |-> file]]
    BY <2>1
  <2> DEFINE y == [pc |-> pc, cand |-> c, action |-> act, run |-> run[Baseline], file |-> file]
  <2>3. CallOf(y)
    BY <1>2, <2>1 DEF CallOf, CallShape
  <2> HIDE DEF y
  <2>4. rev' = [rev EXCEPT ![p] = y]
    BY <2>2 DEF y
  <2> QED BY <1>3, <2>1, <2>3, <2>4
<1>5. ASSUME Leave(p), UNCHANGED <<loopVars, file, auto, drv>>, committed \subseteq committed'
      PROVE  VerdictInv'
  BY <1>2, <1>3, <1>5 DEF Leave
<1>6. me.pc # "idle" => me # Idle
  BY DEF Idle
<1>7. ASSUME me.pc # "idle", NEW pc, NEW f, DOMAIN f \subseteq run[Baseline].cands
      PROVE  CallOf([me EXCEPT !.pc = pc, !.file = f])
  <2> DEFINE y == [me EXCEPT !.pc = pc, !.file = f]
  <2>0. CallShape(me)
    BY <1>6, <1>7, <1>t DEF CallOf
  <2> DEFINE w == [me EXCEPT !.pc = pc]
  <2>w. w = [pc |-> pc, cand |-> me.cand, action |-> me.action, run |-> me.run, file |-> w.file]
    BY <2>0 DEF CallShape
  <2>x. y = [w EXCEPT !.file = f]
    OBVIOUS
  <2> HIDE DEF w
  <2>y. y = [pc |-> pc, cand |-> me.cand, action |-> me.action, run |-> me.run, file |-> f]
    BY <2>w, <2>x
  <2> HIDE DEF y
  <2>1. y.cand = me.cand /\ y.run = me.run /\ y.file = f /\ CallShape(y)
    BY <2>y DEF CallShape
  <2>2. CallOf(y)
    BY <1>6, <1>7, <1>t, <2>1 DEF CallOf
  <2> QED BY <2>2 DEF y
<1>8. CASE PublishDecision(p)
  <2>1. me.pc = "review" /\ UNCHANGED <<loopVars, file, auto, drv, committed>>
    BY <1>8 DEF PublishDecision, ledger
  <2>2. CASE Decided(me.cand)
    BY <1>5, <1>8, <2>1, <2>2 DEF PublishDecision
  <2>3. CASE ~Decided(me.cand)
    <3> DEFINE entry == [dec |-> Decide(me.cand, me.action), active |-> FALSE]
               f == [c \in DOMAIN me.file \cup {me.cand} |->
                       IF c = me.cand THEN entry ELSE me.file[c]]
               y == [me EXCEPT !.pc = "record", !.file = f]
    <3>1. rev' = [rev EXCEPT ![p] = y]
      BY <1>8, <2>3, <1>t DEF PublishDecision, RunShapes
    <3>2. DOMAIN f = {me.cand} \cup DOMAIN me.file
      OBVIOUS
    <3>3. DOMAIN f \subseteq run[Baseline].cands
      BY <1>6, <1>t, <2>1, <3>2 DEF CallOf
    <3>4. CallOf(y)
      BY <1>7, <2>1, <3>3
    <3> HIDE DEF y
    <3> QED BY <1>3, <2>1, <3>1, <3>4
  <2> QED BY <2>2, <2>3
<1>9. CASE WriteDecisions(p)
  <2>1. /\ me.pc # "idle" /\ file' = me.file /\ UNCHANGED <<loopVars, auto, drv, committed>>
        /\ \E pc : Step(p, pc)
    BY <1>9 DEF WriteDecisions, ledger
  <2>2. PICK pc : Step(p, pc)
    BY <2>1
  <2> DEFINE y == [me EXCEPT !.pc = pc]
  <2>3. rev' = [rev EXCEPT ![p] = y]
    BY <2>2 DEF Step
  <2>4. CallOf(y) /\ DOMAIN file' \subseteq run[Baseline].cands
    BY <1>6, <1>t, <2>1 DEF CallOf, CallShape
  <2> HIDE DEF y
  <2> QED BY <1>1, <1>2, <2>1, <2>3, <2>4 DEF loopVars
<1>10. CASE SaveReview(p) \/ SaveActivation(p)
  <2>1. /\ me.pc # "idle" /\ Leave(p) /\ UNCHANGED <<art, data, file, auto, drv, committed>>
        /\ \/ \E v : run' = [run EXCEPT ![Baseline] = [Settled(me.run, me.file) EXCEPT !.reviewed = v]]
           \/ \E v : run' = [run EXCEPT ![Baseline] = [Settled(me.run, me.file) EXCEPT !.activated = v]]
    BY <1>10 DEF SaveReview, SaveActivation, ledger
  <2>2. RunShape(Settled(me.run, me.file)) /\ Settled(me.run, me.file).cands = run[Baseline].cands
    <3>1. RunShape(me.run) /\ me.run.cands = run[Baseline].cands
      BY <1>6, <1>t, <2>1 DEF CallOf
    <3> QED BY <3>1 DEF RunShape, Settled
  <2>3. PICK x : run' = [run EXCEPT ![Baseline] = x] /\ RunShape(x) /\ x.cands = run[Baseline].cands
    BY <2>1, <2>2 DEF RunShape
  <2> QED BY <1>1, <1>2, <2>1, <2>3 DEF Leave
<1>11. CASE Activate(p)
  <2>1. me.pc = "activate" /\ UNCHANGED <<loopVars, file, auto, drv>> /\ committed \subseteq committed'
    BY <1>11 DEF Activate, Commit, Receipt, ledger
  <2>2. CASE Leave(p)
    BY <1>5, <2>1, <2>2
  <2>3. CASE rev' = [rev EXCEPT ![p].pc = "activated", ![p].file[me.cand].active = TRUE]
    <3> DEFINE f == [me.file EXCEPT ![me.cand].active = TRUE]
               y == [me EXCEPT !.pc = "activated", !.file = f]
    <3>1. rev' = [rev EXCEPT ![p] = y]
      BY <1>6, <1>t, <2>1, <2>3 DEF RunShapes, CallOf, CallShape
    <3>2. DOMAIN f = DOMAIN me.file
      OBVIOUS
    <3>3. CallOf(y)
      BY <1>6, <1>7, <1>t, <2>1, <3>2 DEF CallOf
    <3> HIDE DEF y
    <3> QED BY <1>3, <2>1, <3>1, <3>3
  <2> QED BY <1>11, <2>2, <2>3 DEF Activate
<1>12. CASE CrashReviewer(p)
  BY <1>5, <1>12 DEF CrashReviewer, Receipt, ledger
<1>13. ASSUME NEW c \in Candidates, ActivateLoad(p, c) PROVE VerdictInv'
  <2>1. "accept" \in Actions
    BY DEF Actions
  <2> QED BY <1>4, <1>13, <2>1
<1> QED BY <1>4, <1>8, <1>9, <1>10, <1>11, <1>12, <1>13 DEF Reviewer

LEMMA VerdictInit == Init => VerdictInv
<1> SUFFICES ASSUME Init PROVE VerdictInv
  OBVIOUS
<1>1. RunShapes
  BY DEF Init, RunShapes, RunShape, DataShape, Runs
<1>2. \A r \in Runs : DataOf(r)
  BY DEF Init, DataOf
<1>3. CandidatesNamed
  BY DEF Init, CandidatesNamed, CallOf, Idle, Baseline, Runs
<1>4. ResultThere
  BY LearningRunAssumption DEF Init, ResultThere, AfterResult, Comparing, Finished, Runs
<1>5. drv.pc = "idle" /\ auto.accepted = {}
  BY DEF Init
<1> QED BY <1>1, <1>2, <1>3, <1>4, <1>5 DEF VerdictInv

\* A loop that ends verified by comparison was improved by memory of its own that was
\* activated and that the second run cited; it was given activated memory only.  It stays
\* so whatever copies of run.json and review_decisions.json reviewers write back.
THEOREM VerifiedMeansAlways == Spec => []VerifiedMeans
<1>1. BackedInv /\ BackedInv' /\ VerdictInv /\ [Next]_vars => VerdictInv'
  <2>1. ASSUME VerdictInv, UNCHANGED vars PROVE VerdictInv'
    <3>1. UNCHANGED <<run, art, data, file, rev, auto, drv, committed>>
      BY <2>1 DEF vars
    <3>2. RunShapes' /\ ResultThere'
      BY <2>1, <3>1, VerdictParts DEF RunShapes, RunShape, DataShape, ResultThere
    <3>3. /\ drv'.pc \in {"compared", "conclude"} /\ drv'.passed => Improved
          /\ auto'.state = "verified" /\ auto'.accepted # {} => Improved
      BY <2>1, <3>1, VerdictParts
    <3> QED BY <2>1, <3>1, <3>2, <3>3, GoesOn
  <2>2. ASSUME BackedInv, BackedInv', VerdictInv, Next PROVE VerdictInv'
    BY <2>2, ExecutionStep, SaveRunStep, CompareStep, SaveComparisonStep, CoordinationStep,
       ReviewerStep DEF Next, Driver, BackedInv
  <2> QED BY <2>1, <2>2
<1>2. VerdictInv => VerifiedMeans
  <2> SUFFICES ASSUME VerdictInv, auto.state = "verified", auto.accepted # {}
               PROVE  /\ \E c \in run[Baseline].cands \cap data["verification"].mentions :
                           Activated(c)
                      /\ \A c \in data["verification"].sources : Activated(c)
    BY DEF VerifiedMeans
  <2>1. Improved /\ DataOf("verification")
    BY DEF VerdictInv, Runs
  <2> QED BY <2>1 DEF Improved, DataOf
<1> QED BY <1>1, <1>2, VerdictInit, Backing, PTL DEF Spec
=============================================================================
