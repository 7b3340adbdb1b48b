---------------------------- MODULE LearningRun ----------------------------
(***************************************************************************)
(* The reviewed learning loop: LearningLoop (learning_loop/loop.py), which *)
(* executes a task, keeps every artifact of the run in files, has the      *)
(* candidates reviewed and activated, and compares two runs; and           *)
(* AutoUpdateLoopCoordinator (learning_loop/coordinator.py), which drives  *)
(* a baseline run and then a verification run through it.                  *)
(*                                                                         *)
(* The driver is the process that calls advance; reviewers call review and *)
(* activate_review of the baseline run at the same time.  A step ends      *)
(* where another process can see, or a crash can keep, a file written.     *)
(* Activation is what AuthorityLedger promises: a compare-and-swap, whose   *)
(* generation follows later when the process is killed in between.          *)
(***************************************************************************)
EXTENDS Integers, Sequences, FiniteSets

CONSTANTS
  Criteria,   \* the acceptance criteria of the task
  Reviewers,  \* processes that review and activate candidates
  Tolerated,  \* how many criteria may fail before a run fails (minimum_score)
  Improvement,\* minimum_improvement, in criteria
  MaxFaults,  \* bound on crashes, backend failures, decisions made elsewhere, memory
              \* withdrawn and calls of a reviewer that overlap another's
  NONE

ASSUME LearningRunAssumption ==
  /\ Tolerated \in Nat /\ Improvement \in Nat /\ MaxFaults \in Nat
  /\ IsFiniteSet(Criteria)
  \* NONE is no state of a run or of the coordinator.
  /\ NONE \notin {"completed", "review_pending", "reviewed", "verified", "verification_failed",
                   "memory_activated", "verification_scheduled"}

VARIABLES
  run,        \* run.json of each run
  art,        \* the artifact files of each run
  data,       \* what context.json, result.md and outcome.json say
  file,       \* review_decisions.json of the baseline run
  made,       \* candidates created for each run and criterion
  auto,       \* auto_loop.json of the baseline run
  drv,        \* the driver's program counter and local variables
  rev,        \* each reviewer's
  committed, generation, \* the decisions activated, the active generation
  retired,    \* memory that a later activation has deprecated or superseded
  faults      \* the events MaxFaults bounds, so far

loopVars == <<run, art, data, made>>
ledger == <<committed, generation, retired>>
vars == <<run, art, data, file, made, auto, drv, rev, committed, generation, retired, faults>>

Runs == {"baseline", "verification"}
Actions == {"accept", "reject"}
\* A candidate is named by its source id, learning-loop:<run>:criterion:<id>.
Candidates == Runs \X Criteria
\* Memory that is no business of this loop.
Other == <<"other", NONE>>
Decide(c, a) == [cand |-> c, action |-> a, gen |-> generation]

Decided(c) == \E d \in committed : d.cand = c
Activated(c) == \E d \in committed : d.cand = c /\ d.action = "accept"
\* memory_store.get(c) has status active.
ActiveMemory(c) == Activated(c) /\ c \notin retired

\* AuthorityStore.activate, as AuthorityLedger promises it: once for a candidate, the
\* receipt of a decision that binds the generation in the file; and then the file.
Receipt(d) ==
  /\ d.gen = generation /\ ~Decided(d.cand)
  /\ committed' = committed \cup {d}
  /\ UNCHANGED retired
Commit(d) == Receipt(d) /\ generation' = generation + 1

Init ==
  /\ run = [r \in Runs |-> [state |-> NONE, cands |-> {}, reviewed |-> <<>>, activated |-> {}]]
  /\ art = [r \in Runs |-> {}]
  /\ data = [r \in Runs |-> [sources |-> {}, mentions |-> {}, missed |-> {}]]
  /\ file = <<>>
  /\ made = [c \in Candidates |-> 0]
  /\ auto = [state |-> NONE, accepted |-> {}]
  /\ drv = [pc |-> "idle", run |-> "baseline", seen |-> NONE, passed |-> FALSE,
             found |-> {}, todo |-> {}]
  /\ rev = [p \in Reviewers |-> [pc |-> "idle"]]
  /\ committed = {} /\ generation = 0 /\ retired = {}
  /\ faults = 0

-----------------------------------------------------------------------------
(* execute: each artifact is written once and found again by a later call. *)

\* States in which advance returns at once; nobody acts on the loop after.
Terminal == {"rejected", "verified", "verification_failed"}

\* bug: an interrupted run counts as finished.
FinishedInterrupted == {"completed", "interrupted", "review_pending", "reviewed", "verified", "verification_failed"}
\* States in which execute returns the status and does nothing more.
Finished == {"completed", "review_pending", "reviewed", "verified", "verification_failed"}

At(pc) == drv.pc = pc
Goto(pc) == drv' = [drv EXCEPT !.pc = pc]
State(r, s) == [run EXCEPT ![r].state = s]

\* execute returns the status that the rest of advance looks at.
Returned(r, status) ==
  [drv EXCEPT !.pc = IF r = "baseline" THEN "reconcile" ELSE "compare",
              !.run = r, !.seen = status]

\* execute starts: _create_or_load, and the early return of a finished run.
Execute(r) ==
  IF run[r].state \in Finished
  THEN drv' = Returned(r, run[r]) /\ UNCHANGED run
  ELSE /\ drv' = [drv EXCEPT !.pc = "context", !.run = r]
       /\ run' = IF run[r].state = NONE THEN State(r, "created") ELSE run

\* The query finds active memory, as far as the limit admits; the baseline task
\* says without_memory, as compare wants the two to differ.
QueryContext ==
  LET r == drv.run IN
  /\ At("context")
  /\ IF "context" \in art[r] THEN Goto("result")
     ELSE \E found \in SUBSET {c \in Candidates : r # "baseline" /\ ActiveMemory(c)} :
            drv' = [drv EXCEPT !.pc = "sources", !.found = found, !.todo = found]
  /\ UNCHANGED <<run, art, data, file, made, auto, rev, ledger, faults>>

\* Each record found is then read: memory withdrawn in between interrupts the run.
CheckSource ==
  /\ At("sources") /\ drv.todo # {}
  /\ \E c \in drv.todo :
       IF ActiveMemory(c)
       THEN drv' = [drv EXCEPT !.todo = @ \ {c}] /\ UNCHANGED run
       ELSE /\ drv' = [drv EXCEPT !.pc = "failed", !.found = {}, !.todo = {}]
            /\ run' = State(drv.run, "interrupted")
  /\ UNCHANGED <<art, data, file, made, auto, rev, ledger, faults>>

WriteContext ==
  /\ At("sources") /\ drv.todo = {}
  /\ drv' = [drv EXCEPT !.pc = "result", !.found = {}]
  /\ data' = [data EXCEPT ![drv.run].sources = drv.found]
  /\ art' = [art EXCEPT ![drv.run] = @ \cup {"context"}]
  /\ run' = State(drv.run, "context_ready")
  /\ UNCHANGED <<file, made, auto, rev, ledger, faults>>

\* The answer may cite any of the memory it was given.
CallBackend ==
  LET r == drv.run IN
  /\ At("result") /\ Goto("evidence")
  /\ IF "result" \in art[r] THEN UNCHANGED <<run, art, data>> ELSE
       /\ \E cited \in SUBSET data[r].sources : data' = [data EXCEPT ![r].mentions = cited]
       /\ art' = [art EXCEPT ![r] = @ \cup {"result"}]
       /\ run' = State(r, "running")
  /\ UNCHANGED <<file, made, auto, rev, ledger, faults>>

\* The backend, or an input, raises: the run is interrupted, and advance
\* records the error after it has caught up with the artifacts there are.
Interrupt ==
  /\ At("result") /\ "result" \notin art[drv.run]
  /\ faults < MaxFaults /\ faults' = faults + 1
  /\ run' = State(drv.run, "interrupted")
  /\ Goto("failed")
  /\ UNCHANGED <<art, data, file, made, auto, rev, ledger>>

WriteEvidence ==
  /\ At("evidence") /\ Goto("outcome")
  /\ art' = [art EXCEPT ![drv.run] = @ \cup {"evidence"}]
  /\ UNCHANGED <<run, data, file, made, auto, rev, ledger, faults>>

\* outcome.json is written first, the state that follows from it after.
Evaluate ==
  LET r == drv.run IN
  /\ At("outcome")
  /\ IF "outcome" \in art[r]
     THEN Goto("reflection") /\ UNCHANGED <<art, data>>
     ELSE /\ \E missed \in SUBSET Criteria : data' = [data EXCEPT ![r].missed = missed]
          /\ art' = [art EXCEPT ![r] = @ \cup {"outcome"}]
          /\ Goto("outcome_state")
  /\ UNCHANGED <<run, file, made, auto, rev, ledger, faults>>

Passed(r) == Cardinality(data[r].missed) <= Tolerated

SaveOutcome ==
  /\ At("outcome_state") /\ Goto("reflection")
  /\ run' = State(drv.run, IF Passed(drv.run) THEN "completed" ELSE "failed")
  /\ UNCHANGED <<art, data, file, made, auto, rev, ledger, faults>>

Reflect ==
  /\ At("reflection") /\ Goto("candidates")
  /\ art' = [art EXCEPT ![drv.run] = @ \cup {"reflection"}]
  /\ run' = State(drv.run, "reflected")
  /\ UNCHANGED <<data, file, made, auto, rev, ledger, faults>>

Missed(r) == {<<r, k>> : k \in data[r].missed}

\* One candidate for a missed criterion, in a fixed order, unless its source id
\* has one.
CreateCandidate ==
  /\ At("candidates")
  /\ IF \E c \in Missed(drv.run) : made[c] = 0
     THEN /\ made' = [made EXCEPT ![CHOOSE c \in Missed(drv.run) : made[c] = 0] = 1]
          /\ UNCHANGED drv
     ELSE Goto("suggestions") /\ UNCHANGED made
  /\ UNCHANGED <<run, art, data, file, auto, rev, ledger, faults>>

WriteSuggestions ==
  /\ At("suggestions") /\ Goto("save")
  /\ art' = [art EXCEPT ![drv.run] = @ \cup {"suggestions"}]
  /\ UNCHANGED <<run, data, file, made, auto, rev, ledger, faults>>

\* The run names its candidates, and whether they wait for a review.
SaveRun ==
  LET r == drv.run
      decided == IF r = "baseline" THEN DOMAIN file ELSE {} IN
  /\ At("save")
  /\ run' = [run EXCEPT ![r].cands = Missed(r),
               ![r].state = IF Missed(r) = {} THEN "completed"
                            ELSE IF Missed(r) \subseteq decided THEN "reviewed"
                            ELSE "review_pending"]
  /\ drv' = Returned(r, run'[r])
  /\ UNCHANGED <<art, data, file, made, auto, rev, ledger, faults>>

-----------------------------------------------------------------------------
(* review and activate_review, by any number of reviewers at once.  Each   *)
(* loads run.json and review_decisions.json and later writes both whole.   *)

Baseline == "baseline"
Idle == [pc |-> "idle"]
Step(p, pc) == rev' = [rev EXCEPT ![p].pc = pc]
Leave(p) == rev' = [rev EXCEPT ![p] = Idle]

\* run.json as both leave it: the copy loaded, its state by the entries.
Settled(copy, entries) ==
  [copy EXCEPT !.state = IF copy.cands \subseteq DOMAIN entries THEN "reviewed"
                         ELSE "review_pending"]

\* A call begins, alone or, as MaxFaults allows, while another one runs.
Begin(p, call) ==
  /\ rev[p] = Idle /\ auto.state \notin Terminal
  /\ rev' = [rev EXCEPT ![p] = call]
  /\ faults' = IF \A q \in Reviewers : rev[q] = Idle THEN faults ELSE faults + 1
  /\ faults' <= MaxFaults

\* A candidate with an entry is not reviewed again: the same action returns
\* the status and another one is refused.
ReviewLoad(p, c, a) ==
  /\ c \in run[Baseline].cands \ DOMAIN file
  /\ Begin(p, [pc |-> "review", cand |-> c, action |-> a, run |-> run[Baseline], file |-> file])
  /\ UNCHANGED <<loopVars, file, auto, drv, ledger>>

\* ReviewGate.review publishes a decision for the current generation, unless
\* the candidate has become something else.
PublishDecision(p) ==
  LET me == rev[p]
      entry == [dec |-> Decide(me.cand, me.action), active |-> FALSE]
      entries == [c \in DOMAIN me.file \cup {me.cand} |->
                    IF c = me.cand THEN entry ELSE me.file[c]] IN
  /\ me.pc = "review"
  /\ IF Decided(me.cand) THEN Leave(p)
     ELSE rev' = [rev EXCEPT ![p].pc = "record", ![p].file = entries]
  /\ UNCHANGED <<loopVars, file, auto, drv, ledger, faults>>

\* review_decisions.json, then (with memory_rules.md) run.json.
WriteDecisions(p) ==
  /\ rev[p].pc \in {"record", "activated"}
  /\ file' = rev[p].file
  /\ Step(p, IF rev[p].pc = "record" THEN "save_review" ELSE "save_activation")
  /\ UNCHANGED <<loopVars, auto, drv, ledger, faults>>

SaveReview(p) ==
  LET me == rev[p] IN
  /\ me.pc = "save_review"
  /\ run' = [run EXCEPT ![Baseline] =
       [Settled(me.run, me.file) EXCEPT !.reviewed = [c \in DOMAIN me.file |-> me.file[c].dec.action]]]
  /\ Leave(p)
  /\ UNCHANGED <<art, data, made, file, auto, drv, ledger, faults>>

\* activate_review wants the recorded decision and its generation.  Reviewers
\* call it for what the coordinator lists as accepted and not activated.
ActivateLoad(p, c) ==
  /\ c \in run[Baseline].cands \cap DOMAIN file
  /\ file[c].dec.action = "accept" /\ c \notin run[Baseline].activated
  /\ Begin(p, [pc |-> "activate", cand |-> c, action |-> "accept", run |-> run[Baseline], file |-> file])
  /\ UNCHANGED <<loopVars, file, auto, drv, ledger>>

\* ReviewGate.activate commits the decision, or finds its receipt and sees to the
\* generation, or refuses it: the generation has moved on or the candidate is decided.
Activate(p) ==
  LET me == rev[p]
      dec == me.file[me.cand].dec
      kept == [rev EXCEPT ![p].pc = "activated", ![p].file[me.cand].active = TRUE] IN
  /\ me.pc = "activate"
  /\ \/ /\ dec \in committed /\ generation \in {dec.gen, dec.gen + 1}
        /\ rev' = kept /\ generation' = dec.gen + 1 /\ UNCHANGED <<committed, retired>>
     \/ Commit(dec) /\ rev' = kept
     \/ /\ dec.gen # generation \/ Decided(me.cand)
        /\ dec \in committed => generation \notin {dec.gen, dec.gen + 1}
        /\ Leave(p) /\ UNCHANGED ledger
  /\ UNCHANGED <<loopVars, file, auto, drv, faults>>

SaveActivation(p) ==
  LET me == rev[p] IN
  /\ me.pc = "save_activation"
  /\ run' = [run EXCEPT ![Baseline] =
       [Settled(me.run, me.file) EXCEPT !.activated = {c \in DOMAIN me.file : me.file[c].active}]]
  /\ Leave(p)
  /\ UNCHANGED <<art, data, made, file, auto, drv, ledger, faults>>

\* Someone decides and activates by another door, the gate's own command line
\* or a conversation review: this loop's candidate or other memory.
DecideElsewhere ==
  /\ auto.state \notin Terminal
  /\ \E c \in {c \in Candidates : made[c] > 0} \cup {Other}, a \in Actions :
       Receipt(Decide(c, a)) /\ generation' \in {generation, generation + 1}
  /\ faults < MaxFaults /\ faults' = faults + 1
  /\ UNCHANGED <<loopVars, file, auto, drv, rev>>

\* Another activation deprecates or supersedes memory that this loop has made active.
Retire ==
  /\ auto.state \notin Terminal
  /\ \E c \in Candidates : ActiveMemory(c) /\ retired' = retired \cup {c}
  /\ generation' = generation + 1
  /\ faults < MaxFaults /\ faults' = faults + 1
  /\ UNCHANGED <<loopVars, file, auto, drv, rev, committed>>

-----------------------------------------------------------------------------
(* AutoUpdateLoopCoordinator.advance.                                      *)

\* The states that artifacts alone can reach, each with its files.
ArtifactStates ==
  << <<"task_created", {}>>, <<"context_built", {"context"}>>,
     <<"execution_completed", {"result", "evidence"}>>, <<"outcome_recorded", {"outcome"}>>,
     <<"reflection_created", {"reflection"}>>, <<"candidate_created", {"suggestions"}>> >>

Transition(s) == auto' = [auto EXCEPT !.state = s]

\* advance loads or creates its state.  Scheduled verification goes straight
\* to the second run.
Advance ==
  /\ At("idle") /\ auto.state \notin Terminal
  /\ auto' = IF auto.state = NONE THEN [auto EXCEPT !.state = "task_created"] ELSE auto
  /\ Execute(IF auto.state = "verification_scheduled" THEN "verification" ELSE Baseline)
  /\ UNCHANGED <<art, data, made, file, rev, ledger, faults>>

\* _reconcile_artifacts: one state after the other while the files are there.
NextArtifactState ==
  {i \in 2..Len(ArtifactStates) :
     /\ ArtifactStates[i - 1][1] = auto.state
     /\ \A j \in 2..i : ArtifactStates[j][2] \subseteq art[Baseline]}

Reconcile ==
  /\ drv.pc \in {"reconcile", "failed"}
  /\ \E i \in NextArtifactState : Transition(ArtifactStates[i][1])
  /\ UNCHANGED <<loopVars, file, drv, rev, ledger, faults>>

\* advance records the error and gives up for this time.
RecordError ==
  /\ At("failed") /\ NextArtifactState = {}
  /\ Goto("idle")
  /\ UNCHANGED <<loopVars, file, auto, rev, ledger, faults>>

Accepted(seen) == {c \in seen.cands \cap DOMAIN seen.reviewed : seen.reviewed[c] = "accept"}
AllDecided(seen) == seen.cands \subseteq DOMAIN seen.reviewed
\* Every accepted candidate was activated by the loop.
AllActivated(seen) == Accepted(seen) # {} /\ Accepted(seen) \subseteq seen.activated
\* _review_state, one transition at a time; without one (or with one that is
\* not allowed, accepted to rejected) advance returns.
ReviewTarget(seen) ==
  CASE auto.state = "candidate_created" ->
         IF seen.cands = {} THEN {"verified"} ELSE {"awaiting_review"}
    [] auto.state = "awaiting_review" /\ AllDecided(seen) ->
         IF Accepted(seen) = {} THEN {"rejected"} ELSE {"accepted"}
    [] OTHER -> {}

\* Activated memory is looked up before it counts.
ToLookUp(seen) == auto.state = "accepted" /\ AllDecided(seen) /\ AllActivated(seen)

\* bug: an accepted candidate is taken for active memory.
ReviewStateHasty ==
  /\ At("reconcile") /\ NextArtifactState = {}
  /\ IF ReviewTarget(drv.seen) # {}
     THEN /\ \E s \in ReviewTarget(drv.seen) :
               auto' = [state |-> s, accepted |-> Accepted(drv.seen)]
          /\ UNCHANGED drv
     ELSE /\ drv' = [drv EXCEPT !.pc = CASE auto.state = "accepted" -> "looking"
                                        [] auto.state = "memory_activated" -> "schedule"
                                        [] OTHER -> "idle"]
          /\ UNCHANGED auto
  /\ UNCHANGED <<loopVars, file, rev, ledger, faults>>

ReviewState ==
  /\ At("reconcile") /\ NextArtifactState = {}
  /\ IF ReviewTarget(drv.seen) # {}
     THEN /\ \E s \in ReviewTarget(drv.seen) :
               auto' = [state |-> s, accepted |-> Accepted(drv.seen)]
          /\ UNCHANGED drv
     ELSE /\ drv' = IF ToLookUp(drv.seen)
                    THEN [drv EXCEPT !.pc = "looking", !.todo = Accepted(drv.seen)]
                    ELSE [drv EXCEPT !.pc = IF auto.state = "memory_activated" THEN "schedule"
                                            ELSE "idle"]
          /\ UNCHANGED auto
  /\ UNCHANGED <<loopVars, file, rev, ledger, faults>>

\* _activate_reviewed_memory reads one record after the other; advance raises when
\* one is not active.
LookUp ==
  /\ At("looking") /\ drv.todo # {}
  /\ \E c \in drv.todo :
       drv' = IF ActiveMemory(c) THEN [drv EXCEPT !.todo = @ \ {c}]
              ELSE [drv EXCEPT !.pc = "failed", !.todo = {}]
  /\ UNCHANGED <<loopVars, file, auto, rev, ledger, faults>>

CountActivated ==
  /\ At("looking") /\ drv.todo = {} /\ Goto("reconcile")
  /\ auto' = [state |-> "memory_activated", accepted |-> Accepted(drv.seen)]
  /\ UNCHANGED <<loopVars, file, rev, ledger, faults>>

\* Active memory is verified by a second run, if the caller names its task.
ScheduleVerification ==
  /\ At("schedule")
  /\ Transition("verification_scheduled")
  /\ Execute("verification")
  /\ UNCHANGED <<art, data, made, file, rev, ledger, faults>>

NoVerificationTask ==
  /\ At("schedule") /\ Goto("idle")
  /\ UNCHANGED <<loopVars, file, auto, rev, ledger, faults>>

Of(action) == {c \in DOMAIN file : file[c].dec.action = action}

\* bug: memory that was injected but never used counts as reused.
ChecksUnattributed(challenged) ==
  LET second == data["verification"] IN
  /\ Cardinality(data[Baseline].missed) - Cardinality(second.missed) >= Improvement
  /\ Of("accept") \cap second.sources # {}
  /\ Of("reject") \cap second.sources = {}
  /\ challenged
\* The verdict of compare; challenged is the optional demand that rejected
\* and restricted memory the query matches existed to be excluded.
Checks(challenged) ==
  LET second == data["verification"]
      injected == Of("accept") \cap second.sources
      missed == [r \in Runs |-> Cardinality(data[r].missed)] IN
  /\ missed[Baseline] - missed["verification"] >= Improvement
  /\ injected # {} /\ injected \cap second.mentions # {}
  /\ Of("reject") \cap second.sources = {}
  /\ missed["verification"] <= missed[Baseline]
  /\ challenged

Compare ==
  /\ At("compare")
  /\ \E challenged \in BOOLEAN :
       drv' = [drv EXCEPT !.pc = "compared", !.seen = run["verification"],
                          !.passed = Checks(challenged)]
  /\ UNCHANGED <<loopVars, file, auto, rev, ledger, faults>>

Verdict == IF drv.passed THEN "verified" ELSE "verification_failed"

SaveComparison ==
  /\ At("compared") /\ Goto("conclude")
  /\ art' = [art EXCEPT !["verification"] = @ \cup {"comparison"}]
  /\ run' = [run EXCEPT !["verification"] = [drv.seen EXCEPT !.state = Verdict]]
  /\ UNCHANGED <<data, made, file, auto, rev, ledger, faults>>

Conclude ==
  /\ At("conclude") /\ Goto("idle")
  /\ Transition(Verdict)
  /\ UNCHANGED <<loopVars, file, rev, ledger, faults>>

-----------------------------------------------------------------------------
CrashDriver ==
  /\ ~At("idle")
  /\ drv' = [drv EXCEPT !.pc = "idle", !.found = {}, !.todo = {}]
  /\ faults < MaxFaults /\ faults' = faults + 1
  /\ UNCHANGED <<loopVars, file, auto, rev, ledger>>

\* A reviewer killed in activate may have left a receipt and the old generation.
CrashReviewer(p) ==
  /\ rev[p] # Idle
  /\ Leave(p)
  /\ faults < MaxFaults /\ faults' = faults + 1
  /\ \/ UNCHANGED ledger
     \/ /\ rev[p].pc = "activate" /\ Receipt(rev[p].file[rev[p].cand].dec)
        /\ UNCHANGED generation
  /\ UNCHANGED <<loopVars, file, auto, drv>>

Driver ==
  \/ QueryContext \/ CheckSource \/ WriteContext \/ CallBackend \/ WriteEvidence \/ Evaluate \/ SaveOutcome
  \/ Reflect \/ CreateCandidate \/ WriteSuggestions \/ SaveRun
  \/ Advance \/ Reconcile \/ RecordError \/ ReviewState \/ LookUp \/ CountActivated
  \/ ScheduleVerification
  \/ NoVerificationTask \/ Compare \/ SaveComparison \/ Conclude

Reviewer(p) ==
  \/ \E c \in Candidates, a \in Actions : ReviewLoad(p, c, a)
  \/ \E c \in Candidates : ActivateLoad(p, c)
  \/ PublishDecision(p) \/ WriteDecisions(p) \/ SaveReview(p) \/ Activate(p) \/ SaveActivation(p)

Next ==
  \/ Driver \/ Interrupt \/ DecideElsewhere \/ Retire \/ CrashDriver
  \/ \E p \in Reviewers : Reviewer(p) \/ CrashReviewer(p)

\* advance is called again and again, reviewers go on reviewing and
\* activating, and a verification task is named sooner or later.
Fairness ==
  /\ WF_vars(Driver) /\ SF_vars(ScheduleVerification)
  /\ \A p \in Reviewers : WF_vars(Reviewer(p))

Spec == Init /\ [][Next]_vars /\ Fairness

-----------------------------------------------------------------------------
(* Properties.                                                             *)

\* coordinator.py: memory_activated, and everything after it, is reached only
\* when something was accepted and all that was accepted was activated by a
\* committed decision, whoever overwrote whose run.json in between.
ActivatedBacked ==
  auto.state \in {"memory_activated", "verification_scheduled"} =>
    auto.accepted # {} /\ \A c \in auto.accepted : Activated(c)

\* loop.py compare: a loop that ends verified by comparison was improved by
\* memory of its own baseline that somebody accepted and activated and that the
\* second run was given and cited, and all it was given had been activated.
VerifiedMeans ==
  auto.state = "verified" /\ auto.accepted # {} =>
    /\ \E c \in run[Baseline].cands \cap data["verification"].mentions : Activated(c)
    /\ \A c \in data["verification"].sources : Activated(c)

\* loop.py execute: a run that its backend or withdrawn memory interrupted is
\* taken up again and gets its answer.
InterruptedResumed ==
  \A r \in Runs : run[r].state = "interrupted" ~> "result" \in art[r]

\* docs/stage_07_learning_loop.md: "Re-running the same run_id with the same task
\* resumes missing steps".
MissingStepsResumed ==
  \A r \in Runs : run[r].state # NONE ~>
    {"context", "result", "evidence", "outcome", "reflection", "suggestions"} \subseteq art[r]
=============================================================================
