----------------------------- MODULE AgentRuns -----------------------------
(***************************************************************************)
(* The learning chain of the memory agent (memory_agent.py, agents/):      *)
(* finalize publishes a run directory and a session candidate and links    *)
(* them, loop.reflect and loop.suggest-policies add artifacts to the run,  *)
(* loop.generate-candidate turns enough independent runs into a principle  *)
(* candidate, approve-policies copies checked policies to memory_rules.md; *)
(* and the source bindings (review/source_refs.py) a review verifies.      *)
(*                                                                         *)
(* Every command is a process of its own.  One process of each kind runs   *)
(* at a time, a finalize with an outcome and one without being two kinds;  *)
(* processes of different kinds interleave at each file they read or       *)
(* replace, fail there or are killed there, and people review candidates   *)
(* meanwhile.  Nothing is locked.  A file's hash is its content.           *)
(***************************************************************************)
EXTENDS Naturals, FiniteSets, TLC

CONSTANTS
  Inputs,        \* inputs of finalize; a run's id is a digest of its input
  Exchanges, ExchangeOf,  \* task and result of an input
  Blank,         \* exchanges whose result is blank
  Policies, SuggestedBy,  \* the policies a caller suggests with an input
  LessonOf,      \* the reusable lesson in its reflection, or NONE
  Opposite,      \* the directive that contradicts a policy, or NONE
  MINIMUM_INDEPENDENT_EVIDENCE,
  Records,       \* identities of memory records, a bound on their number
  MaxFaults,     \* bound on failures and crashes
  MaxBusy,       \* bound on the processes under way at once
  NONE

\* run.json, and generated_candidates/<request>.json.
RunRecord ==
  [candidate_status : {"not_generated", "pending", "generated"},
   candidate : Records \cup {NONE}, suggested : SUBSET Policies, approved : SUBSET Policies,
   completed : BOOLEAN]
Intent == [runs : SUBSET Inputs, candidate : Records \cup {NONE}]

ASSUME AgentRunsAssumption ==
  /\ ExchangeOf \in [Inputs -> Exchanges] /\ Blank \subseteq Exchanges
  /\ SuggestedBy \in [Inputs -> SUBSET Policies]
  /\ LessonOf \in [Inputs -> Policies \cup {NONE}]
  /\ Opposite \in [Policies -> Policies \cup {NONE}]
  /\ MINIMUM_INDEPENDENT_EVIDENCE \in Nat /\ {MaxFaults, MaxBusy} \subseteq Nat
  /\ NONE \notin Intent \cup RunRecord

VARIABLES
  run,      \* run.json of each run, NONE where there is no directory
  art,      \* reflection_result.json, policy_candidates.json, policy_review.md
  rules,    \* policies in memory_rules.md
  rec,      \* memory records
  intent,   \* generated_candidates/<request>.json; a request per policy
  fin, pla, \* what finalize is doing, with an outcome and without
  sug, gen, app,  \* what suggest, generate and approve are doing
  faults

vars == <<run, art, rules, rec, intent, fin, pla, sug, gen, app, faults>>
procs == <<fin, pla, sug, gen, app>>
files == <<run, art, rules, rec, intent>>

Idle == [pc |-> "idle"]
NoArtifacts == [reflected |-> FALSE, policy |-> NONE, reviewed |-> FALSE]
Runs == {i \in Inputs : run[i] # NONE}
Starting(p) ==
  p = Idle /\ Cardinality({k \in 1..5 : procs[k] # Idle}) < MaxBusy
Fault == faults < MaxFaults /\ faults' = faults + 1

Init ==
  /\ run = [i \in Inputs |-> NONE]
  /\ art = [i \in Inputs |-> NoArtifacts]
  /\ rules = {}
  /\ rec = [r \in Records |-> NONE]
  /\ intent = [p \in Policies |-> NONE]
  /\ fin = Idle /\ pla = Idle /\ sug = Idle /\ gen = Idle /\ app = Idle
  /\ faults = 0

\* _valid_loop_run_v2, which every reader of a run applies.
Valid(r) ==
  /\ r.approved \subseteq r.suggested
  /\ (r.candidate_status = "generated") = (r.candidate # NONE)

-----------------------------------------------------------------------------
(* Memory records and their sources.                                       *)

\* _normalized_action: a record of the same content, whatever became of it.
Known(content) == {r \in Records : rec[r] # NONE /\ rec[r].content = content}

\* resolve_source_bindings: the run.json of each run a record cites, as it is.
\* What else it cites (artifacts, requests, policies) never changes.
Bindings(cited) == [i \in cited |-> run[i]]
Verified(r) == Bindings(DOMAIN rec[r].sources) = rec[r].sources

\* _apply_candidate_once looks for a record of the content, resolves the sources
\* and writes a new record: three steps, under no lock.
NewRecord(r, content, sources) ==
  /\ rec[r] = NONE
  /\ rec' = [rec EXCEPT ![r] = [content |-> content, status |-> "candidate", sources |-> sources]]

\* The review gate verifies the sources before it decides anything.
Review(r) ==
  /\ rec[r] # NONE /\ rec[r].status = "candidate" /\ Verified(r)
  /\ rec' = [rec EXCEPT ![r].status = "reviewed"]
  /\ UNCHANGED <<run, art, rules, intent, procs, faults>>

-----------------------------------------------------------------------------
(* finalize.                                                               *)

\* Without an outcome there is no run: the exchange itself becomes the source.
PlainRead(x) ==
  /\ Starting(pla) /\ x \notin Blank /\ Known(<<"session", x>>) = {}
  /\ pla' = [pc |-> "write", x |-> x]
  /\ UNCHANGED <<files, fin, sug, gen, app, faults>>

PlainWrite ==
  /\ pla.pc = "write"
  /\ \E r \in Records : NewRecord(r, <<"session", pla.x>>, <<>>)
  /\ pla' = Idle
  /\ UNCHANGED <<run, art, rules, intent, fin, sug, gen, app, faults>>

\* _create_loop_run renames a directory into place.
CreateRun(i) ==
  /\ Starting(fin) /\ run[i] = NONE
  /\ run' = [run EXCEPT ![i] =
       [candidate_status |-> IF ExchangeOf[i] \in Blank THEN "not_generated" ELSE "pending",
        candidate |-> NONE, suggested |-> SuggestedBy[i], approved |-> {}, completed |-> FALSE]]
  /\ fin' = IF ExchangeOf[i] \in Blank THEN Idle ELSE [pc |-> "distill", i |-> i]
  /\ UNCHANGED <<art, rules, rec, intent, pla, sug, gen, app, faults>>

\* _reuse_loop_run: nothing is distilled twice.
ReuseRun(i) ==
  /\ Starting(fin) /\ run[i] # NONE /\ Valid(run[i])
  /\ run[i].candidate_status = "pending"
  /\ fin' = [pc |-> "distill", i |-> i]
  /\ UNCHANGED <<files, pla, sug, gen, app, faults>>

Distill ==
  /\ fin.pc = "distill"
  /\ fin' = [fin EXCEPT !.pc = IF Known(<<"session", ExchangeOf[fin.i]>>) = {} THEN "bind"
                              ELSE "mark"]
  /\ UNCHANGED <<files, pla, sug, gen, app, faults>>

BindSession ==
  /\ fin.pc = "bind"
  /\ fin' = [pc |-> "create", i |-> fin.i, sources |-> Bindings({fin.i})]
  /\ UNCHANGED <<files, pla, sug, gen, app, faults>>

WriteSession ==
  /\ fin.pc = "create"
  /\ \E r \in Records :
       /\ NewRecord(r, <<"session", ExchangeOf[fin.i]>>, fin.sources)
       /\ fin' = [pc |-> "link", i |-> fin.i, r |-> r]
  /\ UNCHANGED <<run, art, rules, intent, pla, sug, gen, app, faults>>

\* Validation or the write fails, or the journal after it: the run is removed.
DistillFails ==
  /\ fin.pc \in {"distill", "bind", "create"} /\ Fault
  /\ \/ UNCHANGED rec
     \/ /\ fin.pc = "create"
        /\ \E r \in Records : NewRecord(r, <<"session", ExchangeOf[fin.i]>>, fin.sources)
  /\ fin' = [pc |-> "remove", i |-> fin.i]
  /\ UNCHANGED <<run, art, rules, intent, pla, sug, gen, app>>

\* _link_loop_candidate and _mark_loop_candidate_not_generated read run.json ...
ReadRun ==
  LET r == run[fin.i] IN
  /\ fin.pc \in {"link", "mark"}
  /\ fin' = CASE r.candidate # NONE -> IF fin.pc = "link" THEN [fin EXCEPT !.pc = "unlink"] ELSE Idle
              [] fin.pc = "mark" /\ r.candidate_status = "not_generated" -> Idle
              [] fin.pc = "link" ->
                   [pc |-> "write", i |-> fin.i, r |-> fin.r,
                    json |-> [r EXCEPT !.candidate = fin.r, !.candidate_status = "generated"]]
              [] OTHER ->
                   [pc |-> "write", i |-> fin.i, r |-> NONE,
                    json |-> [r EXCEPT !.candidate_status = "not_generated"]]
  /\ UNCHANGED <<files, pla, sug, gen, app, faults>>

\* ... and write it back whole.
WriteRun ==
  /\ fin.pc = "write"
  /\ run' = [run EXCEPT ![fin.i] = fin.json]
  /\ fin' = Idle
  /\ UNCHANGED <<art, rules, rec, intent, pla, sug, gen, app, faults>>

WriteRunFails ==
  /\ fin.pc = "write" /\ Fault
  /\ fin' = IF fin.r = NONE THEN [pc |-> "remove", i |-> fin.i]
            ELSE [pc |-> "unlink", i |-> fin.i, r |-> fin.r]
  /\ UNCHANGED <<files, pla, sug, gen, app>>

\* _rollback_loop_link: the candidate, then the run.
Unlink ==
  /\ fin.pc = "unlink"
  /\ rec' = [rec EXCEPT ![fin.r] = NONE]
  /\ fin' = [pc |-> "remove", i |-> fin.i]
  /\ UNCHANGED <<run, art, rules, intent, pla, sug, gen, app, faults>>

RemoveRun ==
  /\ fin.pc = "remove"
  /\ run' = [run EXCEPT ![fin.i] = NONE]
  /\ art' = [art EXCEPT ![fin.i] = NoArtifacts]
  /\ fin' = Idle
  /\ UNCHANGED <<rules, rec, intent, pla, sug, gen, app, faults>>

-----------------------------------------------------------------------------
(* loop.reflect and loop.suggest-policies.                                 *)

Reflect(i) ==
  /\ run[i] # NONE /\ Valid(run[i]) /\ ~art[i].reflected
  /\ art' = [art EXCEPT ![i].reflected = TRUE]
  /\ UNCHANGED <<run, rules, rec, intent, procs, faults>>

\* _candidates: the lesson against the rules approved so far.
Status(p) ==
  CASE p = NONE -> "empty"
    [] p \in rules -> "duplicate"
    [] p # NONE /\ Opposite[p] \in rules -> "conflicted"
    [] OTHER -> "review_required"

\* _publish: artifacts that are there must be what would be written; then only
\* run.json may have to be brought in line.
SuggestRead(i) ==
  LET a == art[i]
      json == [run[i] EXCEPT !.suggested = {LessonOf[i]} \ {NONE}]
      fresh == a.policy = NONE /\ ~a.reviewed IN
  /\ Starting(sug) /\ run[i] # NONE /\ Valid(run[i]) /\ a.reflected
  /\ fresh \/ (a.reviewed /\ a.policy = Status(LessonOf[i]) /\ json # run[i])
  /\ sug' = [pc |-> IF fresh THEN "policy" ELSE "run", i |-> i, json |-> json,
             status |-> Status(LessonOf[i]), old |-> a, was |-> run[i]]
  /\ UNCHANGED <<files, fin, pla, gen, app, faults>>

\* _replace_transaction: policy_candidates.json, policy_review.md, run.json.
SuggestWrite ==
  LET i == sug.i IN
  /\ sug.pc # "idle" /\ run[i] # NONE
  /\ \/ /\ sug.pc = "policy" /\ art' = [art EXCEPT ![i].policy = sug.status]
        /\ sug' = [sug EXCEPT !.pc = "review"] /\ UNCHANGED run
     \/ /\ sug.pc = "review" /\ art' = [art EXCEPT ![i].reviewed = TRUE]
        /\ sug' = IF sug.json = sug.was THEN Idle ELSE [sug EXCEPT !.pc = "run"]
        /\ UNCHANGED run
     \/ /\ sug.pc = "run" /\ run' = [run EXCEPT ![i] = sug.json]
        /\ sug' = Idle /\ UNCHANGED art
  /\ UNCHANGED <<rules, rec, intent, fin, pla, gen, app, faults>>

\* A file cannot be replaced, or the run is gone: what was replaced is put back.
SuggestFails ==
  LET gone == run[sug.i] = NONE IN
  /\ sug.pc # "idle"
  /\ IF gone THEN UNCHANGED faults ELSE Fault
  /\ art' = IF gone THEN art ELSE [art EXCEPT ![sug.i].policy = sug.old.policy,
                                             ![sug.i].reviewed = sug.old.reviewed]
  /\ sug' = Idle
  /\ UNCHANGED <<run, rules, rec, intent, fin, pla, gen, app>>

-----------------------------------------------------------------------------
(* loop.generate-candidate, one request for each policy.                   *)

\* _collect_evidence: one run for each exchange; every run must be readable.
Evidence(p) == {i \in Runs : LessonOf[i] = p /\ art[i].policy = "review_required"}
Blockers(p) == {i \in Runs : LessonOf[i] = p /\ art[i].policy \in {"duplicate", "conflicted"}}
Independent(p) ==
  {CHOOSE i \in Evidence(p) : ExchangeOf[i] = x : x \in {ExchangeOf[i] : i \in Evidence(p)}}

\* bug: a reused request collects its evidence afresh.
GenerateAfresh(p) ==
  /\ Starting(gen)
  /\ \A i \in Runs : Valid(run[i])
  /\ Blockers(p) = {} /\ Cardinality(Independent(p)) >= MINIMUM_INDEPENDENT_EVIDENCE
  /\ \/ intent[p] = NONE /\ gen' = [pc |-> "intend", p |-> p, runs |-> Independent(p)]
     \/ /\ intent[p] # NONE /\ intent[p].candidate = NONE
        /\ gen' = [pc |-> "find", p |-> p, runs |-> Independent(p)]
  /\ UNCHANGED <<files, fin, pla, sug, app, faults>>
\* A new request needs enough evidence, a reused one its own still there.
Generate(p) ==
  /\ Starting(gen)
  /\ \A i \in Runs : Valid(run[i])
  /\ Blockers(p) = {} /\ Cardinality(Independent(p)) >= MINIMUM_INDEPENDENT_EVIDENCE
  /\ \/ intent[p] = NONE /\ gen' = [pc |-> "intend", p |-> p, runs |-> Independent(p)]
     \/ /\ intent[p] # NONE /\ intent[p].candidate = NONE
        /\ intent[p].runs \subseteq Independent(p)
        /\ gen' = [pc |-> "find", p |-> p, runs |-> intent[p].runs]
  /\ UNCHANGED <<files, fin, pla, sug, app, faults>>

WriteIntent ==
  /\ gen.pc = "intend"
  /\ intent' = [intent EXCEPT ![gen.p] = [runs |-> gen.runs, candidate |-> NONE]]
  /\ gen' = [gen EXCEPT !.pc = "find"]
  /\ UNCHANGED <<run, art, rules, rec, fin, pla, sug, app, faults>>

\* CandidateStore.create finds the record an earlier attempt made, or makes it;
\* either way it must be a candidate when the store is read again.
FindPrinciple ==
  LET known == Known(<<"principle", gen.p, gen.runs>>) IN
  /\ gen.pc = "find"
  /\ \/ known = {} /\ gen' = [gen EXCEPT !.pc = "bind"]
     \/ \E r \in known : gen' = [pc |-> "check", p |-> gen.p, runs |-> gen.runs, r |-> r]
  /\ UNCHANGED <<files, fin, pla, sug, app, faults>>

BindPrinciple ==
  /\ gen.pc = "bind" /\ gen.runs \subseteq Runs
  /\ gen' = [pc |-> "write", p |-> gen.p, runs |-> gen.runs, sources |-> Bindings(gen.runs)]
  /\ UNCHANGED <<files, fin, pla, sug, app, faults>>

WritePrinciple ==
  /\ gen.pc = "write"
  /\ \E r \in Records :
       /\ NewRecord(r, <<"principle", gen.p, gen.runs>>, gen.sources)
       /\ gen' = [pc |-> "check", p |-> gen.p, runs |-> gen.runs, r |-> r]
  /\ UNCHANGED <<run, art, rules, intent, fin, pla, sug, app, faults>>

CheckPrinciple ==
  /\ gen.pc = "check"
  /\ gen' = IF rec[gen.r].status = "candidate" THEN [gen EXCEPT !.pc = "complete"] ELSE Idle
  /\ UNCHANGED <<files, fin, pla, sug, app, faults>>

\* The write or the journal fails, or a cited run is gone.
CreatePrincipleFails ==
  /\ gen.pc \in {"find", "bind", "write"} /\ gen' = Idle
  /\ \/ gen.pc = "bind" /\ ~(gen.runs \subseteq Runs) /\ UNCHANGED <<rec, faults>>
     \/ Fault /\ UNCHANGED rec
     \/ /\ Fault /\ gen.pc = "write"
        /\ \E r \in Records : NewRecord(r, <<"principle", gen.p, gen.runs>>, gen.sources)
  /\ UNCHANGED <<run, art, rules, intent, fin, pla, sug, app>>

CompleteIntent ==
  /\ gen.pc = "complete"
  /\ intent' = [intent EXCEPT ![gen.p] = [runs |-> gen.runs, candidate |-> gen.r]]
  /\ gen' = Idle
  /\ UNCHANGED <<run, art, rules, rec, fin, pla, sug, app, faults>>

-----------------------------------------------------------------------------
(* approve-policies: the policies checked in policy_suggestions.md.        *)

ApproveRead(i, checked) ==
  /\ Starting(app) /\ run[i] # NONE /\ Valid(run[i])
  /\ app' = [pc |-> IF checked \subseteq rules THEN "run" ELSE "rules", i |-> i,
             old |-> rules, rules |-> rules \cup checked,
             json |-> [run[i] EXCEPT !.approved = checked, !.completed = TRUE]]
  /\ UNCHANGED <<files, fin, pla, sug, gen, faults>>

\* bug: run.json is replaced first.
ApproveWriteRunFirst ==
  /\ \/ /\ app.pc = "rules" /\ run[app.i] # NONE
        /\ run' = [run EXCEPT ![app.i] = app.json]
        /\ app' = [app EXCEPT !.pc = "run"] /\ UNCHANGED rules
     \/ /\ app.pc = "run" /\ run[app.i] # NONE
        /\ run' = [run EXCEPT ![app.i] = app.json] /\ rules' = app.rules
        /\ app' = Idle
  /\ UNCHANGED <<art, rec, intent, fin, pla, sug, gen, faults>>
\* _replace_transaction: memory_rules.md, then run.json.
ApproveWrite ==
  /\ \/ /\ app.pc = "rules" /\ rules' = app.rules
        /\ app' = [app EXCEPT !.pc = "run"] /\ UNCHANGED run
     \/ /\ app.pc = "run" /\ run[app.i] # NONE
        /\ run' = [run EXCEPT ![app.i] = app.json]
        /\ app' = Idle /\ UNCHANGED rules
  /\ UNCHANGED <<art, rec, intent, fin, pla, sug, gen, faults>>

ApproveFails ==
  /\ app.pc # "idle"
  /\ IF run[app.i] = NONE THEN UNCHANGED faults ELSE Fault
  /\ rules' = app.old
  /\ app' = Idle
  /\ UNCHANGED <<run, art, rec, intent, fin, pla, sug, gen>>

-----------------------------------------------------------------------------
Crash ==
  /\ Fault
  /\ \/ fin # Idle /\ fin' = Idle /\ UNCHANGED <<pla, sug, gen, app>>
     \/ pla # Idle /\ pla' = Idle /\ UNCHANGED <<fin, sug, gen, app>>
     \/ sug # Idle /\ sug' = Idle /\ UNCHANGED <<fin, pla, gen, app>>
     \/ gen # Idle /\ gen' = Idle /\ UNCHANGED <<fin, pla, sug, app>>
     \/ app # Idle /\ app' = Idle /\ UNCHANGED <<fin, pla, sug, gen>>
  /\ UNCHANGED files

Next ==
  \/ (\E x \in Exchanges : PlainRead(x)) \/ PlainWrite
  \/ \E i \in Inputs : CreateRun(i) \/ ReuseRun(i)
  \/ Distill \/ BindSession \/ WriteSession \/ DistillFails
  \/ ReadRun \/ WriteRun \/ WriteRunFails \/ Unlink \/ RemoveRun
  \/ \E i \in Inputs : Reflect(i) \/ SuggestRead(i)
  \/ SuggestWrite \/ SuggestFails
  \/ \E p \in Policies : Generate(p)
  \/ WriteIntent \/ FindPrinciple \/ BindPrinciple \/ WritePrinciple \/ CheckPrinciple
  \/ CreatePrincipleFails \/ CompleteIntent
  \/ \E i \in Inputs : \E checked \in SUBSET SuggestedBy[i] : ApproveRead(i, checked)
  \/ ApproveWrite \/ ApproveFails
  \/ \E r \in Records : Review(r)
  \/ Crash

Spec == Init /\ [][Next]_vars

-----------------------------------------------------------------------------
(* Properties.                                                             *)

\* Stage 13, two-phase recovery: whatever fails or is killed, whatever evidence
\* arrives or is removed between two attempts, a request makes one principle.
PrincipleOnce ==
  \A r, s \in Records :
    rec[r] # NONE /\ rec[s] # NONE /\ rec[r].content[1] = "principle" /\ rec[s].content[1] = "principle"
      /\ rec[r].content[2] = rec[s].content[2] => r = s

\* memory_agent.py approve_policies: a policy a run says was approved is in
\* memory_rules.md, whatever was killed, rolled back or rewritten since.
ApprovedRuled == \A i \in Runs : run[i].approved \subseteq rules

\* source_refs.py resolve_source_bindings: a candidate that its run knows of
\* can be reviewed as long as nobody touches the run.
LinkedReviewable ==
  \A i \in Runs : run[i].candidate_status = "generated" /\ run[i].approved = {}
    /\ run[i].suggested = SuggestedBy[i] => Verified(run[i].candidate)

=============================================================================
