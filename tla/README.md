# A verification of LAOS (research-agent-memory)

TLA+ models of the parts of LAOS that must stay correct when processes
interleave, fail, crash and retry; TLC runs that check them on small instances;
and theorems about them checked by TLAPS. File names are relative to the
repository's implementation directory `src/` unless they say otherwise.

`PROJECT.json` is the index: which component is modelled where, what each run
and theorem is for, which lines each definition models, the hazards the
properties are for, and the findings.

## 1. The system

LAOS gives several AI hosts one long-term memory. Hosts' conversations arrive as
bridge events; a projector turns them into sessions; a review of the sessions
proposes memory candidates and procedures; nothing becomes trusted memory
without a human decision, which is activated by an authority that keeps
receipts. Learning loops and delegated tasks produce further candidates, and a
vault writer promotes reviewed notes into an Obsidian vault.

Everything is local: SQLite databases, JSON and Markdown files, and short-lived
processes (command line, MCP servers) that share them. There is no server that
orders their steps. So the hard parts are what two processes read before the
other one writes, and what a killed process leaves behind.

| Component | State | Operations | Hard behaviour | What makes it correct | Module |
|---|---|---|---|---|---|
| Decision-bound activation: `review/authority.py`, `review/gate.py`, backend `memory_distill.py`, `memory.py` `_replace_transaction` | memory files, decisions, pending records, receipts, generation, file lock | propose, review (publish decision), activate, read (`authorize_active_records`) | crash between any two writes; retries; two reviewers; edits | commits follow the generation; what is active has a receipt or is in the baseline; crashes are recoverable | MemoryAuthority, AuthorityLedger |
| Vault writer: `vault_scanner/vault_writer.py` | candidate files, formal notes, tables candidates, promotion_plans, audit_events | create, review, invalidate, re-review, plan, retarget, abandon, promote, cleanup | files and database written in turn; user edits; concurrent callers | what is promoted was reviewed; no note is overwritten or lost; outcomes are audited | VaultPromotion |
| Bridge: `bridge/inbox.py`, `projector.py`, `recovery.py`, `service.py`, `mcp_checkpoint.py` | inbox table (status, attempts) | ingest, claim, project, mark processed/failed, recover | duplicates, drafts and finals, retries, a restart while another process works | each final event becomes one message; drafts never overwrite finals | BridgeProjection |
| Sessions and conversation review: `sessions/store.py`, `reflection/*.py` | messages, review counters and positions | append, advance, review, complete, fail | events replayed after a crash; turns counted while a review runs | a turn is counted once; a repeated review finds what it made | BridgeProjection |
| Human review store: `human_review/review_store.py`, `decision.py` | write-once decision slots per request | decide, show, list | two reviewers race for a slot (hard link); directories, names and slots are read one by one | nothing decided changes; an answer given stays true; a read is of some moment of the call | ReviewChain, DecisionRegister |
| Learning chain: `learning_loop/persistence.py` and its producers (`evidence.py`, `evaluation.py`, `enrichment.py`, `reflection_builder.py`, `eligibility.py`, `queue_request.py`) | content-addressed artifacts | persist, resume; pure functions | a crash or failure inside a chain of publications | a request has its chain below it and was warranted; a retry goes on from any remains | ReviewChain, LearningChain |
| Learning loop runs: `learning_loop/loop.py`, `coordinator.py` | run.json, review_decisions.json, auto_loop.json, artifacts | execute, review, activate_review, compare, advance | read-modify-write of files without a lock; one generation for all candidates of a run | activated means committed; verified means improved by that memory; an interrupted run is resumed | LearningRun |
| Memory core: `memory.py`, `memory_tools.py`, `memory/*.py` | memory files, documents, SQLite index | init, index, rebuild, migrate, search, import | files change while they are read; index runs overlap, and replace the database under each other | rows are what their hashes stand for; a search tells what the files say; an index run leaves the index on the files | MemoryIndex (and MemoryAuthority for replacing files) |
| Memory agent: `memory_agent.py`, `agents/{policy,reflection,candidate_generator}.py`; sources: `review/source_refs.py` | run directories, artifacts, rules, request intents, records | finalize, reflect, suggest-policies, generate-candidate, approve-policies | several files per command, failures with rollback, kills, old copies written back | one principle for a request; approved is in the rules; a record can be reviewed | AgentRuns |
| Procedure library: `procedures/*.py` | proposals, documents, backups, archive, catalog | create, review, apply, rollback, curate | document, backup and status are three writes | a rollback restores what was there before; what was taken back stays away | ProcedureLibrary |
| Delegation: `delegation/tasks.py`, `manager.py` | tasks, links | create, link, ready, claim, complete, block | links to tasks already started; blocked tasks; a crash inside complete | a task runs after what it waits for | TaskBoard |
| Vault scanner, agent framework, runtime, models, tools, hosts, profiles, diagnostics | index files; none | scan, dispatch, I/O, protocol | - | - | not modelled |

How they interact: the bridge writes sessions and calls the conversation review
coordinator; the coordinator creates candidates through `memory_distill.py` and
procedures through `procedures/`; the memory agent and the learning loop create
candidates and ask `ReviewGate`, which compares their sources
(`review/source_refs.py`) before it decides; `ReviewGate` is the only caller of `AuthorityStore.activate`, which
calls back into the review backend. The vault writer shares nothing with them
but the vault.

## 2. Plan

In the order of importance to the system's promise (trusted memory). Done:

1. **MemoryAuthority** with the abstract **AuthorityLedger**; proofs, the
   refinement included.
2. **VaultPromotion**; proofs.
3. **BridgeProjection** (inbox, projector, sessions, review counters) with the
   abstract **SessionLog**, in a strict and a weak form; proofs, the refinement of
   the weak form included.
4. **ReviewChain**: the publication of learning chains and the human decisions
   about them in one state directory, with the producers as operators
   (**LearningChain**) and the abstract **DecisionRegister**; proofs, the refinement
   included.
5. **LearningRun**: the reviewed learning loop over what AuthorityLedger promises;
   proofs.
6. **MemoryIndex**: files, documents, index, search; proofs.
7. **AgentRuns**: the memory agent's learning chain and its source bindings; proofs.
8. **ProcedureLibrary** and **TaskBoard**, checked in one run (MCWorkbench); proofs.

Left:

9. The reader `authorize_active_records` composed with MemoryAuthority;
   pattern_engine as an operator; the failover of `models/router.py`.

## 3. The modules and the code

One action is one step after which another process may run or the process may be
killed: one SQLite transaction, one atomic file operation, or one reading of
shared state whose result is used later. Local computation belongs to the step
that uses it. Every model has a program counter per process (`proc[p].at`), and
the record `proc[p]` holds exactly the local variables the code still uses.

### MemoryAuthority and AuthorityLedger

| State | Code |
|---|---|
| `store`, `expected` | the Markdown files of memories and candidates; the target status and hash each proposal recorded |
| `decisions`, `pending`, `receipts`, `gen` | the directories and the file under `memory_authority/` (`review/authority.py`) |
| `lock` | `activation.lock` (`AuthorityStore.locked`) |
| `proc[p]` | a process in `ReviewGate.review` or `activate`: its decision, what the backend read (`saved`), how many files it replaced (`done`), which it must put back (`left`) |

`BeginReview`, `PublishDecision` are `publish_decision`: snapshot first, generation
later. `Acquire` to `RemovePending` are `activate` in its order: an existing
receipt (`FindReceipt`), the generation check (`RefuseGeneration`), a pending
record found or written (`ReusePending`, `RefuseStale`, `Prepare`), the
comparison of the candidate's file with the decision or with the outcome
(`VerifyCandidate`, `Recover`, `RefuseUncertain`), the backend (`PlanWrites`,
`RefuseApply`, `ReplaceFile`, `ReplaceFails`, `Undo`, `IndexSucceeds`,
`IndexFails`, `Restore`, `Restored`, `JournalFails`), the handler of its
exceptions (`Raise`), then `WriteReceipt`, `AdvanceGeneration` or `RefuseAdvance`,
`RemovePending`. `Crash` drops a process, and the lock with it, at any point of
`CrashPoints`.

Two files are equal in the model exactly when the parts the code compares by
sha256 are: status, audit status, edits, merged candidates, superseded_by.

AuthorityLedger is what a caller may assume: decisions accumulate, and a commit is
a compare-and-swap on the generation, for good. There is one exception, because
`_commit_receipt` writes the receipt before the generation file: until the file
follows, other decisions of the generation just left may be committed
(`Overtake`). A decision counts as committed when its receipt is on disk; the
generation seen through the refinement is that of the latest receipt, and
`behind` says that the file still names the one before.

### VaultPromotion

| State | Code |
|---|---|
| `files` | the texts at the inbox paths and at the formal paths |
| `cands`, `plans` | the tables `candidates`, `promotion_plans` |
| `audit` | the outcomes among `audit_events` |
| `proc[p]` | a caller in one of the functions, with what it read |

Every function is a Begin action (its reads and refusals) and one action per
write; `promote` has ten: `Claim`, `LoadCandidate`, `PassCheck` or
`RecordConflict` and `MarkConflicted`, `ReadSource`, `WriteTarget`,
`CommitPromotion` or `RollBackTarget` and `MarkFailed`, `RemoveSource`.
`PromoteRaises`, `RefuseCandidate`, `RefuseClaim` are its early ends. `User` edits
a candidate's file or writes a note of his own.

### BridgeProjection and SessionLog

| State | Code |
|---|---|
| `inbox`, `arrival` | table `bridge_events` and its row order (`bridge/inbox.py`) |
| `sessions`, `messages` | tables `sessions`, `messages` (`sessions/store.py`) |
| `counted`, `counters`, `reviewed` | tables `review_events`, `review_state` (`reflection/state.py`) |
| `made` | memory candidates and procedure proposals created by reviews |
| `proc[p]` | a server in `drain`: the event it projects, the ordinal or history length it read, the topics due, what is left to save |

`Ingest` is `BridgeEventInbox.ingest` with its three outcomes, `Recover` is
`recover_processing`, `Claim` and `EndDrain` are `claim_next`. `Project` is
`SessionProjector.project` up to the message, `ReviewStep` is `_review`,
`record_turn` and `ConversationReviewService.apply`. `MarkProcessed`,
`ReadFailure`, `RecordFailure` end an event; `MarkRefused` is the `ValueError`
of either when the row is no longer `processing`.

SessionLog has no queue and no process: the final text of an event is fixed once,
the message is appended, after its parent, and only then acknowledged. `Once` says
that it is appended once and acknowledged for good, which one server keeps to
(`ImplementsLog`). Several that start while others work do not
(`ImplementsDeliveries`): they may append a message again and take an
acknowledgement back, but nothing else.

### ReviewChain, LearningChain and DecisionRegister

| State | Code |
|---|---|
| `disk` | the artifacts of each chain that are linked in place: E, R, El in the chain's directory, Q in `review_queue/` (`learning_loop/persistence.py`) |
| `temps` | `.tmp.` files: the writer's by directory, a reviewer's by name |
| `slots`, `queueDir`, `decisionsDir` | the decision files `<request>.<seq>` and the directories (`human_review/review_store.py`) |
| `writer`, `caller[r]` | the process in persist or resume; the processes in `ReviewStore`, with all they have read so far |

LearningChain is the pure part: strata of memory records, sufficiency, verdict,
readmission, preconditions and the eligibility matrix, up to `ExpectedChain`. A
content hash is the content, so two artifacts have one name exactly when they
are equal. ReviewChain adds one action for each probe, temporary file, link and
unlink of the writer, and for each `lstat`, `scandir`, read and link of a
reviewer. DecisionRegister has no file at all: a request is opened, then
decided, or deferred and then decided.

### LearningRun

| State | Code |
|---|---|
| `run`, `art`, `data` | `run.json`, which artifacts exist, and what they say (`learning_loop/loop.py`) |
| `file` | `review_decisions.json` of the baseline run |
| `auto` | `auto_loop.json` (`learning_loop/coordinator.py`) |
| `drv`, `rev[p]` | the process that calls `advance`; each reviewer in `review` or `activate_review`, with the copies of both files it loaded |
| `committed`, `generation`, `retired` | what the activation authority has committed, the generation in its file, and which memory later activations have deprecated or superseded |

`Execute` to `SaveRun` are `execute` with the existing artifacts found again;
`Advance`, `Reconcile`, `ReviewState`, `ScheduleVerification`, `Conclude` are
`advance`; `Compare` and `SaveComparison` are `compare`. Memory is read in the steps
the code has: the query of the context and then each record (`QueryContext`,
`CheckSource`, `WriteContext`), and one record after the other before an activation
counts (`LookUp`, `CountActivated`). A reviewer loads (`ReviewLoad`, `ActivateLoad`),
asks the gate (`PublishDecision`, `Activate`) and writes both files whole
(`WriteDecisions`, `SaveReview`, `SaveActivation`). An activation is what
AuthorityLedger promises, a kill between receipt and generation included.
`DecideElsewhere` is any other user of the gate, `Retire` an activation of his that
deprecates or supersedes this loop's memory.

### MemoryIndex

| State | Code |
|---|---|
| `mem`, `docs` | the memory files by name and the documents with their metadata; a file's SHA-256 is its content |
| `logs`, `db` | the write-ahead logs that connections are open on, with the tables read through them, and the one beside `index.sqlite3` (`memory.py`) |
| `v2`, `make` | a version 2 database to migrate; db-init or the migration under way |
| `idx[x]`, `srch` | an index run: what it parsed, hashed, selected, planned; a search with its hashes and rows |
| `torn` | history: the files that some index run parsed as one thing and hashed as another |

Every reading of files and every SELECT is a step: `IndexRead`, `IndexHash`,
`IndexDocuments`, then `SelectRows` and `SelectStates` for each of the two tables,
the transaction `IndexApply`, and `IndexCheckpoint`; a rebuild removes the log
(`RebuildClear`) and puts its own file under the name (`RebuildReplace`). A search
reads, hashes, reads documents and connects (`SearchRead` to `SearchDocuments`),
compares the states of both tables (`SearchStates`, `SearchDocumentStates`), and only
then selects (`SearchMemories`, `SearchFinds`). `MigrateBegin` looks for the output,
`MigrateReplace` replaces what has the name by then, `MigrateFails` removes it.

A connection keeps the log it was opened on. `Replace` gives the name to another
file; a log that was left beside the old one may be replayed over the new one, which
then cannot be read. `RemoveLog` leaves the log to whoever is connected. `Commit`
says what a transaction on such a log can still reach: the file that has the name
now, or none.

### AgentRuns

| State | Code |
|---|---|
| `run`, `art` | `run.json` and the artifacts of each run directory (`memory_agent.py`, `agents/reflection.py`, `agents/policy.py`) |
| `rules` | `memory_rules.md` |
| `rec` | memory records: content, status, and the sources they were bound to (`review/source_refs.py`) |
| `intent` | `generated_candidates/<request>.json` (`agents/candidate_generator.py`) |
| `fin`, `pla`, `sug`, `gen`, `app` | finalize with an outcome and without one, suggest-policies, generate-candidate, approve-policies under way |

A run's id is a digest of its input, so `Inputs` name the runs; `ExchangeOf` says
which inputs share task and result. Every command is one action for each file it
reads into a copy or replaces, and one for its failure there with the rollback
the code does (`Unlink`, `RemoveRun`, `SuggestFails`, `ApproveFails`). The look for a
duplicate, the binding of sources and the writing of a record are three steps
(`Distill`, `BindSession`, `WriteSession`; `PlainRead`, `PlainWrite`;
`FindPrinciple`, `BindPrinciple`, `WritePrinciple`, `CheckPrinciple`).

### ProcedureLibrary and TaskBoard

| State | Code |
|---|---|
| `status`, `backup` | the proposals' rows and backup files (`procedures/proposals.py`, `manager.py`) |
| `live`, `archive` | the procedure's directory and its copy under `.archive`: the document and one added file |
| `catalog` | the procedure's entry in `procedure_catalog.json`, "torn" when it cannot be parsed (`catalog.py`, `curator_*.py`) |
| `state`, `owner`, `links` | the tables of `delegation/tasks.py` |
| `finishing` | workers between the two transactions of `complete` |

`Apply`, `WriteFile`, `WriteBackup`, `Mark`, `SetStatus` are `apply`; `Rollback`,
`Restore` and the same last two `rollback`. `Stop` ends a call anywhere.

## 4. The runs

All runs set `CHECK_DEADLOCK FALSE`: callers have finitely many candidates,
decisions, events or changes, and may have nothing left to do. Instances are
small because each hazard needs few actors; the bounds below are those at which
it occurs.

| Run | Instance | Question |
|---|---|---|
| `authority_anyorder` | 2 candidates (a merge into m1, a transition that replaces m1), 2 callers in any order, 2 decisions, 1 crash at any point, 1 edit at any time | what holds with no assumption on callers, crashes and edits, and is the store then AuthorityLedger? |
| `authority_progress` | a replacement of m1 and an unrelated conflict, 2 callers, 2 decisions, 1 crash, 1 edit, fairness | when callers resolve a pending activation first: is every one resolved, and do memories and receipts agree? |
| `vault_serial` | 2 candidates, 2 targets, 2 plans, 2 texts, 1 caller, 1 crash, 2 user actions, failures | are texts, notes and outcomes right when operations take turns? |
| `bridge_projection` | a question and its answer in 2 texts, 2 servers, either of which starts when it likes, 1 crash, database failures, a scope one server refuses | what are the sessions, even when servers requeue each other's events? |
| `bridge_counters` | two answers and a checkpoint, thresholds 2 and 1, 1 server, 2 attempts, 1 crash, fairness | does one server implement the exactly-once log, are candidates unique, is every event settled? |
| `review_decisions` | 3 chains (just enough evidence, too little, a forged evaluation), 2 reviewers, 4 commands, 3 calls, 1 failure or kill | do slots and queue implement DecisionRegister, do answers stay true and reads belong to a moment of the call, was every request warranted, is every retry accepted? |
| `learning_run` | 2 criteria of which 1 may fail, 2 reviewers, 1 fault (crash, backend failure, decision elsewhere, memory withdrawn or overlapping call), fairness | was activated memory activated, does verified mean improved by it, is an interrupted run taken up again? |
| `learning_resume` | 1 criterion, 1 reviewer, 1 fault | finding: a run killed after it is saved as completed is never finished |
| `memory_index` | 1 memory with 2 names, 1 conversation of 2 versions, 2 raw files of 2 texts, 2 index processes, 1 change of the data root, 3 commands, 4 logs | are rows what their hashes stand for, is what a search finds true, does an index run end on its files? |
| `agent_runs` | 3 inputs of 2 exchanges that teach one lesson, one of them suggests its opposite, 4 records, 1 failure or kill, 1 command at a time | one principle for a request, approved policies in the rules? |
| `workbench` | 4 proposals (2 creations, an update, an addition), 1 caller that may stop anywhere; 3 tasks, 2 workers | can every applied proposal be taken back, does nothing taken back return, do tasks wait for what they depend on? |
| `agent_stale_sources` | as `agent_runs`, without faults | finding: a candidate linked to its run can be neither accepted nor rejected |

Why the bounds suffice. Two callers are enough because what they share is a lock
and one record each, or a slot: a third one adds no new pair of steps. Two
candidates are needed for one decision to overtake another, a crash and a retry for
a recovery. Two plans and two targets are the least for a second plan.
A question and its answer are a parent and its child; two texts are a draft and a
final that differs; two turns and a checkpoint reach a threshold, pass it and force a
review below it. `MaxAttempts` is 1 or 2 where the code has 5: the code only
compares the number. Two criteria let a run pass with one candidate or fail with
two, so that one activation can overtake another. Two raw files
can trade contents; three commands are two index runs and a search, or a migration
with an index run and a search on what it made; four logs are the one beside the
database and one for each of three connections. The code asks for three
independent pieces of evidence (`agents/candidate_generator.py:25`); the runs set
`MINIMUM_INDEPENDENT_EVIDENCE` to 2, a bound, so that three runs of two exchanges
reach it with one that does not count. `MaxClaims` bounds how often an event is
requeued after a crash; the other `Max...` constants bound what they name.
Symmetry is used over callers and over names nothing orders; never in a run with
fairness.

`agent_runs` has `MaxBusy` = 1: commands of the memory agent take turns, with
reviews, failures and kills between their steps. That commands of different kinds
overlap is in reach of the proofs only (section 6). `workbench` has one caller:
calls of the procedure library do not overlap, which `DocumentStands` needs and the
other properties, proved for any callers, do not. The two components of
`workbench` share no variable, so each runs while the other has not begun.

### Assumptions on the environment

Those that are constants can be dropped by a run. A property checked under one of
them says nothing of the hazard that it excludes, and no hazard in `PROJECT.json`
names it for that.

- `RecoverFirst`, in `authority_progress` only: callers resolve a pending activation
  before they activate another decision. Nothing in the code enforces it. Without it
  a second decision of the same generation passes the check between a receipt and
  the generation file (`Overtake`), the pending one is then refused by every retry,
  and a receipt may cover what another activated.
- `EditWhen`, in `authority_progress` only: users edit candidates when no activation
  is running or pending ("quiet"). In the code an edit between `VerifyCandidate` and
  `PlanWrites` is activated unreviewed, and one while the activation is pending makes
  it uncertain.
- `CrashPoints`: `WholePoints`, in `authority_progress` only, leaves out the points
  between two `os.replace` of one activation. A crash there leaves some files
  replaced; nothing puts them back, and reads stay refused.
- `Serial`: operations on the vault take turns. Without it an edit between promote's
  check and its second read is promoted, an abandon that overlaps a promote
  overwrites its outcome, and two creations at one path break `TextKept`.
- `OnePlan`: a candidate has one plan that can still be claimed. Without it the
  target checked is that of the last plan and the one written that of the claimed
  plan, and `NotesKept` fails.
- `RecoverAlone`: a server starts only while none is projecting; `bridge_counters` has
  one server, and `bridge_projection` assumes nothing. Without it `MessageOnce` and
  `CandidateOnce` fail, and two servers that review one session forget turns.
- One caller of the procedure library. With two, `DocumentStands` fails: a second
  application saves as "before" what the first is undoing.
- One process of each kind of the memory agent's commands, a finalize with an outcome
  and one without being two kinds. Two approvals that overlap lose a rule
  (`memory_agent.py:927-947`), and two finalizations make two records of one exchange
  (`memory_distill.py:336-391`; the model's two kinds show it as well).
- What SQLite and the file system do is external: a transaction and a replacement of
  a name are atomic, a statement reads one state of a table, and what a removed log
  or a replaced file leaves is as section 3 says. A set of files that one function
  lists and reads is read in one step.

Each counterexample named here is reproduced by changing that constant, and the
callers where more than one is meant, in the configuration of a passing run; the
duplicates of `RecoverAlone` by adding `MessageOnce` to `bridge_projection`, the
overtaking by taking `Overtake` out of AuthorityLedger.

### Fairness

`MemoryAuthority!FairSpec`: weak fairness of every caller's own steps, which wait
for nothing but the lock once an activation has begun, and strong fairness of a
retry of a pending decision, an assumption on the operator (the lock may be taken
again and again by others). `BridgeProjection!FairSpec`: weak fairness of a
server's steps (`drain` loops until nothing is claimable) and strong fairness of
its restart, which is when the code requeues events a crash left in `processing`;
retries of an event wait for the next drain. `LearningRun!Spec`: weak fairness of
the driver and of each reviewer, because `advance` is meant to be called until the
loop ends and an open candidate to be reviewed, and strong fairness of naming a
verification task, which `advance` waits for. No fairness is assumed of
deliveries, users, edits, failures or crashes.

`EventSettled` speaks of events that wait for nobody: an event whose parent
failed for good waits for ever, and no document says otherwise. `InterruptedResumed`
speaks of a run that its backend, or memory withdrawn under it, interrupted;
`MissingStepsResumed` of any run, and fails (section 5). That the whole loop ends is
not claimed: one activation refuses the decisions of all candidates reviewed at the
same generation, and an entry that an overlapping review overwrote leaves its
candidate undecided.

## 5. Findings

`PROJECT.json` has the lines.

- **A candidate that no review can decide** (`agent_stale_sources`). A candidate
  that finalize makes for a run with an outcome is bound to the hash of `run.json`,
  and finalize then rewrites that file to name the candidate. The review gate
  compares the binding byte for byte, so the candidate is `stale_source` from the
  start. Version 2 of the run format, which `source_refs.py` already digests without
  the changing fields, would not have the problem, but nothing writes it.
- **A run that is never resumed** (`learning_resume`). `execute` saves a run that
  passed as completed before its reflection, candidates and suggestions are there,
  and a later `execute` returns a completed run at once. Killed in between, the run
  keeps its missing steps for good, though `docs/stage_07_learning_loop.md:42-43`
  promises that running it again resumes them.

Two more places where a document promises what the models show not to hold; they
are listed as hazards:

- `docs/bridge_ingestion.md:132`: "Interrupted projections can be requeued safely
  without duplicate messages." `bridge_server.main` requeues and drains before it
  binds its port, so a second server, even one that then fails to start, projects an
  event that the first is still projecting, and both append it.
- `docs/design/human-review/human-review-design-baseline-v1.8.md:123` wants
  `orphan_decision` only after two rounds of collection; `decide` reports it after
  one, for a request published and decided between its two looks. `list` looks twice.

And `README.md:105` says that restricted content is not searched by default: a memory
that becomes restricted between the two reads of an index run is stored with its old
record and its new hash, never corrected, and found.

Other behaviours the models show, on which no document takes a position:

- Of the authority: two accepted decisions that give content to one memory leave two
  receipts that bind it to different files, after which `authorize_active_records`
  refuses every read; an activation repeated after later ones is refused by
  `_set_generation` although its receipt exists; a candidate edited while its
  activation is pending blocks reads until somebody settles it.
- Of the vault: the failures of `Serial` and `OnePlan` above; a plan left `promoting`
  by a crash stays so; a review of a candidate edited since its creation approves a
  hash nobody can promote; a promotion whose transaction fails leaves no audit event.
  Of the bridge: a failed parent blocks its children.
- Of the index: a conversation imported again after it changed has the document id
  of its old file, and every index run fails from then on; two raw files that trade
  contents fail the run as well; a migration that fails removes what has the name of
  its output by then, another command's database included; a transaction on a
  connection whose log was removed may be seen by nobody.
- Of the memory agent: approve-policies and then suggest-policies leave a run that
  every reader rejects; a failed finalize removes a run that was there before; two
  overlapping finalizations record one exchange twice.
- Of the procedure library: an added file applied again after a stop records
  itself as its own predecessor; a stop between the rename of a directory and the
  catalog, or while the catalog is written, leaves the curator stuck; a rolled back
  creation leaves an empty directory that blocks a restore from the archive, and
  the archive may keep a document that was taken back.
- Of the board: a cycle of links is accepted and never becomes ready; nothing ends
  a claim but its owner.

## 6. Proofs

All theorems hold for every value of the constants that satisfies the ASSUMEs of
the modules: the shape of the inputs; that NONE is none of the values it stands
apart from; that numbers are numbers; that a context's id is new when it is made
(`FreshAssumption`, the code draws it); that the criteria are finitely many; that
a bundle's records are a sequence; that a directory holds finitely many files
(`FilesAssumption`). None has a hypothesis on the environment: the settings of
section 4 (`RecoverFirst`, `EditWhen`, `CrashPoints`, `Serial`, `OnePlan`,
`RecoverAlone`) may have any value, and callers, servers and reviewers overlap as
they like. One assumption is built into a module: AgentRuns has one process of each
kind.

**MemoryAuthorityProofs.** `TypeCorrect`. `Safety`: the inductive invariant
`SafeInv`. `GenerationBacked` alone is not inductive: that the generation is about
to be advanced only for a receipt written needs what each program point implies
(`PhaseInv`), and that nobody else moves the generation meanwhile needs that
whoever is past `Acquire` holds the lock (`LockInv`). `GenerationBackedAlways` and
`AppliedOnceAlways` follow.

`Files` relates the files to the ledger. First, of the pure part, that a plan writes
each file once, the candidate's among them, and with a deprecated memory what
supersedes it (`WritesPlan`). Then a file of the backend's plan is what it planned,
or what it read, according to how far it replaced or put back (`BackendOf`); and
what a candidate's file says agrees with receipts and pending records, both on disk
and in the copy that a rollback would restore (`Accounted`, `FilesInv`, `SnapInv`).
Without the copy it is not inductive: a rollback would bring back files nobody
accounts for. `OutcomeAccountedAlways`.

`AuthorityImplementsLedger`: `PublishDecision` is the ledger's `Publish`;
`WriteReceipt` is `Commit`, or `Overtake` when the generation is still one that
another receipt has used; `AdvanceGeneration` is `Settle`, unless the file has
followed already; every other write, rollback, recovery, edit and crash is a stutter (`VisibleSteps`, `LedgerStep`). The
mapping needs that a process past the lock works on a published decision (`Held`)
and that a receipt is written only for a decision without one (`ReceiptIsNew`).

**VaultPromotionProofs.** `VaultInv` joins the types with what callers may rely
on: the candidate and plan of a caller exist, only claimed plans leave "active"
and none returns to it (`PlansMayBecome`). So a plan claimed once cannot be claimed
again: `VaultSafety`, `ClaimExclusiveAlways`, for any overlapping callers.

**BridgeProjectionProofs.** Servers may requeue, fail and finish each other's
events, so a status says nothing about who works on an event. What remains true of
a server does not depend on the inbox: messages are never removed, so the parent
it found acknowledged stays in the session (`Learnt`). With it
`AcknowledgedLoggedAlways` and `AfterParentAlways` are inductive (`Order`).
`Final`: a row is final exactly when it can be claimed or was (`FinalRows`), and the
event a server works on is final (`WorkFinal`), because a row that is final stays
so (`RowsStayFinal`). From both, `BridgeImplementsDeliveries`: a final delivery is
`Finalize`, the insertion of the message `Deliver`, `mark_processed` `Acknowledge`,
a failure recorded for what another has acknowledged `Retract`, and every other
step, crash and recovery a stutter. A text may be in the log twice; that it is there once is
the log with `Once`, which needs that servers start alone and is model-checked.

**ReviewChainProofs.** The plan of a
chain is `E`, `R`, `El`, then `Q` if it is warranted (a case analysis of
LearningChain), so `WriterInv` can say: what is on disk is a beginning of the
plan, and what is linked next is the first that is missing.
`RetryAcceptedAlways`, of every step, and `RequestWarrantedAlways`.
`SlotsInv`: slots are filled in order, by a deferral first, and only for requests
that are there. `CallsInv`: what calls know, none of which can be locked. A
listing read after the call began contains what was there then (`Begun`), and
slots never change, so a stage computed from names of one moment and texts of
another is one the request had (`Had`), in the call's own time (`Timely`): not one
that was over when the call began. That a list omits no request it should show is a
statement about all the chains it has gone through (`ListsAll`).
`AnswersHoldAlways` and `ReadsCurrentAlways` follow; `ReviewImplementsRegister`
maps the link of `Q` to the register's opening, the link of a slot to a decision,
and all else, reads included, to a stutter.

**LearningRunProofs.** `ActivatedBackedAlways`. Memory may be withdrawn again, but
that a decision was committed is never undone, so it is enough that the
coordinator looked once (`ActivatedStays`); but it looks through a copy of
`run.json` read earlier, one decision at a time, and schedules the verification in
a later step. `BackedInv` adds what it has seen so far (`ReadSoFar`) and that the
driver reaches "schedule" only from "memory_activated" (`ScheduledAfter`).
`VerifiedMeansAlways` is about the run that verifies: it was given active memory
and cites only what it was given (`DataOf`), also across the calls that write its
data (`CallOf`); the candidates of the first run are what it missed, in its file
and in every reviewer's copy (`CandidatesNamed`), and its criteria are finitely
many, so a comparison that finds fewer misses finds a candidate that was cited
(`Improved`, in `VerdictInv`).

**AgentRunsProofs.** `RunsInv`: no content has two principles
(`ContentOnce`), which is inductive although the check for a duplicate and the
creation are separate steps, because only one generator makes principles and what
it found missing is still missing (`StillMissing`); of session records, which two
kinds of finalize make, nothing of the sort is claimed. The content of a principle
also names its evidence, so `PrincipleOnceAlways` needs that every principle cites
what its request's intent fixed (`PrinciplesIntended`) and that whoever is about to
make one works with that intent (`Knows`). `RuledInv` for `ApprovedRuledAlways`:
every copy of `run.json`, on disk or in the hands of finalize, suggest or approve,
calls approved only what is in the rules that would remain if the approval under
way were put back (`Lasting`).

**MemoryIndexProofs.** What an index run makes of a table is a recursive function
over the plan's writes, in an order nobody fixes (`SetToSeq`), so everything about
it is an induction over a plan of any length. The library's induction takes an
operator; here it is stated of a set (`SetInduction`: a number outside would have a
least one) and used as `UpTo`. `WritesExist` builds the function, `WritesStep` gives
its equations, and every lemma about a plan is the set of the steps up to which
it holds. Of any table, also one that another run has changed since: no two rows
on one path, and rows that hold what their states stand for
(`AppliedBacked`); the check before the commit adds that there is a state for each
row (`CheckedSound`). `IndexInv` claims it of the tables of every log (`LogSound`),
whether its name still leads there or not, of the version 2 database, and of what
every run has read and planned so far, table by table. That logs are removed,
replaced and committed to under open connections is in three lemmas
(`RemoveMoves`, `ReplaceMoves`, `CommitMoves`). `IndexSoundAlways`.
For a search the invariant says of the answer built so far that its rows are those
of files hashed and read (`SearchSound`); `SearchTruthfulAlways` follows where the
table it reads is the one it found fresh.

`IndexExactAlways` is about a plan applied to the table it was made from. When it
commits: every state left is of a file that was read, because the path an id had
before is forgotten when the id's new file is written (`StatesOfItems`), and there
are as many, so they are the same (`ConsistentFresh`; `CommitExact`). When it is
refused (`RefusedFor`): if ids
are apart and no path traded its id, every file keeps its state and its row
(`ItemsStay`) and no other row is left (`NoOtherRow`), so the counts agree
(`ApartConsistent`). Memory files are named for their ids, which the store check
found apart, so only documents can be in the way.

**WorkbenchProofs.** `AppliedReversibleAlways` for any callers, overlapping or not:
a backup once written stays, and a call sets a status to applied or rolled back
only after it (`HasBackup`). `DependenciesDoneAlways` for any tasks and workers:
links are made between existing tasks only, and done is never left.

Only model-checked:

- the liveness properties `PendingResolved`, `EventSettled`, `InterruptedResumed`,
  which need fairness and ENABLED, out of the prover's reach;
- what holds under the settings of a run only, which the code does not enforce, and
  is therefore no theorem: `NoLostMemory`, `ReceiptScope`, `OneOutcome` and
  `ActiveAuthorized`; `PromotedReviewed`, `ActiveByOnePlan`, `TextKept` and
  `NotesKept`; `MessageOnce`, `CandidateOnce` and `ImplementsLog`;
  `DocumentStands`;
- the findings of section 5, `LinkedReviewable` and `MissingStepsResumed`, which do
  not hold.

## 7. Not modelled

- Vault scanner, indexer and reconciler: a single-process scan that rewrites an
  index and shares nothing with the writer but the files. Runtime, models, tools,
  hosts, profiles, diagnostics, agent dispatch: calls to services, command lines
  and formatting, without state of their own.
- Of the authority: partitions and reviewer scopes, source bindings (their
  comparison is in AgentRuns), the digests and permissions of its files (a file is
  written atomically and read whole), an I/O error during a rollback, the legacy
  command line.
- Of the vault: path and front matter checks, the recommendation and inspection
  functions, which change nothing.
- Of the bridge: authentication and payload checks, the digests of
  `mcp_checkpoint.py`, the limit of 100 events per drain, branching and searching
  sessions; the one-worker queue of `review_executor.py`.
- Of chain and review store: fsync, and files nobody but an editor could have made
  malformed. `pattern_engine.py`, which the chain does not call.
- Of the learning loop: the wording of results, reflections and suggestions, the
  score's weights (a criterion is missed or not).
- Of the memory core: exports, doctor, evaluation of searches, the rendering of
  context packs, ranking; all of them only read.
- Of the memory agent: the journal beyond its failure, locks of the input files.
- Of the procedure library: more than one procedure, age thresholds and pinning.
  Of the board: priorities, heartbeats, comments; `manager.py`'s thread pool, which
  does not use the board.

## 8. Running

    tlc -workers 2 -config authority_anyorder.cfg MCMemoryAuthority.tla
    tlapm BridgeProjectionProofs.tla

Each configuration belongs to the MC module of the same component; `workbench`
to MCWorkbench, `review_decisions` to MCReviewChain.
