-------------------------- MODULE MemoryAuthority --------------------------
(***************************************************************************)
(* The decision-bound activation of memory candidates:                     *)
(* AuthorityStore (review/authority.py), ReviewGate (review/gate.py) and   *)
(* the review backend they drive (memory_distill.py, memory.py             *)
(* _replace_transaction).                                                  *)
(*                                                                         *)
(* Callers are separate processes.  A review publishes an immutable        *)
(* decision bound to the candidate's exact file and to the generation read *)
(* at that moment; an activation, under a file lock, writes a pending      *)
(* record, lets the backend replace memory files one at a time, writes a   *)
(* receipt, advances the generation and removes the pending record.  A     *)
(* crash may fall between any two of those writes; a user may edit a       *)
(* candidate's file at any time the model's constants allow.               *)
(*                                                                         *)
(* Abstractions.  A file is its status, audit status, the number of edits  *)
(* made to it, the candidates merged into it and its superseded_by list:   *)
(* two files have the same sha256 exactly when these agree (_merge_unique  *)
(* is a set union).  A decision id is the digest of the decision, so the   *)
(* decision itself stands for it; the reason and the reviewer's partition  *)
(* are the same for every decision.  The SQLite index is rebuilt from the  *)
(* files, so only whether index_store succeeds matters here.  An I/O error *)
(* during a rollback is left out.                                          *)
(***************************************************************************)
EXTENDS Integers, Sequences, FiniteSets

CONSTANTS
  Cands,        \* ids of memory candidates
  Memories,     \* ids of memories that are active before the baseline is taken
  Contexts,     \* ids of the contexts that transition proposals plan
  Intent,       \* the kind, target and planned context of each candidate
  Procs,        \* callers of the review gate
  RecoverFirst, \* TRUE: callers resolve a pending activation before another one
  EditWhen,     \* when a user edits candidates: a subset of EditTimes
  CrashPoints,  \* program points at which a process may be killed
  MaxCrashes, MaxEdits, MaxDecisions \* bounds of the model

Ids == Cands \cup Memories \cup Contexts
Kinds == {"ADD", "UPDATE", "merge", "context_transition", "REVIEW_REQUIRED"}
Actions == {"accept", "reject", "merge", "conflict"}
EditTimes == {"quiet", "pending", "locked"}
Points == {"idle", "snapshot", "locked", "prepared", "verified", "replacing",
           "undoing", "indexing", "restoring", "raising", "committing",
           "receipted", "cleanup"}

ASSUME IntentAssumption ==
  /\ Cands # {}
  /\ Intent \in [Cands -> [kind : Kinds, target : Ids, new : Ids]]
  /\ \A c \in Cands : Intent[c].target # c /\ Intent[c].new # c
\* Every id is new when it is made: the context a transition plans is neither a
\* candidate nor a memory of the baseline (memory._new_memory_target).
ASSUME FreshAssumption ==
  /\ Contexts \cap (Cands \cup Memories) = {} /\ Cands \cap Memories = {}
  /\ \A c \in Cands : Intent[c].kind = "context_transition" => Intent[c].new \in Contexts
ASSUME BoundsAssumption ==
  /\ MaxCrashes \in Nat /\ MaxEdits \in Nat /\ MaxDecisions \in Nat
ASSUME EnvironmentAssumption ==
  /\ RecoverFirst \in BOOLEAN
  /\ EditWhen \subseteq EditTimes
  /\ CrashPoints \subseteq Points \ {"idle"}

File == [status : {"absent", "candidate", "active", "deprecated", "conflicted",
                   "archived"},
         audit  : {"none", "awaiting_review", "accepted", "rejected", "conflict"},
         edits  : Nat,
         merged : SUBSET Cands,
         by     : SUBSET Ids]

Blank(status, audit) ==
  [status |-> status, audit |-> audit, edits |-> 0, merged |-> {}, by |-> {}]

Decision == [cand : Cands, action : Actions, snap : File, gen : Nat]

VARIABLES
  store,     \* the memory files
  expected,  \* what each proposal recorded of its target (status and sha256)
  decisions, \* memory_authority/decisions
  pending,   \* memory_authority/pending: the decision and the active set before
  receipts,  \* memory_authority/activations: the decision and what it authorized
  gen,       \* memory_authority/generation.json
  lock,      \* holder of activation.lock, {} when it is free
  proc,      \* what each caller is doing
  crashes    \* crashes so far

vars == <<store, expected, decisions, pending, receipts, gen, lock, proc, crashes>>
ledger == <<decisions, pending, receipts, gen>>

Bindings == Ids \X File
\* A caller's decision, the files its backend read, how many of them it replaced
\* and which of those it still has to put back.
Local == [at : Points, dec : Decision, saved : [Ids -> File], done : Nat,
          left : SUBSET Nat]

----------------------------------------------------------------------------
(* Reading the store *)

\* AuthorityStore._active_map: every active memory bound to its file's hash.
ActiveMap(s) == {<<m, s[m]>> : m \in {i \in Ids : s[i].status = "active"}}

\* _validate_cross_file: a superseded_by entry must name a memory that exists.
\* Every reader of the store refuses it as a whole when this fails.
StoreValid == \A m \in Ids : \A i \in store[m].by : store[i].status # "absent"

HasTarget(c) == Intent[c].kind \in {"UPDATE", "merge", "context_transition"}

\* The stale_target check: the target still has the status and hash proposed on.
TargetCurrent(c) == HasTarget(c) => store[Intent[c].target] = expected[c]

\* AuthorityStore._validate_action
MayReview(a, c) ==
  \/ a = "reject"
  \/ a = "accept" /\ Intent[c].kind \in {"ADD", "UPDATE", "context_transition"}
  \/ a = "merge" /\ Intent[c].kind = "merge"
  \/ a = "conflict" /\ Intent[c].kind = "REVIEW_REQUIRED"

\* _preflight_candidate_impl and the same checks in _accept_candidate_impl
Applicable(a, c) ==
  /\ StoreValid
  /\ store[c].status = "candidate"
  /\ a \in {"accept", "merge"} =>
       /\ TargetCurrent(c)
       /\ Intent[c].kind = "context_transition" =>
            store[Intent[c].new].status = "absent"

\* AuthorityStore._postcondition
Postcondition(d, f) ==
  \/ d.action = "reject" /\ f.status = "archived" /\ f.audit = "rejected"
  \/ d.action = "conflict" /\ f.status = "conflicted" /\ f.audit = "conflict"
  \/ /\ d.action \in {"accept", "merge"}
     /\ f.status \in {"active", "archived"} /\ f.audit = "accepted"

----------------------------------------------------------------------------
(* What the backend writes, in the order it writes it *)

\* memory_distill._reviewed
Reviewed(f, status, audit) == [f EXCEPT !.status = status, !.audit = audit]

\* The target of a replacement: deprecated, superseded by the new memory.
Superseded(f, id) == [f EXCEPT !.status = "deprecated", !.by = @ \cup {id}]

\* The target of a merge or a support takes over the candidate's lists.
Merged(f, c) == [f EXCEPT !.merged = @ \cup {c}]

\* What accepting candidate c writes: a context transition, a replacement, a
\* merge (or support), or the candidate alone.
AcceptWrites(c, s) ==
  LET t == Intent[c].target
      n == Intent[c].new
      accepted(status) == <<c, Reviewed(s[c], status, "accepted")>>
  IN IF Intent[c].kind = "context_transition"
     THEN << <<t, Superseded(s[t], n)>>, <<n, Blank("active", "none")>>,
             accepted("archived") >>
     ELSE IF Intent[c].kind = "UPDATE"
     THEN << <<t, Superseded(s[t], c)>>, accepted("active") >>
     ELSE IF Intent[c].kind = "merge"
     THEN << <<t, Merged(s[t], c)>>, accepted("archived") >>
     ELSE << accepted("active") >>

\* The operations of _accept_candidate_impl, _conflict_candidate_impl and
\* _reject_candidate_impl for decision d on the files s they read.
Writes(d, s) ==
  IF d.action = "reject"
  THEN << <<d.cand, Reviewed(s[d.cand], "archived", "rejected")>> >>
  ELSE IF d.action = "conflict"
  THEN << <<d.cand, Reviewed(s[d.cand], "conflicted", "conflict")>> >>
  ELSE AcceptWrites(d.cand, s)

----------------------------------------------------------------------------
(* Processes and the lock *)

NoDecision == [cand |-> CHOOSE c \in Cands : TRUE, action |-> "reject",
               snap |-> Blank("absent", "none"), gen |-> 0]
Idle == [at |-> "idle", dec |-> NoDecision,
         saved |-> [i \in Ids |-> Blank("absent", "none")], done |-> 0, left |-> {}]

At(p, point) == proc[p].at = point
Goto(p, point) == proc' = [proc EXCEPT ![p].at = point]

\* AuthorityStore.locked: leaving the block, by return or by exception, unlocks.
Leave(p) == proc' = [proc EXCEPT ![p] = Idle] /\ lock' = {}

\* The candidate's file is the one the decision's snapshot describes.
AsReviewed(p) == store[proc[p].dec.cand] = proc[p].dec.snap

HasPending(d) == \E r \in pending : r.dec = d
HasReceipt(d) == \E r \in receipts : r.dec = d

----------------------------------------------------------------------------
(* Proposals and edits *)

\* A proposal writes the candidate and what it saw of its target, which must be
\* an active memory (memory_distill._apply_candidate_once, memory.context_transition).
Propose(c) ==
  /\ StoreValid
  /\ store[c].status = "absent"
  /\ HasTarget(c) => store[Intent[c].target].status = "active"
  /\ store' = [store EXCEPT ![c] = Blank("candidate", "awaiting_review")]
  /\ expected' = [expected EXCEPT ![c] = store[Intent[c].target]]
  /\ UNCHANGED <<ledger, lock, proc, crashes>>

\* When an edit happens: while an activation runs, while one is left pending, or
\* at another time.
EditTime == IF lock # {} THEN "locked"
            ELSE IF pending # {} THEN "pending" ELSE "quiet"

\* The user changes the text of a candidate's file.
Edit(c) ==
  /\ EditTime \in EditWhen
  /\ store[c].status = "candidate"
  /\ store[c].edits < MaxEdits
  /\ store' = [store EXCEPT ![c].edits = @ + 1]
  /\ UNCHANGED <<expected, ledger, lock, proc, crashes>>

----------------------------------------------------------------------------
(* ReviewGate.review and AuthorityStore.publish_decision: no lock is held, and *)
(* the generation is read after the snapshot was taken and validated.          *)

BeginReview(p, c, a) ==
  /\ At(p, "idle")
  /\ Cardinality(decisions) < MaxDecisions
  /\ MayReview(a, c)
  /\ Applicable(a, c)
  /\ proc' = [proc EXCEPT ![p] =
                [@ EXCEPT !.at = "snapshot",
                          !.dec = [cand |-> c, action |-> a,
                                   snap |-> store[c], gen |-> 0]]]
  /\ UNCHANGED <<store, expected, ledger, lock, crashes>>

\* The decision's file name is its digest, so publishing it again changes nothing.
PublishDecision(p) ==
  LET d == [proc[p].dec EXCEPT !.gen = gen]
  IN /\ At(p, "snapshot")
     /\ decisions' = decisions \cup {d}
     /\ proc' = [proc EXCEPT ![p] = Idle]
     /\ UNCHANGED <<store, expected, pending, receipts, gen, lock, crashes>>

----------------------------------------------------------------------------
(* AuthorityStore.activate *)

\* A fault: activation does not take the lock.
AcquireUnlocked(p, d) ==
  /\ At(p, "idle")
  /\ d \in decisions
  /\ lock' = {p}
  /\ proc' = [proc EXCEPT ![p] = [@ EXCEPT !.at = "locked", !.dec = d]]
  /\ UNCHANGED <<store, expected, ledger, crashes>>

\* With RecoverFirst the callers finish what was left pending before they start
\* anything else; the code itself does not ask for it.
Acquire(p, d) ==
  /\ At(p, "idle")
  /\ lock = {}
  /\ d \in decisions
  /\ RecoverFirst => pending = {} \/ HasPending(d)
  /\ lock' = {p}
  /\ proc' = [proc EXCEPT ![p] = [@ EXCEPT !.at = "locked", !.dec = d]]
  /\ UNCHANGED <<store, expected, ledger, crashes>>

\* The decision already has its receipt: finish what follows the receipt.
FindReceipt(p) ==
  /\ At(p, "locked")
  /\ HasReceipt(proc[p].dec)
  /\ Goto(p, "receipted")
  /\ UNCHANGED <<store, expected, ledger, lock, crashes>>

\* generation_conflict: the active set moved on since the decision.
RefuseGeneration(p) ==
  /\ At(p, "locked")
  /\ ~HasReceipt(proc[p].dec)
  /\ gen # proc[p].dec.gen
  /\ Leave(p)
  /\ UNCHANGED <<store, expected, ledger, crashes>>

\* A fault: the decision's generation is not compared with the current one.
MayActivateAnyGeneration(p) == At(p, "locked") /\ ~HasReceipt(proc[p].dec)

MayActivate(p) ==
  At(p, "locked") /\ ~HasReceipt(proc[p].dec) /\ gen = proc[p].dec.gen

\* A crashed attempt left its pending record: it is taken over as it is.
ReusePending(p) ==
  /\ MayActivate(p)
  /\ HasPending(proc[p].dec)
  /\ Goto(p, "prepared")
  /\ UNCHANGED <<store, expected, ledger, lock, crashes>>

\* stale_candidate (or an unreadable store) before anything is written
RefuseStale(p) ==
  /\ MayActivate(p)
  /\ ~HasPending(proc[p].dec)
  /\ ~StoreValid \/ ~AsReviewed(p)
  /\ Leave(p)
  /\ UNCHANGED <<store, expected, ledger, crashes>>

\* A fault: the candidate is not compared with the snapshot before preparing.
PrepareUnchecked(p) ==
  /\ MayActivate(p)
  /\ ~HasPending(proc[p].dec)
  /\ pending' = pending \cup {[dec |-> proc[p].dec, before |-> ActiveMap(store)]}
  /\ Goto(p, "prepared")
  /\ UNCHANGED <<store, expected, decisions, receipts, gen, lock, crashes>>

\* The pending record is written before the backend may touch a file.
Prepare(p) ==
  /\ MayActivate(p)
  /\ ~HasPending(proc[p].dec)
  /\ StoreValid
  /\ AsReviewed(p)
  /\ pending' = pending \cup {[dec |-> proc[p].dec, before |-> ActiveMap(store)]}
  /\ Goto(p, "prepared")
  /\ UNCHANGED <<store, expected, decisions, receipts, gen, lock, crashes>>

\* The candidate is still what was reviewed: call the backend.
VerifyCandidate(p) ==
  /\ At(p, "prepared")
  /\ StoreValid
  /\ AsReviewed(p)
  /\ Goto(p, "verified")
  /\ UNCHANGED <<store, expected, ledger, lock, crashes>>

\* The candidate already is in the state the decision asks for ("recovered").
Recover(p) ==
  /\ At(p, "prepared")
  /\ StoreValid
  /\ ~AsReviewed(p)
  /\ Postcondition(proc[p].dec, store[proc[p].dec.cand])
  /\ Goto(p, "committing")
  /\ UNCHANGED <<store, expected, ledger, lock, crashes>>

\* outcome_uncertain, or the store cannot be read
RefuseUncertain(p) ==
  /\ At(p, "prepared")
  /\ \/ ~StoreValid
     \/ /\ ~AsReviewed(p)
        /\ ~Postcondition(proc[p].dec, store[proc[p].dec.cand])
  /\ Goto(p, "raising")
  /\ UNCHANGED <<store, expected, ledger, lock, crashes>>

----------------------------------------------------------------------------
(* The backend: it reads the store again, then replaces file after file *)

PlanWrites(p) ==
  /\ At(p, "verified")
  /\ Applicable(proc[p].dec.action, proc[p].dec.cand)
  /\ proc' = [proc EXCEPT ![p] =
                [@ EXCEPT !.at = "replacing", !.saved = store, !.done = 0]]
  /\ UNCHANGED <<store, expected, ledger, lock, crashes>>

RefuseApply(p) ==
  /\ At(p, "verified")
  /\ ~Applicable(proc[p].dec.action, proc[p].dec.cand)
  /\ Goto(p, "raising")
  /\ UNCHANGED <<store, expected, ledger, lock, crashes>>

Planned(p) == Writes(proc[p].dec, proc[p].saved)

\* os.replace of the next temporary file
ReplaceFile(p) ==
  LET next == proc[p].done + 1
  IN /\ At(p, "replacing")
     /\ next <= Len(Planned(p))
     /\ store' = [store EXCEPT ![Planned(p)[next][1]] = Planned(p)[next][2]]
     /\ proc' = [proc EXCEPT ![p] =
                   [@ EXCEPT !.done = next,
                             !.at = IF next = Len(Planned(p)) THEN "indexing" ELSE "replacing"]]
     /\ UNCHANGED <<expected, ledger, lock, crashes>>

\* A fault: what was already replaced is not put back.
ReplaceFailsKeeping(p) ==
  /\ At(p, "replacing")
  /\ proc' = [proc EXCEPT ![p] = [@ EXCEPT !.at = "undoing", !.left = {}]]
  /\ UNCHANGED <<store, expected, ledger, lock, crashes>>

\* An I/O error: _replace_transaction starts to undo what it replaced.
ReplaceFails(p) ==
  /\ At(p, "replacing")
  /\ proc' = [proc EXCEPT ![p] =
                [@ EXCEPT !.at = "undoing", !.left = 1..proc[p].done]]
  /\ UNCHANGED <<store, expected, ledger, lock, crashes>>

\* Put back the file that write i replaced, from its backup.
PutBack(p, i) ==
  LET id == Planned(p)[i][1]
  IN /\ store' = [store EXCEPT ![id] = proc[p].saved[id]]
     /\ proc' = [proc EXCEPT ![p].left = @ \ {i}]
     /\ UNCHANGED <<expected, ledger, lock, crashes>>

\* The last file replaced is the first to be put back.
Undo(p) ==
  /\ At(p, "undoing")
  /\ \E i \in proc[p].left :
       (\A j \in proc[p].left : j <= i) /\ PutBack(p, i)

\* index_store and _verify_index succeed and the run is journalled
IndexSucceeds(p) ==
  /\ At(p, "indexing")
  /\ Goto(p, "committing")
  /\ UNCHANGED <<store, expected, ledger, lock, crashes>>

IndexFails(p) ==
  /\ At(p, "indexing")
  /\ proc' = [proc EXCEPT ![p] =
                [@ EXCEPT !.at = "restoring", !.left = 1..Len(Planned(p))]]
  /\ UNCHANGED <<store, expected, ledger, lock, crashes>>

\* _append_journal raises after the files were replaced: nothing is restored.
JournalFails(p) ==
  /\ At(p, "indexing")
  /\ Goto(p, "raising")
  /\ UNCHANGED <<store, expected, ledger, lock, crashes>>

\* _apply_files_and_index puts the old files back in order, then removes new ones.
Existed(p, i) == proc[p].saved[Planned(p)[i][1]].status # "absent"

Restore(p) ==
  /\ At(p, "restoring")
  /\ \E i \in proc[p].left :
       /\ \A j \in proc[p].left :
            IF Existed(p, i) = Existed(p, j) THEN i <= j ELSE Existed(p, i)
       /\ PutBack(p, i)

Restored(p) ==
  /\ proc[p].at \in {"undoing", "restoring"}
  /\ proc[p].left = {}
  /\ Goto(p, "raising")
  /\ UNCHANGED <<store, expected, ledger, lock, crashes>>

\* A fault: the pending record goes even when files were changed.
RaiseForgetting(p) ==
  /\ At(p, "raising")
  /\ pending' = {r \in pending : r.dec # proc[p].dec}
  /\ Leave(p)
  /\ UNCHANGED <<store, expected, decisions, receipts, gen, crashes>>

\* The exception handler of activate: forget the attempt if it left no trace.
Raise(p) ==
  /\ At(p, "raising")
  /\ pending' = IF StoreValid /\ AsReviewed(p)
                THEN {r \in pending : r.dec # proc[p].dec} ELSE pending
  /\ Leave(p)
  /\ UNCHANGED <<store, expected, decisions, receipts, gen, crashes>>

----------------------------------------------------------------------------
(* AuthorityStore._commit_receipt *)

\* A fault: the receipt authorizes the whole active set.
WriteReceiptWhole(p) ==
  LET d == proc[p].dec
  IN /\ At(p, "committing")
     /\ StoreValid
     /\ Postcondition(d, store[d.cand])
     /\ receipts' = receipts \cup {[dec |-> d, auth |-> ActiveMap(store)]}
     /\ Goto(p, "receipted")
     /\ UNCHANGED <<store, expected, decisions, pending, gen, lock, crashes>>

\* The receipt authorizes what became active, or changed while active, since the
\* pending record was written.
WriteReceipt(p) ==
  LET d == proc[p].dec
  IN /\ At(p, "committing")
     /\ StoreValid
     /\ Postcondition(d, store[d.cand])
     /\ \E r \in pending :
          /\ r.dec = d
          /\ receipts' = receipts \cup
               {[dec |-> d, auth |-> ActiveMap(store) \ r.before]}
     /\ Goto(p, "receipted")
     /\ UNCHANGED <<store, expected, decisions, pending, gen, lock, crashes>>

\* A fault: the generation is incremented without looking at it.
AdvanceGenerationBlindly(p) ==
  /\ At(p, "receipted")
  /\ gen' = gen + 1
  /\ Goto(p, "cleanup")
  /\ UNCHANGED <<store, expected, decisions, pending, receipts, lock, crashes>>

\* _set_generation: nothing to do when the generation already is the target.
AdvanceGeneration(p) ==
  LET previous == proc[p].dec.gen
  IN /\ At(p, "receipted")
     /\ gen \in {previous, previous + 1}
     /\ gen' = previous + 1
     /\ Goto(p, "cleanup")
     /\ UNCHANGED <<store, expected, decisions, pending, receipts, lock, crashes>>

\* _set_generation raises generation_conflict: the generation is neither.
RefuseAdvance(p) ==
  /\ At(p, "receipted")
  /\ gen \notin {proc[p].dec.gen, proc[p].dec.gen + 1}
  /\ Leave(p)
  /\ UNCHANGED <<store, expected, ledger, crashes>>

\* A fault: the pending record is left behind.
KeepPending(p) ==
  /\ At(p, "cleanup")
  /\ Leave(p)
  /\ UNCHANGED <<store, expected, ledger, crashes>>

RemovePending(p) ==
  /\ At(p, "cleanup")
  /\ pending' = {r \in pending : r.dec # proc[p].dec}
  /\ Leave(p)
  /\ UNCHANGED <<store, expected, decisions, receipts, gen, crashes>>

----------------------------------------------------------------------------
(* A process is killed: its memory and its lock are gone, the files stay. *)

Crash(p) ==
  /\ proc[p].at \in CrashPoints
  /\ crashes < MaxCrashes
  /\ crashes' = crashes + 1
  /\ proc' = [proc EXCEPT ![p] = Idle]
  /\ lock' = lock \ {p}
  /\ UNCHANGED <<store, expected, ledger>>

----------------------------------------------------------------------------

Init ==
  /\ store = [i \in Ids |-> IF i \in Memories THEN Blank("active", "none")
                            ELSE Blank("absent", "none")]
  /\ expected = [c \in Cands |-> Blank("absent", "none")]
  /\ decisions = {} /\ pending = {} /\ receipts = {} /\ gen = 0
  /\ lock = {}
  /\ proc = [p \in Procs |-> Idle]
  /\ crashes = 0

\* AuthorityStore._ensure_baseline: the active set when the authority was created
Baseline == {<<m, Blank("active", "none")>> : m \in Memories}

\* What an activation does under the lock.
Activation(p) ==
  \/ FindReceipt(p) \/ RefuseGeneration(p) \/ ReusePending(p)
  \/ RefuseStale(p) \/ Prepare(p)
  \/ VerifyCandidate(p) \/ Recover(p) \/ RefuseUncertain(p)
  \/ PlanWrites(p) \/ RefuseApply(p)
  \/ ReplaceFile(p) \/ ReplaceFails(p) \/ Undo(p)
  \/ IndexSucceeds(p) \/ IndexFails(p) \/ JournalFails(p)
  \/ Restore(p) \/ Restored(p) \/ Raise(p)
  \/ WriteReceipt(p)
  \/ AdvanceGeneration(p) \/ RefuseAdvance(p) \/ RemovePending(p)

Step(p) == PublishDecision(p) \/ Activation(p)

Next ==
  \/ \E c \in Cands : Propose(c) \/ Edit(c)
  \/ \E p \in Procs, c \in Cands, a \in Actions : BeginReview(p, c, a)
  \/ \E p \in Procs, d \in decisions : Acquire(p, d)
  \/ \E p \in Procs : Step(p) \/ Crash(p)

Spec == Init /\ [][Next]_vars

----------------------------------------------------------------------------
(* Properties *)

\* Every variable has its type.
TypeOK ==
  /\ store \in [Ids -> File]
  /\ expected \in [Cands -> File]
  /\ decisions \subseteq Decision
  /\ pending \subseteq [dec : Decision, before : SUBSET Bindings]
  /\ receipts \subseteq [dec : Decision, auth : SUBSET Bindings]
  /\ gen \in Nat
  /\ lock \subseteq Procs
  /\ proc \in [Procs -> Local]
  /\ crashes \in Nat

\* The generation never runs ahead of the receipts (_commit_receipt writes the
\* receipt first): every generation passed has a receipt that left it, and no
\* receipt is for a generation not yet reached.
GenerationBacked ==
  /\ \A g \in 0..(gen - 1) : \E r \in receipts : r.dec.gen = g
  /\ \A r \in receipts : r.dec.gen <= gen

Quiescent == lock = {} /\ pending = {}

\* When no activation is running or left pending, authorize_active_records finds
\* every active memory, in its present content, in the baseline or in a receipt.
ActiveAuthorized ==
  Quiescent => ActiveMap(store) \subseteq Baseline \cup UNION {r.auth : r \in receipts}

\* A receipt authorizes only memories its own decision is about, never one that
\* another activation changed between the two readings of the active set.
ReceiptScope ==
  \A r \in receipts : \A b \in r.auth :
    b[1] \in {r.dec.cand, Intent[r.dec.cand].target, Intent[r.dec.cand].new}

\* A candidate is settled once: it gets at most one receipt, whatever decisions
\* were published about it and however often they were activated.
OneOutcome ==
  \A r, q \in receipts : r.dec.cand = q.dec.cand => r = q

\* A memory is deprecated only for one that replaces it: when nothing is running
\* or pending, what supersedes it is active, or was and got replaced in turn.
NoLostMemory ==
  Quiescent => \A m \in Ids : store[m].status = "deprecated" =>
    \E i \in store[m].by : store[i].status \in {"active", "deprecated"}

\* An outcome in the files is always accounted for: whoever crashed, and wherever,
\* a candidate that left review has a receipt or still has a pending record, so
\* that authorize_active_records cannot show it unreceipted.
OutcomeAccounted ==
  \A c \in Cands : store[c].status \notin {"absent", "candidate"} =>
    \E r \in pending \cup receipts : r.dec.cand = c

\* The backend is never run for a decision that has its receipt: concurrent and
\* repeated activations of one decision converge on the first one's receipt.
AppliedOnce ==
  \A p \in Procs :
    proc[p].at \in {"prepared", "verified", "replacing", "undoing", "indexing",
                    "restoring", "raising", "committing"} => ~HasReceipt(proc[p].dec)

\* The abstract ledger: a decision is committed the moment its receipt is on disk.
CommittedGeneration ==
  IF \E r \in receipts : r.dec.gen = gen THEN gen + 1 ELSE gen

Ledger == INSTANCE AuthorityLedger WITH
  published <- decisions,
  committed <- {r.dec : r \in receipts},
  generation <- CommittedGeneration,
  behind <- CommittedGeneration # gen

\* Seen through its receipts, the store behaves as that ledger, in whatever order
\* callers activate and wherever they are killed: every write, retry and recovery
\* is a publication, a commit of the current generation, a commit that overtakes a
\* generation file not yet written, or nothing at all.
ImplementsLedger == Ledger!Spec

----------------------------------------------------------------------------
(* Progress.  An activation runs in one process without waiting for anything   *)
(* but the lock, so each of its steps is eventually taken.  That an operator   *)
(* retries what was left pending is an assumption on the callers.              *)

Retry(p) == \E d \in decisions : HasPending(d) /\ Acquire(p, d)

FairSpec ==
  /\ Spec
  /\ \A p \in Procs : WF_vars(Step(p)) /\ SF_vars(Retry(p))

\* An activation left pending is eventually completed or called off, so that
\* active memory becomes visible again.
PendingResolved ==
  \A c \in Cands : (\E r \in pending : r.dec.cand = c) ~> ~(\E r \in pending : r.dec.cand = c)

=============================================================================
