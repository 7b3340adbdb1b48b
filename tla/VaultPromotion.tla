--------------------------- MODULE VaultPromotion ---------------------------
(***************************************************************************)
(* The vault writer (vault_scanner/vault_writer.py): notes generated by    *)
(* LAOS are candidates in 0-inbox/laos-generated, a human reviews them, a  *)
(* promotion plan fixes their target, and promote() copies the file there, *)
(* commits to the database and removes the source.                         *)
(*                                                                         *)
(* Every function reads rows and files first and writes afterwards, each   *)
(* write being one database transaction or one file operation; nothing     *)
(* locks the two together.  Here an operation begins with what it reads    *)
(* and checks, and ends with what it writes; promote() has a step for each *)
(* of its transactions and file operations.  A process may be killed, or   *)
(* raise, between two steps; a user edits candidate files and writes notes *)
(* of his own.                                                             *)
(*                                                                         *)
(* Abstractions.  relative_path is unique in the candidates table and rows *)
(* are never deleted, so a candidate is named by its path.  A file is its  *)
(* text, and an evidence hash is the text hashed.  Of the audit events     *)
(* only the outcomes of promotions are kept.  Path and front matter checks *)
(* (traversal, symbolic links, the type of a note) are left out.           *)
(***************************************************************************)
EXTENDS Naturals

CONSTANTS
  Cands,    \* candidates, by their path
  Targets,  \* paths in the formal directories
  Plans,    \* promotion plan ids
  Texts,    \* what a candidate file may contain
  Note,     \* a note the user wrote
  None,     \* no file, no hash, no path
  Procs,    \* callers
  Serial,   \* TRUE: one operation at a time, and the user acts between operations
  OnePlan,  \* TRUE: a candidate has at most one plan that could be promoted
  Outages,  \* TRUE: file operations and transactions may fail
  MaxCrashes, MaxEdits \* bounds of the model

ASSUME NamesAssumption ==
  /\ Cands \cap Targets = {} /\ Note \notin Texts
  /\ None \notin Cands \cup Targets \cup Plans \cup Texts \cup {Note}
ASSUME SettingAssumption ==
  /\ Serial \in BOOLEAN /\ OnePlan \in BOOLEAN /\ Outages \in BOOLEAN
  /\ MaxCrashes \in Nat /\ MaxEdits \in Nat

VARIABLES
  files,  \* the text at every path
  cands,  \* the candidates table
  plans,  \* the promotion_plans table
  audit,  \* the outcomes recorded for each plan in audit_events
  proc,   \* what each caller is doing
  edits, crashes \* how often the user and the operating system interfered

vars == <<files, cands, plans, audit, proc, edits, crashes>>
env == <<edits, crashes>>

Row == [state : {"none", "pending_review", "approved", "rejected", "conflicted",
                 "active"},
        evidence : Texts \cup {None}, reviewed : Texts \cup {None},
        target : Targets \cup {None}]
Plan == [state : {"none", "active", "promoting", "completed", "failed",
                  "conflicted", "abandoned"},
         cand : Cands \cup {None}, expected : Texts \cup {None},
         target : Targets \cup {None}]
Points == {"idle", "creating", "inserting", "reviewing", "invalidating", "planning",
           "retargeting", "abandoning", "rereviewing", "cleaning", "claimed",
           "loaded", "conflicting", "conflicted", "checked", "read", "written",
           "failing", "committed"}
Local == [at : Points, cand : Cands \cup {None}, plan : Plans \cup {None},
          text : Texts \cup {None}, target : Targets \cup {None},
          verdict : {"approved", "rejected"}]

Idle == [at |-> "idle", cand |-> None, plan |-> None, text |-> None,
         target |-> None, verdict |-> "rejected"]

Exists(path) == files[path] # None
At(p, point) == proc[p].at = point
Goto(p, point) == proc' = [proc EXCEPT ![p].at = point]
Done(p) == proc' = [proc EXCEPT ![p] = Idle]

\* The functions take no lock: with Serial it is the callers that take turns.
MayStart(p) == At(p, "idle") /\ (Serial => \A q \in Procs : At(q, "idle"))
UserMayAct == Serial => \A q \in Procs : At(q, "idle")

\* A plan that check_promotion_conflicts accepts.
Open(l) == plans[l].state \in {"active", "promoting"}
\* With OnePlan no other plan of the candidate can still be claimed.
MayPlan(c, others) ==
  OnePlan => \A l \in others : plans[l].cand = c => plans[l].state # "active"
SetPlan(l, state) == [plans EXCEPT ![l].state = state]

----------------------------------------------------------------------------
(* create_candidate: the file first, then the row *)

BeginCreate(p, c, text) ==
  /\ MayStart(p)
  /\ ~Exists(c)
  /\ proc' = [proc EXCEPT ![p] = [Idle EXCEPT !.at = "creating", !.cand = c, !.text = text]]
  /\ UNCHANGED <<files, cands, plans, audit, env>>

\* _write_atomic renames over whatever is at the path.
WriteCandidate(p) ==
  /\ At(p, "creating")
  /\ files' = [files EXCEPT ![proc[p].cand] = proc[p].text]
  /\ Goto(p, "inserting")
  /\ UNCHANGED <<cands, plans, audit, env>>

InsertCandidate(p) ==
  /\ At(p, "inserting")
  /\ cands[proc[p].cand].state = "none"
  /\ cands' = [cands EXCEPT ![proc[p].cand] =
                 [state |-> "pending_review", evidence |-> proc[p].text,
                  reviewed |-> None, target |-> None]]
  /\ Done(p)
  /\ UNCHANGED <<files, plans, audit, env>>

\* The path is taken in the table, or the transaction fails: remove the file.
InsertFails(p) ==
  /\ At(p, "inserting")
  /\ Outages \/ cands[proc[p].cand].state # "none"
  /\ files' = [files EXCEPT ![proc[p].cand] = None]
  /\ Done(p)
  /\ UNCHANGED <<cands, plans, audit, env>>

----------------------------------------------------------------------------
(* Review: the hash bound is the evidence_hash of the row, set at creation *)

BeginReview(p, c, verdict) ==
  /\ MayStart(p)
  /\ cands[c].state = "pending_review"
  /\ proc' = [proc EXCEPT ![p] = [Idle EXCEPT !.at = "reviewing", !.cand = c,
                                              !.text = cands[c].evidence,
                                              !.verdict = verdict]]
  /\ UNCHANGED <<files, cands, plans, audit, env>>

RecordReview(p) ==
  /\ At(p, "reviewing")
  /\ cands' = [cands EXCEPT ![proc[p].cand].state = proc[p].verdict,
                            ![proc[p].cand].reviewed = proc[p].text]
  /\ Done(p)
  /\ UNCHANGED <<files, plans, audit, env>>

\* invalidate_candidate_if_changed: approved, and the file is not what was reviewed.
BeginInvalidate(p, c) ==
  /\ MayStart(p)
  /\ cands[c].state = "approved"
  /\ Exists(c) /\ files[c] # cands[c].reviewed
  /\ proc' = [proc EXCEPT ![p] = [Idle EXCEPT !.at = "invalidating", !.cand = c]]
  /\ UNCHANGED <<files, cands, plans, audit, env>>

\* re_review_conflicted_candidate
BeginReReview(p, c) ==
  /\ MayStart(p)
  /\ cands[c].state = "conflicted"
  /\ Exists(c)
  /\ proc' = [proc EXCEPT ![p] = [Idle EXCEPT !.at = "rereviewing", !.cand = c]]
  /\ UNCHANGED <<files, cands, plans, audit, env>>

\* Both send the candidate back to review and forget what was reviewed.
BackToReview(p) ==
  /\ proc[p].at \in {"invalidating", "rereviewing"}
  /\ cands' = [cands EXCEPT ![proc[p].cand].state = "pending_review",
                            ![proc[p].cand].reviewed = None]
  /\ Done(p)
  /\ UNCHANGED <<files, plans, audit, env>>

----------------------------------------------------------------------------
(* Plans *)

\* plan_promotion; it does not ask whether the candidate already has a plan.
BeginPlan(p, c, target) ==
  /\ MayStart(p)
  /\ cands[c].state = "approved"
  /\ Exists(c)
  /\ MayPlan(c, Plans)
  /\ proc' = [proc EXCEPT ![p] = [Idle EXCEPT !.at = "planning", !.cand = c,
                                              !.text = cands[c].reviewed,
                                              !.target = target]]
  /\ UNCHANGED <<files, cands, plans, audit, env>>

NewPlan(p) == [state |-> "active", cand |-> proc[p].cand, expected |-> proc[p].text,
               target |-> proc[p].target]

RecordPlan(p, l) ==
  /\ At(p, "planning")
  /\ plans[l].state = "none"
  /\ plans' = [plans EXCEPT ![l] = NewPlan(p)]
  /\ cands' = [cands EXCEPT ![proc[p].cand].target = proc[p].target]
  /\ Done(p)
  /\ UNCHANGED <<files, audit, env>>

\* choose_new_promotion_target: the old plan is abandoned for a new one.
BeginRetarget(p, l, target) ==
  LET c == plans[l].cand
  IN /\ MayStart(p)
     /\ plans[l].state \in {"active", "conflicted", "failed"}
     /\ cands[c].state = "approved"
     /\ ~Exists(target)
     /\ MayPlan(c, Plans \ {l})
     /\ proc' = [proc EXCEPT ![p] = [Idle EXCEPT !.at = "retargeting", !.cand = c,
                                                 !.plan = l,
                                                 !.text = cands[c].reviewed,
                                                 !.target = target]]
     /\ UNCHANGED <<files, cands, plans, audit, env>>

RecordRetarget(p, l) ==
  /\ At(p, "retargeting")
  /\ plans[l].state = "none"
  /\ plans' = [SetPlan(proc[p].plan, "abandoned") EXCEPT ![l] = NewPlan(p)]
  /\ cands' = [cands EXCEPT ![proc[p].cand].target = proc[p].target]
  /\ Done(p)
  /\ UNCHANGED <<files, audit, env>>

\* abandon_promotion_plan
BeginAbandon(p, l) ==
  /\ MayStart(p)
  /\ plans[l].state \in {"active", "failed", "conflicted"}
  /\ proc' = [proc EXCEPT ![p] = [Idle EXCEPT !.at = "abandoning", !.plan = l]]
  /\ UNCHANGED <<files, cands, plans, audit, env>>

RecordAbandon(p) ==
  /\ At(p, "abandoning")
  /\ plans' = SetPlan(proc[p].plan, "abandoned")
  /\ Done(p)
  /\ UNCHANGED <<files, cands, audit, env>>

----------------------------------------------------------------------------
(* promote *)

\* UPDATE ... SET state = 'promoting' WHERE state = 'active'
Claim(p, l) ==
  /\ MayStart(p)
  /\ plans[l].state = "active"
  /\ plans' = SetPlan(l, "promoting")
  /\ proc' = [proc EXCEPT ![p] = [Idle EXCEPT !.at = "claimed", !.plan = l,
                                              !.cand = plans[l].cand]]
  /\ UNCHANGED <<files, cands, audit, env>>

\* already_completed and claim_failed are audited; other states only raise.
RefuseClaim(p, l) ==
  /\ MayStart(p)
  /\ plans[l].state \in {"completed", "promoting"}
  /\ audit' = [audit EXCEPT ![l] = @ \cup {"failed"}]
  /\ UNCHANGED <<files, cands, plans, proc, env>>

LoadCandidate(p) ==
  /\ At(p, "claimed")
  /\ cands[proc[p].cand].state = "approved"
  /\ Goto(p, "loaded")
  /\ UNCHANGED <<files, cands, plans, audit, env>>

\* The candidate is not approved: promote raises, and the plan stays as claimed.
RefuseCandidate(p) ==
  /\ At(p, "claimed")
  /\ cands[proc[p].cand].state # "approved"
  /\ Done(p)
  /\ UNCHANGED <<files, cands, plans, audit, env>>

\* A fault: only what was reviewed is compared, not what the target holds.
ConflictUntargeted(p) ==
  LET c == proc[p].cand
      l == proc[p].plan
  IN /\ cands[c].state = "approved"
     /\ \/ ~Open(l)
        \/ files[c] \notin {plans[l].expected} \cap {cands[c].reviewed}

\* A fault: the file is not compared with the hashes.
ConflictUnhashed(p) ==
  LET c == proc[p].cand
      l == proc[p].plan
  IN /\ cands[c].state = "approved"
     /\ \/ ~Open(l) \/ ~Exists(c)
        \/ cands[c].target # None /\ Exists(cands[c].target)

\* check_promotion_conflicts: it has nothing to say of a candidate that is not
\* approved, and looks at the candidate's target, not at the plan's.
Conflict(p) ==
  LET c == proc[p].cand
      l == proc[p].plan
  IN /\ cands[c].state = "approved"
     /\ \/ ~Open(l)
        \/ files[c] \notin {plans[l].expected} \cap {cands[c].reviewed}
        \/ cands[c].target # None /\ Exists(cands[c].target)

PassCheck(p) ==
  /\ At(p, "loaded") /\ ~Conflict(p)
  /\ Goto(p, "checked")
  /\ UNCHANGED <<files, cands, plans, audit, env>>

FindConflict(p) ==
  /\ At(p, "loaded") /\ Conflict(p)
  /\ Goto(p, "conflicting")
  /\ UNCHANGED <<files, cands, plans, audit, env>>

RecordConflict(p) ==
  /\ At(p, "conflicting")
  /\ cands' = [cands EXCEPT ![proc[p].cand].state = "conflicted"]
  /\ audit' = [audit EXCEPT ![proc[p].plan] = @ \cup {"conflicted"}]
  /\ Goto(p, "conflicted")
  /\ UNCHANGED <<files, plans, env>>

MarkConflicted(p) ==
  /\ At(p, "conflicted")
  /\ plans' = SetPlan(proc[p].plan, "conflicted")
  /\ Done(p)
  /\ UNCHANGED <<files, cands, audit, env>>

\* The file is read again: this text is what will be promoted.
ReadSource(p) ==
  /\ At(p, "checked")
  /\ Exists(proc[p].cand)
  /\ proc' = [proc EXCEPT ![p].at = "read", ![p].text = files[proc[p].cand]]
  /\ UNCHANGED <<files, cands, plans, audit, env>>

\* The source is gone, or cannot be read, or the target cannot be written.
PromoteRaises(p) ==
  /\ \/ At(p, "checked") /\ (Outages \/ ~Exists(proc[p].cand))
     \/ At(p, "read") /\ Outages
  /\ Done(p)
  /\ UNCHANGED <<files, cands, plans, audit, env>>

\* _write_atomic renames over whatever is at the target by now.
WriteTarget(p) ==
  /\ At(p, "read")
  /\ files' = [files EXCEPT ![plans[proc[p].plan].target] = proc[p].text]
  /\ Goto(p, "written")
  /\ UNCHANGED <<cands, plans, audit, env>>

\* A fault: the candidate and the plan are not updated in one transaction.
CommitCandidateOnly(p) ==
  /\ At(p, "written")
  /\ cands' = [cands EXCEPT ![proc[p].cand].state = "active"]
  /\ audit' = [audit EXCEPT ![proc[p].plan] = @ \cup {"completed"}]
  /\ Goto(p, "committed")
  /\ UNCHANGED <<files, plans, env>>

CommitPromotion(p) ==
  /\ At(p, "written")
  /\ cands' = [cands EXCEPT ![proc[p].cand].state = "active"]
  /\ plans' = SetPlan(proc[p].plan, "completed")
  /\ audit' = [audit EXCEPT ![proc[p].plan] = @ \cup {"completed"}]
  /\ Goto(p, "committed")
  /\ UNCHANGED <<files, env>>

\* The transaction fails: the target is removed, then the plan has failed.
RollBackTarget(p) ==
  /\ At(p, "written") /\ Outages
  /\ files' = [files EXCEPT ![plans[proc[p].plan].target] = None]
  /\ Goto(p, "failing")
  /\ UNCHANGED <<cands, plans, audit, env>>

MarkFailed(p) ==
  /\ At(p, "failing")
  /\ plans' = SetPlan(proc[p].plan, "failed")
  /\ Done(p)
  /\ UNCHANGED <<files, cands, audit, env>>

\* An unlink that fails leaves an orphan, which is recorded but not an error.
RemoveSource(p) ==
  /\ At(p, "committed")
  /\ \/ files' = [files EXCEPT ![proc[p].cand] = None]
     \/ Outages /\ UNCHANGED files
  /\ Done(p)
  /\ UNCHANGED <<cands, plans, audit, env>>

----------------------------------------------------------------------------
(* cleanup_orphan_source *)

\* A fault: an orphan may be cleaned up whatever became of its plan.
BeginCleanupEarly(p, l) ==
  /\ MayStart(p)
  /\ plans[l].state # "none"
  /\ Exists(plans[l].cand)
  /\ proc' = [proc EXCEPT ![p] = [Idle EXCEPT !.at = "cleaning", !.cand = plans[l].cand]]
  /\ UNCHANGED <<files, cands, plans, audit, env>>

BeginCleanup(p, l) ==
  /\ MayStart(p)
  /\ plans[l].state = "completed"
  /\ cands[plans[l].cand].state = "active"
  /\ Exists(plans[l].cand)
  /\ proc' = [proc EXCEPT ![p] = [Idle EXCEPT !.at = "cleaning", !.cand = plans[l].cand]]
  /\ UNCHANGED <<files, cands, plans, audit, env>>

DeleteOrphan(p) ==
  /\ At(p, "cleaning")
  /\ files' = [files EXCEPT ![proc[p].cand] = None]
  /\ Done(p)
  /\ UNCHANGED <<cands, plans, audit, env>>

----------------------------------------------------------------------------
(* The user and the operating system *)

EditCandidate(c, text) ==
  /\ UserMayAct
  /\ Exists(c) /\ edits < MaxEdits
  /\ files' = [files EXCEPT ![c] = text]
  /\ edits' = edits + 1
  /\ UNCHANGED <<cands, plans, audit, proc, crashes>>

WriteNote(target) ==
  /\ UserMayAct
  /\ ~Exists(target) /\ edits < MaxEdits
  /\ files' = [files EXCEPT ![target] = Note]
  /\ edits' = edits + 1
  /\ UNCHANGED <<cands, plans, audit, proc, crashes>>

\* A caller is killed, or a transaction that would have been its last one fails.
Crash(p) ==
  /\ ~At(p, "idle")
  /\ crashes < MaxCrashes
  /\ crashes' = crashes + 1
  /\ Done(p)
  /\ UNCHANGED <<files, cands, plans, audit, edits>>

----------------------------------------------------------------------------

Init ==
  /\ files = [path \in Cands \cup Targets |-> None]
  /\ cands = [c \in Cands |-> [state |-> "none", evidence |-> None,
                               reviewed |-> None, target |-> None]]
  /\ plans = [l \in Plans |-> [state |-> "none", cand |-> None,
                               expected |-> None, target |-> None]]
  /\ audit = [l \in Plans |-> {}]
  /\ proc = [p \in Procs |-> Idle]
  /\ edits = 0 /\ crashes = 0

Promotion(p) ==
  \/ LoadCandidate(p) \/ RefuseCandidate(p)
  \/ PassCheck(p) \/ FindConflict(p) \/ RecordConflict(p) \/ MarkConflicted(p)
  \/ ReadSource(p) \/ PromoteRaises(p) \/ WriteTarget(p)
  \/ CommitPromotion(p) \/ RollBackTarget(p) \/ MarkFailed(p) \/ RemoveSource(p)

Start(p) ==
  \/ \E c \in Cands :
       \/ \E text \in Texts : BeginCreate(p, c, text)
       \/ \E verdict \in {"approved", "rejected"} : BeginReview(p, c, verdict)
       \/ \E target \in Targets : BeginPlan(p, c, target)
       \/ BeginInvalidate(p, c) \/ BeginReReview(p, c)
  \/ \E l \in Plans :
       \/ \E target \in Targets : BeginRetarget(p, l, target)
       \/ BeginAbandon(p, l) \/ BeginCleanup(p, l)
       \/ Claim(p, l) \/ RefuseClaim(p, l)

Finish(p) ==
  \/ WriteCandidate(p) \/ InsertCandidate(p) \/ InsertFails(p)
  \/ RecordReview(p) \/ BackToReview(p) \/ RecordAbandon(p) \/ DeleteOrphan(p)
  \/ \E l \in Plans : RecordPlan(p, l) \/ RecordRetarget(p, l)

User ==
  \/ \E c \in Cands, text \in Texts : EditCandidate(c, text)
  \/ \E target \in Targets : WriteNote(target)

Next == User \/ \E p \in Procs : Start(p) \/ Finish(p) \/ Promotion(p) \/ Crash(p)

Spec == Init /\ [][Next]_vars

----------------------------------------------------------------------------
(* Properties *)

\* Every variable has its type.
TypeOK ==
  /\ files \in [Cands \cup Targets -> Texts \cup {Note, None}]
  /\ cands \in [Cands -> Row]
  /\ plans \in [Plans -> Plan]
  /\ audit \in [Plans -> SUBSET {"completed", "conflicted", "failed"}]
  /\ proc \in [Procs -> Local]
  /\ edits \in Nat /\ crashes \in Nat

Promoting == {"claimed", "loaded", "conflicting", "conflicted", "checked", "read",
              "written", "failing", "committed"}

\* The claim excludes: no plan is ever promoted by two callers, even though every
\* other transaction of promote writes without looking.
ClaimExclusive ==
  \A p, q \in Procs :
    proc[p].at \in Promoting /\ proc[q].at \in Promoting /\ p # q
      => proc[p].plan # proc[q].plan

\* "Content promoted == content reviewed": the note of a completed plan is the
\* text whose hash the plan expected.
PromotedReviewed ==
  \A l \in Plans :
    plans[l].state = "completed" => files[plans[l].target] = plans[l].expected

\* A candidate is active exactly when one plan of it was completed, and one only.
ActiveByOnePlan ==
  \A c \in Cands :
    LET completed == {l \in Plans : plans[l].state = "completed" /\ plans[l].cand = c}
    IN IF cands[c].state = "active" THEN \E l \in Plans : completed = {l}
       ELSE completed = {}

\* No candidate in the table loses its text: it is still in the inbox, or in the
\* formal directory a completed plan put it in.
TextKept ==
  \A c \in Cands :
    cands[c].state # "none" =>
      \/ Exists(c)
      \/ \E l \in Plans : /\ plans[l].cand = c /\ plans[l].state = "completed"
                          /\ files[plans[l].target] \in Texts

\* Neither a promotion nor its rollback touches a note the user wrote.
NotesKept == [][\A t \in Targets : files[t] = Note => files'[t] = Note]_vars

=============================================================================
