----------------------- MODULE MemoryAuthorityProofs -----------------------
(***************************************************************************)
(* Proofs about MemoryAuthority, for every set of candidates, memories and *)
(* processes and every choice of crash points, edits and bounds.           *)
(*                                                                         *)
(* The first part is about the ledger of activations, the second, from     *)
(* "What the backend plans" on, about the memory files: what the backend   *)
(* has replaced, what it can put back, and what the ledger says of them.   *)
(* Nothing here is assumed of callers, edits or crashes.                   *)
(***************************************************************************)
EXTENDS MemoryAuthority, TLAPS

----------------------------------------------------------------------------
(* Types of what the actions write *)

LEMMA BlankType ==
  ASSUME NEW s \in {"absent", "candidate", "active"},
         NEW a \in {"none", "awaiting_review"}
  PROVE  Blank(s, a) \in File
BY DEF Blank, File

LEMMA ReviewedType ==
  ASSUME NEW f \in File, NEW s \in {"active", "archived", "conflicted"},
         NEW a \in {"accepted", "rejected", "conflict"}
  PROVE  Reviewed(f, s, a) \in File
BY DEF Reviewed, File

LEMMA SupersededType ==
  ASSUME NEW f \in File, NEW i \in Ids
  PROVE  Superseded(f, i) \in File
BY DEF Superseded, File

LEMMA MergedType ==
  ASSUME NEW f \in File, NEW c \in Cands
  PROVE  Merged(f, c) \in File
BY DEF Merged, File

LEMMA IdleType == Idle \in Local
<1>1. NoDecision \in Decision
  <2>1. (CHOOSE c \in Cands : TRUE) \in Cands
    BY IntentAssumption
  <2>2. QED
    BY <2>1, BlankType DEF NoDecision, Decision, Actions
<1>2. [i \in Ids |-> Blank("absent", "none")] \in [Ids -> File]
  BY BlankType
<1>3. QED
  BY <1>1, <1>2 DEF Idle, Local, Points

\* Every write the backend plans is a pair of a memory id and a file.
LEMMA WritesType ==
  ASSUME NEW d \in Decision, NEW s \in [Ids -> File]
  PROVE  /\ Len(Writes(d, s)) \in Nat
         /\ \A i \in 1..Len(Writes(d, s)) : Writes(d, s)[i] \in Ids \X File
<1> DEFINE c == d.cand
           t == Intent[c].target
           n == Intent[c].new
<1>1. c \in Cands /\ c \in Ids /\ t \in Ids /\ n \in Ids
  BY IntentAssumption DEF Decision, Ids
<1>2. /\ s[c] \in File /\ s[t] \in File
      /\ Superseded(s[t], n) \in File /\ Superseded(s[t], c) \in File
      /\ Merged(s[t], c) \in File /\ Blank("active", "none") \in File
  BY <1>1, SupersededType, MergedType, BlankType
<1>3. /\ Reviewed(s[c], "archived", "rejected") \in File
      /\ Reviewed(s[c], "conflicted", "conflict") \in File
      /\ Reviewed(s[c], "archived", "accepted") \in File
      /\ Reviewed(s[c], "active", "accepted") \in File
  BY <1>2, ReviewedType
<1>4. CASE d.action = "reject"
  BY <1>1, <1>3, <1>4 DEF Writes
<1>5. CASE d.action = "conflict"
  BY <1>1, <1>3, <1>5 DEF Writes
<1>6. CASE d.action \notin {"reject", "conflict"}
  <2>1. Writes(d, s) = AcceptWrites(c, s)
    BY <1>6 DEF Writes
  <2>2. CASE Intent[c].kind = "context_transition"
    BY <1>1, <1>2, <1>3, <2>1, <2>2, SMTT(30) DEF AcceptWrites
  <2>3. CASE Intent[c].kind = "UPDATE"
    BY <1>1, <1>2, <1>3, <2>1, <2>3 DEF AcceptWrites
  <2>4. CASE Intent[c].kind = "merge"
    BY <1>1, <1>2, <1>3, <2>1, <2>4 DEF AcceptWrites
  <2>5. CASE Intent[c].kind \notin {"context_transition", "UPDATE", "merge"}
    BY <1>1, <1>3, <2>1, <2>5, SMTT(30) DEF AcceptWrites
  <2>6. QED
    BY <2>2, <2>3, <2>4, <2>5
<1>7. QED
  BY <1>4, <1>5, <1>6

----------------------------------------------------------------------------
(* Type correctness *)

LEMMA GotoType ==
  ASSUME TypeOK, NEW p \in Procs, NEW point \in Points, Goto(p, point)
  PROVE  proc' \in [Procs -> Local]
BY DEF TypeOK, Goto, Local

LEMMA LeaveType ==
  ASSUME TypeOK, NEW p \in Procs, Leave(p)
  PROVE  proc' \in [Procs -> Local] /\ lock' \subseteq Procs
BY IdleType DEF TypeOK, Leave

LEMMA ActiveMapType ==
  ASSUME NEW s \in [Ids -> File]
  PROVE  ActiveMap(s) \in SUBSET Bindings
BY DEF ActiveMap, Bindings

\* Putting a file back keeps the types, whichever write it undoes.
LEMMA PutBackType ==
  ASSUME TypeOK, NEW p \in Procs, NEW i \in proc[p].left, PutBack(p, i)
  PROVE  TypeOK'
<1>1. proc[p] \in Local
  BY DEF TypeOK
<1>2. store' \in [Ids -> File]
  BY <1>1 DEF TypeOK, PutBack, Local
<1>3. proc' \in [Procs -> Local]
  BY <1>1 DEF TypeOK, PutBack, Local
<1>4. QED
  BY <1>2, <1>3 DEF TypeOK, PutBack, ledger

LEMMA TypeInit == Init => TypeOK
<1> SUFFICES ASSUME Init PROVE TypeOK
  OBVIOUS
<1>1. store \in [Ids -> File] /\ expected \in [Cands -> File]
  BY BlankType DEF Init
<1>2. proc \in [Procs -> Local]
  BY IdleType DEF Init
<1>3. QED
  BY <1>1, <1>2 DEF Init, TypeOK

LEMMA TypeStep == TypeOK /\ [Next]_vars => TypeOK'
<1> SUFFICES ASSUME TypeOK, [Next]_vars PROVE TypeOK'
  OBVIOUS
<1>1. ASSUME NEW c \in Cands, Propose(c) PROVE TypeOK'
  <2>1. Blank("candidate", "awaiting_review") \in File /\ Intent[c].target \in Ids
    BY BlankType, IntentAssumption
  <2>2. store' \in [Ids -> File] /\ expected' \in [Cands -> File]
    BY <1>1, <2>1 DEF Propose, TypeOK
  <2>3. QED
    BY <1>1, <2>2 DEF Propose, TypeOK, ledger
<1>2. ASSUME NEW c \in Cands, Edit(c) PROVE TypeOK'
  <2>0. [store[c] EXCEPT !.edits = @ + 1] \in File
    BY DEF TypeOK, File, Ids
  <2>1. store' \in [Ids -> File]
    BY <1>2, <2>0 DEF Edit, TypeOK
  <2>2. QED
    BY <1>2, <2>1 DEF Edit, TypeOK, ledger
<1>3. ASSUME NEW p \in Procs, NEW c \in Cands, NEW a \in Actions, BeginReview(p, c, a)
      PROVE  TypeOK'
  <2>1. [cand |-> c, action |-> a, snap |-> store[c], gen |-> 0] \in Decision
    BY DEF TypeOK, Decision, Ids
  <2>2. proc' \in [Procs -> Local]
    BY <1>3, <2>1, ZenonT(30) DEF BeginReview, TypeOK, Local, Points
  <2>3. QED
    BY <1>3, <2>2 DEF BeginReview, TypeOK, ledger
<1>4. ASSUME NEW p \in Procs, NEW d \in decisions, Acquire(p, d) PROVE TypeOK'
  <2>1. proc' \in [Procs -> Local]
    BY <1>4, ZenonT(30) DEF Acquire, TypeOK, Local, Points
  <2>2. QED
    BY <1>4, <2>1 DEF Acquire, TypeOK, ledger
<1>5. ASSUME NEW p \in Procs, PublishDecision(p) PROVE TypeOK'
  <2>1. [proc[p].dec EXCEPT !.gen = gen] \in Decision
    BY DEF TypeOK, Local, Decision
  <2>2. proc' \in [Procs -> Local]
    BY <1>5, IdleType DEF PublishDecision, TypeOK
  <2>3. QED
    BY <1>5, <2>1, <2>2 DEF PublishDecision, TypeOK
<1>6. ASSUME NEW p \in Procs, Activation(p) PROVE TypeOK'
  <2>1. CASE \/ FindReceipt(p) \/ ReusePending(p) \/ VerifyCandidate(p) \/ Recover(p)
             \/ RefuseUncertain(p) \/ RefuseApply(p) \/ IndexSucceeds(p)
             \/ JournalFails(p) \/ Restored(p)
    <3>1. \E point \in Points : Goto(p, point)
      BY <2>1 DEF FindReceipt, ReusePending, VerifyCandidate, Recover, RefuseUncertain,
                  RefuseApply, IndexSucceeds, JournalFails, Restored, Points
    <3>2. proc' \in [Procs -> Local]
      BY <3>1, GotoType
    <3>3. QED
      BY <2>1, <3>2 DEF FindReceipt, ReusePending, VerifyCandidate, Recover,
                  RefuseUncertain, RefuseApply, IndexSucceeds, JournalFails, Restored,
                  TypeOK, ledger
  <2>2. CASE \/ RefuseGeneration(p) \/ RefuseStale(p) \/ Raise(p) \/ RefuseAdvance(p)
             \/ RemovePending(p)
    <3>1. Leave(p)
      BY <2>2 DEF RefuseGeneration, RefuseStale, Raise, RefuseAdvance, RemovePending
    <3>2. pending' \subseteq pending
      BY <2>2 DEF RefuseGeneration, RefuseStale, Raise, RefuseAdvance, RemovePending,
                  ledger
    <3>3. UNCHANGED <<store, expected, decisions, receipts, gen, crashes>>
      BY <2>2 DEF RefuseGeneration, RefuseStale, Raise, RefuseAdvance, RemovePending,
                  ledger
    <3>4. QED
      BY <3>1, <3>2, <3>3, LeaveType DEF TypeOK
  <2>3. CASE Prepare(p)
    <3>1. proc' \in [Procs -> Local]
      BY <2>3, GotoType DEF Prepare, Points
    <3>2. [dec |-> proc[p].dec, before |-> ActiveMap(store)]
            \in [dec : Decision, before : SUBSET Bindings]
      BY ActiveMapType DEF TypeOK, Local
    <3>3. QED
      BY <2>3, <3>1, <3>2 DEF Prepare, TypeOK
  <2>4. CASE PlanWrites(p)
    <3>1. proc' \in [Procs -> Local]
      BY <2>4, ZenonT(30) DEF PlanWrites, TypeOK, Local, Points
    <3>2. QED
      BY <2>4, <3>1 DEF PlanWrites, TypeOK, ledger
  <2>5. CASE ReplaceFile(p)
    <3> DEFINE next == proc[p].done + 1
    <3>1. proc[p].dec \in Decision /\ proc[p].saved \in [Ids -> File] /\ next \in Nat \ {0}
      BY DEF TypeOK, Local
    <3>2. next \in 1..Len(Planned(p))
      BY <2>5, <3>1, WritesType DEF ReplaceFile, Planned
    <3>3. Planned(p)[next] \in Ids \X File
      BY <3>1, <3>2, WritesType DEF Planned
    <3>4. store' \in [Ids -> File]
      BY <2>5, <3>3 DEF ReplaceFile, TypeOK
    <3>5. proc' \in [Procs -> Local]
      <4> DEFINE loc == [proc[p] EXCEPT
                           !.done = next,
                           !.at = IF next = Len(Planned(p)) THEN "indexing" ELSE "replacing"]
      <4>1. loc \in Local
        BY <3>1 DEF TypeOK, Local, Points
      <4>2. proc' = [proc EXCEPT ![p] = loc]
        BY <2>5 DEF ReplaceFile
      <4> HIDE DEF loc
      <4>3. QED
        BY <4>1, <4>2 DEF TypeOK
    <3>6. QED
      BY <2>5, <3>4, <3>5 DEF ReplaceFile, TypeOK, ledger
  <2>6. CASE ReplaceFails(p) \/ IndexFails(p)
    <3>1. /\ [proc[p] EXCEPT !.at = "undoing", !.left = 1..proc[p].done] \in Local
          /\ [proc[p] EXCEPT !.at = "restoring", !.left = 1..Len(Planned(p))] \in Local
      <4>1. 1..proc[p].done \in SUBSET Nat /\ 1..Len(Planned(p)) \in SUBSET Nat
        OBVIOUS
      <4>2. QED
        BY <4>1 DEF TypeOK, Local, Points
    <3>2. proc' \in [Procs -> Local]
      BY <2>6, <3>1 DEF ReplaceFails, IndexFails, TypeOK
    <3>3. QED
      BY <2>6, <3>2 DEF ReplaceFails, IndexFails, TypeOK, ledger
  <2>7. CASE Undo(p) \/ Restore(p)
    BY <2>7, PutBackType DEF Undo, Restore
  <2>8. CASE WriteReceipt(p)
    <3>1. proc' \in [Procs -> Local]
      BY <2>8, GotoType DEF WriteReceipt, Points
    <3>2. \A r \in pending : [dec |-> proc[p].dec, auth |-> ActiveMap(store) \ r.before]
                               \in [dec : Decision, auth : SUBSET Bindings]
      BY ActiveMapType DEF TypeOK, Local
    <3>3. QED
      BY <2>8, <3>1, <3>2 DEF WriteReceipt, TypeOK
  <2>9. CASE AdvanceGeneration(p)
    <3>1. proc' \in [Procs -> Local]
      BY <2>9, GotoType DEF AdvanceGeneration, Points
    <3>2. gen' \in Nat
      BY <2>9 DEF AdvanceGeneration, TypeOK, Local, Decision
    <3>3. QED
      BY <2>9, <3>1, <3>2 DEF AdvanceGeneration, TypeOK
  <2>10. QED
    BY <1>6, <2>1, <2>2, <2>3, <2>4, <2>5, <2>6, <2>7, <2>8, <2>9 DEF Activation
<1>7. ASSUME NEW p \in Procs, Crash(p) PROVE TypeOK'
  BY <1>7, IdleType DEF Crash, TypeOK, ledger
<1>8. CASE UNCHANGED vars
  BY <1>8 DEF TypeOK, vars
<1>9. QED
  BY <1>1, <1>2, <1>3, <1>4, <1>5, <1>6, <1>7, <1>8 DEF Next, Step

\* Every variable keeps its type: in particular each backend write, rollback and
\* recovery leaves well-formed memory files (memory_distill._reviewed and its kin).
THEOREM TypeCorrect == Spec => []TypeOK
BY TypeInit, TypeStep, PTL DEF Spec

----------------------------------------------------------------------------
(* The lock and the phases of an activation *)

Busy == Points \ {"idle", "snapshot"}
Applying == {"prepared", "verified", "replacing", "undoing", "indexing",
             "restoring", "raising", "committing"}

LockInv == \A p \in Procs : proc[p].at \in Busy => lock = {p}

\* What the lock holder knows of the ledger at each point.
PhaseInv ==
  \A p \in Procs :
    /\ proc[p].at \in Applying =>
         /\ ~HasReceipt(proc[p].dec)
         /\ HasPending(proc[p].dec)
         /\ gen = proc[p].dec.gen
    /\ proc[p].at = "receipted" => HasReceipt(proc[p].dec)
    /\ proc[p].at = "cleanup" => HasReceipt(proc[p].dec) /\ gen = proc[p].dec.gen + 1

SafeInv == TypeOK /\ LockInv /\ PhaseInv /\ GenerationBacked

Others(p) == \A q \in Procs \ {p} : proc'[q] = proc[q]

\* A step of the backend: the ledger, the lock and the decision stay.
Within(p) ==
  /\ proc[p].at \in Applying /\ proc'[p].at \in Applying
  /\ proc'[p].dec = proc[p].dec
  /\ Others(p)
  /\ UNCHANGED <<ledger, lock>>

\* The end of an activation, which may drop its own pending record.
Leaving(p) ==
  /\ proc[p].at \in Busy /\ Leave(p)
  /\ UNCHANGED <<decisions, receipts, gen>>
  /\ \/ pending' = pending
     \/ /\ pending' = {r \in pending : r.dec # proc[p].dec}
        /\ proc[p].at \in Applying \cup {"cleanup"}

LEMMA WithinSteps ==
  ASSUME TypeOK, NEW p \in Procs,
         \/ VerifyCandidate(p) \/ Recover(p) \/ RefuseUncertain(p) \/ PlanWrites(p)
         \/ RefuseApply(p) \/ ReplaceFile(p) \/ ReplaceFails(p) \/ Undo(p)
         \/ IndexSucceeds(p) \/ IndexFails(p) \/ JournalFails(p) \/ Restore(p)
         \/ Restored(p)
  PROVE  Within(p)
<1>1. proc[p] \in Local /\ proc \in [Procs -> Local]
  BY DEF TypeOK
<1>2. CASE \/ VerifyCandidate(p) \/ Recover(p) \/ RefuseUncertain(p) \/ RefuseApply(p)
           \/ IndexSucceeds(p) \/ JournalFails(p) \/ Restored(p)
  BY <1>1, <1>2 DEF VerifyCandidate, Recover, RefuseUncertain, RefuseApply, IndexSucceeds,
                    JournalFails, Restored, At, Goto, Within, Others, Applying, Local
<1>3. CASE PlanWrites(p) \/ ReplaceFails(p) \/ IndexFails(p) \/ ReplaceFile(p)
  <2>1. CASE PlanWrites(p)
    BY <1>1, <2>1 DEF PlanWrites, At, Within, Others, Applying, Local
  <2>2. CASE ReplaceFails(p)
    <3>1. UNCHANGED <<ledger, lock>> /\ proc[p].at = "replacing"
      BY <2>2 DEF ReplaceFails, At
    <3>2. Others(p)
      BY <1>1, <2>2 DEF ReplaceFails, Others
    <3>3. proc'[p].at = "undoing" /\ proc'[p].dec = proc[p].dec
      BY <1>1, <2>2 DEF ReplaceFails, Local
    <3>4. QED
      BY <3>1, <3>2, <3>3 DEF Within, Applying
  <2>3. CASE IndexFails(p)
    <3>1. UNCHANGED <<ledger, lock>> /\ proc[p].at = "indexing"
      BY <2>3 DEF IndexFails, At
    <3>2. Others(p)
      BY <1>1, <2>3 DEF IndexFails, Others
    <3>3. proc'[p].at = "restoring" /\ proc'[p].dec = proc[p].dec
      BY <1>1, <2>3 DEF IndexFails, Local
    <3>4. QED
      BY <3>1, <3>2, <3>3 DEF Within, Applying
  <2>4. CASE ReplaceFile(p)
    <3>1. UNCHANGED <<ledger, lock>> /\ proc[p].at = "replacing"
      BY <2>4 DEF ReplaceFile, At
    <3>2. Others(p)
      BY <1>1, <2>4 DEF ReplaceFile, Others
    <3>3. proc'[p].at \in {"indexing", "replacing"} /\ proc'[p].dec = proc[p].dec
      BY <1>1, <2>4 DEF ReplaceFile, Local
    <3>4. QED
      BY <3>1, <3>2, <3>3 DEF Within, Applying
  <2>5. QED
    BY <1>3, <2>1, <2>2, <2>3, <2>4
<1>4. CASE Undo(p) \/ Restore(p)
  BY <1>1, <1>4 DEF Undo, Restore, PutBack, At, Within, Others, Applying, Local, ledger
<1>5. QED
  BY <1>2, <1>3, <1>4

LEMMA LeavingSteps ==
  ASSUME TypeOK, NEW p \in Procs,
         \/ RefuseGeneration(p) \/ RefuseStale(p) \/ Raise(p) \/ RefuseAdvance(p)
         \/ RemovePending(p)
  PROVE  Leaving(p)
BY DEF RefuseGeneration, RefuseStale, Raise, RefuseAdvance, RemovePending, MayActivate, At,
       Leaving, Busy, Applying, Points, ledger

LEMMA SafeInit == Init => SafeInv
<1> SUFFICES ASSUME Init PROVE SafeInv
  OBVIOUS
<1>1. \A p \in Procs : proc[p].at = "idle"
  BY DEF Init, Idle
<1>2. GenerationBacked
  BY DEF Init, GenerationBacked
<1>3. QED
  BY <1>1, <1>2, TypeInit DEF SafeInv, LockInv, PhaseInv, Busy, Applying

LEMMA SafeStep == SafeInv /\ [Next]_vars => SafeInv'
<1> SUFFICES ASSUME SafeInv, [Next]_vars PROVE (LockInv /\ PhaseInv /\ GenerationBacked)'
  BY TypeStep DEF SafeInv
<1>t. TypeOK /\ TypeOK'
  BY TypeStep DEF SafeInv
<1>1. ASSUME UNCHANGED <<pending, receipts, gen, lock, proc>>
      PROVE  (LockInv /\ PhaseInv /\ GenerationBacked)'
  BY <1>1 DEF SafeInv, LockInv, PhaseInv, GenerationBacked, HasReceipt, HasPending
\* A step of a process that holds no lock, before or after it.
<1>2. ASSUME NEW p \in Procs, Others(p), proc'[p].at \notin Busy,
             lock' = lock \/ lock' = lock \ {p}, UNCHANGED <<pending, receipts, gen>>
      PROVE  (LockInv /\ PhaseInv /\ GenerationBacked)'
  <2>1. ASSUME NEW q \in Procs, proc'[q].at \in Busy PROVE q # p /\ proc'[q] = proc[q]
    BY <1>2, <2>1 DEF Others
  <2>2. LockInv'
    BY <1>2, <2>1 DEF SafeInv, LockInv
  <2>3. PhaseInv'
    BY <1>2, <2>1 DEF SafeInv, PhaseInv, HasReceipt, HasPending, Busy, Applying, Points
  <2>4. QED
    BY <1>2, <2>2, <2>3 DEF SafeInv, GenerationBacked
\* While p holds the lock no other process is inside an activation.
<1>3. ASSUME NEW p \in Procs, proc[p].at \in Busy, Others(p)
      PROVE  \A q \in Procs \ {p} : proc'[q] = proc[q] /\ proc'[q].at \notin Busy
  BY <1>3 DEF SafeInv, LockInv, Others
<1>4. ASSUME NEW p \in Procs, Within(p) PROVE (LockInv /\ PhaseInv /\ GenerationBacked)'
  <2>1. proc[p].at \in Busy /\ Others(p)
    BY <1>4 DEF Within, Busy, Applying, Points
  <2>2. LockInv'
    BY <1>3, <1>4, <2>1 DEF Within, SafeInv, LockInv
  <2>3. PhaseInv'
    BY <1>3, <1>4, <2>1 DEF Within, SafeInv, PhaseInv, HasReceipt, HasPending, ledger,
                            Applying, Busy, Points
  <2>4. QED
    BY <1>4, <2>2, <2>3 DEF Within, SafeInv, GenerationBacked, ledger
<1>5. ASSUME NEW p \in Procs, Leaving(p) PROVE (LockInv /\ PhaseInv /\ GenerationBacked)'
  <2>1. Others(p) /\ proc'[p].at = "idle" /\ proc[p].at \in Busy
    BY <1>5, <1>t DEF Leaving, Leave, Idle, Others, TypeOK
  <2>2. \A q \in Procs : proc'[q].at \notin Busy
    BY <1>3, <2>1 DEF Busy
  <2>3. QED
    BY <1>5, <2>2 DEF Leaving, SafeInv, LockInv, PhaseInv, GenerationBacked, Busy, Applying,
                      Points
<1>6. ASSUME NEW c \in Cands, Propose(c) \/ Edit(c)
      PROVE  (LockInv /\ PhaseInv /\ GenerationBacked)'
  BY <1>1, <1>6 DEF Propose, Edit, ledger
<1>7. ASSUME NEW p \in Procs, NEW c \in Cands, NEW a \in Actions, BeginReview(p, c, a)
      PROVE  (LockInv /\ PhaseInv /\ GenerationBacked)'
  <2>1. Others(p) /\ proc'[p].at = "snapshot"
    BY <1>7, <1>t DEF BeginReview, Others, TypeOK, Local
  <2>2. QED
    BY <1>2, <1>7, <2>1 DEF BeginReview, ledger, Busy
<1>8. ASSUME NEW p \in Procs, NEW d \in decisions, Acquire(p, d)
      PROVE  (LockInv /\ PhaseInv /\ GenerationBacked)'
  <2>1. Others(p) /\ proc'[p].at = "locked"
    BY <1>8, <1>t DEF Acquire, Others, TypeOK, Local
  <2>2. \A q \in Procs \ {p} : proc'[q] = proc[q] /\ proc'[q].at \notin Busy
    BY <1>8, <2>1 DEF Acquire, SafeInv, LockInv, Others
  <2>3. QED
    BY <1>8, <2>1, <2>2 DEF Acquire, SafeInv, LockInv, PhaseInv, GenerationBacked, Busy,
                            Applying, Points, ledger
<1>9. ASSUME NEW p \in Procs, PublishDecision(p)
      PROVE  (LockInv /\ PhaseInv /\ GenerationBacked)'
  <2>1. Others(p) /\ proc'[p].at = "idle"
    BY <1>9, <1>t DEF PublishDecision, Others, TypeOK, Idle
  <2>2. QED
    BY <1>2, <1>9, <2>1 DEF PublishDecision, Busy
<1>10. ASSUME NEW p \in Procs, Activation(p)
       PROVE  (LockInv /\ PhaseInv /\ GenerationBacked)'
  <2>1. CASE FindReceipt(p) \/ ReusePending(p) \/ Prepare(p)
    <3>1. /\ proc[p].at = "locked" /\ proc[p].dec = proc'[p].dec /\ Others(p)
          /\ proc'[p].at \in {"receipted", "prepared"}
      BY <2>1, <1>t DEF FindReceipt, ReusePending, Prepare, MayActivate, At, Goto, Others,
                        TypeOK, Local
    <3>2. \A q \in Procs \ {p} : proc'[q] = proc[q] /\ proc'[q].at \notin Busy
      BY <1>3, <3>1 DEF Busy, Points
    <3>3. LockInv'
      BY <2>1, <3>1, <3>2 DEF SafeInv, LockInv, Busy, Points, FindReceipt, ReusePending,
                              Prepare
    <3>4. PhaseInv'
      <4>1. CASE FindReceipt(p)
        BY <4>1, <3>1, <3>2, <1>t DEF FindReceipt, Goto, TypeOK, Local, PhaseInv, Busy,
                                 Applying, Points, HasReceipt, HasPending, ledger
      <4>2. CASE ReusePending(p)
        BY <4>2, <3>1, <3>2, <1>t DEF ReusePending, MayActivate, Goto, TypeOK, Local,
                                 PhaseInv, Busy, Applying, Points, HasReceipt, HasPending,
                                 ledger
      <4>3. CASE Prepare(p)
        <5>1. \E r \in pending' : r.dec = proc[p].dec
          <6> DEFINE new == [dec |-> proc[p].dec, before |-> ActiveMap(store)]
          <6>1. new \in pending'
            BY <4>3 DEF Prepare
          <6>2. new.dec = proc[p].dec
            OBVIOUS
          <6>3. QED
            BY <6>1, <6>2
        <5>2. QED
          BY <4>3, <5>1, <3>1, <3>2, <1>t DEF Prepare, MayActivate, Goto, TypeOK, Local,
                                 PhaseInv, Busy, Applying, Points, HasReceipt, HasPending
      <4>4. QED
        BY <2>1, <4>1, <4>2, <4>3
    <3>5. QED
      BY <2>1, <3>3, <3>4 DEF SafeInv, GenerationBacked, FindReceipt, ReusePending, Prepare,
                              ledger
  <2>2. CASE WriteReceipt(p)
    <3>1. /\ proc[p].at = "committing" /\ proc'[p].dec = proc[p].dec /\ Others(p)
          /\ proc'[p].at = "receipted"
      BY <2>2, <1>t DEF WriteReceipt, At, Goto, Others, TypeOK, Local
    <3>2. \A q \in Procs \ {p} : proc'[q] = proc[q] /\ proc'[q].at \notin Busy
      BY <1>3, <3>1 DEF Busy, Points
    <3>3. PICK r \in pending :
            receipts' = receipts \cup
              {[dec |-> proc[p].dec, auth |-> ActiveMap(store) \ r.before]}
      BY <2>2 DEF WriteReceipt
    <3>4. \E q \in receipts' : q.dec = proc[p].dec
      <4> DEFINE new == [dec |-> proc[p].dec, auth |-> ActiveMap(store) \ r.before]
      <4>1. new \in receipts'
        BY <3>3
      <4>2. new.dec = proc[p].dec
        OBVIOUS
      <4>3. QED
        BY <4>1, <4>2
    <3>5. LockInv'
      BY <2>2, <3>1, <3>2 DEF SafeInv, LockInv, Busy, Points, WriteReceipt
    <3>6. PhaseInv'
      BY <3>1, <3>2, <3>4 DEF PhaseInv, Busy, Applying, Points, HasReceipt
    <3>7. gen = proc[p].dec.gen
      BY <3>1 DEF SafeInv, PhaseInv, Applying
    <3>8. gen' = gen /\ gen \in Nat
      BY <2>2, <1>t DEF WriteReceipt, TypeOK
    <3>9. GenerationBacked'
      BY <3>3, <3>7, <3>8 DEF SafeInv, GenerationBacked
    <3>10. QED
      BY <3>5, <3>6, <3>9
  <2>3. CASE AdvanceGeneration(p)
    <3>1. /\ proc[p].at = "receipted" /\ proc'[p].dec = proc[p].dec /\ Others(p)
          /\ proc'[p].at = "cleanup"
      BY <2>3, <1>t DEF AdvanceGeneration, At, Goto, Others, TypeOK, Local
    <3>2. \A q \in Procs \ {p} : proc'[q] = proc[q] /\ proc'[q].at \notin Busy
      BY <1>3, <3>1 DEF Busy, Points
    <3>3. LockInv'
      BY <2>3, <3>1, <3>2 DEF SafeInv, LockInv, Busy, Points, AdvanceGeneration
    <3>4. HasReceipt(proc[p].dec) /\ HasReceipt(proc[p].dec)'
      BY <2>3, <3>1 DEF SafeInv, PhaseInv, HasReceipt, AdvanceGeneration
    <3>5. gen' = proc[p].dec.gen + 1
      BY <2>3 DEF AdvanceGeneration
    <3>6. PhaseInv'
      BY <3>1, <3>2, <3>4, <3>5 DEF PhaseInv, Busy, Applying, Points
    <3>7. GenerationBacked'
      <4>1. gen \in Nat /\ proc[p].dec.gen \in Nat /\ gen' >= gen
        BY <2>3, <1>t DEF AdvanceGeneration, TypeOK, Local, Decision
      <4>2. \A g \in 0..(gen' - 1) : \E r \in receipts : r.dec.gen = g
        BY <2>3, <3>4, <4>1 DEF AdvanceGeneration, SafeInv, GenerationBacked, HasReceipt
      <4>3. \A r \in receipts : r.dec.gen <= gen'
        BY <4>1, <1>t DEF SafeInv, GenerationBacked, TypeOK, Decision
      <4>4. QED
        BY <2>3, <4>2, <4>3 DEF GenerationBacked, AdvanceGeneration
    <3>8. QED
      BY <3>3, <3>6, <3>7
  <2>4. CASE Within(p) \/ Leaving(p)
    BY <2>4, <1>4, <1>5
  <2>5. QED
    BY <1>10, <1>t, <2>1, <2>2, <2>3, <2>4, WithinSteps, LeavingSteps DEF Activation
<1>11. ASSUME NEW p \in Procs, Crash(p) PROVE (LockInv /\ PhaseInv /\ GenerationBacked)'
  <2>1. Others(p) /\ proc'[p].at = "idle"
    BY <1>11, <1>t DEF Crash, Others, TypeOK, Idle
  <2>2. QED
    BY <1>2, <1>11, <2>1 DEF Crash, ledger, Busy
<1>12. CASE UNCHANGED vars
  BY <1>1, <1>12 DEF vars
<1>13. QED
  BY <1>6, <1>7, <1>8, <1>9, <1>10, <1>11, <1>12 DEF Next, Step

\* The lock excludes, and what its holder knows of the ledger stays true until it
\* lets go: the inductive invariant behind the theorems below.
THEOREM Safety == Spec => []SafeInv
BY SafeInit, SafeStep, PTL DEF Spec

\* Whoever crashes and wherever, and in whatever order decisions are activated,
\* the generation never runs ahead of the receipts (AuthorityStore._commit_receipt).
THEOREM GenerationBackedAlways == Spec => []GenerationBacked
<1>1. SafeInv => GenerationBacked
  BY DEF SafeInv
<1>2. QED
  BY <1>1, Safety, PTL

\* Concurrent and repeated activations of a decision run the backend only until
\* its receipt exists (AuthorityStore.activate under AuthorityStore.locked).
THEOREM AppliedOnceAlways == Spec => []AppliedOnce
<1>1. SafeInv => AppliedOnce
  BY DEF SafeInv, PhaseInv, AppliedOnce, Applying
<1>2. QED
  BY <1>1, Safety, PTL

----------------------------------------------------------------------------
(* What the backend plans *)

Low == {"absent", "candidate"}
Scope(d) == {d.cand, Intent[d.cand].target, Intent[d.cand].new}

\* What _preflight_candidate_impl found when the backend read the files s.
Plannable(d, s) ==
  /\ s[d.cand].status = "candidate"
  /\ d.action \in {"accept", "merge"} =>
       /\ HasTarget(d.cand) => s[Intent[d.cand].target].status = "active"
       /\ Intent[d.cand].kind = "context_transition" =>
            s[Intent[d.cand].new].status = "absent"

\* One planned write: of the candidate, of its target, or of a new context.
WriteOf(d, s, w) ==
  /\ w \in Ids \X File /\ w[1] \in Scope(d)
  /\ \/ /\ w[1] = d.cand
        /\ w[2].status \in {"active", "archived", "conflicted"}
        /\ w[2].edits = s[d.cand].edits
     \/ /\ w[1] # d.cand /\ s[w[1]].status = "active"
        /\ w[2].status \in {"active", "deprecated"}
        /\ w[2].edits = s[w[1]].edits
     \/ /\ w[1] # d.cand /\ w[1] \notin Cands
        /\ s[w[1]].status = "absent" /\ w[2].status = "active"

\* The plan as a whole: one write per file, the candidate's among them, and what
\* supersedes a deprecated target is written too.
PlanOf(d, s, w) ==
  /\ \A k \in 1..Len(w) : WriteOf(d, s, w[k])
  /\ \A j, k \in 1..Len(w) : w[j][1] = w[k][1] => j = k
  /\ \E k \in 1..Len(w) : w[k][1] = d.cand
  /\ \A k \in 1..Len(w) : w[k][2].status = "deprecated" =>
       \E j \in 1..Len(w) : w[j][1] \in w[k][2].by /\ w[j][2].status = "active"

LEMMA WritesPlan ==
  ASSUME NEW d \in Decision, NEW s \in [Ids -> File], Plannable(d, s)
  PROVE  PlanOf(d, s, Writes(d, s))
<1> DEFINE c == d.cand
           t == Intent[c].target
           n == Intent[c].new
           w == Writes(d, s)
<1>1. c \in Cands /\ c \in Ids /\ t \in Ids /\ n \in Ids /\ t # c /\ n # c
  BY IntentAssumption DEF Decision, Ids
<1>2. s[c] \in File /\ s[t] \in File /\ s[c].status = "candidate"
  BY <1>1 DEF Plannable
<1>3. ASSUME NEW st \in {"active", "archived", "conflicted"},
             NEW au \in {"accepted", "rejected", "conflict"}
      PROVE  WriteOf(d, s, <<c, Reviewed(s[c], st, au)>>)
  <2>1. Reviewed(s[c], st, au) \in File
    BY <1>2, ReviewedType
  <2>2. Reviewed(s[c], st, au).status = st /\ Reviewed(s[c], st, au).edits = s[c].edits
    BY <1>2 DEF Reviewed, File
  <2> QED
    BY <1>1, <2>1, <2>2 DEF WriteOf, Scope
\* A plan that writes the candidate alone
<1>4. ASSUME NEW st \in {"active", "archived", "conflicted"},
             NEW au \in {"accepted", "rejected", "conflict"},
             w = << <<c, Reviewed(s[c], st, au)>> >>
      PROVE  PlanOf(d, s, w)
  <2> DEFINE e == <<c, Reviewed(s[c], st, au)>>
  <2>1. Len(w) = 1 /\ w[1] = e
    BY <1>4
  <2>2. e[2].status # "deprecated" /\ e[1] = d.cand
    BY <1>2 DEF Reviewed, File
  <2>3. WriteOf(d, s, e)
    BY <1>3
  <2> HIDE DEF w, e
  <2>4. 1..Len(w) = {1}
    BY <2>1
  <2>5. PlanOf(d, s, w)
    BY <2>1, <2>2, <2>3, <2>4 DEF PlanOf
  <2> QED
    BY <2>5 DEF w
<1>5. CASE d.action = "reject"
  BY <1>4, <1>5 DEF Writes
<1>6. CASE d.action = "conflict"
  BY <1>4, <1>6 DEF Writes
<1>7. CASE d.action \notin {"reject", "conflict"}
  <2>1. w = AcceptWrites(c, s) /\ d.action \in {"accept", "merge"}
    BY <1>7 DEF Writes, Decision, Actions
  <2>2. CASE Intent[c].kind = "context_transition"
    <3> DEFINE a == <<t, Superseded(s[t], n)>>
               b == <<n, Blank("active", "none")>>
               e == <<c, Reviewed(s[c], "archived", "accepted")>>
    <3>1. w = <<a, b, e>>
      BY <2>1, <2>2 DEF AcceptWrites
    <3>2. s[t].status = "active" /\ s[n].status = "absent" /\ t # n
      BY <2>1, <2>2 DEF Plannable, HasTarget
    <3>3. n \notin Cands
      BY <2>2, FreshAssumption, <1>1
    <3>4. /\ Superseded(s[t], n) \in File
          /\ Superseded(s[t], n).status = "deprecated"
          /\ Superseded(s[t], n).edits = s[t].edits /\ n \in Superseded(s[t], n).by
      BY <1>1, <1>2, SupersededType DEF Superseded, File
    <3>5. Blank("active", "none") \in File /\ Blank("active", "none").status = "active"
      BY BlankType DEF Blank
    <3>6. WriteOf(d, s, a) /\ WriteOf(d, s, b)
      BY <1>1, <3>2, <3>3, <3>4, <3>5 DEF WriteOf, Scope
    <3>7. WriteOf(d, s, e) /\ e[2].status = "archived"
      BY <1>2, <1>3 DEF Reviewed, File
    <3>8. /\ a[1] = t /\ b[1] = n /\ e[1] = c
          /\ b[2].status = "active" /\ n \in a[2].by
      BY <3>4, <3>5
    <3> HIDE DEF a, b, e, w
    <3>9. Len(w) = 3 /\ w[1] = a /\ w[2] = b /\ w[3] = e
      BY <3>1
    <3>10. 1..Len(w) = {1, 2, 3} /\ c = d.cand
      BY <3>9
    <3> HIDE DEF c, t, n
    <3>11. \A j, k \in {1, 2, 3} : w[j][1] = w[k][1] => j = k
      BY <1>1, <3>2, <3>8, <3>9
    <3>12. PlanOf(d, s, w)
      BY <3>6, <3>7, <3>8, <3>9, <3>10, <3>11 DEF PlanOf
    <3> QED
      BY <3>12 DEF w
  <2>3. CASE Intent[c].kind = "UPDATE"
    <3> DEFINE a == <<t, Superseded(s[t], c)>>
               e == <<c, Reviewed(s[c], "active", "accepted")>>
    <3>1. w = <<a, e>>
      BY <2>1, <2>3 DEF AcceptWrites
    <3>2. s[t].status = "active"
      BY <2>1, <2>3 DEF Plannable, HasTarget
    <3>3. /\ Superseded(s[t], c) \in File
          /\ Superseded(s[t], c).status = "deprecated"
          /\ Superseded(s[t], c).edits = s[t].edits /\ c \in Superseded(s[t], c).by
      BY <1>1, <1>2, SupersededType DEF Superseded, File
    <3>4. WriteOf(d, s, a)
      BY <1>1, <3>2, <3>3 DEF WriteOf, Scope
    <3>5. WriteOf(d, s, e) /\ e[2].status = "active"
      BY <1>2, <1>3 DEF Reviewed, File
    <3>6. a[1] = t /\ e[1] = c /\ c \in a[2].by
      BY <3>3
    <3> HIDE DEF a, e, w
    <3>7. Len(w) = 2 /\ w[1] = a /\ w[2] = e
      BY <3>1
    <3>8. 1..Len(w) = {1, 2} /\ c = d.cand
      BY <3>7
    <3> HIDE DEF c, t, n
    <3>9. \A j, k \in {1, 2} : w[j][1] = w[k][1] => j = k
      BY <1>1, <3>6, <3>7
    <3>10. PlanOf(d, s, w)
      BY <3>4, <3>5, <3>6, <3>7, <3>8, <3>9 DEF PlanOf
    <3> QED
      BY <3>10 DEF w
  <2>4. CASE Intent[c].kind = "merge"
    <3> DEFINE a == <<t, Merged(s[t], c)>>
               e == <<c, Reviewed(s[c], "archived", "accepted")>>
    <3>1. w = <<a, e>>
      BY <2>1, <2>4 DEF AcceptWrites
    <3>2. s[t].status = "active"
      BY <2>1, <2>4 DEF Plannable, HasTarget
    <3>3. /\ Merged(s[t], c) \in File /\ Merged(s[t], c).status = "active"
          /\ Merged(s[t], c).edits = s[t].edits
      BY <1>1, <1>2, <3>2, MergedType DEF Merged, File
    <3>4. WriteOf(d, s, a) /\ a[2].status = "active"
      BY <1>1, <3>2, <3>3 DEF WriteOf, Scope
    <3>5. WriteOf(d, s, e) /\ e[2].status = "archived"
      BY <1>2, <1>3 DEF Reviewed, File
    <3>6. a[1] = t /\ e[1] = c
      OBVIOUS
    <3> HIDE DEF a, e, w
    <3>7. Len(w) = 2 /\ w[1] = a /\ w[2] = e
      BY <3>1
    <3>8. 1..Len(w) = {1, 2} /\ c = d.cand
      BY <3>7
    <3> HIDE DEF c, t, n
    <3>9. \A j, k \in {1, 2} : w[j][1] = w[k][1] => j = k
      BY <1>1, <3>6, <3>7
    <3>10. PlanOf(d, s, w)
      BY <3>4, <3>5, <3>6, <3>7, <3>8, <3>9 DEF PlanOf
    <3> QED
      BY <3>10 DEF w
  <2>5. CASE Intent[c].kind \notin {"context_transition", "UPDATE", "merge"}
    BY <1>4, <2>1, <2>5 DEF AcceptWrites
  <2> QED
    BY <2>2, <2>3, <2>4, <2>5
<1> QED
  BY <1>5, <1>6, <1>7

----------------------------------------------------------------------------
(* The files while the backend works *)

Backend == {"replacing", "undoing", "indexing", "restoring"}
Plan(l) == Writes(l.dec, l.saved)

\* The writes of l's plan that are in the files.
Open(l) == IF l.at = "replacing" THEN 1..l.done
           ELSE IF l.at = "indexing" THEN 1..Len(Plan(l)) ELSE l.left

\* The files s hold what caller l wrote; elsewhere they are what it saved, but for
\* candidates that were proposed or edited meanwhile.
BackendOf(l, s) ==
  /\ Plannable(l.dec, l.saved)
  /\ Open(l) \subseteq 1..Len(Plan(l))
  /\ \A k \in Open(l) : s[Plan(l)[k][1]] = Plan(l)[k][2]
  /\ \A i \in Ids : (\A k \in Open(l) : Plan(l)[k][1] # i) =>
       s[i] = l.saved[i] \/ (s[i].status = "candidate" /\ l.saved[i].status \in Low)

Receipted(c) == \E r \in receipts : r.dec.cand = c
Awaited(c) == \E r \in pending : r.dec.cand = c

\* What candidate c's file f says agrees with the ledger.
Accounted(c, f) ==
  /\ HasTarget(c) /\ f.status # "absent" => expected[c].status = "active"
  /\ Receipted(c) => f.status \notin Low
  /\ Awaited(c) => f.status # "absent"
  /\ f.status \notin Low => Receipted(c) \/ Awaited(c)

FilesInv ==
  /\ \A c \in Cands : Accounted(c, store[c])
  /\ \A p \in Procs : proc[p].at \in Backend =>
       BackendOf(proc[p], store) /\ \A c \in Cands : Accounted(c, proc[p].saved[c])

\* A decision is about a candidate that was open for review.
SnapInv ==
  /\ \A d \in decisions : d.snap.status = "candidate"
  /\ \A r \in pending : r.dec.snap.status = "candidate"
  /\ \A p \in Procs : proc[p].at # "idle" => proc[p].dec.snap.status = "candidate"

\* A step that changes no file and no record, and moves nobody into the backend.
Calm ==
  /\ UNCHANGED <<store, expected, pending, receipts>>
  /\ \A q \in Procs : proc'[q].at \in Backend => proc'[q] = proc[q]

\* The other steps: of the backend, and of the records.
BackendStep(p) ==
  PlanWrites(p) \/ ReplaceFile(p) \/ ReplaceFails(p) \/ IndexFails(p) \/ Undo(p) \/ Restore(p)
RecordStep(p) == Prepare(p) \/ Raise(p) \/ WriteReceipt(p) \/ RemovePending(p)

LEMMA Steps ==
  ASSUME TypeOK, [Next]_vars
  PROVE  \/ \E c \in Cands : Propose(c) \/ Edit(c)
         \/ Calm
         \/ \E p \in Procs : BackendStep(p) \/ RecordStep(p)
<1>1. ASSUME NEW p \in Procs, NEW l \in Local, l.at \notin Backend,
             proc' = [proc EXCEPT ![p] = l], UNCHANGED <<store, expected, pending, receipts>>
      PROVE  Calm
  BY <1>1 DEF TypeOK, Calm
<1>2. ASSUME NEW p \in Procs, NEW point \in Points \ Backend, Goto(p, point),
             UNCHANGED <<store, expected, pending, receipts>>
      PROVE  Calm
  BY <1>2 DEF TypeOK, Goto, Local, Calm
<1>3. ASSUME NEW p \in Procs, Leave(p), UNCHANGED <<store, expected, pending, receipts>>
      PROVE  Calm
  BY <1>3, <1>1, IdleType DEF Leave, Idle, Backend
<1>4. ASSUME NEW p \in Procs, NEW c \in Cands, NEW a \in Actions, BeginReview(p, c, a)
      PROVE  Calm
  <2> DEFINE d == [cand |-> c, action |-> a, snap |-> store[c], gen |-> 0]
             l == [proc[p] EXCEPT !.at = "snapshot", !.dec = d]
  <2>1. d \in Decision
    BY DEF TypeOK, Decision, Ids
  <2>2. l \in Local /\ l.at = "snapshot"
    BY <2>1 DEF TypeOK, Local, Points
  <2>3. proc' = [proc EXCEPT ![p] = l] /\ UNCHANGED <<store, expected, pending, receipts>>
    BY <1>4 DEF BeginReview, ledger
  <2> QED
    BY <2>2, <2>3, <1>1 DEF Backend
<1>5. ASSUME NEW p \in Procs, NEW d \in decisions, Acquire(p, d) PROVE Calm
  <2> DEFINE l == [proc[p] EXCEPT !.at = "locked", !.dec = d]
  <2>1. l \in Local /\ l.at = "locked"
    BY DEF TypeOK, Local, Points
  <2>2. proc' = [proc EXCEPT ![p] = l] /\ UNCHANGED <<store, expected, pending, receipts>>
    BY <1>5 DEF Acquire, ledger
  <2> QED
    BY <2>1, <2>2, <1>1 DEF Backend
<1>6. ASSUME NEW p \in Procs, PublishDecision(p) \/ Crash(p) PROVE Calm
  BY <1>6, <1>1, IdleType DEF PublishDecision, Crash, Idle, Backend, ledger
<1>7. ASSUME NEW p \in Procs,
             \/ FindReceipt(p) \/ ReusePending(p) \/ VerifyCandidate(p) \/ Recover(p)
             \/ RefuseUncertain(p) \/ RefuseApply(p) \/ IndexSucceeds(p)
             \/ JournalFails(p) \/ Restored(p) \/ AdvanceGeneration(p)
      PROVE  Calm
  <2>1. \E point \in Points \ Backend : Goto(p, point)
    BY <1>7 DEF FindReceipt, ReusePending, VerifyCandidate, Recover, RefuseUncertain,
                RefuseApply, IndexSucceeds, JournalFails, Restored, AdvanceGeneration,
                Points, Backend
  <2>2. UNCHANGED <<store, expected, pending, receipts>>
    BY <1>7 DEF FindReceipt, ReusePending, VerifyCandidate, Recover, RefuseUncertain,
                RefuseApply, IndexSucceeds, JournalFails, Restored, AdvanceGeneration, ledger
  <2> QED
    BY <2>1, <2>2, <1>2
<1>8. ASSUME NEW p \in Procs, RefuseGeneration(p) \/ RefuseStale(p) \/ RefuseAdvance(p)
      PROVE  Calm
  BY <1>8, <1>3 DEF RefuseGeneration, RefuseStale, RefuseAdvance, ledger
<1>9. CASE UNCHANGED vars
  BY <1>9 DEF vars, Calm
<1> QED
  BY <1>4, <1>5, <1>6, <1>7, <1>8, <1>9 DEF Next, Step, Activation, BackendStep, RecordStep

----------------------------------------------------------------------------
(* The effect of each backend step on its caller *)

LEMMA PlanEffect ==
  ASSUME TypeOK, NEW p \in Procs, PlanWrites(p)
  PROVE  /\ proc'[p].at = "replacing" /\ proc'[p].dec = proc[p].dec
         /\ proc'[p].saved = store /\ proc'[p].done = 0
         /\ Applicable(proc[p].dec.action, proc[p].dec.cand)
         /\ UNCHANGED <<store, expected, pending, receipts>>
BY DEF TypeOK, PlanWrites, Local, ledger

LEMMA ReplaceEffect ==
  ASSUME TypeOK, NEW p \in Procs, ReplaceFile(p)
  PROVE  LET next == proc[p].done + 1
         IN /\ proc[p].at = "replacing" /\ next \in 1..Len(Plan(proc[p]))
            /\ proc'[p].dec = proc[p].dec /\ proc'[p].saved = proc[p].saved
            /\ Open(proc[p]) = 1..proc[p].done /\ Open(proc[p])' = 1..next
            /\ proc'[p].at = IF next = Len(Plan(proc[p])) THEN "indexing" ELSE "replacing"
            /\ store' = [store EXCEPT ![Plan(proc[p])[next][1]] = Plan(proc[p])[next][2]]
            /\ UNCHANGED <<expected, pending, receipts>>
<1> DEFINE next == proc[p].done + 1
           w == Plan(proc[p])
<1>1. proc[p].dec \in Decision /\ proc[p].saved \in [Ids -> File] /\ next \in Nat \ {0}
  BY DEF TypeOK, Local
<1>2. Planned(p) = w /\ Len(w) \in Nat
  BY <1>1, WritesType DEF Planned, Plan
<1>3. proc[p].at = "replacing" /\ next \in 1..Len(w)
  BY <1>1, <1>2 DEF ReplaceFile, At
<1>4. /\ proc'[p].dec = proc[p].dec /\ proc'[p].saved = proc[p].saved
      /\ proc'[p].done = next
      /\ proc'[p].at = IF next = Len(w) THEN "indexing" ELSE "replacing"
  BY <1>2 DEF ReplaceFile, TypeOK, Local
<1>5. Plan(proc[p])' = w
  BY <1>4 DEF Plan
<1>6. Open(proc[p]) = 1..proc[p].done /\ Open(proc[p])' = 1..next
  BY <1>3, <1>4, <1>5 DEF Open
<1>7. store' = [store EXCEPT ![w[next][1]] = w[next][2]] /\ UNCHANGED <<expected, pending, receipts>>
  BY <1>2 DEF ReplaceFile, ledger
<1> QED
  BY <1>3, <1>4, <1>6, <1>7

LEMMA TurnEffect ==
  ASSUME TypeOK, NEW p \in Procs, ReplaceFails(p) \/ IndexFails(p)
  PROVE  /\ proc[p].at \in Backend /\ proc'[p].at \in {"undoing", "restoring"}
         /\ proc'[p].dec = proc[p].dec /\ proc'[p].saved = proc[p].saved
         /\ Open(proc[p])' = Open(proc[p])
         /\ UNCHANGED <<store, expected, pending, receipts>>
<1>1. proc[p] \in Local /\ Planned(p) = Plan(proc[p])
  BY DEF TypeOK, Planned, Plan
<1>2. CASE ReplaceFails(p)
  <2>1. /\ proc[p].at = "replacing" /\ proc'[p].at = "undoing"
        /\ proc'[p].dec = proc[p].dec /\ proc'[p].saved = proc[p].saved
        /\ proc'[p].left = 1..proc[p].done
    BY <1>1, <1>2 DEF ReplaceFails, At, TypeOK, Local
  <2> QED
    BY <1>2, <2>1 DEF ReplaceFails, Open, Backend, ledger
<1>3. CASE IndexFails(p)
  <2>1. /\ proc[p].at = "indexing" /\ proc'[p].at = "restoring"
        /\ proc'[p].dec = proc[p].dec /\ proc'[p].saved = proc[p].saved
        /\ proc'[p].left = 1..Len(Plan(proc[p]))
    BY <1>1, <1>3 DEF IndexFails, At, TypeOK, Local
  <2> QED
    BY <1>3, <2>1 DEF IndexFails, Open, Backend, ledger
<1> QED
  BY <1>2, <1>3

LEMMA PutBackEffect ==
  ASSUME TypeOK, NEW p \in Procs, Undo(p) \/ Restore(p)
  PROVE  \E k \in Open(proc[p]) :
           /\ proc[p].at \in {"undoing", "restoring"} /\ proc'[p].at = proc[p].at
           /\ proc'[p].dec = proc[p].dec /\ proc'[p].saved = proc[p].saved
           /\ Open(proc[p])' = Open(proc[p]) \ {k}
           /\ LET id == Plan(proc[p])[k][1]
              IN store' = [store EXCEPT ![id] = proc[p].saved[id]]
           /\ UNCHANGED <<expected, pending, receipts>>
<1>1. proc[p] \in Local /\ Planned(p) = Plan(proc[p])
  BY DEF TypeOK, Planned, Plan
<1>2. proc[p].at \in {"undoing", "restoring"}
  BY DEF Undo, Restore, At
<1>3. Open(proc[p]) = proc[p].left
  BY <1>2 DEF Open
<1>4. PICK k \in proc[p].left : PutBack(p, k)
  BY DEF Undo, Restore
<1>5. /\ proc'[p].at = proc[p].at /\ proc'[p].dec = proc[p].dec
      /\ proc'[p].saved = proc[p].saved /\ proc'[p].left = proc[p].left \ {k}
  BY <1>1, <1>4 DEF PutBack, TypeOK, Local
<1>6. Open(proc[p])' = proc[p].left \ {k}
  BY <1>2, <1>5 DEF Open
<1> QED
  BY <1>1, <1>2, <1>3, <1>4, <1>5, <1>6 DEF PutBack, ledger

LEMMA RecordEffect ==
  ASSUME TypeOK, NEW p \in Procs, RecordStep(p)
  PROVE  /\ proc[p].at \in Busy \ Backend /\ proc'[p].at \notin Backend
         /\ Others(p) /\ UNCHANGED <<store, expected>>
<1>1. proc[p].at \in {"locked", "raising", "committing", "cleanup"}
  BY DEF RecordStep, Prepare, MayActivate, Raise, WriteReceipt, RemovePending, At
<1>2. proc'[p].at \in {"prepared", "idle", "receipted"} /\ Others(p)
  BY DEF TypeOK, Local, RecordStep, Prepare, Raise, WriteReceipt, RemovePending, Goto, Leave,
         Idle, Others
<1>3. UNCHANGED <<store, expected>>
  BY DEF RecordStep, Prepare, Raise, WriteReceipt, RemovePending
<1> QED
  BY <1>1, <1>2, <1>3 DEF Busy, Backend, Points

----------------------------------------------------------------------------
(* The file invariant *)

LEMMA SnapStep ==
  ASSUME TypeOK, SnapInv, [Next]_vars
  PROVE  SnapInv'
<1>1. ASSUME UNCHANGED decisions, pending' \subseteq pending,
             \A q \in Procs : proc'[q].at # "idle" =>
               proc[q].at # "idle" /\ proc'[q].dec = proc[q].dec
      PROVE  SnapInv'
  BY <1>1 DEF SnapInv
<1>2. ASSUME NEW c \in Cands, Propose(c) \/ Edit(c) PROVE SnapInv'
  BY <1>1, <1>2 DEF Propose, Edit, ledger
<1>3. ASSUME NEW p \in Procs, NEW c \in Cands, NEW a \in Actions, BeginReview(p, c, a)
      PROVE  SnapInv'
  <2>1. /\ proc'[p].dec.snap = store[c] /\ Others(p) /\ store[c].status = "candidate"
        /\ UNCHANGED <<decisions, pending>>
    BY <1>3 DEF BeginReview, Applicable, TypeOK, Local, Others, ledger
  <2> QED
    BY <2>1 DEF SnapInv, Others
<1>4. ASSUME NEW p \in Procs, NEW d \in decisions, Acquire(p, d) PROVE SnapInv'
  <2>1. proc'[p].dec = d /\ Others(p) /\ UNCHANGED <<decisions, pending>>
    BY <1>4 DEF Acquire, TypeOK, Local, Others, ledger
  <2> QED
    BY <2>1 DEF SnapInv, Others
<1>5. ASSUME NEW p \in Procs, PublishDecision(p) PROVE SnapInv'
  <2> DEFINE d == [proc[p].dec EXCEPT !.gen = gen]
  <2>1. d.snap = proc[p].dec.snap /\ proc[p].at = "snapshot"
    BY <1>5 DEF PublishDecision, At, TypeOK, Local, Decision
  <2>2. decisions' = decisions \cup {d} /\ pending' = pending
    BY <1>5 DEF PublishDecision
  <2>3. proc'[p].at = "idle" /\ Others(p)
    BY <1>5 DEF PublishDecision, TypeOK, Idle, Others
  <2> HIDE DEF d
  <2> QED
    BY <2>1, <2>2, <2>3 DEF SnapInv, Others
<1>6. ASSUME NEW p \in Procs, Within(p) PROVE SnapInv'
  BY <1>1, <1>6 DEF Within, Others, Applying, ledger
<1>7. ASSUME NEW p \in Procs, Leaving(p) PROVE SnapInv'
  <2>1. proc'[p].at = "idle" /\ Others(p)
    BY <1>7 DEF Leaving, Leave, TypeOK, Idle, Others
  <2> QED
    BY <1>1, <1>7, <2>1 DEF Leaving, Others
<1>8. ASSUME NEW p \in Procs, Crash(p) PROVE SnapInv'
  <2>1. proc'[p].at = "idle" /\ Others(p)
    BY <1>8 DEF Crash, TypeOK, Idle, Others
  <2> QED
    BY <1>1, <1>8, <2>1 DEF Crash, Others, ledger
<1>9. ASSUME NEW p \in Procs,
             FindReceipt(p) \/ ReusePending(p) \/ WriteReceipt(p) \/ AdvanceGeneration(p)
      PROVE  SnapInv'
  <2>1. proc'[p].dec = proc[p].dec /\ proc[p].at # "idle" /\ Others(p)
    BY <1>9 DEF FindReceipt, ReusePending, MayActivate, WriteReceipt, AdvanceGeneration, Goto,
                At, TypeOK, Local, Others
  <2>2. UNCHANGED <<decisions, pending>>
    BY <1>9 DEF FindReceipt, ReusePending, WriteReceipt, AdvanceGeneration, ledger
  <2> QED
    BY <1>1, <2>1, <2>2 DEF Others
<1>10. ASSUME NEW p \in Procs, Prepare(p) PROVE SnapInv'
  <2> DEFINE r == [dec |-> proc[p].dec, before |-> ActiveMap(store)]
  <2>1. /\ proc'[p].dec = proc[p].dec /\ proc[p].at # "idle" /\ Others(p)
        /\ pending' = pending \cup {r} /\ decisions' = decisions
    BY <1>10 DEF Prepare, MayActivate, Goto, At, TypeOK, Local, Others
  <2>2. r.dec.snap.status = "candidate"
    BY <2>1 DEF SnapInv
  <2> HIDE DEF r
  <2> QED
    BY <2>1, <2>2 DEF SnapInv, Others
<1>11. CASE UNCHANGED vars
  BY <1>1, <1>11 DEF vars
<1> QED
  BY <1>2, <1>3, <1>4, <1>5, <1>6, <1>7, <1>8, <1>9, <1>10, <1>11, WithinSteps, LeavingSteps
  DEF Next, Step, Activation

\* Inside an activation a caller is alone.
LEMMA Alone ==
  ASSUME LockInv, NEW p \in Procs, proc[p].at \in Busy
  PROVE  \A q \in Procs \ {p} : proc[q].at \notin Busy
BY DEF LockInv

LEMMA BackendBusy == Backend \subseteq Busy /\ Backend \subseteq Applying
BY DEF Backend, Busy, Applying, Points

\* What is to be shown of a step of the one caller in the backend.
LEMMA BackendAlone ==
  ASSUME TypeOK', LockInv', NEW p \in Procs, proc'[p].at \in Backend,
         \A c \in Cands : Accounted(c, store[c])', BackendOf(proc[p], store)',
         \A c \in Cands : Accounted(c, proc[p].saved[c])'
  PROVE  FilesInv'
<1>1. \A q \in Procs \ {p} : proc'[q].at \notin Backend
  BY BackendBusy DEF LockInv
<1> QED
  BY <1>1 DEF FilesInv

\* The status of a planned write is never a low one.
LEMMA WritesSettle ==
  ASSUME NEW d, NEW s, NEW w, PlanOf(d, s, w), NEW k \in 1..Len(w)
  PROVE  w[k][2].status \notin Low
BY DEF PlanOf, WriteOf, Low

LEMMA ProposeStep ==
  ASSUME SafeInv, SafeInv', FilesInv, NEW c \in Cands, Propose(c) \/ Edit(c)
  PROVE  FilesInv'
<1>t. TypeOK /\ TypeOK'
  BY DEF SafeInv
<1>1. UNCHANGED <<pending, receipts, proc>>
  BY DEF Propose, Edit, ledger
<1>2. store[c].status \in Low /\ store'[c].status = "candidate"
  <2>1. CASE Propose(c)
    BY <1>t, <2>1 DEF Propose, TypeOK, Ids, Low, Blank
  <2>2. CASE Edit(c)
    BY <1>t, <2>2 DEF Edit, TypeOK, Ids, Low, File
  <2> QED
    BY <2>1, <2>2
<1>3. \A i \in Ids \ {c} : store'[i] = store[i]
  BY <1>t DEF Propose, Edit, TypeOK
<1>4. \A e \in Cands : HasTarget(e) =>
        \/ expected'[e] = expected[e] /\ (store[e].status = "absent" => store'[e].status = "absent"
                                         \/ expected'[e].status = "active")
        \/ expected'[e].status = "active"
  <2>1. CASE Propose(c)
    BY <1>3, <1>t, <2>1 DEF Propose, TypeOK, Ids
  <2>2. CASE Edit(c)
    BY <1>3, <1>t, <2>2 DEF Edit, TypeOK, Ids
  <2> QED
    BY <2>1, <2>2
<1>5. ASSUME NEW e \in Cands, NEW f, Accounted(e, f) PROVE Accounted(e, f)'
  BY <1>1, <1>4, <1>5 DEF Accounted, Receipted, Awaited
<1>6. ASSUME NEW e \in Cands PROVE Accounted(e, store[e])'
  <2>1. CASE e = c
    BY <1>1, <1>2, <1>4, <2>1 DEF FilesInv, Accounted, Receipted, Awaited, Low
  <2>2. CASE e # c
    <3>1. store'[e] = store[e] /\ Accounted(e, store[e])
      BY <1>3, <2>2 DEF FilesInv, Ids
    <3> QED
      BY <1>5, <3>1
  <2> QED
    BY <2>1, <2>2
<1>7. ASSUME NEW p \in Procs, proc[p].at \in Backend
      PROVE  BackendOf(proc[p], store')
  <2> DEFINE l == proc[p]
  <2>1. BackendOf(l, store) /\ l.dec \in Decision /\ l.saved \in [Ids -> File]
    BY <1>7, <1>t DEF FilesInv, TypeOK, Local
  <2>2. PlanOf(l.dec, l.saved, Plan(l))
    BY <2>1, WritesPlan DEF BackendOf, Plan
  <2>3. \A k \in Open(l) : Plan(l)[k][1] \in Ids /\ Plan(l)[k][1] # c
    <3>1. \A k \in Open(l) : Plan(l)[k][2].status \notin Low
      BY <2>1, <2>2, WritesSettle DEF BackendOf
    <3>2. \A k \in Open(l) : Plan(l)[k][1] \in Ids
      BY <2>1, <2>2 DEF BackendOf, PlanOf, WriteOf
    <3> QED
      BY <1>2, <2>1, <3>1, <3>2 DEF BackendOf
  <2> HIDE DEF l
  <2>4. \A k \in Open(l) : store'[Plan(l)[k][1]] = Plan(l)[k][2]
    BY <1>3, <2>1, <2>3 DEF BackendOf
  <2>5. ASSUME NEW i \in Ids, \A k \in Open(l) : Plan(l)[k][1] # i
        PROVE  store'[i] = l.saved[i] \/ (store'[i].status = "candidate" /\ l.saved[i].status \in Low)
    BY <1>2, <1>3, <2>1, <2>5 DEF BackendOf, Low
  <2>6. BackendOf(l, store')
    BY <2>1, <2>4, <2>5 DEF BackendOf
  <2> QED
    BY <2>6 DEF l
<1>8. ASSUME NEW p \in Procs, proc'[p].at \in Backend
      PROVE  BackendOf(proc[p], store)' /\ \A e \in Cands : Accounted(e, proc[p].saved[e])'
  <2>1. BackendOf(proc[p], store)'
    BY <1>1, <1>7, <1>8
  <2>2. \A e \in Cands : Accounted(e, proc[p].saved[e])
    BY <1>1, <1>8 DEF FilesInv
  <2>3. ASSUME NEW e \in Cands PROVE Accounted(e, proc[p].saved[e])'
    BY <1>1, <1>5, <2>2
  <2> QED
    BY <2>1, <2>3
<1> QED
  BY <1>6, <1>8 DEF FilesInv

LEMMA CalmStep ==
  ASSUME FilesInv, Calm
  PROVE  FilesInv'
<1>1. ASSUME NEW e \in Cands, NEW f PROVE Accounted(e, f)' <=> Accounted(e, f)
  BY DEF Calm, Accounted, Receipted, Awaited
<1>2. \A e \in Cands : Accounted(e, store[e])'
  BY <1>1 DEF Calm, FilesInv, Accounted, Receipted, Awaited
<1>3. ASSUME NEW p \in Procs, proc'[p].at \in Backend
      PROVE  BackendOf(proc[p], store)' /\ \A e \in Cands : Accounted(e, proc[p].saved[e])'
  BY <1>3 DEF Calm, FilesInv, Accounted, Receipted, Awaited
<1> QED
  BY <1>2, <1>3 DEF FilesInv

LEMMA PlanStep ==
  ASSUME SafeInv, SafeInv', FilesInv, NEW p \in Procs, PlanWrites(p)
  PROVE  FilesInv'
<1> DEFINE l == proc[p]
           c == l.dec.cand
<1>t. TypeOK /\ TypeOK' /\ l \in Local /\ l.dec \in Decision
  BY DEF SafeInv, TypeOK, Local
<1>1. /\ proc'[p].at = "replacing" /\ proc'[p].dec = l.dec /\ proc'[p].saved = store
      /\ proc'[p].done = 0 /\ Applicable(l.dec.action, c)
      /\ UNCHANGED <<store, expected, pending, receipts>>
  BY <1>t, PlanEffect
<1>2. c \in Cands /\ Intent[c].target \in Ids
  BY <1>t, IntentAssumption DEF Decision
<1>3. Plannable(l.dec, store)
  <2>1. HasTarget(c) => expected[c].status = "active"
    BY <1>1, <1>2 DEF FilesInv, Accounted, Applicable
  <2> QED
    BY <1>1, <2>1 DEF Applicable, TargetCurrent, Plannable
<1>4. Open(proc[p])' = {}
  BY <1>1 DEF Open
<1>5. BackendOf(proc[p], store)'
  BY <1>1, <1>3, <1>4 DEF BackendOf
<1>6. \A e \in Cands : Accounted(e, store[e])'
  BY <1>1 DEF FilesInv, Accounted, Receipted, Awaited
<1>7. \A e \in Cands : Accounted(e, proc[p].saved[e])'
  BY <1>1, <1>6 DEF Accounted, Receipted, Awaited
<1>8. proc'[p].at \in Backend
  BY <1>1 DEF Backend
<1> QED
  BY <1>t, <1>5, <1>6, <1>7, <1>8, BackendAlone DEF SafeInv

LEMMA ReplaceStep ==
  ASSUME SafeInv, SafeInv', FilesInv, NEW p \in Procs, ReplaceFile(p)
  PROVE  FilesInv'
<1> DEFINE l == proc[p]
           next == l.done + 1
           w == Plan(l)
           id == w[next][1]
<1>t. /\ TypeOK /\ TypeOK' /\ l.dec \in Decision /\ l.saved \in [Ids -> File]
      /\ l.done \in Nat
  BY DEF SafeInv, TypeOK, Local
<1>1. /\ l.at = "replacing" /\ next \in 1..Len(w)
      /\ proc'[p].dec = l.dec /\ proc'[p].saved = l.saved
      /\ Open(l) = 1..l.done /\ Open(proc[p])' = 1..next
      /\ proc'[p].at = IF next = Len(w) THEN "indexing" ELSE "replacing"
      /\ store' = [store EXCEPT ![id] = w[next][2]]
      /\ UNCHANGED <<expected, pending, receipts>>
  BY <1>t, ReplaceEffect
<1>2. BackendOf(l, store) /\ \A c \in Cands : Accounted(c, l.saved[c])
  BY <1>1 DEF FilesInv, Backend
<1>3. PlanOf(l.dec, l.saved, w)
  BY <1>t, <1>2, WritesPlan DEF BackendOf, Plan
<1>4. WriteOf(l.dec, l.saved, w[next]) /\ id \in Ids
  BY <1>1, <1>3 DEF PlanOf, WriteOf
<1>5. \A i \in Ids : store'[i] = IF i = id THEN w[next][2] ELSE store[i]
  BY <1>1, <1>4, <1>t DEF TypeOK
<1>6. Plan(proc[p])' = w
  BY <1>1 DEF Plan
<1>7. HasPending(l.dec)
  BY <1>1 DEF SafeInv, PhaseInv, Applying
<1> HIDE DEF l, next, w, id
<1>8. BackendOf(proc'[p], store')
  <2>1. Open(proc'[p]) \subseteq 1..Len(w) /\ Open(proc'[p]) = Open(l) \cup {next}
    BY <1>1, <1>t DEF next
  <2>2. ASSUME NEW k \in Open(l) PROVE w[k][1] # id /\ w[k][1] \in Ids /\ k \in 1..Len(w)
    <3>1. k # next /\ k \in 1..Len(w)
      BY <1>1, <1>2, <1>t DEF next, BackendOf, w
    <3> QED
      BY <1>1, <1>3, <3>1 DEF PlanOf, WriteOf, id
  <2>3. \A k \in Open(proc'[p]) : store'[w[k][1]] = w[k][2]
    BY <1>2, <1>4, <1>5, <2>1, <2>2 DEF BackendOf, id, w
  <2>4. ASSUME NEW i \in Ids, \A k \in Open(proc'[p]) : w[k][1] # i
        PROVE  store'[i] = l.saved[i] \/ (store'[i].status = "candidate" /\ l.saved[i].status \in Low)
    <3>1. i # id /\ \A k \in Open(l) : w[k][1] # i
      BY <2>1, <2>4 DEF id
    <3> QED
      BY <1>2, <1>5, <3>1 DEF BackendOf, w
  <2> QED
    BY <1>1, <1>2, <1>6, <2>1, <2>3, <2>4 DEF BackendOf
<1>9. ASSUME NEW c \in Cands PROVE Accounted(c, store'[c])
  <2>0. c \in Ids /\ Accounted(c, store[c]) /\ Accounted(c, l.saved[c])
    BY <1>2 DEF Ids, FilesInv
  <2>1. CASE c # id
    BY <1>5, <2>0, <2>1
  <2>2. CASE c = id
    <3>1. w[next][2].status \notin Low /\ store'[c] = w[next][2]
      BY <1>1, <1>3, <1>5, <2>0, <2>2, WritesSettle
    <3>2. l.saved[c].status # "absent" /\ (c = l.dec.cand \/ l.saved[c].status = "active")
      BY <1>2, <1>4, <2>2 DEF WriteOf, BackendOf, Plannable, id
    <3>3. c = l.dec.cand => Awaited(c)
      BY <1>7 DEF HasPending, Awaited
    <3> QED
      BY <2>0, <3>1, <3>2, <3>3 DEF Accounted, Low
  <2> QED
    BY <2>1, <2>2
<1>10. ASSUME NEW c \in Cands PROVE Accounted(c, store[c])' /\ Accounted(c, proc[p].saved[c])'
  BY <1>1, <1>2, <1>9 DEF Accounted, Receipted, Awaited, l
<1>11. proc'[p].at \in Backend
  BY <1>1 DEF Backend
<1> QED
  BY <1>t, <1>8, <1>10, <1>11, BackendAlone DEF SafeInv

LEMMA TurnStep ==
  ASSUME SafeInv, SafeInv', FilesInv, NEW p \in Procs, ReplaceFails(p) \/ IndexFails(p)
  PROVE  FilesInv'
<1>t. TypeOK /\ TypeOK'
  BY DEF SafeInv
<1>1. /\ proc[p].at \in Backend /\ proc'[p].at \in Backend
      /\ proc'[p].dec = proc[p].dec /\ proc'[p].saved = proc[p].saved
      /\ Open(proc[p])' = Open(proc[p])
      /\ UNCHANGED <<store, expected, pending, receipts>>
  BY <1>t, TurnEffect DEF Backend
<1>2. Plan(proc[p])' = Plan(proc[p])
  BY <1>1 DEF Plan
<1>3. BackendOf(proc[p], store) /\ \A c \in Cands : Accounted(c, proc[p].saved[c])
  BY <1>1 DEF FilesInv
<1>4. BackendOf(proc[p], store)'
  BY <1>1, <1>2, <1>3 DEF BackendOf
<1>5. ASSUME NEW c \in Cands PROVE Accounted(c, store[c])' /\ Accounted(c, proc[p].saved[c])'
  BY <1>1, <1>3 DEF FilesInv, Accounted, Receipted, Awaited
<1> QED
  BY <1>t, <1>1, <1>4, <1>5, BackendAlone DEF SafeInv

LEMMA PutBackStep ==
  ASSUME SafeInv, SafeInv', FilesInv, NEW p \in Procs, Undo(p) \/ Restore(p)
  PROVE  FilesInv'
<1> DEFINE l == proc[p]
           w == Plan(l)
<1>t. TypeOK /\ TypeOK' /\ l.dec \in Decision /\ l.saved \in [Ids -> File]
  BY DEF SafeInv, TypeOK, Local
<1>1. PICK k \in Open(l) :
        /\ l.at \in {"undoing", "restoring"} /\ proc'[p].at = l.at
        /\ proc'[p].dec = l.dec /\ proc'[p].saved = l.saved
        /\ Open(proc[p])' = Open(l) \ {k}
        /\ store' = [store EXCEPT ![w[k][1]] = l.saved[w[k][1]]]
        /\ UNCHANGED <<expected, pending, receipts>>
  BY <1>t, PutBackEffect
<1>2. BackendOf(l, store) /\ \A c \in Cands : Accounted(c, l.saved[c])
  BY <1>1 DEF FilesInv, Backend
<1>3. PlanOf(l.dec, l.saved, w) /\ k \in 1..Len(w)
  BY <1>t, <1>1, <1>2, WritesPlan DEF BackendOf, Plan
<1>4. w[k][1] \in Ids
  BY <1>3 DEF PlanOf, WriteOf
<1>5. \A i \in Ids : store'[i] = IF i = w[k][1] THEN l.saved[i] ELSE store[i]
  BY <1>1, <1>4, <1>t DEF TypeOK
<1>6. Plan(proc[p])' = w
  BY <1>1 DEF Plan
<1> HIDE DEF l, w
<1>7. BackendOf(proc'[p], store')
  <2>1. Open(proc'[p]) \subseteq Open(l) /\ Open(l) \subseteq 1..Len(w)
    BY <1>1, <1>2 DEF BackendOf, w
  <2>2. ASSUME NEW j \in Open(proc'[p]) PROVE store'[w[j][1]] = w[j][2]
    <3>1. j # k /\ j \in Open(l)
      BY <1>1
    <3>2. w[j][1] # w[k][1] /\ w[j][1] \in Ids
      BY <1>3, <2>1, <3>1 DEF PlanOf, WriteOf
    <3> QED
      BY <1>2, <1>5, <3>1, <3>2 DEF BackendOf, w
  <2>3. ASSUME NEW i \in Ids, \A j \in Open(proc'[p]) : w[j][1] # i
        PROVE  store'[i] = l.saved[i] \/ (store'[i].status = "candidate" /\ l.saved[i].status \in Low)
    <3>1. CASE i = w[k][1]
      BY <1>5, <3>1
    <3>2. CASE i # w[k][1]
      <4>1. \A j \in Open(l) : w[j][1] # i
        BY <1>1, <2>3, <3>2
      <4> QED
        BY <1>2, <1>5, <3>2, <4>1 DEF BackendOf, w
    <3> QED
      BY <3>1, <3>2
  <2> QED
    BY <1>1, <1>2, <1>6, <2>1, <2>2, <2>3 DEF BackendOf
<1>8. ASSUME NEW c \in Cands PROVE Accounted(c, store'[c])
  BY <1>2, <1>5 DEF FilesInv, Ids
<1>9. ASSUME NEW c \in Cands PROVE Accounted(c, store[c])' /\ Accounted(c, proc[p].saved[c])'
  BY <1>1, <1>2, <1>8 DEF Accounted, Receipted, Awaited, l
<1>10. proc'[p].at \in Backend
  BY <1>1 DEF Backend
<1> QED
  BY <1>t, <1>7, <1>9, <1>10, BackendAlone DEF SafeInv

\* Steps of the records are taken while nobody is in the backend.
LEMMA RecordFilesStep ==
  ASSUME SafeInv, SafeInv', FilesInv, SnapInv, NEW p \in Procs, RecordStep(p)
  PROVE  FilesInv'
<1> DEFINE d == proc[p].dec
<1>t. TypeOK /\ TypeOK' /\ d \in Decision /\ d.cand \in Cands
  BY DEF SafeInv, TypeOK, Local, Decision
<1>1. /\ proc[p].at \in Busy \ Backend /\ proc'[p].at \notin Backend
      /\ Others(p) /\ UNCHANGED <<store, expected>>
  BY <1>t, RecordEffect
<1>2. \A q \in Procs : proc'[q].at \notin Backend
  BY <1>1, Alone, BackendBusy DEF SafeInv, Others
<1>3. SUFFICES ASSUME NEW c \in Cands PROVE Accounted(c, store[c])'
  BY <1>2 DEF FilesInv
<1>4. Accounted(c, store[c])
  BY DEF FilesInv
<1>5. CASE Prepare(p)
  <2> DEFINE r == [dec |-> d, before |-> ActiveMap(store)]
  <2>1. /\ pending' = pending \cup {r} /\ receipts' = receipts /\ r.dec = d
        /\ store[d.cand] = d.snap /\ proc[p].at # "idle"
    BY <1>5 DEF Prepare, MayActivate, AsReviewed, At
  <2>2. store[d.cand].status = "candidate"
    BY <2>1 DEF SnapInv
  <2> HIDE DEF r
  <2> QED
    BY <1>1, <1>4, <2>1, <2>2 DEF Accounted, Receipted, Awaited, Low
<1>6. CASE Raise(p) \/ RemovePending(p)
  <2>1. /\ receipts' = receipts
        /\ \/ pending' = pending
           \/ pending' = {r \in pending : r.dec # d} /\ (AsReviewed(p) \/ HasReceipt(d))
    BY <1>6 DEF Raise, RemovePending, SafeInv, PhaseInv, At
  <2>2. AsReviewed(p) => store[d.cand].status = "candidate"
    BY <1>1 DEF AsReviewed, SnapInv, Busy, Points
  <2>3. pending' \subseteq pending /\ \A r \in pending : r \in pending' \/ r.dec = d
    BY <2>1
  <2> HIDE DEF d
  <2>4. Receipted(c)' <=> Receipted(c)
    BY <2>1 DEF Receipted
  <2>5. Awaited(c)' => Awaited(c)
    BY <2>3 DEF Awaited
  <2>6. Awaited(c) /\ ~Awaited(c)' => c = d.cand /\ pending' # pending
    BY <2>3 DEF Awaited
  <2>7. c = d.cand /\ pending' # pending => Receipted(c) \/ store[c].status = "candidate"
    BY <2>1, <2>2 DEF HasReceipt, Receipted
  <2> QED
    BY <1>1, <1>4, <2>4, <2>5, <2>6, <2>7 DEF Accounted, Low
<1>7. CASE WriteReceipt(p)
  <2>1. PICK q : q.dec = d /\ receipts' = receipts \cup {q}
    BY <1>7 DEF WriteReceipt
  <2>2. pending' = pending /\ store[d.cand].status \notin Low
    BY <1>7 DEF WriteReceipt, Postcondition, Low
  <2> HIDE DEF d
  <2> QED
    BY <1>1, <1>4, <2>1, <2>2 DEF Accounted, Receipted, Awaited
<1> QED
  BY <1>5, <1>6, <1>7 DEF RecordStep

LEMMA FilesInit == Init => FilesInv /\ SnapInv
<1> SUFFICES ASSUME Init PROVE FilesInv /\ SnapInv
  OBVIOUS
<1>1. \A p \in Procs : proc[p].at = "idle"
  BY DEF Init, Idle
<1>2. \A c \in Cands : store[c].status = "absent"
  BY FreshAssumption DEF Init, Ids, Blank
<1> QED
  BY <1>1, <1>2 DEF Init, FilesInv, SnapInv, Accounted, Receipted, Awaited, Backend, Low

LEMMA FilesStep ==
  ASSUME SafeInv, SafeInv', FilesInv, SnapInv, [Next]_vars
  PROVE  FilesInv'
BY Steps, ProposeStep, CalmStep, PlanStep, ReplaceStep, TurnStep, PutBackStep, RecordFilesStep
DEF SafeInv, BackendStep

\* What the backend wrote, and what the ledger says of it, agree at every moment:
\* whoever crashes and wherever, however users edit and callers overlap.
THEOREM Files == Spec => [](SafeInv /\ FilesInv /\ SnapInv)
<1>1. SafeInv /\ FilesInv /\ SnapInv /\ [Next]_vars => (SafeInv /\ FilesInv /\ SnapInv)'
  BY SafeStep, FilesStep, SnapStep DEF SafeInv
<1> QED
  BY <1>1, SafeInit, FilesInit, PTL DEF Spec

\* An outcome in the files is never unaccounted for: a candidate that left review
\* has a receipt or a pending record, so authorize_active_records can tell which.
THEOREM OutcomeAccountedAlways == Spec => []OutcomeAccounted
<1>1. FilesInv => OutcomeAccounted
  BY DEF FilesInv, Accounted, Receipted, Awaited, OutcomeAccounted, Low
<1> QED
  BY <1>1, Files, PTL

----------------------------------------------------------------------------
(* The ledger seen from outside *)

\* Whoever holds the lock activates a decision that was published.
Held == \A p \in Procs : proc[p].at \in Busy => proc[p].dec \in decisions

LEMMA HeldStep ==
  ASSUME TypeOK, Held, [Next]_vars
  PROVE  Held'
<1>1. ASSUME decisions \subseteq decisions',
             \A q \in Procs : proc'[q].at \in Busy =>
               \/ proc[q].at \in Busy /\ proc'[q].dec = proc[q].dec
               \/ proc'[q].dec \in decisions
      PROVE  Held'
  BY <1>1 DEF Held
<1>2. ASSUME NEW c \in Cands, Propose(c) \/ Edit(c) PROVE Held'
  BY <1>1, <1>2 DEF Propose, Edit, ledger
<1>3. ASSUME NEW p \in Procs, NEW c \in Cands, NEW a \in Actions, BeginReview(p, c, a)
      PROVE  Held'
  <2>1. proc'[p].at \notin Busy /\ Others(p) /\ decisions' = decisions
    BY <1>3 DEF BeginReview, TypeOK, Local, Others, Busy, ledger
  <2> QED
    BY <1>1, <2>1 DEF Others
<1>4. ASSUME NEW p \in Procs, NEW d \in decisions, Acquire(p, d) PROVE Held'
  <2>1. proc'[p].dec = d /\ Others(p) /\ decisions' = decisions
    BY <1>4 DEF Acquire, TypeOK, Local, Others, ledger
  <2> QED
    BY <1>1, <2>1 DEF Others
<1>5. ASSUME NEW p \in Procs, PublishDecision(p) \/ Leaving(p) \/ Crash(p) PROVE Held'
  <2>1. proc'[p].at \notin Busy /\ Others(p) /\ decisions \subseteq decisions'
    BY <1>5 DEF PublishDecision, Leaving, Leave, Crash, TypeOK, Idle, Others, Busy, ledger
  <2> QED
    BY <1>1, <2>1 DEF Others
<1>6. ASSUME NEW p \in Procs, Within(p) PROVE Held'
  BY <1>1, <1>6 DEF Within, Others, Applying, Busy, Points, ledger
<1>7. ASSUME NEW p \in Procs,
             \/ FindReceipt(p) \/ ReusePending(p) \/ Prepare(p) \/ WriteReceipt(p)
             \/ AdvanceGeneration(p)
      PROVE  Held'
  <2>1. /\ proc[p].at \in Busy /\ proc'[p].dec = proc[p].dec
        /\ Others(p) /\ decisions' = decisions
    BY <1>7 DEF FindReceipt, ReusePending, MayActivate, Prepare, WriteReceipt,
                AdvanceGeneration, Goto, At, TypeOK, Local, Others, Busy, Points, ledger
  <2> QED
    BY <1>1, <2>1 DEF Others
<1>8. CASE UNCHANGED vars
  BY <1>1, <1>8 DEF vars
<1> QED
  BY <1>2, <1>3, <1>4, <1>5, <1>6, <1>7, <1>8, WithinSteps, LeavingSteps
  DEF Next, Step, Activation

\* The steps that the ledger can see.
LEMMA VisibleSteps ==
  ASSUME [Next]_vars
  PROVE  \/ UNCHANGED <<decisions, receipts, gen>>
         \/ \E p \in Procs : PublishDecision(p) \/ WriteReceipt(p) \/ AdvanceGeneration(p)
<1>1. ASSUME NEW p \in Procs, Activation(p), ~WriteReceipt(p), ~AdvanceGeneration(p)
      PROVE  UNCHANGED <<decisions, receipts, gen>>
  BY <1>1 DEF Activation, FindReceipt, RefuseGeneration, ReusePending, RefuseStale, Prepare,
     VerifyCandidate, Recover, RefuseUncertain, PlanWrites, RefuseApply, ReplaceFile,
     ReplaceFails, Undo, IndexSucceeds, IndexFails, JournalFails, Restore, Restored, Raise,
     RefuseAdvance, RemovePending, PutBack, ledger
<1> QED
  BY <1>1 DEF Next, Step, Propose, Edit, BeginReview, Acquire, Crash, vars, ledger

\* What the lock holder commits has no receipt yet and is of the generation in the
\* file.
LEMMA ReceiptIsNew ==
  ASSUME SafeInv, Held, NEW p \in Procs, WriteReceipt(p)
  PROVE  ~HasReceipt(proc[p].dec) /\ gen = proc[p].dec.gen /\ proc[p].dec \in decisions
<1>1. proc[p].at = "committing"
  BY DEF WriteReceipt, At
<1> QED
  BY <1>1 DEF SafeInv, PhaseInv, Held, Applying, Busy, Points

LEMMA LedgerStep ==
  ASSUME SafeInv, SafeInv', Held, [Next]_vars
  PROVE  [Ledger!Next]_Ledger!vars
<1> DEFINE committed == {r.dec : r \in receipts}
           behind == CommittedGeneration # gen
<1>t. /\ gen \in Nat /\ gen' \in Nat
      /\ \A r \in receipts : r.dec \in Decision /\ r.dec.gen \in Nat /\ r.dec.gen <= gen
  BY DEF SafeInv, TypeOK, GenerationBacked, Decision
<1>1. CASE UNCHANGED <<decisions, receipts, gen>>
  BY <1>1 DEF Ledger!vars, CommittedGeneration
<1>2. ASSUME NEW p \in Procs, PublishDecision(p) PROVE Ledger!Publish
  <2> DEFINE d == [proc[p].dec EXCEPT !.gen = gen]
  <2>1. decisions' = decisions \cup {d} /\ UNCHANGED <<receipts, gen>>
    BY <1>2 DEF PublishDecision
  <2>2. d.gen = gen
    BY DEF SafeInv, TypeOK, Local, Decision
  <2>3. gen <= CommittedGeneration
    BY <1>t DEF CommittedGeneration
  <2>4. UNCHANGED <<committed, CommittedGeneration, behind>>
    BY <2>1 DEF CommittedGeneration
  <2> HIDE DEF d, behind
  <2> QED
    BY <2>1, <2>2, <2>3, <2>4 DEF Ledger!Publish, behind
<1>3. ASSUME NEW p \in Procs, WriteReceipt(p)
      PROVE  \E d \in decisions : Ledger!Commit(d) \/ Ledger!Overtake(d)
  <2> DEFINE d == proc[p].dec
  <2>1. PICK new : new.dec = d /\ receipts' = receipts \cup {new}
    BY <1>3 DEF WriteReceipt
  <2>2. UNCHANGED <<decisions, gen>>
    BY <1>3 DEF WriteReceipt
  <2>3. ~HasReceipt(d) /\ gen = d.gen /\ d \in decisions
    BY <1>3, ReceiptIsNew
  <2> HIDE DEF d
  <2>4. committed' = committed \cup {d} /\ d \notin committed
    BY <2>1, <2>3 DEF HasReceipt
  <2>5. CommittedGeneration' = gen + 1 /\ behind'
    BY <1>t, <2>1, <2>2, <2>3 DEF CommittedGeneration
  <2>6. CASE \E r \in receipts : r.dec.gen = gen
    <3>1. CommittedGeneration = gen + 1 /\ behind
      BY <1>t, <2>6 DEF CommittedGeneration
    <3> QED
      BY <2>2, <2>3, <2>4, <2>5, <3>1 DEF Ledger!Overtake
  <2>7. CASE ~\E r \in receipts : r.dec.gen = gen
    <3>1. CommittedGeneration = gen /\ ~behind
      BY <2>7 DEF CommittedGeneration
    <3> QED
      BY <2>2, <2>3, <2>4, <2>5, <3>1 DEF Ledger!Commit
  <2> QED
    BY <2>6, <2>7
<1>4. ASSUME NEW p \in Procs, AdvanceGeneration(p) PROVE Ledger!Settle \/ UNCHANGED Ledger!vars
  <2> DEFINE d == proc[p].dec
  <2>1. /\ gen \in {d.gen, d.gen + 1} /\ gen' = d.gen + 1 /\ proc[p].at = "receipted"
        /\ UNCHANGED <<decisions, receipts>>
    BY <1>4 DEF AdvanceGeneration, At
  <2>2. \E r \in receipts : r.dec = d
    BY <2>1 DEF SafeInv, PhaseInv, HasReceipt
  <2>3. d.gen \in Nat
    BY <1>t, <2>2
  <2> HIDE DEF d
  <2>4. CASE gen = d.gen
    <3>1. CommittedGeneration = gen + 1 /\ behind
      BY <1>t, <2>2, <2>4 DEF CommittedGeneration
    <3>2. gen' = gen + 1 /\ \A r \in receipts' : r.dec.gen # gen'
      BY <1>t, <2>1, <2>3, <2>4
    <3>3. CommittedGeneration' = gen' /\ ~behind'
      BY <3>2 DEF CommittedGeneration
    <3> QED
      BY <2>1, <3>1, <3>2, <3>3 DEF Ledger!Settle
  <2>5. CASE gen = d.gen + 1
    BY <2>1, <2>5 DEF CommittedGeneration, Ledger!vars
  <2> QED
    BY <2>1, <2>4, <2>5
<1> QED
  BY <1>1, <1>2, <1>3, <1>4, VisibleSteps DEF Ledger!Next

\* Seen through its receipts AuthorityStore is the ledger AuthorityLedger, in whatever
\* order callers activate, wherever they are killed and whatever is edited: every
\* write, retry and recovery is a publication, a commit by compare-and-swap, a commit
\* that overtakes the generation file, the file's own step, or invisible.
THEOREM AuthorityImplementsLedger == Spec => ImplementsLedger
<1>1. Init => Ledger!Init /\ Held
  BY DEF Init, Ledger!Init, CommittedGeneration, Held, Idle, Busy
<1>2. SafeInv /\ SafeInv' /\ Held /\ [Next]_vars => [Ledger!Next]_Ledger!vars
  BY LedgerStep
<1>3. SafeInv /\ Held /\ [Next]_vars => Held'
  BY HeldStep DEF SafeInv
<1> QED
  BY <1>1, <1>2, <1>3, Safety, PTL DEF Spec, ImplementsLedger, Ledger!Spec

=============================================================================
