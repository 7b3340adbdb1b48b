-------------------------- MODULE WorkbenchProofs --------------------------
(***************************************************************************)
(* Theorems about the procedure library, for any number of proposals and   *)
(* of callers that overlap as they like, and about the task board, for any *)
(* tasks and workers.  What the invariants add is what a call in progress  *)
(* relies on: that a backup, once written, stays; and that a link is only  *)
(* made between tasks that exist.                                          *)
(***************************************************************************)
EXTENDS ProcedureLibrary, TaskBoard, TLAPS

ProposalStatus == {"absent", "candidate", "accepted", "rejected", "applied", "rolled_back"}
Backup == [before : Text, after : Text]
Directory == [exists : BOOLEAN, document : Text, added : Text]
CatalogStates == {"active", "stale", "archived"}

Calls ==
  {Idle}
    \cup [at : {"set"}, p : Proposals, to : ProposalStatus]
    \cup [at : {"write", "backup"}, p : Proposals, before : Text]
    \cup [at : {"mark"}, p : Proposals, expected : ProposalStatus, to : ProposalStatus]
    \cup [at : {"restore"}, p : Proposals]
    \cup [at : {"archive", "unarchive", "save", "saving"}, to : CatalogStates]

LibraryType ==
  /\ status \in [Proposals -> ProposalStatus]
  /\ live \in Directory /\ archive \in Directory
  /\ backup \in [Proposals -> Backup \cup {NONE}]
  /\ caller \in [Callers -> Calls]

BackedUp == {"applied", "rolled_back"}

\* What a call relies on: it makes a status final only with a backup.
HasBackup(r, b) ==
  /\ r.at \in {"set", "mark"} => (r.to \in BackedUp => b[r.p] # NONE)
  /\ r.at = "restore" => b[r.p] # NONE

LibraryInv ==
  /\ LibraryType
  /\ AppliedReversible
  /\ \A c \in Callers : HasBackup(caller[c], backup)

\* A call that goes on, keeping the rows and the backups.
LEMMA CallGoesOn ==
  ASSUME LibraryInv, NEW c \in Callers, NEW r \in Calls, Moves(c, r),
         HasBackup(r, backup), UNCHANGED <<status, backup>>,
         live' \in Directory, archive' \in Directory
  PROVE  LibraryInv'
<1>1. LibraryType'
  BY DEF LibraryInv, LibraryType, Moves
<1>2. AppliedReversible'
  BY DEF LibraryInv, AppliedReversible
<1>3. ASSUME NEW d \in Callers PROVE HasBackup(caller'[d], backup')
  <2>1. caller'[d] = IF d = c THEN r ELSE caller[d]
    BY DEF LibraryInv, LibraryType, Moves
  <2>2. backup' = backup
    OBVIOUS
  <2> QED BY <2>1, <2>2 DEF LibraryInv
<1> QED BY <1>1, <1>2, <1>3 DEF LibraryInv

LEMMA IdleCall == Idle \in Calls /\ \A b : HasBackup(Idle, b)
BY DEF Idle, Calls, HasBackup

\* The status read decides between the call's write and its end.
LEMMA StatusRead ==
  ASSUME LibraryInv, NEW c \in Callers, NEW p \in Proposals,
         NEW expected \in ProposalStatus, NEW to \in ProposalStatus,
         ReadStatus(c, p, expected, to), to \in BackedUp => backup[p] # NONE,
         UNCHANGED <<status, live, archive, backup>>
  PROVE  LibraryInv'
<1> DEFINE r == [at |-> "set", p |-> p, to |-> to]
<1>1. r \in Calls /\ HasBackup(r, backup)
  BY DEF Calls, HasBackup
<1>2. PICK q \in Calls : Moves(c, q) /\ HasBackup(q, backup)
  BY <1>1, IdleCall DEF ReadStatus
<1> QED BY <1>2, CallGoesOn DEF LibraryInv, LibraryType

LEMMA LibraryStep ==
  ASSUME LibraryInv, LibraryNext
  PROVE  LibraryInv'
<1>1. ASSUME NEW p \in Proposals, Create(p) PROVE LibraryInv'
  <2>1. LibraryType'
    BY <1>1 DEF LibraryInv, LibraryType, Create, ProposalStatus
  <2>2. AppliedReversible'
    BY <1>1 DEF LibraryInv, LibraryType, Create, AppliedReversible
  <2> QED BY <1>1, <2>1, <2>2 DEF LibraryInv, Create
<1>2. ASSUME NEW c \in Callers, NEW p \in Proposals, Apply(c, p) PROVE LibraryInv'
  <2> DEFINE r == [at |-> "write", p |-> p, before |-> live[Target(p)]]
  <2>1. r \in Calls /\ HasBackup(r, backup)
    BY DEF Calls, HasBackup, LibraryInv, LibraryType, Directory, Target
  <2> QED BY <1>2, <2>1, CallGoesOn DEF Apply, LibraryInv, LibraryType
<1>3. ASSUME NEW c \in Callers, NEW p \in Proposals, Rollback(c, p) PROVE LibraryInv'
  <2> DEFINE r == [at |-> "restore", p |-> p]
  <2>1. r \in Calls /\ HasBackup(r, backup)
    BY <1>3 DEF Calls, HasBackup, Rollback
  <2> QED BY <1>3, <2>1, CallGoesOn DEF Rollback, LibraryInv, LibraryType
<1>4. ASSUME NEW c \in Callers, NEW p \in Proposals, NEW to \in {"accepted", "rejected"},
             Review(c, p, to)
      PROVE  LibraryInv'
  <2>1. to \in ProposalStatus /\ to \notin BackedUp /\ "candidate" \in ProposalStatus
    BY DEF ProposalStatus, BackedUp
  <2> QED BY <1>4, <2>1, StatusRead DEF Review
<1>5. ASSUME NEW c \in Callers, SetStatus(c) PROVE LibraryInv'
  <2> DEFINE r == caller[c]
  <2>1. r \in [at : {"set"}, p : Proposals, to : ProposalStatus]
    BY <1>5 DEF SetStatus, LibraryInv, LibraryType, Calls, Idle
  <2>2. r.to \in BackedUp => backup[r.p] # NONE
    BY <1>5 DEF SetStatus, LibraryInv, HasBackup
  <2>3. status' = [status EXCEPT ![r.p] = r.to]
        /\ UNCHANGED <<live, archive, backup>> /\ caller' = [caller EXCEPT ![c] = Idle]
    BY <1>5 DEF SetStatus, Moves
  <2> HIDE DEF r
  <2>4. LibraryType'
    BY <2>1, <2>3, IdleCall DEF LibraryInv, LibraryType
  <2>5. AppliedReversible'
    <3>1. \A p \in Proposals : status'[p] = IF p = r.p THEN r.to ELSE status[p]
      BY <2>1, <2>3 DEF LibraryInv, LibraryType
    <3> QED BY <3>1, <2>2, <2>3 DEF LibraryInv, AppliedReversible, BackedUp
  <2>6. ASSUME NEW d \in Callers PROVE HasBackup(caller'[d], backup')
    <3>1. caller'[d] = IF d = c THEN Idle ELSE caller[d]
      BY <2>3 DEF LibraryInv, LibraryType
    <3> QED BY <3>1, <2>3, IdleCall DEF LibraryInv
  <2> QED BY <2>4, <2>5, <2>6 DEF LibraryInv
<1>6. ASSUME NEW c \in Callers, WriteFile(c) PROVE LibraryInv'
  <2> DEFINE r == caller[c]
             q == [r EXCEPT !.at = "backup"]
  <2>1. r \in [at : {"write", "backup"}, p : Proposals, before : Text]
    BY <1>6 DEF WriteFile, LibraryInv, LibraryType, Calls, Idle
  <2>2. q \in Calls /\ HasBackup(q, backup)
    BY <2>1 DEF Calls, HasBackup
  <2>3. live' \in Directory
    BY <1>6, <2>1 DEF WriteFile, LibraryInv, LibraryType, Directory, Target, Text
  <2> QED BY <1>6, <2>2, <2>3, CallGoesOn DEF WriteFile, LibraryInv, LibraryType
<1>7. ASSUME NEW c \in Callers, WriteBackup(c) PROVE LibraryInv'
  <2> DEFINE r == caller[c]
             b == [before |-> r.before, after |-> live[Target(r.p)]]
             q == [at |-> "mark", p |-> r.p, expected |-> "accepted", to |-> "applied"]
  <2>1. r \in [at : {"write", "backup"}, p : Proposals, before : Text]
    BY <1>7 DEF WriteBackup, LibraryInv, LibraryType, Calls, Idle
  <2>2. b \in Backup /\ b # NONE
    <3>1. live[Target(r.p)] \in Text
      BY DEF LibraryInv, LibraryType, Directory, Target
    <3> QED BY <2>1, <3>1, NoneApart DEF Backup
  <2>3. q \in Calls
    BY <2>1 DEF Calls, ProposalStatus
  <2>4. /\ backup' = [backup EXCEPT ![r.p] = b] /\ UNCHANGED <<status, live, archive>>
        /\ caller' = [caller EXCEPT ![c] = q]
    BY <1>7 DEF WriteBackup, Moves
  <2>5. q.at = "mark" /\ q.p = r.p
    OBVIOUS
  <2> HIDE DEF r, b, q
  <2>6. \A p \in Proposals : backup'[p] = IF p = r.p THEN b ELSE backup[p]
    BY <2>4 DEF LibraryInv, LibraryType
  <2>7. LibraryType'
    BY <2>1, <2>2, <2>3, <2>4 DEF LibraryInv, LibraryType
  <2>8. AppliedReversible'
    BY <2>2, <2>4, <2>6 DEF LibraryInv, AppliedReversible
  <2>9. ASSUME NEW d \in Callers PROVE HasBackup(caller'[d], backup')
    <3>1. CASE d = c
      <4>1. caller'[d] = q
        BY <3>1, <2>4 DEF LibraryInv, LibraryType
      <4>2. backup'[q.p] # NONE
        BY <2>1, <2>2, <2>5, <2>6
      <4> QED BY <2>5, <4>1, <4>2 DEF HasBackup
    <3>2. CASE d # c
      <4>1. caller'[d] = caller[d] /\ caller[d] \in Calls
        BY <3>2, <2>4 DEF LibraryInv, LibraryType
      <4>2. caller[d].at \in {"set", "mark", "restore"} => caller[d].p \in Proposals
        BY <4>1 DEF Calls, Idle
      <4> QED BY <4>1, <4>2, <2>2, <2>6 DEF LibraryInv, HasBackup
    <3> QED BY <3>1, <3>2
  <2> QED BY <2>7, <2>8, <2>9 DEF LibraryInv
<1>8. ASSUME NEW c \in Callers, Restore(c) PROVE LibraryInv'
  <2> DEFINE r == caller[c]
             q == [at |-> "mark", p |-> r.p, expected |-> "applied", to |-> "rolled_back"]
  <2>1. r \in [at : {"restore"}, p : Proposals] /\ backup[r.p] # NONE
    <3>1. r \in [at : {"restore"}, p : Proposals]
      <4>1. r \in Calls /\ r.at = "restore"
        BY <1>8 DEF Restore, LibraryInv, LibraryType
      <4> QED BY <4>1 DEF Calls, Idle
    <3> QED BY <1>8, <3>1 DEF Restore, LibraryInv, HasBackup
  <2>2. q \in Calls /\ HasBackup(q, backup)
    BY <2>1 DEF Calls, HasBackup, ProposalStatus
  <2>3. backup[r.p].before \in Text
    BY <2>1 DEF LibraryInv, LibraryType, Backup
  <2>4. live' \in Directory
    <3>1. Target(r.p) \in {"document", "added"}
      BY DEF Target
    <3> QED BY <1>8, <2>3, <3>1 DEF Restore, LibraryInv, LibraryType, Directory
  <2> QED BY <1>8, <2>2, <2>4, CallGoesOn DEF Restore, LibraryInv, LibraryType
<1>9. ASSUME NEW c \in Callers, Mark(c) PROVE LibraryInv'
  <2>1. caller[c] \in [at : {"mark"}, p : Proposals, expected : ProposalStatus, to : ProposalStatus]
    BY <1>9 DEF Mark, LibraryInv, LibraryType, Calls, Idle
  <2>2. caller[c].to \in BackedUp => backup[caller[c].p] # NONE
    BY <1>9 DEF Mark, LibraryInv, HasBackup
  <2> QED BY <1>9, <2>1, <2>2, StatusRead DEF Mark
<1>10. ASSUME NEW c \in Callers,
              Report(c) \/ (\E to \in CatalogStates : Transition(c, to))
       PROVE  LibraryInv'
  <2>1. PICK r \in Calls : Moves(c, r) /\ HasBackup(r, backup)
    BY <1>10 DEF Report, Transition, Calls, HasBackup, CatalogStates
  <2> QED BY <1>10, <2>1, CallGoesOn DEF Report, Transition, LibraryInv, LibraryType
<1>11. ASSUME NEW c \in Callers, MoveDirectory(c) PROVE LibraryInv'
  <2> DEFINE q == [at |-> "save", to |-> caller[c].to]
  <2>1. q \in Calls /\ HasBackup(q, backup)
    BY <1>11 DEF MoveDirectory, LibraryInv, LibraryType, Calls, Idle, HasBackup
  <2>2. PICK r \in Calls : Moves(c, r) /\ HasBackup(r, backup)
    BY <1>11, <2>1, IdleCall DEF MoveDirectory
  <2>3. live' \in Directory /\ archive' \in Directory
    <3>1. {live', archive'} \subseteq {live, archive, Absent}
      BY <1>11 DEF MoveDirectory
    <3>2. {live, archive, Absent} \subseteq Directory
      BY DEF LibraryInv, LibraryType, Directory, Absent, Text
    <3> QED BY <3>1, <3>2
  <2>4. UNCHANGED <<status, backup>>
    BY <1>11 DEF MoveDirectory
  <2> QED BY <2>2, <2>3, <2>4, CallGoesOn
<1>12. ASSUME NEW c \in Callers, Truncate(c) PROVE LibraryInv'
  <2> DEFINE q == [caller[c] EXCEPT !.at = "saving"]
  <2>1. q \in Calls /\ HasBackup(q, backup)
    BY <1>12 DEF Truncate, LibraryInv, LibraryType, Calls, Idle, HasBackup
  <2> QED BY <1>12, <2>1, CallGoesOn DEF Truncate, LibraryInv, LibraryType
<1>13. ASSUME NEW c \in Callers, Save(c) \/ Stop(c) PROVE LibraryInv'
  BY <1>13, IdleCall, CallGoesOn DEF Save, Stop, LibraryInv, LibraryType
<1> QED
  BY <1>1, <1>2, <1>3, <1>4, <1>5, <1>6, <1>7, <1>8, <1>9, <1>10, <1>11, <1>12, <1>13
  DEF LibraryNext, CatalogStates

LEMMA LibraryStart == LibraryInit => LibraryInv
BY IdleCall DEF LibraryInit, LibraryInv, LibraryType, AppliedReversible, ProposalStatus,
     Directory, Absent, Text

\* However many callers apply, take back and review one proposal at a time or at
\* once, and wherever they stop: what is marked applied has its backup.
THEOREM AppliedReversibleAlways == LibrarySpec => []AppliedReversible
<1>1. LibraryInv /\ [LibraryNext]_libraryVars => LibraryInv'
  <2> SUFFICES ASSUME LibraryInv, UNCHANGED libraryVars PROVE LibraryInv'
    BY LibraryStep
  <2> QED
    BY DEF libraryVars, LibraryInv, LibraryType, AppliedReversible, HasBackup
<1>2. LibraryInv => AppliedReversible
  BY DEF LibraryInv
<1> QED BY <1>1, <1>2, LibraryStart, PTL DEF LibrarySpec

-----------------------------------------------------------------------------
(* The task board.                                                         *)

TaskState == {"absent", "triage", "todo", "ready", "running", "done", "blocked"}

BoardInv ==
  /\ state \in [Tasks -> TaskState]
  /\ waived \subseteq links
  /\ \A p, c \in Tasks : <<p, c>> \in links => state[p] # "absent" /\ state[c] # "absent"
  /\ DependenciesDone

\* Whatever makes the waiting tasks ready.
LEMMA RecomputeStep ==
  ASSUME BoardInv, recompute_ready
  PROVE  BoardInv'
<1>1. \A t \in Tasks :
        state'[t] = IF state[t] = "todo" /\ Unblocked(t) THEN "ready" ELSE state[t]
  BY DEF recompute_ready
<1>2. state' \in [Tasks -> TaskState]
  BY DEF recompute_ready, BoardInv, TaskState
<1>3. DependenciesDone'
  <2> SUFFICES ASSUME NEW p \in Tasks, NEW c \in Tasks,
                      <<p, c>> \in links \ waived, state'[c] \in Started
               PROVE  state'[p] = "done"
    BY DEF DependenciesDone, recompute_ready
  <2>1. state[p] = "done"
    BY <1>1 DEF BoardInv, DependenciesDone, Unblocked, Started
  <2> QED BY <1>1, <2>1
<1> QED BY <1>1, <1>2, <1>3 DEF BoardInv, recompute_ready

\* One task changes, and a task that is done stays done.
LEMMA TaskStep ==
  ASSUME BoardInv, NEW t \in Tasks, NEW s \in TaskState \ {"absent"},
         state' = [state EXCEPT ![t] = s], state[t] \in TaskState \ {"done"},
         links' = links, waived' \subseteq waived,
         \A p, c \in Tasks : <<p, c>> \in waived \ waived' => c = t,
         s \in Started =>
           \A p \in Tasks : <<p, t>> \in links \ waived' => state[p] = "done"
  PROVE  BoardInv'
<1>1. \A u \in Tasks : state'[u] = IF u = t THEN s ELSE state[u]
  BY DEF BoardInv
<1>2. state' \in [Tasks -> TaskState]
  BY DEF BoardInv
<1>3. DependenciesDone'
  <2> SUFFICES ASSUME NEW p \in Tasks, NEW c \in Tasks,
                      <<p, c>> \in links \ waived', state'[c] \in Started
               PROVE  state'[p] = "done"
    BY DEF DependenciesDone
  <2>1. state[p] = "done"
    <3>1. CASE c = t
      BY <1>1, <3>1
    <3>2. CASE c # t
      BY <1>1, <3>2 DEF BoardInv, DependenciesDone
    <3> QED BY <3>1, <3>2
  <2> QED BY <1>1, <2>1
<1> QED BY <1>1, <1>2, <1>3 DEF BoardInv

LEMMA BoardStep ==
  ASSUME BoardInv, BoardNext
  PROVE  BoardInv'
<1>1. ASSUME RecomputeReady \/ (\E w \in Workers : Finish(w)) PROVE BoardInv'
  BY <1>1, RecomputeStep DEF RecomputeReady, Finish
<1>2. ASSUME NEW t \in Tasks, NEW s \in {"triage", "todo", "ready", "blocked"}, CreateTask(t, s)
      PROVE  BoardInv'
  <2>1. \A p \in Tasks : <<p, t>> \notin links
    BY <1>2 DEF CreateTask, BoardInv
  <2>2. s \in TaskState \ {"absent"} /\ state[t] \in TaskState \ {"done"}
    BY <1>2 DEF CreateTask, TaskState
  <2> QED BY <1>2, <2>1, <2>2, TaskStep DEF CreateTask
<1>3. ASSUME NEW p \in Tasks, NEW c \in Tasks, LinkTasks(p, c) PROVE BoardInv'
  <2>1. links' = links \cup {<<p, c>>} /\ state' = state
        /\ waived' = IF state[c] \in Started THEN waived \cup {<<p, c>>} ELSE waived
    BY <1>3 DEF LinkTasks
  <2>2. \A q, d \in Tasks : <<q, d>> \in links' =>
          <<q, d>> \in links \/ (q = p /\ d = c)
    BY <2>1
  <2>3. DependenciesDone'
    BY <2>1, <2>2 DEF BoardInv, DependenciesDone
  <2> QED BY <1>3, <2>1, <2>2, <2>3 DEF BoardInv, LinkTasks
<1>4. ASSUME NEW w \in Workers, NEW t \in Tasks, Claim(w, t) \/ Complete(w, t) PROVE BoardInv'
  <2>1. PICK s \in {"running", "done"} :
          /\ state' = [state EXCEPT ![t] = s] /\ state[t] \in {"ready", "running"}
          /\ links' = links /\ waived' = waived
    BY <1>4 DEF Claim, Complete
  <2>2. \A p \in Tasks : <<p, t>> \in links \ waived' => state[p] = "done"
    BY <2>1 DEF BoardInv, DependenciesDone, Started
  <2>3. s \in TaskState \ {"absent"} /\ state[t] \in TaskState \ {"done"}
    BY <2>1 DEF TaskState
  <2> QED BY <2>1, <2>2, <2>3, TaskStep
<1>5. ASSUME NEW w \in Workers, NEW t \in Tasks,
             NEW kind \in {"dependency", "needs_input", "transient"}, Block(w, t, kind)
      PROVE  BoardInv'
  <2>1. state[t] = "running" /\ links' = links
    BY <1>5 DEF Block
  <2>2. CASE kind = "transient"
    <3>1. state' = [state EXCEPT ![t] = "ready"] /\ waived' = waived
      BY <1>5, <2>2 DEF Block
    <3>2. \A p \in Tasks : <<p, t>> \in links \ waived' => state[p] = "done"
      BY <2>1, <3>1 DEF BoardInv, DependenciesDone, Started
    <3>3. "ready" \in TaskState \ {"absent"} /\ state[t] \in TaskState \ {"done"}
      BY <2>1 DEF TaskState
    <3> QED BY <2>1, <3>1, <3>2, <3>3, TaskStep
  <2>3. CASE kind # "transient"
    <3>1. PICK s \in {"todo", "blocked"} : state' = [state EXCEPT ![t] = s]
      BY <1>5, <2>3 DEF Block
    <3>2. waived' = {l \in waived : l[2] # t}
      BY <1>5, <2>3 DEF Block
    <3>3. \A p, c \in Tasks : <<p, c>> \in waived \ waived' => c = t
      BY <3>2
    <3>4. s \in TaskState \ {"absent"} /\ state[t] \in TaskState \ {"done"} /\ s \notin Started
      BY <2>1 DEF TaskState, Started
    <3> QED BY <2>1, <3>1, <3>2, <3>3, <3>4, TaskStep
  <2> QED BY <2>2, <2>3
<1>6. ASSUME NEW w \in Workers, CrashFinishing(w) PROVE BoardInv'
  BY <1>6 DEF CrashFinishing, BoardInv, DependenciesDone
<1> QED BY <1>1, <1>2, <1>3, <1>4, <1>5, <1>6 DEF BoardNext

\* Whoever creates, links, claims, completes and blocks tasks, and crashes: a
\* task starts only after everything it waits for is done.
THEOREM DependenciesDoneAlways == BoardSpec => []DependenciesDone
<1>1. BoardInit => BoardInv
  BY DEF BoardInit, BoardInv, DependenciesDone, TaskState
<1>2. BoardInv /\ [BoardNext]_boardVars => BoardInv'
  <2> SUFFICES ASSUME BoardInv, UNCHANGED boardVars PROVE BoardInv'
    BY BoardStep
  <2> QED BY DEF boardVars, BoardInv, DependenciesDone
<1>3. BoardInv => DependenciesDone
  BY DEF BoardInv
<1> QED BY <1>1, <1>2, <1>3, PTL DEF BoardSpec
=============================================================================
