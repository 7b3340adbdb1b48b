-------------------------- MODULE ProcedureLibrary --------------------------
(* The procedure library (procedures/): proposals in a SQLite table, the     *)
(* files of one procedure, a backup per applied proposal, and the curator's  *)
(* catalog. apply and rollback change a file, a backup and a status one      *)
(* after the other, without a lock; a caller may stop between any two.       *)
EXTENDS Naturals

CONSTANTS
  Proposals,    \* proposals, one per review key; each stands for its own text
  ActionOf,     \* what each proposal does: "create", "update", "add"
  Expected,     \* the text whose hash an update names
  Callers,      \* processes that call the library
  NONE

Text == Proposals \cup {NONE}

\* NONE is no text and no backup.
ASSUME NoneApart == NONE \notin Proposals \cup [before : Text, after : Text]
ASSUME ActionsKnown == ActionOf \in [Proposals -> {"create", "update", "add"}]

VARIABLES
  status,     \* the proposals' rows
  live,       \* the procedure's directory: its document and its added file
  archive,    \* the same directory under .archive
  backup,     \* backup[p]: what p's target held before it and after
  catalog,    \* the procedure's state in procedure_catalog.json; "torn" is unreadable
  caller      \* the calls under way

libraryVars == <<status, live, archive, backup, catalog, caller>>

Absent == [exists |-> FALSE, document |-> NONE, added |-> NONE]
Idle == [at |-> "idle"]

LibraryInit ==
  /\ status = [p \in Proposals |-> "absent"]
  /\ live = Absent /\ archive = Absent
  /\ backup = [p \in Proposals |-> NONE]
  /\ catalog = "none"
  /\ caller = [c \in Callers |-> Idle]

Target(p) == IF ActionOf[p] = "add" THEN "added" ELSE "document"
Moves(c, r) == caller' = [caller EXCEPT ![c] = r]

(* ------------------------------ proposals -------------------------------- *)

\* create, a transaction: the row of a review key is inserted once.
Create(p) ==
  /\ status[p] = "absent"
  /\ status' = [status EXCEPT ![p] = "candidate"]
  /\ UNCHANGED <<live, archive, backup, catalog, caller>>

\* A status is read, compared and then written whatever it is by then.
ReadStatus(c, p, expected, to) ==
  IF status[p] = expected THEN Moves(c, [at |-> "set", p |-> p, to |-> to])
                          ELSE Moves(c, Idle)

Review(c, p, to) ==
  /\ caller[c] = Idle /\ status[p] # "absent" /\ to \in {"accepted", "rejected"}
  /\ ReadStatus(c, p, "candidate", to)
  /\ UNCHANGED <<status, live, archive, backup, catalog>>

SetStatus(c) ==
  /\ caller[c].at = "set"
  /\ status' = [status EXCEPT ![caller[c].p] = caller[c].to]
  /\ Moves(c, Idle)
  /\ UNCHANGED <<live, archive, backup, catalog>>

(* -------------------------- apply and rollback --------------------------- *)

\* A new document must not exist, an updated one must be what was reviewed.
Applicable(p) ==
  CASE ActionOf[p] = "create" -> live.document = NONE
    [] ActionOf[p] = "update" -> live.document # NONE /\ live.document = Expected[p]
    [] ActionOf[p] = "add"    -> TRUE

Apply(c, p) ==
  /\ caller[c] = Idle /\ status[p] = "accepted" /\ Applicable(p)
  /\ Moves(c, [at |-> "write", p |-> p, before |-> live[Target(p)]])
  /\ UNCHANGED <<status, live, archive, backup, catalog>>

WriteFile(c) ==
  /\ caller[c].at = "write"
  /\ live' = [live EXCEPT !.exists = TRUE, ![Target(caller[c].p)] = caller[c].p]
  /\ Moves(c, [caller[c] EXCEPT !.at = "backup"])
  /\ UNCHANGED <<status, archive, backup, catalog>>

\* bug: a file that did not exist needs no backup
WriteBackupOfExisting(c) ==
  /\ caller[c].at = "backup"
  /\ backup' = IF caller[c].before = NONE THEN backup
               ELSE [backup EXCEPT ![caller[c].p] =
                       [before |-> caller[c].before, after |-> live[Target(caller[c].p)]]]
  /\ Moves(c, [at |-> "mark", p |-> caller[c].p, expected |-> "accepted", to |-> "applied"])
  /\ UNCHANGED <<status, live, archive, catalog>>
WriteBackup(c) ==
  /\ caller[c].at = "backup"
  /\ backup' = [backup EXCEPT ![caller[c].p] =
                  [before |-> caller[c].before, after |-> live[Target(caller[c].p)]]]
  /\ Moves(c, [at |-> "mark", p |-> caller[c].p, expected |-> "accepted", to |-> "applied"])
  /\ UNCHANGED <<status, live, archive, catalog>>

\* bug: the file is taken to be as the application left it
RollbackBlind(c, p) ==
  /\ caller[c] = Idle /\ status[p] = "applied" /\ backup[p] # NONE
  /\ Moves(c, [at |-> "restore", p |-> p])
  /\ UNCHANGED <<status, live, archive, backup, catalog>>
Rollback(c, p) ==
  /\ caller[c] = Idle /\ status[p] = "applied" /\ backup[p] # NONE
  /\ live[Target(p)] = backup[p].after
  /\ Moves(c, [at |-> "restore", p |-> p])
  /\ UNCHANGED <<status, live, archive, backup, catalog>>

\* The directory stays when its last file is removed.
Restore(c) ==
  /\ caller[c].at = "restore"
  /\ LET p == caller[c].p
     IN /\ live' = [live EXCEPT ![Target(p)] = backup[p].before,
                                !.exists = @ \/ backup[p].before # NONE]
        /\ Moves(c, [at |-> "mark", p |-> p, expected |-> "applied", to |-> "rolled_back"])
  /\ UNCHANGED <<status, archive, backup, catalog>>

\* mark_applied and mark_rolled_back read the status once more.
Mark(c) ==
  /\ caller[c].at = "mark"
  /\ ReadStatus(c, caller[c].p, caller[c].expected, caller[c].to)
  /\ UNCHANGED <<status, live, archive, backup, catalog>>

(* ------------------------------ the curator ------------------------------ *)

\* report enters a procedure that has a document into the catalog.
Report(c) ==
  /\ caller[c] = Idle /\ catalog = "none" /\ live.document # NONE
  /\ Moves(c, [at |-> "save", to |-> "active"])
  /\ UNCHANGED <<status, live, archive, backup, catalog>>

\* apply of a planned change: by age to stale or archived, by use back to active.
Transition(c, to) ==
  /\ caller[c] = Idle /\ catalog \in {"active", "stale", "archived"} \ {to}
  /\ CASE to = "archived" -> live.exists /\ ~archive.exists
       [] to = "active" /\ catalog = "archived" -> archive.exists /\ ~live.exists
       [] OTHER -> TRUE
  /\ Moves(c, [at |-> IF to = "archived" THEN "archive"
                      ELSE IF to = "active" /\ catalog = "archived" THEN "unarchive" ELSE "save",
               to |-> to])
  /\ UNCHANGED <<status, live, archive, backup, catalog>>

\* os.rename refuses a directory that is gone or a target that is not empty.
MoveDirectory(c) ==
  /\ caller[c].at \in {"archive", "unarchive"}
  /\ IF caller[c].at = "archive" /\ live.exists /\ ~archive.exists
     THEN archive' = live /\ live' = Absent /\ Moves(c, [at |-> "save", to |-> caller[c].to])
     ELSE IF caller[c].at = "unarchive" /\ archive.exists /\ ~live.exists
     THEN live' = archive /\ archive' = Absent /\ Moves(c, [at |-> "save", to |-> caller[c].to])
     ELSE Moves(c, Idle) /\ UNCHANGED <<live, archive>>
  /\ UNCHANGED <<status, backup, catalog>>

\* The catalog is truncated and then written.
Truncate(c) ==
  /\ caller[c].at = "save"
  /\ catalog' = "torn"
  /\ Moves(c, [caller[c] EXCEPT !.at = "saving"])
  /\ UNCHANGED <<status, live, archive, backup>>
Save(c) ==
  /\ caller[c].at = "saving"
  /\ catalog' = caller[c].to
  /\ Moves(c, Idle)
  /\ UNCHANGED <<status, live, archive, backup>>

\* A call fails or its process is killed, wherever it is.
Stop(c) ==
  /\ caller[c] # Idle
  /\ Moves(c, Idle)
  /\ UNCHANGED <<status, live, archive, backup, catalog>>

LibraryNext ==
  \/ \E p \in Proposals : Create(p)
  \/ \E c \in Callers :
       \/ \E p \in Proposals :
            \/ Apply(c, p)
            \/ Rollback(c, p)
            \/ \E to \in {"accepted", "rejected"} : Review(c, p, to)
       \/ SetStatus(c) \/ WriteFile(c) \/ WriteBackup(c) \/ Restore(c) \/ Mark(c)
       \/ Report(c) \/ MoveDirectory(c) \/ Truncate(c) \/ Save(c) \/ Stop(c)
       \/ \E to \in {"active", "stale", "archived"} : Transition(c, to)

LibrarySpec == LibraryInit /\ [][LibraryNext]_libraryVars

(* ------------------------------ properties ------------------------------- *)

\* An applied proposal has a backup that is its own: whatever apply did before
\* it stopped or raised, a status that says "applied" can be rolled back.
AppliedReversible ==
  \A p \in Proposals : status[p] \in {"applied", "rolled_back"} => backup[p] # NONE

\* The procedure's document is one that was accepted and not taken back: no
\* rollback brings back the text of a proposal that was itself rolled back,
\* with calls that stop anywhere, retries, archiving and restoring between.
\* It needs callers that do not overlap: two of them can save as "before" what
\* the other is undoing.
DocumentStands ==
  live.document # NONE => status[live.document] \in {"accepted", "applied"}
=============================================================================
