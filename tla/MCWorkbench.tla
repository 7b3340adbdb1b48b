---------------------------- MODULE MCWorkbench ----------------------------
(* The procedure library and the task board. They share no variable, so     *)
(* their states are not multiplied: each runs while the other has not       *)
(* begun. A document is created, updated, archived, created anew and given  *)
(* a file.                                                                   *)
EXTENDS ProcedureLibrary, TaskBoard, TLC

CONSTANTS create1, create2, update, add

MCActionOf == (create1 :> "create") @@ (create2 :> "create") @@ (update :> "update")
                @@ (add :> "add")
MCExpected == [p \in Proposals |-> create1]

Init == LibraryInit /\ BoardInit

Next ==
  \/ LibraryNext /\ BoardInit /\ UNCHANGED boardVars
  \/ BoardNext /\ LibraryInit /\ UNCHANGED libraryVars

Spec == Init /\ [][Next]_<<libraryVars, boardVars>>
=============================================================================
