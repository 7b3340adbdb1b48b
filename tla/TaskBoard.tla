----------------------------- MODULE TaskBoard -----------------------------
(* The Kanban board (delegation/tasks.py): every operation is one SQLite    *)
(* transaction, except complete, which commits the task and then makes the  *)
(* tasks ready that waited for it in a transaction of its own.              *)
EXTENDS Naturals

CONSTANTS
  Tasks,
  Workers,     \* the owners that claim tasks
  FREE         \* no owner

ASSUME FreeApart == FREE \notin Workers

VARIABLES
  state,      \* state[t]: the column status, "absent" before the insert
  owner,      \* owner[t]: the column claim_owner
  links,      \* the pairs <<parent, child>>
  waived,     \* history: the links a child did not wait for when it became ready
  finishing   \* the workers between the two transactions of complete

boardVars == <<state, owner, links, waived, finishing>>

Started == {"ready", "running", "done"}

BoardInit ==
  /\ state = [t \in Tasks |-> "absent"]
  /\ owner = [t \in Tasks |-> FREE]
  /\ links = {} /\ waived = {} /\ finishing = {}

CreateTask(t, s) ==
  /\ state[t] = "absent" /\ s \in {"triage", "todo", "ready", "blocked"}
  /\ state' = [state EXCEPT ![t] = s]
  /\ UNCHANGED <<owner, links, waived, finishing>>

\* Nothing is asked of the child, nor that the links make no cycle.
LinkTasks(p, c) ==
  /\ p # c /\ state[p] # "absent" /\ state[c] # "absent" /\ <<p, c>> \notin links
  /\ links' = links \union {<<p, c>>}
  /\ waived' = IF state[c] \in Started THEN waived \union {<<p, c>>} ELSE waived
  /\ UNCHANGED <<state, owner, finishing>>

\* bug: one finished parent is enough
UnblockedByAny(t) ==
  \/ \A p \in Tasks : <<p, t>> \notin links
  \/ \E p \in Tasks : <<p, t>> \in links /\ state[p] = "done"
Unblocked(t) == \A p \in Tasks : <<p, t>> \in links => state[p] = "done"

recompute_ready ==
  /\ state' = [t \in Tasks |-> IF state[t] = "todo" /\ Unblocked(t) THEN "ready" ELSE state[t]]
  /\ UNCHANGED <<owner, links, waived>>

RecomputeReady == recompute_ready /\ UNCHANGED finishing

\* Which of the ready tasks is a matter of priority and age.
Claim(w, t) ==
  /\ state[t] = "ready" /\ owner[t] = FREE
  /\ state' = [state EXCEPT ![t] = "running"]
  /\ owner' = [owner EXCEPT ![t] = w]
  /\ UNCHANGED <<links, waived, finishing>>

Complete(w, t) ==
  /\ state[t] = "running" /\ owner[t] = w /\ w \notin finishing
  /\ state' = [state EXCEPT ![t] = "done"]
  /\ owner' = [owner EXCEPT ![t] = FREE]
  /\ finishing' = finishing \union {w}
  /\ UNCHANGED <<links, waived>>
Finish(w) == w \in finishing /\ recompute_ready /\ finishing' = finishing \ {w}
CrashFinishing(w) ==
  /\ w \in finishing /\ finishing' = finishing \ {w}
  /\ UNCHANGED <<state, owner, links, waived>>

\* A task that goes back waits for all of its links again.
Block(w, t, kind) ==
  /\ state[t] = "running" /\ owner[t] = w
  /\ state' = [state EXCEPT ![t] = CASE kind = "dependency" -> "todo"
                                     [] kind = "transient" -> "ready"
                                     [] OTHER -> "blocked"]
  /\ owner' = [owner EXCEPT ![t] = FREE]
  /\ waived' = IF kind = "transient" THEN waived ELSE {l \in waived : l[2] # t}
  /\ UNCHANGED <<links, finishing>>

BoardNext ==
  \/ RecomputeReady
  \/ \E t \in Tasks, s \in {"triage", "todo", "ready", "blocked"} : CreateTask(t, s)
  \/ \E p, c \in Tasks : LinkTasks(p, c)
  \/ \E w \in Workers :
       \/ Finish(w) \/ CrashFinishing(w)
       \/ \E t \in Tasks :
            \/ Claim(w, t) \/ Complete(w, t)
            \/ \E kind \in {"dependency", "needs_input", "transient"} : Block(w, t, kind)

BoardSpec == BoardInit /\ [][BoardNext]_boardVars

\* A task is ready, runs or is done only when every task it waits for is done,
\* whoever completed, blocked, claimed or linked in between. It does not wait
\* for a link that was added after it had become ready.
DependenciesDone ==
  \A p, c \in Tasks :
    <<p, c>> \in links \ waived /\ state[c] \in Started => state[p] = "done"
=============================================================================
