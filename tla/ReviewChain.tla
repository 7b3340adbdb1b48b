---------------------------- MODULE ReviewChain ----------------------------
(* Publication of learning chains (learning_loop/persistence.py) and the      *)
(* human decisions about them (human_review/review_store.py) in one state     *)
(* directory. A chain is published artifact by artifact, the request for a    *)
(* decision last; a decision is a write-once slot file that a hard link puts  *)
(* in place. There is no lock: reviewers decide, show and list while the      *)
(* writer publishes, and every one of them may fail or be killed anywhere.    *)
EXTENDS LearningChain, Functions

CONSTANTS
  Chains,       \* the chains a caller may persist
  Input,        \* Input[c]: the experiment bundle or the enriched evaluation c comes from
  Callers,      \* processes that decide, show and list
  Commands,     \* the decisions they may ask for: seq, action, operator
  None,         \* an empty slot
  MaxPersists, MaxCalls, MaxFaults   \* bounds on first writes, calls, failures and crashes

\* decide accepts these actions for a first or a second decision; evaluate reads
\* a bundle whose records are a list.
ASSUME ReviewAssumption ==
  /\ None \notin Commands
  /\ \A d \in Commands : d.seq \in {1, 2} /\ d.action \in {"accept", "reject", "revise", "defer"}
  /\ \A c \in Chains :
       /\ Input[c].from \in {"bundle", "caller"}
       /\ Input[c].from = "bundle" =>
            Input[c].bundle.records \in Seq(Range(Input[c].bundle.records))

VARIABLES
  disk,       \* disk[c]: the artifacts of chain c that are linked in place
  temps,      \* temporary files: of the writer by directory, of a caller by its name
  queueDir, decisionsDir,   \* the directories review_queue/ and decisions/ exist
  slots,      \* slots[c][seq]: the decision file of request c
  writer,     \* the one process that persists or resumes
  caller,     \* the processes in ReviewStore
  used        \* how much of the bounds is used up

vars == <<disk, temps, queueDir, decisionsDir, slots, writer, caller, used>>

\* The enriched evaluation of each chain, and the artifacts expected of it.
Content == [c \in Chains |->
              IF Input[c].from = "bundle"
              THEN Enriched(build_utility_evaluation(Input[c].bundle))
              ELSE Input[c].enriched]
Plan == [c \in Chains |-> ExpectedChain(Content[c])]

Seqs == {1, 2}
Stages == {"pending", "deferred", "accepted", "rejected", "revised"}

\* reduce_state, of the decision events that were read (None where none was).
Verdict(d) == CASE d.action = "accept" -> "accepted" [] d.action = "reject" -> "rejected"
                [] d.action = "revise" -> "revised"  [] d.action = "defer"  -> "deferred"
reduce_state(e) ==
  CASE e[1] = None /\ e[2] = None -> "pending"
    [] e[1] = None /\ e[2] # None -> "malformed"
    [] e[1] # None /\ e[2] = None -> Verdict(e[1])
    [] e[1] # None /\ e[2] # None ->
         IF e[1].action # "defer" \/ e[2].action = "defer" THEN "malformed" ELSE Verdict(e[2])

Stage(c) == reduce_state(slots[c])
Published(c) == {n \in Seqs : slots[c][n] # None}

(* ---------------------------- the writer -------------------------------- *)

Resting == [at |-> "idle", chain |-> None, item |-> None]

\* The directory an artifact is linked into: the chain's own, or the queue.
DirOf(c, a) == IF a = "Q" THEN "queue" ELSE c

\* persist_learning_chain: gates and producers run before anything is written.
PersistLearningChain(c) ==
  /\ writer.at = "idle" /\ used.persists < MaxPersists
  /\ Input[c].from = "bundle" => BundleAccepted(Input[c].bundle)
  /\ Plan[c] # <<>>
  /\ writer' = [at |-> "preflight", chain |-> c, item |-> None]
  /\ used' = [used EXCEPT !.persists = @ + 1]
  /\ UNCHANGED <<disk, temps, queueDir, decisionsDir, slots, caller>>

\* resume_learning_chain: the plan is made again from the E that is on disk.
ResumeLearningChain(c) ==
  /\ writer.at = "idle" /\ "E" \in disk[c]
  /\ writer' = [at |-> "preflight", chain |-> c, item |-> None]
  /\ UNCHANGED <<disk, temps, queueDir, decisionsDir, slots, caller, used>>

\* bug: the chain's own directory is not cleaned up
CleanupShared(c) == temps \ {"root", "queue"}
CleanupTemps(c) == temps \ {"root", "queue", c}

\* No artifact without those before it, and no request where none is due.
StrictPrefix(c) ==
  /\ \A i, j \in DOMAIN Plan[c] : i < j /\ Plan[c][j] \in disk[c] => Plan[c][i] \in disk[c]
  /\ disk[c] \subseteq Range(Plan[c])

\* _preflight: temporary files of an earlier attempt go; anything else that is
\* not expected in the chain's directory is an error.
Preflight ==
  LET c == writer.chain IN
  /\ writer.at = "preflight"
  /\ temps' = CleanupTemps(c)
  /\ writer' = IF c \in temps' \/ ~StrictPrefix(c) THEN Resting
               ELSE [writer EXCEPT !.at = "probe"]
  /\ UNCHANGED <<disk, queueDir, decisionsDir, slots, caller, used>>

\* _capability_probe writes, links and removes a probe in the root directory.
Probe ==
  /\ writer.at = "probe" /\ writer' = [writer EXCEPT !.at = "next"]
  /\ UNCHANGED <<disk, temps, queueDir, decisionsDir, slots, caller, used>>

\* The artifacts that are missing, of which the first is due.
Missing(c) == {i \in DOMAIN Plan[c] : Plan[c][i] \notin disk[c]}
Due(c, i) == i \in Missing(c) /\ \A j \in Missing(c) : i <= j

\* The next missing artifact: its directory is made, its temporary file written.
WriteArtifact ==
  LET c == writer.chain IN
  /\ writer.at = "next"
  /\ \E i \in DOMAIN Plan[c] :
       /\ Due(c, i)
       /\ queueDir' = (queueDir \/ Plan[c][i] = "Q")
       /\ temps' = temps \cup {DirOf(c, Plan[c][i])}
       /\ writer' = [writer EXCEPT !.at = "link", !.item = Plan[c][i]]
  /\ UNCHANGED <<disk, decisionsDir, slots, caller, used>>

\* os.link puts it in place; nothing is ever replaced.
LinkArtifact ==
  /\ writer.at = "link"
  /\ disk' = [disk EXCEPT ![writer.chain] = @ \cup {writer.item}]
  /\ writer' = [writer EXCEPT !.at = "unlink"]
  /\ UNCHANGED <<temps, queueDir, decisionsDir, slots, caller, used>>

UnlinkTemp ==
  /\ writer.at = "unlink"
  /\ temps' = temps \ {DirOf(writer.chain, writer.item)}
  /\ writer' = [writer EXCEPT !.at = "next", !.item = None]
  /\ UNCHANGED <<disk, queueDir, decisionsDir, slots, caller, used>>

ChainDone ==
  /\ writer.at = "next" /\ Missing(writer.chain) = {} /\ writer' = Resting
  /\ UNCHANGED <<disk, temps, queueDir, decisionsDir, slots, caller, used>>

\* An OSError or a crash: either way the temporary file stays, also the probe's.
WriterStops ==
  /\ writer.at # "idle" /\ used.faults < MaxFaults
  /\ writer' = Resting
  /\ temps' = temps \cup (IF writer.at = "probe" THEN {"root"} ELSE {})
  /\ used' = [used EXCEPT !.faults = @ + 1]
  /\ UNCHANGED <<disk, queueDir, decisionsDir, slots, caller>>

WriterNext ==
  \/ \E c \in Chains : PersistLearningChain(c) \/ ResumeLearningChain(c)
  \/ Preflight \/ Probe \/ WriteArtifact \/ LinkArtifact \/ UnlinkTemp \/ ChainDone
  \/ WriterStops

(* --------------------------- the reviewers ------------------------------ *)

NoCommand == [seq |-> 0, action |-> "none", by |-> None]
AllPending == [c \in Chains |-> "pending"]
Nothing == [c \in Chains |-> {}]
NotYet == [c \in Chains |-> "absent"]
Standing(c) == IF "Q" \in disk[c] THEN Stage(c) ELSE "absent"

\* low: the slots a directory listing began with; since: how each request stood when
\* the call began; seen: the stages it read; reply: what it returned.
Returned(r, reply, seen) ==
  [at |-> "idle", op |-> caller[r].op, chain |-> caller[r].chain, cmd |-> caller[r].cmd,
   queue |-> FALSE, decisions |-> FALSE, again |-> FALSE, low |-> Nothing,
   since |-> caller[r].since, seen |-> seen, reply |-> reply]

Reply(r, reply) == caller' = [caller EXCEPT ![r] = Returned(r, reply, AllPending)]

Call(r, op, c, cmd, at) ==
  /\ caller[r].at = "idle" /\ used.calls < MaxCalls
  /\ used' = [used EXCEPT !.calls = @ + 1]
  /\ caller' = [caller EXCEPT ![r] =
       [at |-> at, op |-> op, chain |-> c, cmd |-> cmd, queue |-> FALSE,
        decisions |-> FALSE, again |-> FALSE, low |-> Nothing,
        since |-> [x \in Chains |-> Standing(x)], seen |-> AllPending, reply |-> "none"]]
  /\ UNCHANGED <<disk, temps, queueDir, decisionsDir, slots, writer>>

OnlyCaller == UNCHANGED <<disk, temps, queueDir, decisionsDir, slots, writer, used>>

\* _validate_frozen_review_chain: the request, its three sources, and the
\* request rebuilt from them.
ChainValid(c) == "Q" \in disk[c] /\ {"E", "R", "El"} \subseteq disk[c]

\* decide: arguments and chain are checked first.
Decide(r, c, cmd) ==
  /\ "Q" \in disk[c] => ChainValid(c)
  /\ Call(r, "decide", c, cmd, IF "Q" \in disk[c] THEN "namespace" ELSE "missing")

\* _decision_namespace, then _read_events opens the directory if there is one.
OpenNamespace(r) ==
  LET me == caller[r] IN
  /\ me.at \in {"namespace", "missing"}
  /\ IF decisionsDir
     THEN caller' = [caller EXCEPT ![r].at = IF me.at = "missing" THEN "orphans" ELSE "scan",
                                   ![r].low = [Nothing EXCEPT ![me.chain] = Published(me.chain)]]
     ELSE IF me.at = "missing" THEN Reply(r, "missing")
     ELSE IF me.cmd.seq = 1 THEN caller' = [caller EXCEPT ![r].at = "publish"]
     ELSE Reply(r, "refused")
  /\ OnlyCaller

\* A listing returns every name that was there when it began and any of those
\* that were added since; the files it names are then read, 2 before 1.
Listed(r, c, names) == caller[r].low[c] \subseteq names /\ names \subseteq Published(c)
Read(c, names) == [n \in Seqs |-> IF n \in names THEN slots[c][n] ELSE None]

\* bug: a second decision does not depend on the first
AllowedTwice(cmd, stage) == IF cmd.seq = 1 THEN stage = "pending" ELSE cmd.action # "defer"
\* What decide does with the events it read: compare, refuse or publish.
Allowed(cmd, stage) ==
  IF cmd.seq = 1 THEN stage = "pending" ELSE stage = "deferred" /\ cmd.action # "defer"

Judge(r, e) ==
  LET me == caller[r] IN
  CASE reduce_state(e) = "malformed"                             -> Reply(r, "malformed")
    [] reduce_state(e) # "malformed" /\ e[me.cmd.seq] = me.cmd   -> Reply(r, "idempotent")
    [] reduce_state(e) # "malformed" /\ e[me.cmd.seq] \notin {None, me.cmd}
                                                                 -> Reply(r, "conflict")
    [] reduce_state(e) # "malformed" /\ e[me.cmd.seq] = None     ->
         IF Allowed(me.cmd, reduce_state(e))
         THEN caller' = [caller EXCEPT ![r].at = "publish", ![r].low = Nothing]
         ELSE Reply(r, "refused")

ReadDecision(r) ==
  LET c == caller[r].chain IN
  /\ caller[r].at = "scan" /\ caller[r].op = "decide"
  /\ \E names \in SUBSET Seqs : Listed(r, c, names) /\ Judge(r, Read(c, names))
  /\ OnlyCaller

\* _raise_missing_request: decisions without a request are an orphan.
ReadMissing(r) ==
  LET c == caller[r].chain IN
  /\ caller[r].at = "orphans"
  /\ \E names \in SUBSET Seqs : Listed(r, c, names) /\
       Reply(r, CASE names = {} -> "missing"
                  [] names # {} /\ reduce_state(Read(c, names)) = "malformed" -> "malformed"
                  [] OTHER -> "orphan")
  /\ OnlyCaller

\* _bootstrap_decisions and _write_temp.
WriteTemp(r) ==
  /\ caller[r].at = "publish"
  /\ decisionsDir' = TRUE /\ temps' = temps \cup {r}
  /\ caller' = [caller EXCEPT ![r].at = "link"]
  /\ UNCHANGED <<disk, queueDir, slots, writer, used>>

\* bug: os.replace instead of os.link
ReplaceSlot(r) ==
  LET me == caller[r] IN
  /\ me.at = "link"
  /\ slots' = [slots EXCEPT ![me.chain][me.cmd.seq] = me.cmd]
  /\ caller' = [caller EXCEPT ![r].at = "confirm"]
  /\ UNCHANGED <<disk, temps, queueDir, decisionsDir, writer, used>>

\* os.link either creates the slot or finds it taken; then the loser reads again.
LinkSlot(r) ==
  LET me == caller[r] IN
  /\ me.at = "link"
  /\ IF slots[me.chain][me.cmd.seq] = None
     THEN /\ slots' = [slots EXCEPT ![me.chain][me.cmd.seq] = me.cmd]
          /\ caller' = [caller EXCEPT ![r].at = "confirm"]
          /\ UNCHANGED temps
     ELSE /\ temps' = temps \ {r}
          /\ caller' = [caller EXCEPT ![r].at = "scan",
                          ![r].low = [Nothing EXCEPT ![me.chain] = Published(me.chain)]]
          /\ UNCHANGED slots
  /\ UNCHANGED <<disk, queueDir, decisionsDir, writer, used>>

\* The temporary file is removed, the directory synced, the slot read back.
Confirm(r) ==
  LET me == caller[r] IN
  /\ me.at = "confirm" /\ temps' = temps \ {r}
  /\ Reply(r, IF slots[me.chain][me.cmd.seq] = me.cmd THEN "published" ELSE "failed")
  /\ UNCHANGED <<disk, queueDir, decisionsDir, slots, writer, used>>

\* show looks for the two directories before it validates the chain.
Show(r, c) == Call(r, "show", c, NoCommand, "directories")

ShowDirectories(r) ==
  LET c == caller[r].chain IN
  /\ caller[r].at = "directories"
  /\ IF ~queueDir THEN Reply(r, "missing")
     ELSE caller' = [caller EXCEPT ![r].at = "validate", ![r].decisions = decisionsDir,
                                   ![r].low = [Nothing EXCEPT ![c] = Published(c)]]
  /\ OnlyCaller

ShowChain(r) ==
  /\ caller[r].at = "validate"
  /\ IF ~ChainValid(caller[r].chain) THEN Reply(r, "missing")
     ELSE IF ~caller[r].decisions THEN Reply(r, "shown")
     ELSE caller' = [caller EXCEPT ![r].at = "scan"]
  /\ OnlyCaller

ShowEvents(r) ==
  LET c == caller[r].chain IN
  /\ caller[r].at = "scan" /\ caller[r].op = "show"
  /\ \E names \in SUBSET Seqs :
       LET stage == reduce_state(Read(c, names)) IN
       /\ Listed(r, c, names)
       /\ IF stage = "malformed" THEN Reply(r, "malformed")
          ELSE caller' = [caller EXCEPT ![r] =
                            Returned(r, "shown", [AllPending EXCEPT ![c] = stage])]
  /\ OnlyCaller

\* list looks at the queue's directory, then at that of the decisions,
ListAll(r) == Call(r, "list", None, NoCommand, "queue")

GateQueue(r) ==
  /\ caller[r].at = "queue"
  /\ caller' = [caller EXCEPT ![r].at = "decisions", ![r].queue = queueDir]
  /\ OnlyCaller

\* reads the decisions first,
GateDecisions(r) ==
  /\ caller[r].at = "decisions"
  /\ caller' = IF decisionsDir
               THEN [caller EXCEPT ![r].at = "collect",
                                   ![r].low = [c \in Chains |-> Published(c)]]
               ELSE [caller EXCEPT ![r].at = "requests", ![r].seen = AllPending]
  /\ OnlyCaller

CollectDecisions(r) ==
  /\ caller[r].at = "collect"
  /\ \E names \in [Chains -> SUBSET Seqs] :
       /\ \A c \in Chains : Listed(r, c, names[c])
       /\ caller' = [caller EXCEPT ![r].at = "requests", ![r].low = Nothing,
                       ![r].seen = [c \in Chains |-> reduce_state(Read(c, names[c]))]]
  /\ OnlyCaller

\* and the requests after them; what looks like an orphan is looked at once more.
RequestsSeen(r) == IF caller[r].queue THEN {c \in Chains : "Q" \in disk[c]} ELSE {}

\* bug: no second look
CollectRequestsOnce(r) ==
  LET me      == caller[r]
      orphans == {c \in Chains : me.seen[c] # "pending"} \ RequestsSeen(r)
      shown   == [c \in Chains |-> IF c \in RequestsSeen(r) THEN me.seen[c] ELSE "absent"]
  IN  /\ me.at = "requests"
      /\ caller' = [caller EXCEPT ![r] =
           IF orphans # {} THEN Returned(r, "orphan", AllPending) ELSE Returned(r, "listed", shown)]
      /\ OnlyCaller

CollectRequests(r) ==
  LET me      == caller[r]
      orphans == {c \in Chains : me.seen[c] # "pending"} \ RequestsSeen(r)
      shown   == [c \in Chains |-> IF c \in RequestsSeen(r) THEN me.seen[c] ELSE "absent"]
  IN  /\ me.at = "requests"
      /\ CASE orphans # {} /\ ~me.again ->
                caller' = [caller EXCEPT ![r].at = "queue", ![r].again = TRUE,
                                         ![r].seen = AllPending]
           [] orphans # {} /\ me.again -> Reply(r, "orphan")
           [] orphans = {} ->
                caller' = [caller EXCEPT ![r] =
                  IF \E c \in Chains : shown[c] = "malformed"
                  THEN Returned(r, "malformed", AllPending) ELSE Returned(r, "listed", shown)]
      /\ OnlyCaller

\* An OSError is reported and the caller's temporary file removed; a crash leaves it.
CallerStops(r) ==
  /\ caller[r].at # "idle" /\ used.faults < MaxFaults
  /\ used' = [used EXCEPT !.faults = @ + 1]
  /\ Reply(r, "failed")
  /\ temps' \in {temps, temps \ {r}}
  /\ UNCHANGED <<disk, queueDir, decisionsDir, slots, writer>>

CallerNext(r) ==
  \/ \E c \in Chains : Show(r, c) \/ \E cmd \in Commands : Decide(r, c, cmd)
  \/ OpenNamespace(r) \/ ReadDecision(r) \/ ReadMissing(r)
  \/ WriteTemp(r) \/ LinkSlot(r) \/ Confirm(r)
  \/ ShowDirectories(r) \/ ShowChain(r) \/ ShowEvents(r)
  \/ ListAll(r) \/ GateQueue(r) \/ GateDecisions(r) \/ CollectDecisions(r) \/ CollectRequests(r)
  \/ CallerStops(r)

Init ==
  /\ disk = [c \in Chains |-> {}] /\ temps = {}
  /\ queueDir = FALSE /\ decisionsDir = FALSE
  /\ slots = [c \in Chains |-> [n \in Seqs |-> None]]
  /\ writer = Resting
  /\ caller = [r \in Callers |->
       [at |-> "idle", op |-> "none", chain |-> None, cmd |-> NoCommand, queue |-> FALSE,
        decisions |-> FALSE, again |-> FALSE, low |-> Nothing, since |-> NotYet,
        seen |-> AllPending, reply |-> "none"]]
  /\ used = [persists |-> 0, calls |-> 0, faults |-> 0]

Next == WriterNext \/ \E r \in Callers : CallerNext(r)

Spec == Init /\ [][Next]_vars

(* ---------------------------- properties -------------------------------- *)

\* The decisions taken, in the order of their slots.
Taken(e) ==
  CASE e[1] = None /\ e[2] = None -> <<>>
    [] e[1] # None /\ e[2] = None -> <<e[1]>>
    [] e[1] = None /\ e[2] # None -> <<e[2]>>
    [] e[1] # None /\ e[2] # None -> <<e[1], e[2]>>

\* The slots and requests implement a register in which a request is decided
\* once, or deferred and then decided, and nothing is ever changed
\* (ReviewStore.decide, _publish).
Register == INSTANCE DecisionRegister WITH
  Requests <- Chains, Orders <- Commands,
  open <- {c \in Chains : "Q" \in disk[c]},
  history <- [c \in Chains |-> Taken(slots[c])]
ImplementsRegister == Register!Spec

\* Whoever was told that his decision is recorded, published or found, has it in
\* its slot from then on; so two callers with different decisions are never
\* both told so (_publish, _compare_existing, _compare_after_link_race).
AnswersHold ==
  \A r \in Callers : caller[r].reply \in {"published", "idempotent"} =>
    slots[caller[r].chain][caller[r].cmd.seq] = caller[r].cmd

\* What show and list return is how each request stood at some moment of the call,
\* although directories, names and files are read one after the other: never a stage
\* it had left before the call began, and no request missing from the list that was
\* there by then.  And list never takes a request that is just being published for a
\* missing one (show, list).
Asked(standing) == IF standing = "absent" THEN "pending" ELSE standing
ReadsCurrent ==
  \A r \in Callers :
    /\ caller[r].op = "list" => caller[r].reply # "orphan"
    /\ caller[r].reply \in {"shown", "listed"} =>
         \A c \in IF caller[r].op = "show" THEN {caller[r].chain} ELSE Chains :
           LET was == caller[r].since[c]
               saw == caller[r].seen[c] IN
           \/ saw = "absent" /\ was = "absent"
           \/ saw \in {Asked(was), Stage(c)}
           \/ saw = "deferred" /\ Asked(was) = "pending" /\ slots[c][1].action = "defer"

\* A request reaches the humans only with its whole chain below it, and only for
\* an experiment whose thresholds were fixed before the run and whose memory
\* records, counted one by one, are verified often enough (_run_chain,
\* build_review_queue_request).
VerifiedRecords(b) ==
  {i \in DOMAIN b.records : b.records[i].status = "active" /\ ~b.records[i].superseded
                              /\ b.records[i].confidence = "confirmed"}
RequestWarranted ==
  \A c \in Chains : "Q" \in disk[c] =>
    /\ {"E", "R", "El"} \subseteq disk[c]
    /\ Input[c].from = "bundle" =>
         LET b == Input[c].bundle IN
         /\ b.thresholds.frozen /\ b.usedWithout = 0 /\ Len(b.records) > 0
         /\ 100 * Cardinality(VerifiedRecords(b)) >= b.thresholds.percent * Len(b.records)
    /\ Input[c].from = "caller" =>
         LET s == Content[c].snapshot IN
         /\ s.thresholds.frozen
         /\ 100 * s.composition["verified"] >= s.thresholds.percent * Total(s.composition)

\* Whatever an interrupted attempt left behind, artifacts and temporary files, the
\* next attempt accepts and goes on from (_preflight; "crash-replay convergence",
\* learning_loop/persistence.py:5).
RetryAccepted == [][Preflight => writer'.at = "probe"]_vars
=============================================================================
