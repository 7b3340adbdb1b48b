------------------------- MODULE ReviewChainProofs -------------------------
(***************************************************************************)
(* Theorems about ReviewChain, for any chains, any callers and commands    *)
(* and any number of calls, failures and crashes.  First the writer alone: *)
(* what it has put in place, and whence a request comes.  Then the slots,  *)
(* which callers fill and never change, and what a call may answer that    *)
(* read directories, names and files one after the other.                  *)
(***************************************************************************)
EXTENDS ReviewChain, FiniteSetTheorems, SequenceTheorems, TLAPS

-----------------------------------------------------------------------------
(* The plan.                                                               *)

LEMMA PlanShape ==
  ASSUME NEW c \in Chains
  PROVE  /\ Plan[c] \in {<<>>, <<"E", "R", "El">>, <<"E", "R", "El", "Q">>}
         /\ Plan[c] = <<"E", "R", "El", "Q">> =>
              /\ Readmitted(Content[c]) /\ Preconditions(Content[c].snapshot)
              /\ EligibilityStatus(Content[c].snapshot) = "eligible"
<1>1. Plan[c] = ExpectedChain(Content[c])
  BY DEF Plan
<1>2. CASE ~(Readmitted(Content[c]) /\ Preconditions(Content[c].snapshot))
  <2>1. Plan[c] = <<>>
    BY <1>1, <1>2 DEF ExpectedChain
  <2> QED BY <2>1
<1>3. CASE Readmitted(Content[c]) /\ Preconditions(Content[c].snapshot)
  <2>1. <<"E", "R", "El">> \o <<"Q">> = <<"E", "R", "El", "Q">>
    <3> DEFINE A == {"E", "R", "El", "Q"}
               s == <<"E", "R", "El">>
               u == <<"E", "R", "El", "Q">>
    <3>1. s \in Seq(A) /\ <<"Q">> \in Seq(A) /\ u \in Seq(A)
      OBVIOUS
    <3>2. Len(s) = 3 /\ Len(<<"Q">>) = 1 /\ Len(u) = 4
      OBVIOUS
    <3>3. s \o <<"Q">> \in Seq(A) /\ Len(s \o <<"Q">>) = 4
      BY <3>1, <3>2
    <3>4. \A i \in 1 .. 4 : (s \o <<"Q">>)[i] = u[i]
      <4>1. \A i \in 1 .. 3 : (s \o <<"Q">>)[i] = s[i]
        BY <3>1, <3>2, ConcatProperties
      <4>2. (s \o <<"Q">>)[4] = "Q"
        BY <3>1, <3>2, ConcatProperties
      <4> QED BY <4>1, <4>2
    <3> QED BY <3>1, <3>2, <3>3, <3>4, SeqEqual
  <2>2. <<"E", "R", "El">> \o <<>> = <<"E", "R", "El">>
    <3>1. <<"E", "R", "El">> \in Seq({"E", "R", "El"})
      OBVIOUS
    <3> QED BY <3>1, ConcatEmptySeq
  <2>3. CASE EligibilityStatus(Content[c].snapshot) = "eligible"
    <3>1. Plan[c] = <<"E", "R", "El", "Q">>
      BY <1>1, <1>3, <2>1, <2>3 DEF ExpectedChain
    <3> QED BY <1>3, <2>3, <3>1
  <2>4. CASE EligibilityStatus(Content[c].snapshot) # "eligible"
    <3>1. Plan[c] = <<"E", "R", "El">>
      BY <1>1, <1>3, <2>2, <2>4 DEF ExpectedChain
    <3> QED BY <3>1
  <2> QED BY <2>3, <2>4
<1> QED BY <1>2, <1>3

\* No artifact is named twice in a plan.
LEMMA PlanDistinct ==
  ASSUME NEW c \in Chains
  PROVE  /\ \A i, j \in DOMAIN Plan[c] : Plan[c][i] = Plan[c][j] => i = j
         /\ DOMAIN Plan[c] \subseteq Nat
         /\ Range(Plan[c]) = {Plan[c][i] : i \in DOMAIN Plan[c]}
<1>1. CASE Plan[c] = <<>>
  BY <1>1 DEF Range
<1>2. CASE Plan[c] = <<"E", "R", "El">>
  <2>1. DOMAIN Plan[c] = {1, 2, 3} /\ Plan[c][1] = "E" /\ Plan[c][2] = "R" /\ Plan[c][3] = "El"
    BY <1>2
  <2> QED BY <2>1 DEF Range
<1>3. CASE Plan[c] = <<"E", "R", "El", "Q">>
  <2>1. /\ DOMAIN Plan[c] = {1, 2, 3, 4} /\ Plan[c][1] = "E" /\ Plan[c][2] = "R"
        /\ Plan[c][3] = "El" /\ Plan[c][4] = "Q"
    BY <1>3
  <2> QED BY <2>1 DEF Range
<1> QED BY <1>1, <1>2, <1>3, PlanShape

-----------------------------------------------------------------------------
(* The writer.                                                             *)

Admitted(c) == Input[c].from = "bundle" => BundleAccepted(Input[c].bundle)

WriterInv ==
  /\ disk = [c \in Chains |-> disk[c]]
  /\ writer = [at |-> writer.at, chain |-> writer.chain, item |-> writer.item]
  /\ \A c \in Chains : StrictPrefix(c) /\ (disk[c] # {} => Admitted(c))
  /\ writer.at # "idle" => writer.chain \in Chains /\ Admitted(writer.chain)
  /\ writer.at = "link" =>
       \E i \in DOMAIN Plan[writer.chain] :
         Due(writer.chain, i) /\ writer.item = Plan[writer.chain][i]

\* Steps that link nothing.
LEMMA WriterGoesOn ==
  ASSUME WriterInv, disk' = disk,
         writer' = [at |-> writer'.at, chain |-> writer'.chain, item |-> writer'.item],
         writer'.at # "idle" => writer'.chain \in Chains /\ Admitted(writer'.chain),
         writer'.at # "link"
  PROVE  WriterInv'
BY DEF WriterInv, StrictPrefix

LEMMA WriterStep ==
  ASSUME WriterInv, Next
  PROVE  WriterInv'
<1>1. ASSUME NEW r \in Callers, CallerNext(r) PROVE WriterInv'
  <2>1. UNCHANGED <<disk, writer>>
    BY <1>1 DEF CallerNext, Show, Decide, Call, OnlyCaller, OpenNamespace, ReadDecision, ReadMissing,
       WriteTemp, LinkSlot, Confirm, ShowDirectories, ShowChain, ShowEvents, ListAll, GateQueue,
       GateDecisions, CollectDecisions, CollectRequests, CallerStops
  <2> QED BY <2>1 DEF WriterInv, StrictPrefix, Due, Missing
<1>2. ASSUME NEW c \in Chains, PersistLearningChain(c) PROVE WriterInv'
  <2>1. /\ disk' = disk /\ writer' = [at |-> "preflight", chain |-> c, item |-> None]
        /\ Admitted(c)
    BY <1>2 DEF PersistLearningChain, Admitted
  <2> QED BY <2>1, WriterGoesOn
<1>3. ASSUME NEW c \in Chains, ResumeLearningChain(c) PROVE WriterInv'
  <2>1. /\ disk' = disk /\ writer' = [at |-> "preflight", chain |-> c, item |-> None]
        /\ "E" \in disk[c]
    BY <1>3 DEF ResumeLearningChain
  <2>2. Admitted(c)
    BY <2>1 DEF WriterInv
  <2> QED BY <2>1, <2>2, WriterGoesOn
<1>4. CASE Preflight
  <2>1. /\ disk' = disk /\ writer.at = "preflight"
        /\ writer' = Resting \/ writer' = [writer EXCEPT !.at = "probe"]
    BY <1>4 DEF Preflight
  <2> QED BY <2>1, WriterGoesOn DEF WriterInv, Resting
<1>5. CASE Probe
  <2>1. disk' = disk /\ writer.at = "probe" /\ writer' = [writer EXCEPT !.at = "next"]
    BY <1>5 DEF Probe
  <2> QED BY <2>1, WriterGoesOn DEF WriterInv
<1>6. CASE UnlinkTemp
  <2>1. disk' = disk /\ writer.at = "unlink" /\ writer' = [writer EXCEPT !.at = "next", !.item = None]
    BY <1>6 DEF UnlinkTemp
  <2>2. writer'.at = "next" /\ writer'.chain = writer.chain /\ writer'.item = None
    BY <2>1 DEF WriterInv
  <2>3. writer' = [at |-> writer'.at, chain |-> writer'.chain, item |-> writer'.item]
    BY <2>1 DEF WriterInv
  <2> QED BY <2>1, <2>2, <2>3, WriterGoesOn DEF WriterInv
<1>7. CASE ChainDone \/ WriterStops
  <2>1. disk' = disk /\ writer' = Resting
    BY <1>7 DEF ChainDone, WriterStops
  <2> QED BY <2>1, WriterGoesOn DEF Resting
<1>8. CASE WriteArtifact
  <2>1. PICK i \in DOMAIN Plan[writer.chain] :
          /\ Due(writer.chain, i) /\ disk' = disk /\ writer.at = "next"
          /\ writer' = [writer EXCEPT !.at = "link", !.item = Plan[writer.chain][i]]
    BY <1>8 DEF WriteArtifact
  <2>2. /\ writer'.at = "link" /\ writer'.chain = writer.chain
        /\ writer'.item = Plan[writer.chain][i]
        /\ writer' = [at |-> writer'.at, chain |-> writer'.chain, item |-> writer'.item]
    BY <2>1 DEF WriterInv
  <2> QED BY <2>1, <2>2 DEF WriterInv, StrictPrefix, Due, Missing
<1>9. CASE LinkArtifact
  <2> DEFINE c == writer.chain
  <2>1. /\ writer.at = "link" /\ c \in Chains /\ Admitted(c)
        /\ disk' = [disk EXCEPT ![c] = @ \cup {writer.item}]
        /\ writer' = [writer EXCEPT !.at = "unlink"]
    BY <1>9 DEF LinkArtifact, WriterInv
  <2>2. PICK i \in DOMAIN Plan[c] : Due(c, i) /\ writer.item = Plan[c][i]
    BY <2>1 DEF WriterInv
  <2>3. \A b \in Chains : disk'[b] = IF b = c THEN disk[c] \cup {Plan[c][i]} ELSE disk[b]
    BY <2>1, <2>2 DEF WriterInv
  <2>4. disk' = [b \in Chains |-> disk'[b]]
    BY <2>1 DEF WriterInv
  <2>5. ASSUME NEW b \in Chains PROVE StrictPrefix(b)'
    <3>1. CASE b # c
      BY <2>3, <3>1 DEF WriterInv, StrictPrefix
    <3>2. CASE b = c
      <4>1. disk'[c] = disk[c] \cup {Plan[c][i]}
        BY <2>1, <2>3
      <4>2. disk'[c] \subseteq Range(Plan[c])
        BY <2>1, <4>1, PlanDistinct, SMTT(30) DEF WriterInv, StrictPrefix
      <4>3. ASSUME NEW j \in DOMAIN Plan[c], NEW k \in DOMAIN Plan[c], j < k, Plan[c][k] \in disk'[c]
            PROVE  Plan[c][j] \in disk'[c]
        <5>1. CASE Plan[c][k] \in disk[c]
          BY <2>1, <4>1, <4>3, <5>1 DEF WriterInv, StrictPrefix
        <5>2. CASE Plan[c][k] = Plan[c][i]
          <6>1. k = i /\ j \in Nat /\ i \in Nat
            BY <2>1, <2>2, <4>3, <5>2, PlanDistinct
          <6>2. j \notin Missing(c)
            BY <2>2, <4>3, <6>1 DEF Due
          <6> QED BY <4>1, <4>3, <6>2 DEF Missing
        <5> QED BY <4>1, <4>3, <5>1, <5>2
      <4> QED BY <3>2, <4>2, <4>3 DEF StrictPrefix
    <3> QED BY <3>1, <3>2
  <2>6. \A b \in Chains : disk'[b] # {} => Admitted(b)
    BY <2>1, <2>3 DEF WriterInv
  <2>7. /\ writer'.at = "unlink" /\ writer'.chain = c
        /\ writer' = [at |-> writer'.at, chain |-> writer'.chain, item |-> writer'.item]
    BY <2>1 DEF WriterInv
  <2> QED BY <2>1, <2>4, <2>5, <2>6, <2>7 DEF WriterInv
<1> QED BY <1>1, <1>2, <1>3, <1>4, <1>5, <1>6, <1>7, <1>8, <1>9 DEF Next, WriterNext

\* Whatever fails or is killed, a chain's artifacts on the disk are the first of its
\* plan, and what _publish_file links next is the first that is missing.
THEOREM Writer == Spec => []WriterInv
<1>1. Init => WriterInv
  <2> SUFFICES ASSUME Init PROVE WriterInv
    OBVIOUS
  <2>1. disk = [c \in Chains |-> {}] /\ writer = Resting
    BY DEF Init
  <2>2. \A c \in Chains : StrictPrefix(c) /\ disk[c] = {}
    BY <2>1 DEF StrictPrefix
  <2> QED BY <2>1, <2>2 DEF WriterInv, Resting
<1>2. WriterInv /\ [Next]_vars => WriterInv'
  BY WriterStep DEF vars, WriterInv, StrictPrefix, Due, Missing
<1> QED BY <1>1, <1>2, PTL DEF Spec

\* Whatever an interrupted attempt has left behind, artifacts and temporary files,
\* the next attempt accepts and goes on from (_preflight).
THEOREM RetryAcceptedAlways == Spec => RetryAccepted
<1>1. WriterInv /\ [Next]_vars => [Preflight => writer'.at = "probe"]_vars
  <2> SUFFICES ASSUME WriterInv, Preflight PROVE writer'.at = "probe"
    OBVIOUS
  <2>1. writer.at = "preflight" /\ writer.chain \in Chains
    BY DEF Preflight, WriterInv
  <2>2. StrictPrefix(writer.chain)
    BY <2>1 DEF WriterInv
  <2>3. writer.chain \notin temps'
    BY DEF Preflight, CleanupTemps
  <2>4. writer' = [writer EXCEPT !.at = "probe"]
    BY <2>2, <2>3 DEF Preflight
  <2> QED BY <2>4 DEF WriterInv
<1> QED BY <1>1, Writer, PTL DEF Spec, RetryAccepted

-----------------------------------------------------------------------------
(* Requests.                                                               *)

\* Every record is counted in exactly one stratum.
LEMMA Counted ==
  ASSUME NEW records, records \in Seq(Range(records))
  PROVE  LET c == build_memory_evidence_composition(records) IN
         /\ Total(c) = Len(records)
         /\ c["verified"] = Cardinality({i \in DOMAIN records :
                              classify_memory_record(records[i]) = "verified"})
<1> DEFINE In(s) == {i \in DOMAIN records : classify_memory_record(records[i]) = s}
           c == build_memory_evidence_composition(records)
<1>1. \A s \in Strata : c[s] = Cardinality(In(s))
  BY DEF build_memory_evidence_composition
<1>2. /\ c["verified"] = Cardinality(In("verified"))
      /\ c["unknown"] = Cardinality(In("unknown"))
      /\ c["contradicted"] = Cardinality(In("contradicted"))
  BY <1>1 DEF Strata
<1>3. DOMAIN records = 1 .. Len(records) /\ Len(records) \in Nat
  OBVIOUS
<1>4. IsFiniteSet(DOMAIN records) /\ Cardinality(DOMAIN records) = Len(records)
  BY <1>3, FS_Interval
<1>5. \A s : IsFiniteSet(In(s)) /\ Cardinality(In(s)) \in Nat
  BY <1>4, FS_Subset, FS_CardinalityType
<1>6. DOMAIN records = (In("verified") \cup In("unknown")) \cup In("contradicted")
  BY DEF classify_memory_record
<1>7. /\ In("verified") \cap In("unknown") = {}
      /\ (In("verified") \cup In("unknown")) \cap In("contradicted") = {}
  OBVIOUS
<1> HIDE DEF In, c
<1> DEFINE V == In("verified")
           U == In("unknown")
           X == In("contradicted")
<1>8. /\ IsFiniteSet(V) /\ IsFiniteSet(U) /\ IsFiniteSet(X)
      /\ Cardinality(V) \in Nat /\ Cardinality(U) \in Nat /\ Cardinality(X) \in Nat
      /\ Cardinality(V \cap U) = 0 /\ Cardinality((V \cup U) \cap X) = 0
      /\ DOMAIN records = (V \cup U) \cup X
  BY <1>5, <1>6, <1>7, FS_EmptySet
<1> HIDE DEF V, U, X
<1>9. IsFiniteSet(V \cup U) /\ Cardinality(V \cup U) = Cardinality(V) + Cardinality(U) - 0
  <2>1. Cardinality(V \cup U) = Cardinality(V) + Cardinality(U) - Cardinality(V \cap U)
    BY <1>8, FS_Union
  <2> QED BY <1>8, <2>1, FS_Union
<1>10. Cardinality(DOMAIN records) = Cardinality(V) + Cardinality(U) + Cardinality(X)
  <2>1. Cardinality((V \cup U) \cup X)
          = Cardinality(V \cup U) + Cardinality(X) - Cardinality((V \cup U) \cap X)
    BY <1>8, <1>9, FS_Union
  <2> QED BY <1>8, <1>9, <2>1
<1>11. Total(c) = Len(records)
  BY <1>2, <1>4, <1>8, <1>10 DEF Total, V, U, X
<1> QED BY <1>2, <1>11 DEF c, In

\* An eligible evaluation has a verdict, and so frozen thresholds that are met.
LEMMA EligibleMeans ==
  ASSUME NEW s, Preconditions(s), EligibilityStatus(s) = "eligible"
  PROVE  /\ s.thresholds.frozen
         /\ Total(s.composition) > 0
         /\ 100 * s.composition["verified"] >= s.thresholds.percent * Total(s.composition)
<1> DEFINE Row(r) == /\ r \in FSM_MATRIX_V1 /\ r.verdict = s.verdict
                     /\ r.contradicted = (s.composition["contradicted"] > 0)
                     /\ r.unknown = (s.composition["unknown"] > 0)
<1>1. s.verdict # "C"
  <2> SUFFICES ASSUME s.verdict = "C" PROVE FALSE
    OBVIOUS
  <2>1. \E r : Row(r)
    <3> DEFINE r == [verdict |-> "C", contradicted |-> (s.composition["contradicted"] > 0),
                     unknown |-> (s.composition["unknown"] > 0), status |-> "ineligible"]
    <3>1. r \in FSM_MATRIX_V1
      BY DEF FSM_MATRIX_V1
    <3>2. Row(r)
      BY <3>1
    <3> QED BY <3>2
  <2>2. \A r : Row(r) => r.status = "ineligible"
    BY DEF FSM_MATRIX_V1
  <2>3. EligibilityStatus(s) = (CHOOSE r : Row(r)).status
    BY DEF EligibilityStatus
  <2> HIDE DEF Row
  <2>4. Row(CHOOSE r : Row(r))
    BY <2>1
  <2> QED BY <2>2, <2>3, <2>4
<1>2. s.status = "sufficient" /\ s.thresholds.frozen
  BY <1>1 DEF Preconditions
<1>3. check_evidence_sufficiency(s.composition, s.thresholds.percent) = "sufficient"
  BY <1>2 DEF Preconditions
<1> QED BY <1>2, <1>3 DEF check_evidence_sufficiency

\* A request reaches the humans only with its chain below it, for an experiment
\* whose thresholds were fixed before the run and whose records, counted one by
\* one, are verified often enough.
THEOREM RequestWarrantedAlways == Spec => []RequestWarranted
<1>1. WriterInv => RequestWarranted
  <2> SUFFICES ASSUME WriterInv, NEW c \in Chains, "Q" \in disk[c]
               PROVE  /\ {"E", "R", "El"} \subseteq disk[c]
                      /\ Input[c].from = "bundle" =>
                           LET b == Input[c].bundle IN
                           /\ b.thresholds.frozen /\ b.usedWithout = 0 /\ Len(b.records) > 0
                           /\ 100 * Cardinality(VerifiedRecords(b))
                                >= b.thresholds.percent * Len(b.records)
                      /\ Input[c].from = "caller" =>
                           LET s == Content[c].snapshot IN
                           /\ s.thresholds.frozen
                           /\ 100 * s.composition["verified"]
                                >= s.thresholds.percent * Total(s.composition)
    BY DEF RequestWarranted
  <2> DEFINE s == Content[c].snapshot
             b == Input[c].bundle
  <2>1. StrictPrefix(c) /\ Admitted(c)
    BY DEF WriterInv
  <2>2. PICK k \in DOMAIN Plan[c] : Plan[c][k] = "Q"
    BY <2>1, PlanDistinct DEF StrictPrefix
  <2>3. Plan[c] = <<"E", "R", "El", "Q">>
    BY <2>2, PlanShape
  <2>4. /\ DOMAIN Plan[c] = {1, 2, 3, 4} /\ Plan[c][1] = "E" /\ Plan[c][2] = "R"
        /\ Plan[c][3] = "El" /\ Plan[c][4] = "Q"
    BY <2>3
  <2>5. {"E", "R", "El"} \subseteq disk[c]
    BY <2>1, <2>4 DEF StrictPrefix
  <2>6. Preconditions(s) /\ EligibilityStatus(s) = "eligible"
    BY <2>3, PlanShape
  <2>7. /\ s.thresholds.frozen /\ Total(s.composition) > 0
        /\ 100 * s.composition["verified"] >= s.thresholds.percent * Total(s.composition)
    BY <2>6, EligibleMeans
  <2>8. ASSUME Input[c].from = "bundle"
        PROVE  /\ b.thresholds.frozen /\ b.usedWithout = 0 /\ Len(b.records) > 0
               /\ 100 * Cardinality(VerifiedRecords(b)) >= b.thresholds.percent * Len(b.records)
    <3>1. s = build_utility_evaluation(b)
      BY <2>8 DEF Content, Enriched
    <3>2. /\ s.thresholds = b.thresholds
          /\ s.composition = build_memory_evidence_composition(b.records)
      BY <3>1 DEF build_utility_evaluation
    <3>3. b.usedWithout = 0
      BY <2>1, <2>8 DEF Admitted, BundleAccepted
    <3>4. b.records \in Seq(Range(b.records))
      BY <2>8, ReviewAssumption
    <3>5. /\ Total(s.composition) = Len(b.records)
          /\ s.composition["verified"] = Cardinality({i \in DOMAIN b.records :
                                           classify_memory_record(b.records[i]) = "verified"})
      BY <3>2, <3>4, Counted
    <3>6. VerifiedRecords(b) = {i \in DOMAIN b.records :
                                  classify_memory_record(b.records[i]) = "verified"}
      BY ReviewAssumption DEF VerifiedRecords, classify_memory_record
    <3> QED BY <2>7, <3>2, <3>3, <3>5, <3>6
  <2> QED BY <2>5, <2>7, <2>8
<1> QED BY <1>1, Writer, PTL

-----------------------------------------------------------------------------
(* The two slots of a request: e before, f after a step.                   *)

\* What is read of the slots when the names are listed.
Part(e, names) == [n \in Seqs |-> IF n \in names THEN e[n] ELSE None]
Filled(e) == {n \in Seqs : e[n] # None}
More(e, f) == \A n \in Seqs : e[n] # None => f[n] = e[n]

\* A slot is filled with a command, the second one only after a deferral.
Legal(e) ==
  /\ \A n \in Seqs : e[n] # None => e[n] \in Commands /\ e[n].seq = n
  /\ e[2] # None => e[1] # None /\ e[1].action = "defer" /\ e[2].action # "defer"

\* A stage the request had once, by slots among those in upto.
Had(e, stage, upto) ==
  \E names \in SUBSET Seqs :
    names \subseteq upto /\ (2 \in names => 1 \in names) /\ stage = reduce_state(Part(e, names))

\* What a call saw is the stage the request had when it began, has now or had
\* in between.
Timely(e, seen, since) ==
  /\ seen = "pending" => since = "pending"
  /\ seen = "deferred" => since \in {"pending", "deferred"}
  /\ \/ seen = since \/ seen = reduce_state(e)
     \/ seen = "deferred" /\ e[1] # None /\ e[1].action = "defer"

\* What list says of a request, if it says anything.
Current(e, seen, was) == seen = "absent" \/ Timely(e, seen, Asked(was))

LEMMA PartIs ==
  ASSUME NEW e, NEW names
  PROVE  /\ Part(e, names)[1] = IF 1 \in names THEN e[1] ELSE None
         /\ Part(e, names)[2] = IF 2 \in names THEN e[2] ELSE None
BY DEF Part, Seqs

\* The stage in each of the four cases.
LEMMA Reduced ==
  ASSUME NEW e
  PROVE  /\ e[1] = None /\ e[2] = None => reduce_state(e) = "pending"
         /\ e[1] = None /\ e[2] # None => reduce_state(e) = "malformed"
         /\ e[1] # None /\ e[2] = None => reduce_state(e) = Verdict(e[1])
         /\ e[1] # None /\ e[2] # None /\ e[1].action = "defer" /\ e[2].action # "defer" =>
              reduce_state(e) = Verdict(e[2])
         /\ e[1] # None /\ e[2] # None /\ ~(e[1].action = "defer" /\ e[2].action # "defer") =>
              reduce_state(e) = "malformed"
BY DEF reduce_state

LEMMA VerdictIs ==
  ASSUME NEW d \in Commands
  PROVE  /\ Verdict(d) \in {"accepted", "rejected", "revised", "deferred"}
         /\ Verdict(d) = "deferred" <=> d.action = "defer"
BY ReviewAssumption DEF Verdict

LEMMA HadGrows ==
  ASSUME NEW e, NEW f, NEW stage, NEW upto, Had(e, stage, upto), upto \subseteq Filled(e), More(e, f)
  PROVE  Had(f, stage, upto) /\ upto \subseteq Filled(f)
<1>1. PICK names \in SUBSET Seqs :
        names \subseteq upto /\ (2 \in names => 1 \in names) /\ stage = reduce_state(Part(e, names))
  BY DEF Had
<1>2. Part(f, names) = Part(e, names)
  BY <1>1 DEF Part, Filled, More
<1>3. upto \subseteq Filled(f)
  BY DEF Filled, More
<1> QED BY <1>1, <1>2, <1>3 DEF Had

LEMMA HadWider ==
  ASSUME NEW e, NEW stage, NEW upto, NEW wider, Had(e, stage, upto), upto \subseteq wider
  PROVE  Had(e, stage, wider)
BY DEF Had

\* The stage there is now, for a request whose slots are legal.
LEMMA HadNow ==
  ASSUME NEW e, Legal(e)
  PROVE  Had(e, reduce_state(e), Filled(e))
<1>1. 2 \in Filled(e) => 1 \in Filled(e)
  BY DEF Legal, Filled, Seqs
<1>2. Part(e, Filled(e))[1] = e[1] /\ Part(e, Filled(e))[2] = e[2]
  BY PartIs DEF Filled, Seqs
<1>3. reduce_state(Part(e, Filled(e))) = reduce_state(e)
  BY <1>2 DEF reduce_state
<1>4. Filled(e) \in SUBSET Seqs
  BY DEF Filled
<1> QED BY <1>1, <1>3, <1>4 DEF Had

\* It is a stage, and so not absent.
LEMMA StageIs ==
  ASSUME NEW e, Legal(e)
  PROVE  reduce_state(e) \in Stages
<1>1. \A n \in Seqs : e[n] # None => Verdict(e[n]) \in Stages
  BY VerdictIs DEF Legal, Stages
<1> QED BY <1>1, Reduced DEF Legal, Seqs, Stages

\* Read with a listing that holds all there was when the call began.
LEMMA SeenTimely ==
  ASSUME NEW e, Legal(e), NEW low, NEW names \in SUBSET Seqs, NEW since,
         low \subseteq names, names \subseteq Filled(e), Had(e, since, low),
         reduce_state(Part(e, names)) # "malformed"
  PROVE  Timely(e, reduce_state(Part(e, names)), since)
<1> DEFINE s == reduce_state(Part(e, names))
<1>p. /\ Part(e, names)[1] = IF 1 \in names THEN e[1] ELSE None
      /\ Part(e, names)[2] = IF 2 \in names THEN e[2] ELSE None
  BY PartIs
<1>f. (1 \in names => e[1] # None /\ e[1] \in Commands) /\ (2 \in names => e[2] # None /\ e[2] \in Commands)
  BY DEF Filled, Legal, Seqs
<1>q. PICK first \in SUBSET Seqs : first \subseteq low /\ since = reduce_state(Part(e, first))
  BY DEF Had
<1>w. /\ Part(e, first)[1] = IF 1 \in first THEN e[1] ELSE None
      /\ Part(e, first)[2] = IF 2 \in first THEN e[2] ELSE None
      /\ first \subseteq names
  BY <1>q, PartIs
<1>1. CASE 1 \notin names
  <2>1. 2 \notin names
    BY <1>1, <1>p, <1>f, Reduced
  <2>2. s = "pending"
    BY <1>1, <1>p, <2>1, Reduced
  <2>5. since = "pending"
    BY <1>1, <1>q, <1>w, <2>1, Reduced
  <2> QED BY <2>2, <2>5 DEF Timely
<1>2. CASE 1 \in names /\ 2 \notin names
  <2>1. s = Verdict(e[1])
    BY <1>2, <1>p, <1>f, Reduced
  <2>2. s # "pending"
    BY <1>2, <1>f, <2>1, VerdictIs
  <2>0. since \in {"pending", s}
    BY <1>2, <1>f, <1>q, <1>w, <2>1, Reduced
  <2>3. CASE e[2] = None
    BY <1>2, <1>f, <2>0, <2>1, <2>2, <2>3, Reduced DEF Timely
  <2>4. CASE e[2] # None
    <3>1. e[1].action = "defer"
      BY <2>4 DEF Legal
    <3>2. s = "deferred"
      BY <1>2, <1>f, <2>1, <3>1, VerdictIs
    <3> QED BY <1>2, <1>f, <2>0, <3>1, <3>2 DEF Timely
  <2> QED BY <2>3, <2>4
<1>3. CASE 1 \in names /\ 2 \in names
  <2>1. s = reduce_state(e)
    BY <1>3, <1>p DEF reduce_state
  <2>2. s = Verdict(e[2])
    BY <1>3, <1>p, <1>f, Reduced
  <2>3. s \notin {"pending", "deferred"}
    BY <1>3, <1>f, <2>2, VerdictIs DEF Legal
  <2> QED BY <2>1, <2>3 DEF Timely
<1> QED BY <1>1, <1>2, <1>3

\* It stays true whatever is decided afterwards.
LEMMA TimelyStays ==
  ASSUME NEW e, NEW f, Legal(e), Legal(f), More(e, f), NEW seen, NEW since, Timely(e, seen, since)
  PROVE  Timely(f, seen, since)
<1>1. CASE e[1] = None
  <2>1. e[2] = None
    BY <1>1 DEF Legal
  <2>2. reduce_state(e) = "pending"
    BY <1>1, <2>1, Reduced
  <2> QED BY <1>1, <2>2 DEF Timely
<1>2. CASE e[1] # None
  <2>1. f[1] = e[1] /\ e[1] \in Commands
    BY <1>2 DEF More, Seqs, Legal
  <2>2. CASE f[2] = e[2]
    <3>1. reduce_state(f) = reduce_state(e)
      BY <2>1, <2>2 DEF reduce_state
    <3> QED BY <2>1, <3>1 DEF Timely
  <2>3. CASE f[2] # e[2]
    <3>1. e[2] = None /\ f[2] # None
      BY <2>3 DEF More, Seqs
    <3>2. e[1].action = "defer"
      BY <2>1, <3>1 DEF Legal
    <3>3. reduce_state(e) = "deferred"
      BY <1>2, <2>1, <3>1, <3>2, Reduced, VerdictIs
    <3> QED BY <1>2, <2>1, <3>2, <3>3 DEF Timely
  <2> QED BY <2>2, <2>3
<1> QED BY <1>1, <1>2

-----------------------------------------------------------------------------
(* The slots of all requests, and the calls.                               *)

SlotsInv ==
  /\ slots = [c \in Chains |-> slots[c]]
  /\ \A c \in Chains :
       /\ slots[c] = [n \in Seqs |-> slots[c][n]] /\ Legal(slots[c])
       /\ Filled(slots[c]) # {} => "Q" \in disk[c] /\ decisionsDir
       /\ "Q" \in disk[c] => queueDir
  /\ writer.at = "link" /\ writer.item = "Q" => queueDir

Fields == {"at", "op", "chain", "cmd", "queue", "decisions", "again", "low", "since", "seen", "reply"}
Deciding == {"namespace", "missing", "orphans", "publish", "link", "confirm"}
Listing == {"queue", "decisions", "collect", "requests"}

\* Where a call is.
Placed(me) ==
  /\ me = [f \in Fields |-> me[f]]
  /\ me.at \in Deciding => me.op = "decide"
  /\ me.at \in {"directories", "validate"} => me.op = "show"
  /\ me.at \in Listing => me.op = "list"
  /\ me.at = "scan" => me.op \in {"decide", "show"}
  /\ me.at # "idle" => me.reply = "none"
  /\ me.at # "idle" /\ me.op \in {"decide", "show"} => me.chain \in Chains
  /\ me.at # "idle" /\ me.op = "decide" => me.cmd \in Commands

\* A decision goes where there is a request and, second, a deferral; a reply
\* that it is recorded is true.
DecidesWell(me) ==
  /\ me.op = "decide" /\ me.at \in {"namespace", "scan", "publish", "link"} => "Q" \in disk[me.chain]
  /\ me.at \in {"publish", "link"} =>
       \/ me.cmd.seq = 1
       \/ /\ me.cmd.seq = 2 /\ me.cmd.action # "defer"
          /\ slots[me.chain][1] # None /\ slots[me.chain][1].action = "defer"
  /\ me.at = "confirm" \/ me.reply \in {"published", "idempotent"} =>
       me.chain \in Chains /\ me.cmd \in Commands /\ slots[me.chain][me.cmd.seq] = me.cmd

\* A listing that is to contain what there was when the call began.
Begun(me, c) == me.low[c] \subseteq Filled(slots[c]) /\ Had(slots[c], Asked(me.since[c]), me.low[c])

\* What was read: names, stages, and what the reply makes of them.
ReadsWell(me) ==
  /\ \A c \in Chains : Had(slots[c], Asked(me.since[c]), Filled(slots[c]))
  /\ me.op = "show" /\ me.at \in {"validate", "scan"} => Begun(me, me.chain)
  /\ me.at = "validate" /\ ~me.decisions => me.low[me.chain] = {}
  /\ me.at = "collect" => \A c \in Chains : Begun(me, c)
  /\ me.at = "requests" =>
       \A c \in Chains :
         /\ me.seen[c] = "malformed" \/ Timely(slots[c], me.seen[c], Asked(me.since[c]))
         /\ me.seen[c] # "pending" => "Q" \in disk[c]
  /\ me.at # "idle" /\ me.again => queueDir /\ (me.at # "queue" => me.queue)
  /\ me.reply = "orphan" => me.op # "list"
  /\ me.reply = "shown" =>
       me.op = "show" /\ me.chain \in Chains
       /\ Timely(slots[me.chain], me.seen[me.chain], Asked(me.since[me.chain]))
  /\ me.reply = "listed" =>
       me.op = "list" /\ \A c \in Chains : Current(slots[c], me.seen[c], me.since[c])

CallsInv ==
  /\ caller = [r \in Callers |-> caller[r]]
  /\ \A r \in Callers : caller[r].at = "link" => decisionsDir
  /\ \A r \in Callers : Placed(caller[r]) /\ DecidesWell(caller[r]) /\ ReadsWell(caller[r])

\* A step that leaves all that calls read as it is, but for the directory that
\* a first decision makes.
Aside == UNCHANGED <<disk, slots, queueDir>> /\ (decisionsDir => decisionsDir')

\* Only the record of one caller changes.
LEMMA Turn ==
  ASSUME CallsInv, NEW r \in Callers, NEW y, caller' = [caller EXCEPT ![r] = y],
         Aside, Placed(y), DecidesWell(y), ReadsWell(y), y.at = "link" => decisionsDir'
  PROVE  CallsInv'
<1>1. \A q \in Callers : caller'[q] = IF q = r THEN y ELSE caller[q]
  BY DEF CallsInv
<1>2. caller' = [q \in Callers |-> caller'[q]]
  BY DEF CallsInv
<1>3. ASSUME NEW q \in Callers PROVE Placed(caller'[q]) /\ DecidesWell(caller[q])' /\ ReadsWell(caller[q])'
  <2>1. CASE q = r
    <3>1. caller'[q] = y
      BY <1>1, <2>1
    <3> QED BY <3>1 DEF DecidesWell, ReadsWell, Begun, Aside
  <2>2. CASE q # r
    <3>1. caller'[q] = caller[q] /\ Placed(caller[q]) /\ DecidesWell(caller[q]) /\ ReadsWell(caller[q])
      BY <1>1, <2>2 DEF CallsInv
    <3> QED BY <3>1 DEF DecidesWell, ReadsWell, Begun, Aside
  <2> QED BY <2>1, <2>2
<1>4. \A q \in Callers : caller'[q].at = "link" => decisionsDir'
  BY <1>1 DEF CallsInv, Aside
<1> QED BY <1>2, <1>3, <1>4 DEF CallsInv, Placed

\* A caller that does nothing while files are added.
LEMMA Stays ==
  ASSUME SlotsInv, SlotsInv', NEW q, caller'[q] = caller[q], queueDir => queueDir',
         \A c \in Chains : disk[c] \subseteq disk'[c] /\ More(slots[c], slots'[c]),
         Placed(caller[q]), DecidesWell(caller[q]), ReadsWell(caller[q])
  PROVE  Placed(caller[q])' /\ DecidesWell(caller[q])' /\ ReadsWell(caller[q])'
<1> DEFINE me == caller[q]
<1>s. \A c \in Chains : Legal(slots[c]) /\ Legal(slots'[c]) /\ More(slots[c], slots'[c])
  BY DEF SlotsInv
<1>c. \A d \in Commands : d.seq \in Seqs /\ d # None
  BY ReviewAssumption DEF Seqs
<1>1. Placed(me)'
  BY DEF Placed
<1>2. DecidesWell(me)'
  <2>1. me.op = "decide" /\ me.at \in {"namespace", "scan", "publish", "link"} => "Q" \in disk'[me.chain]
    BY DEF DecidesWell, Placed
  <2>2. me.at \in {"publish", "link"} =>
          \/ me.cmd.seq = 1
          \/ /\ me.cmd.seq = 2 /\ me.cmd.action # "defer"
             /\ slots'[me.chain][1] # None /\ slots'[me.chain][1].action = "defer"
    BY DEF DecidesWell, Placed, Deciding, More, Seqs
  <2>3. me.at = "confirm" \/ me.reply \in {"published", "idempotent"} =>
          me.chain \in Chains /\ me.cmd \in Commands /\ slots'[me.chain][me.cmd.seq] = me.cmd
    BY <1>c DEF DecidesWell, More
  <2> QED BY <2>1, <2>2, <2>3 DEF DecidesWell
<1>3. ASSUME NEW c \in Chains, Begun(me, c)
      PROVE  me.low[c] \subseteq Filled(slots'[c]) /\ Had(slots'[c], Asked(me.since[c]), me.low[c])
  BY <1>3, <1>s, HadGrows DEF Begun
<1>4. ASSUME NEW c \in Chains PROVE Had(slots'[c], Asked(me.since[c]), Filled(slots'[c]))
  <2>1. Had(slots[c], Asked(me.since[c]), Filled(slots[c]))
    BY DEF ReadsWell
  <2>2. Had(slots'[c], Asked(me.since[c]), Filled(slots[c])) /\ Filled(slots[c]) \subseteq Filled(slots'[c])
    BY <1>s, <2>1, HadGrows
  <2> QED BY <2>2, HadWider
<1>5. ASSUME NEW c \in Chains, Timely(slots[c], me.seen[c], Asked(me.since[c]))
      PROVE  Timely(slots'[c], me.seen[c], Asked(me.since[c]))
  BY <1>s, <1>5, TimelyStays
<1>7. ASSUME NEW c \in Chains, Current(slots[c], me.seen[c], me.since[c])
      PROVE  Current(slots'[c], me.seen[c], me.since[c])
  BY <1>5, <1>7 DEF Current
<1>6. ReadsWell(me)'
  <2>1. me.op = "show" /\ me.at \in {"validate", "scan"} => Begun(me, me.chain)'
    <3> SUFFICES ASSUME me.op = "show", me.at \in {"validate", "scan"} PROVE Begun(me, me.chain)'
      OBVIOUS
    <3>1. me.chain \in Chains /\ Begun(me, me.chain)
      BY DEF ReadsWell, Placed
    <3> QED BY <1>3, <3>1 DEF Begun
  <2>2. me.at = "collect" => \A c \in Chains : Begun(me, c)'
    BY <1>3 DEF Begun, ReadsWell
  <2>3. me.at = "requests" =>
          \A c \in Chains : /\ me.seen[c] = "malformed" \/ Timely(slots'[c], me.seen[c], Asked(me.since[c]))
                            /\ me.seen[c] # "pending" => "Q" \in disk'[c]
    BY <1>5 DEF ReadsWell
  <2>4. me.reply = "shown" =>
          /\ me.op = "show" /\ me.chain \in Chains
          /\ Timely(slots'[me.chain], me.seen[me.chain], Asked(me.since[me.chain]))
    BY <1>5 DEF ReadsWell
  <2>5. me.reply = "listed" =>
          me.op = "list" /\ \A c \in Chains : Current(slots'[c], me.seen[c], me.since[c])
    BY <1>7 DEF ReadsWell
  <2>6. /\ me.at = "validate" /\ ~me.decisions => me.low[me.chain] = {}
        /\ me.at # "idle" /\ me.again => queueDir' /\ (me.at # "queue" => me.queue)
        /\ me.reply = "orphan" => me.op # "list"
    BY DEF ReadsWell
  <2> QED BY <1>4, <2>1, <2>2, <2>3, <2>4, <2>5, <2>6 DEF ReadsWell
<1> QED BY <1>1, <1>2, <1>6

\* A call that returns.
LEMMA Answered ==
  ASSUME CallsInv, NEW r \in Callers, NEW reply, NEW seen,
         caller' = [caller EXCEPT ![r] = Returned(r, reply, seen)],
         Aside,
         reply \in {"published", "idempotent"} =>
           /\ caller[r].chain \in Chains /\ caller[r].cmd \in Commands
           /\ slots[caller[r].chain][caller[r].cmd.seq] = caller[r].cmd,
         reply = "orphan" => caller[r].op # "list",
         reply = "shown" => /\ caller[r].op = "show" /\ caller[r].chain \in Chains
                            /\ Timely(slots[caller[r].chain], seen[caller[r].chain],
                                      Asked(caller[r].since[caller[r].chain])),
         reply = "listed" => /\ caller[r].op = "list"
                             /\ \A c \in Chains : Current(slots[c], seen[c], caller[r].since[c])
  PROVE  CallsInv'
<1> DEFINE y == Returned(r, reply, seen)
<1>1. /\ y = [f \in Fields |-> y[f]] /\ y.at = "idle" /\ y.op = caller[r].op /\ y.chain = caller[r].chain
      /\ y.cmd = caller[r].cmd /\ y.since = caller[r].since /\ y.seen = seen /\ y.reply = reply
  BY DEF Returned, Fields
<1> HIDE DEF y
<1>2. Placed(y)
  BY <1>1 DEF Placed, Deciding, Listing
<1>3. DecidesWell(y)
  BY <1>1 DEF DecidesWell
<1>4. ReadsWell(y)
  <2>1. \A c \in Chains : Had(slots[c], Asked(y.since[c]), Filled(slots[c]))
    BY <1>1 DEF CallsInv, ReadsWell
  <2> QED BY <1>1, <2>1 DEF ReadsWell
<1>5. caller' = [caller EXCEPT ![r] = y]
  BY DEF y
<1> QED BY <1>1, <1>2, <1>3, <1>4, <1>5, Turn

LEMMA Parts ==
  ASSUME CallsInv, NEW r \in Callers
  PROVE  /\ Placed(caller[r]) /\ DecidesWell(caller[r]) /\ ReadsWell(caller[r])
         /\ r \in DOMAIN caller /\ caller[r] = [f \in Fields |-> caller[r][f]]
BY DEF CallsInv, Placed

\* A call begins.
LEMMA Called ==
  ASSUME SlotsInv, CallsInv, NEW r \in Callers, NEW op, NEW c, NEW cmd, NEW at, Call(r, op, c, cmd, at),
         \/ op = "decide" /\ c \in Chains /\ cmd \in Commands /\ at = "missing"
         \/ /\ op = "decide" /\ c \in Chains /\ cmd \in Commands
            /\ at = "namespace" /\ "Q" \in disk[c]
         \/ op = "show" /\ c \in Chains /\ at = "directories"
         \/ op = "list" /\ at = "queue"
  PROVE  CallsInv'
<1> DEFINE y == [at |-> at, op |-> op, chain |-> c, cmd |-> cmd, queue |-> FALSE,
                 decisions |-> FALSE, again |-> FALSE, low |-> Nothing,
                 since |-> [x \in Chains |-> Standing(x)], seen |-> AllPending, reply |-> "none"]
<1>1. caller' = [caller EXCEPT ![r] = y] /\ Aside
  BY DEF Call, Aside
<1>2. /\ y = [f \in Fields |-> y[f]] /\ y.at = at /\ y.op = op /\ y.chain = c /\ y.cmd = cmd
      /\ y.again = FALSE /\ y.reply = "none" /\ \A x \in Chains : y.since[x] = Standing(x)
  BY DEF Fields
<1> HIDE DEF y
<1>3. Placed(y)
  BY <1>2 DEF Placed, Deciding, Listing
<1>4. DecidesWell(y)
  BY <1>2 DEF DecidesWell
<1>5. ReadsWell(y)
  <2>1. \A x \in Chains : Had(slots[x], Asked(y.since[x]), Filled(slots[x]))
    <3> TAKE x \in Chains
    <3>1. Legal(slots[x]) /\ (Filled(slots[x]) # {} => "Q" \in disk[x])
      BY DEF SlotsInv
    <3>2. CASE "Q" \in disk[x]
      <4>1. Asked(y.since[x]) = reduce_state(slots[x])
        BY <1>2, <3>1, <3>2, StageIs DEF Standing, Stage, Asked, Stages
      <4> QED BY <3>1, <4>1, HadNow
    <3>3. CASE "Q" \notin disk[x]
      <4>1. slots[x][1] = None /\ slots[x][2] = None
        BY <3>1, <3>3 DEF Filled, Seqs
      <4>2. Asked(y.since[x]) = "pending" /\ reduce_state(slots[x]) = "pending"
        BY <1>2, <3>3, <4>1, Reduced DEF Standing, Asked
      <4> QED BY <3>1, <4>2, HadNow
    <3> QED BY <3>2, <3>3
  <2> QED BY <1>2, <2>1 DEF ReadsWell
<1>6. y.at # "link"
  BY <1>2
<1> QED BY <1>1, <1>3, <1>4, <1>5, <1>6, Turn

\* What a listing returns lies between what there was and what there is.
LEMMA ListedIs ==
  ASSUME NEW r, NEW c, NEW names, Listed(r, c, names)
  PROVE  caller[r].low[c] \subseteq names /\ names \subseteq Filled(slots[c])
BY DEF Listed, Published, Filled

LEMMA ReadIs ==
  ASSUME NEW c, NEW names
  PROVE  Read(c, names) = Part(slots[c], names) /\ Published(c) = Filled(slots[c])
BY DEF Read, Part, Published, Filled

LEMMA DecideStep ==
  ASSUME SlotsInv, CallsInv, NEW r \in Callers,
         \/ OpenNamespace(r) \/ ReadDecision(r) \/ ReadMissing(r) \/ WriteTemp(r) \/ Confirm(r)
  PROVE  CallsInv'
<1> DEFINE me == caller[r]
           c == me.chain
<1>m. /\ Placed(me) /\ DecidesWell(me) /\ ReadsWell(me)
      /\ r \in DOMAIN caller /\ me = [f \in Fields |-> me[f]]
  BY Parts
<1>s. \A b \in Chains, n \in Seqs : slots[b][n] # None => slots[b][n] \in Commands /\ slots[b][n].seq = n
  BY DEF SlotsInv, Legal
<1>c. \A d \in Commands : d # None /\ d.seq \in Seqs
  BY ReviewAssumption DEF Seqs
\* A reply that says nothing.
<1>r. ASSUME NEW reply, reply \in {"missing", "refused", "malformed", "conflict", "orphan", "failed"},
             Reply(r, reply), Aside, me.op = "decide"
      PROVE  CallsInv'
  BY <1>r, Answered DEF Reply
\* A reply that the decision is recorded.
<1>k. ASSUME NEW reply, reply \in {"published", "idempotent"}, Reply(r, reply),
             Aside,
             c \in Chains, me.cmd \in Commands, slots[c][me.cmd.seq] = me.cmd
      PROVE  CallsInv'
  BY <1>k, Answered DEF Reply
\* The call goes on.
<1>g. ASSUME NEW at, NEW low, caller' = [caller EXCEPT ![r].at = at, ![r].low = low],
             Aside, me.op = "decide", me.at # "idle",
             at \in {"orphans", "scan", "publish", "link"},
             at # "orphans" => "Q" \in disk[c], at = "link" => decisionsDir',
             at \in {"publish", "link"} =>
               \/ me.cmd.seq = 1
               \/ /\ me.cmd.seq = 2 /\ me.cmd.action # "defer"
                  /\ slots[c][1] # None /\ slots[c][1].action = "defer"
      PROVE  CallsInv'
  <2> DEFINE y == [me EXCEPT !.at = at, !.low = low]
  <2>1. caller' = [caller EXCEPT ![r] = y]
    BY <1>m, <1>g DEF Fields
  <2>2. /\ y = [f \in Fields |-> y[f]] /\ y.at = at /\ y.op = "decide" /\ y.chain = c /\ y.cmd = me.cmd
        /\ y.again = me.again /\ y.queue = me.queue /\ y.reply = me.reply /\ y.since = me.since
    BY <1>m, <1>g DEF Fields
  <2>3. me.again => queueDir /\ (me.at # "queue" => me.queue)
    BY <1>m, <1>g DEF ReadsWell
  <2>4. me.at # "queue" /\ me.reply = "none"
    BY <1>m, <1>g DEF Placed, Listing
  <2> HIDE DEF y
  <2>5. Placed(y)
    BY <1>g, <1>m, <2>2, <2>4 DEF Placed, Deciding, Listing
  <2>6. DecidesWell(y)
    BY <1>g, <2>2, <2>4 DEF DecidesWell
  <2>7. ReadsWell(y)
    <3>1. \A x \in Chains : Had(slots[x], Asked(y.since[x]), Filled(slots[x]))
      BY <1>m, <2>2 DEF ReadsWell
    <3> QED BY <1>g, <2>2, <2>3, <2>4, <3>1 DEF ReadsWell
  <2>8. y.at = "link" => decisionsDir'
    BY <1>g, <2>2
  <2> QED BY <1>g, <2>1, <2>5, <2>6, <2>7, <2>8, Turn
<1>p. ASSUME NEW low, caller' = [caller EXCEPT ![r].at = "publish", ![r].low = low], Aside,
             me.op = "decide", me.at # "idle", "Q" \in disk[c],
             \/ me.cmd.seq = 1
             \/ /\ me.cmd.seq = 2 /\ me.cmd.action # "defer"
                /\ slots[c][1] # None /\ slots[c][1].action = "defer"
      PROVE  CallsInv'
  <2>1. PICK at : at = "publish"
    OBVIOUS
  <2>2. caller' = [caller EXCEPT ![r].at = at, ![r].low = low] /\ at # "link" /\ at # "orphans"
        /\ at \in {"orphans", "scan", "publish", "link"}
    BY <1>p, <2>1
  <2> QED BY <1>g, <1>p, <2>2
<1>1. CASE OpenNamespace(r)
  <2>1. me.at \in {"namespace", "missing"} /\ Aside
    BY <1>1 DEF OpenNamespace, OnlyCaller, Aside
  <2>2. me.op = "decide" /\ me.at # "idle" /\ me.cmd \in Commands
    BY <1>m, <2>1 DEF Placed, Deciding
  <2>3. me.at = "namespace" => "Q" \in disk[c]
    BY <1>m, <2>2 DEF DecidesWell
  <2>4. CASE decisionsDir
    <3>1. caller' = [caller EXCEPT ![r].at = IF me.at = "missing" THEN "orphans" ELSE "scan",
                                   ![r].low = [Nothing EXCEPT ![c] = Published(c)]]
      BY <1>1, <2>4 DEF OpenNamespace
    <3>2. PICK at : at = IF me.at = "missing" THEN "orphans" ELSE "scan"
      OBVIOUS
    <3>3. /\ caller' = [caller EXCEPT ![r].at = at, ![r].low = [Nothing EXCEPT ![c] = Published(c)]]
          /\ at \in {"orphans", "scan"} /\ (at # "orphans" => "Q" \in disk[c])
      BY <2>1, <2>3, <3>1, <3>2
    <3> QED BY <1>g, <2>1, <2>2, <3>3
  <2>5. CASE ~decisionsDir
    <3>1. \/ Reply(r, "missing") \/ Reply(r, "refused")
          \/ /\ caller' = [caller EXCEPT ![r].at = "publish"] /\ me.cmd.seq = 1
             /\ me.at = "namespace"
      BY <1>1, <2>1, <2>5 DEF OpenNamespace
    <3>2. CASE caller' = [caller EXCEPT ![r].at = "publish"] /\ me.cmd.seq = 1 /\ me.at = "namespace"
      <4>1. caller' = [caller EXCEPT ![r].at = "publish", ![r].low = me.low]
        BY <1>m, <3>2 DEF Fields
      <4> QED BY <1>p, <2>1, <2>2, <2>3, <3>2, <4>1
    <3> QED BY <1>r, <2>1, <2>2, <3>1, <3>2
  <2> QED BY <2>4, <2>5
<1>2. CASE ReadDecision(r)
  <2>1. me.at = "scan" /\ me.op = "decide" /\ Aside
    BY <1>2 DEF ReadDecision, OnlyCaller, Aside
  <2>2. c \in Chains /\ me.cmd \in Commands /\ "Q" \in disk[c]
    BY <1>m, <2>1 DEF Placed, DecidesWell
  <2>3. PICK names \in SUBSET Seqs : Listed(r, c, names) /\ Judge(r, Read(c, names))
    BY <1>2 DEF ReadDecision
  <2> DEFINE e == Read(c, names)
  <2>4. /\ e[1] = IF 1 \in names THEN slots[c][1] ELSE None
        /\ e[2] = IF 2 \in names THEN slots[c][2] ELSE None
        /\ \A n \in Seqs : e[n] # None => e[n] = slots[c][n]
    BY PartIs, ReadIs DEF Part, Seqs
  <2>5. \/ Reply(r, "malformed") \/ Reply(r, "conflict") \/ Reply(r, "refused")
        \/ Reply(r, "idempotent") /\ e[me.cmd.seq] = me.cmd
        \/ /\ caller' = [caller EXCEPT ![r].at = "publish", ![r].low = Nothing]
           /\ Allowed(me.cmd, reduce_state(e))
    <3>1. Judge(r, e)
      BY <2>3
    <3> HIDE DEF e
    <3> QED BY <3>1 DEF Judge
  <2> HIDE DEF e
  <2>6. CASE Reply(r, "idempotent") /\ e[me.cmd.seq] = me.cmd
    <3>1. slots[c][me.cmd.seq] = me.cmd
      BY <1>c, <2>2, <2>4, <2>6
    <3> QED BY <1>k, <2>1, <2>2, <2>6, <3>1
  <2>7. CASE /\ caller' = [caller EXCEPT ![r].at = "publish", ![r].low = Nothing]
             /\ Allowed(me.cmd, reduce_state(e))
    <3>1. CASE me.cmd.seq = 1
      BY <1>p, <2>1, <2>2, <2>7, <3>1
    <3>2. CASE me.cmd.seq # 1
      <4>1. me.cmd.seq = 2 /\ reduce_state(e) = "deferred" /\ me.cmd.action # "defer"
        BY <1>c, <2>2, <2>7, <3>2 DEF Allowed, Seqs
      <4>2. e[1] # None
        BY <4>1, Reduced
      <4>3. e[1] = slots[c][1] /\ e[1] \in Commands
        BY <1>s, <2>2, <2>4, <4>2 DEF Seqs
      <4>4. e[1].action = "defer"
        <5>1. CASE e[2] = None
          BY <4>1, <4>2, <4>3, <5>1, Reduced, VerdictIs
        <5>2. CASE e[2] # None
          BY <4>1, <4>2, <5>2, Reduced
        <5> QED BY <5>1, <5>2
      <4> QED BY <1>p, <2>1, <2>2, <2>7, <4>1, <4>2, <4>3, <4>4
    <3> QED BY <3>1, <3>2
  <2> QED BY <1>r, <2>1, <2>5, <2>6, <2>7
<1>3. CASE ReadMissing(r)
  <2>1. me.at = "orphans" /\ Aside
    BY <1>3 DEF ReadMissing, OnlyCaller, Aside
  <2>2. me.op = "decide"
    BY <1>m, <2>1 DEF Placed, Deciding
  <2>3. Reply(r, "missing") \/ Reply(r, "malformed") \/ Reply(r, "orphan")
    <3>1. PICK names \in SUBSET Seqs :
            Reply(r, CASE names = {} -> "missing"
                       [] names # {} /\ reduce_state(Read(c, names)) = "malformed" -> "malformed"
                       [] OTHER -> "orphan")
      BY <1>3 DEF ReadMissing
    <3>2. CASE names = {}
      BY <3>1, <3>2
    <3>3. CASE names # {} /\ reduce_state(Read(c, names)) = "malformed"
      BY <3>1, <3>3
    <3>4. CASE names # {} /\ reduce_state(Read(c, names)) # "malformed"
      BY <3>1, <3>4
    <3> QED BY <3>2, <3>3, <3>4
  <2> QED BY <1>r, <2>1, <2>2, <2>3
<1>4. CASE WriteTemp(r)
  <2>1. /\ me.at = "publish" /\ Aside /\ decisionsDir'
        /\ caller' = [caller EXCEPT ![r].at = "link"]
    BY <1>4 DEF WriteTemp, Aside
  <2>2. me.op = "decide"
    BY <1>m, <2>1 DEF Placed, Deciding
  <2>3. caller' = [caller EXCEPT ![r].at = "link", ![r].low = me.low]
    BY <1>m, <2>1 DEF Fields
  <2> QED BY <1>g, <1>m, <2>1, <2>2, <2>3 DEF DecidesWell
<1>5. CASE Confirm(r)
  <2>1. /\ me.at = "confirm" /\ Aside
        /\ Reply(r, "published") \/ Reply(r, "failed")
    BY <1>5 DEF Confirm, Aside
  <2>2. me.op = "decide" /\ c \in Chains /\ me.cmd \in Commands /\ slots[c][me.cmd.seq] = me.cmd
    BY <1>m, <2>1 DEF Placed, Deciding, DecidesWell
  <2>3. CASE Reply(r, "published")
    BY <1>k, <2>1, <2>2, <2>3
  <2> QED BY <1>r, <2>1, <2>2, <2>3
<1> QED BY <1>1, <1>2, <1>3, <1>4, <1>5

\* show, which looks for the directories before it validates the chain.
LEMMA ShowStep ==
  ASSUME SlotsInv, CallsInv, NEW r \in Callers, ShowDirectories(r) \/ ShowChain(r) \/ ShowEvents(r)
  PROVE  CallsInv'
<1> DEFINE me == caller[r]
           c == me.chain
<1>m. /\ Placed(me) /\ DecidesWell(me) /\ ReadsWell(me)
      /\ r \in DOMAIN caller /\ me = [f \in Fields |-> me[f]]
  BY Parts
<1>0. Aside
  BY DEF ShowDirectories, ShowChain, ShowEvents, OnlyCaller, Aside
<1>1. me.op = "show" /\ me.at \in {"directories", "validate", "scan"} /\ c \in Chains
      /\ me.reply = "none"
  BY <1>m DEF ShowDirectories, ShowChain, ShowEvents, Placed
<1>2. me.again => queueDir /\ me.queue
  BY <1>m, <1>1 DEF ReadsWell
<1>3. Had(slots[c], Asked(me.since[c]), Filled(slots[c]))
  BY <1>m, <1>1 DEF ReadsWell
<1>4. ASSUME Reply(r, "missing") \/ Reply(r, "malformed") PROVE CallsInv'
  <2>1. PICK reply \in {"missing", "malformed"} : Reply(r, reply)
    BY <1>4
  <2> QED BY <1>0, <2>1, Answered DEF Reply
\* Every field as it is, but for these three.
<1>5. ASSUME NEW at, NEW decisions, NEW low,
             caller' = [caller EXCEPT ![r].at = at, ![r].decisions = decisions, ![r].low = low],
             at \in {"validate", "scan"}, low[c] \subseteq Filled(slots[c]),
             Had(slots[c], Asked(me.since[c]), low[c]),
             at = "validate" /\ ~decisions => low[c] = {}
      PROVE  CallsInv'
  <2> DEFINE y == [me EXCEPT !.at = at, !.decisions = decisions, !.low = low]
  <2>1. caller' = [caller EXCEPT ![r] = y]
    BY <1>m, <1>5 DEF Fields
  <2>2. /\ y = [f \in Fields |-> y[f]] /\ y.at = at /\ y.op = "show" /\ y.chain = c /\ y.cmd = me.cmd
        /\ y.again = me.again /\ y.queue = me.queue /\ y.reply = "none" /\ y.since = me.since
        /\ y.low = low /\ y.decisions = decisions
    BY <1>m, <1>1, <1>5 DEF Fields
  <2> HIDE DEF y
  <2>3. Placed(y)
    BY <1>1, <1>5, <2>2 DEF Placed, Deciding, Listing
  <2>4. DecidesWell(y)
    BY <1>5, <2>2 DEF DecidesWell
  <2>5. ReadsWell(y)
    <3>1. \A x \in Chains : Had(slots[x], Asked(y.since[x]), Filled(slots[x]))
      BY <1>m, <2>2 DEF ReadsWell
    <3>2. Begun(y, y.chain)
      BY <1>5, <2>2 DEF Begun
    <3> QED BY <1>2, <1>5, <2>2, <3>1, <3>2 DEF ReadsWell
  <2>6. y.at # "link"
    BY <1>5, <2>2
  <2> QED BY <1>0, <2>1, <2>3, <2>4, <2>5, <2>6, Turn
\* What it shows of a stage it has read.
<1>6. ASSUME NEW names \in SUBSET Seqs, me.low[c] \subseteq names, names \subseteq Filled(slots[c]),
             Had(slots[c], Asked(me.since[c]), me.low[c]), NEW seen,
             seen[c] = reduce_state(Part(slots[c], names)), seen[c] # "malformed",
             NEW reply, reply = "shown", caller' = [caller EXCEPT ![r] = Returned(r, reply, seen)]
      PROVE  CallsInv'
  <2>1. Legal(slots[c])
    BY <1>1 DEF SlotsInv
  <2>2. Timely(slots[c], seen[c], Asked(me.since[c]))
    BY <1>6, <2>1, SeenTimely
  <2>3. reply = "shown" => /\ caller[r].op = "show" /\ caller[r].chain \in Chains
                           /\ Timely(slots[caller[r].chain], seen[caller[r].chain],
                                     Asked(caller[r].since[caller[r].chain]))
    BY <1>1, <2>2
  <2>4. reply \notin {"published", "idempotent", "orphan", "listed"}
    BY <1>6
  <2> QED BY <1>0, <1>6, <2>3, <2>4, Answered
<1>7. CASE ShowDirectories(r)
  <2>1. CASE queueDir
    <3> DEFINE low == [Nothing EXCEPT ![c] = Published(c)]
    <3>1. caller' = [caller EXCEPT ![r].at = "validate", ![r].decisions = decisionsDir, ![r].low = low]
      BY <1>7, <2>1 DEF ShowDirectories
    <3>2. low[c] = Filled(slots[c])
      BY <1>1, ReadIs DEF Nothing
    <3>3. ~decisionsDir => low[c] = {}
      BY <1>1, <3>2 DEF SlotsInv
    <3> HIDE DEF low
    <3>4. PICK d : d = decisionsDir
      OBVIOUS
    <3>5. caller' = [caller EXCEPT ![r].at = "validate", ![r].decisions = d, ![r].low = low]
      BY <3>1, <3>4
    <3>6. low[c] \subseteq Filled(slots[c]) /\ Had(slots[c], Asked(me.since[c]), low[c])
      BY <1>3, <3>2
    <3>7. ~d => low[c] = {}
      BY <3>3, <3>4
    <3> QED BY <1>5, <3>5, <3>6, <3>7
  <2>2. CASE ~queueDir
    BY <1>4, <1>7, <2>2 DEF ShowDirectories
  <2> QED BY <2>1, <2>2
<1>8. CASE ShowChain(r)
  <2>1. me.at = "validate" /\ Begun(me, c) /\ (~me.decisions => me.low[c] = {})
    BY <1>8, <1>m, <1>1 DEF ShowChain, ReadsWell
  <2>2. CASE ~ChainValid(c)
    BY <1>4, <1>8, <2>2 DEF ShowChain
  <2>3. CASE ChainValid(c) /\ ~me.decisions
    <3>1. caller' = [caller EXCEPT ![r] = Returned(r, "shown", AllPending)]
      BY <1>8, <2>3 DEF ShowChain, Reply
    <3>2. reduce_state(Part(slots[c], {})) = "pending" /\ AllPending[c] = "pending"
      BY <1>1, PartIs, Reduced DEF AllPending
    <3> QED BY <1>6, <2>1, <2>3, <3>1, <3>2 DEF Begun
  <2>4. CASE ChainValid(c) /\ me.decisions
    <3>1. caller' = [caller EXCEPT ![r].at = "scan"]
      BY <1>8, <2>4 DEF ShowChain
    <3>2. caller' = [caller EXCEPT ![r].at = "scan", ![r].decisions = me.decisions, ![r].low = me.low]
      BY <1>m, <3>1 DEF Fields
    <3> QED BY <1>5, <2>1, <3>2 DEF Begun
  <2> QED BY <2>2, <2>3, <2>4
<1>9. CASE ShowEvents(r)
  <2>1. me.at = "scan" /\ Begun(me, c)
    BY <1>9, <1>m, <1>1 DEF ShowEvents, ReadsWell
  <2>2. PICK names \in SUBSET Seqs :
          LET stage == reduce_state(Read(c, names)) IN
          /\ Listed(r, c, names)
          /\ IF stage = "malformed" THEN Reply(r, "malformed")
             ELSE caller' = [caller EXCEPT ![r] =
                               Returned(r, "shown", [AllPending EXCEPT ![c] = stage])]
    BY <1>9 DEF ShowEvents
  <2> DEFINE stage == reduce_state(Part(slots[c], names))
             seen == [AllPending EXCEPT ![c] = stage]
  <2>3. stage = reduce_state(Read(c, names)) /\ me.low[c] \subseteq names /\ names \subseteq Filled(slots[c])
    BY <2>2, ReadIs, ListedIs
  <2>4. CASE stage = "malformed"
    BY <1>4, <2>2, <2>3, <2>4
  <2>5. CASE stage # "malformed"
    <3>1. caller' = [caller EXCEPT ![r] = Returned(r, "shown", seen)]
      BY <2>2, <2>3, <2>5
    <3>2. seen[c] = stage
      BY <1>1 DEF AllPending
    <3> HIDE DEF seen
    <3> QED BY <1>6, <2>1, <2>3, <2>5, <3>1, <3>2 DEF Begun
  <2> QED BY <2>4, <2>5
<1> QED BY <1>7, <1>8, <1>9

\* list, which reads the decisions before the requests, and both again when it
\* misses a request.
LEMMA ListStep ==
  ASSUME SlotsInv, CallsInv, NEW r \in Callers,
         GateQueue(r) \/ GateDecisions(r) \/ CollectDecisions(r) \/ CollectRequests(r)
  PROVE  CallsInv'
<1> DEFINE me == caller[r]
<1>m. /\ Placed(me) /\ DecidesWell(me) /\ ReadsWell(me)
      /\ r \in DOMAIN caller /\ me = [f \in Fields |-> me[f]]
  BY Parts
<1>0. Aside
  <2>1. OnlyCaller
    BY DEF GateQueue, GateDecisions, CollectDecisions, CollectRequests
  <2> QED BY <2>1 DEF OnlyCaller, Aside
<1>1. me.at \in Listing /\ me.op = "list" /\ me.reply = "none"
  BY <1>m DEF GateQueue, GateDecisions, CollectDecisions, CollectRequests, Placed, Listing
<1>2. me.again => queueDir /\ (me.at # "queue" => me.queue)
  BY <1>m, <1>1 DEF ReadsWell, Listing
<1>h. \A x \in Chains : Had(slots[x], Asked(me.since[x]), Filled(slots[x]))
  BY <1>m DEF ReadsWell
\* The next step of the same call.
<1>3. ASSUME NEW y, caller' = [caller EXCEPT ![r] = y], y = [f \in Fields |-> y[f]], y.op = "list",
             y.reply = "none", y.since = me.since, y.at \in Listing,
             y.again => queueDir /\ (y.at # "queue" => y.queue),
             y.at = "collect" => \A c \in Chains : Begun(y, c),
             y.at = "requests" =>
               \A c \in Chains :
                 /\ y.seen[c] = "malformed" \/ Timely(slots[c], y.seen[c], Asked(y.since[c]))
                 /\ y.seen[c] # "pending" => "Q" \in disk[c]
      PROVE  CallsInv'
  <2>1. Placed(y)
    BY <1>3 DEF Placed, Deciding, Listing
  <2>2. DecidesWell(y)
    BY <1>3 DEF DecidesWell, Listing
  <2>3. ReadsWell(y)
    BY <1>3, <1>h DEF ReadsWell, Listing
  <2>4. y.at # "link"
    BY <1>3 DEF Listing
  <2> QED BY <1>0, <1>3, <2>1, <2>2, <2>3, <2>4, Turn
<1>4. CASE GateQueue(r)
  <2> DEFINE y == [me EXCEPT !.at = "decisions", !.queue = queueDir]
  <2>1. caller' = [caller EXCEPT ![r] = y]
    BY <1>4, <1>m DEF GateQueue, Fields
  <2>2. /\ y = [f \in Fields |-> y[f]] /\ y.at = "decisions" /\ y.queue = queueDir
        /\ y.op = "list" /\ y.again = me.again /\ y.reply = "none" /\ y.since = me.since
    BY <1>m, <1>1 DEF Fields
  <2> HIDE DEF y
  <2>3. y.again => queueDir /\ (y.at # "queue" => y.queue)
    BY <1>2, <2>2
  <2> QED BY <1>3, <2>1, <2>2, <2>3 DEF Listing
<1>5. CASE GateDecisions(r)
  <2>1. me.at = "decisions"
    BY <1>5 DEF GateDecisions
  <2>2. CASE decisionsDir
    <3> DEFINE low == [c \in Chains |-> Published(c)]
               y == [me EXCEPT !.at = "collect", !.low = low]
    <3>1. caller' = [caller EXCEPT ![r] = y]
      BY <1>5, <1>m, <2>2 DEF GateDecisions, Fields
    <3>2. /\ y = [f \in Fields |-> y[f]] /\ y.at = "collect" /\ y.queue = me.queue /\ y.low = low
          /\ y.op = "list" /\ y.again = me.again /\ y.reply = "none" /\ y.since = me.since
      BY <1>m, <1>1 DEF Fields
    <3> HIDE DEF y
    <3>3. ASSUME NEW c \in Chains PROVE Begun(y, c)
      <4>1. y.low[c] = Filled(slots[c])
        BY <3>2, ReadIs
      <4> QED BY <1>h, <3>2, <4>1 DEF Begun
    <3>4. y.again => queueDir /\ (y.at # "queue" => y.queue)
      BY <1>2, <2>1, <3>2
    <3> HIDE DEF low
    <3> QED BY <1>3, <3>1, <3>2, <3>3, <3>4 DEF Listing
  <2>3. CASE ~decisionsDir
    <3> DEFINE y == [me EXCEPT !.at = "requests", !.seen = AllPending]
    <3>1. caller' = [caller EXCEPT ![r] = y]
      BY <1>5, <1>m, <2>3 DEF GateDecisions, Fields
    <3>2. /\ y = [f \in Fields |-> y[f]] /\ y.at = "requests" /\ y.queue = me.queue
          /\ y.seen = AllPending
          /\ y.op = "list" /\ y.again = me.again /\ y.reply = "none" /\ y.since = me.since
      BY <1>m, <1>1 DEF Fields
    <3> HIDE DEF y
    <3>3. ASSUME NEW c \in Chains
          PROVE  y.seen[c] = "pending" /\ Timely(slots[c], y.seen[c], Asked(y.since[c]))
      <4>1. y.seen[c] = "pending"
        BY <3>2 DEF AllPending
      <4>2. Filled(slots[c]) = {}
        BY <2>3 DEF SlotsInv
      <4>3. PICK names \in SUBSET Seqs :
              names \subseteq Filled(slots[c]) /\ Asked(me.since[c]) = reduce_state(Part(slots[c], names))
        BY <1>h DEF Had
      <4>4. Asked(me.since[c]) = "pending"
        BY <4>2, <4>3, PartIs, Reduced
      <4> QED BY <3>2, <4>1, <4>4 DEF Timely
    <3>4. y.again => queueDir /\ (y.at # "queue" => y.queue)
      BY <1>2, <2>1, <3>2
    <3> QED BY <1>3, <3>1, <3>2, <3>3, <3>4 DEF Listing
  <2> QED BY <2>2, <2>3
<1>6. CASE CollectDecisions(r)
  <2>1. me.at = "collect" /\ \A c \in Chains : Begun(me, c)
    BY <1>6, <1>m DEF CollectDecisions, ReadsWell
  <2>2. PICK names \in [Chains -> SUBSET Seqs] :
          /\ \A c \in Chains : Listed(r, c, names[c])
          /\ caller' = [caller EXCEPT ![r].at = "requests", ![r].low = Nothing,
                          ![r].seen = [c \in Chains |-> reduce_state(Read(c, names[c]))]]
    BY <1>6 DEF CollectDecisions
  <2> DEFINE seen == [c \in Chains |-> reduce_state(Read(c, names[c]))]
             y == [me EXCEPT !.at = "requests", !.low = Nothing, !.seen = seen]
  <2>3. caller' = [caller EXCEPT ![r] = y]
    BY <2>2, <1>m DEF Fields
  <2>4. /\ y = [f \in Fields |-> y[f]] /\ y.at = "requests" /\ y.queue = me.queue /\ y.seen = seen
        /\ y.op = "list" /\ y.again = me.again /\ y.reply = "none" /\ y.since = me.since
    BY <1>m, <1>1 DEF Fields
  <2> HIDE DEF y
  <2>5. ASSUME NEW c \in Chains
        PROVE  /\ y.seen[c] = "malformed" \/ Timely(slots[c], y.seen[c], Asked(y.since[c]))
               /\ y.seen[c] # "pending" => "Q" \in disk[c]
    <3>1. y.seen[c] = reduce_state(Part(slots[c], names[c]))
      BY <2>4, ReadIs
    <3>2. me.low[c] \subseteq names[c] /\ names[c] \subseteq Filled(slots[c]) /\ names[c] \in SUBSET Seqs
      BY <2>2, ListedIs
    <3>3. Legal(slots[c]) /\ Had(slots[c], Asked(me.since[c]), me.low[c])
      BY <2>1 DEF SlotsInv, Begun
    <3>4. y.seen[c] = "malformed" \/ Timely(slots[c], y.seen[c], Asked(y.since[c]))
      BY <2>4, <3>1, <3>2, <3>3, SeenTimely
    <3>5. CASE Filled(slots[c]) = {}
      <4>1. names[c] = {}
        BY <3>2, <3>5
      <4>2. y.seen[c] = "pending"
        BY <3>1, <4>1, PartIs, Reduced
      <4> QED BY <3>4, <4>2
    <3>6. CASE Filled(slots[c]) # {}
      BY <3>4, <3>6 DEF SlotsInv
    <3> QED BY <3>5, <3>6
  <2>6. y.again => queueDir /\ (y.at # "queue" => y.queue)
    BY <1>2, <2>1, <2>4
  <2> HIDE DEF seen
  <2> QED BY <1>3, <2>3, <2>4, <2>5, <2>6 DEF Listing
<1>7. CASE CollectRequests(r)
  <2> DEFINE orphans == {c \in Chains : me.seen[c] # "pending"} \ RequestsSeen(r)
             shown == [c \in Chains |-> IF c \in RequestsSeen(r) THEN me.seen[c] ELSE "absent"]
  <2>1. /\ me.at = "requests"
        /\ \A c \in Chains :
             /\ me.seen[c] = "malformed" \/ Timely(slots[c], me.seen[c], Asked(me.since[c]))
             /\ me.seen[c] # "pending" => "Q" \in disk[c]
    BY <1>7, <1>m DEF CollectRequests, ReadsWell
  <2>2. CASE orphans # {} /\ ~me.again
    <3> DEFINE y == [me EXCEPT !.at = "queue", !.again = TRUE, !.seen = AllPending]
    <3>1. caller' = [caller EXCEPT ![r] = y]
      BY <1>7, <1>m, <2>2 DEF CollectRequests, Fields
    <3>2. /\ y = [f \in Fields |-> y[f]] /\ y.at = "queue"
          /\ y.op = "list" /\ y.reply = "none" /\ y.since = me.since
      BY <1>m, <1>1 DEF Fields
    <3>3. queueDir
      BY <2>1, <2>2 DEF SlotsInv
    <3> HIDE DEF y
    <3> QED BY <1>3, <3>1, <3>2, <3>3 DEF Listing
  <2>3. CASE orphans # {} /\ me.again
    <3>1. me.queue
      BY <1>2, <2>1, <2>3
    <3>2. RequestsSeen(r) = {c \in Chains : "Q" \in disk[c]}
      BY <3>1 DEF RequestsSeen
    <3> QED BY <2>1, <2>3, <3>2
  <2>4. CASE orphans = {} /\ \E c \in Chains : shown[c] = "malformed"
    <3>1. caller' = [caller EXCEPT ![r] = Returned(r, "malformed", AllPending)]
      BY <1>7, <2>4 DEF CollectRequests
    <3>2. PICK reply : reply = "malformed"
      OBVIOUS
    <3>3. caller' = [caller EXCEPT ![r] = Returned(r, reply, AllPending)]
      BY <3>1, <3>2
    <3>4. reply \notin {"published", "idempotent", "orphan", "shown", "listed"}
      BY <3>2
    <3> QED BY <1>0, <3>3, <3>4, Answered
  <2>5. CASE orphans = {} /\ ~\E c \in Chains : shown[c] = "malformed"
    <3>1. caller' = [caller EXCEPT ![r] = Returned(r, "listed", shown)]
      BY <1>7, <2>5 DEF CollectRequests
    <3>2. ASSUME NEW c \in Chains PROVE Current(slots[c], shown[c], me.since[c])
      BY <2>1, <2>5 DEF Current
    <3> HIDE DEF shown
    <3>3. PICK reply : reply = "listed"
      OBVIOUS
    <3>4. \A c \in Chains : Current(slots[c], shown[c], caller[r].since[c])
      BY <3>2
    <3>5. caller' = [caller EXCEPT ![r] = Returned(r, reply, shown)]
      BY <3>1, <3>3
    <3>6. reply \notin {"published", "idempotent", "orphan", "shown"}
      BY <3>3
    <3>7. reply = "listed" => /\ caller[r].op = "list"
                              /\ \A c \in Chains : Current(slots[c], shown[c], caller[r].since[c])
      BY <1>1, <3>4
    <3> QED BY <1>0, <3>5, <3>6, <3>7, Answered
  <2> QED BY <2>2, <2>3, <2>4, <2>5
<1> QED BY <1>4, <1>5, <1>6, <1>7

\* The slot is created, or found taken and then read again.
LEMMA LinkStep ==
  ASSUME SlotsInv, CallsInv, NEW r \in Callers, LinkSlot(r)
  PROVE  /\ SlotsInv' /\ CallsInv'
         /\ \/ slots' = slots
            \/ \E c \in Chains, d \in Commands :
                 /\ slots' = [slots EXCEPT ![c][d.seq] = d] /\ slots[c][d.seq] = None
                 /\ d.seq \in Seqs /\ "Q" \in disk[c]
                 /\ d.seq = 2 => /\ slots[c][1] # None /\ slots[c][1].action = "defer"
                                 /\ d.action # "defer"
<1> DEFINE me == caller[r]
           c == me.chain
           n == me.cmd.seq
<1>m. /\ Placed(me) /\ DecidesWell(me) /\ ReadsWell(me)
      /\ r \in DOMAIN caller /\ me = [f \in Fields |-> me[f]]
  BY Parts
<1>1. /\ me.at = "link" /\ me.op = "decide" /\ c \in Chains /\ me.cmd \in Commands /\ me.reply = "none"
      /\ decisionsDir /\ "Q" \in disk[c]
      /\ UNCHANGED <<disk, queueDir, decisionsDir, writer>>
  BY <1>m DEF LinkSlot, Placed, Deciding, DecidesWell, CallsInv
<1>2. n \in Seqs /\ me.cmd # None
  BY <1>1, ReviewAssumption DEF Seqs
<1>3. me.again => queueDir /\ me.queue
  BY <1>m, <1>1 DEF ReadsWell
<1>4. CASE slots[c][n] # None
  <2> DEFINE low == [Nothing EXCEPT ![c] = Published(c)]
             y == [me EXCEPT !.at = "scan", !.low = low]
  <2>1. slots' = slots /\ caller' = [caller EXCEPT ![r] = y]
    BY <1>4, <1>m DEF LinkSlot, Fields
  <2>2. /\ y = [f \in Fields |-> y[f]] /\ y.at = "scan" /\ y.op = "decide" /\ y.chain = c
        /\ y.cmd = me.cmd /\ y.again = me.again /\ y.queue = me.queue /\ y.reply = "none"
        /\ y.since = me.since
    BY <1>m, <1>1 DEF Fields
  <2> HIDE DEF y, low
  <2>3. Placed(y)
    BY <1>1, <2>2 DEF Placed, Deciding, Listing
  <2>4. DecidesWell(y)
    BY <1>1, <2>2 DEF DecidesWell
  <2>5. ReadsWell(y)
    <3>1. \A x \in Chains : Had(slots[x], Asked(y.since[x]), Filled(slots[x]))
      BY <1>m, <2>2 DEF ReadsWell
    <3> QED BY <1>3, <2>2, <3>1 DEF ReadsWell
  <2>6. y.at # "link" /\ Aside
    BY <1>1, <2>1, <2>2 DEF Aside
  <2>7. CallsInv'
    BY <2>1, <2>3, <2>4, <2>5, <2>6, Turn
  <2>8. SlotsInv'
    BY <1>1, <2>1 DEF SlotsInv
  <2> QED BY <2>1, <2>7, <2>8
<1>5. CASE slots[c][n] = None
  <2> DEFINE y == [me EXCEPT !.at = "confirm"]
  <2>1. slots' = [slots EXCEPT ![c][n] = me.cmd] /\ caller' = [caller EXCEPT ![r] = y]
    BY <1>5, <1>m DEF LinkSlot, Fields
  <2>2. /\ y = [f \in Fields |-> y[f]] /\ y.at = "confirm" /\ y.op = "decide" /\ y.chain = c
        /\ y.cmd = me.cmd /\ y.again = me.again /\ y.queue = me.queue /\ y.reply = "none"
        /\ y.since = me.since
    BY <1>m, <1>1 DEF Fields
  <2> HIDE DEF y
  <2>3. /\ slots' = [x \in Chains |-> slots'[x]]
        /\ \A x \in Chains : /\ x # c => slots'[x] = slots[x]
                             /\ slots'[x] = [k \in Seqs |-> slots'[x][k]]
        /\ \A k \in Seqs : slots'[c][k] = IF k = n THEN me.cmd ELSE slots[c][k]
    BY <1>1, <1>2, <2>1 DEF SlotsInv
  <2>4. n = 2 => /\ slots[c][1] # None /\ slots[c][1].action = "defer" /\ me.cmd.action # "defer"
    BY <1>1, <1>m DEF DecidesWell
  <2>5. ASSUME NEW x \in Chains PROVE Legal(slots'[x]) /\ More(slots[x], slots'[x])
    <3>1. CASE x # c
      BY <2>3, <3>1 DEF SlotsInv, More
    <3>2. CASE x = c
      <4>1. Legal(slots[c])
        BY <1>1 DEF SlotsInv
      <4>2. More(slots[c], slots'[c])
        BY <1>5, <2>3 DEF More
      <4>3. \A k \in Seqs : slots'[c][k] # None => slots'[c][k] \in Commands /\ slots'[c][k].seq = k
        BY <1>1, <2>3, <4>1 DEF Legal
      <4>4. slots'[c][2] # None =>
              slots'[c][1] # None /\ slots'[c][1].action = "defer" /\ slots'[c][2].action # "defer"
        <5>1. CASE n = 1
          <6>1. slots[c][2] = None
            BY <1>5, <4>1, <5>1 DEF Legal
          <6> QED BY <2>3, <5>1, <6>1 DEF Seqs
        <5>2. CASE n = 2
          BY <2>3, <2>4, <5>2 DEF Seqs
        <5> QED BY <1>2, <5>1, <5>2 DEF Seqs
      <4> QED BY <3>2, <4>2, <4>3, <4>4 DEF Legal
    <3> QED BY <3>1, <3>2
  <2>6. SlotsInv'
    <3>1. ASSUME NEW x \in Chains, Filled(slots'[x]) # {} PROVE "Q" \in disk'[x] /\ decisionsDir'
      <4>1. CASE x = c
        BY <1>1, <4>1
      <4>2. CASE x # c
        BY <1>1, <2>3, <3>1, <4>2 DEF SlotsInv
      <4> QED BY <4>1, <4>2
    <3> QED BY <1>1, <2>3, <2>5, <3>1 DEF SlotsInv
  <2>7. \A q \in Callers : caller'[q] = IF q = r THEN y ELSE caller[q]
    BY <2>1 DEF CallsInv
  <2>8. ASSUME NEW q \in Callers
        PROVE  Placed(caller[q])' /\ DecidesWell(caller[q])' /\ ReadsWell(caller[q])'
    <3>1. CASE q # r
      <4>1. caller'[q] = caller[q] /\ Placed(caller[q]) /\ DecidesWell(caller[q]) /\ ReadsWell(caller[q])
        BY <2>7, <3>1 DEF CallsInv
      <4>2. \A x \in Chains : disk[x] \subseteq disk'[x] /\ More(slots[x], slots'[x])
        BY <1>1, <2>5
      <4>3. queueDir => queueDir'
        BY <1>1
      <4> QED BY <2>6, <4>1, <4>2, <4>3, Stays
    <3>2. CASE q = r
      <4>1. caller'[q] = y
        BY <2>7, <3>2
      <4>2. Placed(caller[q])'
        BY <1>1, <2>2, <4>1 DEF Placed, Deciding, Listing
      <4>3. DecidesWell(caller[q])'
        <5>1. slots'[c][n] = me.cmd
          BY <1>2, <2>3
        <5> QED BY <1>1, <2>2, <4>1, <5>1 DEF DecidesWell
      <4>4. \A x \in Chains : Had(slots'[x], Asked(y.since[x]), Filled(slots'[x]))
        <5> TAKE x \in Chains
        <5>1. Had(slots[x], Asked(me.since[x]), Filled(slots[x]))
          BY <1>m DEF ReadsWell
        <5>2. More(slots[x], slots'[x])
          BY <2>5
        <5>3. Had(slots'[x], Asked(me.since[x]), Filled(slots[x])) /\ Filled(slots[x]) \subseteq Filled(slots'[x])
          BY <5>1, <5>2, HadGrows
        <5> QED BY <2>2, <5>3, HadWider
      <4>5. ReadsWell(caller[q])'
        BY <1>1, <1>3, <2>2, <4>1, <4>4 DEF ReadsWell
      <4> QED BY <4>2, <4>3, <4>5
    <3> QED BY <3>1, <3>2
  <2>9. CallsInv'
    <3>1. caller' = [q \in Callers |-> caller'[q]]
      BY <2>1 DEF CallsInv
    <3>2. \A q \in Callers : caller'[q].at = "link" => decisionsDir'
      BY <1>1
    <3> QED BY <2>8, <3>1, <3>2 DEF CallsInv
  <2> QED BY <1>1, <1>2, <1>5, <2>1, <2>4, <2>6, <2>9
<1> QED BY <1>4, <1>5

\* The writer's steps: an artifact is added, or nothing that callers read.
LEMMA WriterAside ==
  ASSUME WriterInv, SlotsInv, CallsInv, WriterNext
  PROVE  /\ SlotsInv' /\ CallsInv' /\ slots' = slots
         /\ \/ disk' = disk
            \/ \E c \in Chains : \E a : disk' = [disk EXCEPT ![c] = @ \cup {a}]
<1>0. UNCHANGED <<slots, caller, decisionsDir>>
  BY DEF WriterNext, PersistLearningChain, ResumeLearningChain, Preflight, Probe, WriteArtifact,
     LinkArtifact, UnlinkTemp, ChainDone, WriterStops
<1>1. ASSUME SlotsInv', queueDir => queueDir', \A c \in Chains : disk[c] \subseteq disk'[c]
      PROVE  CallsInv'
  <2>1. ASSUME NEW q \in Callers
        PROVE  Placed(caller[q])' /\ DecidesWell(caller[q])' /\ ReadsWell(caller[q])'
    <3>1. caller'[q] = caller[q] /\ Placed(caller[q]) /\ DecidesWell(caller[q]) /\ ReadsWell(caller[q])
      BY <1>0 DEF CallsInv
    <3>2. \A x \in Chains : disk[x] \subseteq disk'[x] /\ More(slots[x], slots'[x])
      BY <1>0, <1>1 DEF More
    <3> QED BY <1>1, <3>1, <3>2, Stays
  <2> QED BY <1>0, <2>1 DEF CallsInv
<1>2. CASE UNCHANGED <<disk, queueDir>> /\ writer'.at # "link"
  <2>1. SlotsInv'
    BY <1>0, <1>2 DEF SlotsInv
  <2> QED BY <1>0, <1>1, <1>2, <2>1
<1>3. CASE WriteArtifact
  <2>1. PICK i \in DOMAIN Plan[writer.chain] :
          /\ queueDir' = (queueDir \/ Plan[writer.chain][i] = "Q") /\ disk' = disk
          /\ writer' = [writer EXCEPT !.at = "link", !.item = Plan[writer.chain][i]]
    BY <1>3 DEF WriteArtifact
  <2>2. writer'.item = Plan[writer.chain][i]
    BY <2>1 DEF WriterInv
  <2>3. (queueDir => queueDir') /\ (writer'.item = "Q" => queueDir')
    BY <2>1, <2>2
  <2>4. SlotsInv'
    BY <1>0, <2>1, <2>3 DEF SlotsInv
  <2> QED BY <1>0, <1>1, <2>1, <2>3, <2>4
<1>4. CASE LinkArtifact
  <2>1. /\ writer.at = "link" /\ disk' = [disk EXCEPT ![writer.chain] = @ \cup {writer.item}]
        /\ writer' = [writer EXCEPT !.at = "unlink"] /\ queueDir' = queueDir
        /\ writer.chain \in Chains
    BY <1>4 DEF LinkArtifact, WriterInv
  <2>2. /\ \A c \in Chains : disk'[c] = IF c = writer.chain THEN disk[c] \cup {writer.item} ELSE disk[c]
        /\ writer'.at = "unlink"
    BY <2>1 DEF WriterInv
  <2>3. writer.item = "Q" => queueDir
    BY <2>1 DEF SlotsInv
  <2>4. SlotsInv'
    BY <1>0, <2>1, <2>2, <2>3 DEF SlotsInv
  <2>5. (queueDir => queueDir') /\ \A c \in Chains : disk[c] \subseteq disk'[c]
    BY <2>1, <2>2
  <2>6. CallsInv'
    BY <1>1, <2>4, <2>5
  <2>7. \E c \in Chains : \E a : disk' = [disk EXCEPT ![c] = @ \cup {a}]
    BY <2>1
  <2> QED BY <1>0, <2>4, <2>6, <2>7
<1>5. CASE \/ \E c \in Chains : PersistLearningChain(c) \/ ResumeLearningChain(c)
           \/ Preflight \/ Probe \/ UnlinkTemp \/ ChainDone \/ WriterStops
  <2>1. UNCHANGED <<disk, queueDir>>
    <3>1. CASE \E c \in Chains : PersistLearningChain(c) \/ ResumeLearningChain(c)
      BY <3>1 DEF PersistLearningChain, ResumeLearningChain
    <3>2. CASE Preflight \/ Probe
      BY <3>2 DEF Preflight, Probe
    <3>3. CASE UnlinkTemp \/ ChainDone \/ WriterStops
      BY <3>3 DEF UnlinkTemp, ChainDone, WriterStops
    <3> QED BY <1>5, <3>1, <3>2, <3>3
  <2>2. writer'.at # "link"
    <3>1. CASE \E c \in Chains : PersistLearningChain(c) \/ ResumeLearningChain(c)
      BY <3>1 DEF PersistLearningChain, ResumeLearningChain
    <3>2. CASE Preflight \/ Probe
      BY <3>2 DEF Preflight, Probe, WriterInv, Resting
    <3>3. CASE UnlinkTemp
      <4>1. writer' = [writer EXCEPT !.at = "next", !.item = None]
        BY <3>3 DEF UnlinkTemp
      <4> QED BY <4>1 DEF WriterInv
    <3>4. CASE ChainDone \/ WriterStops
      BY <3>4 DEF ChainDone, WriterStops, Resting
    <3> QED BY <1>5, <3>1, <3>2, <3>3, <3>4
  <2> QED BY <1>2, <2>1, <2>2
<1> QED BY <1>3, <1>4, <1>5 DEF WriterNext

\* The steps of a caller that link no slot.
LEMMA CallerAside ==
  ASSUME SlotsInv, CallsInv, NEW r \in Callers, CallerNext(r), ~LinkSlot(r)
  PROVE  SlotsInv' /\ CallsInv' /\ disk' = disk /\ slots' = slots
<1>1. UNCHANGED <<disk, slots, queueDir, writer>> /\ (decisionsDir => decisionsDir')
  <2>1. CASE \E c \in Chains : Show(r, c) \/ \E cmd \in Commands : Decide(r, c, cmd)
    BY <2>1 DEF Show, Decide, Call
  <2>2. CASE OpenNamespace(r) \/ ReadDecision(r) \/ ReadMissing(r)
    BY <2>2 DEF OpenNamespace, ReadDecision, ReadMissing, OnlyCaller
  <2>3. CASE WriteTemp(r) \/ Confirm(r) \/ ListAll(r) \/ CallerStops(r)
    BY <2>3 DEF WriteTemp, Confirm, ListAll, Call, CallerStops
  <2>4. CASE ShowDirectories(r) \/ ShowChain(r) \/ ShowEvents(r)
    BY <2>4 DEF ShowDirectories, ShowChain, ShowEvents, OnlyCaller
  <2>5. CASE GateQueue(r) \/ GateDecisions(r) \/ CollectDecisions(r) \/ CollectRequests(r)
    <3>1. OnlyCaller
      BY <2>5 DEF GateQueue, GateDecisions, CollectDecisions, CollectRequests
    <3> QED BY <3>1 DEF OnlyCaller
  <2> QED BY <2>1, <2>2, <2>3, <2>4, <2>5 DEF CallerNext
<1>2. SlotsInv'
  BY <1>1 DEF SlotsInv
<1>3. CallsInv'
  <2>1. ASSUME NEW c \in Chains, Show(r, c) PROVE CallsInv'
    BY <2>1, Called DEF Show
  <2>2. ASSUME NEW c \in Chains, NEW cmd \in Commands, Decide(r, c, cmd) PROVE CallsInv'
    <3>1. PICK at : at = IF "Q" \in disk[c] THEN "namespace" ELSE "missing"
      OBVIOUS
    <3>2. Call(r, "decide", c, cmd, at)
      BY <2>2, <3>1 DEF Decide
    <3>3. at = "missing" \/ (at = "namespace" /\ "Q" \in disk[c])
      BY <3>1
    <3>4. PICK op : op = "decide"
      OBVIOUS
    <3>5. Call(r, op, c, cmd, at) /\ op = "decide" /\ c \in Chains /\ cmd \in Commands
      BY <2>2, <3>2, <3>4
    <3>6. CASE at = "missing"
      BY <3>5, <3>6, Called
    <3>7. CASE at = "namespace" /\ "Q" \in disk[c]
      BY <3>5, <3>7, Called
    <3> QED BY <3>3, <3>6, <3>7
  <2>3. CASE ListAll(r)
    BY <2>3, Called DEF ListAll
  <2>4. CASE CallerStops(r)
    <3>1. PICK reply : reply = "failed"
      OBVIOUS
    <3>2. caller' = [caller EXCEPT ![r] = Returned(r, reply, AllPending)] /\ Aside
      BY <1>1, <2>4, <3>1 DEF CallerStops, Reply, Aside
    <3>3. reply \notin {"published", "idempotent", "orphan", "shown", "listed"}
      BY <3>1
    <3> QED BY <3>2, <3>3, Answered
  <2> QED BY <2>1, <2>2, <2>3, <2>4, DecideStep, ShowStep, ListStep DEF CallerNext
<1> QED BY <1>1, <1>2, <1>3

\* What ReviewStore's calls have read is of some moment since they began, and what
\* they answer to decide is in its slot.
THEOREM Calls == Spec => [](WriterInv /\ SlotsInv /\ CallsInv)
<1>1. Init => SlotsInv /\ CallsInv
  <2> SUFFICES ASSUME Init PROVE SlotsInv /\ CallsInv
    OBVIOUS
  <2>1. SlotsInv
    BY DEF Init, SlotsInv, Legal, Filled, Seqs, Resting
  <2>2. ASSUME NEW r \in Callers PROVE Placed(caller[r]) /\ DecidesWell(caller[r]) /\ ReadsWell(caller[r])
    <3>1. caller[r] = [at |-> "idle", op |-> "none", chain |-> None, cmd |-> NoCommand, queue |-> FALSE,
                       decisions |-> FALSE, again |-> FALSE, low |-> Nothing, since |-> NotYet,
                       seen |-> AllPending, reply |-> "none"]
      BY DEF Init
    <3>2. Placed(caller[r]) /\ DecidesWell(caller[r])
      BY <3>1 DEF Placed, DecidesWell, Fields, Deciding, Listing
    <3>3. ASSUME NEW c \in Chains PROVE Had(slots[c], Asked(caller[r].since[c]), Filled(slots[c]))
      <4>1. Part(slots[c], {})[1] = None /\ Part(slots[c], {})[2] = None
        BY PartIs
      <4>2. Asked(caller[r].since[c]) = reduce_state(Part(slots[c], {}))
        BY <3>1, <4>1, Reduced DEF NotYet, Asked
      <4> QED BY <4>2 DEF Had
    <3>4. ReadsWell(caller[r])
      BY <3>1, <3>3 DEF ReadsWell
    <3> QED BY <3>2, <3>4
  <2>3. caller = [r \in Callers |-> caller[r]] /\ \A r \in Callers : caller[r].at # "link"
    BY DEF Init
  <2> QED BY <2>1, <2>2, <2>3 DEF CallsInv
<1>2. WriterInv /\ SlotsInv /\ CallsInv /\ [Next]_vars => SlotsInv' /\ CallsInv'
  <2>1. ASSUME SlotsInv, CallsInv, UNCHANGED vars PROVE SlotsInv' /\ CallsInv'
    <3>1. SlotsInv'
      BY <2>1 DEF vars, SlotsInv
    <3>2. CallsInv'
      BY <2>1 DEF vars, CallsInv, Placed, DecidesWell, ReadsWell, Begun
    <3> QED BY <3>1, <3>2
  <2>2. ASSUME WriterInv, SlotsInv, CallsInv, Next PROVE SlotsInv' /\ CallsInv'
    BY <2>2, WriterAside, CallerAside, LinkStep DEF Next
  <2> QED BY <2>1, <2>2
<1> QED BY <1>1, <1>2, Writer, PTL DEF Spec

\* Whoever was told that his decision is recorded has it in its slot from then on,
\* so two callers with different decisions are never both told so.
THEOREM AnswersHoldAlways == Spec => []AnswersHold
<1>1. CallsInv => AnswersHold
  BY DEF CallsInv, DecidesWell, AnswersHold
<1> QED BY <1>1, Calls, PTL

\* A request that was there when a call began still is, and its list looks into the
\* queue; what a list leaves out was not there.
KnowsOf(me) ==
  /\ \A c \in Chains : me.since[c] # "absent" => "Q" \in disk[c]
  /\ me.at \in {"decisions", "collect", "requests"} =>
       \A c \in Chains : me.since[c] # "absent" => me.queue
  /\ me.reply = "listed" =>
       \A c \in Chains : me.seen[c] = "absent" => me.since[c] = "absent"
ListsAll == \A r \in Callers : KnowsOf(caller[r])

\* Steps that leave the calls alone, or one call's knowledge as it is.
LEMMA KnowsStays ==
  ASSUME ListsAll, CallsInv, \A c \in Chains : disk[c] \subseteq disk'[c], NEW r \in Callers,
         NEW y, caller' = [caller EXCEPT ![r] = y], y.since = caller[r].since,
         y.reply # "listed", y.at \notin {"decisions", "collect", "requests"}
  PROVE  ListsAll'
<1>1. \A q \in Callers : caller'[q] = IF q = r THEN y ELSE caller[q]
  BY DEF CallsInv
<1>2. ASSUME NEW q \in Callers PROVE KnowsOf(caller[q])'
  BY <1>1 DEF KnowsOf, ListsAll
<1> QED BY <1>2 DEF ListsAll

LEMMA KnowsSame ==
  ASSUME ListsAll, \A c \in Chains : disk[c] \subseteq disk'[c], caller' = caller
  PROVE  ListsAll'
BY DEF ListsAll, KnowsOf

\* The steps of list, and a call that begins.
LEMMA KnowsStep ==
  ASSUME ListsAll, SlotsInv, CallsInv, disk' = disk, NEW r \in Callers, NEW y,
         caller' = [caller EXCEPT ![r] = y], KnowsOf(y)
  PROVE  ListsAll'
<1>1. \A q \in Callers : caller'[q] = IF q = r THEN y ELSE caller[q]
  BY DEF CallsInv
<1> QED BY <1>1 DEF ListsAll, KnowsOf

\* A call that answers something else than a list.
LEMMA KnowsReply ==
  ASSUME ListsAll, CallsInv, disk' = disk, NEW r \in Callers, NEW reply, NEW seen,
         caller' = [caller EXCEPT ![r] = Returned(r, reply, seen)], reply # "listed"
  PROVE  ListsAll'
<1> DEFINE y == Returned(r, reply, seen)
<1>1. y.since = caller[r].since /\ y.reply = reply /\ y.at = "idle"
  BY DEF Returned
<1>2. caller' = [caller EXCEPT ![r] = y]
  OBVIOUS
<1> HIDE DEF y
<1> QED BY <1>1, <1>2, KnowsStays

LEMMA KnowsDecide ==
  ASSUME ListsAll, CallsInv, NEW r \in Callers,
         \/ OpenNamespace(r) \/ ReadDecision(r) \/ ReadMissing(r) \/ WriteTemp(r)
         \/ LinkSlot(r) \/ Confirm(r) \/ CallerStops(r)
  PROVE  ListsAll'
<1> DEFINE me == caller[r]
<1>0. disk' = disk /\ me.at # "idle"
  BY DEF OpenNamespace, ReadDecision, ReadMissing, WriteTemp, LinkSlot, Confirm, CallerStops, OnlyCaller
<1>m. Placed(me) /\ r \in DOMAIN caller /\ me = [f \in Fields |-> me[f]]
  BY Parts
\* The directory is opened, a file is written or linked, or the loser reads again.
<1>1. ASSUME NEW at, at \notin {"decisions", "collect", "requests"},
             caller' = [caller EXCEPT ![r].at = at]
      PROVE  ListsAll'
  <2> DEFINE y == [me EXCEPT !.at = at]
  <2>1. caller' = [caller EXCEPT ![r] = y]
    BY <1>m, <1>1 DEF Fields
  <2>2. y.since = me.since /\ y.reply = "none" /\ y.at = at
    BY <1>m, <1>0 DEF Fields, Placed
  <2> HIDE DEF y
  <2> QED BY <1>0, <1>1, <2>1, <2>2, KnowsStays
<1>2. ASSUME NEW at, at \notin {"decisions", "collect", "requests"}, NEW low,
             caller' = [caller EXCEPT ![r].at = at, ![r].low = low]
      PROVE  ListsAll'
  <2> DEFINE y == [me EXCEPT !.at = at, !.low = low]
  <2>1. caller' = [caller EXCEPT ![r] = y]
    BY <1>m, <1>2 DEF Fields
  <2>2. y.since = me.since /\ y.reply = "none" /\ y.at = at
    BY <1>m, <1>0 DEF Fields, Placed
  <2> HIDE DEF y
  <2> QED BY <1>0, <1>2, <2>1, <2>2, KnowsStays
<1>3. ASSUME NEW reply, reply # "listed", Reply(r, reply) PROVE ListsAll'
  BY <1>0, <1>3, KnowsReply DEF Reply
<1>4. CASE OpenNamespace(r)
  <2>1. CASE decisionsDir
    <3>1. PICK at : at = IF me.at = "missing" THEN "orphans" ELSE "scan"
      OBVIOUS
    <3>2. PICK low : low = [Nothing EXCEPT ![me.chain] = Published(me.chain)]
      OBVIOUS
    <3>3. caller' = [caller EXCEPT ![r].at = at, ![r].low = low]
      BY <1>4, <2>1, <3>1, <3>2 DEF OpenNamespace
    <3>4. at \notin {"decisions", "collect", "requests"}
      BY <3>1
    <3> QED BY <1>2, <3>3, <3>4
  <2>2. CASE ~decisionsDir
    <3>1. PICK at : at = "publish"
      OBVIOUS
    <3>2. \/ caller' = [caller EXCEPT ![r].at = at]
          \/ Reply(r, "missing") \/ Reply(r, "refused")
      BY <1>4, <2>2, <3>1 DEF OpenNamespace
    <3> QED BY <1>1, <1>3, <3>1, <3>2
  <2> QED BY <2>1, <2>2
<1>5. CASE ReadDecision(r)
  <2>1. PICK names : Judge(r, Read(me.chain, names))
    BY <1>5 DEF ReadDecision
  <2>2. PICK at : at = "publish"
    OBVIOUS
  <2>3. \/ caller' = [caller EXCEPT ![r].at = at, ![r].low = Nothing]
        \/ \E reply \in {"malformed", "idempotent", "conflict", "refused"} : Reply(r, reply)
    <3> DEFINE e == Read(me.chain, names)
    <3>1. CASE reduce_state(e) = "malformed"
      BY <2>1, <3>1 DEF Judge
    <3>2. CASE reduce_state(e) # "malformed" /\ e[me.cmd.seq] = me.cmd /\ me.cmd # None
      <4> HIDE DEF e
      <4> QED BY <2>1, <2>2, <3>2 DEF Judge, e
    <3> HIDE DEF e
    <3> QED BY <2>1, <2>2, <3>1 DEF Judge, e
  <2> QED BY <1>2, <1>3, <2>2, <2>3
<1>6. CASE ReadMissing(r)
  <2>1. PICK names : Reply(r, CASE names = {} -> "missing"
                  [] names # {} /\ reduce_state(Read(me.chain, names)) = "malformed" -> "malformed"
                  [] OTHER -> "orphan")
    BY <1>6 DEF ReadMissing
  <2>2. PICK reply : reply = CASE names = {} -> "missing"
                  [] names # {} /\ reduce_state(Read(me.chain, names)) = "malformed" -> "malformed"
                  [] OTHER -> "orphan"
    OBVIOUS
  <2>3. Reply(r, reply) /\ reply # "listed"
    BY <2>1, <2>2
  <2> QED BY <1>3, <2>3
<1>7. CASE WriteTemp(r)
  <2>1. PICK at : at = "link"
    OBVIOUS
  <2>2. caller' = [caller EXCEPT ![r].at = at] /\ at \notin {"decisions", "collect", "requests"}
    BY <1>7, <2>1 DEF WriteTemp
  <2> QED BY <1>1, <2>2
<1>8. CASE LinkSlot(r)
  <2>1. PICK at : at = "confirm"
    OBVIOUS
  <2>2. PICK rescan, low : rescan = "scan" /\ low = [Nothing EXCEPT ![me.chain] = Published(me.chain)]
    OBVIOUS
  <2>3. \/ caller' = [caller EXCEPT ![r].at = at]
        \/ caller' = [caller EXCEPT ![r].at = rescan, ![r].low = low]
    BY <1>8, <2>1, <2>2 DEF LinkSlot
  <2> QED BY <1>1, <1>2, <2>1, <2>2, <2>3
<1>9. CASE Confirm(r) \/ CallerStops(r)
  <2>1. \E reply \in {"published", "failed"} : Reply(r, reply)
    BY <1>9 DEF Confirm, CallerStops
  <2> QED BY <1>3, <2>1
<1> QED BY <1>4, <1>5, <1>6, <1>7, <1>8, <1>9

LEMMA KnowsShow ==
  ASSUME ListsAll, CallsInv, NEW r \in Callers, ShowDirectories(r) \/ ShowChain(r) \/ ShowEvents(r)
  PROVE  ListsAll'
<1> DEFINE me == caller[r]
<1>0. disk' = disk /\ me.at # "idle"
  BY DEF ShowDirectories, ShowChain, ShowEvents, OnlyCaller
<1>m. Placed(me) /\ r \in DOMAIN caller /\ me = [f \in Fields |-> me[f]]
  BY Parts
<1>1. CASE ShowDirectories(r)
  <2>1. PICK at, low : at = "validate" /\ low = [Nothing EXCEPT ![me.chain] = Published(me.chain)]
    OBVIOUS
  <2> DEFINE y == [me EXCEPT !.at = at, !.decisions = decisionsDir, !.low = low]
  <2>2. Reply(r, "missing") \/ caller' = [caller EXCEPT ![r] = y]
    BY <1>1, <1>m, <2>1 DEF ShowDirectories, Fields
  <2>3. y.since = me.since /\ y.reply = "none" /\ y.at = at
    BY <1>m, <1>0 DEF Fields, Placed
  <2> HIDE DEF y
  <2>4. CASE caller' = [caller EXCEPT ![r] = y]
    BY <1>0, <2>1, <2>3, <2>4, KnowsStays
  <2>5. CASE Reply(r, "missing")
    BY <1>0, <2>5, KnowsReply DEF Reply
  <2> QED BY <2>2, <2>4, <2>5
<1>2. CASE ShowChain(r)
  <2>1. PICK at : at = "scan"
    OBVIOUS
  <2> DEFINE y == [me EXCEPT !.at = at]
  <2>2. Reply(r, "missing") \/ Reply(r, "shown") \/ caller' = [caller EXCEPT ![r] = y]
    BY <1>2, <1>m, <2>1 DEF ShowChain, Fields
  <2>3. y.since = me.since /\ y.reply = "none" /\ y.at = at
    BY <1>m, <1>0 DEF Fields, Placed
  <2> HIDE DEF y
  <2>4. CASE caller' = [caller EXCEPT ![r] = y]
    BY <1>0, <2>1, <2>3, <2>4, KnowsStays
  <2>5. CASE Reply(r, "missing") \/ Reply(r, "shown")
    BY <1>0, <2>5, KnowsReply DEF Reply
  <2> QED BY <2>2, <2>4, <2>5
<1>3. CASE ShowEvents(r)
  <2>1. \E reply \in {"malformed", "shown"} : \E seen : caller' = [caller EXCEPT ![r] = Returned(r, reply, seen)]
    BY <1>3 DEF ShowEvents, Reply
  <2> QED BY <1>0, <2>1, KnowsReply
<1> QED BY <1>1, <1>2, <1>3

LEMMA KnowsList ==
  ASSUME ListsAll, SlotsInv, CallsInv, NEW r \in Callers,
         GateQueue(r) \/ GateDecisions(r) \/ CollectDecisions(r) \/ CollectRequests(r)
  PROVE  ListsAll'
<1> DEFINE me == caller[r]
<1>0. disk' = disk /\ me.at \in Listing
  BY DEF GateQueue, GateDecisions, CollectDecisions, CollectRequests, OnlyCaller, Listing
<1>m. Placed(me) /\ ReadsWell(me) /\ r \in DOMAIN caller /\ me = [f \in Fields |-> me[f]] /\ KnowsOf(me)
  BY Parts DEF ListsAll
<1>n. me.reply = "none"
  BY <1>0, <1>m DEF Placed, Listing
<1>1. CASE GateQueue(r)
  <2> DEFINE y == [me EXCEPT !.at = "decisions", !.queue = queueDir]
  <2>1. caller' = [caller EXCEPT ![r] = y]
    BY <1>1, <1>m DEF GateQueue, Fields
  <2>2. y.since = me.since /\ y.reply = "none" /\ y.queue = queueDir
    BY <1>m, <1>n DEF Fields
  <2> HIDE DEF y
  <2>3. KnowsOf(y)
    BY <1>m, <2>2 DEF KnowsOf, SlotsInv
  <2> QED BY <1>0, <2>1, <2>3, KnowsStep
<1>2. CASE GateDecisions(r) \/ CollectDecisions(r)
  <2>1. me.at \in {"decisions", "collect"}
    BY <1>2 DEF GateDecisions, CollectDecisions
  <2>2. ASSUME NEW y, caller' = [caller EXCEPT ![r] = y], y.since = me.since, y.reply = "none",
               y.queue = me.queue
        PROVE  ListsAll'
    <3>1. KnowsOf(y)
      BY <1>m, <2>1, <2>2 DEF KnowsOf
    <3> QED BY <1>0, <2>2, <3>1, KnowsStep
  <2>3. CASE GateDecisions(r) /\ decisionsDir
    <3> DEFINE low == [c \in Chains |-> Published(c)]
               y == [me EXCEPT !.at = "collect", !.low = low]
    <3>1. caller' = [caller EXCEPT ![r] = y]
      BY <1>m, <2>3 DEF GateDecisions, Fields
    <3>2. y.since = me.since /\ y.reply = "none" /\ y.queue = me.queue
      BY <1>m, <1>n DEF Fields
    <3> HIDE DEF y
    <3> QED BY <2>2, <3>1, <3>2
  <2>4. CASE GateDecisions(r) /\ ~decisionsDir
    <3> DEFINE y == [me EXCEPT !.at = "requests", !.seen = AllPending]
    <3>1. caller' = [caller EXCEPT ![r] = y]
      BY <1>m, <2>4 DEF GateDecisions, Fields
    <3>2. y.since = me.since /\ y.reply = "none" /\ y.queue = me.queue
      BY <1>m, <1>n DEF Fields
    <3> HIDE DEF y
    <3> QED BY <2>2, <3>1, <3>2
  <2>5. CASE CollectDecisions(r)
    <3>1. PICK seen : caller' = [caller EXCEPT ![r].at = "requests", ![r].low = Nothing, ![r].seen = seen]
      BY <2>5 DEF CollectDecisions
    <3> DEFINE y == [me EXCEPT !.at = "requests", !.low = Nothing, !.seen = seen]
    <3>2. caller' = [caller EXCEPT ![r] = y]
      BY <1>m, <3>1 DEF Fields
    <3>3. y.since = me.since /\ y.reply = "none" /\ y.queue = me.queue
      BY <1>m, <1>n DEF Fields
    <3> HIDE DEF y
    <3> QED BY <2>2, <3>2, <3>3
  <2> QED BY <1>2, <2>3, <2>4, <2>5
<1>3. CASE CollectRequests(r)
  <2> DEFINE orphans == {c \in Chains : me.seen[c] # "pending"} \ RequestsSeen(r)
             shown == [c \in Chains |-> IF c \in RequestsSeen(r) THEN me.seen[c] ELSE "absent"]
  <2>0. me.at = "requests"
    BY <1>3 DEF CollectRequests
  <2>1. CASE orphans # {} /\ ~me.again
    <3> DEFINE y == [me EXCEPT !.at = "queue", !.again = TRUE, !.seen = AllPending]
    <3>1. caller' = [caller EXCEPT ![r] = y]
      BY <1>3, <1>m, <2>1 DEF CollectRequests, Fields
    <3>2. y.since = me.since /\ y.reply = "none" /\ y.at = "queue"
      BY <1>m, <1>n DEF Fields
    <3> HIDE DEF y
    <3> QED BY <1>0, <3>1, <3>2, KnowsStays
  <2>2. CASE \E reply \in {"orphan", "malformed"} : Reply(r, reply)
    BY <1>0, <2>2, KnowsReply DEF Reply
  <2>3. CASE caller' = [caller EXCEPT ![r] = Returned(r, "listed", shown)]
    <3> DEFINE y == Returned(r, "listed", shown)
    <3>1. y.since = me.since /\ y.at = "idle" /\ y.seen = shown
      BY DEF Returned
    <3>2. caller' = [caller EXCEPT ![r] = y]
      BY <2>3
    <3>3. ASSUME NEW c \in Chains, me.since[c] # "absent" PROVE shown[c] # "absent"
      <4>1. c \in RequestsSeen(r)
        BY <1>m, <2>0, <3>3 DEF KnowsOf, RequestsSeen
      <4>2. reduce_state(slots[c]) # "absent" /\ Asked(me.since[c]) # "absent"
        BY <3>3, StageIs DEF SlotsInv, Stages, Asked
      <4>3. me.seen[c] = "malformed" \/ Timely(slots[c], me.seen[c], Asked(me.since[c]))
        BY <1>m, <2>0 DEF ReadsWell
      <4> QED BY <4>1, <4>2, <4>3 DEF Timely
    <3> HIDE DEF y, shown
    <3>4. KnowsOf(y)
      BY <1>m, <3>1, <3>3 DEF KnowsOf
    <3> QED BY <1>0, <3>2, <3>4, KnowsStep
  <2>4. \/ orphans # {} /\ ~me.again
        \/ \E reply \in {"orphan", "malformed"} : Reply(r, reply)
        \/ caller' = [caller EXCEPT ![r] = Returned(r, "listed", shown)]
    BY <1>3 DEF CollectRequests, Reply
  <2> QED BY <2>1, <2>2, <2>3, <2>4
<1> QED BY <1>1, <1>2, <1>3

\* A call that begins takes down which requests there are.
LEMMA KnowsCalled ==
  ASSUME ListsAll, SlotsInv, CallsInv, NEW r \in Callers, NEW op, NEW c, NEW cmd, NEW at,
         Call(r, op, c, cmd, at), at \notin {"decisions", "collect", "requests"}
  PROVE  ListsAll'
<1> DEFINE y == [at |-> at, op |-> op, chain |-> c, cmd |-> cmd, queue |-> FALSE,
                 decisions |-> FALSE, again |-> FALSE, low |-> Nothing,
                 since |-> [x \in Chains |-> Standing(x)], seen |-> AllPending, reply |-> "none"]
<1>0. caller' = [caller EXCEPT ![r] = y]
  BY DEF Call
<1>1. y.reply = "none" /\ y.at = at /\ \A x \in Chains : y.since[x] = Standing(x)
  OBVIOUS
<1> HIDE DEF y
<1>2. KnowsOf(y)
  BY <1>1 DEF KnowsOf, Standing
<1>3. disk' = disk
  BY DEF Call
<1> QED BY <1>0, <1>2, <1>3, KnowsStep

LEMMA ListsAllAlways == Spec => []ListsAll
<1>1. Init => ListsAll
  BY DEF Init, ListsAll, KnowsOf, NotYet
<1>2. ASSUME WriterInv, SlotsInv, CallsInv, ListsAll, [Next]_vars PROVE ListsAll'
  <2>1. CASE UNCHANGED vars
    BY <1>2, <2>1, KnowsSame DEF vars
  <2>2. CASE WriterNext
    <3>1. caller' = caller
      BY <2>2 DEF WriterNext, PersistLearningChain, ResumeLearningChain, Preflight, Probe, WriteArtifact,
         LinkArtifact, UnlinkTemp, ChainDone, WriterStops
    <3>2. \/ disk' = disk
          \/ \E c \in Chains : \E a : disk' = [disk EXCEPT ![c] = @ \cup {a}]
      BY <1>2, <2>2, WriterAside
    <3>3. disk = [c \in Chains |-> disk[c]]
      BY <1>2 DEF WriterInv
    <3>4. \A c \in Chains : disk[c] \subseteq disk'[c]
      BY <3>2, <3>3
    <3> QED BY <1>2, <3>1, <3>4, KnowsSame
  <2>3. ASSUME NEW r \in Callers, CallerNext(r) PROVE ListsAll'
    <3>1. ASSUME NEW c \in Chains, Show(r, c) PROVE ListsAll'
      BY <1>2, <3>1, KnowsCalled DEF Show
    <3>2. ASSUME NEW c \in Chains, NEW cmd \in Commands, Decide(r, c, cmd) PROVE ListsAll'
      <4>1. PICK at : at = IF "Q" \in disk[c] THEN "namespace" ELSE "missing"
        OBVIOUS
      <4>2. Call(r, "decide", c, cmd, at)
        BY <3>2, <4>1 DEF Decide
      <4>3. at \notin {"decisions", "collect", "requests"}
        BY <4>1
      <4> QED BY <1>2, <4>2, <4>3, KnowsCalled
    <3>3. CASE ListAll(r)
      BY <1>2, <3>3, KnowsCalled DEF ListAll
    <3> QED BY <1>2, <2>3, <3>1, <3>2, <3>3, KnowsDecide, KnowsShow, KnowsList DEF CallerNext
  <2> QED BY <1>2, <2>1, <2>2, <2>3 DEF Next
<1> QED BY <1>1, <1>2, Calls, PTL DEF Spec

\* What show and list return is how each request stood at some moment of the call:
\* never a stage it had left before, and no request left out that was there by then;
\* and list never takes a request that is being published for a missing one.
THEOREM ReadsCurrentAlways == Spec => []ReadsCurrent
<1>1. CallsInv /\ ListsAll => ReadsCurrent
  <2> SUFFICES ASSUME CallsInv, ListsAll, NEW r \in Callers
               PROVE  /\ caller[r].op = "list" => caller[r].reply # "orphan"
                      /\ caller[r].reply \in {"shown", "listed"} =>
                           \A c \in IF caller[r].op = "show" THEN {caller[r].chain} ELSE Chains :
                             LET was == caller[r].since[c]
                                 saw == caller[r].seen[c] IN
                             \/ saw = "absent" /\ was = "absent"
                             \/ saw \in {Asked(was), Stage(c)}
                             \/ saw = "deferred" /\ Asked(was) = "pending" /\ slots[c][1].action = "defer"
    BY DEF ReadsCurrent
  <2>1. /\ caller[r].reply = "orphan" => caller[r].op # "list"
        /\ caller[r].reply = "shown" =>
             /\ caller[r].op = "show" /\ caller[r].chain \in Chains
             /\ Timely(slots[caller[r].chain], caller[r].seen[caller[r].chain],
                       Asked(caller[r].since[caller[r].chain]))
        /\ caller[r].reply = "listed" =>
             /\ caller[r].op = "list"
             /\ \A c \in Chains :
                  \/ caller[r].seen[c] = "absent" /\ caller[r].since[c] = "absent"
                  \/ Timely(slots[c], caller[r].seen[c], Asked(caller[r].since[c]))
    BY DEF CallsInv, ReadsWell, ListsAll, KnowsOf, Current
  <2>2. \A c : \A saw, was : Timely(slots[c], saw, was) =>
          \/ saw \in {was, Stage(c)}
          \/ saw = "deferred" /\ was = "pending" /\ slots[c][1].action = "defer"
    BY DEF Timely, Stage
  <2>3. CASE caller[r].reply = "shown"
    <3>1. \A c \in {caller[r].chain} :
             \/ caller[r].seen[c] \in {Asked(caller[r].since[c]), Stage(c)}
             \/ caller[r].seen[c] = "deferred" /\ Asked(caller[r].since[c]) = "pending" /\ slots[c][1].action = "defer"
      BY <2>1, <2>2, <2>3
    <3>2. caller[r].op = "show"
      BY <2>1, <2>3
    <3> QED BY <2>1, <2>3, <3>1, <3>2
  <2>4. CASE caller[r].reply = "listed"
    <3>1. \A c \in Chains :
             \/ caller[r].seen[c] = "absent" /\ caller[r].since[c] = "absent"
             \/ caller[r].seen[c] \in {Asked(caller[r].since[c]), Stage(c)}
             \/ caller[r].seen[c] = "deferred" /\ Asked(caller[r].since[c]) = "pending" /\ slots[c][1].action = "defer"
      BY <2>1, <2>2, <2>4
    <3>2. caller[r].op = "list"
      BY <2>1, <2>4
    <3> QED BY <2>1, <2>4, <3>1, <3>2
  <2>5. CASE caller[r].reply \notin {"shown", "listed"}
    BY <2>1, <2>5
  <2> QED BY <2>3, <2>4, <2>5
<1> QED BY <1>1, Calls, ListsAllAlways, PTL

-----------------------------------------------------------------------------
(* The register.                                                           *)

LEMMA AppendTwo ==
  ASSUME NEW x, NEW d
  PROVE  Append(<<x>>, d) = <<x, d>>
<1> DEFINE s == Append(<<x>>, d)
           t == <<x, d>>
           S == {x, d}
<1>1. <<x>> \in Seq(S) /\ d \in S /\ t \in Seq(S) /\ Len(t) = 2 /\ t[1] = x /\ t[2] = d
      /\ Len(<<x>>) = 1 /\ <<x>>[1] = x
  OBVIOUS
<1>2. s \in Seq(S) /\ Len(s) = 2 /\ s[1] = x /\ s[2] = d
  BY <1>1, AppendProperties
<1> HIDE DEF s, t, S
<1>3. s \in Seq(S) /\ t \in Seq(S) /\ Len(s) = Len(t) /\ \A i \in 1..Len(s) : s[i] = t[i]
  BY <1>1, <1>2
<1>4. s = t
  BY <1>3, SeqEqual
<1> QED BY <1>4 DEF s, t

\* Artifacts other than a request, and reads, are stutters; a request linked is
\* opened, a slot linked is a decision.
THEOREM ReviewImplementsRegister == Spec => ImplementsRegister
<1> DEFINE open == {c \in Chains : "Q" \in disk[c]}
           history == [c \in Chains |-> Taken(slots[c])]
<1>1. Init => Register!Init
  BY DEF Init, Register!Init, Taken, Seqs
<1>2. ASSUME WriterInv, SlotsInv, CallsInv, [Next]_vars
      PROVE  [Register!Next]_<<open, history>>
  <2>1. ASSUME disk' = disk, slots' = slots PROVE UNCHANGED <<open, history>>
    BY <2>1
  <2>2. CASE UNCHANGED vars
    BY <2>1, <2>2 DEF vars
  <2>3. CASE WriterNext
    <3>1. /\ slots' = slots
          /\ \/ disk' = disk
             \/ \E c \in Chains : \E a : disk' = [disk EXCEPT ![c] = @ \cup {a}]
      BY <1>2, <2>3, WriterAside
    <3>2. ASSUME NEW c \in Chains, NEW a, disk' = [disk EXCEPT ![c] = @ \cup {a}]
          PROVE  [Register!Next]_<<open, history>>
      <4>1. \A b \in Chains : disk'[b] = IF b = c THEN disk[c] \cup {a} ELSE disk[b]
        BY <1>2, <3>2 DEF WriterInv
      <4>2. history' = history
        BY <3>1
      <4>3. CASE a = "Q" /\ "Q" \notin disk[c]
        <5>1. open' = open \cup {c} /\ c \notin open
          BY <4>1, <4>3
        <5> QED BY <4>2, <5>1 DEF Register!Next, Register!Open
      <4>4. CASE ~(a = "Q" /\ "Q" \notin disk[c])
        BY <4>1, <4>2, <4>4
      <4> QED BY <4>3, <4>4
    <3> QED BY <2>1, <3>1, <3>2
  <2>4. ASSUME NEW r \in Callers, CallerNext(r) PROVE [Register!Next]_<<open, history>>
    <3>1. CASE ~LinkSlot(r)
      BY <1>2, <2>1, <2>4, <3>1, CallerAside
    <3>2. CASE LinkSlot(r)
      <4>1. disk' = disk
        BY <3>2 DEF LinkSlot
      <4>2. CASE slots' = slots
        BY <2>1, <4>1, <4>2
      <4>3. CASE slots' # slots
        <5>1. PICK c \in Chains, d \in Commands :
                /\ slots' = [slots EXCEPT ![c][d.seq] = d] /\ slots[c][d.seq] = None
                /\ d.seq \in Seqs /\ "Q" \in disk[c]
                /\ d.seq = 2 => /\ slots[c][1] # None /\ slots[c][1].action = "defer"
                                /\ d.action # "defer"
          BY <1>2, <3>2, <4>3, LinkStep
        <5>2. /\ \A b \in Chains : b # c => slots'[b] = slots[b]
              /\ \A k \in Seqs : slots'[c][k] = IF k = d.seq THEN d ELSE slots[c][k]
          BY <1>2, <5>1 DEF SlotsInv
        <5>3. d # None /\ (slots[c][2] # None => slots[c][1] # None)
          BY <1>2, ReviewAssumption DEF SlotsInv, Legal
        <5>4. history'[c] = Append(history[c], d)
          <6>1. CASE d.seq = 1
            <7>1. slots'[c][1] = d /\ slots'[c][2] = None /\ slots[c][1] = None /\ slots[c][2] = None
              BY <5>1, <5>2, <5>3, <6>1 DEF Seqs
            <7>2. history[c] = <<>> /\ history'[c] = <<d>>
              BY <5>3, <7>1 DEF Taken
            <7>3. Append(<<>>, d) = <<d>>
              OBVIOUS
            <7> HIDE DEF history
            <7> QED BY <7>2, <7>3
          <6>2. CASE d.seq = 2
            <7>1. slots'[c][1] = slots[c][1] /\ slots'[c][2] = d /\ slots[c][1] # None /\ slots[c][2] = None
              BY <5>1, <5>2, <6>2 DEF Seqs
            <7>2. history[c] = <<slots[c][1]>> /\ history'[c] = <<slots[c][1], d>>
              BY <5>3, <7>1 DEF Taken
            <7>3. Append(<<slots[c][1]>>, d) = <<slots[c][1], d>>
              BY AppendTwo
            <7> HIDE DEF history
            <7> QED BY <7>2, <7>3
          <6> QED BY <5>1, <6>1, <6>2 DEF Seqs
        <5>5. history' = [history EXCEPT ![c] = Append(@, d)]
          <6>1. \A b \in Chains : b # c => history'[b] = history[b]
            BY <5>2
          <6> HIDE DEF history
          <6>2. history = [b \in Chains |-> history[b]] /\ history' = [b \in Chains |-> history'[b]]
            BY DEF history
          <6> QED BY <5>4, <6>1, <6>2
        <5>6. /\ c \in open /\ open' = open
              /\ \/ history[c] = <<>> /\ d.seq = 1
                 \/ /\ Len(history[c]) = 1 /\ history[c][1].action = "defer"
                    /\ d.seq = 2 /\ d.action # "defer"
          <6>1. CASE d.seq = 1
            <7>1. slots[c][1] = None /\ slots[c][2] = None
              BY <5>1, <5>3, <6>1 DEF Seqs
            <7>2. history[c] = <<>>
              BY <7>1 DEF Taken
            <7> QED BY <4>1, <5>1, <6>1, <7>2
          <6>2. CASE d.seq = 2
            <7>1. slots[c][1] # None /\ slots[c][2] = None
              BY <5>1, <6>2
            <7>2. history[c] = <<slots[c][1]>>
              BY <7>1 DEF Taken
            <7> QED BY <4>1, <5>1, <6>2, <7>2
          <6> QED BY <5>1, <6>1, <6>2 DEF Seqs
        <5> HIDE DEF open, history
        <5>7. Register!Decide(c, d)
          BY <5>5, <5>6 DEF Register!Decide, open, history
        <5> QED BY <5>7 DEF Register!Next
      <4> QED BY <4>2, <4>3
    <3> QED BY <3>1, <3>2
  <2> QED BY <1>2, <2>2, <2>3, <2>4 DEF Next
<1> QED BY <1>1, <1>2, Calls, PTL DEF Spec, ImplementsRegister, Register!Spec
=============================================================================
