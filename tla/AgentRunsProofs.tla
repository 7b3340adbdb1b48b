-------------------------- MODULE AgentRunsProofs --------------------------
(***************************************************************************)
(* Theorems about AgentRuns, for any inputs, policies and numbers of       *)
(* processes, failures and crashes.  Of a request's principle the content  *)
(* also names the evidence, so its records agree only because all of them  *)
(* use what the request's intent file fixed before the first of them was   *)
(* written.  Nobody but the one generator makes principles: what it found  *)
(* missing is still missing when it writes.                                *)
(***************************************************************************)
EXTENDS AgentRuns, TLAPS

\* What the process that generates may be doing.
Generating(g) ==
  \/ g = Idle
  \/ /\ g.p \in Policies /\ g.runs \in SUBSET Inputs
     /\ \/ g.pc \in {"intend", "find", "bind"} /\ g = [pc |-> g.pc, p |-> g.p, runs |-> g.runs]
        \/ g.pc = "write" /\ g = [pc |-> g.pc, p |-> g.p, runs |-> g.runs, sources |-> g.sources]
        \/ /\ g.pc \in {"check", "complete"} /\ g.r \in Records
           /\ g = [pc |-> g.pc, p |-> g.p, runs |-> g.runs, r |-> g.r]

Shape(m) == m = [content |-> m.content, status |-> m.status, sources |-> m.sources]

RecordsType ==
  /\ rec = [r \in Records |-> rec[r]]
  /\ \A r \in Records : rec[r] # NONE => Shape(rec[r])

IntentType == intent \in [Policies -> Intent \cup {NONE}] /\ Generating(gen)

\* No principle has two records.
ContentOnce ==
  \A r, s \in Records :
    rec[r] # NONE /\ rec[s] # NONE /\ rec[r].content = rec[s].content
      /\ rec[r].content[1] = "principle" => r = s

\* A principle cites what the intent of its request names.
FromIntent(c, n) ==
  c[1] = "principle" =>
    c[2] \in Policies /\ n[c[2]] # NONE /\ c = <<"principle", c[2], n[c[2]].runs>>
PrinciplesIntended == \A r \in Records : rec[r] # NONE => FromIntent(rec[r].content, intent)

\* What the process that generates knows of its request.
Knows(g, n) ==
  /\ g.pc = "intend" => n[g.p] = NONE
  /\ g.pc \in {"find", "bind", "write", "check", "complete"} =>
       n[g.p] # NONE /\ n[g.p].runs = g.runs

\* What it found missing is missing.
StillMissing ==
  gen.pc \in {"bind", "write"} =>
    \A s \in Records : rec[s] # NONE => rec[s].content # <<"principle", gen.p, gen.runs>>

RunsInv ==
  /\ RecordsType /\ IntentType /\ ContentOnce /\ PrinciplesIntended /\ Knows(gen, intent)
  /\ StillMissing

LEMMA IdleGenerates == Generating(Idle) /\ Knows(Idle, intent) /\ Idle.pc \notin {"bind", "write"}
BY DEF Idle, Generating, Knows

\* The process that generates goes on; records and intents stay.
LEMMA GeneratorStep ==
  ASSUME RunsInv, rec' = rec, intent' = intent, Generating(gen'), Knows(gen', intent),
         StillMissing'
  PROVE  RunsInv'
BY DEF RunsInv, RecordsType, IntentType, ContentOnce, PrinciplesIntended

\* A new record, of a session or of a principle that has none.
LEMMA RecordAdded ==
  ASSUME RunsInv, NEW content, NEW sources, NEW r \in Records, NewRecord(r, content, sources),
         content[1] = "principle" => Known(content) = {},
         FromIntent(content, intent), intent' = intent, Generating(gen'), Knows(gen', intent),
         \/ gen'.pc \notin {"bind", "write"}
         \/ gen' = gen /\ content[1] # "principle"
  PROVE  RunsInv'
<1> DEFINE m == [content |-> content, status |-> "candidate", sources |-> sources]
<1>1. Shape(m) /\ m.content = content
  BY DEF Shape
<1>2. rec' = [rec EXCEPT ![r] = m]
  BY DEF NewRecord
<1> HIDE DEF m
<1>3. \A s \in Records : rec'[s] = IF s = r THEN m ELSE rec[s]
  BY <1>2 DEF RunsInv, RecordsType
<1>4. RecordsType'
  BY <1>1, <1>2, <1>3 DEF RunsInv, RecordsType
<1>5. ContentOnce'
  BY <1>1, <1>3 DEF RunsInv, ContentOnce, Known
<1>6. PrinciplesIntended'
  BY <1>1, <1>3 DEF RunsInv, PrinciplesIntended
<1>7. StillMissing'
  <2>1. \A a, b : <<"principle", a, b>>[1] = "principle"
    OBVIOUS
  <2> QED BY <1>1, <1>3, <2>1 DEF RunsInv, StillMissing
<1> QED BY <1>4, <1>5, <1>6, <1>7 DEF RunsInv, IntentType

LEMMA SessionContent ==
  \A e : FromIntent(<<"session", e>>, intent) /\ <<"session", e>>[1] # "principle"
BY DEF FromIntent

\* finalize and the steps of a review.
LEMMA FinalizeStep ==
  ASSUME RunsInv, PlainWrite \/ WriteSession \/ DistillFails \/ Unlink \/ \E r \in Records : Review(r)
  PROVE  RunsInv'
<1>1. Generating(gen) /\ Knows(gen, intent)
  BY DEF RunsInv, IntentType
<1>2. ASSUME NEW e, NEW r \in Records, NEW sources, NewRecord(r, <<"session", e>>, sources),
             intent' = intent, gen' = gen
      PROVE  RunsInv'
  <2> DEFINE content == <<"session", e>>
  <2>1. FromIntent(content, intent) /\ content[1] # "principle" /\ NewRecord(r, content, sources)
    BY <1>2, SessionContent
  <2> HIDE DEF content
  <2> QED BY <1>1, <1>2, <2>1, RecordAdded
<1>3. CASE PlainWrite
  BY <1>2, <1>3 DEF PlainWrite
<1>4. CASE WriteSession
  <2>1. /\ intent' = intent /\ gen' = gen
        /\ \E r \in Records : NewRecord(r, <<"session", ExchangeOf[fin.i]>>, fin.sources)
    BY <1>4 DEF WriteSession
  <2> QED BY <1>2, <2>1
<1>5. CASE DistillFails
  <2>1. intent' = intent /\ gen' = gen
    BY <1>5 DEF DistillFails
  <2>2. CASE rec' = rec
    BY <1>1, <2>1, <2>2, GeneratorStep DEF RunsInv, StillMissing
  <2>3. CASE rec' # rec
    <3>1. \E r \in Records : NewRecord(r, <<"session", ExchangeOf[fin.i]>>, fin.sources)
      BY <1>5, <2>3 DEF DistillFails
    <3> QED BY <1>2, <2>1, <3>1
  <2> QED BY <2>2, <2>3
<1>6. CASE Unlink
  <2>1. rec' = [rec EXCEPT ![fin.r] = NONE] /\ intent' = intent /\ gen' = gen
    BY <1>6 DEF Unlink
  <2>2. \A s \in Records : rec'[s] = rec[s] \/ rec'[s] = NONE
    BY <2>1 DEF RunsInv, RecordsType
  <2> QED BY <2>1, <2>2
      DEF RunsInv, RecordsType, IntentType, ContentOnce, PrinciplesIntended, StillMissing
<1>7. ASSUME NEW r \in Records, Review(r) PROVE RunsInv'
  <2> DEFINE m == [rec[r] EXCEPT !.status = "reviewed"]
  <2>1. Shape(m) /\ m.content = rec[r].content /\ rec[r] # NONE
    BY <1>7 DEF Review, RunsInv, RecordsType, Shape
  <2>2. rec' = [rec EXCEPT ![r] = m] /\ intent' = intent /\ gen' = gen
    BY <1>7 DEF Review, procs
  <2> HIDE DEF m
  <2>3. \A s \in Records : rec'[s] = IF s = r THEN m ELSE rec[s]
    BY <2>2 DEF RunsInv, RecordsType
  <2>4. RecordsType'
    BY <2>1, <2>2, <2>3 DEF RunsInv, RecordsType
  <2>5. ContentOnce'
    BY <2>1, <2>3 DEF RunsInv, ContentOnce
  <2>6. PrinciplesIntended'
    BY <2>1, <2>2, <2>3 DEF RunsInv, PrinciplesIntended
  <2>7. StillMissing'
    BY <2>1, <2>2, <2>3 DEF RunsInv, StillMissing
  <2> QED BY <2>2, <2>4, <2>5, <2>6, <2>7 DEF RunsInv, IntentType
<1> QED BY <1>3, <1>4, <1>5, <1>6, <1>7

\* The evidence of a request is a set of runs.
LEMMA EvidenceRuns ==
  ASSUME NEW p
  PROVE  Independent(p) \in SUBSET Inputs
<1> SUFFICES ASSUME NEW j \in Independent(p) PROVE j \in Inputs
  OBVIOUS
<1>1. PICK e \in Evidence(p) : j = CHOOSE i \in Evidence(p) : ExchangeOf[i] = ExchangeOf[e]
  BY DEF Independent
<1>2. j \in Evidence(p)
  BY <1>1
<1> QED BY <1>2 DEF Evidence, Runs

\* Reading: the request, the records, the runs it cites, the record it made.
LEMMA ReadStep ==
  ASSUME RunsInv,
         (\E p \in Policies : Generate(p)) \/ FindPrinciple \/ BindPrinciple \/ CheckPrinciple
  PROVE  RunsInv'
<1>1. ASSUME NEW p \in Policies, Generate(p) PROVE RunsInv'
  <2>1. rec' = rec /\ intent' = intent
    BY <1>1 DEF Generate, files
  <2>2. CASE intent[p] = NONE /\ gen' = [pc |-> "intend", p |-> p, runs |-> Independent(p)]
    <3>1. Generating(gen') /\ Knows(gen', intent) /\ StillMissing'
      BY <2>2, EvidenceRuns DEF Generating, Knows, StillMissing
    <3> QED BY <2>1, <3>1, GeneratorStep
  <2>3. CASE intent[p] # NONE /\ gen' = [pc |-> "find", p |-> p, runs |-> intent[p].runs]
    <3>1. intent[p].runs \in SUBSET Inputs
      BY <2>3 DEF RunsInv, IntentType, Intent
    <3>2. Generating(gen') /\ Knows(gen', intent) /\ StillMissing'
      BY <2>3, <3>1 DEF Generating, Knows, StillMissing
    <3> QED BY <2>1, <3>2, GeneratorStep
  <2> QED BY <1>1, <2>2, <2>3 DEF Generate
<1>2. CASE FindPrinciple
  <2>1. /\ rec' = rec /\ intent' = intent /\ gen.pc = "find"
        /\ gen = [pc |-> "find", p |-> gen.p, runs |-> gen.runs]
        /\ gen.p \in Policies /\ gen.runs \in SUBSET Inputs
        /\ intent[gen.p] # NONE /\ intent[gen.p].runs = gen.runs
    BY <1>2 DEF FindPrinciple, files, RunsInv, IntentType, Generating, Idle, Knows
  <2>2. CASE Known(<<"principle", gen.p, gen.runs>>) = {} /\ gen' = [gen EXCEPT !.pc = "bind"]
    <3>1. gen' = [pc |-> "bind", p |-> gen.p, runs |-> gen.runs]
      BY <2>1, <2>2
    <3>2. Generating(gen') /\ Knows(gen', intent)
      BY <2>1, <3>1 DEF Generating, Knows
    <3>3. StillMissing'
      BY <2>1, <2>2, <3>1 DEF StillMissing, Known
    <3> QED BY <2>1, <3>2, <3>3, GeneratorStep
  <2>3. CASE \E r \in Records : gen' = [pc |-> "check", p |-> gen.p, runs |-> gen.runs, r |-> r]
    <3>1. Generating(gen') /\ Knows(gen', intent) /\ StillMissing'
      BY <2>1, <2>3 DEF Generating, Knows, StillMissing
    <3> QED BY <2>1, <3>1, GeneratorStep
  <2> QED BY <1>2, <2>2, <2>3 DEF FindPrinciple, Known
<1>3. CASE BindPrinciple
  <2>1. /\ rec' = rec /\ intent' = intent /\ gen.pc = "bind"
        /\ gen' = [pc |-> "write", p |-> gen.p, runs |-> gen.runs, sources |-> Bindings(gen.runs)]
        /\ gen.p \in Policies /\ gen.runs \in SUBSET Inputs
        /\ intent[gen.p] # NONE /\ intent[gen.p].runs = gen.runs
    BY <1>3 DEF BindPrinciple, files, RunsInv, IntentType, Generating, Idle, Knows
  <2>2. Generating(gen') /\ Knows(gen', intent)
    BY <2>1 DEF Generating, Knows
  <2>3. StillMissing'
    BY <2>1 DEF RunsInv, StillMissing
  <2> QED BY <2>1, <2>2, <2>3, GeneratorStep
<1>4. CASE CheckPrinciple
  <2>1. /\ rec' = rec /\ intent' = intent /\ gen.pc = "check" /\ gen.r \in Records
        /\ gen = [pc |-> "check", p |-> gen.p, runs |-> gen.runs, r |-> gen.r]
        /\ gen.p \in Policies /\ gen.runs \in SUBSET Inputs
        /\ intent[gen.p] # NONE /\ intent[gen.p].runs = gen.runs
    BY <1>4 DEF CheckPrinciple, files, RunsInv, IntentType, Generating, Idle, Knows
  <2>2. \/ gen' = Idle
        \/ gen' = [pc |-> "complete", p |-> gen.p, runs |-> gen.runs, r |-> gen.r]
    BY <1>4, <2>1 DEF CheckPrinciple
  <2>3. Generating(gen') /\ Knows(gen', intent) /\ StillMissing'
    BY <2>1, <2>2, IdleGenerates DEF Generating, Knows, StillMissing
  <2> QED BY <2>1, <2>3, GeneratorStep
<1> QED BY <1>1, <1>2, <1>3, <1>4

\* Writing: the intent, the principle, the completed intent.
LEMMA GenerateStep ==
  ASSUME RunsInv, WriteIntent \/ WritePrinciple \/ CreatePrincipleFails \/ CompleteIntent
  PROVE  RunsInv'
<1>1. CASE WriteIntent
  <2> DEFINE n == [runs |-> gen.runs, candidate |-> NONE]
             g == [gen EXCEPT !.pc = "find"]
  <2>1. /\ gen = [pc |-> "intend", p |-> gen.p, runs |-> gen.runs]
        /\ gen.p \in Policies /\ gen.runs \in SUBSET Inputs /\ intent[gen.p] = NONE
    BY <1>1 DEF WriteIntent, RunsInv, IntentType, Generating, Idle, Knows
  <2>2. n \in Intent /\ n # NONE /\ n.runs = gen.runs
    BY <2>1, AgentRunsAssumption DEF Intent
  <2>3. /\ g = [pc |-> "find", p |-> gen.p, runs |-> gen.runs] /\ g.pc = "find"
        /\ g.p = gen.p /\ g.runs = gen.runs
    BY <2>1
  <2>4. Generating(g)
    BY <2>1, <2>3 DEF Generating
  <2>5. intent' = [intent EXCEPT ![gen.p] = n] /\ gen' = g /\ rec' = rec
    BY <1>1 DEF WriteIntent
  <2> HIDE DEF n, g
  <2>6. \A p \in Policies : intent'[p] = IF p = gen.p THEN n ELSE intent[p]
    BY <2>5 DEF RunsInv, IntentType
  <2>7. IntentType' /\ Knows(gen, intent)' /\ StillMissing'
    BY <2>1, <2>2, <2>3, <2>4, <2>5, <2>6 DEF RunsInv, IntentType, Knows, StillMissing
  <2>8. PrinciplesIntended'
    <3>1. ASSUME NEW c, FromIntent(c, intent) PROVE FromIntent(c, intent')
      BY <2>1, <2>6, <3>1 DEF FromIntent
    <3> QED BY <2>5, <3>1 DEF RunsInv, PrinciplesIntended
  <2> QED BY <2>5, <2>7, <2>8 DEF RunsInv, RecordsType, ContentOnce
<1>2. CASE WritePrinciple \/ CreatePrincipleFails
  <2> DEFINE content == <<"principle", gen.p, gen.runs>>
  <2>1. intent' = intent /\ (CreatePrincipleFails => gen' = Idle)
    BY <1>2 DEF WritePrinciple, CreatePrincipleFails
  <2>2. CASE rec' = rec /\ gen' = Idle
    BY <2>1, <2>2, IdleGenerates, GeneratorStep DEF StillMissing
  <2>3. CASE /\ gen.pc = "write"
             /\ \E r \in Records :
                  /\ NewRecord(r, content, gen.sources)
                  /\ \/ gen' = Idle
                     \/ gen' = [pc |-> "check", p |-> gen.p, runs |-> gen.runs, r |-> r]
    <3>1. /\ gen.p \in Policies /\ gen.runs \in SUBSET Inputs
          /\ intent[gen.p] # NONE /\ intent[gen.p].runs = gen.runs
      BY <2>3 DEF RunsInv, IntentType, Generating, Idle, Knows
    <3>2. FromIntent(content, intent)
      BY <3>1 DEF FromIntent
    <3>3. Known(content) = {}
      BY <2>3 DEF RunsInv, StillMissing, Known
    <3>4. PICK r \in Records :
            /\ NewRecord(r, content, gen.sources)
            /\ \/ gen' = Idle
               \/ gen' = [pc |-> "check", p |-> gen.p, runs |-> gen.runs, r |-> r]
      BY <2>3
    <3>5. Generating(gen') /\ Knows(gen', intent) /\ gen'.pc \notin {"bind", "write"}
      BY <3>1, <3>4, IdleGenerates DEF Generating, Knows
    <3> HIDE DEF content
    <3> QED BY <2>1, <3>2, <3>3, <3>4, <3>5, RecordAdded
  <2>4. CASE WritePrinciple
    BY <2>3, <2>4 DEF WritePrinciple
  <2>5. CASE CreatePrincipleFails
    BY <2>2, <2>3, <2>5 DEF CreatePrincipleFails
  <2> QED BY <1>2, <2>4, <2>5
<1>3. CASE CompleteIntent
  <2> DEFINE n == [runs |-> gen.runs, candidate |-> gen.r]
  <2>1. PICK r \in Records : gen.r = r
    BY <1>3 DEF CompleteIntent, RunsInv, IntentType, Generating, Idle
  <2>2. /\ gen.p \in Policies /\ gen.runs \in SUBSET Inputs
        /\ intent[gen.p] # NONE /\ intent[gen.p].runs = gen.runs
    BY <1>3 DEF CompleteIntent, RunsInv, IntentType, Generating, Idle, Knows
  <2>3. n \in Intent /\ n # NONE /\ n.runs = gen.runs
    BY <2>1, <2>2, AgentRunsAssumption DEF Intent
  <2>4. intent' = [intent EXCEPT ![gen.p] = n] /\ gen' = Idle /\ rec' = rec
    BY <1>3 DEF CompleteIntent
  <2> HIDE DEF n
  <2>5. \A p \in Policies : intent'[p] = IF p = gen.p THEN n ELSE intent[p]
    BY <2>4 DEF RunsInv, IntentType
  <2>6. IntentType' /\ Knows(gen, intent)' /\ StillMissing'
    BY <2>3, <2>4, <2>5, IdleGenerates DEF RunsInv, IntentType, Knows, Idle, StillMissing
  <2>7. PrinciplesIntended'
    <3>1. ASSUME NEW c, FromIntent(c, intent) PROVE FromIntent(c, intent')
      BY <2>2, <2>3, <2>5, <3>1 DEF FromIntent
    <3> QED BY <2>4, <3>1 DEF RunsInv, PrinciplesIntended
  <2> QED BY <2>4, <2>6, <2>7 DEF RunsInv, RecordsType, ContentOnce
<1> QED BY <1>1, <1>2, <1>3

\* Everything else leaves records and requests alone; a crash may end a request.
LEMMA OtherStep ==
  ASSUME RunsInv,
         \/ \E x \in Exchanges : PlainRead(x)
         \/ \E i \in Inputs : CreateRun(i) \/ ReuseRun(i) \/ Reflect(i) \/ SuggestRead(i)
         \/ Distill \/ BindSession \/ ReadRun \/ WriteRun \/ WriteRunFails \/ RemoveRun
         \/ SuggestWrite \/ SuggestFails
         \/ \E i \in Inputs : \E checked \in SUBSET SuggestedBy[i] : ApproveRead(i, checked)
         \/ ApproveWrite \/ ApproveFails \/ Crash \/ UNCHANGED vars
  PROVE  RunsInv'
<1>1. rec' = rec /\ intent' = intent /\ gen' \in {gen, Idle}
  BY DEF PlainRead, CreateRun, ReuseRun, Reflect, SuggestRead, Distill, BindSession, ReadRun,
         WriteRun, WriteRunFails, RemoveRun, SuggestWrite, SuggestFails, ApproveRead,
         ApproveWrite, ApproveFails, Crash, files, procs, vars
<1>2. Generating(gen') /\ Knows(gen', intent) /\ StillMissing'
  BY <1>1, IdleGenerates DEF RunsInv, IntentType, StillMissing
<1> QED BY <1>1, <1>2, GeneratorStep

\* The invariant that PrincipleOnce follows from.
THEOREM RunsSafety == Spec => []RunsInv
<1>1. Init => RunsInv
  BY IdleGenerates
  DEF Init, RunsInv, RecordsType, IntentType, ContentOnce, PrinciplesIntended, Knows, Idle,
      StillMissing
<1>2. RunsInv /\ [Next]_vars => RunsInv'
  BY FinalizeStep, ReadStep, GenerateStep, OtherStep DEF Next
<1> QED BY <1>1, <1>2, PTL DEF Spec

\* However often a request is repeated, whatever evidence has come or gone since
\* and wherever an attempt was killed, it has one principle.
THEOREM PrincipleOnceAlways == Spec => []PrincipleOnce
<1>1. RunsInv => PrincipleOnce
  BY DEF RunsInv, ContentOnce, PrinciplesIntended, FromIntent, PrincipleOnce
<1> QED BY <1>1, RunsSafety, PTL

-----------------------------------------------------------------------------
(* ApprovedRuled.  run.json is rewritten whole by finalize, suggest and     *)
(* approve, each from a copy that may be old, and a failed approve puts old *)
(* rules back: what every copy calls approved must be in the rules an       *)
(* approve under way would put back.                                        *)

Finalizing ==
  {Idle} \cup [pc : {"distill", "bind", "mark", "remove"}, i : Inputs]
         \cup [pc : {"create"}, i : Inputs, sources : UNION {[S -> RunRecord] : S \in SUBSET Inputs}]
         \cup [pc : {"link", "unlink"}, i : Inputs, r : Records]
         \cup [pc : {"write"}, i : Inputs, r : Records \cup {NONE}, json : RunRecord]
Approving ==
  {Idle} \cup [pc : {"rules", "run"}, i : Inputs, old : SUBSET Policies,
               rules : SUBSET Policies, json : RunRecord]

\* The rules that stay, whatever becomes of an approve under way.
Lasting == IF app.pc = "idle" THEN rules ELSE app.old

Suggesting(g) ==
  g.pc # "idle" =>
    /\ g = [pc |-> g.pc, i |-> g.i, json |-> g.json, status |-> g.status, old |-> g.old,
            was |-> g.was]
    /\ g.i \in Inputs /\ g.json \in RunRecord
RunsKept == run \in [Inputs -> RunRecord \cup {NONE}]
FinalizeKnows == fin \in Finalizing /\ (fin.pc # "idle" => run[fin.i] # NONE)
ApproveKnows ==
  /\ app \in Approving /\ rules \in SUBSET Policies
  /\ app.pc # "idle" =>
       /\ app.old \subseteq rules /\ app.old \subseteq app.rules
       /\ app.json.approved \subseteq app.rules
  /\ app.pc = "run" => app.rules \subseteq rules
CopiesRuled ==
  /\ \A i \in Runs : run[i].approved \subseteq Lasting
  /\ fin.pc = "write" => fin.json.approved \subseteq Lasting
  /\ sug.pc # "idle" => sug.json.approved \subseteq Lasting

RuledInv == RunsKept /\ FinalizeKnows /\ Suggesting(sug) /\ ApproveKnows /\ CopiesRuled

LEMMA IdleRuled == Idle \in Finalizing /\ Idle \in Approving /\ Idle.pc = "idle"
BY DEF Idle, Finalizing, Approving

\* It is enough that the rules that stay only grow and hold what a new copy says.
LEMMA CopiesKept ==
  ASSUME RuledInv, RunsKept', FinalizeKnows', Suggesting(sug)', ApproveKnows',
         Lasting \subseteq Lasting',
         \A i \in Inputs :
           run'[i] = run[i] \/ run'[i] = NONE \/ run'[i].approved \subseteq Lasting',
         fin' = fin \/ (fin'.pc = "write" => fin'.json.approved \subseteq Lasting'),
         sug' = sug \/ (sug'.pc # "idle" => sug'.json.approved \subseteq Lasting')
  PROVE  RuledInv'
<1>1. ASSUME NEW i \in Runs' PROVE run'[i].approved \subseteq Lasting'
  <2>1. i \in Inputs /\ run'[i] # NONE
    BY DEF Runs
  <2>2. run[i] # NONE => run[i].approved \subseteq Lasting
    BY <2>1 DEF RuledInv, CopiesRuled, Runs
  <2> QED BY <2>1, <2>2
<1>2. fin'.pc = "write" => fin'.json.approved \subseteq Lasting'
  BY DEF RuledInv, CopiesRuled
<1>3. sug'.pc # "idle" => sug'.json.approved \subseteq Lasting'
  BY DEF RuledInv, CopiesRuled
<1> QED BY <1>1, <1>2, <1>3 DEF RuledInv, CopiesRuled

LEMMA FinalizeRuled ==
  ASSUME RuledInv,
         \/ \E i \in Inputs : CreateRun(i) \/ ReuseRun(i)
         \/ Distill \/ BindSession \/ WriteSession \/ DistillFails
         \/ ReadRun \/ WriteRun \/ WriteRunFails \/ Unlink \/ RemoveRun
  PROVE  RuledInv'
<1>1. rules' = rules /\ app' = app /\ sug' = sug
  BY DEF CreateRun, ReuseRun, Distill, BindSession, WriteSession, DistillFails, ReadRun,
         WriteRun, WriteRunFails, Unlink, RemoveRun, files
<1>2. Lasting' = Lasting /\ ApproveKnows' /\ Suggesting(sug)'
  BY <1>1 DEF RuledInv, ApproveKnows, Lasting, Suggesting
<1>3. ASSUME NEW i \in Inputs, CreateRun(i) PROVE RuledInv'
  <2> DEFINE m == [candidate_status |-> IF ExchangeOf[i] \in Blank THEN "not_generated"
                                        ELSE "pending",
                   candidate |-> NONE, suggested |-> SuggestedBy[i], approved |-> {},
                   completed |-> FALSE]
  <2>1. m \in RunRecord /\ m # NONE
    <3>1. SuggestedBy[i] \in SUBSET Policies /\ NONE \notin RunRecord
      BY AgentRunsAssumption
    <3>2. m \in RunRecord
      BY <3>1 DEF RunRecord
    <3> QED BY <3>1, <3>2
  <2>2. run' = [run EXCEPT ![i] = m] /\ fin' \in {Idle, [pc |-> "distill", i |-> i]}
    BY <1>3 DEF CreateRun
  <2>3. m.approved = {}
    OBVIOUS
  <2> HIDE DEF m
  <2>4. RunsKept' /\ (\A j \in Inputs : run'[j] = IF j = i THEN m ELSE run[j])
    BY <2>1, <2>2 DEF RuledInv, RunsKept
  <2>5. FinalizeKnows' /\ fin'.pc # "write"
    BY <2>1, <2>2, <2>4, IdleRuled DEF FinalizeKnows, Finalizing, Idle
  <2> QED BY <1>2, <2>3, <2>4, <2>5, <1>1, CopiesKept
<1>4. ASSUME NEW i \in Inputs, ReuseRun(i) PROVE RuledInv'
  <2>1. run' = run /\ run[i] # NONE /\ fin' = [pc |-> "distill", i |-> i]
    BY <1>4 DEF ReuseRun, files
  <2>2. FinalizeKnows' /\ fin'.pc # "write" /\ RunsKept'
    BY <2>1 DEF FinalizeKnows, Finalizing, RuledInv, RunsKept
  <2> QED BY <1>1, <1>2, <2>1, <2>2, CopiesKept
<1>5. CASE Distill \/ BindSession \/ WriteSession \/ DistillFails
  <2>1. run' = run /\ fin.pc \in {"distill", "bind", "create"}
    BY <1>5 DEF Distill, BindSession, WriteSession, DistillFails, files
  <2>2. /\ fin.i \in Inputs /\ run[fin.i] # NONE
        /\ fin.pc = "distill" => fin = [pc |-> "distill", i |-> fin.i]
    BY <2>1 DEF RuledInv, FinalizeKnows, Finalizing, Idle
  <2>3. fin' \in Finalizing /\ fin'.pc # "write" /\ fin'.i = fin.i
    <3>1. CASE Distill
      <4>1. fin' = [pc |-> "bind", i |-> fin.i] \/ fin' = [pc |-> "mark", i |-> fin.i]
        BY <2>2, <3>1 DEF Distill
      <4> QED BY <2>2, <4>1 DEF Finalizing
    <3>2. CASE BindSession
      <4>1. run[fin.i] \in RunRecord
        BY <2>2 DEF RuledInv, RunsKept
      <4>2. Bindings({fin.i}) \in [{fin.i} -> RunRecord] /\ {fin.i} \in SUBSET Inputs
        BY <2>2, <4>1 DEF Bindings
      <4>3. Bindings({fin.i}) \in UNION {[S -> RunRecord] : S \in SUBSET Inputs}
        BY <4>2
      <4> QED BY <2>2, <3>2, <4>3 DEF BindSession, Finalizing
    <3>3. CASE WriteSession
      BY <2>2, <3>3 DEF WriteSession, Finalizing
    <3>4. CASE DistillFails
      BY <2>2, <3>4 DEF DistillFails, Finalizing
    <3> QED BY <1>5, <3>1, <3>2, <3>3, <3>4
  <2>4. FinalizeKnows' /\ RunsKept'
    BY <2>1, <2>2, <2>3 DEF FinalizeKnows, RuledInv, RunsKept
  <2> QED BY <1>1, <1>2, <2>1, <2>3, <2>4, CopiesKept
<1>6. CASE ReadRun
  <2>1. run' = run /\ fin.pc \in {"link", "mark"}
    BY <1>6 DEF ReadRun, files
  <2>2. /\ fin.i \in Inputs /\ run[fin.i] # NONE /\ (fin.pc = "link" => fin.r \in Records)
        /\ fin.pc = "link" => fin = [pc |-> "link", i |-> fin.i, r |-> fin.r]
    BY <2>1 DEF RuledInv, FinalizeKnows, Finalizing, Idle
  <2> DEFINE m == run[fin.i]
  <2>3. m \in RunRecord /\ m.approved \subseteq Lasting
    BY <2>2 DEF RuledInv, RunsKept, CopiesRuled, Runs
  <2> DEFINE Linked == [m EXCEPT !.candidate = fin.r, !.candidate_status = "generated"]
             Marked == [m EXCEPT !.candidate_status = "not_generated"]
  <2>4. /\ fin.pc = "link" => Linked \in RunRecord /\ Linked.approved = m.approved
        /\ Marked \in RunRecord /\ Marked.approved = m.approved
    BY <2>2, <2>3 DEF RunRecord
  <2>5. \/ fin' = Idle
        \/ fin.pc = "link" /\ fin' = [fin EXCEPT !.pc = "unlink"]
        \/ fin.pc = "link" /\ fin' = [pc |-> "write", i |-> fin.i, r |-> fin.r, json |-> Linked]
        \/ fin' = [pc |-> "write", i |-> fin.i, r |-> NONE, json |-> Marked]
    BY <1>6 DEF ReadRun
  <2> HIDE DEF Linked, Marked, m
  <2>6. /\ fin' \in Finalizing /\ (fin'.pc # "idle" => fin'.i = fin.i)
        /\ fin'.pc = "write" => fin'.json.approved \subseteq Lasting'
    <3>1. CASE fin' = Idle
      BY <3>1, IdleRuled
    <3>2. CASE fin.pc = "link" /\ fin' = [fin EXCEPT !.pc = "unlink"]
      <4>1. fin' = [pc |-> "unlink", i |-> fin.i, r |-> fin.r]
        BY <2>2, <3>2
      <4> QED BY <2>2, <3>2, <4>1 DEF Finalizing
    <3>3. CASE fin.pc = "link" /\ fin' = [pc |-> "write", i |-> fin.i, r |-> fin.r, json |-> Linked]
      <4>1. fin' \in Finalizing /\ fin'.i = fin.i /\ fin'.json = Linked
        BY <2>2, <2>4, <3>3 DEF Finalizing
      <4> QED BY <1>2, <2>3, <2>4, <3>3, <4>1
    <3>4. CASE fin' = [pc |-> "write", i |-> fin.i, r |-> NONE, json |-> Marked]
      <4>1. fin' \in Finalizing /\ fin'.i = fin.i /\ fin'.json = Marked
        BY <2>2, <2>4, <3>4 DEF Finalizing
      <4> QED BY <1>2, <2>3, <2>4, <4>1
    <3> QED BY <2>5, <3>1, <3>2, <3>3, <3>4
  <2>7. FinalizeKnows' /\ RunsKept'
    BY <2>1, <2>2, <2>6 DEF FinalizeKnows, RuledInv, RunsKept
  <2> QED BY <1>1, <1>2, <2>1, <2>6, <2>7, CopiesKept
<1>7. CASE WriteRun
  <2>1. run' = [run EXCEPT ![fin.i] = fin.json] /\ fin' = Idle
    BY <1>7 DEF WriteRun
  <2>2. fin.i \in Inputs /\ fin.json \in RunRecord /\ fin.json.approved \subseteq Lasting
    BY <1>7 DEF WriteRun, RuledInv, FinalizeKnows, Finalizing, Idle, CopiesRuled
  <2>3. RunsKept' /\ (\A j \in Inputs : run'[j] = IF j = fin.i THEN fin.json ELSE run[j])
    BY <2>1, <2>2 DEF RuledInv, RunsKept
  <2>4. FinalizeKnows' /\ fin'.pc # "write"
    BY <2>1, IdleRuled DEF FinalizeKnows, Idle
  <2> QED BY <1>1, <1>2, <2>2, <2>3, <2>4, CopiesKept
<1>8. CASE WriteRunFails \/ Unlink
  <2>1. run' = run /\ fin.pc \in {"write", "unlink"}
    BY <1>8 DEF WriteRunFails, Unlink, files
  <2>2. /\ fin.i \in Inputs /\ run[fin.i] # NONE
        /\ fin.pc = "write" /\ fin.r # NONE => fin.r \in Records
    BY <2>1 DEF RuledInv, FinalizeKnows, Finalizing, Idle
  <2>3. \/ fin' = [pc |-> "remove", i |-> fin.i]
        \/ /\ fin.pc = "write" /\ fin.r # NONE
           /\ fin' = [pc |-> "unlink", i |-> fin.i, r |-> fin.r]
    BY <1>8 DEF WriteRunFails, Unlink
  <2>4. FinalizeKnows' /\ fin'.pc # "write" /\ RunsKept'
    BY <2>1, <2>2, <2>3 DEF FinalizeKnows, Finalizing, RuledInv, RunsKept
  <2> QED BY <1>1, <1>2, <2>1, <2>4, CopiesKept
<1>9. CASE RemoveRun
  <2>1. run' = [run EXCEPT ![fin.i] = NONE] /\ fin' = Idle
    BY <1>9 DEF RemoveRun
  <2>2. RunsKept' /\ (\A j \in Inputs : run'[j] = run[j] \/ run'[j] = NONE)
    BY <2>1 DEF RuledInv, RunsKept
  <2>3. FinalizeKnows' /\ fin'.pc # "write"
    BY <2>1, IdleRuled DEF FinalizeKnows, Idle
  <2> QED BY <1>1, <1>2, <2>2, <2>3, CopiesKept
<1> QED BY <1>3, <1>4, <1>5, <1>6, <1>7, <1>8, <1>9

LEMMA SuggestRuled ==
  ASSUME RuledInv, (\E i \in Inputs : SuggestRead(i)) \/ SuggestWrite \/ SuggestFails
  PROVE  RuledInv'
<1>1. rules' = rules /\ app' = app /\ fin' = fin
  BY DEF SuggestRead, SuggestWrite, SuggestFails, files
<1>2. Lasting' = Lasting /\ ApproveKnows'
  BY <1>1 DEF RuledInv, ApproveKnows, Lasting
<1>3. ASSUME NEW i \in Inputs, SuggestRead(i) PROVE RuledInv'
  <2> DEFINE json == [run[i] EXCEPT !.suggested = {LessonOf[i]} \ {NONE}]
  <2>1. run' = run /\ run[i] # NONE
    BY <1>3 DEF SuggestRead, files
  <2>2. json \in RunRecord /\ json.approved = run[i].approved
    BY <2>1, AgentRunsAssumption DEF RuledInv, RunsKept, RunRecord
  <2>3. json.approved \subseteq Lasting
    BY <2>1, <2>2 DEF RuledInv, CopiesRuled, Runs
  <2> HIDE DEF json
  <2>4. PICK pc, status, old, was :
          sug' = [pc |-> pc, i |-> i, json |-> json, status |-> status, old |-> old, was |-> was]
    BY <1>3 DEF SuggestRead, json
  <2>5. Suggesting(sug)' /\ sug'.json = json
    BY <2>2, <2>4 DEF Suggesting
  <2>6. RunsKept' /\ FinalizeKnows'
    BY <1>1, <2>1 DEF RuledInv, RunsKept, FinalizeKnows
  <2> QED BY <1>1, <1>2, <2>1, <2>3, <2>5, <2>6, CopiesKept
<1>4. CASE SuggestWrite
  <2> DEFINE s == sug
  <2>1. /\ s.pc # "idle" /\ s.i \in Inputs /\ s.json \in RunRecord /\ run[s.i] # NONE
        /\ s.json.approved \subseteq Lasting
        /\ s = [pc |-> s.pc, i |-> s.i, json |-> s.json, status |-> s.status, old |-> s.old,
                was |-> s.was]
    BY <1>4 DEF SuggestWrite, RuledInv, Suggesting, CopiesRuled
  <2>2. \/ sug' = Idle
        \/ sug' = [s EXCEPT !.pc = "review"] \/ sug' = [s EXCEPT !.pc = "run"]
    BY <1>4 DEF SuggestWrite
  <2>3. Suggesting(sug)' /\ (sug'.pc # "idle" => sug'.json.approved \subseteq Lasting')
    BY <1>2, <2>1, <2>2, IdleRuled DEF Suggesting
  <2>4. run' = run \/ run' = [run EXCEPT ![s.i] = s.json]
    BY <1>4 DEF SuggestWrite
  <2> HIDE DEF s
  <2>5. RunsKept' /\ (\A j \in Inputs : run'[j] = run[j] \/ run'[j] = s.json)
    BY <2>1, <2>4 DEF RuledInv, RunsKept
  <2>6. FinalizeKnows'
    <3>1. s.json # NONE
      BY <2>1, AgentRunsAssumption
    <3>2. fin.pc # "idle" => fin.i \in Inputs
      BY DEF RuledInv, FinalizeKnows, Finalizing, Idle
    <3> QED BY <1>1, <2>5, <3>1, <3>2 DEF RuledInv, FinalizeKnows
  <2> QED BY <1>1, <1>2, <2>1, <2>3, <2>5, <2>6, CopiesKept
<1>5. CASE SuggestFails
  <2>1. run' = run /\ sug' = Idle
    BY <1>5 DEF SuggestFails
  <2>2. Suggesting(sug)' /\ sug'.pc = "idle" /\ RunsKept' /\ FinalizeKnows'
    BY <1>1, <2>1, IdleRuled DEF Suggesting, RuledInv, RunsKept, FinalizeKnows
  <2> QED BY <1>1, <1>2, <2>1, <2>2, CopiesKept
<1> QED BY <1>3, <1>4, <1>5

LEMMA ApproveRuled ==
  ASSUME RuledInv,
         \/ \E i \in Inputs : \E checked \in SUBSET SuggestedBy[i] : ApproveRead(i, checked)
         \/ ApproveWrite \/ ApproveFails
  PROVE  RuledInv'
<1>1. fin' = fin /\ sug' = sug /\ Suggesting(sug)'
  BY DEF ApproveRead, ApproveWrite, ApproveFails, files, RuledInv, Suggesting
<1>2. ASSUME NEW i \in Inputs, NEW checked \in SUBSET SuggestedBy[i], ApproveRead(i, checked)
      PROVE  RuledInv'
  <2> DEFINE json == [run[i] EXCEPT !.approved = checked, !.completed = TRUE]
  <2>1. run' = run /\ rules' = rules /\ run[i] # NONE /\ app = Idle
    BY <1>2 DEF ApproveRead, files, Starting
  <2>2. json \in RunRecord /\ json.approved = checked
    BY <2>1, AgentRunsAssumption DEF RuledInv, RunsKept, RunRecord
  <2>3. checked \subseteq Policies /\ rules \subseteq Policies
    BY AgentRunsAssumption DEF RuledInv, ApproveKnows
  <2> HIDE DEF json
  <2>4. app' = [pc |-> IF checked \subseteq rules THEN "run" ELSE "rules", i |-> i,
                old |-> rules, rules |-> rules \cup checked, json |-> json]
    BY <1>2 DEF ApproveRead, json
  <2>5. app' \in Approving
    BY <2>2, <2>3, <2>4 DEF Approving
  <2>6. ApproveKnows' /\ Lasting' = rules /\ Lasting = rules
    BY <2>1, <2>2, <2>3, <2>4, <2>5 DEF ApproveKnows, Lasting, Idle
  <2>7. RunsKept' /\ FinalizeKnows'
    BY <1>1, <2>1 DEF RuledInv, RunsKept, FinalizeKnows
  <2> QED BY <1>1, <2>1, <2>6, <2>7, CopiesKept
<1>3. CASE app.pc = "rules" /\ ApproveWrite
  <2> DEFINE a == app
  <2>1. a \in [pc : {"rules", "run"}, i : Inputs, old : SUBSET Policies,
               rules : SUBSET Policies, json : RunRecord]
    BY <1>3 DEF RuledInv, ApproveKnows, Approving, Idle
  <2>2. rules' = a.rules /\ app' = [a EXCEPT !.pc = "run"] /\ run' = run
    BY <1>3 DEF ApproveWrite
  <2>3. a.old \subseteq a.rules /\ a.json.approved \subseteq a.rules
    BY <1>3 DEF RuledInv, ApproveKnows
  <2>4. Lasting = a.old
    BY <1>3 DEF Lasting
  <2> HIDE DEF a
  <2>5. ApproveKnows' /\ Lasting' = a.old
    BY <2>1, <2>2, <2>3 DEF ApproveKnows, Lasting, Approving
  <2>6. RunsKept' /\ FinalizeKnows'
    BY <1>1, <2>2 DEF RuledInv, RunsKept, FinalizeKnows
  <2> QED BY <1>1, <2>2, <2>4, <2>5, <2>6, CopiesKept
<1>4. CASE app.pc = "run" /\ ApproveWrite
  <2>1. /\ app.i \in Inputs /\ app.json \in RunRecord
        /\ app.old \subseteq rules /\ app.json.approved \subseteq rules
    BY <1>4 DEF RuledInv, ApproveKnows, Approving, Idle
  <2>2. run' = [run EXCEPT ![app.i] = app.json] /\ app' = Idle /\ rules' = rules
    BY <1>4 DEF ApproveWrite
  <2>3. ApproveKnows' /\ Lasting' = rules /\ Lasting = app.old
    BY <1>4, <2>2, IdleRuled DEF RuledInv, ApproveKnows, Lasting, Idle
  <2>4. RunsKept' /\ (\A j \in Inputs : run'[j] = IF j = app.i THEN app.json ELSE run[j])
    BY <2>1, <2>2 DEF RuledInv, RunsKept
  <2>5. FinalizeKnows'
    <3>1. app.json # NONE
      BY <2>1, AgentRunsAssumption
    <3>2. fin.pc # "idle" => fin.i \in Inputs
      BY DEF RuledInv, FinalizeKnows, Finalizing, Idle
    <3> QED BY <1>1, <2>4, <3>1, <3>2 DEF RuledInv, FinalizeKnows
  <2> QED BY <1>1, <2>1, <2>3, <2>4, <2>5, CopiesKept
<1>5. CASE ApproveFails
  <2>1. run' = run /\ rules' = app.old /\ app' = Idle /\ app.pc # "idle"
    BY <1>5 DEF ApproveFails
  <2>2. app.old \in SUBSET Policies
    BY <2>1 DEF RuledInv, ApproveKnows, Approving, Idle
  <2>3. ApproveKnows' /\ Lasting' = Lasting
    BY <2>1, <2>2, IdleRuled DEF ApproveKnows, Lasting, Idle
  <2>4. RunsKept' /\ FinalizeKnows'
    BY <1>1, <2>1 DEF RuledInv, RunsKept, FinalizeKnows
  <2> QED BY <1>1, <2>1, <2>3, <2>4, CopiesKept
<1> QED BY <1>2, <1>3, <1>4, <1>5 DEF ApproveWrite

LEMMA CrashRuled ==
  ASSUME RuledInv, Crash
  PROVE  RuledInv'
<1>1. run' = run /\ rules' = rules
  BY DEF Crash, files
<1>2. fin' \in {fin, Idle} /\ sug' \in {sug, Idle} /\ app' \in {app, Idle}
  BY DEF Crash
<1>3. RunsKept' /\ FinalizeKnows' /\ (fin' = fin \/ fin'.pc # "write")
  BY <1>1, <1>2, IdleRuled DEF RuledInv, RunsKept, FinalizeKnows
<1>4. Suggesting(sug)' /\ (sug' = sug \/ sug'.pc = "idle")
  BY <1>2, IdleRuled DEF RuledInv, Suggesting
<1>5. ApproveKnows' /\ Lasting \subseteq Lasting'
  BY <1>1, <1>2, IdleRuled DEF RuledInv, ApproveKnows, Lasting
<1> QED BY <1>1, <1>3, <1>4, <1>5, CopiesKept

\* Whatever copy of run.json a finalize, a suggestion or an approval puts back,
\* and whichever of them fails or is killed: what a run calls approved is in
\* the rules.
THEOREM ApprovedRuledAlways == Spec => []ApprovedRuled
<1>1. Init => RuledInv
  BY IdleRuled DEF Init, RuledInv, RunsKept, FinalizeKnows, Suggesting, ApproveKnows, CopiesRuled,
       Runs
<1>2. RuledInv /\ [Next]_vars => RuledInv'
  <2>1. ASSUME RuledInv, UNCHANGED <<run, rules, fin, sug, app>> PROVE RuledInv'
    BY <2>1 DEF RuledInv, RunsKept, FinalizeKnows, Suggesting, ApproveKnows, CopiesRuled, Runs,
         Lasting
  <2>2. ASSUME RuledInv,
               \/ \E x \in Exchanges : PlainRead(x)
               \/ PlainWrite
               \/ \E i \in Inputs : Reflect(i)
               \/ \E p \in Policies : Generate(p)
               \/ WriteIntent \/ FindPrinciple \/ BindPrinciple \/ WritePrinciple
               \/ CheckPrinciple \/ CreatePrincipleFails \/ CompleteIntent
               \/ \E r \in Records : Review(r)
               \/ UNCHANGED vars
        PROVE  UNCHANGED <<run, rules, fin, sug, app>>
    BY <2>2 DEF PlainRead, PlainWrite, Reflect, Generate, WriteIntent, FindPrinciple,
         BindPrinciple, WritePrinciple, CheckPrinciple, CreatePrincipleFails, CompleteIntent,
         Review, procs, files, vars
  <2> QED BY <2>1, <2>2, FinalizeRuled, SuggestRuled, ApproveRuled, CrashRuled DEF Next
<1>3. RuledInv => ApprovedRuled
  BY DEF RuledInv, CopiesRuled, ApproveKnows, Lasting, ApprovedRuled
<1> QED BY <1>1, <1>2, <1>3, PTL DEF Spec
=============================================================================
