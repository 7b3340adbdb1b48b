------------------------- MODULE MemoryIndexProofs -------------------------
(***************************************************************************)
(* Proofs about MemoryIndex, for any finite sets of files, any number of   *)
(* runs, connections and changes: what a plan makes of a table, whatever   *)
(* order its files are written in; what is in the tables that a connection *)
(* can read, whatever has become of its log; and what a search may answer. *)
(***************************************************************************)
EXTENDS MemoryIndex, FiniteSetTheorems, WellFoundedInduction, TLAPS

----------------------------------------------------------------------------
(* Induction over the writes of a plan: a set of numbers that holds 0 and  *)
(* with each number the next holds them all.                               *)

Below == {ss \in Nat \X Nat : ss[1] < ss[2]}

LEMMA BelowWF == IsWellFoundedOn(Below, Nat)
<1>1. Below = OpToRel(<, Nat)
  BY DEF Below, OpToRel
<1> QED BY <1>1, NatLessThanWellFounded, Zenon

LEMMA SetInduction ==
  ASSUME NEW S, 0 \in S, \A n \in Nat : n \in S => n + 1 \in S
  PROVE  Nat \subseteq S
<1> DEFINE T == Nat \ S
<1>1. SUFFICES ASSUME T # {} PROVE FALSE
  OBVIOUS
<1>2. T \subseteq Nat
  OBVIOUS
<1> HIDE DEF T
<1>3. PICK n \in T : \A m \in T : ~ (<<m, n>> \in Below)
  BY <1>1, <1>2, WFMin, BelowWF
<1> USE DEF T
<1>4. n \in Nat /\ n # 0 /\ n - 1 \in Nat
  OBVIOUS
<1>5. n - 1 \notin S
  BY <1>4
<1>6. <<n - 1, n>> \in Below
  BY <1>4 DEF Below
<1> QED BY <1>3, <1>4, <1>5, <1>6

LEMMA UpTo ==
  ASSUME NEW N \in Nat, NEW S, 0 \in S, \A n \in 0 .. N : n \in S /\ n < N => n + 1 \in S
  PROVE  0 .. N \subseteq S
<1> DEFINE T == {n \in Nat : n <= N => n \in S}
<1>1. 0 \in T
  OBVIOUS
<1>2. \A n \in Nat : n \in T => n + 1 \in T
  OBVIOUS
<1>3. Nat \subseteq T
  <2> HIDE DEF T
  <2> QED BY <1>1, <1>2, SetInduction
<1> QED BY <1>3

----------------------------------------------------------------------------
(* The writes of a plan, in the order chosen *)

\* The recursive function exists: it is built up one write at a time.
LEMMA WritesExist ==
  ASSUME NEW t, NEW plan, Len(plan.write) \in Nat
  PROVE  \E g : g = [n \in 0 .. Len(plan.write) |->
                       IF n = 0 THEN Purged(t, plan)
                       ELSE Upsert(g[n - 1], plan, plan.write[n])]
<1> DEFINE N == Len(plan.write)
           Step(g, n) == IF n = 0 THEN Purged(t, plan)
                         ELSE Upsert(g[n - 1], plan, plan.write[n])
           S == {m \in 0 .. N : \E g : g = [n \in 0 .. m |-> Step(g, n)]}
<1>1. 0 \in S
  <2> DEFINE g == [n \in 0 .. 0 |-> Purged(t, plan)]
  <2>1. g = [n \in 0 .. 0 |-> Step(g, n)]
    OBVIOUS
  <2> HIDE DEF g
  <2> QED BY <2>1
<1>2. ASSUME NEW m \in 0 .. N, m \in S, m < N PROVE m + 1 \in S
  <2>1. PICK g : g = [n \in 0 .. m |-> Step(g, n)]
    BY <1>2
  <2> DEFINE h == [n \in 0 .. m + 1 |-> IF n <= m THEN g[n] ELSE Step(g, n)]
  <2>2. ASSUME NEW n \in 0 .. m + 1 PROVE h[n] = Step(h, n)
    <3>1. h[n] = Step(g, n)
      BY <2>1
    <3>2. n # 0 => n - 1 \in 0 .. m /\ h[n - 1] = g[n - 1]
      OBVIOUS
    <3> QED BY <3>1, <3>2
  <2>3. h = [n \in 0 .. m + 1 |-> Step(h, n)]
    BY <2>2
  <2>4. m + 1 \in 0 .. N
    BY <1>2
  <2> HIDE DEF h, Step, N
  <2> QED BY <2>3, <2>4
<1>3. N \in S
  <2> HIDE DEF S
  <2>1. 0 .. N \subseteq S
    BY <1>1, <1>2, UpTo
  <2> QED BY <2>1
<1> QED BY <1>3

\* Purged first, then one upsert at a time.
LEMMA WritesStep ==
  ASSUME NEW t, NEW plan, Len(plan.write) \in Nat
  PROVE  /\ Writes(t, plan)[0] = Purged(t, plan)
         /\ \A n \in 0 .. Len(plan.write) : n < Len(plan.write) =>
              Writes(t, plan)[n + 1] = Upsert(Writes(t, plan)[n], plan, plan.write[n + 1])
<1> DEFINE s == Writes(t, plan)
<1>1. s = [n \in 0 .. Len(plan.write) |->
             IF n = 0 THEN Purged(t, plan) ELSE Upsert(s[n - 1], plan, plan.write[n])]
  BY WritesExist DEF Writes
<1> HIDE DEF s
<1>2. s[0] = Purged(t, plan)
  BY <1>1
<1>3. ASSUME NEW n \in 0 .. Len(plan.write), n < Len(plan.write)
      PROVE  s[n + 1] = Upsert(s[n], plan, plan.write[n + 1])
  <2>1. n + 1 \in 0 .. Len(plan.write) /\ n + 1 # 0 /\ (n + 1) - 1 = n
    BY <1>3
  <2> QED BY <1>1, <2>1
<1> QED BY <1>2, <1>3 DEF s

\* SetToSeq lists a finite set.
LEMMA Listing ==
  ASSUME NEW S, IsFiniteSet(S)
  PROVE  /\ SetToSeq(S) \in Seq(S)
         /\ \A p \in S : \E n \in 1 .. Len(SetToSeq(S)) : SetToSeq(S)[n] = p
<1> DEFINE N == Cardinality(S)
           f == SetToSeq(S)
<1>1. N \in Nat /\ ExistsBijection(1 .. N, S)
  BY FS_CardinalityType
<1>2. \E g \in [1 .. N -> S] : IsInjective(g)
  BY <1>1 DEF ExistsBijection, Bijection, Injection, IsInjective
<1>3. f \in Injection(1 .. N, S)
  BY <1>2 DEF SetToSeq, Injection
<1> HIDE DEF f
<1>4. Cardinality(1 .. N) = N
  BY <1>1, FS_Interval
<1>5. f \in Surjection(1 .. N, S)
  BY <1>3, <1>4, FS_Injection
<1>6. f \in [1 .. N -> S] /\ \A p \in S : \E n \in 1 .. N : f[n] = p
  BY <1>5 DEF Surjection
<1>7. Len(f) = N /\ f \in Seq(S)
  BY <1>1, <1>6
<1> QED BY <1>6, <1>7 DEF f
----------------------------------------------------------------------------
(* What a plan of finitely many files writes *)

\* Every file that is not indexed as it is, and no other.
LEMMA PlanWrites ==
  ASSUME NEW t, NEW items, IsFiniteSet(DOMAIN items)
  PROVE  LET write == Plan(t, items).write IN
         /\ Len(write) \in Nat
         /\ \A n \in 1 .. Len(write) :
              write[n] \in DOMAIN items /\ ~Unchanged(t, items, write[n])
         /\ \A p \in DOMAIN items : ~Unchanged(t, items, p) =>
              \E n \in 1 .. Len(write) : write[n] = p
<1> DEFINE changed == {p \in DOMAIN items : ~Unchanged(t, items, p)}
           added == {p \in changed : Added(t, items, p)}
           a == SetToSeq(added)
           b == SetToSeq(changed \ added)
<1>1. IsFiniteSet(added) /\ IsFiniteSet(changed \ added)
  BY FS_Subset
<1>2. /\ a \in Seq(added) /\ b \in Seq(changed \ added)
      /\ \A p \in added : \E n \in 1 .. Len(a) : a[n] = p
      /\ \A p \in changed \ added : \E n \in 1 .. Len(b) : b[n] = p
  <2> HIDE DEF added, changed
  <2> QED BY <1>1, Listing
<1>3. Plan(t, items).write = a \o b
  BY DEF Plan
<1>4. added \subseteq changed
  OBVIOUS
<1>5. /\ Len(a \o b) = Len(a) + Len(b) /\ Len(a) \in Nat /\ Len(b) \in Nat
      /\ \A n \in 1 .. Len(a) : (a \o b)[n] = a[n] /\ a[n] \in changed
      /\ \A n \in 1 .. Len(b) : (a \o b)[Len(a) + n] = b[n] /\ b[n] \in changed
  <2> HIDE DEF added, changed, a, b
  <2> QED BY <1>2, <1>4
<1>6. ASSUME NEW n \in 1 .. Len(a \o b) PROVE (a \o b)[n] \in changed
  <2> HIDE DEF added, changed, a, b
  <2>1. CASE n <= Len(a)
    BY <1>5, <2>1
  <2>2. CASE n > Len(a)
    <3>1. n - Len(a) \in 1 .. Len(b) /\ Len(a) + (n - Len(a)) = n
      BY <1>5, <2>2
    <3> QED BY <1>5, <3>1
  <2> QED BY <1>5, <2>1, <2>2
<1>7. ASSUME NEW p \in changed PROVE \E n \in 1 .. Len(a \o b) : (a \o b)[n] = p
  <2> HIDE DEF added, changed, a, b
  <2>1. CASE p \in added
    <3>1. PICK n \in 1 .. Len(a) : a[n] = p
      BY <1>2, <2>1
    <3> QED BY <1>5, <3>1
  <2>2. CASE p \notin added
    <3>1. PICK n \in 1 .. Len(b) : b[n] = p
      BY <1>2, <2>2
    <3>2. Len(a) + n \in 1 .. Len(a \o b)
      BY <1>5
    <3> QED BY <1>5, <3>1, <3>2
  <2> QED BY <2>1, <2>2
<1>8. Len(a \o b) \in Nat
  BY <1>5
<1> HIDE DEF a, b
<1> QED BY <1>3, <1>6, <1>7, <1>8

\* The path at which the plan found the id of p, where that is another path.
Left(plan, p) ==
  LET i == plan.items[p].id IN
  IF i \in DOMAIN plan.seen.row THEN {plan.seen.row[i].path} \ {p} ELSE {}

\* What one upsert makes of the states and of the rows.
LEMMA UpsertState ==
  ASSUME NEW t, NEW plan, NEW p
  PROVE  LET u == Upsert(t, plan, p) IN
         /\ DOMAIN u.state = (DOMAIN t.state \ Left(plan, p)) \cup {p}
         /\ u.state[p] = plan.items[p].sha
         /\ \A q \in DOMAIN u.state : q # p => u.state[q] = t.state[q]
BY DEF Upsert, With, Without, Left

LEMMA UpsertRow ==
  ASSUME NEW t, NEW plan, NEW p
  PROVE  LET u == Upsert(t, plan, p)
             i == plan.items[p].id IN
         /\ DOMAIN u.row = (DOMAIN t.row \ RowsAt(t.row, p)) \cup {i}
         /\ u.row[i].path = p /\ u.row[i].body = plan.items[p].body
         /\ \A j \in DOMAIN u.row : j # i =>
              j \in DOMAIN t.row /\ u.row[j] = t.row[j] /\ t.row[j].path # p
BY DEF Upsert, With, Without, RowsAt

LEMMA PurgedTable ==
  ASSUME NEW t, NEW plan
  PROVE  LET u == Purged(t, plan) IN
         /\ DOMAIN u.state = DOMAIN t.state \ plan.deleted
         /\ \A q \in DOMAIN u.state : u.state[q] = t.state[q]
         /\ DOMAIN u.row \subseteq DOMAIN t.row
         /\ \A j \in DOMAIN u.row : u.row[j] = t.row[j] /\ t.row[j].path \notin plan.deleted
BY DEF Purged, Without

----------------------------------------------------------------------------
(* Tables that back what a search answers *)

\* A memory's id is the one its file is named for.
OwnIds(row) == \A i \in DOMAIN row : row[i].path[1] = i

\* The items of a run say what was hashed.
Hashed(items, T) ==
  \A p \in DOMAIN items : items[p].body = items[p].sha \/ <<p, items[p].body, items[p].sha>> \in T

\* Whatever table a plan is applied to, its writes keep the rows apart and
\* backed.
LEMMA AppliedBacked ==
  ASSUME NEW t, NEW plan, NEW T, Len(plan.write) \in Nat,
         \A n \in 1 .. Len(plan.write) : plan.write[n] \in DOMAIN plan.items,
         Hashed(plan.items, T), PathsApart(t.row), Backed(t, T)
  PROVE  PathsApart(Applied(t, plan).row) /\ Backed(Applied(t, plan), T)
<1> DEFINE N == Len(plan.write)
           s == Writes(t, plan)
           S == {n \in 0 .. N : PathsApart(s[n].row) /\ Backed(s[n], T)}
<1>1. 0 \in S
  <2>1. s[0] = Purged(t, plan)
    BY WritesStep
  <2> DEFINE u == Purged(t, plan)
  <2>2. /\ DOMAIN u.state \subseteq DOMAIN t.state
        /\ \A q \in DOMAIN u.state : u.state[q] = t.state[q]
        /\ DOMAIN u.row \subseteq DOMAIN t.row
        /\ \A j \in DOMAIN u.row : u.row[j] = t.row[j]
    BY PurgedTable
  <2> HIDE DEF u
  <2>3. PathsApart(u.row)
    BY <2>2 DEF PathsApart
  <2>4. Backed(u, T)
    BY <2>2 DEF Backed
  <2> QED BY <2>1, <2>3, <2>4 DEF u
<1>2. ASSUME NEW n \in 0 .. N, n \in S, n < N PROVE n + 1 \in S
  <2> DEFINE p == plan.write[n + 1]
             a == s[n]
             u == Upsert(a, plan, p)
  <2>1. s[n + 1] = u
    BY <1>2, WritesStep
  <2>2. n + 1 \in 0 .. N /\ p \in DOMAIN plan.items
    BY <1>2
  <2>3. plan.items[p].body = plan.items[p].sha \/ <<p, plan.items[p].body, plan.items[p].sha>> \in T
    BY <2>2 DEF Hashed
  <2>4. PathsApart(a.row) /\ Backed(a, T)
    BY <1>2
  <2> HIDE DEF p, a, u, s
  <2>5. PathsApart(u.row)
    BY <2>4, UpsertRow DEF PathsApart, u
  <2>6. Backed(u, T)
    <3>1. ASSUME NEW j \in DOMAIN u.row, u.row[j].path \in DOMAIN u.state
          PROVE  \/ u.row[j].body = u.state[u.row[j].path]
                 \/ <<u.row[j].path, u.row[j].body, u.state[u.row[j].path]>> \in T
      <4>1. CASE j = plan.items[p].id
        <5>1. u.row[j].path = p /\ u.row[j].body = plan.items[p].body
          BY <4>1, UpsertRow DEF u
        <5>2. u.state[p] = plan.items[p].sha
          BY UpsertState DEF u
        <5> QED BY <2>3, <5>1, <5>2
      <4>2. CASE j # plan.items[p].id
        <5>1. j \in DOMAIN a.row /\ u.row[j] = a.row[j] /\ a.row[j].path # p
          BY <4>2, UpsertRow DEF u
        <5>2. /\ u.row[j].path \in DOMAIN a.state
              /\ u.state[u.row[j].path] = a.state[u.row[j].path]
          BY <3>1, <5>1, UpsertState DEF u
        <5> QED BY <2>4, <5>1, <5>2 DEF Backed
      <4> QED BY <4>1, <4>2
    <3> QED BY <3>1 DEF Backed
  <2> QED BY <2>1, <2>2, <2>5, <2>6
<1>3. N \in S
  <2> HIDE DEF S
  <2>1. 0 .. N \subseteq S
    BY <1>1, <1>2, UpTo
  <2> QED BY <2>1
<1> QED BY <1>3 DEF Applied

LEMMA AppliedOwnIds ==
  ASSUME NEW t, NEW plan, Len(plan.write) \in Nat,
         \A n \in 1 .. Len(plan.write) : plan.write[n] \in DOMAIN plan.items,
         \A p \in DOMAIN plan.items : plan.items[p].id = p[1],
         OwnIds(t.row)
  PROVE  OwnIds(Applied(t, plan).row)
<1> DEFINE N == Len(plan.write)
           s == Writes(t, plan)
           S == {n \in 0 .. N : OwnIds(s[n].row)}
<1>1. 0 \in S
  <2>1. s[0] = Purged(t, plan)
    BY WritesStep
  <2> QED BY <2>1, PurgedTable DEF OwnIds
<1>2. ASSUME NEW n \in 0 .. N, n \in S, n < N PROVE n + 1 \in S
  <2> DEFINE p == plan.write[n + 1]
             u == Upsert(s[n], plan, p)
  <2>1. s[n + 1] = u
    BY <1>2, WritesStep
  <2>2. n + 1 \in 0 .. N /\ p \in DOMAIN plan.items /\ OwnIds(s[n].row)
    BY <1>2
  <2>3. plan.items[p].id = p[1]
    BY <2>2
  <2> HIDE DEF p, s
  <2>4. OwnIds(u.row)
    BY <2>2, <2>3, UpsertRow DEF OwnIds
  <2> QED BY <2>1, <2>2, <2>4
<1>3. N \in S
  <2> HIDE DEF S
  <2>1. 0 .. N \subseteq S
    BY <1>1, <1>2, UpTo
  <2> QED BY <2>1
<1> QED BY <1>3 DEF Applied
----------------------------------------------------------------------------
(* A plan applied to the table it was made from *)

\* Every state is one of a file that was read: of the others, those whose id
\* lives on are forgotten when its file is written, and the rest is purged.
LEMMA StatesOfItems ==
  ASSUME NEW t, NEW items, IsFiniteSet(DOMAIN items)
  PROVE  DOMAIN Applied(t, Plan(t, items)).state \subseteq DOMAIN items
<1> DEFINE plan == Plan(t, items)
           write == plan.write
           N == Len(write)
           s == Writes(t, plan)
           S == {n \in 0 .. N :
                   \A q \in DOMAIN s[n].state \ DOMAIN items :
                     /\ q \in DOMAIN t.state /\ q \notin Deleted(t, items)
                     /\ \A m \in 1 .. n : q \notin Left(plan, write[m])}
<1>1. /\ N \in Nat
      /\ \A n \in 1 .. N : write[n] \in DOMAIN items
      /\ \A p \in DOMAIN items : ~Unchanged(t, items, p) => \E n \in 1 .. N : write[n] = p
  BY PlanWrites
<1>2. plan.seen = t /\ plan.items = items /\ plan.deleted = Deleted(t, items)
  BY DEF Plan
<1> HIDE DEF plan
<1>3. 0 \in S
  <2>1. s[0] = Purged(t, plan)
    BY <1>1, WritesStep
  <2> HIDE DEF s
  <2> QED BY <1>1, <1>2, <2>1, PurgedTable
<1>4. ASSUME NEW n \in 0 .. N, n \in S, n < N PROVE n + 1 \in S
  <2> DEFINE p == write[n + 1]
             u == Upsert(s[n], plan, p)
  <2>1. s[n + 1] = u
    BY <1>1, <1>4, WritesStep
  <2>2. n + 1 \in 0 .. N /\ p \in DOMAIN items
    BY <1>1, <1>4
  <2>3. \A q \in DOMAIN s[n].state \ DOMAIN items :
          /\ q \in DOMAIN t.state /\ q \notin Deleted(t, items)
          /\ \A m \in 1 .. n : q \notin Left(plan, write[m])
    BY <1>4
  <2>4. DOMAIN u.state = (DOMAIN s[n].state \ Left(plan, p)) \cup {p}
    BY UpsertState
  <2>5. \A m \in 1 .. n + 1 : m \in 1 .. n \/ m = n + 1
    BY <1>1
  <2> HIDE DEF s, u
  <2>6. ASSUME NEW q \in DOMAIN u.state \ DOMAIN items
        PROVE  /\ q \in DOMAIN t.state /\ q \notin Deleted(t, items)
               /\ \A m \in 1 .. n + 1 : q \notin Left(plan, write[m])
    BY <2>2, <2>3, <2>4, <2>5
  <2> QED BY <2>1, <2>2, <2>6
<1>5. N \in S
  <2> HIDE DEF S
  <2>1. 0 .. N \subseteq S
    BY <1>1, <1>3, <1>4, UpTo
  <2> QED BY <1>1, <2>1
<1>6. ASSUME NEW q \in DOMAIN s[N].state, q \notin DOMAIN items PROVE FALSE
  <2>1. /\ q \in DOMAIN t.state /\ q \notin Deleted(t, items)
        /\ \A m \in 1 .. N : q \notin Left(plan, write[m])
    BY <1>5, <1>6
  <2>2. PICK i \in RowsAt(t.row, q) : i \in Ids(items)
    BY <1>6, <2>1 DEF Deleted
  <2>3. PICK p \in DOMAIN items : items[p].id = i
    BY <2>2 DEF Ids
  <2>4. i \in DOMAIN t.row /\ t.row[i].path = q /\ p # q
    BY <1>6, <2>2 DEF RowsAt
  <2>5. ~Unchanged(t, items, p)
    BY <2>3, <2>4 DEF Unchanged
  <2>6. PICK m \in 1 .. N : write[m] = p
    BY <1>1, <2>5
  <2>7. q \in Left(plan, p)
    BY <1>2, <2>3, <2>4 DEF Left
  <2> QED BY <2>1, <2>6, <2>7
<1> QED BY <1>6 DEF Applied, plan

\* A state that is left for a file that was read is of what was hashed.
LEMMA StatesHashed ==
  ASSUME NEW t, NEW items, IsFiniteSet(DOMAIN items),
         NEW p \in DOMAIN items, p \in DOMAIN Applied(t, Plan(t, items)).state
  PROVE  Applied(t, Plan(t, items)).state[p] = items[p].sha
<1> DEFINE plan == Plan(t, items)
           write == plan.write
           N == Len(write)
           s == Writes(t, plan)
           done(n) == Unchanged(t, items, p) \/ \E m \in 1 .. n : write[m] = p
           S == {n \in 0 .. N : p \in DOMAIN s[n].state /\ done(n) => s[n].state[p] = items[p].sha}
<1>1. /\ N \in Nat
      /\ ~Unchanged(t, items, p) => \E n \in 1 .. N : write[n] = p
  BY PlanWrites
<1>2. plan.items = items
  BY DEF Plan
<1> HIDE DEF plan
<1>3. 0 \in S
  <2>1. s[0] = Purged(t, plan)
    BY <1>1, WritesStep
  <2> HIDE DEF s
  <2>2. p \in DOMAIN s[0].state => s[0].state[p] = t.state[p]
    BY <2>1, PurgedTable
  <2>3. done(0) => t.state[p] = items[p].sha
    BY DEF Unchanged
  <2> QED BY <1>1, <2>2, <2>3
<1>4. ASSUME NEW n \in 0 .. N, n \in S, n < N PROVE n + 1 \in S
  <2> DEFINE w == write[n + 1]
             u == Upsert(s[n], plan, w)
  <2>1. s[n + 1] = u
    BY <1>1, <1>4, WritesStep
  <2>2. n + 1 \in 0 .. N
    BY <1>1, <1>4
  <2>3. p \in DOMAIN s[n].state /\ done(n) => s[n].state[p] = items[p].sha
    BY <1>4
  <2>4. /\ DOMAIN u.state = (DOMAIN s[n].state \ Left(plan, w)) \cup {w}
        /\ u.state[w] = items[w].sha
        /\ \A q \in DOMAIN u.state : q # w => u.state[q] = s[n].state[q]
    BY <1>2, UpsertState
  <2>5. w # p => (done(n + 1) => done(n))
    <3>1. \A m \in 1 .. n + 1 : m \in 1 .. n \/ m = n + 1
      BY <1>1
    <3> QED BY <3>1
  <2> HIDE DEF s, u, done, w
  <2>6. p \in DOMAIN u.state /\ done(n + 1) => u.state[p] = items[p].sha
    BY <2>3, <2>4, <2>5
  <2> QED BY <2>1, <2>2, <2>6
<1>5. N \in S
  <2> HIDE DEF S
  <2>1. 0 .. N \subseteq S
    BY <1>1, <1>3, <1>4, UpTo
  <2> QED BY <1>1, <2>1
<1> QED BY <1>1, <1>5 DEF Applied, plan

\* A check that passes leaves the index exactly on the files that were read.
LEMMA ConsistentFresh ==
  ASSUME NEW t, NEW items, IsFiniteSet(DOMAIN items),
         ConsistentWith(Applied(t, Plan(t, items)), Plan(t, items))
  PROVE  Fresh(Applied(t, Plan(t, items)), items)
<1> DEFINE made == Applied(t, Plan(t, items))
<1>1. Cardinality(DOMAIN made.state) = Cardinality(DOMAIN items)
  BY DEF ConsistentWith, Consistent, Plan
<1>2. DOMAIN made.state = DOMAIN items
  BY <1>1, StatesOfItems, FS_Subset
<1>3. \A p \in DOMAIN items : made.state[p] = items[p].sha
  BY <1>2, StatesHashed
<1> QED BY <1>2, <1>3 DEF Fresh
----------------------------------------------------------------------------
(* When the check passes: ids apart, and no path that traded its id *)

ItemsApart(items) == \A p, q \in DOMAIN items : items[p].id = items[q].id => p = q
\* Each file that was read has its state, and its id the row at its path.
LEMMA ItemsStay ==
  ASSUME NEW t, NEW items, IsFiniteSet(DOMAIN items),
         ItemsApart(items), ~Shuffled(t, items), NEW p \in DOMAIN items
  PROVE  LET made == Applied(t, Plan(t, items)) IN
         /\ p \in DOMAIN made.state
         /\ items[p].id \in DOMAIN made.row /\ made.row[items[p].id].path = p
<1> DEFINE plan == Plan(t, items)
           write == plan.write
           N == Len(write)
           s == Writes(t, plan)
           id == items[p].id
           holds(a) == p \in DOMAIN a.state /\ id \in DOMAIN a.row /\ a.row[id].path = p
           done(n) == Unchanged(t, items, p) \/ \E m \in 1 .. n : write[m] = p
           S == {n \in 0 .. N : done(n) => holds(s[n])}
<1>1. /\ N \in Nat
      /\ \A n \in 1 .. N : write[n] \in DOMAIN items
      /\ \A q \in DOMAIN items : ~Unchanged(t, items, q) => \E n \in 1 .. N : write[n] = q
  BY PlanWrites
<1>2. plan.seen = t /\ plan.items = items /\ plan.deleted = Deleted(t, items)
  BY DEF Plan
<1> HIDE DEF plan
<1>3. 0 \in S
  <2>1. s[0] = Purged(t, plan)
    BY <1>1, WritesStep
  <2>2. p \notin plan.deleted
    BY <1>2 DEF Deleted
  <2>3. ASSUME Unchanged(t, items, p) PROVE holds(Purged(t, plan))
    <3>1. p \in DOMAIN t.state /\ id \in DOMAIN t.row /\ t.row[id].path = p
      BY <2>3 DEF Unchanged
    <3> QED BY <1>2, <2>2, <3>1 DEF Purged, Without, Deleted
  <2>4. done(0) => Unchanged(t, items, p)
    OBVIOUS
  <2> HIDE DEF s, holds, done
  <2> QED BY <1>1, <2>1, <2>3, <2>4
<1>4. ASSUME NEW n \in 0 .. N, n \in S, n < N PROVE n + 1 \in S
  <2> DEFINE w == write[n + 1]
             u == Upsert(s[n], plan, w)
  <2>1. s[n + 1] = u
    BY <1>1, <1>4, WritesStep
  <2>2. n + 1 \in 0 .. N /\ w \in DOMAIN items
    BY <1>1, <1>4
  <2>3. done(n) => holds(s[n])
    BY <1>4
  <2>4. /\ DOMAIN u.state = (DOMAIN s[n].state \ Left(plan, w)) \cup {w}
        /\ DOMAIN u.row = (DOMAIN s[n].row \ RowsAt(s[n].row, w)) \cup {items[w].id}
        /\ u.row[items[w].id].path = w
        /\ \A j \in DOMAIN u.row : j # items[w].id => u.row[j] = s[n].row[j]
    <3> HIDE DEF s
    <3> QED BY <1>2, UpsertState, UpsertRow
  <2>5. CASE w = p
    <3>1. holds(u)
      BY <2>4, <2>5
    <3> HIDE DEF holds, u, s
    <3> QED BY <2>1, <2>2, <3>1
  <2>6. CASE w # p
    <3>1. done(n + 1) => done(n)
      <4>1. \A m \in 1 .. n + 1 : m \in 1 .. n \/ m = n + 1
        BY <1>1
      <4> QED BY <2>6, <4>1
    <3>2. items[w].id # id
      BY <2>2, <2>6 DEF ItemsApart
    <3>3. p \notin Left(plan, w)
      <4>1. SUFFICES ASSUME items[w].id \in DOMAIN t.row, t.row[items[w].id].path = p
                     PROVE  FALSE
        BY <1>2 DEF Left
      <4>2. items[w].id \in Ids(items)
        BY <2>2 DEF Ids
      <4> QED BY <3>2, <4>1, <4>2 DEF Shuffled
    <3>4. holds(s[n]) => holds(u)
      <4> HIDE DEF s, u, w
      <4> QED BY <2>4, <2>6, <3>2, <3>3 DEF RowsAt
    <3> HIDE DEF holds, u, s, done
    <3> QED BY <2>1, <2>2, <2>3, <3>1, <3>4
  <2> QED BY <2>5, <2>6
<1>5. N \in S
  <2> HIDE DEF S
  <2>1. 0 .. N \subseteq S
    BY <1>1, <1>3, <1>4, UpTo
  <2> QED BY <1>1, <2>1
<1> QED BY <1>1, <1>5 DEF Applied, plan

\* No row is left of an id that was not read.
LEMMA NoOtherRow ==
  ASSUME NEW t, NEW items, IsFiniteSet(DOMAIN items), PathsApart(t.row), Tracked(t)
  PROVE  DOMAIN Applied(t, Plan(t, items)).row \subseteq Ids(items)
<1> DEFINE plan == Plan(t, items)
           write == plan.write
           N == Len(write)
           s == Writes(t, plan)
           S == {n \in 0 .. N :
                   \A i \in DOMAIN s[n].row \ Ids(items) :
                     /\ i \in DOMAIN t.row /\ s[n].row[i] = t.row[i]
                     /\ t.row[i].path \notin Deleted(t, items)
                     /\ \A m \in 1 .. n : write[m] # t.row[i].path}
<1>1. /\ N \in Nat
      /\ \A n \in 1 .. N : write[n] \in DOMAIN items
      /\ \A p \in DOMAIN items : ~Unchanged(t, items, p) => \E n \in 1 .. N : write[n] = p
  BY PlanWrites
<1>2. plan.items = items /\ plan.deleted = Deleted(t, items)
  BY DEF Plan
<1> HIDE DEF plan
<1>3. 0 \in S
  <2>1. s[0] = Purged(t, plan)
    BY <1>1, WritesStep
  <2> HIDE DEF s
  <2> QED BY <1>1, <1>2, <2>1, PurgedTable
<1>4. ASSUME NEW n \in 0 .. N, n \in S, n < N PROVE n + 1 \in S
  <2> DEFINE w == write[n + 1]
             u == Upsert(s[n], plan, w)
  <2>1. s[n + 1] = u
    BY <1>1, <1>4, WritesStep
  <2>2. n + 1 \in 0 .. N /\ items[w].id \in Ids(items)
    BY <1>1, <1>4 DEF Ids
  <2>3. \A i \in DOMAIN s[n].row \ Ids(items) :
          /\ i \in DOMAIN t.row /\ s[n].row[i] = t.row[i]
          /\ t.row[i].path \notin Deleted(t, items)
          /\ \A m \in 1 .. n : write[m] # t.row[i].path
    BY <1>4
  <2>4. \A i \in DOMAIN u.row : i # items[w].id =>
          i \in DOMAIN s[n].row /\ u.row[i] = s[n].row[i] /\ s[n].row[i].path # w
    <3> HIDE DEF s
    <3> QED BY <1>2, UpsertRow
  <2>5. \A m \in 1 .. n + 1 : m \in 1 .. n \/ m = n + 1
    BY <1>1
  <2> HIDE DEF s, u
  <2>6. ASSUME NEW i \in DOMAIN u.row \ Ids(items)
        PROVE  /\ i \in DOMAIN t.row /\ u.row[i] = t.row[i]
               /\ t.row[i].path \notin Deleted(t, items)
               /\ \A m \in 1 .. n + 1 : write[m] # t.row[i].path
    BY <2>2, <2>3, <2>4, <2>5
  <2> QED BY <2>1, <2>2, <2>6
<1>5. N \in S
  <2> HIDE DEF S
  <2>1. 0 .. N \subseteq S
    BY <1>1, <1>3, <1>4, UpTo
  <2> QED BY <1>1, <2>1
<1>6. ASSUME NEW i \in DOMAIN s[N].row, i \notin Ids(items) PROVE FALSE
  <2> DEFINE p == t.row[i].path
  <2>1. /\ i \in DOMAIN t.row /\ p \notin Deleted(t, items)
        /\ \A m \in 1 .. N : write[m] # p
    BY <1>5, <1>6
  <2>2. p \in DOMAIN t.state
    BY <2>1 DEF Tracked
  <2>3. RowsAt(t.row, p) \cap Ids(items) = {}
    BY <1>6, <2>1 DEF PathsApart, RowsAt
  <2>4. p \in DOMAIN items
    BY <2>1, <2>2, <2>3 DEF Deleted
  <2>5. Unchanged(t, items, p)
    BY <1>1, <2>1, <2>4
  <2>6. items[p].id \in DOMAIN t.row /\ t.row[items[p].id].path = p
    BY <2>5 DEF Unchanged
  <2>7. items[p].id = i
    BY <2>1, <2>6 DEF PathsApart
  <2> QED BY <1>6, <2>4, <2>7 DEF Ids
<1> QED BY <1>6 DEF Applied, plan

\* As many ids as files, when no two files have one id, and only then.
LEMMA IdCount ==
  ASSUME NEW items, IsFiniteSet(DOMAIN items)
  PROVE  /\ ItemsApart(items) => Cardinality(Ids(items)) = Cardinality(DOMAIN items)
         /\ ~Clash(items) => ItemsApart(items)
<1> DEFINE f == [p \in DOMAIN items |-> items[p].id]
<1>1. f \in Surjection(DOMAIN items, Ids(items))
  BY DEF Surjection, Ids
<1>2. ItemsApart(items) <=> f \in Injection(DOMAIN items, Ids(items))
  <2>1. f \in [DOMAIN items -> Ids(items)]
    BY DEF Ids
  <2> QED BY <2>1 DEF Injection, IsInjective, ItemsApart
<1> HIDE DEF f
<1>3. /\ Cardinality(Ids(items)) <= Cardinality(DOMAIN items)
      /\ Cardinality(Ids(items)) = Cardinality(DOMAIN items)
           <=> f \in Injection(DOMAIN items, Ids(items))
      /\ IsFiniteSet(Ids(items))
  BY <1>1, FS_Surjection
<1>4. Cardinality(Ids(items)) \in Nat /\ Cardinality(DOMAIN items) \in Nat
  BY <1>3, FS_CardinalityType
<1> QED BY <1>2, <1>3, <1>4 DEF Clash

\* So the check passes, unless ids clash or paths traded places.
LEMMA ApartConsistent ==
  ASSUME NEW t, NEW items, IsFiniteSet(DOMAIN items), PathsApart(t.row), Tracked(t),
         ItemsApart(items), ~Shuffled(t, items)
  PROVE  ConsistentWith(Applied(t, Plan(t, items)), Plan(t, items))
<1> DEFINE made == Applied(t, Plan(t, items))
<1>1. \A p \in DOMAIN items :
        /\ p \in DOMAIN made.state
        /\ items[p].id \in DOMAIN made.row /\ made.row[items[p].id].path = p
  BY ItemsStay
<1>2. DOMAIN made.state \subseteq DOMAIN items /\ DOMAIN made.row \subseteq Ids(items)
  BY StatesOfItems, NoOtherRow
<1> HIDE DEF made
<1>3. DOMAIN made.state = DOMAIN items /\ DOMAIN made.row = Ids(items)
  BY <1>1, <1>2 DEF Ids
<1>4. {made.row[i].path : i \in DOMAIN made.row} = DOMAIN made.state
  <2>1. ASSUME NEW i \in DOMAIN made.row PROVE made.row[i].path \in DOMAIN made.state
    <3>1. PICK p \in DOMAIN items : i = items[p].id
      BY <1>3 DEF Ids
    <3> QED BY <1>1, <3>1
  <2>2. ASSUME NEW p \in DOMAIN made.state PROVE \E i \in DOMAIN made.row : made.row[i].path = p
    BY <1>1, <1>3
  <2> QED BY <2>1, <2>2
<1>5. Cardinality(DOMAIN made.row) = Cardinality(DOMAIN items)
  BY <1>3, IdCount
<1>6. Plan(t, items).items = items
  BY DEF Plan
<1> QED BY <1>3, <1>4, <1>5, <1>6 DEF ConsistentWith, Consistent, made
----------------------------------------------------------------------------
(* The inductive invariant *)

\* Tables that a database may hold.
SoundDb(d, T) == Sound(d.mem, T) /\ OwnIds(d.mem.row) /\ Sound(d.doc, {})
\* A log that somebody uses.
LogSound(l, T) ==
  /\ l = [tables |-> l.tables, disk |-> l.disk, named |-> l.named]
  /\ l.tables = NONE \/ SoundDb(l.tables, T)
  /\ l.disk = NONE \/ SoundDb(l.disk, T)

\* The files a run has read: each id once in the memory files, as the store
\* was valid; the documents as they were.
MemoryRead(items, T) ==
  /\ DOMAIN items \subseteq MemPath /\ ItemsApart(items) /\ Hashed(items, T)
  /\ \A p \in DOMAIN items : items[p].id = p[1]
DocumentsRead(items) == DOMAIN items \subseteq DocPath /\ Hashed(items, {})

Domains == DOMAIN mem = MemPath /\ DOMAIN docs = DocPath /\ DOMAIN idx = Indexers
V2Sound == v2 # NONE => Sound(v2, {}) /\ OwnIds(v2.row)

\* A migration that has begun, and one that has indexed the documents.
MakeSound(m) ==
  /\ m.pc \in {"documents", "verify", "replace"} => v2 # NONE
  /\ m.pc \in {"verify", "replace"} => Sound(m.doc, {})

\* Logs and database once a step is made, for those who were connected before it.
StoreSound(T, users) ==
  /\ DOMAIN logs = Logs /\ db \in Logs \cup {NONE}
  /\ \A g \in Logs : logs[g] = NONE \/ LogSound(logs[g], T)
  /\ \A g \in Logs : g \in users \cup {db} => LogSound(logs[g], T)

\* A run that has read, one that is reading the index and one that has planned.
RunRead(me) ==
  /\ DOMAIN me.read \subseteq MemPath
  /\ \A p, q \in DOMAIN me.read : p[1] = q[1] => p = q
RunSelects(me, T) ==
  /\ {"pc", "rebuild", "conn", "items", "documents", "base", "table"} \subseteq DOMAIN me
  /\ me.conn \in Logs /\ ~me.rebuild /\ MemoryRead(me.items, T) /\ DocumentsRead(me.documents)
RunPlanned(me, T) ==
  /\ me.mem = Plan(me.base.mem, me.mem.items) /\ MemoryRead(me.mem.items, T)
  /\ me.doc = Plan(me.base.doc, me.doc.items) /\ DocumentsRead(me.doc.items)
  /\ IF me.rebuild THEN me.base = EmptyDb ELSE me.conn \in Logs
RunSound(me, T) ==
  /\ me.pc = "hash" => RunRead(me)
  /\ me.pc = "documents" => MemoryRead(me.items, T)
  /\ me.pc \in {"rows", "states"} => RunSelects(me, T)
  /\ me.pc = "apply" => RunPlanned(me, T)
  /\ me.pc \in {"clear", "replace"} => SoundDb(me.made, T)

\* What has been found fresh, and what has been found in it.
RowsTrue(rows, hashed, T) ==
  \A r \in rows :
    /\ r.path \in DOMAIN hashed
    /\ \/ r.body = hashed[r.path].sha /\ hashed[r.path].sha # "restricted"
       \/ <<r.path, r.body, hashed[r.path].sha>> \in T
DocumentsTrue(found, documents) ==
  \A r \in found :
    r.path \in DOMAIN documents /\ r.body = documents[r.path].sha /\ documents[r.path].sha[2] # "restricted"
SearchSound(s, T) ==
  /\ s.pc \in Finding => s.conn \in Logs
  /\ s.pc \in {"documentStates", "memories"} => Sound(s.mem, T) /\ Fresh(s.mem, s.hashed)
  /\ s.pc \in {"memories", "found"} => Sound(s.doc, {}) /\ Fresh(s.doc, s.documents)
  /\ s.pc = "found" => "doc" \notin s.same
  /\ s.pc \in {"found", "answered"} /\ "mem" \in s.same => RowsTrue(s.rows, s.hashed, T)
  /\ s.pc = "answered" /\ "doc" \in s.same => DocumentsTrue(s.found, s.documents)

IndexInv ==
  /\ Domains /\ V2Sound /\ MakeSound(make) /\ StoreSound(torn, Connected)
  /\ \A x \in Indexers : RunSound(idx[x], torn)
  /\ SearchSound(srch, torn)

LEMMA FiniteTriples ==
  ASSUME NEW A, NEW B, NEW C, IsFiniteSet(A), IsFiniteSet(B), IsFiniteSet(C)
  PROVE  IsFiniteSet(A \X B \X C)
<1> DEFINE S == A \X (B \X C)
           f == [q \in S |-> <<q[1], q[2][1], q[2][2]>>]
<1>1. IsFiniteSet(S)
  BY FS_Product
<1>2. f \in [S -> A \X B \X C]
  OBVIOUS
<1>3. ASSUME NEW r \in A \X B \X C PROVE \E q \in S : f[q] = r
  <2>1. <<r[1], <<r[2], r[3]>>>> \in S
    OBVIOUS
  <2>2. f[<<r[1], <<r[2], r[3]>>>>] = r
    BY <2>1
  <2> QED BY <2>1, <2>2
<1>4. f \in Surjection(S, A \X B \X C)
  BY <1>2, <1>3 DEF Surjection
<1> HIDE DEF f, S
<1> QED BY <1>1, <1>4, FS_Surjection

\* The data root holds finitely many files.
LEMMA PathsFinite == IsFiniteSet(MemPath) /\ IsFiniteSet(DocPath)
<1>1. /\ IsFiniteSet(MemoryIds) /\ IsFiniteSet(Slugs) /\ IsFiniteSet(Conversations)
      /\ IsFiniteSet(Texts) /\ IsFiniteSet(RawFiles) /\ IsFiniteSet(Notes)
  BY FilesAssumption
<1>2. IsFiniteSet(MemPath)
  BY <1>1, FS_Product DEF MemPath
<1>3. \A x : IsFiniteSet({x})
  BY FS_Singleton
<1>4. IsFiniteSet(Texts \cup {"preferred"})
  BY <1>1, <1>3, FS_Union
<1>5. /\ IsFiniteSet({"chat"} \X Conversations \X (Texts \cup {"preferred"}))
      /\ IsFiniteSet({"raw"} \X RawFiles \X {""})
      /\ IsFiniteSet({"note"} \X Notes \X {""})
  BY <1>1, <1>3, <1>4, FiniteTriples
<1>6. IsFiniteSet(DocPath)
  BY <1>5, FS_Union DEF DocPath
<1> QED BY <1>2, <1>6

\* What is sound stays so when more files have been torn.
LEMMA SoundGrows ==
  ASSUME NEW T, NEW U, T \subseteq U
  PROVE  /\ \A t : Sound(t, T) => Sound(t, U)
         /\ \A d : SoundDb(d, T) => SoundDb(d, U)
         /\ \A l : LogSound(l, T) => LogSound(l, U)
         /\ \A items : MemoryRead(items, T) => MemoryRead(items, U)
<1>1. ASSUME NEW t, Sound(t, T) PROVE Sound(t, U)
  BY <1>1 DEF Sound, Backed
<1>2. ASSUME NEW d, SoundDb(d, T) PROVE SoundDb(d, U)
  BY <1>1, <1>2 DEF SoundDb
<1>3. ASSUME NEW l, LogSound(l, T) PROVE LogSound(l, U)
  <2>1. /\ l.tables = NONE \/ SoundDb(l.tables, U)
        /\ l.disk = NONE \/ SoundDb(l.disk, U)
    BY <1>2, <1>3 DEF LogSound
  <2> QED BY <1>3, <2>1 DEF LogSound
<1>4. ASSUME NEW items, MemoryRead(items, T) PROVE MemoryRead(items, U)
  BY <1>4 DEF MemoryRead, Hashed
<1> QED BY <1>1, <1>2, <1>3, <1>4

LEMMA RunGrows ==
  ASSUME NEW T, NEW U, T \subseteq U, NEW me, RunSound(me, T)
  PROVE  RunSound(me, U)
<1>1. me.pc = "documents" => MemoryRead(me.items, U)
  BY SoundGrows DEF RunSound
<1>2. me.pc \in {"rows", "states"} => RunSelects(me, U)
  BY SoundGrows DEF RunSound, RunSelects
<1>3. me.pc = "apply" => RunPlanned(me, U)
  BY SoundGrows DEF RunSound, RunPlanned
<1>4. me.pc \in {"clear", "replace"} => SoundDb(me.made, U)
  BY SoundGrows DEF RunSound
<1> QED BY <1>1, <1>2, <1>3, <1>4 DEF RunSound

LEMMA SearchGrows ==
  ASSUME NEW T, NEW U, T \subseteq U, NEW s, SearchSound(s, T)
  PROVE  SearchSound(s, U)
<1>1. s.pc \in {"documentStates", "memories"} => Sound(s.mem, U) /\ Fresh(s.mem, s.hashed)
  BY SoundGrows DEF SearchSound
<1>2. s.pc \in {"found", "answered"} /\ "mem" \in s.same => RowsTrue(s.rows, s.hashed, U)
  BY DEF SearchSound, RowsTrue
<1> QED BY <1>1, <1>2 DEF SearchSound

LEMMA EmptySound ==
  ASSUME NEW T
  PROVE  Sound(Empty, T) /\ SoundDb(EmptyDb, T)
<1>1. \A U : Sound(Empty, U)
  BY DEF Sound, Empty, Tracked, PathsApart, Backed
<1>2. OwnIds(Empty.row)
  BY DEF Empty, OwnIds
<1> QED BY <1>1, <1>2 DEF SoundDb, EmptyDb

\* What a check lets through, of whatever table the plan is applied to.
LEMMA CheckedSound ==
  ASSUME NEW t, NEW seen, NEW items, NEW T, Sound(t, T),
         IsFiniteSet(DOMAIN items), Hashed(items, T),
         ConsistentWith(Applied(t, Plan(seen, items)), Plan(seen, items))
  PROVE  Sound(Applied(t, Plan(seen, items)), T)
<1> DEFINE plan == Plan(seen, items)
<1>1. /\ plan.items = items /\ Len(plan.write) \in Nat
      /\ \A n \in 1 .. Len(plan.write) : plan.write[n] \in DOMAIN items
  <2>1. plan.items = items
    BY DEF Plan
  <2>2. /\ Len(plan.write) \in Nat
        /\ \A n \in 1 .. Len(plan.write) : plan.write[n] \in DOMAIN items
    BY PlanWrites, Zenon
  <2> QED BY <2>1, <2>2
<1>2. PathsApart(Applied(t, plan).row) /\ Backed(Applied(t, plan), T)
  <2> HIDE DEF plan
  <2> QED BY <1>1, AppliedBacked DEF Sound
<1>3. Tracked(Applied(t, plan))
  BY DEF ConsistentWith, Consistent, Tracked
<1> QED BY <1>2, <1>3 DEF Sound

LEMMA MemoryOwnIds ==
  ASSUME NEW t, NEW seen, NEW items, OwnIds(t.row), IsFiniteSet(DOMAIN items),
         \A p \in DOMAIN items : items[p].id = p[1]
  PROVE  OwnIds(Applied(t, Plan(seen, items)).row)
<1> DEFINE plan == Plan(seen, items)
<1>1. /\ plan.items = items /\ Len(plan.write) \in Nat
      /\ \A n \in 1 .. Len(plan.write) : plan.write[n] \in DOMAIN items
  <2>1. plan.items = items
    BY DEF Plan
  <2>2. /\ Len(plan.write) \in Nat
        /\ \A n \in 1 .. Len(plan.write) : plan.write[n] \in DOMAIN items
    BY PlanWrites, Zenon
  <2> QED BY <2>1, <2>2
<1> HIDE DEF plan
<1>2. OwnIds(Applied(t, plan).row)
  BY <1>1, AppliedOwnIds
<1> QED BY <1>2 DEF plan

\* The documents as they are, for a migration or a run.
LEMMA DocumentsNow ==
  ASSUME Domains
  PROVE  DocumentsRead(DocumentItems(docs)) /\ IsFiniteSet(DOMAIN DocumentItems(docs))
<1>1. DOMAIN DocumentItems(docs) \subseteq DocPath
  BY DEF Domains, DocumentItems, Present
<1>2. Hashed(DocumentItems(docs), {})
  BY DEF Hashed, DocumentItems
<1>3. IsFiniteSet(DOMAIN DocumentItems(docs))
  BY <1>1, PathsFinite, FS_Subset
<1> QED BY <1>1, <1>2, <1>3 DEF DocumentsRead

\* A transaction that commits leaves sound tables, whatever the run has planned
\* from and whatever came between the plan and it.
LEMMA CommitSound ==
  ASSUME NEW me, NEW T, RunPlanned(me, T), NEW d, SoundDb(d, T), Commits(me, Result(me, d))
  PROVE  SoundDb(Result(me, d), T)
<1>1. /\ IsFiniteSet(DOMAIN me.mem.items) /\ IsFiniteSet(DOMAIN me.doc.items)
  BY PathsFinite, FS_Subset DEF RunPlanned, MemoryRead, DocumentsRead
<1>2. Sound(Applied(d.mem, me.mem), T)
  <2>1. ConsistentWith(Applied(d.mem, Plan(me.base.mem, me.mem.items)), Plan(me.base.mem, me.mem.items))
    BY DEF RunPlanned, Commits, Result
  <2>2. Sound(Applied(d.mem, Plan(me.base.mem, me.mem.items)), T)
    BY <1>1, <2>1, CheckedSound DEF RunPlanned, MemoryRead, SoundDb
  <2> QED BY <2>2 DEF RunPlanned
<1>3. Sound(Applied(d.doc, me.doc), {})
  <2>1. ConsistentWith(Applied(d.doc, Plan(me.base.doc, me.doc.items)), Plan(me.base.doc, me.doc.items))
    BY DEF RunPlanned, Commits, Result
  <2>2. Sound(Applied(d.doc, Plan(me.base.doc, me.doc.items)), {})
    BY <1>1, <2>1, CheckedSound DEF RunPlanned, DocumentsRead, SoundDb
  <2> QED BY <2>2 DEF RunPlanned
<1>4. OwnIds(Applied(d.mem, me.mem).row)
  <2>1. OwnIds(Applied(d.mem, Plan(me.base.mem, me.mem.items)).row)
    BY <1>1, MemoryOwnIds DEF RunPlanned, MemoryRead, SoundDb
  <2> QED BY <2>1 DEF RunPlanned
<1> QED BY <1>2, <1>3, <1>4 DEF SoundDb, Result
----------------------------------------------------------------------------
(* Logs that are begun, removed, committed to and checkpointed *)

\* Tables that are sound, or cannot be read.
May(tables, T) == tables = NONE \/ SoundDb(tables, T)

LEMMA NewLog ==
  ASSUME NEW tables, NEW T, May(tables, T)
  PROVE  LogSound(Log(tables), T)
BY DEF LogSound, Log, May

LEMMA Renamed ==
  ASSUME NEW l, NEW T, LogSound(l, T), NEW n
  PROVE  LogSound([l EXCEPT !.named = n], T)
<1>1. /\ l = [tables |-> l.tables, disk |-> l.disk, named |-> l.named]
      /\ l.tables = NONE \/ SoundDb(l.tables, T)
      /\ l.disk = NONE \/ SoundDb(l.disk, T)
  BY DEF LogSound
<1> DEFINE m == [tables |-> l.tables, disk |-> l.disk, named |-> n]
<1>2. [l EXCEPT !.named = n] = m
  BY <1>1
<1>3. LogSound(m, T)
  BY <1>1 DEF LogSound
<1> QED BY <1>2, <1>3

LEMMA Unnamed ==
  ASSUME NEW l, NEW T, LogSound(l, T)
  PROVE  LogSound([l EXCEPT !.named = FALSE], T)
BY Renamed, Zenon

\* Logs and database after a step, for those who were connected before it.
StoreMoved(T, users) ==
  /\ DOMAIN logs' = Logs /\ db' \in Logs \cup {NONE}
  /\ \A g \in Logs : logs'[g] = NONE \/ LogSound(logs'[g], T)
  /\ \A g \in Logs : g \in users \cup {db'} => LogSound(logs'[g], T)

LEMMA ReplaceMoves ==
  ASSUME StoreSound(torn, Connected), NEW STATE tables, SoundDb(tables, torn), Replace(tables)
  PROVE  StoreMoved(torn, Connected)
<1>1. PICK g \in FreeLogs : db' = g /\ \E t \in {tables, NONE} :
         logs' = [h \in Logs |-> IF h = g THEN Log(t)
                                 ELSE IF h \in InUse THEN [logs[h] EXCEPT !.named = FALSE]
                                 ELSE NONE]
  BY DEF Replace
<1>2. PICK t \in {tables, NONE} :
         logs' = [h \in Logs |-> IF h = g THEN Log(t)
                                 ELSE IF h \in InUse THEN [logs[h] EXCEPT !.named = FALSE]
                                 ELSE NONE]
  BY <1>1
<1>3. g \in Logs
  BY <1>1 DEF FreeLogs
<1>4. LogSound(Log(t), torn)
  BY NewLog DEF May
<1>5. \A h \in Logs : h \in InUse => LogSound([logs[h] EXCEPT !.named = FALSE], torn)
  BY Unnamed DEF StoreSound, InUse
<1>6. DOMAIN logs' = Logs /\ db' = g
  BY <1>1, <1>2
<1>7. ASSUME NEW h \in Logs
      PROVE  /\ logs'[h] = NONE \/ LogSound(logs'[h], torn)
             /\ h \in Connected \cup {db'} => LogSound(logs'[h], torn)
  <2>1. CASE h = g
    BY <1>2, <1>4, <2>1
  <2>2. CASE h # g /\ h \in InUse
    <3>1. logs'[h] = [logs[h] EXCEPT !.named = FALSE]
      BY <1>2, <2>2
    <3> QED BY <1>5, <2>2, <3>1
  <2>3. CASE h # g /\ h \notin InUse
    BY <1>1, <1>2, <2>3 DEF InUse
  <2> QED BY <2>1, <2>2, <2>3
<1> QED BY <1>3, <1>6, <1>7 DEF StoreMoved

LEMMA RemoveMoves ==
  ASSUME StoreSound(torn, Connected), NEW STATE tables, May(tables, torn), RemoveLog(tables),
         db # NONE
  PROVE  StoreMoved(torn, Connected)
<1>1. LogSound(Log(tables), torn)
  BY NewLog
<1>2. db \in Logs /\ DOMAIN logs = Logs
  BY DEF StoreSound
<1>3. CASE db \in Connected
  <2>1. PICK g \in FreeLogs : db' = g /\
          logs' = [h \in Logs |-> IF h = g THEN Log(tables) ELSE IF h \in InUse THEN logs[h] ELSE NONE]
    BY <1>3 DEF RemoveLog
  <2>2. g \in Logs
    BY <2>1 DEF FreeLogs
  <2> QED BY <1>1, <2>1, <2>2 DEF StoreMoved, StoreSound, InUse
<1>4. CASE db \notin Connected
  <2>1. logs' = [logs EXCEPT ![db] = Log(tables)] /\ db' = db
    BY <1>4 DEF RemoveLog
  <2> QED BY <1>1, <1>2, <2>1 DEF StoreMoved, StoreSound
<1> QED BY <1>3, <1>4

LEMMA CommitMoves ==
  ASSUME StoreSound(torn, Connected), NEW STATE g, NEW STATE made, g \in Logs, g \in Connected,
         SoundDb(made, torn), Commit(g, made)
  PROVE  StoreMoved(torn, Connected)
<1>1. /\ DOMAIN logs = Logs /\ db \in Logs \cup {NONE} /\ db' = db
      /\ logs[g] = [tables |-> logs[g].tables, disk |-> logs[g].disk, named |-> logs[g].named]
      /\ LogSound(logs[g], torn)
  BY DEF StoreSound, LogSound, Commit
<1> DEFINE written == [logs[g] EXCEPT !.tables = made]
<1>2. written = [tables |-> made, disk |-> logs[g].disk, named |-> logs[g].named]
  BY <1>1
<1>3. LogSound(written, torn)
  <2> HIDE DEF written
  <2> QED BY <1>1, <1>2 DEF LogSound
<1>4. CASE g = db
  <2>1. PICK disk \in {logs[g].disk, made} :
          logs' = [logs EXCEPT ![g].tables = made, ![g].disk = disk]
    BY <1>4 DEF Commit
  <2> DEFINE l == [tables |-> made, disk |-> disk, named |-> logs[g].named]
  <2>2. LogSound(l, torn)
    BY <1>1, <2>1 DEF LogSound
  <2>3. /\ DOMAIN logs' = Logs /\ logs'[g] = l
        /\ \A h \in Logs \ {g} : logs'[h] = logs[h]
    BY <1>1, <2>1
  <2> HIDE DEF l
  <2> QED BY <1>1, <2>2, <2>3 DEF StoreMoved, StoreSound
<1>5. CASE g # db /\ logs[g].named /\ db \in Logs
  <2>1. PICK now \in {logs[db], Log(made), Log(NONE)} :
          logs' = [logs EXCEPT ![g].tables = made, ![db] = now]
    BY <1>5 DEF Commit
  <2>2. LogSound(now, torn)
    BY <1>5, <2>1, NewLog DEF May, StoreSound
  <2>3. /\ DOMAIN logs' = Logs /\ logs'[g] = written /\ logs'[db] = now
        /\ \A h \in Logs \ {g, db} : logs'[h] = logs[h]
    BY <1>1, <1>5, <2>1
  <2> HIDE DEF written
  <2> QED BY <1>1, <1>3, <2>2, <2>3 DEF StoreMoved, StoreSound
<1>6. CASE g # db /\ logs[g].named /\ db \notin Logs
  <2>1. PICK now \in {logs[db], Log(made), Log(NONE)} :
          logs' = [logs EXCEPT ![g].tables = made, ![db] = now]
    BY <1>6 DEF Commit
  <2>2. /\ DOMAIN logs' = Logs /\ logs'[g] = written
        /\ \A h \in Logs \ {g} : logs'[h] = logs[h]
    BY <1>1, <1>6, <2>1
  <2> HIDE DEF written
  <2> QED BY <1>1, <1>3, <2>2 DEF StoreMoved, StoreSound
<1>7. CASE g # db /\ ~logs[g].named
  <2>1. logs' = [logs EXCEPT ![g].tables = made]
    BY <1>7 DEF Commit
  <2>2. /\ DOMAIN logs' = Logs /\ logs'[g] = written
        /\ \A h \in Logs \ {g} : logs'[h] = logs[h]
    BY <1>1, <2>1
  <2> HIDE DEF written
  <2> QED BY <1>1, <1>3, <2>2 DEF StoreMoved, StoreSound
<1> QED BY <1>4, <1>5, <1>6, <1>7

LEMMA SameMoves ==
  ASSUME StoreSound(torn, Connected), UNCHANGED store
  PROVE  StoreMoved(torn, Connected)
BY DEF StoreMoved, StoreSound, store

\* What somebody reads through a connection, or finds under the name.
LEMMA FoundSound ==
  ASSUME StoreSound(torn, Connected), NEW STATE g, g \in Logs, g \in InUse
  PROVE  May(logs[g].tables, torn) /\ May(logs[g].disk, torn)
BY DEF StoreSound, InUse, LogSound, May

\* Nobody is connected to what is not in use.
LEMMA StoreStays ==
  ASSUME StoreMoved(torn, Connected), torn \subseteq torn',
         \A g \in Logs : g \in Connected' => g \in Connected \cup {db'}
  PROVE  StoreSound(torn, Connected)'
<1>1. \A l : LogSound(l, torn) => LogSound(l, torn')
  BY SoundGrows
<1>2. \A g \in Logs : logs'[g] = NONE \/ LogSound(logs'[g], torn')
  BY <1>1 DEF StoreMoved
<1>3. \A g \in Logs : g \in Connected' \cup {db'} => LogSound(logs'[g], torn')
  BY <1>1 DEF StoreMoved
<1> QED BY <1>2, <1>3 DEF StoreMoved, StoreSound

----------------------------------------------------------------------------
(* The invariant is inductive *)

LEMMA IndexInit == Init => IndexInv
<1> SUFFICES ASSUME Init PROVE IndexInv
  OBVIOUS
<1> DEFINE p == CHOOSE x \in MemPath : TRUE
           one == [row |-> With(<<>>, p[1], [path |-> p, body |-> "active"]),
                   state |-> With(<<>>, p, "active")]
<1>1. v2 # NONE => v2 = one
  BY DEF Init
<1>2. Sound(one, {}) /\ OwnIds(one.row)
  <2> HIDE DEF p
  <2>1. /\ DOMAIN one.row = {p[1]} /\ one.row[p[1]] = [path |-> p, body |-> "active"]
        /\ DOMAIN one.state = {p} /\ one.state[p] = "active"
    BY DEF With
  <2> HIDE DEF one
  <2> QED BY <2>1 DEF Sound, Tracked, PathsApart, Backed, OwnIds
<1>3. Domains /\ make = [pc |-> "idle"] /\ srch = [pc |-> "idle"]
      /\ \A x \in Indexers : idx[x] = [pc |-> "idle"]
  BY DEF Init, Domains
<1>4. Connected = {}
  BY <1>3 DEF Connected, Reading, Finding
<1>5. StoreSound(torn, Connected)
  <2>1. LogSound(Log(EmptyDb), torn)
    BY EmptySound, NewLog DEF May
  <2>2. logs = [g \in Logs |-> IF g = db THEN Log(EmptyDb) ELSE NONE]
    BY DEF Init
  <2>3. db \in Logs \cup {NONE} /\ NONE \notin Logs
    BY MemoryIndexAssumption DEF Init
  <2> QED BY <1>4, <2>1, <2>2, <2>3 DEF StoreSound
<1>6. /\ MakeSound(make) /\ SearchSound(srch, torn)
      /\ \A x \in Indexers : RunSound(idx[x], torn)
  BY <1>3 DEF MakeSound, SearchSound, RunSound, Finding
<1> HIDE DEF one
<1> QED BY <1>1, <1>2, <1>3, <1>5, <1>6 DEF IndexInv, V2Sound

\* Changes of the data root do not reach the runs.
LEMMA ChangeKeeps ==
  ASSUME IndexInv, ChangeMemory \/ ChangeDocument \/ SetMetadata \/ ImportConversation
  PROVE  IndexInv'
<1>1. UNCHANGED <<logs, db, v2, make, idx, srch, torn>>
  BY DEF ChangeMemory, ChangeDocument, SetMetadata, ImportConversation, Change
<1>2. Domains'
  <2>1. DOMAIN mem' = DOMAIN mem /\ DOMAIN docs' = DOMAIN docs
    BY DEF ChangeMemory, ChangeDocument, SetMetadata, ImportConversation
  <2> QED BY <1>1, <2>1 DEF IndexInv, Domains
<1>3. Connected' = Connected
  BY <1>1 DEF Connected
<1>4. V2Sound' /\ MakeSound(make)' /\ StoreSound(torn, Connected)'
  BY <1>1, <1>3 DEF IndexInv, V2Sound, MakeSound, StoreSound
<1>5. (\A x \in Indexers : RunSound(idx[x], torn))' /\ SearchSound(srch, torn)'
  BY <1>1 DEF IndexInv
<1> QED BY <1>2, <1>4, <1>5 DEF IndexInv

\* Steps of db-init and of the migration.
LEMMA MakeKeeps ==
  ASSUME IndexInv, UNCHANGED <<mem, docs, v2, idx, srch, torn>>,
         StoreMoved(torn, Connected), MakeSound(make)'
  PROVE  IndexInv'
<1>1. Connected' = Connected
  BY DEF Connected
<1>2. StoreSound(torn, Connected)'
  BY <1>1, StoreStays
<1>3. Domains' /\ V2Sound' /\ (\A x \in Indexers : RunSound(idx[x], torn))' /\ SearchSound(srch, torn)'
  BY DEF IndexInv, Domains, V2Sound
<1> QED BY <1>2, <1>3 DEF IndexInv

LEMMA DbInitKeeps ==
  ASSUME IndexInv, DbInit \/ DbCreate \/ DbTidy
  PROVE  IndexInv'
<1>1. UNCHANGED <<mem, docs, v2, idx, srch, torn>> /\ StoreSound(torn, Connected)
  BY DEF DbInit, DbCreate, DbTidy, root, IndexInv
<1>2. db # NONE => May(logs[db].tables, torn) /\ May(logs[db].disk, torn)
  <2> SUFFICES ASSUME db # NONE PROVE May(logs[db].tables, torn) /\ May(logs[db].disk, torn)
    OBVIOUS
  <2>1. db \in Logs /\ db \in InUse
    BY <1>1 DEF StoreSound, InUse
  <2> QED BY <1>1, <2>1, FoundSound
<1>3. CASE DbInit
  <2>1. MakeSound(make)'
    BY <1>3 DEF DbInit, IndexInv, MakeSound
  <2>2. StoreMoved(torn, Connected)
    <3>1. CASE db = NONE
      BY <1>1, <1>3, <3>1, SameMoves DEF DbInit
    <3>2. CASE db # NONE
      BY <1>1, <1>2, <1>3, <3>2, RemoveMoves DEF DbInit
    <3> QED BY <3>1, <3>2
  <2> QED BY <1>1, <2>1, <2>2, MakeKeeps
<1>4. CASE DbCreate
  <2>1. MakeSound(make)'
    BY <1>4 DEF DbCreate, MakeSound
  <2>2. StoreMoved(torn, Connected)
    BY <1>1, <1>4, EmptySound, ReplaceMoves DEF DbCreate
  <2> QED BY <1>1, <2>1, <2>2, MakeKeeps
<1>5. CASE DbTidy
  <2>1. MakeSound(make)'
    BY <1>5 DEF DbTidy, MakeSound
  <2>2. StoreMoved(torn, Connected)
    <3>1. CASE db = NONE
      BY <1>1, <1>5, <3>1, SameMoves DEF DbTidy
    <3>2. CASE db # NONE
      BY <1>1, <1>2, <1>5, <3>2, RemoveMoves DEF DbTidy
    <3> QED BY <3>1, <3>2
  <2> QED BY <1>1, <2>1, <2>2, MakeKeeps
<1> QED BY <1>3, <1>4, <1>5

LEMMA MigrateKeeps ==
  ASSUME IndexInv,
         \/ MigrateBegin \/ MigrateDocuments \/ MigrateVerify \/ MigrateReplace
         \/ MigrateFails \/ MakeStops
  PROVE  IndexInv'
<1>1. UNCHANGED <<mem, docs, v2, idx, srch, torn>> /\ StoreSound(torn, Connected) /\ MakeSound(make)
  BY DEF MigrateBegin, MigrateDocuments, MigrateVerify, MigrateReplace, MigrateFails, MakeStops,
     root, IndexInv
<1>2. CASE MigrateBegin \/ MigrateVerify \/ MakeStops
  <2>1. MakeSound(make)'
    BY <1>1, <1>2 DEF MigrateBegin, MigrateVerify, MakeStops, MakeSound
  <2>2. UNCHANGED store
    BY <1>2 DEF MigrateBegin, MigrateVerify, MakeStops
  <2> QED BY <1>1, <2>1, <2>2, MakeKeeps, SameMoves
<1>3. CASE MigrateDocuments
  <2> DEFINE items == DocumentItems(docs)
             made == Applied(Empty, Plan(Empty, items))
  <2>1. Sound(made, {})
    <3>1. IsFiniteSet(DOMAIN items) /\ Hashed(items, {})
      BY DocumentsNow DEF IndexInv, DocumentsRead
    <3>2. ConsistentWith(made, Plan(Empty, items))
      BY <1>3 DEF MigrateDocuments
    <3> HIDE DEF items
    <3> QED BY <3>1, <3>2, EmptySound, CheckedSound
  <2>2. make' = [pc |-> "verify", doc |-> made] /\ make.pc = "documents" /\ UNCHANGED store
    BY <1>3 DEF MigrateDocuments
  <2> HIDE DEF made, items
  <2>3. MakeSound(make)'
    BY <1>1, <2>1, <2>2 DEF MakeSound
  <2> QED BY <1>1, <2>2, <2>3, MakeKeeps, SameMoves
<1>4. CASE MigrateReplace
  <2>1. MakeSound(make)'
    BY <1>4 DEF MigrateReplace, MakeSound
  <2> DEFINE tables == [mem |-> v2, doc |-> make.doc]
  <2>2. SoundDb(tables, torn)
    <3>1. Sound(v2, {}) /\ OwnIds(v2.row) /\ Sound(make.doc, {})
      BY <1>1, <1>4 DEF IndexInv, V2Sound, MakeSound, MigrateReplace
    <3>2. Sound(v2, torn)
      BY <3>1, SoundGrows
    <3> QED BY <3>1, <3>2 DEF SoundDb
  <2>3. Replace(tables)
    BY <1>4 DEF MigrateReplace
  <2> HIDE DEF tables
  <2>4. StoreMoved(torn, Connected)
    BY <1>1, <2>2, <2>3, ReplaceMoves
  <2> QED BY <1>1, <2>1, <2>4, MakeKeeps
<1>5. CASE MigrateFails
  <2>1. MakeSound(make)'
    BY <1>5 DEF MigrateFails, MakeSound
  <2>2. /\ db' = NONE
        /\ logs' = [h \in Logs |-> IF h \in Connected THEN [logs[h] EXCEPT !.named = FALSE] ELSE NONE]
    BY <1>5 DEF MigrateFails
  <2>3. \A h \in Logs : h \in Connected => LogSound([logs[h] EXCEPT !.named = FALSE], torn)
    BY <1>1, Unnamed DEF StoreSound
  <2>4. DOMAIN logs' = Logs /\ db' \in Logs \cup {NONE} /\ NONE \notin Logs
    BY <2>2, MemoryIndexAssumption
  <2>5. ASSUME NEW h \in Logs
        PROVE  /\ logs'[h] = NONE \/ LogSound(logs'[h], torn)
               /\ h \in Connected \cup {db'} => LogSound(logs'[h], torn)
    <3>1. CASE h \in Connected
      <4>1. logs'[h] = [logs[h] EXCEPT !.named = FALSE]
        BY <2>2, <3>1
      <4> QED BY <2>3, <3>1, <4>1
    <3>2. CASE h \notin Connected
      BY <2>2, <2>4, <3>2
    <3> QED BY <3>1, <3>2
  <2>6. StoreMoved(torn, Connected)
    BY <2>4, <2>5 DEF StoreMoved
  <2> QED BY <1>1, <2>1, <2>6, MakeKeeps
<1> QED BY <1>2, <1>3, <1>4, <1>5

----------------------------------------------------------------------------
(* The steps of a run *)

\* One run changes its own locals, and connects to what has the name.
LEMMA EnterKeeps ==
  ASSUME IndexInv, NEW x \in Indexers, NEW STATE local, Enter(x, local),
         UNCHANGED <<mem, docs, v2, make, srch>>, torn \subseteq torn',
         StoreMoved(torn, Connected), RunSound(local, torn'),
         local.pc \in Reading /\ local.conn \in Logs => local.conn \in Connected \cup {db'}
  PROVE  IndexInv'
<1>1. DOMAIN idx' = Indexers /\ idx'[x] = local /\ \A y \in Indexers \ {x} : idx'[y] = idx[y]
  BY DEF IndexInv, Domains, Enter
<1>2. \A g \in Logs : g \in Connected' => g \in Connected \cup {db'}
  <2>1. SUFFICES ASSUME NEW g \in Logs, g \in Connected' PROVE g \in Connected \cup {db'}
    OBVIOUS
  <2>2. CASE srch.pc \in Finding /\ g = srch.conn
    BY <2>2 DEF Connected
  <2>3. CASE \E y \in Indexers : idx'[y].pc \in Reading /\ g = idx'[y].conn
    <3>1. PICK y \in Indexers : idx'[y].pc \in Reading /\ g = idx'[y].conn
      BY <2>3
    <3>2. CASE y = x
      BY <1>1, <3>1, <3>2
    <3>3. CASE y # x
      BY <1>1, <3>1, <3>3 DEF Connected
    <3> QED BY <3>2, <3>3
  <2> QED BY <2>1, <2>2, <2>3 DEF Connected
<1>3. StoreSound(torn, Connected)'
  BY <1>2, StoreStays
<1>4. Domains' /\ V2Sound' /\ MakeSound(make)'
  BY <1>1 DEF IndexInv, Domains, V2Sound, MakeSound
<1>5. ASSUME NEW y \in Indexers PROVE RunSound(idx'[y], torn')
  <2>1. CASE y = x
    BY <1>1, <2>1
  <2>2. CASE y # x
    <3>1. idx'[y] = idx[y] /\ RunSound(idx[y], torn)
      BY <1>1, <2>2 DEF IndexInv
    <3>2. \A me : RunSound(me, torn) => RunSound(me, torn')
      BY RunGrows
    <3> QED BY <3>1, <3>2
  <2> QED BY <2>1, <2>2
<1>6. SearchSound(srch, torn)'
  <2>1. \A s : SearchSound(s, torn) => SearchSound(s, torn')
    BY SearchGrows
  <2> QED BY <2>1 DEF IndexInv
<1> QED BY <1>3, <1>4, <1>5, <1>6 DEF IndexInv

LEMMA LeaveKeeps ==
  ASSUME IndexInv, NEW x \in Indexers, NEW STATE local, Enter(x, local), local.pc \in {"idle", "checkpoint"},
         UNCHANGED <<mem, docs, v2, make, srch, torn>>, StoreMoved(torn, Connected)
  PROVE  IndexInv'
<1>1. RunSound(local, torn') /\ local.pc \notin Reading
  BY DEF RunSound, Reading
<1> QED BY <1>1, EnterKeeps

LEMMA ReadKeeps ==
  ASSUME IndexInv, NEW x \in Indexers, NEW rebuild \in BOOLEAN, IndexRead(x, rebuild)
  PROVE  IndexInv'
<1> DEFINE local == [pc |-> "hash", rebuild |-> rebuild, read |-> Records]
<1>1. RunSound(local, torn')
  <2>1. DOMAIN Records = Present(mem) /\ Present(mem) \subseteq MemPath
    BY DEF Records, Present, IndexInv, Domains
  <2>2. RunRead(local)
    BY <2>1 DEF IndexRead, StoreValid, RunRead
  <2>3. local.pc = "hash"
    OBVIOUS
  <2> HIDE DEF local
  <2> QED BY <2>2, <2>3 DEF RunSound
<1>2. local.pc \notin Reading
  BY DEF Reading
<1>3. Enter(x, local) /\ UNCHANGED <<mem, docs, v2, make, srch, torn>> /\ UNCHANGED store
  BY DEF IndexRead, root
<1>4. StoreMoved(torn, Connected)
  BY <1>3, SameMoves DEF IndexInv
<1> HIDE DEF local
<1> QED BY <1>1, <1>2, <1>3, <1>4, EnterKeeps

\* What is read twice and differs is torn from here on.
LEMMA HashKeeps ==
  ASSUME IndexInv, NEW x \in Indexers, IndexHash(x)
  PROVE  IndexInv'
<1> DEFINE read == idx[x].read
           items == MemoryItems(read, mem)
           local == [pc |-> "documents", rebuild |-> idx[x].rebuild, items |-> items]
<1>1. RunRead(idx[x])
  BY DEF IndexHash, IndexInv, RunSound
<1>2. UNCHANGED <<mem, docs, v2, make, srch>> /\ UNCHANGED store
  BY DEF IndexHash, OnlyIndexer, root
<1>3. StoreMoved(torn, Connected)
  BY <1>2, SameMoves DEF IndexInv
<1>4. CASE \E p \in DOMAIN read : mem[p] = NONE
  <2>1. Enter(x, [pc |-> "idle"]) /\ torn' = torn
    BY <1>4 DEF IndexHash
  <2> QED BY <1>2, <1>3, <2>1, LeaveKeeps
<1>5. CASE ~\E p \in DOMAIN read : mem[p] = NONE
  <2>1. /\ Enter(x, local)
        /\ torn' = torn \cup {<<p, read[p], mem[p]>> : p \in {p \in DOMAIN read : read[p] # mem[p]}}
    BY <1>5 DEF IndexHash
  <2>2. MemoryRead(items, torn')
    <3>1. /\ DOMAIN items = DOMAIN read
          /\ \A p \in DOMAIN items : items[p].id = p[1] /\ items[p].body = read[p] /\ items[p].sha = mem[p]
      BY DEF MemoryItems
    <3> HIDE DEF items
    <3>2. DOMAIN items \subseteq MemPath /\ ItemsApart(items)
      BY <1>1, <3>1 DEF RunRead, ItemsApart
    <3>3. ASSUME NEW p \in DOMAIN items
          PROVE  items[p].body = items[p].sha \/ <<p, items[p].body, items[p].sha>> \in torn'
      <4>1. p \in DOMAIN read /\ items[p].body = read[p] /\ items[p].sha = mem[p]
        BY <3>1
      <4>2. read[p] # mem[p] => <<p, read[p], mem[p]>> \in torn'
        BY <2>1, <4>1
      <4> HIDE DEF read
      <4> QED BY <4>1, <4>2
    <3> QED BY <3>1, <3>2, <3>3 DEF MemoryRead, Hashed
  <2>3. local.pc = "documents" /\ local.items = items
    OBVIOUS
  <2> HIDE DEF local, items
  <2>4. RunSound(local, torn') /\ local.pc \notin Reading
    BY <2>2, <2>3 DEF RunSound, Reading
  <2>5. torn \subseteq torn'
    BY <2>1
  <2> QED BY <1>2, <1>3, <2>1, <2>4, <2>5, EnterKeeps
<1> QED BY <1>4, <1>5

\* A run that has planned, from whatever it has read of the index.
LEMMA PlannedSound ==
  ASSUME NEW me, NEW T, MemoryRead(me.items, T), NEW documents, DocumentsRead(documents), NEW base,
         IF me.rebuild THEN base = EmptyDb ELSE me.conn \in Logs
  PROVE  RunSound(Planned(me, base, documents), T)
<1> DEFINE made == Planned(me, base, documents)
<1>1. /\ made.pc = "apply" /\ made.rebuild = me.rebuild /\ made.conn = me.conn /\ made.base = base
      /\ made.mem = Plan(base.mem, me.items) /\ made.doc = Plan(base.doc, documents)
  BY DEF Planned
<1>2. made.mem.items = me.items /\ made.doc.items = documents
  BY <1>1 DEF Plan
<1> HIDE DEF made
<1>3. RunPlanned(made, T)
  BY <1>1, <1>2 DEF RunPlanned
<1> QED BY <1>1, <1>3 DEF RunSound, made

LEMMA DocumentsKeeps ==
  ASSUME IndexInv, NEW x \in Indexers, IndexDocuments(x)
  PROVE  IndexInv'
<1> DEFINE me == idx[x]
           documents == DocumentItems(docs)
<1>1. /\ UNCHANGED <<mem, docs, v2, make, srch, torn>> /\ UNCHANGED store
      /\ MemoryRead(me.items, torn) /\ DocumentsRead(documents)
  BY DocumentsNow DEF IndexDocuments, OnlyIndexer, root, IndexInv, RunSound
<1>2. StoreMoved(torn, Connected)
  BY <1>1, SameMoves DEF IndexInv
<1>3. CASE me.rebuild
  <2> DEFINE own == [rebuild |-> TRUE, conn |-> NONE, items |-> me.items]
             local == Planned(own, EmptyDb, documents)
  <2>1. Enter(x, local)
    BY <1>3 DEF IndexDocuments
  <2>2. own.rebuild /\ own.items = me.items
    OBVIOUS
  <2>3. local.conn = NONE /\ NONE \notin Logs
    BY MemoryIndexAssumption DEF Planned
  <2>4. RunSound(local, torn)
    <3> HIDE DEF own, documents
    <3> QED BY <1>1, <2>2, PlannedSound
  <2> HIDE DEF local
  <2> QED BY <1>1, <1>2, <2>1, <2>3, <2>4, EnterKeeps
<1>4. CASE ~me.rebuild /\ Readable
  <2> DEFINE local == [pc |-> "rows", rebuild |-> FALSE, conn |-> db, items |-> me.items,
                       documents |-> documents, base |-> EmptyDb, table |-> "mem"]
  <2>1. Enter(x, local)
    BY <1>4 DEF IndexDocuments
  <2>2. /\ local.pc = "rows" /\ local.conn = db /\ ~local.rebuild /\ local.items = me.items
        /\ local.documents = documents
        /\ {"pc", "rebuild", "conn", "items", "documents", "base", "table"} \subseteq DOMAIN local
    OBVIOUS
  <2>3. db \in Logs /\ db' = db
    BY <1>1, <1>4 DEF Readable, IndexInv, StoreSound, store
  <2> HIDE DEF local, documents
  <2>4. RunSelects(local, torn)
    BY <1>1, <2>2, <2>3 DEF RunSelects
  <2>5. RunSound(local, torn)
    BY <2>2, <2>4 DEF RunSound
  <2> QED BY <1>1, <1>2, <2>1, <2>2, <2>3, <2>5, EnterKeeps
<1>5. CASE ~me.rebuild /\ ~Readable
  <2>1. Enter(x, [pc |-> "idle"])
    BY <1>5 DEF IndexDocuments
  <2> QED BY <1>1, <1>2, <2>1, LeaveKeeps
<1> QED BY <1>3, <1>4, <1>5

\* A statement of a run: what it reads is of no account before the check.
LEMMA SelectKeeps ==
  ASSUME IndexInv, NEW x \in Indexers, SelectRows(x) \/ SelectStates(x)
  PROVE  IndexInv'
<1> DEFINE me == idx[x]
           tables == logs[me.conn].tables
<1>1. /\ UNCHANGED <<mem, docs, v2, make, srch, torn>> /\ UNCHANGED store
      /\ RunSelects(me, torn) /\ me.pc \in {"rows", "states"}
  BY DEF SelectRows, SelectStates, OnlyIndexer, root, IndexInv, RunSound
<1>2. StoreMoved(torn, Connected)
  BY <1>1, SameMoves DEF IndexInv
<1>3. me.conn \in Connected
  BY <1>1 DEF Connected, Reading
<1>4. CASE tables = NONE
  <2>1. Enter(x, [pc |-> "idle"])
    BY <1>4 DEF SelectRows, SelectStates
  <2> QED BY <1>1, <1>2, <2>1, LeaveKeeps
<1>5. CASE tables # NONE /\ SelectRows(x)
  <2> DEFINE local == [me EXCEPT !.pc = "states", !.base[me.table].row = tables[me.table].row]
  <2>1. Enter(x, local)
    BY <1>5 DEF SelectRows
  <2>2. /\ DOMAIN local = DOMAIN me /\ local.pc = "states" /\ local.conn = me.conn
        /\ local.rebuild = me.rebuild /\ local.items = me.items /\ local.documents = me.documents
    BY <1>1 DEF RunSelects
  <2> HIDE DEF local, tables
  <2>3. RunSound(local, torn)
    BY <1>1, <2>2 DEF RunSound, RunSelects
  <2> QED BY <1>1, <1>2, <1>3, <2>1, <2>2, <2>3, EnterKeeps
<1>6. CASE tables # NONE /\ SelectStates(x)
  <2> DEFINE base == [me.base EXCEPT ![me.table].state = tables[me.table].state]
  <2>1. CASE me.table = "mem"
    <3> DEFINE local == [me EXCEPT !.pc = "rows", !.base = base, !.table = "doc"]
    <3>1. Enter(x, local)
      BY <1>6, <2>1 DEF SelectStates
    <3>2. /\ DOMAIN local = DOMAIN me /\ local.pc = "rows" /\ local.conn = me.conn
          /\ local.rebuild = me.rebuild /\ local.items = me.items /\ local.documents = me.documents
      BY <1>1 DEF RunSelects
    <3> HIDE DEF local, base, tables
    <3>3. RunSound(local, torn)
      BY <1>1, <3>2 DEF RunSound, RunSelects
    <3> QED BY <1>1, <1>2, <1>3, <3>1, <3>2, <3>3, EnterKeeps
  <2>2. CASE me.table # "mem"
    <3> DEFINE local == Planned(me, base, me.documents)
    <3>1. Enter(x, local)
      BY <1>6, <2>2 DEF SelectStates
    <3>2. local.conn = me.conn
      BY DEF Planned
    <3>3. RunSound(local, torn)
      <4> HIDE DEF base
      <4>1. MemoryRead(me.items, torn) /\ DocumentsRead(me.documents) /\ ~me.rebuild /\ me.conn \in Logs
        BY <1>1 DEF RunSelects
      <4> QED BY <4>1, PlannedSound
    <3> HIDE DEF local, base
    <3> QED BY <1>1, <1>2, <1>3, <3>1, <3>2, <3>3, EnterKeeps
  <2> QED BY <2>1, <2>2
<1> QED BY <1>4, <1>5, <1>6

\* The tables that a run applies its plans to.
LEMMA TargetSound ==
  ASSUME IndexInv, NEW x \in Indexers, idx[x].pc = "apply", Target(idx[x]) # NONE
  PROVE  /\ SoundDb(Target(idx[x]), torn)
         /\ ~idx[x].rebuild => idx[x].conn \in Logs /\ idx[x].conn \in Connected
<1> DEFINE me == idx[x]
<1>1. RunPlanned(me, torn)
  BY DEF IndexInv, RunSound
<1>2. CASE me.rebuild
  BY <1>1, <1>2, EmptySound DEF Target, RunPlanned
<1>3. CASE ~me.rebuild
  <2>1. me.conn \in Logs /\ me.conn \in Connected
    BY <1>1, <1>3 DEF RunPlanned, Connected, Reading
  <2>2. May(logs[me.conn].tables, torn)
    BY <2>1, FoundSound DEF IndexInv, InUse
  <2> QED BY <1>3, <2>1, <2>2 DEF Target, May
<1> QED BY <1>2, <1>3

\* A transaction commits sound tables or nothing.
LEMMA ApplyKeeps ==
  ASSUME IndexInv, NEW x \in Indexers, IndexApply(x)
  PROVE  IndexInv'
<1> DEFINE me == idx[x]
           made == Result(me, Target(me))
<1>1. /\ UNCHANGED <<mem, docs, v2, make, srch, torn>> /\ me.pc = "apply"
      /\ StoreSound(torn, Connected) /\ RunPlanned(me, torn)
  BY DEF IndexApply, OnlyIndexer, root, IndexInv, RunSound
<1>2. CASE Target(me) # NONE /\ Commits(me, made)
  <2>1. SoundDb(Target(me), torn) /\ (~me.rebuild => me.conn \in Logs /\ me.conn \in Connected)
    BY <1>1, <1>2, TargetSound
  <2>2. SoundDb(made, torn)
    <3> HIDE DEF me
    <3> QED BY <1>1, <1>2, <2>1, CommitSound
  <2>3. CASE me.rebuild
    <3> DEFINE local == [pc |-> "clear", made |-> made]
    <3>1. Enter(x, local) /\ UNCHANGED store
      BY <1>2, <2>3 DEF IndexApply
    <3>2. local.pc = "clear" /\ local.made = made
      OBVIOUS
    <3> HIDE DEF local, made
    <3>3. RunSound(local, torn) /\ local.pc \notin Reading
      BY <2>2, <3>2 DEF RunSound, Reading
    <3> QED BY <1>1, <3>1, <3>3, EnterKeeps, SameMoves
  <2>4. CASE ~me.rebuild
    <3>1. Enter(x, [pc |-> "checkpoint"]) /\ Commit(me.conn, made)
      BY <1>2, <2>4 DEF IndexApply
    <3> HIDE DEF made
    <3>2. StoreMoved(torn, Connected)
      BY <1>1, <2>1, <2>2, <2>4, <3>1, CommitMoves
    <3> QED BY <1>1, <3>1, <3>2, LeaveKeeps
  <2> QED BY <2>3, <2>4
<1>3. CASE ~(Target(me) # NONE /\ Commits(me, made))
  <2>1. Enter(x, [pc |-> "idle"]) /\ UNCHANGED store
    BY <1>3 DEF IndexApply
  <2> QED BY <1>1, <2>1, LeaveKeeps, SameMoves
<1> QED BY <1>2, <1>3

\* A rebuild's last steps, a checkpoint, and a run that stops.
LEMMA CloseKeeps ==
  ASSUME IndexInv, NEW x \in Indexers,
         RebuildClear(x) \/ RebuildReplace(x) \/ IndexCheckpoint(x) \/ IndexStops(x)
  PROVE  IndexInv'
<1>1. UNCHANGED <<mem, docs, v2, make, srch, torn>> /\ StoreSound(torn, Connected)
  BY DEF RebuildClear, RebuildReplace, IndexCheckpoint, IndexStops, OnlyIndexer, root, IndexInv
<1>2. db # NONE => May(logs[db].tables, torn) /\ May(logs[db].disk, torn)
  <2> SUFFICES ASSUME db # NONE PROVE May(logs[db].tables, torn) /\ May(logs[db].disk, torn)
    OBVIOUS
  <2>1. db \in Logs /\ db \in InUse
    BY <1>1 DEF StoreSound, InUse
  <2> QED BY <1>1, <2>1, FoundSound
<1>3. CASE RebuildClear(x)
  <2> DEFINE local == [pc |-> "replace", made |-> idx[x].made]
  <2>1. Enter(x, local) /\ SoundDb(idx[x].made, torn)
    BY <1>3 DEF RebuildClear, IndexInv, RunSound
  <2>2. local.pc = "replace" /\ local.made = idx[x].made
    OBVIOUS
  <2> HIDE DEF local
  <2>3. RunSound(local, torn) /\ local.pc \notin Reading
    BY <2>1, <2>2 DEF RunSound, Reading
  <2>4. StoreMoved(torn, Connected)
    <3>1. CASE db = NONE
      BY <1>1, <1>3, <3>1, SameMoves DEF RebuildClear
    <3>2. CASE db # NONE
      BY <1>1, <1>2, <1>3, <3>2, RemoveMoves DEF RebuildClear
    <3> QED BY <3>1, <3>2
  <2> QED BY <1>1, <2>1, <2>3, <2>4, EnterKeeps
<1>4. CASE RebuildReplace(x)
  <2>1. Enter(x, [pc |-> "checkpoint"]) /\ SoundDb(idx[x].made, torn) /\ Replace(idx[x].made)
    BY <1>4 DEF RebuildReplace, IndexInv, RunSound
  <2>2. StoreMoved(torn, Connected)
    BY <1>1, <2>1, ReplaceMoves
  <2> QED BY <1>1, <2>1, <2>2, LeaveKeeps
<1>5. CASE IndexCheckpoint(x)
  <2>1. Enter(x, [pc |-> "idle"])
    BY <1>5 DEF IndexCheckpoint
  <2>2. StoreMoved(torn, Connected)
    <3>1. CASE Readable
      BY <1>1, <1>2, <1>5, <3>1, RemoveMoves DEF IndexCheckpoint, Readable
    <3>2. CASE ~Readable
      BY <1>1, <1>5, <3>2, SameMoves DEF IndexCheckpoint
    <3> QED BY <3>1, <3>2
  <2> QED BY <1>1, <2>1, <2>2, LeaveKeeps
<1>6. CASE IndexStops(x)
  <2>1. Enter(x, [pc |-> "idle"]) /\ UNCHANGED store
    BY <1>6 DEF IndexStops
  <2> QED BY <1>1, <2>1, LeaveKeeps, SameMoves
<1> QED BY <1>3, <1>4, <1>5, <1>6

----------------------------------------------------------------------------
(* The steps of a search *)

\* A search changes nothing but its own locals.
LEMMA SearchKeeps ==
  ASSUME IndexInv, UNCHANGED <<mem, docs, v2, make, idx, torn>>, UNCHANGED store,
         SearchSound(srch', torn),
         srch'.pc \in Finding => srch'.conn \in InUse
  PROVE  IndexInv'
<1>1. \A g \in Logs : g \in Connected' => g \in Connected \cup {db'}
  <2>1. SUFFICES ASSUME NEW g \in Logs, g \in Connected' PROVE g \in Connected \cup {db'}
    OBVIOUS
  <2>2. CASE srch'.pc \in Finding /\ g = srch'.conn
    BY <2>2 DEF InUse, store
  <2>3. CASE \E y \in Indexers : idx[y].pc \in Reading /\ g = idx[y].conn
    BY <2>3 DEF Connected
  <2> QED BY <2>1, <2>2, <2>3 DEF Connected
<1>2. StoreSound(torn, Connected)'
  BY <1>1, StoreStays, SameMoves DEF IndexInv
<1>3. Domains' /\ V2Sound' /\ MakeSound(make)' /\ (\A x \in Indexers : RunSound(idx[x], torn))'
  BY DEF IndexInv, Domains, V2Sound, MakeSound
<1> QED BY <1>2, <1>3 DEF IndexInv

\* Whatever is not connected and has answered nothing.
LEMMA SearchQuiet ==
  ASSUME NEW s, NEW T, s.pc \in {"idle", "hash", "documents"}
  PROVE  SearchSound(s, T) /\ s.pc \notin Finding
BY DEF SearchSound, Finding

LEMMA SearchBegins ==
  ASSUME IndexInv, SearchRead \/ SearchHash \/ SearchDone
  PROVE  IndexInv'
<1>1. UNCHANGED <<mem, docs, v2, make, idx, torn>> /\ UNCHANGED store
  BY DEF SearchRead, SearchHash, SearchDone, OnlySearch, root
<1>2. srch'.pc \in {"idle", "hash", "documents"}
  BY DEF SearchRead, SearchHash, SearchDone
<1>3. SearchSound(srch', torn) /\ srch'.pc \notin Finding
  BY <1>2, SearchQuiet
<1> QED BY <1>1, <1>3, SearchKeeps

LEMMA SearchConnects ==
  ASSUME IndexInv, SearchDocuments
  PROVE  IndexInv'
<1>1. UNCHANGED <<mem, docs, v2, make, idx, torn>> /\ UNCHANGED store
  BY DEF SearchDocuments, OnlySearch, root
<1>2. CASE ~Readable
  <2>1. srch'.pc = "idle"
    BY <1>2 DEF SearchDocuments
  <2>2. SearchSound(srch', torn) /\ srch'.pc \notin Finding
    BY <2>1, SearchQuiet
  <2> QED BY <1>1, <2>2, SearchKeeps
<1>3. CASE Readable
  <2>1. srch'.pc = "states" /\ srch'.conn = db /\ db \in Logs
    BY <1>3 DEF SearchDocuments, Readable, IndexInv, StoreSound
  <2>2. SearchSound(srch', torn) /\ srch'.conn \in InUse
    BY <2>1 DEF SearchSound, InUse
  <2> QED BY <1>1, <2>2, SearchKeeps
<1> QED BY <1>2, <1>3

\* What a search finds through its connection.
LEMMA SearchFindsSound ==
  ASSUME IndexInv, srch.pc \in Finding, Found # NONE
  PROVE  SoundDb(Found, torn)
<1>1. srch.conn \in Logs /\ srch.conn \in InUse
  BY DEF IndexInv, SearchSound, InUse, Connected
<1> QED BY <1>1, FoundSound DEF IndexInv, Found, May

LEMMA SearchChecks ==
  ASSUME IndexInv, SearchStates \/ SearchDocumentStates
  PROVE  IndexInv'
<1>1. /\ UNCHANGED <<mem, docs, v2, make, idx, torn>> /\ UNCHANGED store
      /\ srch.pc \in Finding /\ SearchSound(srch, torn)
  BY DEF SearchStates, SearchDocumentStates, OnlySearch, root, Finding, IndexInv
<1>2. srch.conn \in InUse /\ srch.conn \in Logs
  BY <1>1 DEF InUse, Connected, SearchSound
<1>3. CASE srch'.pc = "idle"
  <2>1. SearchSound(srch', torn) /\ srch'.pc \notin Finding
    BY <1>3, SearchQuiet
  <2> QED BY <1>1, <2>1, SearchKeeps
<1>4. CASE SearchStates /\ Found # NONE /\ Fresh(Found.mem, srch.hashed)
  <2>1. srch' = [pc |-> "documentStates", conn |-> srch.conn, hashed |-> srch.hashed,
                 documents |-> srch.documents, mem |-> Found.mem]
    BY <1>4 DEF SearchStates
  <2>2. Sound(Found.mem, torn)
    BY <1>1, <1>4, SearchFindsSound DEF SoundDb
  <2>3. SearchSound(srch', torn) /\ srch'.conn = srch.conn
    BY <1>2, <1>4, <2>1, <2>2 DEF SearchSound
  <2> QED BY <1>1, <1>2, <2>3, SearchKeeps
<1>5. CASE SearchDocumentStates /\ Found # NONE /\ Fresh(Found.doc, srch.documents)
  <2>1. srch' = [pc |-> "memories", conn |-> srch.conn, hashed |-> srch.hashed,
                 documents |-> srch.documents, mem |-> srch.mem, doc |-> Found.doc]
    BY <1>5 DEF SearchDocumentStates
  <2>2. Sound(Found.doc, {})
    BY <1>1, <1>5, SearchFindsSound DEF SoundDb
  <2>3. Sound(srch.mem, torn) /\ Fresh(srch.mem, srch.hashed)
    BY <1>1, <1>5 DEF SearchSound, SearchDocumentStates
  <2>4. SearchSound(srch', torn) /\ srch'.conn = srch.conn
    BY <1>2, <1>5, <2>1, <2>2, <2>3 DEF SearchSound
  <2> QED BY <1>1, <1>2, <2>4, SearchKeeps
<1> QED BY <1>3, <1>4, <1>5 DEF SearchStates, SearchDocumentStates

\* A fresh table has only rows of files that were hashed, and what their
\* states stand for.
LEMMA FreshRow ==
  ASSUME NEW t, NEW T, Sound(t, T), NEW items, Fresh(t, items), NEW i \in DOMAIN t.row
  PROVE  /\ t.row[i].path \in DOMAIN items
         /\ \/ t.row[i].body = items[t.row[i].path].sha
            \/ <<t.row[i].path, t.row[i].body, items[t.row[i].path].sha>> \in T
<1>1. t.row[i].path \in DOMAIN t.state
  BY DEF Sound, Tracked
<1>2. t.row[i].body = t.state[t.row[i].path] \/ <<t.row[i].path, t.row[i].body, t.state[t.row[i].path]>> \in T
  BY <1>1 DEF Sound, Backed
<1>3. t.row[i].path \in DOMAIN items /\ t.state[t.row[i].path] = items[t.row[i].path].sha
  BY <1>1 DEF Fresh
<1> QED BY <1>2, <1>3

LEMMA ShownTrue ==
  ASSUME NEW t, NEW T, Sound(t, T), NEW items, Fresh(t, items)
  PROVE  RowsTrue(Shown(t), items, T)
<1>1. ASSUME NEW r \in Shown(t)
      PROVE  /\ r.path \in DOMAIN items
             /\ \/ r.body = items[r.path].sha /\ items[r.path].sha # "restricted"
                \/ <<r.path, r.body, items[r.path].sha>> \in T
  <2>1. PICK i \in DOMAIN t.row : r = t.row[i] /\ r.body # "restricted"
    BY DEF Shown
  <2> QED BY <2>1, FreshRow
<1> QED BY <1>1 DEF RowsTrue

LEMMA ShownDocumentsTrue ==
  ASSUME NEW t, Sound(t, {}), NEW items, Fresh(t, items)
  PROVE  DocumentsTrue(ShownDocuments(t), items)
<1>1. ASSUME NEW r \in ShownDocuments(t)
      PROVE  r.path \in DOMAIN items /\ r.body = items[r.path].sha /\ items[r.path].sha[2] # "restricted"
  <2>1. PICK i \in DOMAIN t.row : r = t.row[i] /\ r.body[2] # "restricted"
    BY DEF ShownDocuments
  <2>2. PICK T : T = {}
    OBVIOUS
  <2>3. Sound(t, T)
    BY <2>2
  <2>4. /\ t.row[i].path \in DOMAIN items
        /\ \/ t.row[i].body = items[t.row[i].path].sha
           \/ <<t.row[i].path, t.row[i].body, items[t.row[i].path].sha>> \in T
    BY <2>1, <2>3, FreshRow
  <2> QED BY <2>1, <2>2, <2>4
<1> QED BY <1>1 DEF DocumentsTrue

LEMMA SearchAnswers ==
  ASSUME IndexInv, SearchMemories \/ SearchFinds
  PROVE  IndexInv'
<1>1. /\ UNCHANGED <<mem, docs, v2, make, idx, torn>> /\ UNCHANGED store
      /\ srch.pc \in Finding /\ SearchSound(srch, torn)
  BY DEF SearchMemories, SearchFinds, OnlySearch, root, Finding, IndexInv
<1>2. srch.conn \in InUse /\ srch.conn \in Logs
  BY <1>1 DEF InUse, Connected, SearchSound
<1>3. CASE Found = NONE
  <2>1. srch'.pc = "idle"
    BY <1>3 DEF SearchMemories, SearchFinds
  <2>2. SearchSound(srch', torn) /\ srch'.pc \notin Finding
    BY <2>1, SearchQuiet
  <2> QED BY <1>1, <2>2, SearchKeeps
<1>4. CASE SearchMemories /\ Found # NONE
  <2> DEFINE same == IF Found.mem = srch.mem THEN {"mem"} ELSE {}
  <2>1. srch' = [pc |-> "found", conn |-> srch.conn, hashed |-> srch.hashed,
                 documents |-> srch.documents, doc |-> srch.doc, rows |-> Shown(Found.mem), same |-> same]
    BY <1>4 DEF SearchMemories
  <2>2. /\ Sound(srch.mem, torn) /\ Fresh(srch.mem, srch.hashed)
        /\ Sound(srch.doc, {}) /\ Fresh(srch.doc, srch.documents)
    BY <1>1, <1>4 DEF SearchSound, SearchMemories
  <2>3. "mem" \in same => RowsTrue(Shown(Found.mem), srch.hashed, torn)
    BY <2>2, ShownTrue
  <2>4. "doc" \notin same
    OBVIOUS
  <2> HIDE DEF same
  <2>5. SearchSound(srch', torn) /\ srch'.conn = srch.conn
    BY <1>2, <2>1, <2>2, <2>3, <2>4 DEF SearchSound
  <2> QED BY <1>1, <1>2, <2>5, SearchKeeps
<1>5. CASE SearchFinds /\ Found # NONE
  <2> DEFINE same == srch.same \cup (IF Found.doc = srch.doc THEN {"doc"} ELSE {})
  <2>1. srch' = [pc |-> "answered", hashed |-> srch.hashed, documents |-> srch.documents,
                 rows |-> srch.rows, found |-> ShownDocuments(Found.doc), same |-> same]
    BY <1>5 DEF SearchFinds
  <2>2. /\ Sound(srch.doc, {}) /\ Fresh(srch.doc, srch.documents) /\ "doc" \notin srch.same
        /\ "mem" \in srch.same => RowsTrue(srch.rows, srch.hashed, torn)
    BY <1>1, <1>5 DEF SearchSound, SearchFinds
  <2>3. "doc" \in same => DocumentsTrue(ShownDocuments(Found.doc), srch.documents)
    BY <2>2, ShownDocumentsTrue
  <2>4. "mem" \in same => "mem" \in srch.same
    OBVIOUS
  <2> HIDE DEF same
  <2>5. SearchSound(srch', torn) /\ srch'.pc \notin Finding
    BY <2>1, <2>2, <2>3, <2>4 DEF SearchSound, Finding
  <2> QED BY <1>1, <2>5, SearchKeeps
<1> QED BY <1>3, <1>4, <1>5

----------------------------------------------------------------------------
(* The theorems *)

\* The inductive invariant of memory.py's index: what any log or database file
\* holds is sound or cannot be read, and so is what every run, rebuild, migration
\* and search under way has taken from them, however their steps interleave.
THEOREM Index == Spec => []IndexInv
<1>1. IndexInv /\ [Next]_vars => IndexInv'
  <2> SUFFICES ASSUME IndexInv, [Next]_vars PROVE IndexInv'
    OBVIOUS
  <2>1. CASE ChangeMemory \/ ChangeDocument \/ SetMetadata \/ ImportConversation
    BY <2>1, ChangeKeeps
  <2>2. CASE DbInit \/ DbCreate \/ DbTidy
    BY <2>2, DbInitKeeps
  <2>3. CASE \/ MigrateBegin \/ MigrateDocuments \/ MigrateVerify \/ MigrateReplace
             \/ MigrateFails \/ MakeStops
    BY <2>3, MigrateKeeps
  <2>4. ASSUME NEW x \in Indexers, NEW rebuild \in BOOLEAN, IndexRead(x, rebuild)
        PROVE  IndexInv'
    BY <2>4, ReadKeeps
  <2>5. ASSUME NEW x \in Indexers, IndexHash(x) PROVE IndexInv'
    BY <2>5, HashKeeps
  <2>6. ASSUME NEW x \in Indexers, IndexDocuments(x) PROVE IndexInv'
    BY <2>6, DocumentsKeeps
  <2>7. ASSUME NEW x \in Indexers, SelectRows(x) \/ SelectStates(x) PROVE IndexInv'
    BY <2>7, SelectKeeps
  <2>8. ASSUME NEW x \in Indexers, IndexApply(x) PROVE IndexInv'
    BY <2>8, ApplyKeeps
  <2>9. ASSUME NEW x \in Indexers,
               RebuildClear(x) \/ RebuildReplace(x) \/ IndexCheckpoint(x) \/ IndexStops(x)
        PROVE  IndexInv'
    BY <2>9, CloseKeeps
  <2>10. CASE SearchRead \/ SearchHash \/ SearchDone
    BY <2>10, SearchBegins
  <2>11. CASE SearchDocuments
    BY <2>11, SearchConnects
  <2>12. CASE SearchStates \/ SearchDocumentStates
    BY <2>12, SearchChecks
  <2>13. CASE SearchMemories \/ SearchFinds
    BY <2>13, SearchAnswers
  <2>14. CASE UNCHANGED vars
    <3>1. Connected' = Connected
      BY <2>14 DEF vars, Connected
    <3>2. StoreSound(torn, Connected)' /\ Domains' /\ V2Sound' /\ MakeSound(make)'
      BY <2>14, <3>1 DEF vars, IndexInv, StoreSound, Domains, V2Sound, MakeSound
    <3> QED BY <2>14, <3>2 DEF vars, IndexInv
  <2> QED BY <2>1, <2>2, <2>3, <2>4, <2>5, <2>6, <2>7, <2>8, <2>9, <2>10, <2>11, <2>12, <2>13,
     <2>14 DEF Next
<1> QED BY <1>1, IndexInit, PTL DEF Spec

\* memory.py index_store, db_rebuild, migrate_database_v2_to_v3: whatever runs
\* interleave, and whatever becomes of logs and files under their connections, the
\* tables that anyone can read are sound.
THEOREM IndexSoundAlways == Spec => []IndexSound
<1>1. ASSUME IndexInv PROVE IndexSound
  <2>1. ASSUME NEW g \in Logs, logs[g] # NONE, NEW d \in {logs[g].tables, logs[g].disk} \ {NONE}
        PROVE  Sound(d.mem, torn) /\ Sound(d.doc, {})
    <3>1. LogSound(logs[g], torn)
      BY <1>1, <2>1 DEF IndexInv, StoreSound
    <3> QED BY <2>1, <3>1 DEF LogSound, SoundDb
  <2> QED BY <2>1 DEF IndexSound
<1> QED BY <1>1, Index, PTL

\* memory.py search_store: what an answer says of a table nobody indexed again
\* between the check that it is fresh and the search in it is what the files said
\* when they were hashed, and nothing restricted, but for a memory file that an
\* index run read as one thing and hashed as another.
THEOREM SearchTruthfulAlways == Spec => []SearchTruthful
<1>1. ASSUME IndexInv PROVE SearchTruthful
  BY <1>1 DEF IndexInv, SearchSound, SearchTruthful, RowsTrue, DocumentsTrue
<1> QED BY <1>1, Index, PTL

\* A run that nobody overtook, when its transaction is not rolled back.
LEMMA CommitExact ==
  ASSUME NEW me, NEW T, RunPlanned(me, T), Commits(me, Result(me, me.base))
  PROVE  /\ Fresh(Result(me, me.base).mem, me.mem.items)
         /\ Fresh(Result(me, me.base).doc, me.doc.items)
<1>1. IsFiniteSet(DOMAIN me.mem.items) /\ IsFiniteSet(DOMAIN me.doc.items)
  BY PathsFinite, FS_Subset DEF RunPlanned, MemoryRead, DocumentsRead
<1>2. /\ me.mem = Plan(me.base.mem, me.mem.items)
      /\ me.doc = Plan(me.base.doc, me.doc.items)
  BY DEF RunPlanned
<1>3. /\ ConsistentWith(Applied(me.base.mem, me.mem), me.mem)
      /\ ConsistentWith(Applied(me.base.doc, me.doc), me.doc)
  BY DEF Commits, Result
<1>4. Fresh(Applied(me.base.mem, me.mem), me.mem.items)
  BY <1>1, <1>2, <1>3, ConsistentFresh
<1>5. Fresh(Applied(me.base.doc, me.doc), me.doc.items)
  BY <1>1, <1>2, <1>3, ConsistentFresh
<1> QED BY <1>4, <1>5 DEF Result

\* And when it is: memory files are named for their ids, so that only the
\* documents can be in the way.
LEMMA RefusedFor ==
  ASSUME NEW me, NEW T, RunPlanned(me, T), SoundDb(me.base, T), ~Commits(me, Result(me, me.base))
  PROVE  Clash(me.doc.items) \/ Shuffled(me.base.doc, me.doc.items)
<1>1. IsFiniteSet(DOMAIN me.mem.items) /\ IsFiniteSet(DOMAIN me.doc.items)
  BY PathsFinite, FS_Subset DEF RunPlanned, MemoryRead, DocumentsRead
<1>2. /\ me.mem = Plan(me.base.mem, me.mem.items)
      /\ me.doc = Plan(me.base.doc, me.doc.items)
  BY DEF RunPlanned
<1>3. ConsistentWith(Applied(me.base.mem, me.mem), me.mem)
  <2>1. /\ PathsApart(me.base.mem.row) /\ Tracked(me.base.mem) /\ ItemsApart(me.mem.items)
    BY DEF RunPlanned, SoundDb, Sound, MemoryRead
  <2>2. ~Shuffled(me.base.mem, me.mem.items)
    BY DEF RunPlanned, SoundDb, OwnIds, MemoryRead, Shuffled
  <2> QED BY <1>1, <1>2, <2>1, <2>2, ApartConsistent
<1>4. ASSUME ~Clash(me.doc.items), ~Shuffled(me.base.doc, me.doc.items)
      PROVE  ConsistentWith(Applied(me.base.doc, me.doc), me.doc)
  <2>1. PathsApart(me.base.doc.row) /\ Tracked(me.base.doc)
    BY DEF RunPlanned, SoundDb, Sound
  <2>2. ItemsApart(me.doc.items)
    BY <1>1, <1>4, IdCount
  <2> QED BY <1>1, <1>2, <1>4, <2>1, <2>2, ApartConsistent
<1> QED BY <1>3, <1>4 DEF Commits, Result

\* memory.py index_store, apply_index_changes, apply_document_changes: a run
\* that nobody else's run overtook leaves the index exactly on the files it
\* read, or is rolled back because documents clash or have traded places.
THEOREM IndexExactAlways == Spec => IndexExact
<1> DEFINE Exact(me, now) ==
     IF Commits(me, Result(me, me.base))
     THEN Fresh(now.mem, me.mem.items) /\ Fresh(now.doc, me.doc.items)
     ELSE Clash(me.doc.items) \/ Shuffled(me.base.doc, me.doc.items)
           A == \A x \in Indexers :
     LET me == idx[x] IN
     me.pc = "apply" /\ IndexApply(x) /\ Target(me) # NONE /\ Target(me) = me.base =>
       IF Commits(me, Result(me, me.base))
       THEN LET now == IF me.rebuild THEN idx'[x].made ELSE logs'[me.conn].tables IN
            Fresh(now.mem, me.mem.items) /\ Fresh(now.doc, me.doc.items)
       ELSE Clash(me.doc.items) \/ Shuffled(me.base.doc, me.doc.items)
<1>1. IndexInv => A
  <2> SUFFICES ASSUME IndexInv, NEW x \in Indexers, idx[x].pc = "apply", IndexApply(x),
                      Target(idx[x]) # NONE, Target(idx[x]) = idx[x].base
               PROVE  Exact(idx[x], IF idx[x].rebuild THEN idx'[x].made ELSE logs'[idx[x].conn].tables)
    OBVIOUS
  <2>1. RunPlanned(idx[x], torn) /\ SoundDb(idx[x].base, torn)
    BY TargetSound DEF IndexInv, RunSound
  <2> DEFINE made == Result(idx[x], idx[x].base)
  <2>2. ASSUME Commits(idx[x], made), idx[x].rebuild
        PROVE  idx'[x].made = made
    <3>1. Enter(x, [pc |-> "clear", made |-> made])
      BY <2>2 DEF IndexApply
    <3> HIDE DEF made
    <3> QED BY <3>1 DEF Enter, IndexInv, Domains
  <2>3. ASSUME Commits(idx[x], made), ~idx[x].rebuild
        PROVE  logs'[idx[x].conn].tables = made
    <3>1. Commit(idx[x].conn, made)
      BY <2>3 DEF IndexApply
    <3>2. idx[x].conn \in Logs /\ idx[x].conn \in Connected
      BY <2>3, TargetSound
    <3>3. /\ DOMAIN logs = Logs
          /\ logs[idx[x].conn] = [tables |-> logs[idx[x].conn].tables, disk |-> logs[idx[x].conn].disk,
                                  named |-> logs[idx[x].conn].named]
      BY <3>2 DEF IndexInv, StoreSound, LogSound
    <3> HIDE DEF made
    <3> QED BY <3>1, <3>2, <3>3 DEF Commit
  <2>4. CASE Commits(idx[x], made)
    <3>1. (IF idx[x].rebuild THEN idx'[x].made ELSE logs'[idx[x].conn].tables) = made
      <4> HIDE DEF made
      <4> QED BY <2>2, <2>3, <2>4
    <3>2. Fresh(made.mem, idx[x].mem.items) /\ Fresh(made.doc, idx[x].doc.items)
      BY <2>1, <2>4, CommitExact
    <3> QED BY <2>4, <3>1, <3>2
  <2>5. CASE ~Commits(idx[x], made)
    <3>1. Clash(idx[x].doc.items) \/ Shuffled(idx[x].base.doc, idx[x].doc.items)
      BY <2>1, <2>5, RefusedFor
    <3> QED BY <2>5, <3>1
  <2> QED BY <2>4, <2>5
<1>2. IndexInv => [A]_vars
  BY <1>1
<1> HIDE DEF A
<1>3. Spec => [][A]_vars
  BY <1>2, Index, PTL DEF Spec
<1> USE DEF A
<1> QED BY <1>3 DEF IndexExact
=============================================================================
