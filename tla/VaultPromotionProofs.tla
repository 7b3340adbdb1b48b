------------------------ MODULE VaultPromotionProofs ------------------------
(***************************************************************************)
(* Theorems about VaultPromotion, for any number of candidates, plans,     *)
(* texts and callers, and whatever fails.  Nothing is assumed of the order *)
(* in which callers act: VaultInv adds to the types what each of them may  *)
(* rely on, that its candidate and plan exist and that the plan it claimed *)
(* can be neither claimed nor inserted again.                              *)
(***************************************************************************)
EXTENDS VaultPromotion, TLAPS

PlanState == {"none", "active", "promoting", "completed", "failed", "conflicted",
              "abandoned"}

\* What is known of a caller whose record is r.
HasCandidate(r) == r.at \notin {"idle", "abandoning"} => r.cand \in Cands
HasPlan(r) ==
  r.at \in Promoting \cup {"abandoning", "retargeting"} =>
    r.plan \in Plans /\ plans[r.plan].cand \in Cands
HasClaim(r) == r.at \in Promoting => plans[r.plan].state \notin {"none", "active"}

InboxTexts == \A c \in Cands : files[c] \in Texts \cup {None}
PlansNamed == \A l \in Plans : plans[l].state # "none" => plans[l].cand \in Cands
CallersKnow ==
  \A p \in Procs : HasCandidate(proc[p]) /\ HasPlan(proc[p]) /\ HasClaim(proc[p])

VaultInv == TypeOK /\ InboxTexts /\ PlansNamed /\ CallersKnow /\ ClaimExclusive

\* What a step may do to the plans: a plan keeps its candidate, and one that has
\* left 'active' does not return to it.
PlansMayBecome(new) ==
  /\ new \in [Plans -> Plan]
  /\ \A l \in Plans :
       /\ new[l].state # "none" => new[l].cand \in Cands
       /\ plans[l].cand \in Cands => new[l].cand \in Cands
       /\ plans[l].state \notin {"none", "active"} => new[l].state \notin {"none", "active"}

\* A caller continues with the plan it had claimed, or has just claimed one.
MayContinue(old, new, after) ==
  new.at \in Promoting =>
    \/ old.at \in Promoting /\ new.plan = old.plan
    \/ plans[new.plan].state = "active" /\ after[new.plan].state \notin {"none", "active"}

LEMMA IdleType == Idle \in Local
BY DEF Idle, Local, Points

LEMMA IdleKnows == Idle \in Local /\ HasCandidate(Idle) /\ HasPlan(Idle)
                   /\ Idle.at \notin Promoting
BY IdleType DEF Idle, HasCandidate, HasPlan, Promoting

\* The plans and the callers after any step of caller p.
LEMMA CallerStep ==
  ASSUME VaultInv, NEW p \in Procs, NEW new \in Local,
         proc' = [proc EXCEPT ![p] = new],
         HasCandidate(new), HasPlan(new), MayContinue(proc[p], new, plans'),
         PlansMayBecome(plans'),
         files' \in [Cands \cup Targets -> Texts \cup {Note, None}], InboxTexts',
         cands' \in [Cands -> Row],
         audit' \in [Plans -> SUBSET {"completed", "conflicted", "failed"}],
         edits' \in Nat, crashes' \in Nat
  PROVE  VaultInv'
<1>1. proc \in [Procs -> Local]
  BY DEF VaultInv, TypeOK
<1>2. TypeOK'
  BY <1>1 DEF TypeOK, PlansMayBecome
<1>3. PlansNamed'
  BY DEF PlansNamed, PlansMayBecome
<1>4. \A q \in Procs : proc'[q] = IF q = p THEN new ELSE proc[q]
  BY <1>1
<1>5. CallersKnow'
  <2> SUFFICES ASSUME NEW q \in Procs
               PROVE  /\ HasCandidate(proc[q])'
                      /\ HasPlan(proc[q])'
                      /\ HasClaim(proc[q])'
    BY DEF CallersKnow
  <2>1. HasCandidate(proc[q])'
    BY <1>4 DEF VaultInv, CallersKnow, HasCandidate
  <2>2. HasPlan(proc[q])'
    BY <1>4 DEF VaultInv, CallersKnow, HasPlan, PlansMayBecome
  <2>3. CASE q # p
    <3>1. proc'[q] = proc[q]
      BY <1>4, <2>3
    <3>2. HasClaim(proc[q]) /\ HasPlan(proc[q])
      BY DEF VaultInv, CallersKnow
    <3>3. HasClaim(proc[q])'
      BY <3>1, <3>2 DEF HasClaim, HasPlan, PlansMayBecome
    <3>4. QED
      BY <2>1, <2>2, <3>3
  <2>4. CASE q = p
    <3>1. proc'[q] = new
      BY <1>4, <2>4
    <3>2. HasClaim(proc[p]) /\ HasPlan(proc[p])
      BY DEF VaultInv, CallersKnow
    <3>3. HasClaim(proc[q])'
      BY <3>1, <3>2 DEF HasClaim, HasPlan, PlansMayBecome, MayContinue
    <3>4. QED
      BY <2>1, <2>2, <3>3
  <2>5. QED
    BY <2>3, <2>4
<1>6. ClaimExclusive'
  <2> SUFFICES ASSUME NEW q \in Procs, NEW r \in Procs, q # r,
                      proc'[q].at \in Promoting, proc'[r].at \in Promoting
               PROVE  proc'[q].plan # proc'[r].plan
    BY DEF ClaimExclusive, Promoting
  <2>1. ASSUME NEW s \in Procs, s # p, proc[s].at \in Promoting, new.at \in Promoting
        PROVE  proc[s].plan # new.plan
    <3>1. HasClaim(proc[s])
      BY DEF VaultInv, CallersKnow
    <3>2. proc[p].at \in Promoting => proc[s].plan # proc[p].plan
      BY <2>1 DEF VaultInv, ClaimExclusive
    <3>3. QED
      BY <2>1, <3>1, <3>2 DEF HasClaim, MayContinue
  <2>2. CASE q = p
    BY <1>4, <2>1, <2>2
  <2>3. CASE r = p
    BY <1>4, <2>1, <2>3
  <2>4. CASE q # p /\ r # p
    BY <1>4, <2>4 DEF VaultInv, ClaimExclusive
  <2>5. QED
    BY <2>2, <2>3, <2>4
<1>7. QED
  BY <1>2, <1>3, <1>5, <1>6 DEF VaultInv

LEMMA PlansStay == ASSUME VaultInv PROVE PlansMayBecome(plans)
BY DEF VaultInv, TypeOK, PlansNamed, PlansMayBecome

\* A step that only moves caller p.
LEMMA MoveStep ==
  ASSUME VaultInv, NEW p \in Procs, NEW new \in Local,
         proc' = [proc EXCEPT ![p] = new],
         HasCandidate(new), HasPlan(new),
         new.at \in Promoting => proc[p].at \in Promoting /\ new.plan = proc[p].plan,
         UNCHANGED <<plans, env>>,
         files' \in [Cands \cup Targets -> Texts \cup {Note, None}], InboxTexts',
         cands' \in [Cands -> Row],
         audit' \in [Plans -> SUBSET {"completed", "conflicted", "failed"}]
  PROVE  VaultInv'
<1>1. PlansMayBecome(plans')
  BY PlansStay
<1>2. MayContinue(proc[p], new, plans')
  BY DEF MayContinue
<1>3. edits' \in Nat /\ crashes' \in Nat
  BY DEF VaultInv, TypeOK, env
<1>4. QED
  BY <1>1, <1>2, <1>3, CallerStep

\* What holds of the tables and the files when a step leaves them alone.
LEMMA DataTypes ==
  ASSUME VaultInv
  PROVE  /\ files \in [Cands \cup Targets -> Texts \cup {Note, None}] /\ InboxTexts
         /\ cands \in [Cands -> Row]
         /\ plans \in [Plans -> Plan]
         /\ audit \in [Plans -> SUBSET {"completed", "conflicted", "failed"}]
         /\ proc \in [Procs -> Local]
         /\ edits \in Nat /\ crashes \in Nat
BY DEF VaultInv, TypeOK

\* A caller that begins, with nothing written.
LEMMA BeginStep ==
  ASSUME VaultInv, NEW p \in Procs, NEW new \in Local,
         proc' = [proc EXCEPT ![p] = new],
         HasCandidate(new), HasPlan(new), new.at \notin Promoting,
         UNCHANGED <<files, cands, plans, audit, env>>
  PROVE  VaultInv'
BY DataTypes, MoveStep DEF InboxTexts

\* A promoting caller that goes on to its next step.
LEMMA GotoStep ==
  ASSUME VaultInv, NEW p \in Procs, NEW point \in Promoting, Goto(p, point),
         proc[p].at \in Promoting
  PROVE  \E new \in Local :
           /\ proc' = [proc EXCEPT ![p] = new]
           /\ HasCandidate(new) /\ HasPlan(new)
           /\ new.at \in Promoting /\ new.plan = proc[p].plan
<1> DEFINE new == [proc[p] EXCEPT !.at = point]
<1>1. proc[p] \in Local
  BY DataTypes
<1>2. point \in Points
  BY DEF Promoting, Points
<1>3. /\ new \in Local /\ new.at = point /\ new.plan = proc[p].plan
      /\ new.cand = proc[p].cand
  BY <1>1, <1>2 DEF Local
<1>4. HasCandidate(proc[p]) /\ HasPlan(proc[p])
  BY DEF VaultInv, CallersKnow
<1>5. proc[p].at \notin {"idle", "abandoning"}
  BY DEF Promoting
<1>6. HasCandidate(new) /\ HasPlan(new)
  BY <1>3, <1>4, <1>5 DEF HasCandidate, HasPlan
<1>7. proc' = [proc EXCEPT ![p] = new]
  BY DEF Goto
<1>8. QED
  BY <1>3, <1>6, <1>7

\* A caller that returns.
LEMMA DoneStep ==
  ASSUME VaultInv, NEW p \in Procs, Done(p), PlansMayBecome(plans'),
         files' \in [Cands \cup Targets -> Texts \cup {Note, None}], InboxTexts',
         cands' \in [Cands -> Row],
         audit' \in [Plans -> SUBSET {"completed", "conflicted", "failed"}],
         edits' \in Nat, crashes' \in Nat
  PROVE  VaultInv'
<1>1. MayContinue(proc[p], Idle, plans')
  BY IdleKnows DEF MayContinue
<1>2. QED
  BY <1>1, IdleKnows, CallerStep DEF Done

\* A plan that is there may change its state to anything but 'none' and 'active'.
LEMMA SetPlanStep ==
  ASSUME VaultInv, NEW l \in Plans, plans[l].cand \in Cands,
         NEW state \in PlanState \ {"none", "active"}
  PROVE  PlansMayBecome(SetPlan(l, state)) /\ SetPlan(l, state)[l].state = state
<1>1. plans \in [Plans -> Plan]
  BY DataTypes
<1> DEFINE new == [plans[l] EXCEPT !.state = state]
<1>2. new \in Plan /\ new.state = state /\ new.cand = plans[l].cand
  BY <1>1 DEF Plan, PlanState
<1>3. SetPlan(l, state) = [plans EXCEPT ![l] = new]
  BY <1>1 DEF SetPlan
<1> HIDE DEF new
<1>4. SetPlan(l, state) \in [Plans -> Plan]
  BY <1>1, <1>2, <1>3
<1>5. \A k \in Plans : SetPlan(l, state)[k] = IF k = l THEN new ELSE plans[k]
  BY <1>1, <1>3
<1>6. QED
  BY <1>2, <1>4, <1>5 DEF PlansMayBecome, VaultInv, PlansNamed

LEMMA InitInv == Init => VaultInv
<1> SUFFICES ASSUME Init PROVE VaultInv
  OBVIOUS
<1>1. TypeOK
  BY IdleType DEF Init, TypeOK, Row, Plan
<1>2. InboxTexts /\ PlansNamed
  BY DEF Init, InboxTexts, PlansNamed
<1>3. CallersKnow /\ ClaimExclusive
  BY DEF Init, CallersKnow, HasCandidate, HasPlan, HasClaim, ClaimExclusive, Promoting, Idle
<1>4. QED
  BY <1>1, <1>2, <1>3 DEF VaultInv

LEMMA StartStep ==
  ASSUME VaultInv, NEW p \in Procs, Start(p)
  PROVE  VaultInv'
<1>1. ASSUME NEW c \in Cands, NEW text \in Texts, BeginCreate(p, c, text) PROVE VaultInv'
  <2> DEFINE new == [Idle EXCEPT !.at = "creating", !.cand = c, !.text = text]
  <2>1. new \in Local /\ HasCandidate(new) /\ HasPlan(new) /\ new.at \notin Promoting
    BY DEF Idle, Local, Points, HasCandidate, HasPlan, Promoting
  <2>2. QED
    BY <1>1, <2>1, BeginStep DEF BeginCreate
<1>2. ASSUME NEW c \in Cands, NEW verdict \in {"approved", "rejected"},
             BeginReview(p, c, verdict)
      PROVE  VaultInv'
  <2> DEFINE new == [Idle EXCEPT !.at = "reviewing", !.cand = c,
                                 !.text = cands[c].evidence, !.verdict = verdict]
  <2>1. cands[c].evidence \in Texts \cup {None}
    BY DataTypes DEF Row
  <2>2. new \in Local /\ HasCandidate(new) /\ HasPlan(new) /\ new.at \notin Promoting
    BY <2>1 DEF Idle, Local, Points, HasCandidate, HasPlan, Promoting
  <2>3. QED
    BY <1>2, <2>2, BeginStep DEF BeginReview
<1>3. ASSUME NEW c \in Cands, NEW target \in Targets, BeginPlan(p, c, target)
      PROVE  VaultInv'
  <2> DEFINE new == [Idle EXCEPT !.at = "planning", !.cand = c,
                                 !.text = cands[c].reviewed, !.target = target]
  <2>1. cands[c].reviewed \in Texts \cup {None}
    BY DataTypes DEF Row
  <2>2. new \in Local /\ HasCandidate(new) /\ HasPlan(new) /\ new.at \notin Promoting
    BY <2>1 DEF Idle, Local, Points, HasCandidate, HasPlan, Promoting
  <2>3. QED
    BY <1>3, <2>2, BeginStep DEF BeginPlan
<1>4. ASSUME NEW c \in Cands, BeginInvalidate(p, c) PROVE VaultInv'
  <2> DEFINE new == [Idle EXCEPT !.at = "invalidating", !.cand = c]
  <2>1. new \in Local /\ HasCandidate(new) /\ HasPlan(new) /\ new.at \notin Promoting
    BY DEF Idle, Local, Points, HasCandidate, HasPlan, Promoting
  <2>2. QED
    BY <1>4, <2>1, BeginStep DEF BeginInvalidate
<1>5. ASSUME NEW c \in Cands, BeginReReview(p, c) PROVE VaultInv'
  <2> DEFINE new == [Idle EXCEPT !.at = "rereviewing", !.cand = c]
  <2>1. new \in Local /\ HasCandidate(new) /\ HasPlan(new) /\ new.at \notin Promoting
    BY DEF Idle, Local, Points, HasCandidate, HasPlan, Promoting
  <2>2. QED
    BY <1>5, <2>1, BeginStep DEF BeginReReview
<1>6. ASSUME NEW l \in Plans, NEW target \in Targets, BeginRetarget(p, l, target)
      PROVE  VaultInv'
  <2> DEFINE new == [Idle EXCEPT !.at = "retargeting", !.cand = plans[l].cand,
                                 !.plan = l, !.text = cands[plans[l].cand].reviewed,
                                 !.target = target]
  <2>1. plans[l].cand \in Cands
    BY <1>6 DEF BeginRetarget, VaultInv, PlansNamed
  <2>2. cands[plans[l].cand].reviewed \in Texts \cup {None}
    BY <2>1, DataTypes DEF Row
  <2>3. new \in Local /\ HasCandidate(new) /\ HasPlan(new) /\ new.at \notin Promoting
    BY <2>1, <2>2 DEF Idle, Local, Points, HasCandidate, HasPlan, Promoting
  <2>4. QED
    BY <1>6, <2>3, BeginStep DEF BeginRetarget
<1>7. ASSUME NEW l \in Plans, BeginAbandon(p, l) PROVE VaultInv'
  <2> DEFINE new == [Idle EXCEPT !.at = "abandoning", !.plan = l]
  <2>1. plans[l].cand \in Cands
    BY <1>7 DEF BeginAbandon, VaultInv, PlansNamed
  <2>2. new \in Local /\ HasCandidate(new) /\ HasPlan(new) /\ new.at \notin Promoting
    BY <2>1 DEF Idle, Local, Points, HasCandidate, HasPlan, Promoting
  <2>3. QED
    BY <1>7, <2>2, BeginStep DEF BeginAbandon
<1>8. ASSUME NEW l \in Plans, BeginCleanup(p, l) PROVE VaultInv'
  <2> DEFINE new == [Idle EXCEPT !.at = "cleaning", !.cand = plans[l].cand]
  <2>1. plans[l].cand \in Cands
    BY <1>8 DEF BeginCleanup, VaultInv, PlansNamed
  <2>2. new \in Local /\ HasCandidate(new) /\ HasPlan(new) /\ new.at \notin Promoting
    BY <2>1 DEF Idle, Local, Points, HasCandidate, HasPlan, Promoting
  <2>3. QED
    BY <1>8, <2>2, BeginStep DEF BeginCleanup
<1>9. ASSUME NEW l \in Plans, Claim(p, l) PROVE VaultInv'
  <2> DEFINE new == [Idle EXCEPT !.at = "claimed", !.plan = l, !.cand = plans[l].cand]
  <2>1. plans[l].cand \in Cands
    BY <1>9 DEF Claim, VaultInv, PlansNamed
  <2>2. new \in Local /\ HasCandidate(new) /\ HasPlan(new) /\ new.plan = l
    BY <2>1 DEF Idle, Local, Points, HasCandidate, HasPlan, Promoting
  <2>3. PlansMayBecome(plans') /\ plans'[l].state = "promoting"
    BY <1>9, <2>1, SetPlanStep DEF Claim, PlanState
  <2>4. MayContinue(proc[p], new, plans')
    BY <1>9, <2>2, <2>3 DEF Claim, MayContinue
  <2>5. proc' = [proc EXCEPT ![p] = new]
    BY <1>9 DEF Claim
  <2>6. /\ files' \in [Cands \cup Targets -> Texts \cup {Note, None}] /\ InboxTexts'
        /\ cands' \in [Cands -> Row]
        /\ audit' \in [Plans -> SUBSET {"completed", "conflicted", "failed"}]
        /\ edits' \in Nat /\ crashes' \in Nat
    BY <1>9, DataTypes DEF Claim, env, InboxTexts
  <2> HIDE DEF new
  <2>7. QED
    BY <2>2, <2>3, <2>4, <2>5, <2>6, CallerStep
<1>10. ASSUME NEW l \in Plans, RefuseClaim(p, l) PROVE VaultInv'
  <2>1. audit' \in [Plans -> SUBSET {"completed", "conflicted", "failed"}]
    BY <1>10, DataTypes DEF RefuseClaim
  <2>2. /\ TypeOK' /\ InboxTexts' /\ PlansNamed' /\ CallersKnow' /\ ClaimExclusive'
    BY <1>10, <2>1 DEF RefuseClaim, env, VaultInv, TypeOK, InboxTexts, PlansNamed,
                       CallersKnow, HasCandidate, HasPlan, HasClaim, ClaimExclusive
  <2>3. QED
    BY <2>2 DEF VaultInv
<1>11. QED
  BY <1>1, <1>2, <1>3, <1>4, <1>5, <1>6, <1>7, <1>8, <1>9, <1>10 DEF Start

\* Writing one file keeps the files typed, and the inbox free of the user's notes.
LEMMA FileWrite ==
  ASSUME VaultInv, NEW path, NEW text \in Texts \cup {None},
         files' = [files EXCEPT ![path] = text]
  PROVE  files' \in [Cands \cup Targets -> Texts \cup {Note, None}] /\ InboxTexts'
BY DataTypes DEF InboxTexts

LEMMA RowWrite ==
  ASSUME VaultInv, NEW c, NEW row \in Row, cands' = [cands EXCEPT ![c] = row]
  PROVE  cands' \in [Cands -> Row]
BY DataTypes

\* A plan that is inserted.
LEMMA InsertPlanStep ==
  ASSUME VaultInv, NEW old \in [Plans -> Plan], PlansMayBecome(old),
         NEW l \in Plans, plans[l].state = "none",
         NEW new \in Plan, new.cand \in Cands,
         plans' = [old EXCEPT ![l] = new]
  PROVE  PlansMayBecome(plans')
<1>1. \A k \in Plans : plans'[k] = IF k = l THEN new ELSE old[k]
  OBVIOUS
<1>2. plans' \in [Plans -> Plan]
  OBVIOUS
<1>3. QED
  BY <1>1, <1>2 DEF PlansMayBecome

LEMMA NewPlanType ==
  ASSUME VaultInv, NEW p \in Procs, HasCandidate(proc[p]), proc[p].at \in {"planning", "retargeting"}
  PROVE  NewPlan(p) \in Plan /\ NewPlan(p).cand \in Cands
<1>1. proc[p] \in Local
  BY DataTypes
<1>2. proc[p].cand \in Cands
  BY DEF HasCandidate
<1>3. QED
  BY <1>1, <1>2 DEF NewPlan, Plan, Local

LEMMA FinishStep ==
  ASSUME VaultInv, NEW p \in Procs, Finish(p)
  PROVE  VaultInv'
<1> DEFINE c == proc[p].cand
           row == cands[c]
<1>1. proc[p] \in Local
  BY DataTypes
<1>2. HasCandidate(proc[p]) /\ HasPlan(proc[p])
  BY DEF VaultInv, CallersKnow
<1>3. PlansMayBecome(plans)
  BY PlansStay
<1>4. proc[p].text \in Texts \cup {None} /\ proc[p].target \in Targets \cup {None}
      /\ proc[p].verdict \in {"approved", "rejected"}
  BY <1>1 DEF Local
<1>5. CASE WriteCandidate(p)
  <2> DEFINE new == [proc[p] EXCEPT !.at = "inserting"]
  <2>1. c \in Cands
    BY <1>2, <1>5 DEF WriteCandidate, At, HasCandidate
  <2>2. new \in Local /\ HasCandidate(new) /\ HasPlan(new) /\ new.at \notin Promoting
    BY <1>1, <2>1 DEF Local, Points, HasCandidate, HasPlan, Promoting
  <2>3. files' \in [Cands \cup Targets -> Texts \cup {Note, None}] /\ InboxTexts'
    BY <1>4, <1>5, FileWrite DEF WriteCandidate
  <2>4. proc' = [proc EXCEPT ![p] = new]
    BY <1>5 DEF WriteCandidate, Goto
  <2>5. cands' \in [Cands -> Row]
        /\ audit' \in [Plans -> SUBSET {"completed", "conflicted", "failed"}]
    BY <1>5, DataTypes DEF WriteCandidate
  <2>6. UNCHANGED <<plans, env>>
    BY <1>5 DEF WriteCandidate
  <2> HIDE DEF new
  <2>7. QED
    BY <2>2, <2>3, <2>4, <2>5, <2>6, MoveStep
<1>6. CASE InsertCandidate(p)
  <2> DEFINE new == [state |-> "pending_review", evidence |-> proc[p].text,
                     reviewed |-> None, target |-> None]
  <2>1. new \in Row
    BY <1>4 DEF Row
  <2>2. cands' \in [Cands -> Row]
    BY <1>6, <2>1, RowWrite DEF InsertCandidate
  <2>3. QED
    BY <1>3, <1>6, <2>2, DoneStep, DataTypes DEF InsertCandidate, env, InboxTexts
<1>7. CASE InsertFails(p)
  <2>1. files' \in [Cands \cup Targets -> Texts \cup {Note, None}] /\ InboxTexts'
    BY <1>7, FileWrite DEF InsertFails
  <2>2. QED
    BY <1>3, <1>7, <2>1, DoneStep, DataTypes DEF InsertFails, env
<1>8. CASE RecordReview(p)
  <2> DEFINE new == [row EXCEPT !.state = proc[p].verdict, !.reviewed = proc[p].text]
  <2>1. c \in Cands
    BY <1>2, <1>8 DEF RecordReview, At, HasCandidate
  <2>2. row \in Row
    BY <2>1, DataTypes
  <2>3. new \in Row
    BY <1>4, <2>2 DEF Row
  <2>4. cands' = [cands EXCEPT ![c] = new]
    BY <1>8, <2>1, DataTypes DEF RecordReview
  <2>5. cands' \in [Cands -> Row]
    BY <2>3, <2>4, RowWrite
  <2>6. QED
    BY <1>3, <1>8, <2>5, DoneStep, DataTypes DEF RecordReview, env, InboxTexts
<1>9. CASE BackToReview(p)
  <2> DEFINE new == [row EXCEPT !.state = "pending_review", !.reviewed = None]
  <2>1. c \in Cands
    BY <1>2, <1>9 DEF BackToReview, HasCandidate
  <2>2. row \in Row
    BY <2>1, DataTypes
  <2>3. new \in Row
    BY <2>2 DEF Row
  <2>4. cands' = [cands EXCEPT ![c] = new]
    BY <1>9, <2>1, DataTypes DEF BackToReview
  <2>5. cands' \in [Cands -> Row]
    BY <2>3, <2>4, RowWrite
  <2>6. QED
    BY <1>3, <1>9, <2>5, DoneStep, DataTypes DEF BackToReview, env, InboxTexts
<1>10. CASE RecordAbandon(p)
  <2>1. proc[p].plan \in Plans /\ plans[proc[p].plan].cand \in Cands
    BY <1>2, <1>10 DEF RecordAbandon, At, HasPlan
  <2>2. PlansMayBecome(plans')
    BY <1>10, <2>1, SetPlanStep DEF RecordAbandon, PlanState
  <2>3. QED
    BY <1>10, <2>2, DoneStep, DataTypes DEF RecordAbandon, env, InboxTexts
<1>11. CASE DeleteOrphan(p)
  <2>1. files' \in [Cands \cup Targets -> Texts \cup {Note, None}] /\ InboxTexts'
    BY <1>11, FileWrite DEF DeleteOrphan
  <2>2. QED
    BY <1>3, <1>11, <2>1, DoneStep, DataTypes DEF DeleteOrphan, env
<1>12. ASSUME c \in Cands, cands' = [cands EXCEPT ![c].target = proc[p].target]
       PROVE  cands' \in [Cands -> Row]
  <2> DEFINE new == [row EXCEPT !.target = proc[p].target]
  <2>1. row \in Row
    BY <1>12, DataTypes
  <2>2. new \in Row
    BY <1>4, <2>1 DEF Row
  <2>3. cands' = [cands EXCEPT ![c] = new]
    BY <1>12, DataTypes
  <2>4. QED
    BY <2>2, <2>3, RowWrite
<1>13. ASSUME NEW l \in Plans, RecordPlan(p, l) PROVE VaultInv'
  <2>1. c \in Cands
    BY <1>2, <1>13 DEF RecordPlan, At, HasCandidate
  <2>2. NewPlan(p) \in Plan /\ NewPlan(p).cand \in Cands
    BY <1>2, <1>13, NewPlanType DEF RecordPlan, At
  <2>3. PlansMayBecome(plans')
    BY <1>3, <1>13, <2>2, InsertPlanStep, DataTypes DEF RecordPlan
  <2>4. cands' \in [Cands -> Row]
    BY <1>12, <1>13, <2>1 DEF RecordPlan
  <2>5. QED
    BY <1>13, <2>3, <2>4, DoneStep, DataTypes DEF RecordPlan, env, InboxTexts
<1>14. ASSUME NEW l \in Plans, RecordRetarget(p, l) PROVE VaultInv'
  <2> DEFINE old == SetPlan(proc[p].plan, "abandoned")
  <2>1. c \in Cands
    BY <1>2, <1>14 DEF RecordRetarget, At, HasCandidate
  <2>2. NewPlan(p) \in Plan /\ NewPlan(p).cand \in Cands
    BY <1>2, <1>14, NewPlanType DEF RecordRetarget, At
  <2>3. proc[p].plan \in Plans /\ plans[proc[p].plan].cand \in Cands
    BY <1>2, <1>14 DEF RecordRetarget, At, HasPlan
  <2>4. PlansMayBecome(old)
    BY <2>3, SetPlanStep DEF PlanState
  <2>5. old \in [Plans -> Plan]
    BY <2>4 DEF PlansMayBecome
  <2>6. plans' = [old EXCEPT ![l] = NewPlan(p)] /\ plans[l].state = "none"
    BY <1>14 DEF RecordRetarget
  <2> HIDE DEF old
  <2>7. PlansMayBecome(plans')
    BY <2>2, <2>4, <2>5, <2>6, InsertPlanStep
  <2>8. cands' \in [Cands -> Row]
    BY <1>12, <1>14, <2>1 DEF RecordRetarget
  <2>9. QED
    BY <1>14, <2>7, <2>8, DoneStep, DataTypes DEF RecordRetarget, env, InboxTexts
<1>15. QED
  BY <1>5, <1>6, <1>7, <1>8, <1>9, <1>10, <1>11, <1>13, <1>14 DEF Finish

\* The steps of promote(): the caller holds its claim until it returns.
LEMMA PromotionStep ==
  ASSUME VaultInv, NEW p \in Procs, Promotion(p)
  PROVE  VaultInv'
<1> DEFINE c == proc[p].cand
           l == proc[p].plan
<1>1. HasCandidate(proc[p]) /\ HasPlan(proc[p]) /\ HasClaim(proc[p])
  BY DEF VaultInv, CallersKnow
<1>2. proc[p].at \in Promoting
  BY DEF Promotion, LoadCandidate, RefuseCandidate, PassCheck, FindConflict,
         RecordConflict, MarkConflicted, ReadSource, PromoteRaises, WriteTarget,
         CommitPromotion, RollBackTarget, MarkFailed, RemoveSource, At, Promoting
<1>3. c \in Cands /\ l \in Plans /\ plans[l].cand \in Cands
  BY <1>1, <1>2 DEF HasCandidate, HasPlan, Promoting
<1>4. PlansMayBecome(plans)
  BY PlansStay
<1>5. ASSUME NEW point \in Promoting, Goto(p, point), PlansMayBecome(plans'),
             files' \in [Cands \cup Targets -> Texts \cup {Note, None}], InboxTexts',
             cands' \in [Cands -> Row],
             audit' \in [Plans -> SUBSET {"completed", "conflicted", "failed"}],
             UNCHANGED env
      PROVE  VaultInv'
  <2>1. PICK new \in Local : /\ proc' = [proc EXCEPT ![p] = new]
                             /\ HasCandidate(new) /\ HasPlan(new)
                             /\ new.at \in Promoting /\ new.plan = l
    BY <1>2, <1>5, GotoStep
  <2>2. MayContinue(proc[p], new, plans')
    BY <1>2, <2>1 DEF MayContinue
  <2>3. edits' \in Nat /\ crashes' \in Nat
    BY <1>5, DataTypes DEF env
  <2>4. QED
    BY <1>5, <2>1, <2>2, <2>3, CallerStep
<1>6. ASSUME NEW state, state \in {"conflicted", "active"},
             cands' = [cands EXCEPT ![c].state = state]
      PROVE  cands' \in [Cands -> Row]
  <2> DEFINE new == [cands[c] EXCEPT !.state = state]
  <2>1. cands[c] \in Row
    BY <1>3, DataTypes
  <2>2. new \in Row
    BY <1>6, <2>1 DEF Row
  <2>3. cands' = [cands EXCEPT ![c] = new]
    BY <1>3, <1>6, DataTypes
  <2>4. QED
    BY <2>2, <2>3, RowWrite
<1>7. ASSUME NEW event \in {"completed", "conflicted"},
             audit' = [audit EXCEPT ![l] = @ \cup {event}]
      PROVE  audit' \in [Plans -> SUBSET {"completed", "conflicted", "failed"}]
  BY <1>3, <1>7, DataTypes
<1>8. ASSUME UNCHANGED <<files, cands, plans, audit, env>>
      PROVE  /\ PlansMayBecome(plans')
             /\ files' \in [Cands \cup Targets -> Texts \cup {Note, None}] /\ InboxTexts'
             /\ cands' \in [Cands -> Row]
             /\ audit' \in [Plans -> SUBSET {"completed", "conflicted", "failed"}]
             /\ UNCHANGED env /\ edits' \in Nat /\ crashes' \in Nat
  BY <1>4, <1>8, DataTypes DEF InboxTexts, env
<1>9. CASE LoadCandidate(p) \/ PassCheck(p) \/ FindConflict(p)
  <2>1. \E point \in {"loaded", "checked", "conflicting"} : Goto(p, point)
    BY <1>9 DEF LoadCandidate, PassCheck, FindConflict
  <2>2. UNCHANGED <<files, cands, plans, audit, env>>
    BY <1>9 DEF LoadCandidate, PassCheck, FindConflict
  <2>3. QED
    BY <1>5, <1>8, <2>1, <2>2 DEF Promoting
<1>10. CASE RefuseCandidate(p) \/ PromoteRaises(p)
  <2>1. Done(p) /\ UNCHANGED <<files, cands, plans, audit, env>>
    BY <1>10 DEF RefuseCandidate, PromoteRaises
  <2>2. QED
    BY <1>8, <2>1, DoneStep
<1>11. CASE RecordConflict(p)
  <2>1. cands' \in [Cands -> Row]
    BY <1>6, <1>11 DEF RecordConflict
  <2>2. audit' \in [Plans -> SUBSET {"completed", "conflicted", "failed"}]
    BY <1>7, <1>11 DEF RecordConflict
  <2>3. QED
    BY <1>4, <1>5, <1>11, <2>1, <2>2, DataTypes DEF RecordConflict, InboxTexts, Promoting
<1>12. CASE MarkConflicted(p)
  <2>1. PlansMayBecome(plans')
    BY <1>3, <1>12, SetPlanStep DEF MarkConflicted, PlanState
  <2>2. QED
    BY <1>12, <2>1, DoneStep, DataTypes DEF MarkConflicted, env, InboxTexts
<1>13. CASE ReadSource(p)
  <2> DEFINE new == [proc[p] EXCEPT !.at = "read", !.text = files[c]]
  <2>1. proc[p] \in Local
    BY DataTypes
  <2>2. files[c] \in Texts \cup {None}
    BY <1>3, DataTypes DEF InboxTexts
  <2>3. /\ new \in Local /\ new.at = "read" /\ new.plan = l /\ new.cand = c
    BY <2>1, <2>2 DEF Local, Points
  <2>4. HasCandidate(new) /\ HasPlan(new) /\ new.at \in Promoting
    BY <1>3, <2>3 DEF HasCandidate, HasPlan, Promoting
  <2>5. proc' = [proc EXCEPT ![p] = new]
    BY <1>13 DEF ReadSource
  <2>6. UNCHANGED <<files, cands, plans, audit, env>>
    BY <1>13 DEF ReadSource
  <2>7. UNCHANGED <<plans, env>>
    BY <2>6
  <2> HIDE DEF new
  <2>8. QED
    BY <1>2, <1>8, <2>3, <2>4, <2>5, <2>6, <2>7, MoveStep
<1>14. CASE WriteTarget(p)
  <2>1. proc[p].text \in Texts \cup {None}
    BY DataTypes DEF Local
  <2>2. files' \in [Cands \cup Targets -> Texts \cup {Note, None}] /\ InboxTexts'
    BY <1>14, <2>1, FileWrite DEF WriteTarget
  <2>3. QED
    BY <1>4, <1>5, <1>14, <2>2, DataTypes DEF WriteTarget, Promoting
<1>15. CASE CommitPromotion(p)
  <2>1. cands' \in [Cands -> Row]
    BY <1>6, <1>15 DEF CommitPromotion
  <2>2. audit' \in [Plans -> SUBSET {"completed", "conflicted", "failed"}]
    BY <1>7, <1>15 DEF CommitPromotion
  <2>3. PlansMayBecome(plans')
    BY <1>3, <1>15, SetPlanStep DEF CommitPromotion, PlanState
  <2>4. QED
    BY <1>5, <1>15, <2>1, <2>2, <2>3, DataTypes DEF CommitPromotion, InboxTexts, Promoting
<1>16. CASE RollBackTarget(p)
  <2>1. files' \in [Cands \cup Targets -> Texts \cup {Note, None}] /\ InboxTexts'
    BY <1>16, FileWrite DEF RollBackTarget
  <2>2. QED
    BY <1>4, <1>5, <1>16, <2>1, DataTypes DEF RollBackTarget, Promoting
<1>17. CASE MarkFailed(p)
  <2>1. PlansMayBecome(plans')
    BY <1>3, <1>17, SetPlanStep DEF MarkFailed, PlanState
  <2>2. QED
    BY <1>17, <2>1, DoneStep, DataTypes DEF MarkFailed, env, InboxTexts
<1>18. CASE RemoveSource(p)
  <2>1. files' \in [Cands \cup Targets -> Texts \cup {Note, None}] /\ InboxTexts'
    BY <1>18, FileWrite, DataTypes DEF RemoveSource, InboxTexts
  <2>2. QED
    BY <1>4, <1>18, <2>1, DoneStep, DataTypes DEF RemoveSource, env
<1>19. QED
  BY <1>9, <1>10, <1>11, <1>12, <1>13, <1>14, <1>15, <1>16, <1>17, <1>18 DEF Promotion

LEMMA UserStep ==
  ASSUME VaultInv, User
  PROVE  VaultInv'
<1>1. files' \in [Cands \cup Targets -> Texts \cup {Note, None}] /\ InboxTexts'
  <2>1. ASSUME NEW c \in Cands, NEW text \in Texts, EditCandidate(c, text)
        PROVE  files' \in [Cands \cup Targets -> Texts \cup {Note, None}] /\ InboxTexts'
    BY <2>1, FileWrite DEF EditCandidate
  <2>2. ASSUME NEW target \in Targets, WriteNote(target)
        PROVE  files' \in [Cands \cup Targets -> Texts \cup {Note, None}] /\ InboxTexts'
    BY <2>2, DataTypes, NamesAssumption DEF WriteNote, InboxTexts
  <2>3. QED
    BY <2>1, <2>2 DEF User
<1>2. UNCHANGED <<cands, plans, audit, proc, crashes>> /\ edits' \in Nat
  BY DataTypes DEF User, EditCandidate, WriteNote
<1>3. TypeOK'
  BY <1>1, <1>2 DEF VaultInv, TypeOK
<1>4. PlansNamed' /\ CallersKnow' /\ ClaimExclusive'
  BY <1>2 DEF VaultInv, PlansNamed, CallersKnow, HasCandidate, HasPlan, HasClaim,
              ClaimExclusive
<1>5. QED
  BY <1>1, <1>3, <1>4 DEF VaultInv

LEMMA NextStep ==
  ASSUME VaultInv, [Next]_vars
  PROVE  VaultInv'
<1>1. ASSUME NEW p \in Procs, Crash(p) PROVE VaultInv'
  <2>1. PlansMayBecome(plans)
    BY PlansStay
  <2>2. QED
    BY <1>1, <2>1, DoneStep, DataTypes DEF Crash, InboxTexts
<1>2. CASE UNCHANGED vars
  BY <1>2 DEF vars, VaultInv, TypeOK, InboxTexts, PlansNamed, CallersKnow,
              HasCandidate, HasPlan, HasClaim, ClaimExclusive
<1>3. QED
  BY <1>1, <1>2, StartStep, FinishStep, PromotionStep, UserStep DEF Next

\* VaultInv holds in every reachable state of the vault writer.
THEOREM VaultSafety == Spec => []VaultInv
BY InitInv, NextStep, PTL DEF Spec

\* Every variable keeps its type: no function of vault_writer.py writes a row with a
\* missing candidate, or a text that is not a candidate's into the inbox.
THEOREM TypeCorrect == Spec => []TypeOK
<1>1. VaultInv => TypeOK
  BY DEF VaultInv
<1>2. QED
  BY <1>1, VaultSafety, PTL

\* No plan is promoted by two callers at once (the claim in promote()).
THEOREM ClaimExclusiveAlways == Spec => []ClaimExclusive
<1>1. VaultInv => ClaimExclusive
  BY DEF VaultInv
<1>2. QED
  BY <1>1, VaultSafety, PTL

=============================================================================
