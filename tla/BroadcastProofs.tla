--------------------------- MODULE BroadcastProofs ---------------------------
(***************************************************************************)
(* Theorems about Broadcast, for any processes, users, page size, and any  *)
(* number of broadcasts, changes of table users, crashes and failures.     *)
(* The last one: the processes implement DeliveryQueue.                    *)
(***************************************************************************)
EXTENDS Broadcast, FiniteSetTheorems, WellFoundedInduction, TLAPS

----------------------------------------------------------------------------
(* Places in the recipient list: ORDER BY id and OFFSET.                   *)

\* How many recipients are listed before u.
Below(M, u) == Cardinality({v \in M : v < u})

\* Among some ids one is the least.
LEMMA LeastMember ==
    ASSUME NEW S \in SUBSET Nat, S # {}
    PROVE  \E m \in S : \A x \in S : m <= x
<1>1. PICK m \in S : \A x \in S : <<x, m>> \notin OpToRel(<, Nat)
  BY WFMin, NatLessThanWellFounded
<1>2. \A x \in S : ~(x < m)
  BY <1>1 DEF OpToRel
<1> QED
  BY <1>2

\* Among finitely many ids below a bound one is the greatest.
LEMMA GreatestMember ==
    ASSUME NEW w \in Nat, NEW S \in SUBSET Nat, S # {}, \A x \in S : x < w
    PROVE  \E m \in S : \A x \in S : x <= m
<1> DEFINE T == {w - x : x \in S}
<1>1. T \in SUBSET Nat /\ T # {}
  <2>1. \A x \in S : x \in Nat /\ w - x \in Nat
    OBVIOUS
  <2> QED
    BY <2>1
<1>2. PICK t \in T : \A y \in T : t <= y
  BY <1>1, LeastMember
<1>3. PICK m \in S : t = w - m
  BY <1>2
<1>4. \A x \in S : w - x \in T
  OBVIOUS
<1>5. \A x \in S : w - m <= w - x
  BY <1>2, <1>3, <1>4
<1> QED
  BY <1>5

\* The place of a user is a number, and the users before it are finitely many.
LEMMA BelowType ==
    ASSUME NEW M \in SUBSET Nat, IsFiniteSet(M), NEW u
    PROVE  Below(M, u) \in Nat /\ IsFiniteSet({v \in M : v < u})
BY FS_Subset, FS_CardinalityType, {v \in M : v < u} \in SUBSET M DEF Below

\* With fewer recipients everybody moves forward or stays.
LEMMA BelowShrinks ==
    ASSUME NEW M \in SUBSET Nat, IsFiniteSet(M), NEW L, NEW u,
           \A v \in L : v < u => v \in M
    PROVE  Below(L, u) \in Nat /\ Below(L, u) <= Below(M, u)
<1>1. {v \in L : v < u} \in SUBSET {v \in M : v < u}
  OBVIOUS
<1>2. IsFiniteSet({v \in M : v < u})
  BY BelowType
<1> QED
  BY <1>1, <1>2, FS_Subset, FS_CardinalityType DEF Below

\* Places follow the ids.
LEMMA BelowFollows ==
    ASSUME NEW M \in SUBSET Nat, IsFiniteSet(M), NEW u \in Nat, NEW w \in Nat, u <= w
    PROVE  Below(M, u) <= Below(M, w)
<1>1. {v \in M : v < u} \in SUBSET {v \in M : v < w}
  <2>1. \A v \in M : v \in Nat
    OBVIOUS
  <2>2. \A v \in Nat : v < u => v < w
    OBVIOUS
  <2> QED
    BY <2>1, <2>2
<1>2. IsFiniteSet({v \in M : v < w})
  BY BelowType
<1> QED
  BY <1>1, <1>2, FS_Subset DEF Below

\* Two recipients have different places.
LEMMA BelowDiffers ==
    ASSUME NEW M \in SUBSET Nat, IsFiniteSet(M), NEW u \in M, NEW w \in Nat, u < w
    PROVE  Below(M, u) < Below(M, w)
<1> DEFINE S == {v \in M : v < u}
<1>1. S \cup {u} \in SUBSET {v \in M : v < w}
  <2>1. u \in Nat /\ \A v \in M : v \in Nat
    OBVIOUS
  <2>2. \A v \in Nat : v < u => v < w
    BY <2>1
  <2> QED
    BY <2>1, <2>2
<1>2. IsFiniteSet({v \in M : v < w}) /\ IsFiniteSet(S) /\ u \notin S
  BY BelowType
<1>3. Cardinality(S) \in Nat /\ Cardinality(S \cup {u}) = Cardinality(S) + 1
  BY <1>2, FS_AddElement, FS_CardinalityType
<1>4. Cardinality(S \cup {u}) <= Below(M, w) /\ Below(M, w) \in Nat
  BY <1>1, <1>2, FS_Subset, BelowType DEF Below
<1> QED
  BY <1>3, <1>4 DEF Below

\* The next id is at most one place further.
LEMMA BelowNext ==
    ASSUME NEW M \in SUBSET Nat, IsFiniteSet(M), NEW u \in Nat, NEW w \in Nat,
           \A v \in M : ~(u < v /\ v < w)
    PROVE  Below(M, w) <= Below(M, u) + 1
<1> DEFINE S == {v \in M : v < u}
<1>1. {v \in M : v < w} \in SUBSET (S \cup {u})
  <2>1. \A v \in M : v \in Nat
    OBVIOUS
  <2>2. \A v \in M : v < w => v < u \/ v = u
    BY <2>1
  <2> QED
    BY <2>2
<1>2. IsFiniteSet(S) /\ IsFiniteSet(S \cup {u})
  BY BelowType, FS_AddElement
<1>3. Cardinality(S) \in Nat /\ Cardinality(S \cup {u}) <= Cardinality(S) + 1
  <2>1. Cardinality(S) \in Nat
    BY <1>2, FS_CardinalityType
  <2>2. Cardinality(S \cup {u}) = IF u \in S THEN Cardinality(S) ELSE Cardinality(S) + 1
    BY <1>2, FS_AddElement
  <2> HIDE DEF S
  <2> QED
    BY <2>1, <2>2
<1>4. Below(M, w) <= Cardinality(S \cup {u}) /\ Below(M, w) \in Nat
  BY <1>1, <1>2, FS_Subset, BelowType DEF Below
<1>5. Cardinality(S \cup {u}) \in Nat
  BY <1>2, FS_CardinalityType
<1> QED
  BY <1>3, <1>4, <1>5 DEF Below

\* No place before that of a recipient is empty.
LEMMA PlaceTaken ==
    ASSUME NEW M \in SUBSET Nat, IsFiniteSet(M), NEW u \in M, NEW k \in Nat,
           k <= Below(M, u)
    PROVE  \E w \in M : w <= u /\ Below(M, w) = k
<1> DEFINE Later == {v \in M : k <= Below(M, v)}
<1>1. PICK w \in Later : \A x \in Later : w <= x
  <2>1. Later \in SUBSET Nat /\ Later # {}
    OBVIOUS
  <2> QED
    BY <2>1, LeastMember
<1>2. w \in M /\ w \in Nat /\ k <= Below(M, w) /\ Below(M, w) \in Nat /\ w <= u
  BY <1>1, BelowType
<1>3. ASSUME k < Below(M, w) PROVE FALSE
  <2> DEFINE S == {v \in M : v < w}
  <2>1. S \in SUBSET Nat /\ IsFiniteSet(S) /\ S # {}
    <3>1. IsFiniteSet(S) /\ Cardinality(S) # 0
      BY <1>2, <1>3, BelowType DEF Below
    <3> QED
      BY <3>1, FS_EmptySet
  <2>2. PICK m \in S : \A x \in S : x <= m
    BY <1>2, <2>1, GreatestMember
  <2>3. \A v \in M : ~(m < v /\ v < w)
    BY <2>2
  <2>4. Below(M, w) <= Below(M, m) + 1 /\ Below(M, m) \in Nat
    BY <1>2, <2>2, <2>3, BelowNext, BelowType
  <2>5. m \in Later
    BY <1>2, <1>3, <2>2, <2>4
  <2> QED
    BY <1>1, <1>2, <2>2, <2>5
<1> QED
  BY <1>2, <1>3

\* Who comes after a whole page is that many places further.
LEMMA AfterPage ==
    ASSUME NEW M \in SUBSET Nat, IsFiniteSet(M), NEW P \in SUBSET M, NEW u \in Nat,
           NEW first \in Nat, \A v \in P : first <= v /\ v < u, first < u
    PROVE  Below(M, first) + Cardinality(P) <= Below(M, u) /\ Cardinality(P) \in Nat
<1> DEFINE S == {v \in M : v < first}
<1>1. S \cup P \in SUBSET {v \in M : v < u} /\ S \cap P = {}
  <2>1. \A v \in M : v \in Nat
    OBVIOUS
  <2>2. \A v \in Nat : v < first => v < u /\ ~(first <= v)
    OBVIOUS
  <2> QED
    BY <2>1, <2>2
<1>2. IsFiniteSet(S) /\ IsFiniteSet(P) /\ IsFiniteSet({v \in M : v < u})
  BY BelowType, FS_Subset
<1>3. Cardinality(S \cup P) = Cardinality(S) + Cardinality(P)
  <2>1. /\ Cardinality(S \cup P)
              = Cardinality(S) + Cardinality(P) - Cardinality(S \cap P)
    BY <1>2, FS_Union
  <2>2. Cardinality(S \cap P) = 0
    BY <1>1, FS_EmptySet
  <2>3. Cardinality(S) \in Nat /\ Cardinality(P) \in Nat
    BY <1>2, FS_CardinalityType
  <2> HIDE DEF S
  <2> QED
    BY <2>1, <2>2, <2>3
<1>4. Cardinality(S \cup P) <= Below(M, u)
  BY <1>1, <1>2, FS_Subset DEF Below
<1> QED
  BY <1>2, <1>3, <1>4, FS_CardinalityType DEF Below

----------------------------------------------------------------------------
(* Types, and what a process holds where.                                  *)

\* The locals of processNext at each point of it.
Shape(n) ==
    /\ bpc[n] \in {"down", "idle"} => loc[n] = NoLocals
    /\ bpc[n] \notin {"down", "idle"} => loc[n].job \in DOMAIN jobs
    /\ bpc[n] \in {"picked", "count"} => loc[n] = [NoLocals EXCEPT !.job = loc[n].job]
    /\ bpc[n] \in {"send", "record"} <=> loc[n].todo # {}

ShapeInv == TypeOK /\ \A n \in Nodes : Shape(n)

\* Only n moves.
Alone(n) == \A m \in Nodes \ {n} : bpc'[m] = bpc[m] /\ loc'[m] = loc[m]

\* The rows of admin_broadcasts.
LEMMA JobsType ==
    ASSUME TypeOK
    PROVE  /\ Len(jobs) \in Nat /\ DOMAIN jobs = 1..Len(jobs)
           /\ DOMAIN jobs \subseteq JobIds
           /\ \A j \in DOMAIN jobs : /\ jobs[j] \in Job /\ jobs[j].spec \in TargetType
                                     /\ jobs[j].status \in Status
                                     /\ jobs[j].ok \in Nat /\ jobs[j].bad \in Nat
<1>1. jobs \in Seq(Job) /\ Len(jobs) <= MaxJobs /\ MaxJobs \in Nat
  BY BroadcastAssumption DEF TypeOK
<1>2. Len(jobs) \in Nat /\ DOMAIN jobs = 1..Len(jobs) /\ \A j \in DOMAIN jobs : jobs[j] \in Job
  BY <1>1
<1>3. DOMAIN jobs \subseteq JobIds
  BY <1>1, <1>2 DEF JobIds
<1> QED
  BY <1>2, <1>3 DEF Job

\* A statement that rewrites rows adds and loses none.
LEMMA JobsRewritten ==
    ASSUME TypeOK, NEW f \in [DOMAIN jobs -> Job]
    PROVE  f \in Seq(Job) /\ Len(f) = Len(jobs) /\ DOMAIN f = DOMAIN jobs
BY JobsType

\* The locals of a process, field by field.
LEMMA LocalTypes ==
    ASSUME TypeOK, NEW n \in Nodes
    PROVE  /\ loc[n] \in Locals /\ bpc[n] \in BroadcastPC
           /\ loc[n].job \in JobIds \cup {0} /\ loc[n].offset \in Nat
           /\ loc[n].todo \subseteq Users /\ loc[n].result \in BOOLEAN
           /\ loc[n].ok \in Nat /\ loc[n].bad \in Nat
           /\ loc[n].tried \subseteq Users /\ loc[n].begun \subseteq Users
BY DEF TypeOK, Locals

\* A process that works for no broadcast has nothing.
LEMMA NothingHeld ==
    /\ NoLocals \in Locals /\ NoLocals.job = 0 /\ NoLocals.offset = 0 /\ NoLocals.todo = {}
    /\ ~NoLocals.result /\ NoLocals.ok = 0 /\ NoLocals.bad = 0
    /\ NoLocals.tried = {} /\ NoLocals.begun = {}
BY DEF NoLocals, Locals

\* A step of a process replaces its own locals.
LEMMA OwnStep ==
    ASSUME TypeOK, NEW n \in Nodes, NEW l \in Locals, loc' = [loc EXCEPT ![n] = l],
           NEW there \in BroadcastPC, Goto(n, there)
    PROVE  /\ bpc' \in [Nodes -> BroadcastPC] /\ loc' \in [Nodes -> Locals]
           /\ Alone(n) /\ bpc'[n] = there /\ loc'[n] = l
BY DEF TypeOK, Goto, Alone

\* The other processes do not notice, as no broadcast disappears.
LEMMA OthersKeepShape ==
    ASSUME ShapeInv, NEW n \in Nodes, Alone(n), DOMAIN jobs \subseteq DOMAIN jobs',
           Shape(n)', TypeOK'
    PROVE  ShapeInv'
<1>1. ASSUME NEW m \in Nodes \ {n} PROVE Shape(m)'
  <2>1. Shape(m) /\ bpc'[m] = bpc[m] /\ loc'[m] = loc[m]
    BY DEF ShapeInv, Alone
  <2> QED
    BY <2>1 DEF Shape
<1> QED
  BY <1>1 DEF ShapeInv

\* Recipients are users.
LEMMA MatchingType ==
    ASSUME TypeOK, NEW target \in TargetType
    PROVE  /\ Matching(target) \in SUBSET Users /\ Matching(target) \in SUBSET Nat
           /\ IsFiniteSet(Matching(target))
<1>1. Matching(target) \in SUBSET Users
  BY BroadcastAssumption DEF Matching, TypeOK, TargetType
<1> QED
  BY <1>1, BroadcastAssumption, FS_Subset

\* A page holds recipients only.
LEMMA PageType ==
    ASSUME TypeOK, NEW target \in TargetType, NEW offset \in Nat
    PROVE  /\ Page(target, offset) \in SUBSET Matching(target)
           /\ \A u \in Matching(target) :
                 u \in Page(target, offset) <=>
                    /\ offset <= Below(Matching(target), u)
                    /\ Below(Matching(target), u) < offset + BatchSize
BY DEF Page, Below

----------------------------------------------------------------------------
(* The steps, one after the other: what each changes and leaves alone.     *)

\* Everything but the processes.
tableVars == <<userVars, jobs, rows, received, resets>>

\* A process starts: ResetRunningBroadcasts.
LEMMA StartEffect ==
    ASSUME ShapeInv, NEW n \in Nodes, Start(n)
    PROVE  /\ ShapeInv'
           /\ bpc[n] = "down" /\ bpc'[n] = "idle" /\ Alone(n) /\ loc' = loc
           /\ UNCHANGED <<userVars, rows, received>>
           /\ DOMAIN jobs' = DOMAIN jobs
           /\ \A j \in DOMAIN jobs :
                 /\ jobs'[j].spec = jobs[j].spec
                 /\ jobs'[j].ok = jobs[j].ok /\ jobs'[j].bad = jobs[j].bad
                 /\ Running(j) => /\ jobs'[j].status = "pending"
                                  /\ resets'[j] = resets[j] + 1
                 /\ ~Running(j) => /\ jobs'[j].status = jobs[j].status
                                   /\ resets'[j] = resets[j]
           /\ \A j \in JobIds \ DOMAIN jobs : resets'[j] = resets[j]
<1>1. TypeOK /\ Shape(n)
  BY DEF ShapeInv
<1>2. ASSUME NEW j \in DOMAIN jobs
      PROVE  /\ jobs'[j] \in Job /\ jobs'[j].spec = jobs[j].spec
             /\ jobs'[j].ok = jobs[j].ok /\ jobs'[j].bad = jobs[j].bad
             /\ Running(j) => jobs'[j].status = "pending"
             /\ ~Running(j) => jobs'[j].status = jobs[j].status
  <2>1. jobs'[j] = Requeued(j) /\ jobs[j] \in Job
    BY <1>1, <1>2, JobsType DEF Start
  <2> QED
    BY <2>1 DEF Requeued, Job, Status
<1>3. jobs' \in [DOMAIN jobs -> Job]
  BY <1>2 DEF Start
<1>4. jobs' \in Seq(Job) /\ Len(jobs') = Len(jobs) /\ DOMAIN jobs' = DOMAIN jobs
  BY <1>1, <1>3, JobsRewritten
<1>5. ASSUME NEW j \in JobIds
      PROVE  /\ resets'[j] \in Nat
             /\ j \in DOMAIN jobs /\ Running(j) => resets'[j] = resets[j] + 1
             /\ ~(j \in DOMAIN jobs /\ Running(j)) => resets'[j] = resets[j]
  BY <1>1, <1>5 DEF Start, TypeOK
<1>11. resets' \in [JobIds -> Nat]
  BY <1>5 DEF Start
<1>12. DOMAIN jobs \subseteq JobIds
  BY <1>1, JobsType
<1>6. /\ bpc[n] = "down" /\ bpc'[n] = "idle" /\ Alone(n) /\ loc' = loc
      /\ bpc' \in [Nodes -> BroadcastPC]
      /\ UNCHANGED <<userVars, rows, received, crashes, errors>>
  BY <1>1 DEF Start, Goto, Alone, TypeOK, BroadcastPC
<1>7. TypeOK'
  BY <1>1, <1>4, <1>6, <1>11 DEF TypeOK, userVars
<1>8. Shape(n)'
  BY <1>1, <1>6, NothingHeld DEF Shape
<1>9. ShapeInv'
  BY <1>4, <1>6, <1>7, <1>8, OthersKeepShape
<1>10. \A j \in DOMAIN jobs :
          /\ jobs'[j].spec = jobs[j].spec
          /\ jobs'[j].ok = jobs[j].ok /\ jobs'[j].bad = jobs[j].bad
          /\ Running(j) => jobs'[j].status = "pending" /\ resets'[j] = resets[j] + 1
          /\ ~Running(j) => jobs'[j].status = jobs[j].status /\ resets'[j] = resets[j]
  <2> TAKE j \in DOMAIN jobs
  <2>1. j \in JobIds
    BY <1>12
  <2> QED
    BY <1>2, <1>5, <2>1
<1> QED
  BY <1>4, <1>5, <1>6, <1>9, <1>10

\* The oldest pending broadcast is picked.
LEMMA PickEffect ==
    ASSUME ShapeInv, NEW n \in Nodes, Pick(n)
    PROVE  /\ ShapeInv' /\ Alone(n) /\ UNCHANGED tableVars
           /\ bpc[n] = "idle" /\ bpc'[n] = "picked"
           /\ loc'[n].todo = {} /\ loc'[n].tried = {}
<1>1. TypeOK /\ Shape(n) /\ bpc[n] = "idle" /\ loc[n] = NoLocals
  BY DEF ShapeInv, Shape, Pick
<1>2. PICK j \in DOMAIN jobs : loc' = [loc EXCEPT ![n].job = j]
  BY DEF Pick
<1> DEFINE l == [NoLocals EXCEPT !.job = j]
<1>3. l \in Locals /\ l.job = j /\ l.todo = {} /\ l.tried = {} /\ l = [NoLocals EXCEPT !.job = l.job]
  BY <1>1, <1>2, JobsType DEF NoLocals, Locals
<1>4. loc' = [loc EXCEPT ![n] = l]
  BY <1>1, <1>2 DEF TypeOK
<1> HIDE DEF l
<1>5. /\ bpc' \in [Nodes -> BroadcastPC] /\ loc' \in [Nodes -> Locals]
      /\ Alone(n) /\ bpc'[n] = "picked" /\ loc'[n] = l
  BY <1>1, <1>3, <1>4, OwnStep DEF Pick, BroadcastPC
<1>6. UNCHANGED tableVars /\ UNCHANGED <<crashes, errors>>
  BY DEF Pick, tableVars
<1>7. TypeOK' /\ Shape(n)'
  BY <1>1, <1>3, <1>5, <1>6 DEF TypeOK, tableVars, userVars, Shape
<1> QED
  BY <1>1, <1>3, <1>5, <1>6, <1>7, OthersKeepShape DEF tableVars

\* The claim succeeds: the row's status was pending and is running.
LEMMA ClaimWinsEffect ==
    ASSUME ShapeInv, NEW n \in Nodes, ClaimWins(n)
    PROVE  /\ ShapeInv' /\ Alone(n) /\ loc' = loc
           /\ bpc[n] = "picked" /\ bpc'[n] = "count"
           /\ UNCHANGED <<userVars, rows, received, resets>>
           /\ loc[n].job \in DOMAIN jobs /\ DOMAIN jobs' = DOMAIN jobs
           /\ loc[n] = [NoLocals EXCEPT !.job = loc[n].job]
           /\ Pending(loc[n].job) /\ jobs'[loc[n].job].status = "running"
           /\ \A j \in DOMAIN jobs :
                 /\ jobs'[j].spec = jobs[j].spec
                 /\ jobs'[j].ok = jobs[j].ok /\ jobs'[j].bad = jobs[j].bad
                 /\ j # loc[n].job => jobs'[j] = jobs[j]
<1>1. /\ TypeOK /\ Shape(n) /\ bpc[n] = "picked" /\ loc[n].job \in DOMAIN jobs
      /\ loc[n] = [NoLocals EXCEPT !.job = loc[n].job]
  BY DEF ShapeInv, Shape, ClaimWins
<1>2. /\ bpc' \in [Nodes -> BroadcastPC] /\ Alone(n) /\ bpc'[n] = "count" /\ loc' = loc
      /\ UNCHANGED <<userVars, rows, received, resets, crashes, errors>>
      /\ Pending(loc[n].job)
  BY <1>1 DEF ClaimWins, Claimable, Goto, Alone, TypeOK, BroadcastPC
<1>3. /\ jobs' = [jobs EXCEPT ![loc[n].job] = [jobs[loc[n].job] EXCEPT !.status = "running"]]
      /\ jobs[loc[n].job] \in Job
  BY <1>1, JobsType DEF ClaimWins
<1>4. [jobs[loc[n].job] EXCEPT !.status = "running"] \in Job
  BY <1>3 DEF Job, Status
<1>5. jobs' \in [DOMAIN jobs -> Job]
  BY <1>1, <1>3, <1>4, JobsType
<1>6. jobs' \in Seq(Job) /\ Len(jobs') = Len(jobs) /\ DOMAIN jobs' = DOMAIN jobs
  BY <1>1, <1>5, JobsRewritten
<1>7. /\ jobs'[loc[n].job].status = "running"
      /\ \A j \in DOMAIN jobs :
            /\ jobs'[j].spec = jobs[j].spec
            /\ jobs'[j].ok = jobs[j].ok /\ jobs'[j].bad = jobs[j].bad
            /\ j # loc[n].job => jobs'[j] = jobs[j]
  BY <1>1, <1>3 DEF Job
<1>8. TypeOK' /\ Shape(n)'
  BY <1>1, <1>2, <1>6 DEF TypeOK, userVars, Shape
<1> QED
  BY <1>1, <1>2, <1>6, <1>7, <1>8, OthersKeepShape

\* The process gives its broadcast up and holds nothing any more.
LEMMA LeavesEffect ==
    ASSUME ShapeInv, NEW n \in Nodes, NEW there \in {"idle", "down"}, Leave(n, there)
    PROVE  /\ Alone(n) /\ bpc'[n] = there /\ loc'[n] = NoLocals
           /\ bpc' \in [Nodes -> BroadcastPC] /\ loc' \in [Nodes -> Locals]
           /\ Shape(n)'
<1>1. TypeOK /\ there \in BroadcastPC
  BY DEF ShapeInv, BroadcastPC
<1>2. /\ bpc' \in [Nodes -> BroadcastPC] /\ loc' \in [Nodes -> Locals]
      /\ Alone(n) /\ bpc'[n] = there /\ loc'[n] = NoLocals
  BY <1>1, NothingHeld, OwnStep DEF Leave
<1> QED
  BY <1>2, NothingHeld DEF Shape

\* The claim is lost, or the process dies.
LEMMA GivesUpEffect ==
    ASSUME ShapeInv, NEW n \in Nodes, ClaimLoses(n) \/ Crash(n)
    PROVE  /\ ShapeInv' /\ Alone(n) /\ UNCHANGED tableVars
           /\ bpc'[n] \in {"idle", "down"} /\ loc'[n] = NoLocals
<1>1. PICK there \in {"idle", "down"} : Leave(n, there)
  BY DEF ClaimLoses, Crash
<1>2. /\ Alone(n) /\ bpc'[n] = there /\ loc'[n] = NoLocals
      /\ bpc' \in [Nodes -> BroadcastPC] /\ loc' \in [Nodes -> Locals] /\ Shape(n)'
  BY <1>1, LeavesEffect
<1>3. UNCHANGED tableVars /\ errors' = errors /\ crashes' \in Nat
  BY DEF ClaimLoses, Crash, tableVars, ShapeInv, TypeOK
<1>4. TypeOK'
  BY <1>2, <1>3 DEF ShapeInv, TypeOK, tableVars, userVars
<1> QED
  BY <1>2, <1>3, <1>4, OthersKeepShape DEF tableVars

\* The broadcast a process has claimed, and its target.
LEMMA ClaimedJob ==
    ASSUME ShapeInv, NEW n \in Nodes, Claimed(n)
    PROVE  /\ loc[n].job \in DOMAIN jobs /\ loc[n].job \in JobIds
           /\ jobs[loc[n].job] \in Job
           /\ TargetOf(n) = jobs[loc[n].job].spec /\ TargetOf(n) \in TargetType
           /\ bpc[n] # "picked"
BY JobsType DEF ShapeInv, Shape, Claimed, TargetOf

\* CountRecipients, at the start of a run.
LEMMA CountEffect ==
    ASSUME ShapeInv, NEW n \in Nodes, Count(n)
    PROVE  /\ ShapeInv' /\ Alone(n) /\ UNCHANGED tableVars
           /\ bpc[n] = "count" /\ bpc'[n] \in {"abort", "list"}
           /\ loc'[n].job = loc[n].job /\ loc'[n].offset = 0 /\ loc'[n].todo = {}
           /\ loc'[n].ok = 0 /\ loc'[n].bad = 0 /\ loc'[n].tried = {}
           /\ loc'[n].begun = Matching(TargetOf(n))
<1>1. /\ TypeOK /\ Shape(n) /\ bpc[n] = "count" /\ Claimed(n)
      /\ loc[n] = [NoLocals EXCEPT !.job = loc[n].job]
  BY DEF ShapeInv, Shape, Count, Claimed
<1>2. loc[n].job \in DOMAIN jobs /\ Matching(TargetOf(n)) \subseteq Users
  BY <1>1, ClaimedJob, MatchingType
<1> DEFINE l == [loc[n] EXCEPT !.begun = Matching(TargetOf(n))]
<1>3. /\ l \in Locals /\ l.job = loc[n].job /\ l.offset = 0 /\ l.todo = {}
      /\ l.ok = 0 /\ l.bad = 0 /\ l.tried = {} /\ l.begun = Matching(TargetOf(n))
  BY <1>1, <1>2, LocalTypes DEF NoLocals, Locals
<1>4. PICK there \in {"abort", "list"} : Goto(n, there)
  BY DEF Count
<1>5. loc' = [loc EXCEPT ![n] = l]
  BY <1>1 DEF Count, TypeOK
<1> HIDE DEF l
<1>6. /\ bpc' \in [Nodes -> BroadcastPC] /\ loc' \in [Nodes -> Locals]
      /\ Alone(n) /\ bpc'[n] = there /\ loc'[n] = l
  BY <1>1, <1>3, <1>4, <1>5, OwnStep DEF BroadcastPC
<1>7. UNCHANGED tableVars /\ UNCHANGED <<crashes, errors>>
  BY DEF Count, tableVars
<1>8. TypeOK' /\ Shape(n)'
  BY <1>1, <1>2, <1>3, <1>6, <1>7 DEF TypeOK, tableVars, userVars, Shape
<1> QED
  BY <1>1, <1>3, <1>6, <1>7, <1>8, OthersKeepShape DEF tableVars

\* ListRecipients: the next page.
LEMMA ListEffect ==
    ASSUME ShapeInv, NEW n \in Nodes, List(n)
    PROVE  /\ ShapeInv' /\ Alone(n) /\ UNCHANGED tableVars
           /\ bpc[n] = "list" /\ loc[n].todo = {}
           /\ loc'[n].todo = Page(TargetOf(n), loc[n].offset)
           /\ bpc'[n] = IF loc'[n].todo = {} THEN "finish" ELSE "send"
           /\ loc'[n].job = loc[n].job /\ loc'[n].offset = loc[n].offset
           /\ loc'[n].ok = loc[n].ok /\ loc'[n].bad = loc[n].bad
           /\ loc'[n].tried = loc[n].tried /\ loc'[n].begun = loc[n].begun
<1>1. TypeOK /\ Shape(n) /\ bpc[n] = "list" /\ Claimed(n)
  BY DEF ShapeInv, List, Claimed
<1> DEFINE page == Page(TargetOf(n), loc[n].offset)
           l == [loc[n] EXCEPT !.todo = page]
<1>2. loc[n].job \in DOMAIN jobs /\ page \subseteq Users
  BY <1>1, ClaimedJob, MatchingType, PageType, LocalTypes
<1>3. /\ l \in Locals /\ l.todo = page /\ l.job = loc[n].job /\ l.offset = loc[n].offset
      /\ l.ok = loc[n].ok /\ l.bad = loc[n].bad
      /\ l.tried = loc[n].tried /\ l.begun = loc[n].begun
  BY <1>1, <1>2, LocalTypes DEF Locals
<1>4. loc' = [loc EXCEPT ![n] = l] /\ Goto(n, IF page = {} THEN "finish" ELSE "send")
  BY <1>1 DEF List, TypeOK
<1> HIDE DEF l, page
<1>5. /\ bpc' \in [Nodes -> BroadcastPC] /\ loc' \in [Nodes -> Locals]
      /\ Alone(n) /\ bpc'[n] = (IF page = {} THEN "finish" ELSE "send") /\ loc'[n] = l
  BY <1>1, <1>3, <1>4, OwnStep DEF BroadcastPC
<1>6. UNCHANGED tableVars /\ UNCHANGED <<crashes, errors>>
  BY DEF List, tableVars
<1>7. TypeOK' /\ Shape(n)'
  BY <1>1, <1>2, <1>3, <1>5, <1>6 DEF TypeOK, tableVars, userVars, Shape
<1>8. loc[n].todo = {}
  BY <1>1 DEF Shape
<1> QED
  BY <1>1, <1>3, <1>5, <1>6, <1>7, <1>8, OthersKeepShape DEF tableVars, page

\* SendTextMessage to the recipient whose turn it is.
LEMMA SendEffect ==
    ASSUME ShapeInv, NEW n \in Nodes, Send(n)
    PROVE  /\ ShapeInv' /\ Alone(n) /\ UNCHANGED <<userVars, jobs, rows, resets>>
           /\ bpc[n] = "send" /\ bpc'[n] = "record"
           /\ loc'[n].job = loc[n].job /\ loc'[n].offset = loc[n].offset
           /\ loc'[n].todo = loc[n].todo /\ loc'[n].begun = loc[n].begun
           /\ \E u \in loc[n].todo :
                 /\ Current(n, u)
                 /\ loc'[n].tried = loc[n].tried \cup {u}
                 /\ received'[loc[n].job][u]
                       \in {received[loc[n].job][u], received[loc[n].job][u] + 1}
                 /\ \A j \in JobIds, v \in Users : j # loc[n].job \/ v # u =>
                       received'[j][v] = received[j][v]
                 /\ loc'[n].result =>
                       /\ received'[loc[n].job][u] = received[loc[n].job][u] + 1
                       /\ loc'[n].ok = loc[n].ok + 1 /\ loc'[n].bad = loc[n].bad
                 /\ ~loc'[n].result =>
                       /\ loc'[n].ok = loc[n].ok /\ loc'[n].bad = loc[n].bad + 1
<1>1. TypeOK /\ Shape(n) /\ bpc[n] = "send" /\ Claimed(n)
  BY DEF ShapeInv, Send, Claimed
<1>2. loc[n].job \in DOMAIN jobs /\ loc[n].job \in JobIds
  BY <1>1, ClaimedJob
<1>3. PICK u \in loc[n].todo, handled \in BOOLEAN, ok \in BOOLEAN :
         /\ Current(n, u) /\ (ok => handled)
         /\ received' = IF handled THEN [received EXCEPT ![loc[n].job][u] = @ + 1]
                        ELSE received
         /\ loc' = [loc EXCEPT ![n].result = ok, ![n].tried = @ \cup {u},
                               ![n].ok = IF ok THEN @ + 1 ELSE @,
                               ![n].bad = IF ok THEN @ ELSE @ + 1]
  BY DEF Send
<1> DEFINE sent == IF ok THEN loc[n].ok + 1 ELSE loc[n].ok
           failed == IF ok THEN loc[n].bad ELSE loc[n].bad + 1
           l == [loc[n] EXCEPT !.result = ok, !.tried = loc[n].tried \cup {u},
                               !.ok = sent, !.bad = failed]
<1>4. u \in Users /\ sent \in Nat /\ failed \in Nat
  BY <1>1, <1>3, LocalTypes
<1> HIDE DEF sent, failed
<1>5. /\ l \in Locals /\ l.job = loc[n].job /\ l.offset = loc[n].offset
      /\ l.todo = loc[n].todo /\ l.begun = loc[n].begun
      /\ l.tried = loc[n].tried \cup {u} /\ l.result = ok
      /\ l.ok = sent /\ l.bad = failed
  BY <1>1, <1>4, LocalTypes DEF Locals
<1>6. loc' = [loc EXCEPT ![n] = l] /\ Goto(n, "record")
  <2>1. loc \in [Nodes -> Locals]
    BY <1>1 DEF TypeOK
  <2>2. Goto(n, "record")
    BY DEF Send
  <2>3. loc' = [loc EXCEPT ![n] = [loc[n] EXCEPT
                   !.result = ok, !.tried = @ \cup {u},
                   !.ok = IF ok THEN @ + 1 ELSE @, !.bad = IF ok THEN @ ELSE @ + 1]]
    BY <1>3, <2>1
  <2> QED
    BY <2>2, <2>3 DEF sent, failed
<1> HIDE DEF l
<1>7. /\ bpc' \in [Nodes -> BroadcastPC] /\ loc' \in [Nodes -> Locals]
      /\ Alone(n) /\ bpc'[n] = "record" /\ loc'[n] = l
  BY <1>1, <1>5, <1>6, OwnStep DEF BroadcastPC
<1>8. received[loc[n].job][u] \in Nat
  BY <1>1, <1>2, <1>4 DEF TypeOK
<1>9. /\ received' \in [JobIds -> [Users -> Nat]]
      /\ received'[loc[n].job][u]
            = (IF handled THEN received[loc[n].job][u] + 1 ELSE received[loc[n].job][u])
      /\ \A j \in JobIds, v \in Users : j # loc[n].job \/ v # u =>
            received'[j][v] = received[j][v]
  <2>1. received \in [JobIds -> [Users -> Nat]] /\ received[loc[n].job][u] + 1 \in Nat
    BY <1>1, <1>8 DEF TypeOK
  <2>2. CASE handled
    <3>1. received' = [received EXCEPT ![loc[n].job][u] = received[loc[n].job][u] + 1]
      BY <1>3, <2>2
    <3> QED
      BY <1>2, <1>4, <2>1, <2>2, <3>1
  <2>3. CASE ~handled
    BY <1>3, <2>1, <2>3
  <2> QED
    BY <2>2, <2>3
<1>10. UNCHANGED <<userVars, jobs, rows, resets, crashes, errors>>
  BY DEF Send
<1>11. TypeOK' /\ Shape(n)'
  BY <1>1, <1>2, <1>5, <1>7, <1>9, <1>10 DEF TypeOK, userVars, Shape
<1>12. ShapeInv'
  BY <1>7, <1>10, <1>11, OthersKeepShape
<1>13. /\ loc'[n].tried = loc[n].tried \cup {u}
       /\ received'[loc[n].job][u]
             \in {received[loc[n].job][u], received[loc[n].job][u] + 1}
       /\ loc'[n].result =>
             /\ received'[loc[n].job][u] = received[loc[n].job][u] + 1
             /\ loc'[n].ok = loc[n].ok + 1 /\ loc'[n].bad = loc[n].bad
       /\ ~loc'[n].result =>
             /\ loc'[n].ok = loc[n].ok /\ loc'[n].bad = loc[n].bad + 1
  BY <1>3, <1>5, <1>7, <1>9 DEF sent, failed
<1> QED
  BY <1>1, <1>3, <1>5, <1>7, <1>9, <1>10, <1>12, <1>13

\* On to the next recipient, whatever became of the row.
LEMMA AdvanceEffect ==
    ASSUME ShapeInv, NEW n \in Nodes, bpc[n] = "record", NEW u \in loc[n].todo,
           Advance(n, u), jobs' = jobs
    PROVE  /\ bpc' \in [Nodes -> BroadcastPC] /\ loc' \in [Nodes -> Locals]
           /\ Alone(n) /\ Shape(n)'
           /\ bpc'[n] = IF loc[n].todo = {u} THEN "progress" ELSE "send"
           /\ loc'[n].todo = loc[n].todo \ {u} /\ loc'[n].offset = loc[n].offset + 1
           /\ loc'[n].job = loc[n].job
           /\ loc'[n].ok = loc[n].ok /\ loc'[n].bad = loc[n].bad
           /\ loc'[n].tried = loc[n].tried /\ loc'[n].begun = loc[n].begun
<1>1. TypeOK /\ Shape(n) /\ Claimed(n)
  BY DEF ShapeInv, Claimed
<1> DEFINE l == [loc[n] EXCEPT !.todo = loc[n].todo \ {u}, !.offset = loc[n].offset + 1]
<1>2. /\ l \in Locals /\ l.todo = loc[n].todo \ {u} /\ l.offset = loc[n].offset + 1
      /\ l.job = loc[n].job /\ l.ok = loc[n].ok /\ l.bad = loc[n].bad
      /\ l.tried = loc[n].tried /\ l.begun = loc[n].begun
  <2>1. /\ loc[n] \in Locals /\ loc[n].todo \ {u} \in SUBSET Users
        /\ loc[n].offset + 1 \in Nat
    BY <1>1, LocalTypes
  <2> QED
    BY <2>1 DEF Locals
<1>3. /\ loc' = [loc EXCEPT ![n] = l]
      /\ Goto(n, IF loc[n].todo = {u} THEN "progress" ELSE "send")
  BY <1>1 DEF Advance, TypeOK
<1> HIDE DEF l
<1>4. /\ bpc' \in [Nodes -> BroadcastPC] /\ loc' \in [Nodes -> Locals] /\ Alone(n)
      /\ bpc'[n] = (IF loc[n].todo = {u} THEN "progress" ELSE "send") /\ loc'[n] = l
  BY <1>1, <1>2, <1>3, OwnStep DEF BroadcastPC
<1>5. Shape(n)'
  <2>1. loc'[n].job \in DOMAIN jobs'
    BY <1>1, <1>2, <1>4, ClaimedJob
  <2>2. loc[n].todo = {u} <=> l.todo = {}
    BY <1>2
  <2> QED
    BY <1>2, <1>4, <2>1, <2>2 DEF Shape
<1> QED
  BY <1>2, <1>4, <1>5

\* UpsertBroadcastDelivery.
LEMMA RecordEffect ==
    ASSUME ShapeInv, NEW n \in Nodes, Record(n)
    PROVE  /\ ShapeInv' /\ Alone(n) /\ UNCHANGED <<userVars, jobs, received, resets>>
           /\ bpc[n] = "record"
           /\ \E u \in loc[n].todo :
                 /\ Current(n, u) /\ Advance(n, u)
                 /\ rows'[loc[n].job][u] = (IF loc[n].result THEN "sent" ELSE "failed")
                 /\ \A j \in JobIds, v \in Users : j # loc[n].job \/ v # u =>
                       rows'[j][v] = rows[j][v]
<1>1. TypeOK /\ Shape(n) /\ bpc[n] = "record" /\ Claimed(n)
  BY DEF ShapeInv, Record, Claimed
<1>2. loc[n].job \in JobIds
  BY <1>1, ClaimedJob
<1>3. PICK u \in loc[n].todo :
         /\ Current(n, u) /\ Advance(n, u)
         /\ rows' = [rows EXCEPT ![loc[n].job][u] = Recorded(n)]
  BY DEF Record
<1>4. u \in Users /\ Recorded(n) \in {"sent", "failed"}
  BY <1>1, <1>3, LocalTypes DEF Recorded
<1>5. /\ rows' \in [JobIds -> [Users -> {"none", "sent", "failed"}]]
      /\ rows'[loc[n].job][u] = Recorded(n)
      /\ \A j \in JobIds, v \in Users : j # loc[n].job \/ v # u => rows'[j][v] = rows[j][v]
  BY <1>1, <1>2, <1>3, <1>4 DEF TypeOK
<1>6. UNCHANGED <<userVars, jobs, received, resets, crashes, errors>>
  BY DEF Record
<1>7. /\ bpc' \in [Nodes -> BroadcastPC] /\ loc' \in [Nodes -> Locals]
      /\ Alone(n) /\ Shape(n)'
  BY <1>1, <1>3, <1>6, AdvanceEffect
<1>8. TypeOK'
  BY <1>1, <1>5, <1>6, <1>7 DEF TypeOK, userVars
<1>9. ShapeInv'
  BY <1>6, <1>7, <1>8, OthersKeepShape
<1> QED
  BY <1>1, <1>3, <1>5, <1>6, <1>7, <1>9 DEF Recorded

\* The counters of a row, and its status when the run ends.
LEMMA RowWritten ==
    ASSUME ShapeInv, NEW n \in Nodes, Claimed(n),
           NEW status \in Status,
           jobs' = [jobs EXCEPT ![loc[n].job].status = status,
                                ![loc[n].job].ok = loc[n].ok,
                                ![loc[n].job].bad = loc[n].bad]
    PROVE  /\ jobs' \in Seq(Job) /\ Len(jobs') = Len(jobs) /\ DOMAIN jobs' = DOMAIN jobs
           /\ jobs'[loc[n].job].status = status
           /\ jobs'[loc[n].job].ok = loc[n].ok /\ jobs'[loc[n].job].bad = loc[n].bad
           /\ \A j \in DOMAIN jobs : /\ jobs'[j].spec = jobs[j].spec
                                     /\ j # loc[n].job => jobs'[j] = jobs[j]
<1>1. /\ TypeOK /\ loc[n].job \in DOMAIN jobs /\ jobs[loc[n].job] \in Job
      /\ loc[n].ok \in Nat /\ loc[n].bad \in Nat
  BY ClaimedJob, LocalTypes DEF ShapeInv
<1> DEFINE row == [jobs[loc[n].job] EXCEPT !.status = status, !.ok = loc[n].ok,
                                           !.bad = loc[n].bad]
<1>2. /\ row \in Job /\ row.status = status /\ row.ok = loc[n].ok /\ row.bad = loc[n].bad
      /\ row.spec = jobs[loc[n].job].spec
  BY <1>1 DEF Job
<1>3. jobs' = [jobs EXCEPT ![loc[n].job] = row]
  BY <1>1, JobsType
<1> HIDE DEF row
<1>4. jobs' \in [DOMAIN jobs -> Job]
  BY <1>1, <1>2, <1>3, JobsType
<1>5. jobs' \in Seq(Job) /\ Len(jobs') = Len(jobs) /\ DOMAIN jobs' = DOMAIN jobs
  BY <1>1, <1>4, JobsRewritten
<1>6. /\ jobs'[loc[n].job] = row
      /\ \A j \in DOMAIN jobs : j # loc[n].job => jobs'[j] = jobs[j]
  BY <1>1, <1>3, JobsType
<1>7. \A j \in DOMAIN jobs : jobs'[j].spec = jobs[j].spec
  BY <1>2, <1>6
<1> QED
  BY <1>2, <1>5, <1>6, <1>7

\* UpdateBroadcastProgress, after a page.
LEMMA ProgressEffect ==
    ASSUME ShapeInv, NEW n \in Nodes, Progress(n)
    PROVE  /\ ShapeInv' /\ Alone(n) /\ loc' = loc
           /\ UNCHANGED <<userVars, rows, received, resets>>
           /\ bpc[n] = "progress" /\ bpc'[n] = "list"
           /\ DOMAIN jobs' = DOMAIN jobs
           /\ \A j \in DOMAIN jobs : /\ jobs'[j].spec = jobs[j].spec
                                     /\ jobs'[j].status = jobs[j].status
                                     /\ j # loc[n].job => jobs'[j] = jobs[j]
<1>1. TypeOK /\ Shape(n) /\ bpc[n] = "progress" /\ Claimed(n)
  BY DEF ShapeInv, Progress, Claimed
<1>2. loc[n].job \in DOMAIN jobs /\ jobs[loc[n].job].status \in Status
  BY <1>1, ClaimedJob, JobsType
<1>3. jobs' = [jobs EXCEPT ![loc[n].job].status = jobs[loc[n].job].status,
                           ![loc[n].job].ok = loc[n].ok,
                           ![loc[n].job].bad = loc[n].bad]
  <2>1. jobs[loc[n].job] \in Job
    BY <1>1, ClaimedJob
  <2>2. [jobs[loc[n].job] EXCEPT !.ok = loc[n].ok, !.bad = loc[n].bad]
           = [jobs[loc[n].job] EXCEPT !.status = jobs[loc[n].job].status,
                                      !.ok = loc[n].ok, !.bad = loc[n].bad]
    BY <2>1 DEF Job
  <2> QED
    BY <1>1, <1>2, <2>2, JobsType DEF Progress
<1>4. /\ jobs' \in Seq(Job) /\ Len(jobs') = Len(jobs) /\ DOMAIN jobs' = DOMAIN jobs
      /\ jobs'[loc[n].job].status = jobs[loc[n].job].status
      /\ \A j \in DOMAIN jobs : /\ jobs'[j].spec = jobs[j].spec
                                /\ j # loc[n].job => jobs'[j] = jobs[j]
  BY <1>1, <1>2, <1>3, RowWritten
<1>5. /\ bpc' \in [Nodes -> BroadcastPC] /\ Alone(n) /\ bpc'[n] = "list" /\ loc' = loc
      /\ UNCHANGED <<userVars, rows, received, resets, crashes, errors>>
  BY <1>1 DEF Progress, Goto, Alone, TypeOK, BroadcastPC
<1>6. TypeOK' /\ Shape(n)'
  BY <1>1, <1>4, <1>5 DEF TypeOK, userVars, Shape
<1>7. ShapeInv'
  BY <1>4, <1>5, <1>6, OthersKeepShape
<1> QED
  BY <1>1, <1>4, <1>5, <1>7

\* MarkBroadcastCompleted, MarkBroadcastFailed.
LEMMA MarkEffect ==
    ASSUME ShapeInv, NEW n \in Nodes, Finish(n) \/ Abort(n)
    PROVE  /\ ShapeInv' /\ Alone(n) /\ UNCHANGED <<userVars, rows, received, resets>>
           /\ Claimed(n) /\ bpc[n] # "record" /\ bpc'[n] = "idle" /\ loc'[n] = NoLocals
           /\ DOMAIN jobs' = DOMAIN jobs
           /\ jobs'[loc[n].job].status \in {"completed", "failed"}
           /\ jobs'[loc[n].job].ok = loc[n].ok /\ jobs'[loc[n].job].bad = loc[n].bad
           /\ \A j \in DOMAIN jobs : /\ jobs'[j].spec = jobs[j].spec
                                     /\ j # loc[n].job => jobs'[j] = jobs[j]
<1>1. TypeOK /\ Shape(n) /\ Claimed(n) /\ bpc[n] # "record"
  BY DEF ShapeInv, Finish, Abort, Claimed
<1>2. PICK status \in {"completed", "failed"} : Mark(n, status)
  BY DEF Finish, Abort
<1>3. /\ jobs' \in Seq(Job) /\ Len(jobs') = Len(jobs) /\ DOMAIN jobs' = DOMAIN jobs
      /\ jobs'[loc[n].job].status = status
      /\ jobs'[loc[n].job].ok = loc[n].ok /\ jobs'[loc[n].job].bad = loc[n].bad
      /\ \A j \in DOMAIN jobs : /\ jobs'[j].spec = jobs[j].spec
                                /\ j # loc[n].job => jobs'[j] = jobs[j]
  BY <1>1, <1>2, RowWritten DEF Mark, Status
<1>4. /\ bpc' \in [Nodes -> BroadcastPC] /\ loc' \in [Nodes -> Locals]
      /\ Alone(n) /\ bpc'[n] = "idle" /\ loc'[n] = NoLocals /\ Shape(n)'
  BY <1>2, LeavesEffect DEF Mark
<1>5. UNCHANGED <<userVars, rows, received, resets, crashes, errors>>
  BY DEF Finish, Abort
<1>6. TypeOK'
  BY <1>1, <1>3, <1>4, <1>5 DEF TypeOK, userVars
<1>7. ShapeInv'
  BY <1>3, <1>4, <1>6, OthersKeepShape
<1> QED
  BY <1>1, <1>2, <1>3, <1>4, <1>5, <1>7

\* A statement of a process fails.
LEMMA FailsEffect ==
    ASSUME ShapeInv, NEW n \in Nodes, StatementFails(n)
    PROVE  /\ ShapeInv' /\ Alone(n) /\ UNCHANGED tableVars
           /\ \/ bpc'[n] = "idle" /\ loc'[n] = NoLocals
              \/ bpc[n] \in {"count", "list"} /\ bpc'[n] = "abort" /\ loc' = loc
              \/ bpc[n] = "progress" /\ bpc'[n] = "list" /\ loc' = loc
              \/ /\ bpc[n] = "record"
                 /\ \E u \in loc[n].todo : Current(n, u) /\ Advance(n, u)
<1>1. TypeOK /\ Shape(n) /\ UNCHANGED tableVars /\ crashes' = crashes /\ errors' \in Nat
  BY DEF ShapeInv, StatementFails, tableVars, TypeOK
<1>2. CASE \/ bpc[n] \in {"picked", "count", "finish", "abort"} /\ Leave(n, "idle")
           \/ bpc[n] = "down" /\ Goto(n, "idle") /\ UNCHANGED loc
  <2>1. Leave(n, "idle")
    <3>1. CASE bpc[n] = "down" /\ Goto(n, "idle") /\ UNCHANGED loc
      <4>1. loc' = [loc EXCEPT ![n] = NoLocals]
        BY <1>1, <3>1 DEF Shape, TypeOK
      <4> QED
        BY <3>1, <4>1 DEF Leave
    <3> QED
      BY <1>2, <3>1
  <2>2. /\ bpc' \in [Nodes -> BroadcastPC] /\ loc' \in [Nodes -> Locals]
        /\ Alone(n) /\ bpc'[n] = "idle" /\ loc'[n] = NoLocals /\ Shape(n)'
    BY <2>1, LeavesEffect
  <2>3. TypeOK'
    BY <1>1, <2>2 DEF TypeOK, tableVars, userVars
  <2> QED
    BY <1>1, <2>2, <2>3, OthersKeepShape DEF tableVars
<1>3. CASE \/ bpc[n] \in {"count", "list"} /\ Goto(n, "abort") /\ UNCHANGED loc
           \/ bpc[n] = "progress" /\ Goto(n, "list") /\ UNCHANGED loc
  <2>1. /\ bpc' \in [Nodes -> BroadcastPC] /\ Alone(n) /\ loc' = loc
        /\ \/ bpc[n] \in {"count", "list"} /\ bpc'[n] = "abort"
           \/ bpc[n] = "progress" /\ bpc'[n] = "list"
    BY <1>1, <1>3 DEF Goto, Alone, TypeOK, BroadcastPC
  <2>2. TypeOK' /\ Shape(n)'
    BY <1>1, <2>1 DEF TypeOK, tableVars, userVars, Shape
  <2> QED
    BY <1>1, <2>1, <2>2, OthersKeepShape DEF tableVars
<1>4. ASSUME bpc[n] = "record", NEW u \in loc[n].todo, Current(n, u), Advance(n, u)
      PROVE  ShapeInv' /\ Alone(n)
  <2>1. /\ bpc' \in [Nodes -> BroadcastPC] /\ loc' \in [Nodes -> Locals]
        /\ Alone(n) /\ Shape(n)'
    BY <1>1, <1>4, AdvanceEffect DEF tableVars
  <2>2. TypeOK'
    BY <1>1, <2>1 DEF TypeOK, tableVars, userVars
  <2> QED
    BY <1>1, <2>1, <2>2, OthersKeepShape DEF tableVars
<1> QED
  BY <1>1, <1>2, <1>3, <1>4 DEF StatementFails

\* The ids a target may ever have named so far.
Known(target) == IF target = "selected" THEN Chosen ELSE present

\* Table users changes: somebody signs up above all others, leaves, is banned
\* or unbanned.  An unfiltered target gains members only above everybody.
LEMMA UsersEffect ==
    ASSUME ShapeInv, NEW u \in Users, SignUp(u) \/ DeleteUser(u) \/ Ban(u) \/ Unban(u)
    PROVE  /\ ShapeInv' /\ UNCHANGED <<jobs, rows, received, resets, bpc, loc>>
           /\ \A target \in {"all", "selected"} :
                 /\ Known(target) \subseteq Known(target)'
                 /\ \A v \in Matching(target)' :
                       v \in Matching(target) \/ \A w \in Known(target) : w < v
<1>1. /\ UNCHANGED <<jobs, rows, received, resets, bpc, loc, crashes, errors>>
      /\ changes' \in Nat
  BY DEF SignUp, DeleteUser, Ban, Unban, ChangeUsers, ShapeInv, TypeOK
<1>2. /\ present' \subseteq Users /\ gone' \subseteq present' /\ banned' \subseteq present'
      /\ present \subseteq present' /\ gone \subseteq gone'
      /\ \A v \in present' \ present : \A w \in present : w < v
  BY DEF SignUp, DeleteUser, Ban, Unban, ShapeInv, TypeOK
<1>3. ShapeInv'
  <2>1. TypeOK'
    BY <1>1, <1>2 DEF ShapeInv, TypeOK
  <2> QED
    BY <1>1, <2>1 DEF ShapeInv, Shape
<1> QED
  BY <1>1, <1>2, <1>3 DEF Known, Matching

\* An administrator queues a broadcast.
LEMMA EnqueueEffect ==
    ASSUME ShapeInv, NEW target \in TargetType, Enqueue(target)
    PROVE  /\ ShapeInv' /\ UNCHANGED <<userVars, rows, received, resets, bpc, loc>>
           /\ Len(jobs) + 1 \in JobIds \ DOMAIN jobs
           /\ DOMAIN jobs' = DOMAIN jobs \cup {Len(jobs) + 1}
           /\ \A j \in DOMAIN jobs : jobs'[j] = jobs[j]
           /\ jobs'[Len(jobs) + 1].status = "pending"
<1> DEFINE row == [spec |-> target, status |-> "pending", ok |-> 0, bad |-> 0]
<1>1. row \in Job /\ row.status = "pending"
  BY DEF Job, Status
<1>2. /\ jobs \in Seq(Job) /\ jobs' = Append(jobs, row) /\ Len(jobs) < MaxJobs
      /\ Len(jobs) \in Nat /\ MaxJobs \in Nat
  BY BroadcastAssumption DEF ShapeInv, TypeOK, Enqueue
<1> HIDE DEF row
<1>3. /\ jobs' \in Seq(Job) /\ Len(jobs') = Len(jobs) + 1
      /\ DOMAIN jobs = 1..Len(jobs) /\ DOMAIN jobs' = 1..Len(jobs) + 1
      /\ \A j \in DOMAIN jobs : jobs'[j] = jobs[j]
      /\ jobs'[Len(jobs) + 1] = row
  BY <1>1, <1>2
<1>4. /\ Len(jobs) + 1 \in 1..MaxJobs /\ Len(jobs) + 1 \notin 1..Len(jobs)
      /\ 1..Len(jobs) + 1 = 1..Len(jobs) \cup {Len(jobs) + 1}
      /\ Len(jobs') <= MaxJobs
  BY <1>2, <1>3
<1>5. UNCHANGED <<userVars, rows, received, resets, bpc, loc, crashes, errors>>
  BY DEF Enqueue
<1>6. TypeOK'
  BY <1>3, <1>4, <1>5 DEF ShapeInv, TypeOK, userVars
<1>7. \A n \in Nodes : Shape(n)'
  BY <1>3, <1>4, <1>5 DEF ShapeInv, Shape
<1> QED
  BY <1>1, <1>3, <1>4, <1>5, <1>6, <1>7 DEF ShapeInv, JobIds

\* Every step keeps the types and what a process holds where.
LEMMA NextKeepsShape == ShapeInv /\ [Next]_vars => ShapeInv'
<1> SUFFICES ASSUME ShapeInv, [Next]_vars PROVE ShapeInv'
  OBVIOUS
<1>1. ASSUME NEW n \in Nodes, Start(n) \/ WorkerStep(n) \/ StatementFails(n) \/ Crash(n)
      PROVE  ShapeInv'
  BY <1>1, StartEffect, PickEffect, ClaimWinsEffect, GivesUpEffect, CountEffect, ListEffect,
     SendEffect, RecordEffect, ProgressEffect, MarkEffect, FailsEffect DEF WorkerStep
<1>2. ASSUME NEW u \in Users, SignUp(u) \/ DeleteUser(u) \/ Ban(u) \/ Unban(u)
      PROVE  ShapeInv'
  BY <1>2, UsersEffect
<1>3. ASSUME NEW target \in TargetType, Enqueue(target) PROVE ShapeInv'
  BY <1>3, EnqueueEffect
<1>4. CASE UNCHANGED vars
  <2>1. TypeOK'
    BY <1>4 DEF vars, userVars, ShapeInv, TypeOK
  <2> QED
    BY <1>4, <2>1 DEF vars, userVars, ShapeInv, Shape
<1> QED
  BY <1>1, <1>2, <1>3, <1>4 DEF Next

\* At the start no process runs and nothing is queued.
LEMMA InitShape == Init => ShapeInv
<1> SUFFICES ASSUME Init PROVE ShapeInv
  OBVIOUS
<1>1. bpc \in [Nodes -> BroadcastPC] /\ loc \in [Nodes -> Locals]
  BY NothingHeld DEF Init, BroadcastPC
<1>2. jobs \in Seq(Job) /\ Len(jobs) = 0 /\ Len(jobs) <= MaxJobs
  BY BroadcastAssumption DEF Init
<1>3. TypeOK
  BY <1>1, <1>2, BroadcastAssumption DEF Init, TypeOK
<1>4. \A n \in Nodes : Shape(n)
  BY NothingHeld DEF Init, Shape
<1> QED
  BY <1>3, <1>4 DEF ShapeInv

\* The variables keep their types.
THEOREM TypesHold == Spec => []TypeOK
<1>1. ShapeInv => TypeOK
  BY DEF ShapeInv
<1> QED
  BY <1>1, InitShape, NextKeepsShape, PTL DEF Spec

----------------------------------------------------------------------------
(* A finished broadcast is left to those who are still at it.              *)

\* ResetRunningBroadcasts and the claim look at the status they change, and
\* the end of a run writes a final one whatever it finds.
LEMMA StepKeepsFinished ==
    ASSUME ShapeInv, Next, NEW j \in DOMAIN jobs, Done(j)
    PROVE  Done(j)'
<1>1. ~Running(j) /\ ~Pending(j)
  BY DEF Done, Running, Pending
<1>2. ASSUME NEW n \in Nodes, Start(n) PROVE Done(j)'
  BY <1>1, <1>2, StartEffect DEF Done
<1>3. ASSUME NEW n \in Nodes, ClaimWins(n) PROVE Done(j)'
  BY <1>1, <1>3, ClaimWinsEffect DEF Done
<1>4. ASSUME NEW n \in Nodes, Finish(n) \/ Abort(n) PROVE Done(j)'
  <2>1. /\ jobs'[loc[n].job].status \in {"completed", "failed"}
        /\ j # loc[n].job => jobs'[j] = jobs[j]
    BY <1>4, MarkEffect
  <2> QED
    BY <2>1 DEF Done
<1>5. ASSUME NEW n \in Nodes, Progress(n) PROVE Done(j)'
  BY <1>5, ProgressEffect DEF Done
<1>6. ASSUME NEW target \in TargetType, Enqueue(target) PROVE Done(j)'
  BY <1>6, EnqueueEffect DEF Done
<1>7. ASSUME UNCHANGED jobs PROVE Done(j)'
  BY <1>7 DEF Done
<1>8. ASSUME NEW n \in Nodes, \/ Pick(n) \/ ClaimLoses(n) \/ Count(n) \/ List(n) \/ Send(n)
                              \/ Record(n) \/ StatementFails(n) \/ Crash(n)
      PROVE  UNCHANGED jobs
  BY <1>8 DEF Pick, ClaimLoses, Count, List, Send, Record, StatementFails, Crash
<1>9. ASSUME NEW u \in Users, SignUp(u) \/ DeleteUser(u) \/ Ban(u) \/ Unban(u)
      PROVE  UNCHANGED jobs
  BY <1>9, UsersEffect
<1> QED
  BY <1>2, <1>3, <1>4, <1>5, <1>6, <1>7, <1>8, <1>9 DEF Next, WorkerStep

\* Only a claim makes a process work on a broadcast, and a claim needs a
\* pending one.
LEMMA NobodyTakesFinished ==
    ASSUME ShapeInv, Next, NEW j \in DOMAIN jobs, Done(j),
           NEW n \in Nodes, WorksOn(n, j)'
    PROVE  WorksOn(n, j)
<1> USE DEF WorksOn, Claimed
<1>1. CASE bpc'[n] = bpc[n] /\ loc'[n] = loc[n]
  BY <1>1
<1>2. ASSUME NEW m \in Nodes, Alone(m), m # n PROVE WorksOn(n, j)
  BY <1>1, <1>2 DEF Alone
<1>3. ASSUME Start(n) \/ Pick(n) PROVE FALSE
  BY <1>3, StartEffect, PickEffect
<1>4. ASSUME ClaimWins(n) PROVE FALSE
  BY <1>4, ClaimWinsEffect DEF Done, Pending
<1>5. ASSUME ClaimLoses(n) \/ Crash(n) \/ Finish(n) \/ Abort(n) PROVE FALSE
  <2>1. CASE ClaimLoses(n) \/ Crash(n)
    BY <2>1 DEF ClaimLoses, Crash, Leave, Goto, ShapeInv, TypeOK
  <2>2. CASE Finish(n) \/ Abort(n)
    BY <2>2, MarkEffect
  <2> QED
    BY <1>5, <2>1, <2>2
<1>6. ASSUME Count(n) \/ List(n) \/ Send(n) \/ Progress(n) PROVE WorksOn(n, j)
  BY <1>6, CountEffect, ListEffect, SendEffect, ProgressEffect
<1>7. ASSUME NEW u \in loc[n].todo, bpc[n] = "record", Advance(n, u) PROVE WorksOn(n, j)
  BY <1>7 DEF Advance, ShapeInv, TypeOK, Locals
<1>8. CASE Record(n)
  BY <1>7, <1>8, RecordEffect
<1>9. CASE StatementFails(n)
  BY <1>7, <1>9, FailsEffect
<1>10. ASSUME NEW m \in Nodes, Start(m) \/ WorkerStep(m) \/ StatementFails(m) \/ Crash(m)
       PROVE  Alone(m)
  <2>1. CASE Start(m) \/ Pick(m) \/ ClaimWins(m) \/ Count(m) \/ List(m) \/ Send(m)
    BY <2>1, StartEffect, PickEffect, ClaimWinsEffect, CountEffect, ListEffect, SendEffect
  <2>2. CASE Record(m) \/ Progress(m) \/ Finish(m) \/ Abort(m) \/ StatementFails(m)
    BY <2>2, RecordEffect, ProgressEffect, MarkEffect, FailsEffect
  <2>3. CASE ClaimLoses(m) \/ Crash(m)
    BY <2>3 DEF ClaimLoses, Crash, Leave, Goto, Alone, ShapeInv, TypeOK
  <2> QED
    BY <1>10, <2>1, <2>2, <2>3 DEF WorkerStep
<1>11. CASE \/ \E target \in TargetType : Enqueue(target)
            \/ \E u \in Users : SignUp(u) \/ DeleteUser(u) \/ Ban(u) \/ Unban(u)
  BY <1>1, <1>11, EnqueueEffect, UsersEffect
<1> QED
  <2>1. CASE \E m \in Nodes : Start(m) \/ WorkerStep(m) \/ StatementFails(m) \/ Crash(m)
    BY <1>2, <1>3, <1>4, <1>5, <1>6, <1>8, <1>9, <1>10, <2>1 DEF WorkerStep
  <2> QED
    BY <1>11, <2>1 DEF Next

\* Only a process that works on a broadcast sends it.
LEMMA OnlyWorkersSend ==
    ASSUME ShapeInv, Next, NEW j \in DOMAIN jobs, received'[j] # received[j]
    PROVE  \E n \in Nodes : WorksOn(n, j)
<1>1. ASSUME NEW n \in Nodes, Send(n) PROVE WorksOn(n, j)
  <2>1. CASE loc[n].job = j
    BY <1>1, <2>1 DEF Send, WorksOn, Claimed
  <2>2. CASE loc[n].job # j
    BY <1>1, <2>2, JobsType DEF Send, ShapeInv, TypeOK
  <2> QED
    BY <2>1, <2>2
<1>2. ASSUME ~\E n \in Nodes : Send(n) PROVE UNCHANGED received
  BY <1>2, UsersEffect DEF Next, WorkerStep, Start, Pick, ClaimWins, ClaimLoses, Count,
     List, Record, Progress, Finish, Abort, StatementFails, Crash, Enqueue
<1> QED
  BY <1>1, <1>2

\* A finished broadcast stays finished, whichever processes start; no process
\* takes it up, and only one that had claimed it before may still send it.
THEOREM FinishedForGood == Spec => FinishedIsLeft
<1>1. ShapeInv /\ [Next]_vars =>
        [\A j \in DOMAIN jobs : Done(j) =>
            /\ Done(j)'
            /\ \A n \in Nodes : WorksOn(n, j)' => WorksOn(n, j)
            /\ received'[j] # received[j] => \E n \in Nodes : WorksOn(n, j)]_vars
  BY StepKeepsFinished, NobodyTakesFinished, OnlyWorkersSend
<1> QED
  BY <1>1, InitShape, NextKeepsShape, PTL DEF Spec, FinishedIsLeft

----------------------------------------------------------------------------
(* Delivery rows tell the truth.                                           *)

\* Between SendTextMessage and the row it is recorded in.
Received(n) ==
    bpc[n] = "record" /\ loc[n].result =>
        \A u \in loc[n].todo : Current(n, u) => received[loc[n].job][u] > 0

TruthInv == SentMeansReceived /\ \A n \in Nodes : Received(n)

\* Nothing takes a message back.
LEMMA OthersKeepReceived ==
    ASSUME ShapeInv, ShapeInv', TruthInv, NEW n \in Nodes, Alone(n), Received(n)', SentMeansReceived',
           \A j \in JobIds, u \in Users : received'[j][u] >= received[j][u]
    PROVE  TruthInv'
<1>1. ASSUME NEW m \in Nodes \ {n} PROVE Received(m)'
  <2>1. Received(m) /\ bpc'[m] = bpc[m] /\ loc'[m] = loc[m]
    BY DEF TruthInv, Alone
  <2>2. \A u \in loc[m].todo : Current(m, u)' => Current(m, u)
    BY <2>1 DEF Current
  <2>3. bpc[m] = "record" => loc[m].job \in JobIds /\ loc[m].todo \subseteq Users
    BY ClaimedJob, LocalTypes DEF Claimed, ShapeInv
  <2>4. ASSUME NEW j \in JobIds, NEW u \in Users, received[j][u] > 0
        PROVE  received'[j][u] > 0
    <3>1. received[j][u] \in Nat /\ received'[j][u] \in Nat
      BY DEF ShapeInv, TypeOK
    <3>2. received'[j][u] >= received[j][u]
      OBVIOUS
    <3> QED
      BY <2>4, <3>1, <3>2
  <2> QED
    BY <2>1, <2>2, <2>3, <2>4 DEF Received
<1> QED
  BY <1>1 DEF TruthInv

\* One recipient at a time: ORDER BY id ASC.
LEMMA OneCurrent ==
    ASSUME TypeOK, NEW n \in Nodes, NEW u, NEW w, Current(n, u), Current(n, w)
    PROVE  u = w /\ u \in Users /\ u \in Nat
<1>1. \A v \in loc[n].todo : v \in Users /\ v \in Nat
  BY LocalTypes, BroadcastAssumption
<1>2. u \in loc[n].todo /\ w \in loc[n].todo /\ u <= w /\ w <= u
  BY DEF Current
<1> QED
  BY <1>1, <1>2

\* A step that sends and records nothing.
LEMMA QuietKeepsTruth ==
    ASSUME ShapeInv, ShapeInv', TruthInv, NEW n \in Nodes, Alone(n), bpc'[n] # "record",
           UNCHANGED <<rows, received>>
    PROVE  TruthInv'
<1>1. Received(n)' /\ SentMeansReceived'
  BY DEF Received, TruthInv, SentMeansReceived
<1>2. \A j \in JobIds, u \in Users : received'[j][u] >= received[j][u]
  BY DEF ShapeInv, TypeOK
<1> QED
  BY <1>1, <1>2, OthersKeepReceived

\* SendTextMessage: a result without error comes from a handled call.
LEMMA SendKeepsTruth ==
    ASSUME ShapeInv, TruthInv, NEW n \in Nodes, Send(n)
    PROVE  TruthInv'
<1>1. /\ ShapeInv' /\ Alone(n) /\ UNCHANGED rows /\ bpc[n] = "send"
      /\ loc'[n].job = loc[n].job /\ loc'[n].todo = loc[n].todo
      /\ TypeOK /\ loc[n].job \in JobIds
  BY SendEffect, ClaimedJob DEF ShapeInv, Claimed
<1>2. PICK u \in loc[n].todo :
         /\ Current(n, u)
         /\ received'[loc[n].job][u]
               \in {received[loc[n].job][u], received[loc[n].job][u] + 1}
         /\ \A j \in JobIds, v \in Users : j # loc[n].job \/ v # u =>
               received'[j][v] = received[j][v]
         /\ loc'[n].result => received'[loc[n].job][u] = received[loc[n].job][u] + 1
  BY SendEffect
<1>3. ASSUME NEW j \in JobIds, NEW v \in Users
      PROVE  /\ received[j][v] \in Nat /\ received'[j][v] \in Nat
             /\ received'[j][v] >= received[j][v]
  <2>1. received[j][v] \in Nat /\ received'[j][v] \in Nat
    BY <1>1 DEF ShapeInv, TypeOK
  <2>2. received'[j][v] = received[j][v] \/ received'[j][v] = received[j][v] + 1
    BY <1>2
  <2> QED
    BY <2>1, <2>2
<1>4. SentMeansReceived'
  <2> SUFFICES ASSUME NEW j \in JobIds, NEW v \in Users, rows[j][v] = "sent"
               PROVE  received'[j][v] > 0
    BY <1>1 DEF SentMeansReceived
  <2> QED
    BY <1>3 DEF TruthInv, SentMeansReceived
<1>5. Received(n)'
  <2> SUFFICES ASSUME NEW v \in loc[n].todo, loc'[n].result, Current(n, v)
               PROVE  received'[loc[n].job][v] > 0
    BY <1>1 DEF Received, Current
  <2>1. v = u /\ v \in Users
    BY <1>1, <1>2, OneCurrent
  <2> QED
    BY <1>1, <1>2, <1>3, <2>1
<1> QED
  BY <1>1, <1>3, <1>4, <1>5, OthersKeepReceived

\* UpsertBroadcastDelivery writes what the call returned.
LEMMA RecordKeepsTruth ==
    ASSUME ShapeInv, TruthInv, NEW n \in Nodes, Record(n)
    PROVE  TruthInv'
<1>1. /\ ShapeInv' /\ Alone(n) /\ UNCHANGED <<received, jobs>> /\ bpc[n] = "record"
      /\ TypeOK /\ loc[n].job \in JobIds
  BY RecordEffect, ClaimedJob DEF ShapeInv, Claimed
<1>2. PICK u \in loc[n].todo :
         /\ Current(n, u) /\ Advance(n, u)
         /\ rows'[loc[n].job][u] = (IF loc[n].result THEN "sent" ELSE "failed")
         /\ \A j \in JobIds, v \in Users : j # loc[n].job \/ v # u =>
               rows'[j][v] = rows[j][v]
  BY RecordEffect
<1>3. bpc'[n] # "record"
  BY <1>1, <1>2, AdvanceEffect
<1>4. SentMeansReceived'
  <2> SUFFICES ASSUME NEW j \in JobIds, NEW v \in Users, rows'[j][v] = "sent"
               PROVE  received[j][v] > 0
    BY <1>1 DEF SentMeansReceived
  <2>1. CASE j = loc[n].job /\ v = u
    BY <1>1, <1>2, <2>1 DEF TruthInv, Received
  <2>2. CASE j # loc[n].job \/ v # u
    BY <1>2, <2>2 DEF TruthInv, SentMeansReceived
  <2> QED
    BY <2>1, <2>2
<1>5. \A j \in JobIds, v \in Users : received'[j][v] >= received[j][v]
  BY <1>1 DEF TypeOK
<1> QED
  BY <1>1, <1>3, <1>4, <1>5, OthersKeepReceived DEF Received

\* Every step keeps the rows truthful.
LEMMA NextKeepsTruth ==
    ASSUME ShapeInv, TruthInv, [Next]_vars
    PROVE  TruthInv'
<1>1. ShapeInv'
  BY NextKeepsShape
<1>2. ASSUME NEW n \in Nodes, \/ Start(n) \/ Pick(n) \/ ClaimWins(n) \/ ClaimLoses(n) \/ Count(n)
                              \/ List(n) \/ Progress(n) \/ Finish(n) \/ Abort(n)
                              \/ StatementFails(n) \/ Crash(n)
      PROVE  TruthInv'
  <2>1. ASSUME StatementFails(n) PROVE Alone(n) /\ bpc'[n] # "record" /\ UNCHANGED tableVars
    <3>1. ASSUME NEW u \in loc[n].todo, bpc[n] = "record", Advance(n, u), UNCHANGED tableVars
          PROVE  bpc'[n] # "record"
      BY <3>1, AdvanceEffect DEF tableVars
    <3> QED
      BY <2>1, <3>1, FailsEffect
  <2>2. CASE Start(n) \/ ClaimWins(n) \/ Progress(n) \/ Finish(n) \/ Abort(n)
    <3>1. Alone(n) /\ bpc'[n] # "record" /\ UNCHANGED <<rows, received>>
      BY <2>2, StartEffect, ClaimWinsEffect, ProgressEffect, MarkEffect
    <3> QED
      BY <1>1, <3>1, QuietKeepsTruth
  <2>3. CASE Pick(n) \/ ClaimLoses(n) \/ Crash(n) \/ Count(n) \/ List(n) \/ StatementFails(n)
    <3>1. Alone(n) /\ UNCHANGED tableVars
      BY <2>1, <2>3, PickEffect, CountEffect, ListEffect, GivesUpEffect
    <3>2. bpc'[n] # "record"
      BY <2>1, <2>3, PickEffect, CountEffect, ListEffect, GivesUpEffect
    <3> QED
      BY <1>1, <3>1, <3>2, QuietKeepsTruth DEF tableVars
  <2> QED
    BY <1>2, <2>2, <2>3
<1>3. ASSUME \/ UNCHANGED vars
             \/ \E u \in Users : SignUp(u) \/ DeleteUser(u) \/ Ban(u) \/ Unban(u)
             \/ \E target \in TargetType : Enqueue(target)
      PROVE  TruthInv'
  <2>1. UNCHANGED <<rows, received, bpc, loc>>
    BY <1>3, UsersEffect, EnqueueEffect DEF vars
  <2> QED
    BY <2>1 DEF TruthInv, SentMeansReceived, Received, Current
<1> QED
  BY <1>2, <1>3, SendKeepsTruth, RecordKeepsTruth DEF Next, WorkerStep

\* A delivery row says sent only if the user got the message: the row is
\* written after the call, with what the call returned.
THEOREM RowsTellTheTruth == Spec => []SentMeansReceived
<1>1. Init => TruthInv
  <2>1. ASSUME Init PROVE SentMeansReceived /\ \A n \in Nodes : bpc[n] # "record"
    BY <2>1 DEF Init, SentMeansReceived
  <2> QED
    BY <2>1 DEF TruthInv, Received
<1>2. ShapeInv /\ TruthInv /\ [Next]_vars => TruthInv'
  BY NextKeepsTruth
<1>3. TruthInv => SentMeansReceived
  BY DEF TruthInv
<1> QED
  BY <1>1, <1>2, <1>3, InitShape, NextKeepsShape, PTL DEF Spec

----------------------------------------------------------------------------
(* One run over the pages: nobody twice, nobody skipped.                   *)

\* u is the first of the recipients S.
First(S, u) == u \in S /\ \A v \in S : u <= v

\* Where a run stands in the list M of recipients: whom it has attempted is
\* listed before its place, and the rest of its page is a stretch of the list
\* that starts at its place or before.
InPlace(pc, todo, offset, tried, M) ==
    /\ \A u \in todo : First(todo, u) => Below(M, u) <= offset
    /\ \A u \in tried : (pc = "record" /\ First(todo, u)) \/ Below(M, u) < offset
    /\ \A a, b \in todo : \A v \in M : a < v /\ v < b => v \in todo
    /\ pc = "send" => todo \cap tried = {}
    /\ pc = "record" => \A u \in todo : u \in tried <=> First(todo, u)

\* The recipients have been counted.
Counted(pc) == pc \in {"list", "send", "record", "progress", "finish"}

\* Whoever was there at the start has been attempted, is on the page, or is
\* listed after it, unless somebody left.
Covers(pc, todo, offset, tried, begun, M) ==
    Counted(pc) =>
        /\ \A x \in M \ begun : \A u \in begun : u < x
        /\ begun \subseteq M =>
              \A u \in begun : \/ u \in tried \/ u \in todo
                               \/ /\ pc # "finish"
                                  /\ Below(M, u) >= offset + Cardinality(todo)

\* The run of n, if it has claimed an unfiltered broadcast.
RunInv(n) ==
    Claimed(n) /\ Steady(loc[n].job) =>
        /\ loc[n].todo \cup loc[n].tried \cup loc[n].begun \subseteq Known(TargetOf(n))
        /\ InPlace(bpc[n], loc[n].todo, loc[n].offset, loc[n].tried, Matching(TargetOf(n)))
        /\ Covers(bpc[n], loc[n].todo, loc[n].offset, loc[n].tried, loc[n].begun,
                  Matching(TargetOf(n)))

RunsInv == \A n \in Nodes : RunInv(n)

\* The list M has become L: members of M left, new ones are above all of K.
NewAbove(M, L, K) == \A v \in L : v \in M \/ \A w \in K : w < v

\* The list changes under the run.
LEMMA ListChanges ==
    ASSUME NEW M \in SUBSET Nat, IsFiniteSet(M), NEW L \in SUBSET Nat, IsFiniteSet(L),
           NEW K \in SUBSET Nat, NewAbove(M, L, K),
           NEW pc, NEW offset \in Nat, NEW todo \in SUBSET K, NEW tried \in SUBSET K,
           NEW begun \in SUBSET K, Cardinality(todo) \in Nat,
           InPlace(pc, todo, offset, tried, M), Covers(pc, todo, offset, tried, begun, M)
    PROVE  InPlace(pc, todo, offset, tried, L) /\ Covers(pc, todo, offset, tried, begun, L)
<1>1. ASSUME NEW v \in L, NEW u \in K, v <= u PROVE v \in M
  <2>1. v \in Nat /\ u \in Nat
    OBVIOUS
  <2> QED
    BY <1>1, <2>1 DEF NewAbove
<1>2. ASSUME NEW u \in K
      PROVE  Below(L, u) \in Nat /\ Below(M, u) \in Nat /\ Below(L, u) <= Below(M, u)
  <2>1. u \in Nat /\ \A v \in L : v < u => v \in M
    <3>1. \A v \in L : v \in Nat
      OBVIOUS
    <3> QED
      BY <1>1, <3>1
  <2> QED
    BY <2>1, BelowShrinks, BelowType
<1>3. InPlace(pc, todo, offset, tried, L)
  <2>1. \A u \in todo : First(todo, u) => Below(L, u) <= offset
    BY <1>2 DEF InPlace
  <2>2. \A u \in tried : (pc = "record" /\ First(todo, u)) \/ Below(L, u) < offset
    BY <1>2 DEF InPlace
  <2>3. \A a, b \in todo : \A v \in L : a < v /\ v < b => v \in todo
    <3>1. \A b \in todo : \A v \in L : v < b => v \in M
      <4>1. \A b \in todo : b \in K /\ b \in Nat
        OBVIOUS
      <4>2. \A v \in L : v \in Nat
        OBVIOUS
      <4> QED
        BY <1>1, <4>1, <4>2
    <3> QED
      BY <3>1 DEF InPlace
  <2> QED
    BY <2>1, <2>2, <2>3 DEF InPlace
<1>4. ASSUME Counted(pc) PROVE \A x \in L \ begun : \A u \in begun : u < x
  <2>1. \A u \in begun : u \in K
    OBVIOUS
  <2> QED
    BY <1>4, <2>1 DEF Covers, NewAbove
<1>5. ASSUME Counted(pc), begun \subseteq L, NEW u \in begun
      PROVE  \/ u \in tried \/ u \in todo
             \/ pc # "finish" /\ Below(L, u) >= offset + Cardinality(todo)
  <2>1. begun \subseteq M
    <3>1. \A v \in begun : v \in L /\ v \in K /\ v <= v
      BY <1>5
    <3> QED
      BY <1>1, <3>1
  <2>2. \A v \in M : v < u => v \in L
    <3>1. \A v \in M \ begun : u < v
      BY <1>5 DEF Covers
    <3>2. u \in Nat /\ \A v \in M : v \in Nat
      BY <1>5
    <3> QED
      BY <1>5, <3>1, <3>2
  <2>3. Below(M, u) <= Below(L, u)
    BY <2>2, BelowShrinks
  <2>4. \/ u \in tried \/ u \in todo
        \/ pc # "finish" /\ Below(M, u) >= offset + Cardinality(todo)
    BY <1>5, <2>1 DEF Covers
  <2>5. u \in K
    BY <1>5
  <2> QED
    BY <1>2, <2>3, <2>4, <2>5
<1> QED
  BY <1>3, <1>4, <1>5 DEF Covers

\* The first of a page that is not empty is at the place of the run.
LEMMA PageStarts ==
    ASSUME NEW M \in SUBSET Nat, IsFiniteSet(M), NEW offset \in Nat, NEW page \in SUBSET M,
           \A v \in M : v \in page <=> offset <= Below(M, v) /\ Below(M, v) < offset + BatchSize,
           NEW u \in M, offset <= Below(M, u)
    PROVE  \E w \in page : First(page, w) /\ Below(M, w) = offset
<1>1. PICK w \in M : w <= u /\ Below(M, w) = offset
  BY PlaceTaken
<1>2. w \in page
  BY <1>1, BroadcastAssumption
<1>3. PICK x \in page : \A v \in page : x <= v
  BY <1>2, LeastMember
<1>4. x \in Nat /\ w \in Nat /\ x <= w
  BY <1>2, <1>3
<1>5. Below(M, x) <= offset /\ offset <= Below(M, x) /\ Below(M, x) \in Nat
  BY <1>1, <1>3, <1>4, BelowFollows, BelowType
<1> QED
  BY <1>3, <1>5 DEF First

\* ListRecipients puts the next page before the run.
LEMMA PageListed ==
    ASSUME NEW M \in SUBSET Nat, IsFiniteSet(M), NEW offset \in Nat, NEW page \in SUBSET M,
           \A v \in M : v \in page <=> offset <= Below(M, v) /\ Below(M, v) < offset + BatchSize,
           NEW tried, NEW begun \in SUBSET Nat,
           InPlace("list", {}, offset, tried, M), Covers("list", {}, offset, tried, begun, M)
    PROVE  LET there == IF page = {} THEN "finish" ELSE "send"
           IN  /\ InPlace(there, page, offset, tried, M)
               /\ Covers(there, page, offset, tried, begun, M)
<1> DEFINE there == IF page = {} THEN "finish" ELSE "send"
<1>1. \A v \in M : v \in Nat /\ Below(M, v) \in Nat
  BY BelowType
<1>2. ASSUME NEW u \in page, First(page, u) PROVE Below(M, u) <= offset
  <2>1. u \in M /\ offset <= Below(M, u)
    OBVIOUS
  <2>2. PICK w \in page : First(page, w) /\ Below(M, w) = offset
    BY <2>1, PageStarts
  <2>3. u \in Nat /\ w \in Nat /\ u <= w /\ w <= u
    BY <1>1, <1>2, <2>2 DEF First
  <2> QED
    BY <2>2, <2>3
<1>3. \A u \in tried : Below(M, u) < offset
  BY DEF InPlace
<1>4. ASSUME NEW a \in page, NEW b \in page, NEW v \in M, a < v, v < b PROVE v \in page
  <2>1. a \in M /\ b \in M /\ a <= v /\ v <= b
    BY <1>1, <1>4
  <2>2. Below(M, a) <= Below(M, v) /\ Below(M, v) <= Below(M, b)
    BY <1>1, <2>1, BelowFollows
  <2>3. offset <= Below(M, a) /\ Below(M, b) < offset + BatchSize
    BY <2>1
  <2> QED
    BY <1>1, <2>1, <2>2, <2>3, BroadcastAssumption
<1>5. page \cap tried = {}
  <2>1. ASSUME NEW u \in page, u \in tried PROVE FALSE
    <3>1. u \in M /\ offset <= Below(M, u) /\ Below(M, u) < offset
      BY <1>3, <2>1
    <3> QED
      BY <1>1, <3>1
  <2> QED
    BY <2>1
<1>6. ASSUME begun \subseteq M, NEW u \in begun
      PROVE  \/ u \in tried \/ u \in page
             \/ there # "finish" /\ Below(M, u) >= offset + Cardinality(page)
  <2>1. u \in M
    BY <1>6
  <2>2. CASE Below(M, u) >= offset /\ u \notin page
    <3>1. PICK w \in page : First(page, w) /\ Below(M, w) = offset
      BY <2>1, <2>2, <1>1, PageStarts
    <3>2. ASSUME NEW v \in page PROVE w <= v /\ v < u
      <4>1. v \in M /\ v \in Nat /\ u \in Nat /\ Below(M, v) < offset + BatchSize
        BY <1>1, <2>1
      <4>2. Below(M, u) >= offset + BatchSize
        BY <1>1, <2>1, <2>2, BroadcastAssumption
      <4>3. u <= v => Below(M, u) <= Below(M, v)
        BY <4>1, BelowFollows
      <4> QED
        BY <1>1, <2>1, <3>1, <4>1, <4>2, <4>3, BroadcastAssumption DEF First
    <3>3. w \in Nat /\ u \in Nat /\ w < u
      BY <1>1, <2>1, <3>2
    <3>4. Below(M, w) + Cardinality(page) <= Below(M, u) /\ Cardinality(page) \in Nat
      BY <3>2, <3>3, AfterPage
    <3> QED
      BY <1>1, <2>1, <3>1, <3>4
  <2>3. u \in tried \/ Below(M, u) >= offset
    BY <1>1, <1>6, <2>1, FS_EmptySet DEF Covers, Counted
  <2> QED
    BY <2>2, <2>3
<1>7. \A x \in M \ begun : \A u \in begun : u < x
  BY DEF Covers, Counted
<1>8. InPlace(there, page, offset, tried, M)
  BY <1>2, <1>3, <1>4, <1>5 DEF InPlace
<1>9. Covers(there, page, offset, tried, begun, M)
  BY <1>6, <1>7 DEF Covers
<1> QED
  BY <1>8, <1>9

\* SendTextMessage to the first of the page.
LEMMA FirstSent ==
    ASSUME NEW M, NEW offset, NEW todo, NEW tried, NEW begun, NEW u \in todo, First(todo, u),
           \A w \in todo : First(todo, w) => w = u,
           InPlace("send", todo, offset, tried, M), Covers("send", todo, offset, tried, begun, M)
    PROVE  /\ InPlace("record", todo, offset, tried \cup {u}, M)
           /\ Covers("record", todo, offset, tried \cup {u}, begun, M)
<1>1. InPlace("record", todo, offset, tried \cup {u}, M)
  <2>1. \A w \in tried : Below(M, w) < offset
    BY DEF InPlace
  <2>2. \A w \in todo : w \in tried \cup {u} <=> First(todo, w)
    BY DEF InPlace
  <2> QED
    BY <2>1, <2>2 DEF InPlace
<1> QED
  BY <1>1 DEF Covers, Counted

\* The run moves on by one: the place and the page stay together.
LEMMA FirstDone ==
    ASSUME NEW M \in SUBSET Nat, IsFiniteSet(M), NEW offset \in Nat,
           NEW todo \in SUBSET Nat, IsFiniteSet(todo), NEW tried \in SUBSET Nat,
           NEW begun \in SUBSET Nat,
           NEW u \in todo, First(todo, u), NEW there \in {"send", "progress"},
           InPlace("record", todo, offset, tried, M),
           Covers("record", todo, offset, tried, begun, M)
    PROVE  /\ InPlace(there, todo \ {u}, offset + 1, tried, M)
           /\ Covers(there, todo \ {u}, offset + 1, tried, begun, M)
<1> DEFINE rest == todo \ {u}
<1>1. /\ u \in Nat /\ \A v \in M : v \in Nat
      /\ \A v \in todo : v \in Nat /\ u <= v /\ (v # u => u < v)
  BY DEF First
<1>2. Below(M, u) \in Nat /\ Below(M, u) <= offset
  BY BelowType DEF InPlace
<1>3. ASSUME NEW w \in rest, First(rest, w) PROVE Below(M, w) <= offset + 1
  <2>1. w \in todo /\ w \in Nat /\ Below(M, w) \in Nat
    BY <1>1, BelowType
  <2>2. ASSUME NEW v \in M, u < v, v < w PROVE FALSE
    <3>1. v \in todo
      BY <2>1, <2>2 DEF InPlace
    <3>2. v \in rest /\ v \in Nat
      BY <1>1, <2>2, <3>1
    <3> QED
      BY <1>3, <2>1, <2>2, <3>2 DEF First
  <2>3. Below(M, w) <= Below(M, u) + 1
    BY <1>1, <2>1, <2>2, BelowNext
  <2> QED
    BY <1>2, <2>1, <2>3
<1>4. ASSUME NEW w \in tried PROVE Below(M, w) < offset + 1
  <2>1. Below(M, w) \in Nat
    BY BelowType
  <2>2. First(todo, w) => w = u
    BY <1>1 DEF First
  <2> QED
    BY <1>2, <2>1, <2>2 DEF InPlace
<1>5. ASSUME NEW a \in rest, NEW b \in rest, NEW v \in M, a < v, v < b PROVE v \in rest
  <2>1. v \in todo
    BY <1>5 DEF InPlace
  <2>2. v # u
    BY <1>1, <1>5
  <2> QED
    BY <2>1, <2>2
<1>6. rest \cap tried = {}
  <2>1. \A v \in rest : ~First(todo, v)
    BY <1>1 DEF First
  <2> QED
    BY <2>1 DEF InPlace
<1>7. InPlace(there, rest, offset + 1, tried, M)
  BY <1>3, <1>4, <1>5, <1>6 DEF InPlace
<1>8. /\ Cardinality(rest) = Cardinality(todo) - 1
      /\ Cardinality(todo) \in Nat /\ Cardinality(rest) \in Nat
  BY FS_RemoveElement, FS_CardinalityType
<1>9. u \in tried
  BY DEF InPlace
<1>10. Covers(there, rest, offset + 1, tried, begun, M)
  <2>1. \A x \in M \ begun : \A w \in begun : w < x
    BY DEF Covers, Counted
  <2>2. ASSUME begun \subseteq M, NEW w \in begun
        PROVE  w \in tried \/ w \in rest \/ Below(M, w) >= offset + 1 + Cardinality(rest)
    <3>1. w \in tried \/ w \in todo \/ Below(M, w) >= offset + Cardinality(todo)
      BY <2>2 DEF Covers, Counted
    <3>2. Below(M, w) \in Nat
      BY <2>2, BelowType
    <3> HIDE DEF rest
    <3>3. offset + Cardinality(todo) = offset + 1 + Cardinality(rest)
      BY <1>8
    <3>4. w \in todo => w = u \/ w \in rest
      BY DEF rest
    <3> QED
      BY <1>9, <3>1, <3>3, <3>4
  <2> QED
    BY <2>1, <2>2 DEF Covers
<1> QED
  BY <1>7, <1>10

\* What a run refers to is finite, and numbers.
LEMMA RunTypes ==
    ASSUME ShapeInv, NEW n \in Nodes, Claimed(n)
    PROVE  /\ Matching(TargetOf(n)) \in SUBSET Nat /\ IsFiniteSet(Matching(TargetOf(n)))
           /\ Matching(TargetOf(n)) \subseteq Known(TargetOf(n)) \/ ~Steady(loc[n].job)
           /\ Known(TargetOf(n)) \in SUBSET Nat
           /\ loc[n].todo \in SUBSET Nat /\ IsFiniteSet(loc[n].todo)
           /\ loc[n].tried \in SUBSET Nat /\ loc[n].begun \in SUBSET Nat
           /\ loc[n].offset \in Nat /\ Cardinality(loc[n].todo) \in Nat
           /\ Steady(loc[n].job) => TargetOf(n) \in {"all", "selected"}
<1>1. TypeOK /\ TargetOf(n) \in TargetType /\ TargetOf(n) = jobs[loc[n].job].spec
  BY ClaimedJob DEF ShapeInv
<1>2. Matching(TargetOf(n)) \in SUBSET Nat /\ IsFiniteSet(Matching(TargetOf(n)))
  BY <1>1, MatchingType
<1>3. Steady(loc[n].job) => TargetOf(n) \in {"all", "selected"}
  BY <1>1 DEF TargetType, Steady
<1>4. /\ Known(TargetOf(n)) \in SUBSET Nat
      /\ Matching(TargetOf(n)) \subseteq Known(TargetOf(n)) \/ ~Steady(loc[n].job)
  BY <1>1, <1>3, BroadcastAssumption DEF TypeOK, Known, Matching
<1>5. loc[n].todo \in SUBSET Users /\ loc[n].tried \in SUBSET Users
      /\ loc[n].begun \in SUBSET Users /\ loc[n].offset \in Nat
  BY <1>1, LocalTypes
<1> QED
  BY <1>2, <1>3, <1>4, <1>5, BroadcastAssumption, FS_Subset, FS_CardinalityType

\* A run notices nothing of a step that leaves it, the users and the target alone.
LEMMA KeepsRun ==
    ASSUME NEW n \in Nodes, RunInv(n), bpc'[n] = bpc[n], loc'[n] = loc[n],
           Claimed(n) => jobs'[loc[n].job].spec = jobs[loc[n].job].spec,
           UNCHANGED userVars
    PROVE  RunInv(n)'
<1> SUFFICES ASSUME Claimed(n), Steady(loc[n].job)
             PROVE  RunInv(n)'
  BY DEF RunInv, Claimed, Steady
<1>1. TargetOf(n)' = TargetOf(n)
  BY DEF TargetOf
<1>2. /\ Matching(TargetOf(n))' = Matching(TargetOf(n))
      /\ Known(TargetOf(n))' = Known(TargetOf(n))
  BY <1>1 DEF Matching, Known, userVars
<1>3. InPlace(bpc[n], loc[n].todo, loc[n].offset, loc[n].tried, Matching(TargetOf(n)))'
         = InPlace(bpc[n], loc[n].todo, loc[n].offset, loc[n].tried, Matching(TargetOf(n)))
  BY <1>2 DEF InPlace, First, Below
<1>4. Covers(bpc[n], loc[n].todo, loc[n].offset, loc[n].tried, loc[n].begun,
             Matching(TargetOf(n)))'
         = Covers(bpc[n], loc[n].todo, loc[n].offset, loc[n].tried, loc[n].begun,
                  Matching(TargetOf(n)))
  BY <1>2 DEF Covers, Counted, Below
<1> QED
  BY <1>2, <1>3, <1>4 DEF RunInv

\* A process's step leaves the runs of the others alone.
LEMMA OthersKeepRuns ==
    ASSUME ShapeInv, RunsInv, NEW n \in Nodes, Alone(n), UNCHANGED userVars,
           \A j \in DOMAIN jobs : jobs'[j].spec = jobs[j].spec, RunInv(n)'
    PROVE  RunsInv'
<1>1. ASSUME NEW m \in Nodes \ {n} PROVE RunInv(m)'
  <2>1. Claimed(m) => loc[m].job \in DOMAIN jobs
    BY ClaimedJob
  <2>2. bpc'[m] = bpc[m] /\ loc'[m] = loc[m] /\ RunInv(m)
    BY DEF Alone, RunsInv
  <2> QED
    BY <2>1, <2>2, KeepsRun
<1> QED
  BY <1>1 DEF RunsInv

\* The state of a run after a step, the list being M then.
LEMMA RunAfter ==
    ASSUME NEW n \in Nodes, NEW M, NEW K,
           Matching(TargetOf(n))' = M, Known(TargetOf(n))' = K,
           Steady(loc[n].job)' =>
              /\ loc'[n].todo \cup loc'[n].tried \cup loc'[n].begun \subseteq K
              /\ InPlace(bpc'[n], loc'[n].todo, loc'[n].offset, loc'[n].tried, M)
              /\ Covers(bpc'[n], loc'[n].todo, loc'[n].offset, loc'[n].tried,
                        loc'[n].begun, M)
    PROVE  RunInv(n)'
BY DEF RunInv, InPlace, Covers, First, Below, Counted

\* A process that gives up, or has not claimed yet, has no run.
LEMMA NoRun ==
    ASSUME NEW n \in Nodes, bpc'[n] \in {"down", "idle", "picked"}
    PROVE  RunInv(n)'
BY DEF RunInv, Claimed

\* A run begins with nothing.
LEMMA RunBegins ==
    ASSUME NEW n \in Nodes, bpc'[n] \in {"count", "abort"}, loc'[n].todo = {},
           loc'[n].tried = {}, loc'[n].begun = {}
    PROVE  RunInv(n)'
BY DEF RunInv, InPlace, Covers, Counted

\* The claim starts a run.
LEMMA ClaimKeepsRuns ==
    ASSUME ShapeInv, RunsInv, NEW n \in Nodes, ClaimWins(n)
    PROVE  RunsInv'
<1>1. /\ Alone(n) /\ bpc'[n] = "count" /\ UNCHANGED userVars /\ loc'[n] = loc[n]
      /\ \A j \in DOMAIN jobs : jobs'[j].spec = jobs[j].spec
      /\ loc[n] = [NoLocals EXCEPT !.job = loc[n].job]
  BY ClaimWinsEffect
<1>2. loc[n].todo = {} /\ loc[n].tried = {} /\ loc[n].begun = {}
  BY <1>1 DEF NoLocals
<1>3. RunInv(n)'
  BY <1>1, <1>2, RunBegins
<1> QED
  BY <1>1, <1>3, OthersKeepRuns

\* CountRecipients: all of them are still to come.
LEMMA CountKeepsRuns ==
    ASSUME ShapeInv, RunsInv, NEW n \in Nodes, Count(n)
    PROVE  RunsInv'
<1>1. /\ Alone(n) /\ UNCHANGED userVars /\ UNCHANGED jobs
      /\ bpc[n] = "count" /\ bpc'[n] \in {"abort", "list"}
      /\ loc'[n].job = loc[n].job /\ loc'[n].offset = 0 /\ loc'[n].todo = {}
      /\ loc'[n].tried = {} /\ loc'[n].begun = Matching(TargetOf(n))
  BY CountEffect DEF tableVars
<1>2. Claimed(n)
  BY <1>1 DEF Claimed
<1> DEFINE M == Matching(TargetOf(n))
<1>3. TargetOf(n)' = TargetOf(n) /\ Matching(TargetOf(n))' = M
      /\ Known(TargetOf(n))' = Known(TargetOf(n))
  BY <1>1 DEF TargetOf, Matching, Known, userVars
<1>4. ASSUME Steady(loc[n].job)
      PROVE  /\ {} \cup {} \cup M \subseteq Known(TargetOf(n))
             /\ InPlace(bpc'[n], {}, 0, {}, M) /\ Covers(bpc'[n], {}, 0, {}, M, M)
  <2>1. M \subseteq Known(TargetOf(n)) /\ \A u \in M : Below(M, u) \in Nat
    BY <1>2, <1>4, RunTypes, BelowType
  <2>2. Covers(bpc'[n], {}, 0, {}, M, M)
    <3>1. bpc'[n] # "finish" /\ Cardinality({}) = 0
      BY <1>1, FS_EmptySet
    <3>2. \A u \in M : Below(M, u) >= 0 + 0
      BY <2>1
    <3> HIDE DEF M
    <3> QED
      BY <3>1, <3>2 DEF Covers
  <2>3. InPlace(bpc'[n], {}, 0, {}, M)
    BY DEF InPlace
  <2> QED
    BY <2>1, <2>2, <2>3
<1>5. Steady(loc[n].job)' = Steady(loc[n].job)
  BY <1>1 DEF Steady
<1>6. loc'[n].begun = M
  BY <1>1
<1> HIDE DEF M
<1>7. RunInv(n)'
  BY <1>1, <1>3, <1>4, <1>5, <1>6, RunAfter
<1> QED
  BY <1>1, <1>7, OthersKeepRuns

\* A claimed run, before the step that changes its place.
LEMMA RunBefore ==
    ASSUME RunsInv, NEW n \in Nodes, Claimed(n), Steady(loc[n].job)
    PROVE  /\ loc[n].todo \cup loc[n].tried \cup loc[n].begun \subseteq Known(TargetOf(n))
           /\ InPlace(bpc[n], loc[n].todo, loc[n].offset, loc[n].tried, Matching(TargetOf(n)))
           /\ Covers(bpc[n], loc[n].todo, loc[n].offset, loc[n].tried, loc[n].begun,
                     Matching(TargetOf(n)))
BY DEF RunsInv, RunInv

\* What a step of the process that changes no table leaves of its list.
LEMMA ListStays ==
    ASSUME NEW n \in Nodes, UNCHANGED userVars, loc'[n].job = loc[n].job,
           jobs'[loc[n].job].spec = jobs[loc[n].job].spec
    PROVE  /\ Matching(TargetOf(n))' = Matching(TargetOf(n))
           /\ Known(TargetOf(n))' = Known(TargetOf(n))
           /\ Steady(loc[n].job)' = Steady(loc[n].job)
<1>1. TargetOf(n)' = TargetOf(n)
  BY DEF TargetOf
<1> QED
  BY <1>1 DEF Matching, Known, userVars, Steady

\* ListRecipients.
LEMMA ListKeepsRuns ==
    ASSUME ShapeInv, RunsInv, NEW n \in Nodes, List(n)
    PROVE  RunsInv'
<1>1. /\ Alone(n) /\ UNCHANGED userVars /\ UNCHANGED jobs
      /\ bpc[n] = "list" /\ loc[n].todo = {} /\ loc'[n].job = loc[n].job
      /\ loc'[n].todo = Page(TargetOf(n), loc[n].offset)
      /\ bpc'[n] = IF loc'[n].todo = {} THEN "finish" ELSE "send"
      /\ loc'[n].offset = loc[n].offset
      /\ loc'[n].tried = loc[n].tried /\ loc'[n].begun = loc[n].begun
  BY ListEffect DEF tableVars
<1>2. Claimed(n)
  BY <1>1 DEF Claimed
<1> DEFINE M == Matching(TargetOf(n))
           page == loc'[n].todo
<1>3. /\ Matching(TargetOf(n))' = M /\ Known(TargetOf(n))' = Known(TargetOf(n))
      /\ Steady(loc[n].job)' = Steady(loc[n].job)
  BY <1>1, ListStays
<1>4. ASSUME Steady(loc[n].job)
      PROVE  /\ page \cup loc'[n].tried \cup loc'[n].begun \subseteq Known(TargetOf(n))
             /\ InPlace(bpc'[n], page, loc'[n].offset, loc'[n].tried, M)
             /\ Covers(bpc'[n], page, loc'[n].offset, loc'[n].tried, loc'[n].begun, M)
  <2>1. /\ M \in SUBSET Nat /\ IsFiniteSet(M) /\ M \subseteq Known(TargetOf(n))
        /\ loc[n].offset \in Nat /\ loc[n].begun \in SUBSET Nat
    BY <1>2, <1>4, RunTypes
  <2>2. /\ page \in SUBSET M
        /\ \A v \in M : v \in page <=> /\ loc[n].offset <= Below(M, v)
                                       /\ Below(M, v) < loc[n].offset + BatchSize
    <3>1. TypeOK /\ TargetOf(n) \in TargetType
      BY <1>2, ClaimedJob DEF ShapeInv
    <3> QED
      BY <1>1, <2>1, <3>1, PageType
  <2>3. /\ loc[n].tried \cup loc[n].begun \subseteq Known(TargetOf(n))
        /\ InPlace("list", {}, loc[n].offset, loc[n].tried, M)
        /\ Covers("list", {}, loc[n].offset, loc[n].tried, loc[n].begun, M)
    BY <1>1, <1>2, <1>4, RunBefore
  <2> HIDE DEF M, page
  <2>4. LET there == IF page = {} THEN "finish" ELSE "send"
        IN  /\ InPlace(there, page, loc[n].offset, loc[n].tried, M)
            /\ Covers(there, page, loc[n].offset, loc[n].tried, loc[n].begun, M)
    BY <2>1, <2>2, <2>3, PageListed
  <2>5. bpc'[n] = IF page = {} THEN "finish" ELSE "send"
    BY <1>1 DEF page
  <2> QED
    BY <1>1, <2>1, <2>2, <2>3, <2>4, <2>5
<1> HIDE DEF M
<1>5. RunInv(n)'
  BY <1>3, <1>4, RunAfter
<1> QED
  BY <1>1, <1>5, OthersKeepRuns

\* SendTextMessage.
LEMMA SendKeepsRuns ==
    ASSUME ShapeInv, RunsInv, NEW n \in Nodes, Send(n)
    PROVE  RunsInv'
<1>1. /\ Alone(n) /\ UNCHANGED userVars /\ UNCHANGED jobs
      /\ bpc[n] = "send" /\ bpc'[n] = "record" /\ loc'[n].job = loc[n].job
      /\ loc'[n].todo = loc[n].todo /\ loc'[n].offset = loc[n].offset
      /\ loc'[n].begun = loc[n].begun
  BY SendEffect
<1>2. PICK u \in loc[n].todo : Current(n, u) /\ loc'[n].tried = loc[n].tried \cup {u}
  BY SendEffect
<1>3. Claimed(n)
  BY <1>1 DEF Claimed
<1> DEFINE M == Matching(TargetOf(n))
<1>4. /\ Matching(TargetOf(n))' = M /\ Known(TargetOf(n))' = Known(TargetOf(n))
      /\ Steady(loc[n].job)' = Steady(loc[n].job)
  BY <1>1, ListStays
<1>5. ASSUME Steady(loc[n].job)
      PROVE  /\ loc[n].todo \cup loc'[n].tried \cup loc[n].begun \subseteq Known(TargetOf(n))
             /\ InPlace("record", loc[n].todo, loc[n].offset, loc'[n].tried, M)
             /\ Covers("record", loc[n].todo, loc[n].offset, loc'[n].tried, loc[n].begun, M)
  <2>1. /\ loc[n].todo \cup loc[n].tried \cup loc[n].begun \subseteq Known(TargetOf(n))
        /\ InPlace("send", loc[n].todo, loc[n].offset, loc[n].tried, M)
        /\ Covers("send", loc[n].todo, loc[n].offset, loc[n].tried, loc[n].begun, M)
    BY <1>1, <1>3, <1>5, RunBefore
  <2>2. First(loc[n].todo, u)
    BY <1>2 DEF Current, First
  <2>3. ASSUME NEW w \in loc[n].todo, First(loc[n].todo, w) PROVE w = u
    <3>1. Current(n, w) /\ TypeOK
      BY <2>3 DEF Current, First, ShapeInv
    <3> QED
      BY <1>2, <3>1, OneCurrent
  <2> HIDE DEF M
  <2>4. /\ InPlace("record", loc[n].todo, loc[n].offset, loc[n].tried \cup {u}, M)
        /\ Covers("record", loc[n].todo, loc[n].offset, loc[n].tried \cup {u},
                  loc[n].begun, M)
    BY <2>1, <2>2, <2>3, FirstSent
  <2> QED
    BY <1>2, <2>1, <2>4
<1> HIDE DEF M
<1>6. RunInv(n)'
  BY <1>1, <1>4, <1>5, RunAfter
<1> QED
  BY <1>1, <1>6, OthersKeepRuns

\* On to the next recipient.
LEMMA AdvanceKeepsRuns ==
    ASSUME ShapeInv, RunsInv, NEW n \in Nodes, bpc[n] = "record", NEW u \in loc[n].todo,
           Current(n, u), Advance(n, u), UNCHANGED jobs, UNCHANGED userVars
    PROVE  RunsInv'
<1>1. /\ Alone(n) /\ bpc'[n] = IF loc[n].todo = {u} THEN "progress" ELSE "send"
      /\ loc'[n].todo = loc[n].todo \ {u} /\ loc'[n].offset = loc[n].offset + 1
      /\ loc'[n].job = loc[n].job
      /\ loc'[n].tried = loc[n].tried /\ loc'[n].begun = loc[n].begun
  BY AdvanceEffect
<1>2. Claimed(n)
  BY DEF Claimed
<1> DEFINE M == Matching(TargetOf(n))
<1>3. /\ Matching(TargetOf(n))' = M /\ Known(TargetOf(n))' = Known(TargetOf(n))
      /\ Steady(loc[n].job)' = Steady(loc[n].job)
  BY <1>1, ListStays
<1>4. ASSUME Steady(loc[n].job)
      PROVE  /\ (loc[n].todo \ {u}) \cup loc[n].tried \cup loc[n].begun
                   \subseteq Known(TargetOf(n))
             /\ InPlace(bpc'[n], loc[n].todo \ {u}, loc[n].offset + 1, loc[n].tried, M)
             /\ Covers(bpc'[n], loc[n].todo \ {u}, loc[n].offset + 1, loc[n].tried,
                       loc[n].begun, M)
  <2>1. /\ loc[n].todo \cup loc[n].tried \cup loc[n].begun \subseteq Known(TargetOf(n))
        /\ InPlace("record", loc[n].todo, loc[n].offset, loc[n].tried, M)
        /\ Covers("record", loc[n].todo, loc[n].offset, loc[n].tried, loc[n].begun, M)
    BY <1>2, <1>4, RunBefore
  <2>2. First(loc[n].todo, u) /\ bpc'[n] \in {"send", "progress"}
    BY <1>1 DEF Current, First
  <2>3. /\ M \in SUBSET Nat /\ IsFiniteSet(M) /\ loc[n].offset \in Nat
        /\ loc[n].todo \in SUBSET Nat /\ IsFiniteSet(loc[n].todo)
        /\ loc[n].tried \in SUBSET Nat /\ loc[n].begun \in SUBSET Nat
    BY <1>2, RunTypes
  <2> HIDE DEF M
  <2>4. /\ InPlace(bpc'[n], loc[n].todo \ {u}, loc[n].offset + 1, loc[n].tried, M)
        /\ Covers(bpc'[n], loc[n].todo \ {u}, loc[n].offset + 1, loc[n].tried,
                  loc[n].begun, M)
    BY <2>1, <2>2, <2>3, FirstDone
  <2> QED
    BY <2>1, <2>4
<1> HIDE DEF M
<1>5. RunInv(n)'
  BY <1>1, <1>3, <1>4, RunAfter
<1> QED
  BY <1>1, <1>5, OthersKeepRuns

\* UpdateBroadcastProgress, or the list cannot be read: the run stays where it is.
LEMMA PauseKeepsRuns ==
    ASSUME ShapeInv, RunsInv, NEW n \in Nodes, Alone(n), loc' = loc, UNCHANGED userVars,
           \A j \in DOMAIN jobs : jobs'[j].spec = jobs[j].spec,
           \/ bpc[n] = "progress" /\ bpc'[n] = "list"
           \/ bpc[n] \in {"count", "list"} /\ bpc'[n] = "abort"
    PROVE  RunsInv'
<1>1. Claimed(n) /\ loc'[n] = loc[n]
  BY DEF Claimed
<1>2. loc[n].job \in DOMAIN jobs
  BY <1>1, ClaimedJob
<1> DEFINE M == Matching(TargetOf(n))
<1>3. /\ Matching(TargetOf(n))' = M /\ Known(TargetOf(n))' = Known(TargetOf(n))
      /\ Steady(loc[n].job)' = Steady(loc[n].job)
  BY <1>1, <1>2, ListStays
<1>4. ASSUME Steady(loc[n].job)
      PROVE  /\ loc[n].todo \cup loc[n].tried \cup loc[n].begun \subseteq Known(TargetOf(n))
             /\ InPlace(bpc'[n], loc[n].todo, loc[n].offset, loc[n].tried, M)
             /\ Covers(bpc'[n], loc[n].todo, loc[n].offset, loc[n].tried, loc[n].begun, M)
  <2>1. /\ loc[n].todo \cup loc[n].tried \cup loc[n].begun \subseteq Known(TargetOf(n))
        /\ InPlace(bpc[n], loc[n].todo, loc[n].offset, loc[n].tried, M)
        /\ Covers(bpc[n], loc[n].todo, loc[n].offset, loc[n].tried, loc[n].begun, M)
    BY <1>1, <1>4, RunBefore
  <2> HIDE DEF M
  <2>2. InPlace(bpc'[n], loc[n].todo, loc[n].offset, loc[n].tried, M)
    BY <2>1 DEF InPlace
  <2>3. Covers(bpc'[n], loc[n].todo, loc[n].offset, loc[n].tried, loc[n].begun, M)
    BY <2>1 DEF Covers, Counted
  <2> QED
    BY <2>1, <2>2, <2>3
<1> HIDE DEF M
<1>5. RunInv(n)'
  BY <1>1, <1>3, <1>4, RunAfter
<1> QED
  BY <1>5, OthersKeepRuns

\* Table users changes under the runs.
LEMMA UsersKeepRuns ==
    ASSUME ShapeInv, RunsInv, NEW u \in Users, SignUp(u) \/ DeleteUser(u) \/ Ban(u) \/ Unban(u)
    PROVE  RunsInv'
<1>1. /\ ShapeInv' /\ UNCHANGED <<jobs, bpc, loc>>
      /\ \A target \in {"all", "selected"} :
            /\ Known(target) \subseteq Known(target)'
            /\ \A v \in Matching(target)' :
                  v \in Matching(target) \/ \A w \in Known(target) : w < v
  BY UsersEffect
<1> SUFFICES ASSUME NEW n \in Nodes PROVE RunInv(n)'
  BY DEF RunsInv
<1>2. CASE ~(Claimed(n) /\ Steady(loc[n].job))
  BY <1>1, <1>2 DEF RunInv, Claimed, Steady
<1>3. CASE Claimed(n) /\ Steady(loc[n].job)
  <2> DEFINE M == Matching(TargetOf(n))
             K == Known(TargetOf(n))
             L == Matching(TargetOf(n))'
  <2>1. TargetOf(n)' = TargetOf(n) /\ Claimed(n)'
    BY <1>1, <1>3 DEF TargetOf, Claimed
  <2>2. /\ TargetOf(n) \in {"all", "selected"} /\ loc[n].offset \in Nat
        /\ M \in SUBSET Nat /\ IsFiniteSet(M) /\ K \in SUBSET Nat
        /\ Cardinality(loc[n].todo) \in Nat
    BY <1>3, RunTypes
  <2>3. L \in SUBSET Nat /\ IsFiniteSet(L)
    <3>1. TypeOK' /\ TargetOf(n) \in TargetType
      BY <1>1, <2>2 DEF ShapeInv, TargetType
    <3>2. Matching(TargetOf(n))' \in SUBSET Users
      BY <2>1, <3>1, BroadcastAssumption DEF Matching, TypeOK, TargetType
    <3> QED
      BY <3>2, BroadcastAssumption, FS_Subset
  <2>4. K \subseteq Known(TargetOf(n))' /\ NewAbove(M, L, K)
    <3>1. ASSUME NEW target \in {"all", "selected"}, target = TargetOf(n)
          PROVE  /\ Known(target)' = Known(TargetOf(n))'
                 /\ Matching(target)' = Matching(TargetOf(n))'
      BY <2>1, <3>1 DEF Known, Matching
    <3> QED
      BY <1>1, <2>2, <3>1 DEF NewAbove
  <2>5. /\ loc[n].todo \in SUBSET K /\ loc[n].tried \in SUBSET K /\ loc[n].begun \in SUBSET K
        /\ InPlace(bpc[n], loc[n].todo, loc[n].offset, loc[n].tried, M)
        /\ Covers(bpc[n], loc[n].todo, loc[n].offset, loc[n].tried, loc[n].begun, M)
    BY <1>3, RunBefore
  <2> HIDE DEF M, K, L
  <2>6. /\ InPlace(bpc[n], loc[n].todo, loc[n].offset, loc[n].tried, L)
        /\ Covers(bpc[n], loc[n].todo, loc[n].offset, loc[n].tried, loc[n].begun, L)
    BY <2>2, <2>3, <2>4, <2>5, ListChanges
  <2>7. Matching(TargetOf(n))' = L
    BY DEF L
  <2>8. /\ bpc'[n] = bpc[n] /\ loc'[n] = loc[n]
        /\ loc[n].todo \cup loc[n].tried \cup loc[n].begun \subseteq Known(TargetOf(n))'
    BY <1>1, <2>4, <2>5
  <2> QED
    BY <2>6, <2>7, <2>8, RunAfter
<1> QED
  BY <1>2, <1>3

\* Every step keeps every run in its place.
LEMMA NextKeepsRuns ==
    ASSUME ShapeInv, RunsInv, [Next]_vars
    PROVE  RunsInv'
<1>1. ASSUME NEW n \in Nodes, \/ Start(n) \/ Pick(n) \/ ClaimLoses(n) \/ Crash(n)
                              \/ Finish(n) \/ Abort(n)
      PROVE  RunsInv'
  <2>1. /\ Alone(n) /\ bpc'[n] \in {"down", "idle", "picked"} /\ UNCHANGED userVars
        /\ \A j \in DOMAIN jobs : jobs'[j].spec = jobs[j].spec
    BY <1>1, StartEffect, PickEffect, GivesUpEffect, MarkEffect DEF tableVars
  <2> QED
    BY <2>1, NoRun, OthersKeepRuns
<1>2. ASSUME NEW n \in Nodes, Progress(n) PROVE RunsInv'
  BY <1>2, ProgressEffect, PauseKeepsRuns
<1>3. ASSUME NEW n \in Nodes, Record(n) PROVE RunsInv'
  BY <1>3, RecordEffect, AdvanceKeepsRuns
<1>4. ASSUME NEW n \in Nodes, StatementFails(n) PROVE RunsInv'
  <2>1. Alone(n) /\ UNCHANGED userVars /\ UNCHANGED jobs
    BY <1>4, FailsEffect DEF tableVars
  <2>2. CASE bpc'[n] = "idle" /\ loc'[n] = NoLocals
    BY <2>1, <2>2, NoRun, OthersKeepRuns
  <2>3. CASE \/ bpc[n] \in {"count", "list"} /\ bpc'[n] = "abort" /\ loc' = loc
             \/ bpc[n] = "progress" /\ bpc'[n] = "list" /\ loc' = loc
    BY <2>1, <2>3, PauseKeepsRuns
  <2>4. CASE bpc[n] = "record" /\ \E u \in loc[n].todo : Current(n, u) /\ Advance(n, u)
    BY <2>1, <2>4, AdvanceKeepsRuns
  <2> QED
    BY <1>4, <2>2, <2>3, <2>4, FailsEffect
<1>5. ASSUME \/ UNCHANGED vars
             \/ \E target \in TargetType : Enqueue(target)
      PROVE  RunsInv'
  <2>1. /\ UNCHANGED <<userVars, bpc, loc>>
        /\ \A j \in DOMAIN jobs : jobs'[j].spec = jobs[j].spec
    BY <1>5, EnqueueEffect DEF vars
  <2>2. \A n \in Nodes : Claimed(n) => loc[n].job \in DOMAIN jobs
    BY ClaimedJob
  <2> QED
    BY <2>1, <2>2, KeepsRun DEF RunsInv
<1>6. ASSUME NEW u \in Users, SignUp(u) \/ DeleteUser(u) \/ Ban(u) \/ Unban(u)
      PROVE  RunsInv'
  BY <1>6, UsersKeepRuns
<1> QED
  BY <1>1, <1>2, <1>3, <1>4, <1>5, <1>6, ClaimKeepsRuns, CountKeepsRuns, ListKeepsRuns,
     SendKeepsRuns DEF Next, WorkerStep

\* At the start nothing runs.
LEMMA InitRuns == Init => RunsInv
BY DEF Init, RunsInv, RunInv, Claimed

\* What the place of a run means for the next message and at its end.
LEMMA PlacesMean ==
    ASSUME ShapeInv, RunsInv
    PROVE  NobodyTwiceARun /\ NobodySkipped
<1>1. NobodyTwiceARun
  <2> SUFFICES ASSUME NEW n \in Nodes, bpc[n] = "send", Steady(loc[n].job)
               PROVE  loc[n].todo \cap loc[n].tried = {}
    BY DEF NobodyTwiceARun
  <2>1. Claimed(n)
    BY DEF Claimed
  <2>2. InPlace("send", loc[n].todo, loc[n].offset, loc[n].tried, Matching(TargetOf(n)))
    BY <2>1, RunBefore
  <2> QED
    BY <2>2 DEF InPlace
<1>2. NobodySkipped
  <2> SUFFICES ASSUME NEW n \in Nodes, bpc[n] = "finish", Steady(loc[n].job),
                      loc[n].begun \subseteq Matching(TargetOf(n))
               PROVE  loc[n].begun \subseteq loc[n].tried
    BY DEF NobodySkipped
  <2>1. Claimed(n) /\ loc[n].todo = {}
    BY DEF Claimed, ShapeInv, Shape
  <2>2. Covers("finish", {}, loc[n].offset, loc[n].tried, loc[n].begun, Matching(TargetOf(n)))
    BY <2>1, RunBefore
  <2> QED
    BY <2>2 DEF Covers, Counted
<1> QED
  BY <1>1, <1>2

\* The pages of one run do not overlap, although the table changes under the
\* OFFSET: a run of an unfiltered broadcast attempts nobody twice.
THEOREM AttemptedOnce == Spec => []NobodyTwiceARun
<1>1. ShapeInv /\ RunsInv /\ [Next]_vars => RunsInv'
  BY NextKeepsRuns
<1>2. ShapeInv /\ RunsInv => NobodyTwiceARun
  BY PlacesMean
<1> QED
  BY <1>1, <1>2, InitShape, NextKeepsShape, InitRuns, PTL DEF Spec

\* A run that ends without anybody having left the recipient set attempted
\* everybody who was in it from the start.
THEOREM EveryoneAttempted == Spec => []NobodySkipped
<1>1. ShapeInv /\ RunsInv /\ [Next]_vars => RunsInv'
  BY NextKeepsRuns
<1>2. ShapeInv /\ RunsInv => NobodySkipped
  BY PlacesMean
<1> QED
  BY <1>1, <1>2, InitShape, NextKeepsShape, InitRuns, PTL DEF Spec

----------------------------------------------------------------------------
(* Every claim sends a message at most once.                               *)

\* The processes that have claimed j and not attempted u yet.
Owing(j, u) == {n \in Nodes : Claimed(n) /\ loc[n].job = j /\ u \notin loc[n].tried}

\* How often j has been claimed, at most.
Claims(j) == resets[j] + (IF Pending(j) THEN 0 ELSE 1)

\* A message was sent or is owed under a claim of its own.
ClaimInv(j, u) ==
    Steady(j) => received[j][u] + Cardinality(Owing(j, u)) <= Claims(j)

\* Nothing happened yet to a broadcast that is not queued.
Fresh(j) ==
    resets[j] = 0 /\ \A u \in Users : rows[j][u] = "none" /\ received[j][u] = 0

ClaimsInv ==
    /\ \A j \in DOMAIN jobs, u \in Users : ClaimInv(j, u)
    /\ \A j \in JobIds \ DOMAIN jobs : Fresh(j)

\* The numbers that ClaimInv compares.
LEMMA ClaimTypes ==
    ASSUME TypeOK, NEW j \in DOMAIN jobs, NEW u \in Users
    PROVE  /\ IsFiniteSet(Owing(j, u)) /\ Cardinality(Owing(j, u)) \in Nat
           /\ received[j][u] \in Nat /\ resets[j] \in Nat /\ Claims(j) \in Nat
<1>1. IsFiniteSet(Owing(j, u))
  BY BroadcastAssumption, FS_Subset, Owing(j, u) \in SUBSET Nodes DEF Owing
<1>2. j \in JobIds
  BY JobsType
<1>3. received[j][u] \in Nat /\ resets[j] \in Nat
  BY <1>2 DEF TypeOK
<1> QED
  BY <1>1, <1>3, FS_CardinalityType DEF Claims

\* A step that sends nothing and lets nobody owe more.
LEMMA ClaimKept ==
    ASSUME ShapeInv, NEW j \in DOMAIN jobs, NEW u \in Users, ClaimInv(j, u),
           jobs'[j].spec = jobs[j].spec, received'[j][u] = received[j][u],
           Claims(j)' \in Nat, Claims(j) <= Claims(j)',
           \A n \in Nodes :
              Claimed(n)' /\ loc'[n].job = j /\ u \notin loc'[n].tried =>
                 Claimed(n) /\ loc[n].job = j /\ u \notin loc[n].tried
    PROVE  ClaimInv(j, u)'
<1>1. /\ IsFiniteSet(Owing(j, u)) /\ Cardinality(Owing(j, u)) \in Nat
      /\ received[j][u] \in Nat /\ Claims(j) \in Nat
  BY ClaimTypes DEF ShapeInv
<1> DEFINE after == Owing(j, u)'
<1>2. after \in SUBSET Owing(j, u)
  BY DEF Owing
<1> HIDE DEF after
<1>3. Cardinality(after) \in Nat /\ Cardinality(after) <= Cardinality(Owing(j, u))
  BY <1>1, <1>2, FS_Subset, FS_CardinalityType
<1>4. ASSUME Steady(j)' PROVE received'[j][u] + Cardinality(after) <= Claims(j)'
  <2>1. received[j][u] + Cardinality(Owing(j, u)) <= Claims(j)
    BY <1>4 DEF ClaimInv, Steady
  <2> QED
    BY <1>1, <1>3, <2>1
<1> QED
  BY <1>4 DEF ClaimInv, after

\* A step of one process that neither claims nor sends.
LEMMA QuietKeepsClaims ==
    ASSUME ShapeInv, ShapeInv', ClaimsInv, NEW n \in Nodes, Alone(n),
           Claimed(n)' => Claimed(n) /\ loc'[n].job = loc[n].job /\ loc'[n].tried = loc[n].tried,
           UNCHANGED received, DOMAIN jobs' = DOMAIN jobs,
           \A j \in DOMAIN jobs : jobs'[j].spec = jobs[j].spec /\ Claims(j) <= Claims(j)',
           \A j \in JobIds \ DOMAIN jobs : Fresh(j)'
    PROVE  ClaimsInv'
<1>1. ASSUME NEW j \in DOMAIN jobs, NEW u \in Users PROVE ClaimInv(j, u)'
  <2>1. Claims(j)' \in Nat
    <3>1. j \in JobIds /\ resets' \in [JobIds -> Nat]
      BY JobsType DEF ShapeInv, TypeOK
    <3> QED
      BY <3>1 DEF Claims
  <2>2. ASSUME NEW m \in Nodes, Claimed(m)', loc'[m].job = j, u \notin loc'[m].tried
        PROVE  Claimed(m) /\ loc[m].job = j /\ u \notin loc[m].tried
    BY <2>2 DEF Alone, Claimed
  <2> QED
    BY <2>1, <2>2, ClaimKept DEF ClaimsInv
<1> QED
  BY <1>1 DEF ClaimsInv

\* ResetRunningBroadcasts allows one more claim of what it puts back.
LEMMA StartKeepsClaims ==
    ASSUME ShapeInv, ClaimsInv, NEW n \in Nodes, Start(n)
    PROVE  ClaimsInv'
<1>1. /\ ShapeInv' /\ Alone(n) /\ ~Claimed(n)' /\ UNCHANGED <<rows, received>>
      /\ DOMAIN jobs' = DOMAIN jobs
  BY StartEffect DEF Claimed
<1>2. ASSUME NEW j \in DOMAIN jobs
      PROVE  jobs'[j].spec = jobs[j].spec /\ Claims(j) <= Claims(j)'
  <2>1. resets[j] \in Nat
    BY JobsType DEF ShapeInv, TypeOK
  <2>2. CASE Running(j)
    <3>1. resets'[j] = resets[j] + 1 /\ jobs'[j].spec = jobs[j].spec
      BY <2>2, StartEffect
    <3> QED
      BY <2>1, <3>1 DEF Claims
  <2>3. CASE ~Running(j)
    <3>1. /\ resets'[j] = resets[j] /\ jobs'[j].spec = jobs[j].spec
          /\ jobs'[j].status = jobs[j].status
      BY <2>3, StartEffect
    <3> QED
      BY <2>1, <3>1 DEF Claims, Pending
  <2> QED
    BY <2>2, <2>3
<1>3. \A j \in JobIds \ DOMAIN jobs : Fresh(j)'
  <2>1. \A j \in JobIds \ DOMAIN jobs : resets'[j] = resets[j]
    BY StartEffect
  <2> QED
    BY <1>1, <2>1 DEF ClaimsInv, Fresh
<1> QED
  BY <1>1, <1>2, <1>3, QuietKeepsClaims

\* The claim: one more process owes the message, and one more claim counts.
LEMMA ClaimKeepsClaims ==
    ASSUME ShapeInv, ClaimsInv, NEW n \in Nodes, ClaimWins(n)
    PROVE  ClaimsInv'
<1>1. /\ ShapeInv' /\ Alone(n) /\ loc' = loc /\ Claimed(n)'
      /\ UNCHANGED <<rows, received, resets>>
      /\ loc[n].job \in DOMAIN jobs /\ DOMAIN jobs' = DOMAIN jobs
      /\ Pending(loc[n].job) /\ jobs'[loc[n].job].status = "running"
  BY ClaimWinsEffect DEF Claimed
<1>2. \A j \in DOMAIN jobs : /\ jobs'[j].spec = jobs[j].spec
                             /\ j # loc[n].job => jobs'[j] = jobs[j]
  BY ClaimWinsEffect
<1>3. ASSUME NEW m \in Nodes, Claimed(m)' PROVE m = n \/ Claimed(m)
  BY <1>1, <1>3 DEF Alone, Claimed
<1>4. ASSUME NEW j \in DOMAIN jobs, NEW u \in Users PROVE ClaimInv(j, u)'
  <2>1. /\ IsFiniteSet(Owing(j, u)) /\ Cardinality(Owing(j, u)) \in Nat
        /\ received[j][u] \in Nat /\ resets[j] \in Nat /\ ClaimInv(j, u)
    BY ClaimTypes DEF ShapeInv, ClaimsInv
  <2>2. CASE j # loc[n].job
    <3>1. Claims(j)' = Claims(j) /\ Claims(j) \in Nat
      BY <1>1, <1>2, <2>1, <2>2 DEF Claims, Pending
    <3>2. Claims(j) <= Claims(j)' /\ Claims(j)' \in Nat
      BY <3>1
    <3> QED
      BY <1>1, <1>2, <1>3, <2>1, <2>2, <3>2, ClaimKept
  <2>3. CASE j = loc[n].job
    <3> DEFINE after == Owing(j, u)'
    <3>1. after \in SUBSET (Owing(j, u) \cup {n})
      BY <1>1, <1>3 DEF Owing
    <3> HIDE DEF after
    <3>2. /\ IsFiniteSet(Owing(j, u) \cup {n})
          /\ Cardinality(Owing(j, u) \cup {n}) <= Cardinality(Owing(j, u)) + 1
          /\ Cardinality(Owing(j, u) \cup {n}) \in Nat
      <4> DEFINE owing == Owing(j, u)
      <4>1. IsFiniteSet(owing) /\ Cardinality(owing) \in Nat
        BY <2>1
      <4> HIDE DEF owing
      <4>2. /\ IsFiniteSet(owing \cup {n})
            /\ Cardinality(owing \cup {n})
                  = IF n \in owing THEN Cardinality(owing) ELSE Cardinality(owing) + 1
        BY <4>1, FS_AddElement
      <4>3. /\ IsFiniteSet(owing \cup {n}) /\ Cardinality(owing \cup {n}) \in Nat
            /\ Cardinality(owing \cup {n}) <= Cardinality(owing) + 1
        BY <4>1, <4>2
      <4> QED
        BY <4>3 DEF owing
    <3>3. Cardinality(after) \in Nat /\ Cardinality(after) <= Cardinality(Owing(j, u)) + 1
      BY <2>1, <3>1, <3>2, FS_Subset, FS_CardinalityType
    <3>4. Claims(j) = resets[j] /\ Claims(j)' = resets[j] + 1
      BY <1>1, <2>1, <2>3 DEF Claims, Pending
    <3>5. ASSUME Steady(j)' PROVE received'[j][u] + Cardinality(after) <= Claims(j)'
      <4>1. received[j][u] + Cardinality(Owing(j, u)) <= Claims(j)
        BY <1>2, <2>1, <3>5 DEF ClaimInv, Steady
      <4>2. received'[j][u] = received[j][u]
        BY <1>1
      <4> QED
        BY <2>1, <3>3, <3>4, <4>1, <4>2
    <3> QED
      BY <3>5 DEF ClaimInv, after
  <2> QED
    BY <2>2, <2>3
<1> QED
  BY <1>1, <1>4 DEF ClaimsInv, Fresh

\* SendTextMessage: the process that owed the message owes it no more.
LEMMA SendKeepsClaims ==
    ASSUME ShapeInv, RunsInv, ClaimsInv, NEW n \in Nodes, Send(n)
    PROVE  ClaimsInv'
<1>1. /\ ShapeInv' /\ Alone(n) /\ UNCHANGED <<jobs, rows, resets>>
      /\ bpc[n] = "send" /\ bpc'[n] = "record" /\ loc'[n].job = loc[n].job
      /\ Claimed(n) /\ Claimed(n)'
  BY SendEffect DEF Claimed
<1>2. PICK u \in loc[n].todo :
         /\ Current(n, u) /\ loc'[n].tried = loc[n].tried \cup {u}
         /\ received'[loc[n].job][u]
               \in {received[loc[n].job][u], received[loc[n].job][u] + 1}
         /\ \A j \in JobIds, v \in Users : j # loc[n].job \/ v # u =>
               received'[j][v] = received[j][v]
  BY SendEffect
<1>3. loc[n].job \in DOMAIN jobs /\ DOMAIN jobs \subseteq JobIds /\ TypeOK
  BY <1>1, ClaimedJob, JobsType DEF ShapeInv
<1>4. ASSUME NEW m \in Nodes, Claimed(m)'
      PROVE  /\ Claimed(m) /\ loc'[m].job = loc[m].job
             /\ m # n => loc'[m].tried = loc[m].tried
  BY <1>1, <1>4 DEF Alone, Claimed
<1>5. ASSUME NEW j \in DOMAIN jobs, NEW v \in Users PROVE ClaimInv(j, v)'
  <2>1. /\ IsFiniteSet(Owing(j, v)) /\ Cardinality(Owing(j, v)) \in Nat
        /\ received[j][v] \in Nat /\ Claims(j) \in Nat /\ ClaimInv(j, v)
    BY <1>3, ClaimTypes DEF ClaimsInv
  <2>2. Claims(j)' = Claims(j) /\ Steady(j)' = Steady(j)
    BY <1>1 DEF Claims, Pending, Steady
  <2>3. CASE j # loc[n].job \/ v # u
    <3>1. Claims(j) <= Claims(j)' /\ Claims(j)' \in Nat
      BY <2>1, <2>2
    <3>2. received'[j][v] = received[j][v] /\ jobs'[j].spec = jobs[j].spec
      BY <1>1, <1>2, <1>3, <2>3
    <3>3. \A m \in Nodes : Claimed(m)' /\ loc'[m].job = j /\ v \notin loc'[m].tried =>
                              Claimed(m) /\ loc[m].job = j /\ v \notin loc[m].tried
      BY <1>2, <1>4
    <3> QED
      BY <2>1, <3>1, <3>2, <3>3, ClaimKept
  <2>4. CASE j = loc[n].job /\ v = u
    <3> DEFINE after == Owing(j, v)'
    <3>1. ASSUME Steady(j) PROVE n \in Owing(j, v)
      <4>1. InPlace("send", loc[n].todo, loc[n].offset, loc[n].tried, Matching(TargetOf(n)))
        BY <1>1, <2>4, <3>1, RunBefore
      <4>2. v \notin loc[n].tried
        BY <1>2, <2>4, <4>1 DEF InPlace
      <4> QED
        BY <1>1, <2>4, <4>2 DEF Owing
    <3>2. after \in SUBSET (Owing(j, v) \ {n})
      BY <1>2, <1>4, <2>4 DEF Owing
    <3> HIDE DEF after
    <3>3. ASSUME Steady(j) PROVE received'[j][v] + Cardinality(after) <= Claims(j)
      <4>1. /\ IsFiniteSet(Owing(j, v) \ {n})
            /\ Cardinality(Owing(j, v) \ {n}) = Cardinality(Owing(j, v)) - 1
        BY <2>1, <3>1, <3>3, FS_RemoveElement
      <4>2. /\ Cardinality(after) \in Nat
            /\ Cardinality(after) <= Cardinality(Owing(j, v)) - 1
        BY <3>2, <4>1, FS_Subset, FS_CardinalityType
      <4>3. received[j][v] + Cardinality(Owing(j, v)) <= Claims(j)
        BY <2>1, <3>3 DEF ClaimInv
      <4>4. received'[j][v] = received[j][v] \/ received'[j][v] = received[j][v] + 1
        BY <1>2, <2>4
      <4> QED
        BY <2>1, <4>2, <4>3, <4>4
    <3> QED
      BY <2>2, <3>3 DEF ClaimInv, after
  <2> QED
    BY <2>3, <2>4
<1>6. \A j \in JobIds \ DOMAIN jobs : Fresh(j)'
  BY <1>1, <1>2, <1>3 DEF ClaimsInv, Fresh
<1> QED
  BY <1>1, <1>5, <1>6 DEF ClaimsInv

\* No step of a process makes a broadcast fresh again or takes a claim back,
\* as long as it resets nothing.
LEMMA ClaimsStay ==
    ASSUME ShapeInv, ClaimsInv, UNCHANGED resets, NEW j \in DOMAIN jobs,
           jobs'[j].status = jobs[j].status \/ jobs'[j].status \in {"completed", "failed"}
    PROVE  Claims(j) <= Claims(j)'
<1>1. resets[j] \in Nat
  BY JobsType DEF ShapeInv, TypeOK
<1> QED
  BY <1>1 DEF Claims, Pending

\* MarkBroadcastCompleted, MarkBroadcastFailed, UpdateBroadcastProgress.
LEMMA WritesKeepClaims ==
    ASSUME ShapeInv, ClaimsInv, NEW n \in Nodes, Finish(n) \/ Abort(n) \/ Progress(n)
    PROVE  ClaimsInv'
<1>1. /\ ShapeInv' /\ Alone(n) /\ UNCHANGED <<rows, received, resets>>
      /\ DOMAIN jobs' = DOMAIN jobs
      /\ Claimed(n)' => Claimed(n) /\ loc' = loc
      /\ \A j \in DOMAIN jobs : jobs'[j].spec = jobs[j].spec
  BY MarkEffect, ProgressEffect DEF Claimed
<1>2. ASSUME NEW j \in DOMAIN jobs
      PROVE  jobs'[j].status = jobs[j].status \/ jobs'[j].status \in {"completed", "failed"}
  BY MarkEffect, ProgressEffect
<1>3. \A j \in DOMAIN jobs : Claims(j) <= Claims(j)'
  BY <1>1, <1>2, ClaimsStay
<1>4. \A j \in JobIds \ DOMAIN jobs : Fresh(j)'
  BY <1>1 DEF ClaimsInv, Fresh
<1> QED
  BY <1>1, <1>3, <1>4, QuietKeepsClaims

\* UpsertBroadcastDelivery, and the steps of a process that write nothing.
LEMMA OthersKeepClaims ==
    ASSUME ShapeInv, ClaimsInv, NEW n \in Nodes,
           \/ Pick(n) \/ ClaimLoses(n) \/ Crash(n) \/ Count(n) \/ List(n)
           \/ Record(n) \/ StatementFails(n)
    PROVE  ClaimsInv'
<1>1. ShapeInv' /\ Alone(n) /\ UNCHANGED <<jobs, received, resets>>
  BY PickEffect, GivesUpEffect, CountEffect, ListEffect, RecordEffect, FailsEffect DEF tableVars
<1>2. Claimed(n)' => /\ Claimed(n) /\ loc'[n].job = loc[n].job
                     /\ loc'[n].tried = loc[n].tried
  <2>1. ASSUME bpc[n] = "record", NEW u \in loc[n].todo, Advance(n, u)
        PROVE  Claimed(n) /\ loc'[n].job = loc[n].job /\ loc'[n].tried = loc[n].tried
    BY <1>1, <2>1, AdvanceEffect DEF Claimed
  <2>2. CASE Pick(n) \/ ClaimLoses(n) \/ Crash(n)
    BY <2>2, PickEffect, GivesUpEffect DEF Claimed
  <2>3. CASE Count(n)
    <3>1. loc[n].tried = {}
      BY <2>3 DEF Count, ShapeInv, Shape, NoLocals
    <3> QED
      BY <2>3, <3>1, CountEffect DEF Claimed
  <2>4. CASE List(n)
    BY <2>4, ListEffect DEF Claimed
  <2>5. CASE Record(n)
    BY <2>1, <2>5, RecordEffect
  <2>6. CASE StatementFails(n)
    BY <2>1, <2>6, FailsEffect DEF Claimed
  <2> QED
    BY <2>2, <2>3, <2>4, <2>5, <2>6
<1>3. \A j \in DOMAIN jobs : Claims(j) <= Claims(j)'
  BY <1>1, ClaimsStay
<1>4. \A j \in JobIds \ DOMAIN jobs : Fresh(j)'
  <2>1. CASE Record(n)
    <3>1. loc[n].job \in DOMAIN jobs
      BY <2>1, RecordEffect, ClaimedJob DEF Claimed
    <3>2. DOMAIN jobs \subseteq JobIds
      BY JobsType DEF ShapeInv
    <3>3. PICK u \in loc[n].todo :
             \A j \in JobIds, v \in Users : j # loc[n].job \/ v # u =>
                rows'[j][v] = rows[j][v]
      BY <2>1, RecordEffect
    <3> QED
      BY <1>1, <3>1, <3>3 DEF ClaimsInv, Fresh
  <2>2. CASE ~Record(n)
    <3>1. UNCHANGED rows
      BY <2>2, PickEffect, GivesUpEffect, CountEffect, ListEffect, FailsEffect DEF tableVars
    <3> QED
      BY <1>1, <3>1 DEF ClaimsInv, Fresh
  <2> QED
    BY <2>1, <2>2
<1> QED
  BY <1>1, <1>2, <1>3, <1>4, QuietKeepsClaims

\* An administrator queues a broadcast that nobody has claimed.
LEMMA EnqueueKeepsClaims ==
    ASSUME ShapeInv, ClaimsInv, NEW target \in TargetType, Enqueue(target)
    PROVE  ClaimsInv'
<1>1. PICK new \in JobIds \ DOMAIN jobs :
         /\ ShapeInv' /\ UNCHANGED <<rows, received, resets, bpc, loc>>
         /\ DOMAIN jobs' = DOMAIN jobs \cup {new} /\ jobs'[new].status = "pending"
         /\ \A j \in DOMAIN jobs : jobs'[j] = jobs[j]
  BY EnqueueEffect
<1>2. \A n \in Nodes : Claimed(n)' => Claimed(n) /\ loc[n].job \in DOMAIN jobs
  BY <1>1, ClaimedJob DEF Claimed
<1>3. ASSUME NEW u \in Users PROVE ClaimInv(new, u)'
  <2>1. Owing(new, u)' = {}
    BY <1>1, <1>2 DEF Owing
  <2>2. Fresh(new)
    BY <1>1 DEF ClaimsInv
  <2>3. Claims(new)' = 0 /\ received'[new][u] = 0
    BY <1>1, <2>2 DEF Fresh, Claims, Pending
  <2>4. received'[new][u] + Cardinality({}) <= Claims(new)'
    BY <2>3, FS_EmptySet
  <2> QED
    BY <2>1, <2>4 DEF ClaimInv
<1>4. ASSUME NEW j \in DOMAIN jobs, NEW u \in Users PROVE ClaimInv(j, u)'
  <2>1. ClaimInv(j, u) /\ Claims(j) \in Nat
    BY ClaimTypes DEF ClaimsInv, ShapeInv
  <2>2. Claims(j)' = Claims(j)
    BY <1>1 DEF Claims, Pending
  <2>3. Claims(j) <= Claims(j)' /\ Claims(j)' \in Nat
    BY <2>1, <2>2
  <2> QED
    BY <1>1, <1>2, <2>1, <2>3, ClaimKept
<1> QED
  BY <1>1, <1>3, <1>4 DEF ClaimsInv, Fresh

\* Every step keeps the books on claims.
LEMMA NextKeepsClaims ==
    ASSUME ShapeInv, RunsInv, ClaimsInv, [Next]_vars
    PROVE  ClaimsInv'
<1>1. ASSUME \/ UNCHANGED vars
             \/ \E u \in Users : SignUp(u) \/ DeleteUser(u) \/ Ban(u) \/ Unban(u)
      PROVE  ClaimsInv'
  <2>1. UNCHANGED <<jobs, rows, received, resets, bpc, loc>>
    BY <1>1, UsersEffect DEF vars
  <2> QED
    BY <2>1 DEF ClaimsInv, ClaimInv, Fresh, Steady, Claims, Pending, Owing, Claimed
<1> QED
  BY <1>1, StartKeepsClaims, ClaimKeepsClaims, SendKeepsClaims, WritesKeepClaims,
     OthersKeepClaims, EnqueueKeepsClaims DEF Next, WorkerStep

\* At the start nothing is queued.
LEMMA InitClaims == Init => ClaimsInv
<1> SUFFICES ASSUME Init PROVE ClaimsInv
  OBVIOUS
<1>1. DOMAIN jobs = {}
  BY DEF Init
<1>2. \A j \in JobIds : Fresh(j)
  BY DEF Init, Fresh
<1> QED
  BY <1>1, <1>2 DEF ClaimsInv

\* However many processes look at the queue, a user gets an unfiltered
\* broadcast again only because a starting process put it back in the queue.
THEOREM OneMessageAClaim == Spec => []OneMessagePerClaim
<1>1. ASSUME ShapeInv, ClaimsInv PROVE OneMessagePerClaim
  <2> SUFFICES ASSUME NEW j \in DOMAIN jobs, NEW u \in Users, Steady(j)
               PROVE  received[j][u] <= 1 + resets[j]
    BY DEF OneMessagePerClaim
  <2>1. /\ Cardinality(Owing(j, u)) \in Nat /\ received[j][u] \in Nat
        /\ resets[j] \in Nat /\ Claims(j) \in Nat
    BY <1>1, ClaimTypes DEF ShapeInv
  <2>2. received[j][u] + Cardinality(Owing(j, u)) <= Claims(j)
    BY <1>1 DEF ClaimsInv, ClaimInv
  <2>3. Claims(j) <= resets[j] + 1
    BY <2>1 DEF Claims
  <2> QED
    BY <2>1, <2>2, <2>3
<1>2. ShapeInv /\ RunsInv /\ [Next]_vars => RunsInv'
  BY NextKeepsRuns
<1>3. ShapeInv /\ RunsInv /\ ClaimsInv /\ [Next]_vars => ClaimsInv'
  BY NextKeepsClaims
<1> QED
  BY <1>1, <1>2, <1>3, InitShape, NextKeepsShape, InitRuns, InitClaims, PTL DEF Spec

----------------------------------------------------------------------------
(* The counters of a broadcast that was never put back.                    *)

\* n has claimed j.
Holds(n, j) == Claimed(n) /\ loc[n].job = j

\* The delivery rows of j with status s.
RowsOf(j, s) == {u \in Users : rows[j][u] = s}

\* The call has returned and its row is not written yet.
Awaits(n, s) == IF bpc[n] = "record" /\ Recorded(n) = s THEN 1 ELSE 0

\* The counters of a run account for the rows, and for the one to be written.
Counting(n, j) ==
    /\ Cardinality(RowsOf(j, "sent")) + Awaits(n, "sent") <= loc[n].ok
    /\ Cardinality(RowsOf(j, "failed")) + Awaits(n, "failed") <= loc[n].bad

\* The counters in admin_broadcasts do.
Accounted(j) ==
    /\ Cardinality(RowsOf(j, "sent")) <= jobs[j].ok
    /\ Cardinality(RowsOf(j, "failed")) <= jobs[j].bad

\* A broadcast that was never put back has one run, which starts before any
\* row and counts ahead of its rows; the end of the run saves its counts.
OwnInv(j) ==
    resets[j] = 0 =>
        /\ \A n, m \in Nodes : Holds(n, j) /\ Holds(m, j) => n = m
        /\ \A n \in Nodes : Holds(n, j) => Running(j) /\ Counting(n, j)
        /\ Pending(j) => \A u \in Users : rows[j][u] = "none"
        /\ Done(j) => Accounted(j)

OwnsInv == \A j \in DOMAIN jobs : OwnInv(j)

\* The numbers that OwnInv compares.
LEMMA RowsOfType ==
    ASSUME TypeOK, NEW j, NEW s
    PROVE  IsFiniteSet(RowsOf(j, s)) /\ Cardinality(RowsOf(j, s)) \in Nat
BY BroadcastAssumption, FS_Subset, FS_CardinalityType, RowsOf(j, s) \in SUBSET Users DEF RowsOf

\* A step that writes no row of j and brings nobody to it.
LEMMA OwnKept ==
    ASSUME NEW j \in DOMAIN jobs, OwnInv(j), resets'[j] = 0 => resets[j] = 0,
           rows'[j] = rows[j], jobs'[j].status = jobs[j].status,
           resets[j] = 0 /\ Done(j) => jobs'[j].ok = jobs[j].ok /\ jobs'[j].bad = jobs[j].bad,
           \A m \in Nodes :
              Holds(m, j)' =>
                 /\ Holds(m, j) /\ loc'[m].ok = loc[m].ok /\ loc'[m].bad = loc[m].bad
                 /\ bpc'[m] = "record" => bpc[m] = "record" /\ loc'[m].result = loc[m].result,
           \A m \in Nodes : loc[m].ok \in Nat /\ loc[m].bad \in Nat,
           TypeOK
    PROVE  OwnInv(j)'
<1> SUFFICES ASSUME resets'[j] = 0 PROVE OwnInv(j)'
  BY DEF OwnInv
<1>1. \A s \in {"sent", "failed"} : RowsOf(j, s)' = RowsOf(j, s)
  BY DEF RowsOf
<1>2. ASSUME NEW m \in Nodes, Holds(m, j)' PROVE Running(j)' /\ Counting(m, j)'
  <2>1. Holds(m, j) /\ Running(j) /\ Counting(m, j)
    BY <1>2 DEF OwnInv
  <2>2. /\ loc'[m].ok = loc[m].ok /\ loc'[m].bad = loc[m].bad
        /\ bpc'[m] = "record" => bpc[m] = "record" /\ loc'[m].result = loc[m].result
    BY <1>2
  <2>3. ASSUME NEW s \in {"sent", "failed"}
        PROVE  /\ Awaits(m, s)' <= Awaits(m, s)
               /\ Awaits(m, s) \in Nat /\ Awaits(m, s)' \in Nat
    BY <2>2 DEF Awaits, Recorded
  <2>4. \A s \in {"sent", "failed"} : Cardinality(RowsOf(j, s)) \in Nat
    BY RowsOfType
  <2>5. Counting(m, j)'
    <3>1. /\ Awaits(m, "sent")' <= Awaits(m, "sent") /\ Awaits(m, "failed")' <= Awaits(m, "failed")
          /\ Awaits(m, "sent") \in Nat /\ Awaits(m, "sent")' \in Nat
          /\ Awaits(m, "failed") \in Nat /\ Awaits(m, "failed")' \in Nat
      BY <2>3
    <3>2. /\ RowsOf(j, "sent")' = RowsOf(j, "sent")
          /\ RowsOf(j, "failed")' = RowsOf(j, "failed")
          /\ Cardinality(RowsOf(j, "sent")) \in Nat
          /\ Cardinality(RowsOf(j, "failed")) \in Nat
      BY <1>1, <2>4
    <3>3. loc[m].ok \in Nat /\ loc[m].bad \in Nat
      OBVIOUS
    <3>4. /\ Cardinality(RowsOf(j, "sent")) + Awaits(m, "sent")' <= loc'[m].ok
          /\ Cardinality(RowsOf(j, "failed")) + Awaits(m, "failed")' <= loc'[m].bad
      <4>1. /\ Cardinality(RowsOf(j, "sent")) + Awaits(m, "sent") <= loc[m].ok
            /\ Cardinality(RowsOf(j, "failed")) + Awaits(m, "failed") <= loc[m].bad
        BY <2>1 DEF Counting
      <4>2. loc'[m].ok = loc[m].ok /\ loc'[m].bad = loc[m].bad
        BY <2>2
      <4> QED
        BY <3>1, <3>2, <3>3, <4>1, <4>2
    <3> QED
      BY <3>2, <3>4 DEF Counting
  <2> QED
    BY <2>1, <2>5 DEF Running
<1>3. Pending(j)' => \A u \in Users : rows'[j][u] = "none"
  BY DEF OwnInv, Pending
<1>4. Done(j)' => Accounted(j)'
  BY <1>1 DEF OwnInv, Done, Accounted
<1>5. \A n, m \in Nodes : Holds(n, j)' /\ Holds(m, j)' => n = m
  BY DEF OwnInv
<1> QED
  BY <1>2, <1>3, <1>4, <1>5 DEF OwnInv

\* A step of no process that leaves j's row and its deliveries.
LEMMA OwnUntouched ==
    ASSUME ShapeInv, NEW j \in DOMAIN jobs, OwnInv(j), rows' = rows, resets' = resets,
           bpc' = bpc, loc' = loc, jobs'[j] = jobs[j]
    PROVE  OwnInv(j)'
<1>1. ASSUME NEW m \in Nodes, Holds(m, j)'
      PROVE  /\ Holds(m, j) /\ loc'[m].ok = loc[m].ok /\ loc'[m].bad = loc[m].bad
             /\ bpc'[m] = "record" => bpc[m] = "record" /\ loc'[m].result = loc[m].result
  BY <1>1 DEF Holds, Claimed
<1>2. \A m \in Nodes : loc[m].ok \in Nat /\ loc[m].bad \in Nat
  BY LocalTypes DEF ShapeInv
<1>3. TypeOK
  BY DEF ShapeInv
<1> QED
  BY <1>1, <1>2, <1>3, OwnKept

\* A step of one process that leaves j's row, its deliveries and its count.
LEMMA QuietKeepsOwn ==
    ASSUME ShapeInv, NEW n \in Nodes, Alone(n), NEW j \in DOMAIN jobs, OwnInv(j),
           resets'[j] = 0 => resets[j] = 0, rows'[j] = rows[j],
           jobs'[j].status = jobs[j].status,
           resets[j] = 0 /\ Done(j) => jobs'[j].ok = jobs[j].ok /\ jobs'[j].bad = jobs[j].bad,
           Holds(n, j)' =>
              /\ Holds(n, j) /\ loc'[n].ok = loc[n].ok /\ loc'[n].bad = loc[n].bad
              /\ bpc'[n] # "record"
    PROVE  OwnInv(j)'
<1>1. ASSUME NEW m \in Nodes, Holds(m, j)'
      PROVE  /\ Holds(m, j) /\ loc'[m].ok = loc[m].ok /\ loc'[m].bad = loc[m].bad
             /\ bpc'[m] = "record" => bpc[m] = "record" /\ loc'[m].result = loc[m].result
  <2>1. CASE m = n
    BY <1>1, <2>1
  <2>2. CASE m # n
    BY <1>1, <2>2 DEF Alone, Holds, Claimed
  <2> QED
    BY <2>1, <2>2
<1>2. \A m \in Nodes : loc[m].ok \in Nat /\ loc[m].bad \in Nat
  BY LocalTypes DEF ShapeInv
<1>3. TypeOK
  BY DEF ShapeInv
<1> QED
  BY <1>1, <1>2, <1>3, OwnKept

\* ResetRunningBroadcasts: what it puts back has been put back.
LEMMA StartKeepsOwn ==
    ASSUME ShapeInv, OwnsInv, NEW n \in Nodes, Start(n)
    PROVE  OwnsInv'
<1>1. /\ Alone(n) /\ ~Claimed(n)' /\ UNCHANGED rows /\ DOMAIN jobs' = DOMAIN jobs
  BY StartEffect DEF Claimed
<1>2. ASSUME NEW j \in DOMAIN jobs PROVE OwnInv(j)'
  <2>1. CASE Running(j)
    <3>1. resets'[j] = resets[j] + 1 /\ resets[j] \in Nat
      BY <2>1, StartEffect, JobsType DEF ShapeInv, TypeOK
    <3>2. resets'[j] # 0
      BY <3>1
    <3> QED
      BY <3>2 DEF OwnInv
  <2>2. CASE ~Running(j)
    <3>1. /\ resets'[j] = resets[j] /\ jobs'[j].status = jobs[j].status
          /\ jobs'[j].ok = jobs[j].ok /\ jobs'[j].bad = jobs[j].bad
      BY <2>2, StartEffect
    <3>2. OwnInv(j) /\ ~Holds(n, j)'
      BY <1>1 DEF OwnsInv, Holds
    <3> QED
      BY <1>1, <3>1, <3>2, QuietKeepsOwn
  <2> QED
    BY <2>1, <2>2
<1> QED
  BY <1>1, <1>2 DEF OwnsInv

\* The steps of a process that touch no broadcast and no delivery row.
LEMMA IdleKeepsOwn ==
    ASSUME ShapeInv, OwnsInv, NEW n \in Nodes,
           Pick(n) \/ ClaimLoses(n) \/ Crash(n) \/ Count(n) \/ List(n) \/ StatementFails(n)
    PROVE  OwnsInv'
<1>1. Alone(n) /\ UNCHANGED <<jobs, rows, resets>>
  BY PickEffect, GivesUpEffect, CountEffect, ListEffect, FailsEffect DEF tableVars
<1>2. Claimed(n)' => /\ Claimed(n) /\ loc'[n].job = loc[n].job /\ bpc'[n] # "record"
                     /\ loc'[n].ok = loc[n].ok /\ loc'[n].bad = loc[n].bad
  <2>1. CASE Pick(n) \/ ClaimLoses(n) \/ Crash(n)
    BY <2>1, PickEffect, GivesUpEffect DEF Claimed
  <2>2. CASE Count(n)
    <3>1. loc[n].ok = 0 /\ loc[n].bad = 0
      BY <2>2 DEF Count, ShapeInv, Shape, NoLocals
    <3> QED
      BY <2>2, <3>1, CountEffect DEF Claimed
  <2>3. CASE List(n)
    BY <2>3, ListEffect DEF Claimed
  <2>4. CASE StatementFails(n)
    <3>1. ASSUME bpc[n] = "record", NEW u \in loc[n].todo, Advance(n, u)
          PROVE  /\ Claimed(n) /\ loc'[n].job = loc[n].job /\ bpc'[n] # "record"
                 /\ loc'[n].ok = loc[n].ok /\ loc'[n].bad = loc[n].bad
      BY <1>1, <3>1, AdvanceEffect DEF Claimed
    <3> QED
      BY <2>4, <3>1, FailsEffect DEF Claimed
  <2> QED
    BY <2>1, <2>2, <2>3, <2>4
<1>3. ASSUME NEW j \in DOMAIN jobs PROVE OwnInv(j)'
  <2>1. Holds(n, j)' => /\ Holds(n, j) /\ loc'[n].ok = loc[n].ok
                        /\ loc'[n].bad = loc[n].bad /\ bpc'[n] # "record"
    BY <1>2 DEF Holds
  <2>2. OwnInv(j)
    BY DEF OwnsInv
  <2> QED
    BY <1>1, <2>1, <2>2, QuietKeepsOwn
<1> QED
  BY <1>1, <1>3 DEF OwnsInv

\* The first claim: nobody else has the broadcast, and it has no rows.
LEMMA ClaimKeepsOwn ==
    ASSUME ShapeInv, OwnsInv, NEW n \in Nodes, ClaimWins(n)
    PROVE  OwnsInv'
<1>1. /\ Alone(n) /\ loc' = loc /\ bpc[n] = "picked" /\ bpc'[n] = "count"
      /\ UNCHANGED <<rows, resets>> /\ DOMAIN jobs' = DOMAIN jobs
      /\ loc[n].job \in DOMAIN jobs /\ loc[n] = [NoLocals EXCEPT !.job = loc[n].job]
      /\ Pending(loc[n].job) /\ jobs'[loc[n].job].status = "running"
      /\ \A j \in DOMAIN jobs : j # loc[n].job => jobs'[j] = jobs[j]
  BY ClaimWinsEffect
<1>2. loc[n].ok = 0 /\ loc[n].bad = 0
  BY <1>1 DEF NoLocals
<1>3. ASSUME NEW j \in DOMAIN jobs, j # loc[n].job PROVE OwnInv(j)'
  <2>1. ~Holds(n, j)' /\ OwnInv(j)
    BY <1>1, <1>3 DEF Holds, OwnsInv
  <2> QED
    BY <1>1, <1>3, <2>1, QuietKeepsOwn
<1>4. ASSUME NEW j \in DOMAIN jobs, j = loc[n].job, resets[j] = 0 PROVE OwnInv(j)'
  <2>1. \A m \in Nodes : ~Holds(m, j)
    BY <1>1, <1>4 DEF OwnsInv, OwnInv, Pending, Running
  <2>2. \A m \in Nodes : Holds(m, j)' => m = n
    BY <1>1, <2>1 DEF Alone, Holds, Claimed
  <2>3. \A u \in Users : rows'[j][u] = "none"
    BY <1>1, <1>4 DEF OwnsInv, OwnInv
  <2>4. \A s \in {"sent", "failed"} : RowsOf(j, s)' = {}
    BY <2>3 DEF RowsOf
  <2>5. \A s \in {"sent", "failed"} : Awaits(n, s)' = 0
    BY <1>1 DEF Awaits
  <2>6. Counting(n, j)'
    <3>1. Cardinality({}) = 0
      BY FS_EmptySet
    <3> QED
      BY <1>1, <1>2, <2>4, <2>5, <3>1 DEF Counting
  <2>7. Running(j)' /\ ~Pending(j)' /\ ~Done(j)'
    BY <1>1, <1>4 DEF Running, Pending, Done
  <2> QED
    BY <2>2, <2>6, <2>7 DEF OwnInv
<1>5. ASSUME NEW j \in DOMAIN jobs, resets[j] # 0 PROVE OwnInv(j)'
  BY <1>1, <1>5 DEF OwnInv
<1> QED
  BY <1>1, <1>3, <1>4, <1>5 DEF OwnsInv

\* The run of a broadcast that was never put back.
LEMMA OwnRun ==
    ASSUME ShapeInv, OwnsInv, NEW n \in Nodes, Claimed(n), NEW j, j = loc[n].job, resets[j] = 0
    PROVE  /\ Running(j) /\ Counting(n, j) /\ ~Pending(j) /\ ~Done(j)
           /\ \A m \in Nodes : Holds(m, j) => m = n
           /\ loc[n].ok \in Nat /\ loc[n].bad \in Nat
           /\ \A s \in {"sent", "failed"} : /\ IsFiniteSet(RowsOf(j, s))
                                            /\ Cardinality(RowsOf(j, s)) \in Nat
<1>1. j \in DOMAIN jobs /\ Holds(n, j) /\ TypeOK
  BY ClaimedJob DEF Holds, ShapeInv
<1>2. Running(j) /\ Counting(n, j) /\ \A m \in Nodes : Holds(m, j) => m = n
  BY <1>1 DEF OwnsInv, OwnInv
<1> QED
  BY <1>1, <1>2, LocalTypes, RowsOfType DEF Running, Pending, Done

\* SendTextMessage counts before the row is written.
LEMMA SendKeepsOwn ==
    ASSUME ShapeInv, OwnsInv, NEW n \in Nodes, Send(n)
    PROVE  OwnsInv'
<1>1. /\ Alone(n) /\ UNCHANGED <<jobs, rows, resets>>
      /\ bpc[n] = "send" /\ bpc'[n] = "record" /\ loc'[n].job = loc[n].job
      /\ loc'[n].result => loc'[n].ok = loc[n].ok + 1 /\ loc'[n].bad = loc[n].bad
      /\ ~loc'[n].result => loc'[n].ok = loc[n].ok /\ loc'[n].bad = loc[n].bad + 1
      /\ Claimed(n)
  BY SendEffect DEF Claimed
<1>2. ASSUME NEW j \in DOMAIN jobs, j # loc[n].job PROVE OwnInv(j)'
  <2>1. ~Holds(n, j)' /\ OwnInv(j)
    BY <1>1, <1>2 DEF Holds, OwnsInv
  <2> QED
    BY <1>1, <2>1, QuietKeepsOwn
<1>3. ASSUME NEW j \in DOMAIN jobs, j = loc[n].job, resets[j] = 0 PROVE OwnInv(j)'
  <2>1. /\ Running(j) /\ Counting(n, j) /\ ~Pending(j) /\ ~Done(j)
        /\ \A m \in Nodes : Holds(m, j) => m = n
    BY <1>1, <1>3, OwnRun
  <2>2. \A m \in Nodes : Holds(m, j)' => m = n
    BY <1>1, <1>3, <2>1 DEF Alone, Holds, Claimed
  <2>3. Counting(n, j)'
    <3>1. /\ loc[n].ok \in Nat /\ loc[n].bad \in Nat
          /\ Cardinality(RowsOf(j, "sent")) \in Nat
          /\ Cardinality(RowsOf(j, "failed")) \in Nat
      BY <1>1, <1>3, OwnRun
    <3>2. Awaits(n, "sent") = 0 /\ Awaits(n, "failed") = 0
      BY <1>1 DEF Awaits
    <3>3. /\ Cardinality(RowsOf(j, "sent")) <= loc[n].ok
          /\ Cardinality(RowsOf(j, "failed")) <= loc[n].bad
      BY <2>1, <3>1, <3>2 DEF Counting
    <3>4. /\ loc'[n].result => Awaits(n, "sent")' = 1 /\ Awaits(n, "failed")' = 0
          /\ ~loc'[n].result => Awaits(n, "sent")' = 0 /\ Awaits(n, "failed")' = 1
      BY <1>1 DEF Awaits, Recorded
    <3>5. /\ RowsOf(j, "sent")' = RowsOf(j, "sent")
          /\ RowsOf(j, "failed")' = RowsOf(j, "failed")
      BY <1>1 DEF RowsOf
    <3>6. /\ Cardinality(RowsOf(j, "sent")) + Awaits(n, "sent")' <= loc'[n].ok
          /\ Cardinality(RowsOf(j, "failed")) + Awaits(n, "failed")' <= loc'[n].bad
      BY <1>1, <3>1, <3>3, <3>4
    <3> QED
      BY <3>5, <3>6 DEF Counting
  <2>4. Running(j)' /\ ~Pending(j)' /\ ~Done(j)'
    BY <1>1, <2>1 DEF Running, Pending, Done
  <2> QED
    BY <2>2, <2>3, <2>4 DEF OwnInv
<1>4. ASSUME NEW j \in DOMAIN jobs, resets[j] # 0 PROVE OwnInv(j)'
  BY <1>1, <1>4 DEF OwnInv
<1> QED
  BY <1>1, <1>2, <1>3, <1>4 DEF OwnsInv

\* UpsertBroadcastDelivery: one row at most more, and it was counted.
LEMMA RecordKeepsOwn ==
    ASSUME ShapeInv, OwnsInv, NEW n \in Nodes, Record(n)
    PROVE  OwnsInv'
<1>1. /\ ShapeInv' /\ Alone(n) /\ UNCHANGED <<jobs, resets>> /\ bpc[n] = "record" /\ Claimed(n)
  BY RecordEffect DEF Claimed
<1>2. PICK u \in loc[n].todo :
         /\ Advance(n, u)
         /\ rows'[loc[n].job][u] = (IF loc[n].result THEN "sent" ELSE "failed")
         /\ \A j \in JobIds, v \in Users : j # loc[n].job \/ v # u =>
               rows'[j][v] = rows[j][v]
  BY RecordEffect
<1>3. /\ bpc'[n] # "record" /\ loc'[n].job = loc[n].job
      /\ loc'[n].ok = loc[n].ok /\ loc'[n].bad = loc[n].bad
  BY <1>1, <1>2, AdvanceEffect
<1>4. DOMAIN jobs \subseteq JobIds
  BY JobsType DEF ShapeInv
<1>5. ASSUME NEW j \in DOMAIN jobs, j # loc[n].job PROVE OwnInv(j)'
  <2>1. rows'[j] = rows[j]
    <3>1. j \in JobIds /\ \A v \in Users : rows'[j][v] = rows[j][v]
      BY <1>2, <1>4, <1>5
    <3>2. /\ rows[j] \in [Users -> {"none", "sent", "failed"}]
          /\ rows'[j] \in [Users -> {"none", "sent", "failed"}]
      BY <1>1, <3>1 DEF ShapeInv, TypeOK
    <3> QED
      BY <3>1, <3>2
  <2>2. ~Holds(n, j)' /\ OwnInv(j)
    BY <1>3, <1>5 DEF Holds, OwnsInv
  <2> QED
    BY <1>1, <2>1, <2>2, QuietKeepsOwn
<1>6. ASSUME NEW j \in DOMAIN jobs, j = loc[n].job, resets[j] = 0 PROVE OwnInv(j)'
  <2>1. /\ Running(j) /\ Counting(n, j) /\ ~Pending(j) /\ ~Done(j)
        /\ \A m \in Nodes : Holds(m, j) => m = n
    BY <1>1, <1>6, OwnRun
  <2>2. \A m \in Nodes : Holds(m, j)' => m = n
    BY <1>1, <1>3, <1>6, <2>1 DEF Alone, Holds, Claimed
  <2>3. ASSUME NEW s \in {"sent", "failed"}
        PROVE  /\ Cardinality(RowsOf(j, s)') <= Cardinality(RowsOf(j, s)) + Awaits(n, s)
               /\ Cardinality(RowsOf(j, s)') \in Nat /\ Awaits(n, s)' = 0
    <3> DEFINE before == RowsOf(j, s)
               after == RowsOf(j, s)'
    <3>1. IsFiniteSet(before) /\ Cardinality(before) \in Nat
      BY <1>1, <1>6, OwnRun
    <3>2. after \in SUBSET (IF Recorded(n) = s THEN before \cup {u} ELSE before)
      BY <1>2, <1>4, <1>6 DEF RowsOf, Recorded
    <3>3. Awaits(n, s) = (IF Recorded(n) = s THEN 1 ELSE 0) /\ Awaits(n, s)' = 0
      BY <1>1, <1>3 DEF Awaits
    <3> HIDE DEF before, after
    <3>4. /\ IsFiniteSet(before \cup {u}) /\ Cardinality(before \cup {u}) \in Nat
          /\ Cardinality(before \cup {u}) <= Cardinality(before) + 1
      <4>1. Cardinality(before \cup {u})
               = IF u \in before THEN Cardinality(before) ELSE Cardinality(before) + 1
        BY <3>1, FS_AddElement
      <4> QED
        BY <3>1, <4>1, FS_AddElement
    <3>5. CASE Recorded(n) = s
      <4>1. Cardinality(after) \in Nat /\ Cardinality(after) <= Cardinality(before \cup {u})
        BY <3>2, <3>4, <3>5, FS_Subset, FS_CardinalityType
      <4> QED
        BY <3>1, <3>3, <3>4, <3>5, <4>1 DEF before, after
    <3>6. CASE Recorded(n) # s
      <4>1. Cardinality(after) \in Nat /\ Cardinality(after) <= Cardinality(before)
        BY <3>1, <3>2, <3>6, FS_Subset, FS_CardinalityType
      <4> QED
        BY <3>1, <3>3, <3>6, <4>1 DEF before, after
    <3> QED
      BY <3>5, <3>6
  <2>4. Counting(n, j)'
    <3>1. /\ loc[n].ok \in Nat /\ loc[n].bad \in Nat
          /\ Cardinality(RowsOf(j, "sent")) \in Nat
          /\ Cardinality(RowsOf(j, "failed")) \in Nat
      BY <1>1, <1>6, OwnRun
    <3>2. /\ Cardinality(RowsOf(j, "sent")) + Awaits(n, "sent") <= loc[n].ok
          /\ Cardinality(RowsOf(j, "failed")) + Awaits(n, "failed") <= loc[n].bad
      BY <2>1 DEF Counting
    <3>3. Awaits(n, "sent") \in Nat /\ Awaits(n, "failed") \in Nat
      BY DEF Awaits
    <3>4. /\ Cardinality(RowsOf(j, "sent")') + 0 <= loc'[n].ok
          /\ Cardinality(RowsOf(j, "failed")') + 0 <= loc'[n].bad
      BY <1>3, <2>3, <3>1, <3>2, <3>3
    <3> QED
      BY <2>3, <3>4 DEF Counting
  <2>5. Running(j)' /\ ~Pending(j)' /\ ~Done(j)'
    BY <1>1, <2>1 DEF Running, Pending, Done
  <2> QED
    BY <2>2, <2>4, <2>5 DEF OwnInv
<1>7. ASSUME NEW j \in DOMAIN jobs, resets[j] # 0 PROVE OwnInv(j)'
  BY <1>1, <1>7 DEF OwnInv
<1> QED
  BY <1>1, <1>5, <1>6, <1>7 DEF OwnsInv

\* UpdateBroadcastProgress writes the counters of a running broadcast.
LEMMA ProgressKeepsOwn ==
    ASSUME ShapeInv, OwnsInv, NEW n \in Nodes, Progress(n)
    PROVE  OwnsInv'
<1>1. /\ Alone(n) /\ loc' = loc /\ UNCHANGED <<rows, resets>> /\ DOMAIN jobs' = DOMAIN jobs
      /\ Claimed(n) /\ bpc'[n] # "record"
      /\ \A j \in DOMAIN jobs : /\ jobs'[j].status = jobs[j].status
                                /\ j # loc[n].job => jobs'[j] = jobs[j]
  BY ProgressEffect DEF Claimed
<1>2. ASSUME NEW j \in DOMAIN jobs PROVE OwnInv(j)'
  <2>1. Holds(n, j)' => Holds(n, j)
    BY <1>1 DEF Holds
  <2>2. resets[j] = 0 /\ Done(j) => j # loc[n].job
    BY <1>1, OwnRun
  <2>3. OwnInv(j)
    BY DEF OwnsInv
  <2> QED
    BY <1>1, <2>1, <2>2, <2>3, QuietKeepsOwn
<1> QED
  BY <1>1, <1>2 DEF OwnsInv

\* MarkBroadcastCompleted, MarkBroadcastFailed: the counts are saved.
LEMMA MarkKeepsOwn ==
    ASSUME ShapeInv, OwnsInv, NEW n \in Nodes, Finish(n) \/ Abort(n)
    PROVE  OwnsInv'
<1>1. /\ Alone(n) /\ UNCHANGED <<rows, resets>> /\ DOMAIN jobs' = DOMAIN jobs
      /\ Claimed(n) /\ ~Claimed(n)'
      /\ jobs'[loc[n].job].status \in {"completed", "failed"}
      /\ jobs'[loc[n].job].ok = loc[n].ok /\ jobs'[loc[n].job].bad = loc[n].bad
      /\ \A j \in DOMAIN jobs : j # loc[n].job => jobs'[j] = jobs[j]
  BY MarkEffect DEF Claimed
<1>2. ASSUME NEW j \in DOMAIN jobs, j # loc[n].job PROVE OwnInv(j)'
  <2>1. ~Holds(n, j)' /\ OwnInv(j)
    BY <1>1 DEF Holds, OwnsInv
  <2> QED
    BY <1>1, <1>2, <2>1, QuietKeepsOwn
<1>3. ASSUME NEW j \in DOMAIN jobs, j = loc[n].job, resets[j] = 0 PROVE OwnInv(j)'
  <2>1. Counting(n, j) /\ \A m \in Nodes : Holds(m, j) => m = n
    BY <1>1, <1>3, OwnRun
  <2>2. \A m \in Nodes : ~Holds(m, j)'
    BY <1>1, <2>1 DEF Alone, Holds, Claimed
  <2>3. Accounted(j)'
    <3>1. /\ loc[n].ok \in Nat /\ loc[n].bad \in Nat
          /\ Cardinality(RowsOf(j, "sent")) \in Nat
          /\ Cardinality(RowsOf(j, "failed")) \in Nat
      BY <1>1, <1>3, OwnRun
    <3>2. /\ Cardinality(RowsOf(j, "sent")) + Awaits(n, "sent") <= loc[n].ok
          /\ Cardinality(RowsOf(j, "failed")) + Awaits(n, "failed") <= loc[n].bad
      BY <2>1 DEF Counting
    <3>3. Awaits(n, "sent") \in Nat /\ Awaits(n, "failed") \in Nat
      BY DEF Awaits
    <3>4. /\ Cardinality(RowsOf(j, "sent")) <= loc[n].ok
          /\ Cardinality(RowsOf(j, "failed")) <= loc[n].bad
      BY <3>1, <3>2, <3>3
    <3>5. /\ RowsOf(j, "sent")' = RowsOf(j, "sent")
          /\ RowsOf(j, "failed")' = RowsOf(j, "failed")
      BY <1>1 DEF RowsOf
    <3> QED
      BY <1>1, <1>3, <3>4, <3>5 DEF Accounted
  <2>4. ~Pending(j)'
    BY <1>1, <1>3 DEF Pending
  <2> QED
    BY <2>2, <2>3, <2>4 DEF OwnInv
<1>4. ASSUME NEW j \in DOMAIN jobs, resets[j] # 0 PROVE OwnInv(j)'
  BY <1>1, <1>4 DEF OwnInv
<1> QED
  BY <1>1, <1>2, <1>3, <1>4 DEF OwnsInv

\* A queued broadcast has no run and no rows.
LEMMA EnqueueKeepsOwn ==
    ASSUME ShapeInv, ClaimsInv, OwnsInv, NEW target \in TargetType, Enqueue(target)
    PROVE  OwnsInv'
<1>1. PICK new \in JobIds \ DOMAIN jobs :
         /\ UNCHANGED <<rows, resets, bpc, loc>>
         /\ DOMAIN jobs' = DOMAIN jobs \cup {new} /\ jobs'[new].status = "pending"
         /\ \A j \in DOMAIN jobs : jobs'[j] = jobs[j]
  BY EnqueueEffect
<1>2. OwnInv(new)'
  <2>1. \A n \in Nodes : ~Holds(n, new)'
    BY <1>1, ClaimedJob DEF Holds, Claimed
  <2>2. ~Done(new)' /\ \A u \in Users : rows'[new][u] = "none"
    BY <1>1 DEF Done, ClaimsInv, Fresh
  <2> QED
    BY <2>1, <2>2 DEF OwnInv
<1>3. ASSUME NEW j \in DOMAIN jobs PROVE OwnInv(j)'
  <2>1. OwnInv(j) /\ rows' = rows /\ resets' = resets /\ bpc' = bpc /\ loc' = loc
        /\ jobs'[j] = jobs[j]
    BY <1>1 DEF OwnsInv
  <2> QED
    BY <2>1, OwnUntouched
<1> QED
  BY <1>1, <1>2, <1>3 DEF OwnsInv

\* Every step keeps the counts ahead of the rows.
LEMMA NextKeepsOwn ==
    ASSUME ShapeInv, ClaimsInv, OwnsInv, [Next]_vars
    PROVE  OwnsInv'
<1>1. ASSUME \/ UNCHANGED vars
             \/ \E u \in Users : SignUp(u) \/ DeleteUser(u) \/ Ban(u) \/ Unban(u)
      PROVE  OwnsInv'
  <2>1. UNCHANGED <<jobs, rows, resets, bpc, loc>>
    BY <1>1, UsersEffect DEF vars
  <2>2. ASSUME NEW j \in DOMAIN jobs PROVE OwnInv(j)'
    BY <2>1, OwnUntouched DEF OwnsInv
  <2> QED
    BY <2>1, <2>2 DEF OwnsInv
<1> QED
  BY <1>1, StartKeepsOwn, IdleKeepsOwn, ClaimKeepsOwn, SendKeepsOwn, RecordKeepsOwn,
     ProgressKeepsOwn, MarkKeepsOwn, EnqueueKeepsOwn DEF Next, WorkerStep

\* The counters of a finished broadcast that was never put back account for
\* every delivery row.
THEOREM RowsAreCounted == Spec => []CountersCoverRows
<1>1. Init => OwnsInv
  BY DEF Init, OwnsInv
<1>2. ASSUME OwnsInv PROVE CountersCoverRows
  BY <1>2 DEF OwnsInv, OwnInv, Accounted, RowsOf, CountersCoverRows
<1>3. ShapeInv /\ RunsInv /\ [Next]_vars => RunsInv'
  BY NextKeepsRuns
<1>4. ShapeInv /\ RunsInv /\ ClaimsInv /\ [Next]_vars => ClaimsInv'
  BY NextKeepsClaims
<1>5. ShapeInv /\ ClaimsInv /\ OwnsInv /\ [Next]_vars => OwnsInv'
  BY NextKeepsOwn
<1> QED
  BY <1>1, <1>2, <1>3, <1>4, <1>5, InitShape, NextKeepsShape, InitRuns, InitClaims,
     PTL DEF Spec

----------------------------------------------------------------------------
(* The processes implement DeliveryQueue.                                  *)

\* What the queue's variables stand for.
States == [j \in JobIds |-> QueueState(j)]
Exact == {j \in DOMAIN jobs : Steady(j)}

\* A queued job is in the state its row says.
LEMMA StatesMean ==
    ASSUME TypeOK, NEW j \in JobIds
    PROVE  /\ States[j] = QueueState(j)
           /\ States[j] = "none" <=> j \notin DOMAIN jobs
           /\ j \in DOMAIN jobs =>
                 /\ States[j] = "waiting" <=> Pending(j)
                 /\ States[j] = "taken" <=> Running(j)
                 /\ States[j] = "ended" <=> Done(j)
<1>1. States[j] = QueueState(j)
  BY DEF States
<1>2. CASE j \notin DOMAIN jobs
  BY <1>1, <1>2 DEF QueueState
<1>3. CASE j \in DOMAIN jobs
  <2>1. jobs[j].status \in Status
    BY <1>3, JobsType
  <2> QED
    BY <1>1, <1>3, <2>1 DEF QueueState, Pending, Running, Done, Status
<1> QED
  BY <1>1, <1>2, <1>3

\* The queue sees a row change only when its status does.
LEMMA StateStays ==
    ASSUME NEW j, j \in DOMAIN jobs <=> j \in DOMAIN jobs',
           j \in DOMAIN jobs => jobs'[j].status = jobs[j].status
    PROVE  QueueState(j)' = QueueState(j)
BY DEF QueueState, Pending, Running, Done

LEMMA ExactStays ==
    ASSUME DOMAIN jobs' = DOMAIN jobs, \A j \in DOMAIN jobs : jobs'[j].spec = jobs[j].spec
    PROVE  Exact' = Exact
BY DEF Exact, Steady

\* The steps that the queue does not see.
LEMMA UnseenByQueue ==
    ASSUME DOMAIN jobs' = DOMAIN jobs, UNCHANGED <<resets, received>>,
           \A j \in DOMAIN jobs : /\ jobs'[j].spec = jobs[j].spec
                                  /\ jobs'[j].status = jobs[j].status
    PROVE  UNCHANGED Queue!queue
<1>1. \A j \in JobIds : QueueState(j)' = QueueState(j)
  BY StateStays
<1>2. States' = States
  BY <1>1 DEF States
<1> QED
  BY <1>2, ExactStays DEF Queue!queue, States, Exact

\* A statement that gives one row a new status.
LEMMA OneStateChanges ==
    ASSUME TypeOK, NEW k \in DOMAIN jobs, DOMAIN jobs' = DOMAIN jobs,
           \A j \in DOMAIN jobs : j # k => jobs'[j].status = jobs[j].status
    PROVE  States' = [States EXCEPT ![k] = QueueState(k)']
<1>1. \A j \in JobIds \ {k} : QueueState(j)' = QueueState(j)
  BY StateStays
<1> QED
  BY <1>1, JobsType DEF States

\* ResetRunningBroadcasts puts back whatever is taken.
LEMMA StartPutsBack ==
    ASSUME ShapeInv, NEW n \in Nodes, Start(n)
    PROVE  Queue!PutBack
<1>1. /\ TypeOK /\ TypeOK' /\ DOMAIN jobs' = DOMAIN jobs /\ UNCHANGED received
      /\ \A j \in DOMAIN jobs :
            /\ jobs'[j].spec = jobs[j].spec
            /\ Running(j) => jobs'[j].status = "pending" /\ resets'[j] = resets[j] + 1
            /\ ~Running(j) => jobs'[j].status = jobs[j].status /\ resets'[j] = resets[j]
      /\ \A j \in JobIds \ DOMAIN jobs : resets'[j] = resets[j]
  BY StartEffect DEF ShapeInv
<1>2. ASSUME NEW j \in JobIds
      PROVE  /\ QueueState(j)' = IF States[j] = "taken" THEN "waiting" ELSE States[j]
             /\ resets'[j] = IF States[j] = "taken" THEN resets[j] + 1 ELSE resets[j]
  <2>1. CASE States[j] = "taken"
    <3>1. j \in DOMAIN jobs /\ Running(j)
      BY <1>1, <2>1, StatesMean
    <3>2. jobs'[j].status = "pending" /\ resets'[j] = resets[j] + 1
      BY <1>1, <3>1
    <3> QED
      BY <1>1, <2>1, <3>1, <3>2 DEF QueueState, Pending
  <2>2. CASE States[j] # "taken"
    <3>1. j \in DOMAIN jobs => ~Running(j)
      BY <1>1, <2>2, StatesMean
    <3>2. resets'[j] = resets[j] /\ (j \in DOMAIN jobs => jobs'[j].status = jobs[j].status)
      BY <1>1, <3>1
    <3>3. QueueState(j)' = QueueState(j)
      BY <1>1, <3>2, StateStays
    <3> QED
      BY <1>1, <2>2, <3>2, <3>3, StatesMean
  <2> QED
    BY <2>1, <2>2
<1>3. States' = [j \in JobIds |-> IF States[j] = "taken" THEN "waiting" ELSE States[j]]
  BY <1>2 DEF States
<1>4. resets' = [j \in JobIds |-> IF States[j] = "taken" THEN resets[j] + 1 ELSE resets[j]]
  <2>1. resets' \in [JobIds -> Nat]
    BY <1>1 DEF TypeOK
  <2> QED
    BY <1>2, <2>1
<1>5. Exact' = Exact
  BY <1>1, ExactStays
<1> QED
  BY <1>1, <1>3, <1>4, <1>5 DEF Queue!PutBack, States, Exact

\* The conditional UPDATE takes a waiting job.
LEMMA ClaimTakes ==
    ASSUME ShapeInv, NEW n \in Nodes, ClaimWins(n)
    PROVE  \E j \in JobIds : Queue!Take(j)
<1>1. PICK k \in DOMAIN jobs :
      /\ TypeOK /\ UNCHANGED <<received, resets>>
      /\ DOMAIN jobs' = DOMAIN jobs
      /\ Pending(k) /\ jobs'[k].status = "running"
      /\ \A j \in DOMAIN jobs : /\ jobs'[j].spec = jobs[j].spec
                                /\ j # k => jobs'[j] = jobs[j]
  <2>1. /\ TypeOK /\ UNCHANGED <<received, resets>>
        /\ loc[n].job \in DOMAIN jobs /\ DOMAIN jobs' = DOMAIN jobs
        /\ jobs[loc[n].job].status = "pending" /\ jobs'[loc[n].job].status = "running"
        /\ \A j \in DOMAIN jobs : /\ jobs'[j].spec = jobs[j].spec
                                  /\ j # loc[n].job => jobs'[j] = jobs[j]
    BY ClaimWinsEffect DEF ShapeInv, Pending
  <2> QED
    BY <2>1 DEF Pending
<1>2. k \in JobIds /\ States[k] = "waiting"
  BY <1>1, JobsType, StatesMean
<1>3. QueueState(k)' = "taken"
  BY <1>1 DEF QueueState, Pending, Running
<1>4. States' = [States EXCEPT ![k] = "taken"]
  BY <1>1, <1>3, OneStateChanges
<1>5. Exact' = Exact
  BY <1>1, ExactStays
<1>6. Queue!Take(k)
  BY <1>1, <1>2, <1>4, <1>5 DEF Queue!Take, States, Exact
<1> QED
  BY <1>2, <1>6

\* The final UPDATE ends a job that is taken or, when the process has lost
\* it, waiting again; an ended one it ends once more.
LEMMA MarkEnds ==
    ASSUME ShapeInv, NEW n \in Nodes, Finish(n) \/ Abort(n)
    PROVE  (\E j \in JobIds : Queue!End(j)) \/ UNCHANGED Queue!queue
<1>1. PICK k \in DOMAIN jobs :
      /\ TypeOK /\ UNCHANGED <<received, resets>>
      /\ DOMAIN jobs' = DOMAIN jobs
      /\ jobs'[k].status \in {"completed", "failed"}
      /\ \A j \in DOMAIN jobs : /\ jobs'[j].spec = jobs[j].spec
                                /\ j # k => jobs'[j] = jobs[j]
  BY MarkEffect, ClaimedJob DEF ShapeInv
<1>2. k \in JobIds /\ States[k] \in {"waiting", "taken", "ended"}
  <2>1. jobs[k].status \in Status /\ k \in JobIds
    BY <1>1, JobsType
  <2>2. Pending(k) \/ Running(k) \/ Done(k)
    BY <2>1 DEF Pending, Running, Done, Status
  <2> QED
    BY <1>1, <2>1, <2>2, StatesMean
<1>3. QueueState(k)' = "ended"
  BY <1>1 DEF QueueState, Pending, Running, Done
<1>4. States' = [States EXCEPT ![k] = "ended"]
  BY <1>1, <1>3, OneStateChanges
<1>5. Exact' = Exact
  BY <1>1, ExactStays
<1>6. CASE States[k] = "ended"
  <2>1. States' = States
    BY <1>4, <1>6 DEF States
  <2> QED
    BY <1>1, <1>5, <2>1 DEF Queue!queue, States, Exact
<1>7. CASE States[k] # "ended"
  <2>1. Queue!End(k)
    BY <1>1, <1>2, <1>4, <1>5, <1>7 DEF Queue!End, States, Exact
  <2> QED
    BY <1>2, <2>1
<1> QED
  BY <1>6, <1>7

\* SendTextMessage delivers for a turn that has delivered nothing to the user.
LEMMA SendDelivers ==
    ASSUME ShapeInv, RunsInv, ClaimsInv, NEW n \in Nodes, Send(n)
    PROVE  (\E j \in JobIds, u \in Users : Queue!Deliver(j, u)) \/ UNCHANGED Queue!queue
<1>1. /\ TypeOK /\ TypeOK' /\ UNCHANGED <<jobs, resets>>
      /\ bpc[n] = "send" /\ Claimed(n)
  BY SendEffect DEF Claimed, ShapeInv
<1>2. PICK k \in JobIds : k = loc[n].job /\ k \in DOMAIN jobs /\ loc[n].todo \subseteq Users
  BY <1>1, ClaimedJob, LocalTypes
<1>3. PICK u \in loc[n].todo :
         /\ received'[k][u] \in {received[k][u], received[k][u] + 1}
         /\ \A j \in JobIds, v \in Users : j # k \/ v # u => received'[j][v] = received[j][v]
  BY <1>2, SendEffect
<1>4. /\ u \in Users /\ received \in [JobIds -> [Users -> Nat]]
      /\ received' \in [JobIds -> [Users -> Nat]]
  BY <1>1, <1>2 DEF TypeOK
<1>5. States' = States /\ Exact' = Exact
  BY <1>1, StateStays, ExactStays DEF States
<1>6. CASE received'[k][u] = received[k][u]
  <2>1. \A j \in JobIds : received'[j] = received[j]
    BY <1>3, <1>4, <1>6
  <2>2. received' = received
    BY <1>4, <2>1
  <2> QED
    BY <1>1, <1>5, <2>2 DEF Queue!queue, States, Exact
<1>7. CASE received'[k][u] = received[k][u] + 1
  <2>1. received' = [received EXCEPT ![k][u] = received[k][u] + 1]
    <3> DEFINE row == [received[k] EXCEPT ![u] = received[k][u] + 1]
    <3>1. received'[k] = row
      BY <1>3, <1>4, <1>7
    <3>2. \A j \in JobIds \ {k} : received'[j] = received[j]
      BY <1>3, <1>4
    <3> HIDE DEF row
    <3>3. received' = [received EXCEPT ![k] = row]
      BY <1>4, <3>1, <3>2
    <3> QED
      BY <3>3 DEF row
  <2>2. ASSUME Steady(k) PROVE received[k][u] < Claims(k)
    <3>1. u \notin loc[n].tried
      <4>1. InPlace("send", loc[n].todo, loc[n].offset, loc[n].tried, Matching(TargetOf(n)))
        BY <1>1, <1>2, <2>2, RunBefore
      <4> QED
        BY <1>3, <4>1 DEF InPlace
    <3>2. n \in Owing(k, u)
      BY <1>1, <1>2, <3>1 DEF Owing
    <3>3. /\ IsFiniteSet(Owing(k, u)) /\ Cardinality(Owing(k, u)) \in Nat
          /\ received[k][u] \in Nat /\ Claims(k) \in Nat
      BY <1>1, <1>2, <1>4, ClaimTypes
    <3>4. Cardinality(Owing(k, u)) # 0
      BY <3>2, <3>3, FS_EmptySet
    <3>5. received[k][u] + Cardinality(Owing(k, u)) <= Claims(k)
      BY <1>2, <1>4, <2>2 DEF ClaimsInv, ClaimInv
    <3> QED
      BY <3>3, <3>4, <3>5
  <2>3. States[k] # "none" /\ (States[k] = "waiting" <=> Pending(k))
    BY <1>1, <1>2, StatesMean
  <2>4. k \in Exact => received[k][u] < resets[k] + (IF States[k] = "waiting" THEN 0 ELSE 1)
    BY <2>2, <2>3 DEF Exact, Claims
  <2>5. Queue!Deliver(k, u)
    BY <1>1, <1>5, <2>1, <2>3, <2>4 DEF Queue!Deliver, Queue!Turns, States, Exact
  <2> QED
    BY <1>2, <1>4, <2>5
<1> QED
  BY <1>3, <1>6, <1>7

\* An administrator's broadcast enters the queue.
LEMMA EnqueueEnters ==
    ASSUME ShapeInv, NEW target \in TargetType, Enqueue(target)
    PROVE  \E j \in JobIds : Queue!Enter(j)
<1>1. PICK k \in JobIds \ DOMAIN jobs :
         /\ UNCHANGED <<received, resets>>
         /\ DOMAIN jobs' = DOMAIN jobs \cup {k} /\ jobs'[k].status = "pending"
         /\ \A j \in DOMAIN jobs : jobs'[j] = jobs[j]
  BY EnqueueEffect
<1>2. States[k] = "none"
  BY <1>1, StatesMean DEF ShapeInv
<1>3. QueueState(k)' = "waiting"
  BY <1>1 DEF QueueState, Pending
<1>4. \A j \in JobIds \ {k} : QueueState(j)' = QueueState(j)
  BY <1>1, StateStays
<1>5. States' = [States EXCEPT ![k] = "waiting"]
  BY <1>3, <1>4 DEF States
<1>6. Exact' \in {Exact, Exact \cup {k}}
  <2>1. \A j \in DOMAIN jobs : Steady(j)' <=> Steady(j)
    BY <1>1 DEF Steady
  <2>2. Exact' = IF Steady(k)' THEN Exact \cup {k} ELSE Exact
    BY <1>1, <2>1 DEF Exact
  <2> QED
    BY <2>2
<1>7. Queue!Enter(k)
  BY <1>1, <1>2, <1>5, <1>6 DEF Queue!Enter, States, Exact
<1> QED
  BY <1>7

\* The other steps change no status and send nothing.
LEMMA OthersUnseen ==
    ASSUME ShapeInv,
           \/ \E n \in Nodes : \/ Pick(n) \/ ClaimLoses(n) \/ Count(n) \/ List(n) \/ Record(n)
                               \/ Progress(n) \/ StatementFails(n) \/ Crash(n)
           \/ \E u \in Users : SignUp(u) \/ DeleteUser(u) \/ Ban(u) \/ Unban(u)
           \/ UNCHANGED vars
    PROVE  UNCHANGED Queue!queue
<1>1. ASSUME NEW n \in Nodes, Progress(n) PROVE UNCHANGED Queue!queue
  BY <1>1, ProgressEffect, UnseenByQueue
<1>2. ASSUME UNCHANGED <<jobs, resets, received>> PROVE UNCHANGED Queue!queue
  BY <1>2, UnseenByQueue
<1> QED
  BY <1>1, <1>2 DEF Pick, ClaimLoses, Count, List, Record, StatementFails, Crash,
     SignUp, DeleteUser, Ban, Unban, ChangeUsers, vars

\* At the start the queue is empty.
LEMMA QueueInit == Init => Queue!Init
<1> SUFFICES ASSUME Init PROVE Queue!Init
  OBVIOUS
<1>1. DOMAIN jobs = {}
  BY DEF Init
<1>2. States = [j \in JobIds |-> "none"] /\ Exact = {}
  BY <1>1 DEF States, Exact, QueueState
<1> QED
  BY <1>2 DEF Init, Queue!Init, States, Exact

\* However many processes start, claim, page, send and die, they work as one
\* queue: a job goes back only all at once with the others, ends once and for
\* all, and delivers to a user at most once for each turn it had.
THEOREM QueueImplemented == Spec => ImplementsQueue
<1>1. ASSUME ShapeInv, RunsInv, ClaimsInv, [Next]_vars
      PROVE  [Queue!Next]_(Queue!queue)
  BY <1>1, StartPutsBack, ClaimTakes, MarkEnds, SendDelivers, EnqueueEnters, OthersUnseen
     DEF Next, WorkerStep, Queue!Next
<1>2. ShapeInv /\ RunsInv /\ [Next]_vars => RunsInv'
  BY NextKeepsRuns
<1>3. ShapeInv /\ RunsInv /\ ClaimsInv /\ [Next]_vars => ClaimsInv'
  BY NextKeepsClaims
<1> QED
  BY <1>1, <1>2, <1>3, QueueInit, InitShape, NextKeepsShape, InitRuns, InitClaims,
     PTL DEF Spec, ImplementsQueue, Queue!Spec

=============================================================================
