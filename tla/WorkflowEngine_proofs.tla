----------------------- MODULE WorkflowEngine_proofs -----------------------
(* Theorems about WorkflowEngine for every set of runs and agents, every     *)
(* workflow and every value of the bounds.                                   *)
EXTENDS WorkflowEngine, FiniteSetTheorems, WellFoundedInduction, TLAPS

States == {"none", "pending", "running", "completed", "failed", "evicted"}
Replies == {"none", "ok", "failed", "dropped"}
PCs == {"none", "returned"} \cup Executing

\* What the task of a run, the record of the run and the caller's reply have to
\* do with each other.
LifeOf(p, s, a, missing) ==
    /\ p = "none" => s = "none" /\ a = "none"
    /\ p = "created" => s = "pending" /\ a = "none"
    /\ p \in Executing \ {"created"} => s = "running" /\ a = "none"
    /\ p = "returned" =>
          \/ a = "ok" /\ s \in {"completed", "evicted"}
          \/ a = "failed" /\ ~ missing /\ s \in {"failed", "evicted"}
          \/ a = "failed" /\ missing /\ s = "running"
          \/ a = "dropped" /\ s \in {"pending", "running"}
    /\ missing => p = "returned"

LifeInv ==
    /\ state \in [Runs -> States]
    /\ pc \in [Runs -> PCs]
    /\ reply \in [Runs -> Replies]
    /\ unresolved \subseteq Runs
    /\ \A r \in Runs : LifeOf(pc[r], state[r], reply[r], r \in unresolved)

LEMMA LifeInit == Init => LifeInv
BY DEF Init, LifeInv, LifeOf, States, PCs, Replies, Executing

\* A step of the task of r that leaves the other runs alone.
LEMMA OneRun ==
    ASSUME LifeInv, NEW r \in Runs,
           NEW s \in States, NEW p \in PCs, NEW a \in Replies,
           LifeOf(p, s, a, r \in unresolved'),
           state' = [state EXCEPT ![r] = s],
           pc' = [pc EXCEPT ![r] = p],
           reply' = [reply EXCEPT ![r] = a],
           unresolved' \subseteq Runs,
           \A q \in Runs : q # r => (q \in unresolved' <=> q \in unresolved)
    PROVE  LifeInv'
<1>1. \A q \in Runs : LifeOf(pc'[q], state'[q], reply'[q], q \in unresolved')
  <2> TAKE q \in Runs
  <2>1. CASE q = r
    BY <2>1 DEF LifeInv
  <2>2. CASE q # r
    <3>1. pc'[q] = pc[q] /\ state'[q] = state[q] /\ reply'[q] = reply[q]
      BY <2>2 DEF LifeInv
    <3>2. q \in unresolved' <=> q \in unresolved
      BY <2>2
    <3>3. LifeOf(pc[q], state[q], reply[q], q \in unresolved)
      BY DEF LifeInv
    <3>4. QED
      BY <3>1, <3>2, <3>3 DEF LifeOf
  <2>3. QED
    BY <2>1, <2>2
<1>2. QED
  BY <1>1 DEF LifeInv

\* A step of the task of r that is neither its first nor its last.
LEMMA GoesOn ==
    ASSUME LifeInv, NEW r \in Runs, NEW p \in Executing \ {"created"},
           pc[r] \in Executing \ {"created"},
           UNCHANGED <<state, reply, unresolved>>,
           pc' = [pc EXCEPT ![r] = p]
    PROVE  LifeInv'
<1>1. /\ state[r] = "running" /\ reply[r] = "none" /\ r \notin unresolved
      /\ unresolved' \subseteq Runs
  BY DEF LifeInv, LifeOf, Executing
<1>2. state' = [state EXCEPT ![r] = "running"] /\ reply' = [reply EXCEPT ![r] = "none"]
  BY <1>1 DEF LifeInv
<1>3. LifeOf(p, "running", "none", r \in unresolved')
  BY <1>1 DEF LifeOf, Executing
<1>4. QED
  BY <1>1, <1>2, <1>3, OneRun DEF States, PCs, Replies

\* The run an executing task belongs to is not evicted: only ended runs are.
LEMMA VictimsEnded ==
    ASSUME NEW r \in Runs, NEW q \in Victims(r)
    PROVE  q \in Present /\ Ended(q)
BY DEF Victims

(* Every step keeps the task, the record and the reply of every run together *)
(* (create_run, execute_run, run_workflow).                                  *)
LEMMA LifeStep == LifeInv /\ [Next]_vars => LifeInv'
<1> SUFFICES ASSUME LifeInv, [Next]_vars PROVE LifeInv'
  OBVIOUS
<1> USE DEF Stay
<1>1. ASSUME NEW r \in Runs, Create(r) PROVE LifeInv'
  <2>1. pc[r] = "none" /\ reply[r] = "none" /\ state[r] = "none" /\ r \notin unresolved /\ unresolved \subseteq Runs
    BY <1>1 DEF Create, LifeInv, LifeOf, PCs, Executing
  <2>2. UNCHANGED <<reply, unresolved>> /\ pc' = [pc EXCEPT ![r] = "created"]
    BY <1>1 DEF Create
  <2>3. \A q \in Runs : state'[q] = IF q = r THEN "pending"
                               ELSE IF q \in Victims(r) THEN "evicted" ELSE state[q]
    BY <1>1 DEF Create
  <2>4. ASSUME NEW q \in Runs
        PROVE  state'[q] \in States /\ LifeOf(pc'[q], state'[q], reply'[q], q \in unresolved')
    <3>1. CASE q = r
      BY <2>1, <2>2, <2>3, <3>1 DEF LifeInv, LifeOf, States, Executing
    <3>2. CASE q # r /\ q \in Victims(r)
      <4>1. state[q] \in {"completed", "failed"}
        BY <3>2, VictimsEnded DEF Ended
      <4>2. /\ pc[q] = "returned" /\ reply[q] \in {"ok", "failed"}
            /\ reply[q] = "failed" => q \notin unresolved
        BY <4>1 DEF LifeInv, LifeOf, PCs, Executing
      <4>3. /\ pc'[q] = "returned" /\ reply'[q] \in {"ok", "failed"}
            /\ reply'[q] = "failed" => q \notin unresolved'
            /\ state'[q] = "evicted"
        BY <2>2, <2>3, <3>2, <4>2 DEF LifeInv
      <4>4. QED
        BY <4>3 DEF LifeOf, States, Executing
    <3>3. CASE q # r /\ q \notin Victims(r)
      <4>1. /\ state'[q] = state[q] /\ pc'[q] = pc[q] /\ reply'[q] = reply[q]
            /\ unresolved' = unresolved
        BY <2>2, <2>3, <3>3 DEF LifeInv
      <4>2. QED
        BY <4>1 DEF LifeInv
    <3>4. QED
      BY <3>1, <3>2, <3>3
  <2>5. state' \in [Runs -> States]
    BY <1>1, <2>4 DEF Create
  <2>6. /\ pc' \in [Runs -> PCs] /\ reply' \in [Runs -> Replies]
        /\ unresolved' \subseteq Runs
    BY <2>2 DEF LifeInv, PCs, Executing
  <2>7. QED
    BY <2>4, <2>5, <2>6 DEF LifeInv
<1>2. ASSUME NEW r \in Runs, Begin(r) PROVE LifeInv'
  <2>1. reply' = [reply EXCEPT ![r] = "none"] /\ r \notin unresolved /\ unresolved \subseteq Runs /\ unresolved' = unresolved
    BY <1>2 DEF Begin, At, LifeInv, LifeOf
  <2>2. QED
    BY <1>2, <2>1, OneRun DEF Begin, At, LifeOf, States, PCs, Replies, Executing
<1>3. ASSUME NEW r \in Runs, Finish(r) PROVE LifeInv'
  <2>1. r \notin unresolved /\ unresolved \subseteq Runs
    BY <1>3 DEF Finish, Leave, At, LifeInv, LifeOf
  <2>2. QED
    BY <1>3, <2>1, OneRun
    DEF Finish, Leave, At, LifeOf, States, PCs, Replies, Executing
<1>4. ASSUME NEW r \in Runs, NEW f \in Executing, Fail(r, f) PROVE LifeInv'
  <2>1. r \notin unresolved /\ unresolved \subseteq Runs
    BY <1>4 DEF Fail, Leave, At, LifeInv, LifeOf, Executing
  <2>2. QED
    BY <1>4, <2>1, OneRun
    DEF Fail, Leave, At, LifeOf, States, PCs, Replies, Executing
<1>5. ASSUME NEW r \in Runs, AgentMissing(r) PROVE LifeInv'
  <2>1. state[r] = "running" /\ unresolved' \subseteq Runs
    BY <1>5 DEF AgentMissing, Leave, At, LifeInv, LifeOf, Executing
  <2>2. state' = [state EXCEPT ![r] = "running"]
    BY <1>5, <2>1 DEF AgentMissing, record, LifeInv
  <2>3. QED
    BY <1>5, <2>1, <2>2, OneRun
    DEF AgentMissing, Leave, At, LifeOf, States, PCs, Replies, Executing
<1>6. ASSUME NEW r \in Runs, Drop(r) PROVE LifeInv'
  <2>1. state[r] \in {"pending", "running"} /\ r \notin unresolved /\ unresolved \subseteq Runs
    BY <1>6 DEF Drop, LifeInv, LifeOf, Executing
  <2>2. state' = [state EXCEPT ![r] = state[r]]
    BY <1>6 DEF Drop, record, LifeInv
  <2>3. QED
    BY <1>6, <2>1, <2>2, OneRun
    DEF Drop, Leave, At, LifeOf, States, PCs, Replies, Executing
<1>7. ASSUME NEW r \in Runs, Resolve(r) PROVE LifeInv'
  <2>1. PICK p \in {"looping", "calling"} : pc' = [pc EXCEPT ![r] = p]
    BY <1>7 DEF Resolve, At
  <2>2. QED
    BY <1>7, <2>1, GoesOn DEF Resolve, At, record, Executing
<1>8. ASSUME NEW r \in Runs,
             SkipConditional(r) \/ Collect(r) \/ Retry(r)
             \/ \E k \in DOMAIN fan[r], x \in Outputs \cup {"failed"} : FanEnds(r, k, x)
      PROVE  LifeInv'
  <2>1. UNCHANGED <<pc, state, reply, unresolved>>
    BY <1>8 DEF SkipConditional, Collect, Retry, FanEnds, record
  <2>2. QED
    BY <2>1 DEF LifeInv
<1>9. ASSUME NEW r \in Runs, LoopTest(r) PROVE LifeInv'
  BY <1>9, GoesOn DEF LoopTest, At, record, Executing
<1>10. ASSUME NEW r \in Runs, NEW o \in Outputs, CallSucceeds(r, o) PROVE LifeInv'
  BY <1>10, GoesOn DEF CallSucceeds, At, Executing
<1>11. ASSUME NEW r \in Runs, SkipStep(r) PROVE LifeInv'
  BY <1>11, GoesOn DEF SkipStep, At, record, Executing
<1>12. ASSUME NEW r \in Runs, CallFails(r) PROVE LifeInv'
  BY <1>4, <1>8, <1>11, <1>12 DEF CallFails, GiveUp, Executing
<1>13. ASSUME NEW r \in Runs, FanOut(r) PROVE LifeInv'
  BY <1>13, GoesOn DEF FanOut, At, record, Executing
<1>14. ASSUME NEW r \in Runs, Join(r) PROVE LifeInv'
  <2>1. CASE Fail(r, "fanning")
    BY <1>4, <2>1 DEF Executing
  <2>2. CASE At(r, "fanning", "ready") /\ UNCHANGED <<state, reply, unresolved>>
    BY <2>2, GoesOn DEF At, Executing
  <2>3. QED
    BY <1>14, <2>1, <2>2 DEF Join
<1>15. ASSUME NEW a \in Agents, KillAgent(a) PROVE LifeInv'
  BY <1>15 DEF KillAgent, record, LifeInv
<1>16. CASE UNCHANGED vars
  BY <1>16 DEF vars, record, LifeInv
<1>17. QED
  BY <1>1, <1>2, <1>3, <1>5, <1>6, <1>7, <1>8, <1>9, <1>10, <1>12, <1>13,
     <1>14, <1>15, <1>16 DEF Next, Execute

THEOREM LifeInvariant == Spec => []LifeInv
BY LifeInit, LifeStep, PTL DEF Spec

(* The record of a run in execution is in the map and says so, however runs  *)
(* are created and evicted meanwhile (create_run, execute_run).              *)
THEOREM ActiveTheorem == Spec => []ActiveRunsRetained
<1>1. LifeInv => ActiveRunsRetained
  BY DEF LifeInv, LifeOf, ActiveRunsRetained, Executing
<1>2. QED
  BY <1>1, LifeInvariant, PTL

(* What a caller was told is what the record of the run says for as long as  *)
(* it is kept, except that a run whose agent was missing failed for its      *)
(* caller and is left Running (execute_run, run_workflow).                   *)
THEOREM RepliesTheorem == Spec => []RepliesMatchRecords
<1>1. LifeInv => RepliesMatchRecords
  BY DEF LifeInv, LifeOf, RepliesMatchRecords, Present, PCs, Executing
<1>2. QED
  BY <1>1, LifeInvariant, PTL

(* What a record says of its run is true, to the task that executes it and,  *)
(* unless an agent was missing, to whoever asked for it (create_run,         *)
(* execute_run).                                                             *)
THEOREM RecordsTheorem == Spec => []RecordsAreTrue
BY ActiveTheorem, RepliesTheorem, PTL DEF RecordsAreTrue

-----------------------------------------------------------------------------
(* Eviction *)

BornInv == born \in [Runs -> Nat]

LEMMA BornInit == Init => BornInv
BY DEF Init, BornInv

LEMMA BornStep == BornInv /\ [Next]_vars => BornInv'
<1> SUFFICES ASSUME BornInv, [Next]_vars PROVE BornInv'
  OBVIOUS
<1>1. ASSUME NEW r \in Runs, Create(r) PROVE BornInv'
  <2>1. IsFiniteSet({q \in Runs : state[q] # "none"})
    BY RunsFinite, FS_Subset
  <2>2. Cardinality({q \in Runs : state[q] # "none"}) \in Nat
    BY <2>1, FS_CardinalityType
  <2>3. QED
    BY <1>1, <2>2 DEF Create, BornInv
<1>2. ASSUME NEW r \in Runs, Execute(r) PROVE BornInv'
  <2>1. born' = born
    BY <1>2
    DEF Execute, Begin, Finish, Resolve, AgentMissing, SkipConditional, Collect,
        LoopTest, CallSucceeds, CallFails, SkipStep, Retry, GiveUp, FanOut,
        FanEnds, Join, record
  <2>2. QED
    BY <2>1 DEF BornInv
<1>3. ASSUME NEW r \in Runs, Drop(r) PROVE BornInv'
  BY <1>3 DEF Drop, record, BornInv
<1>4. ASSUME NEW a \in Agents, KillAgent(a) PROVE BornInv'
  BY <1>4 DEF KillAgent, record, BornInv
<1>5. CASE UNCHANGED vars
  BY <1>5 DEF vars, record, BornInv
<1>6. QED
  BY <1>1, <1>2, <1>3, <1>4, <1>5 DEF Next

\* The task of a run never takes a run out of the map.
LEMMA ExecuteKeeps ==
    ASSUME state \in [Runs -> States], NEW r \in Runs, Execute(r)
    PROVE  Present \subseteq Present'
<1>1. \/ state' = state
      \/ \E s \in {"running", "completed", "failed"} : state' = [state EXCEPT ![r] = s]
  BY Zenon
  DEF Execute, Begin, Finish, Resolve, AgentMissing, SkipConditional, Collect,
      LoopTest, CallSucceeds, CallFails, SkipStep, Retry, GiveUp, FanOut,
      FanEnds, Join, Fail, record
<1>2. QED
  BY <1>1 DEF Present

\* Among the ended runs the victims are the oldest.
LEMMA VictimsOldest ==
    ASSUME BornInv, NEW r \in Runs, NEW v \in Victims(r),
           NEW q \in Present, Ended(q), q \notin Victims(r)
    PROVE  born[v] < born[q]
<1> DEFINE ended == {p \in Present : Ended(p)}
           Before(x) == {p \in ended : born[p] < born[x]}
           excess == Cardinality(Present \cup {r}) - MaxRetained
<1>1. v \in ended /\ q \in ended /\ ended \subseteq Runs
  BY DEF Victims, Present
<1>2. Cardinality(Before(v)) < excess /\ ~(Cardinality(Before(q)) < excess)
  BY <1>1 DEF Victims
<1>3. ASSUME ~(born[v] < born[q]) PROVE FALSE
  <2>1. Before(q) \subseteq Before(v)
    BY <1>1, <1>3 DEF BornInv
  <2>2. IsFiniteSet(Before(v)) /\ IsFiniteSet(Present \cup {r})
    BY <1>1, RunsFinite, FS_Subset DEF Present
  <2>3. /\ Cardinality(Before(v)) \in Nat /\ Cardinality(Before(q)) \in Nat
        /\ Cardinality(Before(q)) <= Cardinality(Before(v))
    BY <2>1, <2>2, FS_Subset, FS_CardinalityType
  <2>4. excess \in Int
    BY <2>2, FS_CardinalityType, BoundsType
  <2> HIDE DEF Before, excess
  <2>5. QED
    BY <1>2, <2>3, <2>4
<1>4. QED
  BY <1>3

(* An ended run leaves the map only before every ended run that was created  *)
(* after it: no history is lost while an older one is kept (create_run).     *)
THEOREM EvictionTheorem == Spec => OldestEndedEvicted
<1>1. ASSUME LifeInv, BornInv, [Next]_vars,
             NEW r \in Present \ Present', NEW q \in Present', Ended(q)
      PROVE  born[r] < born[q]
  <2>1. ~ \E x \in Runs : Execute(x)
    BY <1>1, ExecuteKeeps DEF LifeInv
  <2>2. state' # state
    BY <1>1 DEF Present
  <2>3. PICK x \in Runs : Create(x)
    BY <1>1, <2>1, <2>2 DEF Next, Drop, KillAgent, record, vars
  <2>4. \A p \in Runs : state'[p] = IF p = x THEN "pending"
                               ELSE IF p \in Victims(x) THEN "evicted" ELSE state[p]
    BY <2>3 DEF Create
  <2>5. r \in Victims(x)
    BY <1>1, <2>4 DEF Present
  <2>6. q # x /\ q \in Runs
    BY <1>1, <2>3 DEF Create, Ended, Present
  <2>7. q \notin Victims(x) /\ q \in Present
    BY <1>1, <2>4, <2>6 DEF Present
  <2>8. QED
    BY <1>1, <2>5, <2>7, VictimsOldest
<1>2. LifeInv /\ BornInv /\ [Next]_vars
      => [\A r \in Present \ Present', q \in Present' : Ended(q) => born[r] < born[q]]_vars
  BY <1>1
<1>3. Spec => []BornInv
  BY BornInit, BornStep, PTL DEF Spec
<1>4. QED
  BY <1>2, <1>3, LifeInvariant, PTL DEF Spec, OldestEndedEvicted

-----------------------------------------------------------------------------
(* Retention.  When there are more ended runs than have to go, the ranks of   *)
(* those that stay are at least the excess, and the first of them has only    *)
(* victims before it.                                                        *)

LEMMA Least ==
    ASSUME NEW S \in SUBSET Nat, S # {}
    PROVE  \E x \in S : \A y \in S : x <= y
<1> DEFINE less == {xy \in Nat \X Nat : xy[1] < xy[2]}
<1>1. IsWellFoundedOn(less, Nat)
  BY NatLessThanWellFounded, Zenon DEF OpToRel
<1>2. PICK x \in S : \A y \in S : ~ (<<y, x>> \in less)
  <2> HIDE DEF less
  <2>1. QED
    BY <1>1, WFMin
<1>3. ASSUME NEW y \in S PROVE x <= y
  <2>1. x \in Nat /\ y \in Nat /\ (y < x => <<y, x>> \in less)
    OBVIOUS
  <2> HIDE DEF less
  <2>2. QED
    BY <1>2, <2>1
<1>4. QED
  BY <1>3

LEMMA PresentFinite ==
    /\ IsFiniteSet(Present) /\ Cardinality(Present) \in Nat
    /\ IsFiniteSet(Stranded) /\ Cardinality(Stranded) \in Nat
    /\ IsFiniteSet(Active) /\ Cardinality(Active) \in Nat
<1>1. Present \subseteq Runs /\ Stranded \subseteq Runs /\ Active \subseteq Runs
  BY DEF Present, Stranded, Active
<1>2. IsFiniteSet(Present) /\ IsFiniteSet(Stranded) /\ IsFiniteSet(Active)
  BY <1>1, RunsFinite, FS_Subset
<1>3. QED
  BY <1>2, FS_CardinalityType

\* Every ended run is a victim, or there are as many as are in excess.
LEMMA EnoughVictims ==
    ASSUME BornInv, NEW r \in Runs, NEW excess \in Nat,
           excess = Cardinality(Present \cup {r}) - MaxRetained,
           NEW q \in Present, Ended(q), q \notin Victims(r)
    PROVE  Cardinality(Victims(r)) >= excess
<1> DEFINE ended == {p \in Present : Ended(p)}
           Older(x) == {p \in ended : born[p] < born[x]}
           Kept == ended \ Victims(r)
<1>1. ended \subseteq Runs /\ q \in Kept
  BY DEF Present
<1>2. Victims(r) = {x \in ended : Cardinality(Older(x)) < excess}
  BY DEF Victims
<1>3. PICK x \in Kept : \A y \in Kept : born[x] <= born[y]
  <2> DEFINE Births == {born[y] : y \in Kept}
  <2>1. Births \in SUBSET Nat /\ Births # {}
    BY <1>1 DEF BornInv
  <2>2. PICK b \in Births : \A c \in Births : b <= c
    <3> HIDE DEF Births
    <3>1. QED
      BY <2>1, Least
  <2>3. QED
    BY <2>2
<1>4. Older(x) \subseteq Victims(r)
  <2>1. ASSUME NEW p \in Older(x), p \notin Victims(r) PROVE FALSE
    <3>1. born[x] <= born[p] /\ born[p] < born[x] /\ born[x] \in Nat /\ born[p] \in Nat
      BY <1>1, <1>3, <2>1 DEF BornInv
    <3>2. QED
      BY <3>1
  <2>2. QED
    BY <2>1
<1>5. IsFiniteSet(ended) /\ Victims(r) \subseteq ended
  BY <1>1, <1>2, RunsFinite, FS_Subset
<1>6. IsFiniteSet(Victims(r)) /\ Cardinality(Victims(r)) \in Nat
  BY <1>5, FS_Subset, FS_CardinalityType
<1>7. IsFiniteSet(Older(x)) /\ Cardinality(Older(x)) \in Nat
      /\ Cardinality(Older(x)) <= Cardinality(Victims(r))
  BY <1>4, <1>6, FS_Subset, FS_CardinalityType
<1>8. ~ (Cardinality(Older(x)) < excess)
  BY <1>2, <1>3
<1> HIDE DEF Older
<1>9. QED
  BY <1>6, <1>7, <1>8

\* create_run leaves the map within its bounds, whatever it was before.
LEMMA CreateRetains ==
    ASSUME LifeInv, BornInv, NEW r \in Runs, Create(r)
    PROVE  RetentionBounded'
<1>1. /\ state[r] = "none" /\ Cardinality(Active) < MaxActive
      /\ state' = [q \in Runs |-> IF q = r THEN "pending"
                               ELSE IF q \in Victims(r) THEN "evicted" ELSE state[q]]
      /\ pc' = [pc EXCEPT ![r] = "created"]
  BY DEF Create
<1>2. Victims(r) \subseteq Present /\ r \notin Present
  BY <1>1, VictimsEnded DEF Present
<1>3. Present' = (Present \cup {r}) \ Victims(r)
  <2>1. ASSUME NEW q \in Runs PROVE q \in Present' <=> q \in (Present \cup {r}) \ Victims(r)
    BY <1>1, <1>2, <2>1 DEF Present
  <2>2. Present' \subseteq Runs /\ (Present \cup {r}) \ Victims(r) \subseteq Runs
    BY DEF Present
  <2>3. QED
    BY <2>1, <2>2
<1>4. /\ IsFiniteSet(Present \cup {r}) /\ Cardinality(Present \cup {r}) \in Nat
      /\ (Present \cup {r}) \cap Victims(r) = Victims(r)
  BY <1>2, PresentFinite, FS_AddElement
<1>5. IsFiniteSet(Victims(r)) /\ Cardinality(Victims(r)) \in Nat
  BY <1>2, PresentFinite, FS_Subset, FS_CardinalityType
<1>6. Cardinality(Present') = Cardinality(Present \cup {r}) - Cardinality(Victims(r))
  <2>1. Cardinality((Present \cup {r}) \ Victims(r)) =
           Cardinality(Present \cup {r}) - Cardinality((Present \cup {r}) \cap Victims(r))
    BY <1>4, FS_Difference
  <2>2. QED
    BY <1>3, <1>4, <2>1
<1> DEFINE excess == Cardinality(Present \cup {r}) - MaxRetained
<1>7. CASE excess \notin Nat \/ Cardinality(Victims(r)) >= excess
  <2>1. Cardinality(Present') <= MaxRetained
    BY <1>4, <1>5, <1>6, <1>7, BoundsType
  <2>2. QED
    BY <2>1 DEF RetentionBounded
<1>8. CASE excess \in Nat /\ ~ (Cardinality(Victims(r)) >= excess)
  <2>1. \A q \in Present : Ended(q) => q \in Victims(r)
    BY <1>8, EnoughVictims
  <2>2. Present' \subseteq Active' \cup Stranded'
    <3>1. ASSUME NEW q \in Present' PROVE q \in Active' \cup Stranded'
      <4>1. CASE q = r
        BY <1>1, <4>1 DEF Active, Executing, LifeInv
      <4>2. CASE q # r
        <5>1. q \in Present /\ q \notin Victims(r) /\ ~ Ended(q)
          BY <1>3, <2>1, <3>1, <4>2
        <5>2. q \in Runs /\ state'[q] = state[q] /\ pc'[q] = pc[q]
          BY <1>1, <4>2, <5>1 DEF Present, LifeInv
        <5>3. pc[q] = "returned" \/ pc[q] \in Executing
          BY <5>1, <5>2 DEF LifeInv, LifeOf, PCs, Present
        <5>4. pc[q] = "returned" => q \in Stranded'
          BY <3>1, <5>1, <5>2 DEF Stranded, Ended
        <5>5. pc[q] \in Executing => q \in Active'
          BY <5>2 DEF Active
        <5>6. QED
          BY <5>3, <5>4, <5>5
      <4>3. QED
        BY <4>1, <4>2
    <3>2. QED
      BY <3>1
  <2>3. Active' = Active \cup {r}
    <3>1. ASSUME NEW q \in Runs PROVE q \in Active' <=> q \in Active \cup {r}
      BY <1>1 DEF Active, Executing, LifeInv
    <3>2. QED
      BY <3>1 DEF Active
  <2>4. IsFiniteSet(Active') /\ Cardinality(Active') \in Nat /\ Cardinality(Active') <= MaxActive
    <3>1. IsFiniteSet(Active) /\ Cardinality(Active) \in Nat
      BY PresentFinite
    <3>2. /\ IsFiniteSet(Active \cup {r})
          /\ Cardinality(Active \cup {r}) \in {Cardinality(Active), Cardinality(Active) + 1}
      BY <3>1, FS_AddElement
    <3>3. QED
      BY <1>1, <2>3, <3>1, <3>2, BoundsType
  <2>5. IsFiniteSet(Stranded') /\ Cardinality(Stranded') \in Nat
    <3>1. Stranded' \subseteq Runs
      BY DEF Stranded, Present
    <3>2. QED
      BY <3>1, RunsFinite, FS_Subset, FS_CardinalityType
  <2>6. /\ IsFiniteSet(Active' \cap Stranded') /\ Cardinality(Active' \cap Stranded') \in Nat
    BY <2>4, FS_Intersection, FS_CardinalityType
  <2>7. /\ IsFiniteSet(Active' \cup Stranded')
        /\ Cardinality(Active' \cup Stranded') =
              Cardinality(Active') + Cardinality(Stranded') - Cardinality(Active' \cap Stranded')
    BY <2>4, <2>5, FS_Union
  <2>8. Cardinality(Present') <= Cardinality(Active' \cup Stranded')
    BY <2>2, <2>7, FS_Subset
  <2>9. Cardinality(Present') \in Nat
    BY <2>2, <2>7, FS_Subset, FS_CardinalityType
  <2>10. Cardinality(Present') <= MaxActive + Cardinality(Stranded')
    BY <2>4, <2>5, <2>6, <2>7, <2>8, <2>9, BoundsType
  <2>11. QED
    BY <2>10 DEF RetentionBounded
<1>9. QED
  BY <1>7, <1>8

\* A step of the task of r moves r alone, and r is in execution.
LEMMA ExecuteMoves ==
    ASSUME LifeInv, NEW r \in Runs, Execute(r)
    PROVE  /\ pc[r] \in Executing
           /\ \E p \in PCs : pc' = [pc EXCEPT ![r] = p]
           /\ \E s \in {"pending", "running", "completed", "failed"} : state' = [state EXCEPT ![r] = s]
<1> USE DEF Stay, At, record
<1>1. pc[r] \in Executing => state[r] \in {"pending", "running"}
  BY DEF LifeInv, LifeOf, Executing
<1>2. ASSUME pc[r] \in Executing, UNCHANGED <<pc, state>>
      PROVE  /\ \E p \in PCs : pc' = [pc EXCEPT ![r] = p]
             /\ \E s \in {"pending", "running", "completed", "failed"} : state' = [state EXCEPT ![r] = s]
  <2>1. pc' = [pc EXCEPT ![r] = pc[r]] /\ state' = [state EXCEPT ![r] = state[r]]
    BY <1>2 DEF LifeInv
  <2>2. QED
    BY <1>1, <1>2, <2>1 DEF PCs
<1>3. ASSUME pc[r] \in Executing, UNCHANGED state, NEW p \in PCs, pc' = [pc EXCEPT ![r] = p]
      PROVE  \E s \in {"pending", "running", "completed", "failed"} : state' = [state EXCEPT ![r] = s]
  <2>1. state' = [state EXCEPT ![r] = state[r]]
    BY <1>3 DEF LifeInv
  <2>2. QED
    BY <1>1, <1>3, <2>1
<1>4. CASE Begin(r)
  BY <1>4 DEF Begin, Executing, PCs
<1>5. CASE Finish(r)
  BY <1>5 DEF Finish, Leave, Executing, PCs
<1>6. ASSUME NEW f \in {"calling", "fanning"}, Fail(r, f)
      PROVE  /\ pc[r] \in Executing
             /\ \E p \in PCs : pc' = [pc EXCEPT ![r] = p]
             /\ \E s \in {"pending", "running", "completed", "failed"} : state' = [state EXCEPT ![r] = s]
  BY <1>6 DEF Fail, Leave, Executing, PCs
<1>7. CASE \/ Resolve(r) \/ AgentMissing(r) \/ LoopTest(r) \/ FanOut(r)
           \/ \E o \in Outputs : CallSucceeds(r, o)
           \/ SkipStep(r)
  <2>1. pc[r] \in Executing /\ state' = state /\ \E p \in PCs : pc' = [pc EXCEPT ![r] = p]
    BY <1>7 DEF Resolve, AgentMissing, LoopTest, FanOut, CallSucceeds, SkipStep, Leave, Executing, PCs
  <2>2. QED
    BY <1>3, <2>1
<1>8. CASE \/ SkipConditional(r) \/ Collect(r) \/ Retry(r)
           \/ \E k \in DOMAIN fan[r], x \in Outputs \cup {"failed"} : FanEnds(r, k, x)
  <2>1. pc[r] \in Executing /\ UNCHANGED <<pc, state>>
    BY <1>8 DEF SkipConditional, Collect, Retry, FanEnds, Ahead, Executing
  <2>2. QED
    BY <1>2, <2>1
<1>9. CASE CallFails(r)
  BY <1>6, <1>7, <1>8, <1>9 DEF CallFails, GiveUp
<1>10. CASE Join(r)
  <2>1. CASE Fail(r, "fanning")
    BY <1>6, <2>1
  <2>2. CASE At(r, "fanning", "ready") /\ UNCHANGED state
    BY <1>3, <2>2 DEF Executing, PCs
  <2>3. QED
    BY <1>10, <2>1, <2>2 DEF Join
<1>11. QED
  BY <1>4, <1>5, <1>7, <1>8, <1>9, <1>10 DEF Execute

\* No other step changes what is in the map, or takes up a run that was left.
LEMMA OthersRetain ==
    ASSUME LifeInv, [Next]_vars, ~ \E r \in Runs : Create(r)
    PROVE  Present' = Present /\ Stranded \subseteq Stranded'
<1>1. ASSUME NEW r \in Runs, Execute(r) PROVE Present' = Present /\ Stranded \subseteq Stranded'
  <2>1. /\ pc[r] \in Executing /\ state[r] \in {"pending", "running"}
        /\ \E p \in PCs : pc' = [pc EXCEPT ![r] = p]
        /\ \E s \in {"pending", "running", "completed", "failed"} : state' = [state EXCEPT ![r] = s]
    BY <1>1, ExecuteMoves DEF LifeInv, LifeOf, Executing
  <2>2. Present' = Present
    BY <2>1 DEF Present, LifeInv
  <2>3. \A q \in Runs : q # r => state'[q] = state[q] /\ pc'[q] = pc[q]
    BY <2>1 DEF LifeInv
  <2>4. r \notin Stranded
    BY <2>1 DEF Stranded, Executing
  <2>5. QED
    BY <2>2, <2>3, <2>4 DEF Stranded, Ended, Present
<1>2. ASSUME NEW r \in Runs, Drop(r) PROVE Present' = Present /\ Stranded \subseteq Stranded'
  <2>1. /\ pc[r] \in Executing /\ state' = state /\ pc' = [pc EXCEPT ![r] = "returned"]
    BY <1>2 DEF Drop, Leave, At, record
  <2>2. \A q \in Runs : q # r => pc'[q] = pc[q]
    BY <2>1 DEF LifeInv
  <2>3. r \notin Stranded
    BY <2>1 DEF Stranded, Executing
  <2>4. QED
    BY <2>1, <2>2, <2>3 DEF Stranded, Ended, Present
<1>3. CASE UNCHANGED <<state, pc>>
  BY <1>3 DEF Present, Stranded, Ended
<1>4. QED
  BY <1>1, <1>2, <1>3 DEF Next, KillAgent, record, vars

(* The map of runs holds no more than the code means to retain, or than the   *)
(* runs it cannot evict: those in execution and those whose task was dropped  *)
(* or found no agent (create_run, run_workflow).                              *)
THEOREM RetentionTheorem == Spec => []RetentionBounded
<1>1. Init => RetentionBounded
  <2>1. Init => Present = {}
    BY DEF Init, Present
  <2>2. QED
    BY <2>1, FS_EmptySet, BoundsType DEF RetentionBounded
<1>2. LifeInv /\ BornInv /\ RetentionBounded /\ [Next]_vars => RetentionBounded'
  <2> SUFFICES ASSUME LifeInv, BornInv, RetentionBounded, [Next]_vars PROVE RetentionBounded'
    OBVIOUS
  <2>1. CASE \E r \in Runs : Create(r)
    BY <2>1, CreateRetains
  <2>2. CASE ~ \E r \in Runs : Create(r)
    <3>1. Present' = Present /\ Stranded \subseteq Stranded'
      BY <2>2, OthersRetain
    <3>2. Stranded' \subseteq Runs
      BY DEF Stranded, Present
    <3>3. /\ IsFiniteSet(Stranded') /\ Cardinality(Stranded') \in Nat
      BY <3>2, RunsFinite, FS_Subset, FS_CardinalityType
    <3>4. Cardinality(Stranded) \in Nat /\ Cardinality(Stranded) <= Cardinality(Stranded')
      BY <3>1, <3>3, PresentFinite, FS_Subset
    <3>5. Cardinality(Present) \in Nat
      BY PresentFinite
    <3>6. QED
      BY <3>1, <3>3, <3>4, <3>5, BoundsType DEF RetentionBounded
  <2>3. QED
    BY <2>1, <2>2
<1>3. Spec => []BornInv
  BY BornInit, BornStep, PTL DEF Spec
<1>4. QED
  BY <1>1, <1>2, <1>3, LifeInvariant, PTL DEF Spec

-----------------------------------------------------------------------------
(* Results and texts.  The operators below take the data of one run: S, its   *)
(* steps; i and c, the step it is at and the round of it; res, its results;   *)
(* text and all, current_input and all_outputs.                              *)

\* The number of results of step k.
Count(res, k) == Cardinality({n \in DOMAIN res : res[n].step = k})

Ordered(res) == \A m, n \in DOMAIN res : m <= n => res[m].step <= res[n].step

Before(res, i) == \A n \in DOMAIN res : res[n].step < i

Limited(S, res) ==
    \A k \in DOMAIN S : Count(res, k) <= IF S[k].mode = "loop" THEN S[k].rounds ELSE 1

\* A step that is not passed without a result.
Must(s) ==
    \/ s.mode = "fan_out"
    \/ s.mode = "sequential" /\ s.onError # "skip"

\* Each of these before i has left its result.
Done(S, res, i) == \A k \in DOMAIN S : k < i /\ Must(S[k]) => Count(res, k) = 1

\* Where the task is, and what it has recorded of the step it is at.
PlaceOf(S, p, i, c, res) ==
    /\ p \in {"none", "created"} => res = <<>> /\ i = 1 /\ c = 0
    /\ p \in {"ready", "calling", "looping", "fanning"} => i <= Len(S) + 1 /\ Done(S, res, i)
    /\ p \in {"ready", "fanning"} => c = 0 /\ Before(res, i)
    /\ p = "fanning" => i \in DOMAIN S /\ S[i].mode = "fan_out"
    /\ p = "looping" => S[i].mode = "loop"
    /\ p \in {"calling", "looping"} =>
          /\ i \in DOMAIN S /\ S[i].mode \in {"sequential", "conditional", "loop"}
          /\ S[i].mode # "loop" => c = 0 /\ Before(res, i)
          /\ S[i].mode = "loop" =>
                /\ Before(res, i + 1) /\ Count(res, i) = c
                /\ c <= S[i].rounds /\ (p = "calling" => c < S[i].rounds)

ProgressOf(S, s, p, i, c, res) ==
    /\ \A n \in DOMAIN res : res[n].step \in DOMAIN S
    /\ Ordered(res) /\ Limited(S, res)
    /\ PlaceOf(S, p, i, c, res)
    /\ s = "completed" => Done(S, res, Len(S) + 1)

LastStep(res) == IF Len(res) = 0 THEN 0 ELSE res[Len(res)].step

\* All steps from that of result n to the last one with a result are FanOut steps.
InGroup(S, res, n) == \A k \in res[n].step..LastStep(res) : S[k].mode = "fan_out"

EndsWithGroup(S, res, text) ==
    \A n \in DOMAIN res :
        InGroup(S, res, n) =>
            /\ Len(text) - Len(res) + n >= 1
            /\ text[Len(text) - Len(res) + n] = res[n].out

\* A step of mode m was passed since the last result.
Behind(S, res, i, m) == \E k \in LastStep(res) + 1..i - 1 : S[k].mode = m

TextOf(S, i, res, text, all) ==
    /\ ~ Behind(S, res, i, "loop") => EndsWithGroup(S, res, all)
    /\ ~ Behind(S, res, i, "collect") =>
          text = IF Len(res) = 0 THEN <<"request">> ELSE <<res[Len(res)].out>>
    /\ Behind(S, res, i, "collect") /\ ~ Behind(S, res, i, "loop") => EndsWithGroup(S, res, text)

RunOf(S, s, p, i, c, res, text, all) ==
    /\ ProgressOf(S, s, p, i, c, res)
    /\ p \in {"ready", "calling", "looping", "fanning"} => TextOf(S, i, res, text, all)

\* Group(r) for a run at step i
GroupOf(S, i) == {k \in i..Len(S) : \A n \in i..k : S[n].mode = "fan_out"}
FanOf(S, p, i, f) == p = "fanning" => f \in [GroupOf(S, i) -> Outputs \cup {"waiting", "failed"}]

DataInv ==
    /\ results \in [Runs -> Seq(Results)]
    /\ step \in [Runs -> Nat \ {0}] /\ round \in [Runs -> Nat]
    /\ input \in [Runs -> Text] /\ outs \in [Runs -> Text]
    /\ fan = [r \in Runs |-> fan[r]]
    /\ \A r \in Runs : FanOf(StepsIn(r), pc[r], step[r], fan[r])

RunInv ==
    \A r \in Runs :
        RunOf(StepsIn(r), state[r], pc[r], step[r], round[r], results[r], input[r], outs[r])

-----------------------------------------------------------------------------
(* Counting results *)

LEMMA CountType ==
    ASSUME NEW res \in Seq(Results), NEW k
    PROVE  IsFiniteSet({n \in DOMAIN res : res[n].step = k}) /\ Count(res, k) \in Nat
<1>1. {n \in DOMAIN res : res[n].step = k} \subseteq 1..Len(res)
  OBVIOUS
<1>2. IsFiniteSet(1..Len(res))
  BY FS_Interval
<1>3. IsFiniteSet({n \in DOMAIN res : res[n].step = k})
  BY <1>1, <1>2, FS_Subset
<1>4. QED
  BY <1>3, FS_CardinalityType DEF Count

LEMMA CountNone ==
    ASSUME NEW res, NEW k, \A n \in DOMAIN res : res[n].step # k
    PROVE  Count(res, k) = 0
<1>1. {n \in DOMAIN res : res[n].step = k} = {}
  OBVIOUS
<1>2. QED
  BY <1>1, FS_EmptySet DEF Count

LEMMA CountAppend ==
    ASSUME NEW res \in Seq(Results), NEW x \in Results, NEW k
    PROVE  Count(Append(res, x), k) = IF x.step = k THEN Count(res, k) + 1 ELSE Count(res, k)
<1> DEFINE new == Append(res, x)
           Of(seq) == {n \in DOMAIN seq : seq[n].step = k}
<1>1. /\ DOMAIN new = 1..(Len(res) + 1) /\ DOMAIN res = 1..Len(res) /\ Len(res) \in Nat
      /\ new[Len(res) + 1] = x /\ \A n \in 1..Len(res) : new[n] = res[n]
  OBVIOUS
<1>2. x.step = k => Of(new) = Of(res) \cup {Len(res) + 1}
  <2> HIDE DEF new
  <2>1. QED
    BY <1>1
<1>3. x.step # k => Of(new) = Of(res)
  <2> HIDE DEF new
  <2>1. QED
    BY <1>1
<1>4. Len(res) + 1 \notin Of(res)
  BY <1>1
<1>5. IsFiniteSet(Of(res)) /\ Count(res, k) = Cardinality(Of(res)) /\ Count(new, k) = Cardinality(Of(new))
  BY CountType DEF Count
<1>6. Cardinality(Of(res) \cup {Len(res) + 1}) = Cardinality(Of(res)) + 1
  <2> HIDE DEF Of
  <2>1. QED
    BY <1>4, <1>5, FS_AddElement
<1> HIDE DEF Of, new
<1>7. QED
  BY <1>2, <1>3, <1>5, <1>6 DEF new

\* The results of a fan-out group: one for each of its steps, from i on.
LEMMA CountGroup ==
    ASSUME NEW res \in Seq(Results), NEW new \in Seq(Results), NEW i \in Nat, Before(res, i),
           \A n \in DOMAIN new : new[n].step = i + n - 1, NEW k \in Nat
    PROVE  Count(res \o new, k) = IF k < i THEN Count(res, k)
                                  ELSE IF k < i + Len(new) THEN 1 ELSE 0
<1> DEFINE both == res \o new
           m == Len(res) + k - i + 1
<1>1. /\ DOMAIN both = 1..(Len(res) + Len(new)) /\ DOMAIN res = 1..Len(res)
      /\ DOMAIN new = 1..Len(new) /\ Len(res) \in Nat /\ Len(new) \in Nat
      /\ \A n \in 1..Len(res) : both[n] = res[n]
      /\ \A n \in 1..Len(new) : both[Len(res) + n] = new[n]
  OBVIOUS
<1> HIDE DEF both
<1>2. \A n \in 1..Len(res) : both[n].step = res[n].step /\ res[n].step \in Nat /\ res[n].step < i
  <2>1. \A n \in 1..Len(res) : res[n] \in Results /\ res[n].step < i
    BY <1>1 DEF Before
  <2>2. QED
    BY <1>1, <2>1 DEF Results
<1>3. \A n \in (Len(res) + 1)..(Len(res) + Len(new)) : both[n].step = i + (n - Len(res)) - 1
  <2>1. ASSUME NEW n \in (Len(res) + 1)..(Len(res) + Len(new))
        PROVE  both[n].step = i + (n - Len(res)) - 1
    <3>1. n - Len(res) \in 1..Len(new) /\ n = Len(res) + (n - Len(res))
      BY <1>1
    <3>2. both[n] = new[n - Len(res)]
      BY <1>1, <3>1
    <3>3. QED
      BY <1>1, <3>1, <3>2
  <2>2. QED
    BY <2>1
<1>4. CASE k < i
  <2>1. {n \in DOMAIN both : both[n].step = k} = {n \in DOMAIN res : res[n].step = k}
    BY <1>1, <1>2, <1>3, <1>4
  <2>2. QED
    BY <1>4, <2>1 DEF Count, both
<1>5. CASE k >= i /\ k < i + Len(new)
  <2>1. {n \in DOMAIN both : both[n].step = k} = {m}
    <3>1. m \in (Len(res) + 1)..(Len(res) + Len(new)) /\ m \in DOMAIN both
      BY <1>1, <1>5
    <3>2. both[m].step = k
      <4>1. i + (m - Len(res)) - 1 = k
        BY <1>1
      <4> HIDE DEF m
      <4>2. QED
        BY <1>3, <3>1, <4>1
    <3>3. ASSUME NEW n \in DOMAIN both, both[n].step = k PROVE n = m
      <4>1. n \notin 1..Len(res)
        BY <1>2, <1>5, <3>3
      <4>2. n \in (Len(res) + 1)..(Len(res) + Len(new))
        BY <1>1, <4>1
      <4>3. k = i + (n - Len(res)) - 1
        BY <1>3, <3>3, <4>2
      <4>4. QED
        BY <1>1, <4>2, <4>3
    <3> HIDE DEF m
    <3>4. QED
      BY <3>1, <3>2, <3>3
  <2>2. Count(both, k) = 1
    BY <2>1, FS_Singleton, Zenon DEF Count
  <2>3. QED
    BY <1>5, <2>2 DEF both
<1>6. CASE k >= i + Len(new)
  <2>1. \A n \in DOMAIN both : both[n].step # k
    <3>1. ASSUME NEW n \in DOMAIN both PROVE both[n].step # k
      <4>1. n \in 1..Len(res) \/ n \in (Len(res) + 1)..(Len(res) + Len(new))
        BY <1>1
      <4>2. QED
        BY <1>1, <1>2, <1>3, <1>6, <4>1
    <3>2. QED
      BY <3>1
  <2>2. Count(both, k) = 0
    BY <2>1, CountNone
  <2>3. QED
    BY <1>1, <1>6, <2>2 DEF both
<1>7. QED
  BY <1>1, <1>4, <1>5, <1>6

IsPrefix(D, i, m) == D \subseteq i..m /\ \A k \in D : \A n \in i..k : n \in D
IsInterval(D, i, m) == \E b \in (i - 1)..m : D = i..b

\* A set that holds with a number all below it, from i on, is an interval.
LEMMA Prefix ==
    ASSUME NEW i \in Nat, NEW m \in Int, i <= m + 1, NEW D, IsPrefix(D, i, m)
    PROVE  IsInterval(D, i, m)
<1> USE DEF IsPrefix, IsInterval
<1> DEFINE Rest == (i..m) \ D
<1>1. CASE Rest = {}
  <2>1. D = i..m
    BY <1>1
  <2>2. QED
    BY <2>1
<1>2. CASE Rest # {}
  <2>1. Rest \in SUBSET Nat
    OBVIOUS
  <2>2. PICK x \in Rest : \A y \in Rest : x <= y
    <3> HIDE DEF Rest
    <3>1. QED
      BY <1>2, <2>1, Least
  <2>3. \A k \in i..m : k \in D <=> k < x
    <3>1. ASSUME NEW k \in i..m, k < x PROVE k \in D
      BY <2>2, <3>1
    <3>2. ASSUME NEW k \in D, ~ (k < x) PROVE FALSE
      BY <2>2, <3>2
    <3>3. QED
      BY <3>1, <3>2
  <2>4. x \in i..m /\ x - 1 \in (i - 1)..m
    BY <2>2
  <2>5. \A k : k \in i..(x - 1) <=> k \in i..m /\ k < x
    BY <2>4
  <2>6. D = i..(x - 1)
    BY <2>3, <2>5
  <2>7. QED
    BY <2>4, <2>6
<1>3. QED
  BY <1>1, <1>2

-----------------------------------------------------------------------------
(* From step to step *)

LEMMA StepsAre ==
    ASSUME NEW r \in Runs
    PROVE  /\ StepsIn(r) \in Seq(Step) /\ Len(StepsIn(r)) \in Nat
           /\ \A k \in DOMAIN StepsIn(r) :
                 /\ k \in 1..Len(StepsIn(r)) /\ StepsIn(r)[k] \in Step
                 /\ StepsIn(r)[k].mode \in Modes /\ StepsIn(r)[k].rounds \in Nat
                 /\ Answers[StepsIn(r)[k].agent] \subseteq Outputs
           /\ \A k : k \in 1..Len(StepsIn(r)) <=> k \in DOMAIN StepsIn(r)
<1>1. StepsIn(r) \in Seq(Step)
  BY StepsType, WorkflowOfType DEF StepsIn
<1>2. \A k \in DOMAIN StepsIn(r) : k \in 1..Len(StepsIn(r)) /\ StepsIn(r)[k] \in Step
  BY <1>1
<1>3. \A s \in Step : s.mode \in Modes /\ s.rounds \in Nat /\ Answers[s.agent] \subseteq Outputs
  BY AnswersType DEF Step
<1>4. QED
  BY <1>1, <1>2, <1>3

\* On past a step that leaves no result and may do so.
LEMMA Passed ==
    ASSUME NEW S, NEW s, NEW p, NEW i \in Nat, NEW c, NEW res \in Seq(Results),
           Len(S) \in Nat, DOMAIN S = 1..Len(S), i \in DOMAIN S,
           ProgressOf(S, s, p, i, c, res), s # "completed",
           \/ p = "ready"
           \/ p \in {"calling", "looping"},
           ~ Must(S[i])
    PROVE  ProgressOf(S, s, "ready", i + 1, 0, res)
<1>1. \A n \in DOMAIN res : res[n].step \in Nat
  <2>1. \A n \in DOMAIN res : res[n] \in Results
    OBVIOUS
  <2>2. QED
    BY <2>1 DEF Results
<1>2. Before(res, i + 1)
  BY <1>1 DEF ProgressOf, PlaceOf, Before
<1>3. Done(S, res, i)
  BY DEF ProgressOf, PlaceOf
<1>4. Done(S, res, i + 1)
  <2>1. ASSUME NEW k \in DOMAIN S, k < i + 1, Must(S[k]) PROVE Count(res, k) = 1
    <3>1. k # i /\ k \in Nat
      BY <2>1
    <3>2. k < i
      BY <2>1, <3>1
    <3>3. QED
      BY <1>3, <2>1, <3>2 DEF Done
  <2>2. QED
    BY <2>1 DEF Done
<1>5. QED
  BY <1>2, <1>4 DEF ProgressOf, PlaceOf

LEMMA LastStepType ==
    ASSUME NEW res \in Seq(Results)
    PROVE  /\ LastStep(res) \in Nat
           /\ \A n \in DOMAIN res : res[n] \in Results /\ res[n].step \in Nat /\ n \in 1..Len(res)
           /\ Len(res) > 0 => Len(res) \in DOMAIN res
<1>1. /\ \A n \in DOMAIN res : res[n] \in Results /\ n \in 1..Len(res)
      /\ Len(res) > 0 => Len(res) \in DOMAIN res
  OBVIOUS
<1>2. \A x \in Results : x.step \in Nat
  BY DEF Results
<1>3. QED
  BY <1>1, <1>2 DEF LastStep

\* The answers of a group are at the end only while no other step has answered.
LEMMA NoGroup ==
    ASSUME NEW S, NEW res \in Seq(Results), Ordered(res), S[LastStep(res)].mode # "fan_out",
           NEW text
    PROVE  EndsWithGroup(S, res, text)
<1>1. ASSUME NEW n \in DOMAIN res PROVE LastStep(res) \in res[n].step..LastStep(res)
  <2>1. Len(res) \in DOMAIN res /\ n <= Len(res) /\ LastStep(res) = res[Len(res)].step
    BY LastStepType DEF LastStep
  <2>2. res[n].step <= LastStep(res)
    BY <2>1 DEF Ordered
  <2>3. QED
    BY <2>2, LastStepType
<1>2. QED
  BY <1>1 DEF EndsWithGroup, InGroup

\* The texts behind a step that leaves no result and is no Collect.
LEMMA PassedText ==
    ASSUME NEW S, NEW i \in Nat, NEW res \in Seq(Results), NEW text, NEW all, NEW all2,
           TextOf(S, i, res, text, all), Ordered(res), LastStep(res) <= i,
           S[i].mode # "collect", S[i].mode # "fan_out",
           S[i].mode # "loop" => all2 = all
    PROVE  TextOf(S, i + 1, res, text, all2)
<1> USE LastStepType
<1>1. ASSUME NEW m, S[i].mode # m PROVE Behind(S, res, i + 1, m) <=> Behind(S, res, i, m)
  <2>1. \A k \in LastStep(res) + 1..i : k = i \/ k \in LastStep(res) + 1..i - 1
    OBVIOUS
  <2>2. \A k \in LastStep(res) + 1..i - 1 : k \in LastStep(res) + 1..i
    OBVIOUS
  <2>3. (i + 1) - 1 = i
    OBVIOUS
  <2>4. QED
    BY <1>1, <2>1, <2>2, <2>3 DEF Behind
<1>2. Behind(S, res, i + 1, "collect") <=> Behind(S, res, i, "collect")
  BY <1>1
<1>3. CASE S[i].mode # "loop"
  <2>1. Behind(S, res, i + 1, "loop") <=> Behind(S, res, i, "loop")
    BY <1>1, <1>3
  <2>2. QED
    BY <1>2, <1>3, <2>1 DEF TextOf
<1>4. CASE S[i].mode = "loop" /\ LastStep(res) < i
  <2>1. Behind(S, res, i + 1, "loop")
    BY <1>4 DEF Behind
  <2>2. QED
    BY <1>2, <2>1 DEF TextOf
<1>5. CASE S[i].mode = "loop" /\ LastStep(res) = i
  <2>1. ~ Behind(S, res, i + 1, "collect")
    BY <1>5 DEF Behind
  <2>2. text = IF Len(res) = 0 THEN <<"request">> ELSE <<res[Len(res)].out>>
    BY <1>2, <2>1 DEF TextOf
  <2>3. EndsWithGroup(S, res, all2)
    BY <1>5, NoGroup
  <2>4. QED
    BY <2>1, <2>2, <2>3 DEF TextOf
<1>6. QED
  BY <1>3, <1>4, <1>5

\* A run past step i with a result of it.
LEMMA Answered ==
    ASSUME NEW S, NEW s, NEW i \in Nat, NEW c \in Nat, NEW res \in Seq(Results), NEW o \in Outputs,
           Len(S) \in Nat, DOMAIN S = 1..Len(S), i \in DOMAIN S, S[i].rounds \in Nat,
           ProgressOf(S, s, "calling", i, c, res), s # "completed", NEW all
    PROVE  LET new == Append(res, [step |-> i, out |-> o])
           IN  /\ new \in Seq(Results)
               /\ RunOf(S, s, "ready", i + 1, 0, new, <<o>>, all)
               /\ S[i].mode = "loop" => RunOf(S, s, "looping", i, c + 1, new, <<o>>, all)
<1> DEFINE x == [step |-> i, out |-> o]
           new == Append(res, x)
           n1 == Len(res) + 1
<1>1. x \in Results /\ x.step = i /\ x.out = o
  BY DEF Results
<1>2. /\ new \in Seq(Results) /\ Len(new) = n1 /\ DOMAIN new = 1..n1 /\ DOMAIN res = 1..Len(res)
      /\ Len(res) \in Nat /\ new[n1] = x /\ \A n \in 1..Len(res) : new[n] = res[n]
  BY <1>1
<1>3. \A k : Count(new, k) = IF k = i THEN Count(res, k) + 1 ELSE Count(res, k)
  BY <1>1, CountAppend
<1> HIDE DEF new, x
<1>4. /\ Ordered(res) /\ Limited(S, res) /\ Done(S, res, i) /\ Before(res, i + 1)
      /\ \A n \in DOMAIN res : res[n].step \in DOMAIN S /\ res[n].step \in Nat
      /\ S[i].mode \in {"sequential", "conditional", "loop"}
      /\ S[i].mode = "loop" => Count(res, i) = c /\ c < S[i].rounds
      /\ S[i].mode # "loop" => Before(res, i)
  <2>1. \A n \in DOMAIN res : res[n].step \in Nat
    BY LastStepType
  <2>2. Before(res, i) => Before(res, i + 1)
    BY <2>1 DEF Before
  <2>3. QED
    BY <2>1, <2>2 DEF ProgressOf, PlaceOf
<1>5. S[i].mode # "loop" => Count(res, i) = 0
  <2>1. Before(res, i) => \A n \in DOMAIN res : res[n].step # i
    BY <1>4 DEF Before
  <2>2. QED
    BY <1>4, <2>1, CountNone
<1>6. \A n \in DOMAIN new : new[n].step \in DOMAIN S /\ new[n].step <= i
  <2>1. \A n \in 1..Len(res) : res[n].step \in DOMAIN S /\ res[n].step <= i
    BY <1>2, <1>4 DEF Before
  <2>2. \A n \in DOMAIN new : n \in 1..Len(res) \/ n = n1
    BY <1>2
  <2>3. QED
    BY <1>1, <1>2, <2>1, <2>2
<1>7. Ordered(new)
  <2>1. ASSUME NEW m \in DOMAIN new, NEW n \in DOMAIN new, m <= n PROVE new[m].step <= new[n].step
    <3>1. CASE n = n1
      BY <1>1, <1>2, <1>6, <3>1
    <3>2. CASE n # n1
      <4>1. m \in 1..Len(res) /\ n \in 1..Len(res)
        BY <1>2, <2>1, <3>2
      <4>2. QED
        BY <1>2, <1>4, <2>1, <4>1 DEF Ordered
    <3>3. QED
      BY <3>1, <3>2
  <2>2. QED
    BY <2>1 DEF Ordered
<1>8. Limited(S, new)
  <2>1. ASSUME NEW k \in DOMAIN S
        PROVE  Count(new, k) <= IF S[k].mode = "loop" THEN S[k].rounds ELSE 1
    <3>1. CASE k # i
      BY <1>3, <1>4, <3>1 DEF Limited
    <3>2. CASE k = i /\ S[i].mode = "loop"
      BY <1>3, <1>4, <3>2
    <3>3. CASE k = i /\ S[i].mode # "loop"
      BY <1>3, <1>5, <3>3
    <3>4. QED
      BY <3>1, <3>2, <3>3
  <2>2. QED
    BY <2>1 DEF Limited
<1>9. Done(S, new, i)
  <2>1. ASSUME NEW k \in DOMAIN S, k < i, Must(S[k]) PROVE Count(new, k) = 1
    <3>1. k # i
      BY <2>1
    <3>2. QED
      BY <1>3, <1>4, <2>1, <3>1 DEF Done
  <2>2. QED
    BY <2>1 DEF Done
<1>10. Done(S, new, i + 1)
  <2>1. ASSUME NEW k \in DOMAIN S, k < i + 1, Must(S[k]) PROVE Count(new, k) = 1
    <3>1. CASE k = i
      <4>1. S[i].mode # "loop"
        BY <2>1, <3>1 DEF Must
      <4>2. QED
        BY <1>3, <1>5, <3>1, <4>1
    <3>2. CASE k # i
      <4>1. k < i
        BY <2>1, <3>2
      <4>2. QED
        BY <1>9, <2>1, <4>1 DEF Done
    <3>3. QED
      BY <3>1, <3>2
  <2>2. QED
    BY <2>1 DEF Done
<1>11. Before(new, i + 1)
  BY <1>6, <1>2, LastStepType DEF Before
<1>12. LastStep(new) = i /\ new[Len(new)].out = o /\ Len(new) # 0
  BY <1>1, <1>2 DEF LastStep
<1>13. EndsWithGroup(S, new, all)
  BY <1>2, <1>4, <1>7, <1>12, NoGroup
<1>14. TextOf(S, i, new, <<o>>, all) /\ TextOf(S, i + 1, new, <<o>>, all)
  <2>1. \A m : ~ Behind(S, new, i, m) /\ ~ Behind(S, new, i + 1, m)
    BY <1>12 DEF Behind
  <2>2. QED
    BY <1>12, <1>13, <2>1 DEF TextOf
<1>15. RunOf(S, s, "ready", i + 1, 0, new, <<o>>, all)
  BY <1>6, <1>7, <1>8, <1>10, <1>11, <1>14 DEF RunOf, ProgressOf, PlaceOf
<1>16. S[i].mode = "loop" => RunOf(S, s, "looping", i, c + 1, new, <<o>>, all)
  <2>1. S[i].mode = "loop" => Count(new, i) = c + 1 /\ c + 1 <= S[i].rounds
    BY <1>3, <1>4
  <2>2. i <= Len(S) + 1
    OBVIOUS
  <2>3. QED
    BY <1>6, <1>7, <1>8, <1>9, <1>11, <1>14, <2>1, <2>2 DEF RunOf, ProgressOf, PlaceOf
<1>17. QED
  BY <1>2, <1>15, <1>16 DEF new, x

\* A run past a Collect.
LEMMA Collected ==
    ASSUME NEW S, NEW i \in Nat, NEW res \in Seq(Results), NEW text, NEW all,
           TextOf(S, i, res, text, all), S[i].mode = "collect", Before(res, i), 0 < i
    PROVE  TextOf(S, i + 1, res, all, all)
<1>1. LastStep(res) < i
  BY LastStepType DEF LastStep, Before
<1>2. Behind(S, res, i + 1, "collect")
  BY <1>1, LastStepType DEF Behind
<1>3. Behind(S, res, i, "loop") => Behind(S, res, i + 1, "loop")
  <2>1. \A k \in LastStep(res) + 1..i - 1 : k \in LastStep(res) + 1..(i + 1) - 1
    BY LastStepType
  <2>2. QED
    BY <2>1 DEF Behind
<1>4. QED
  BY <1>2, <1>3 DEF TextOf

\* The steps of a group follow each other.
LEMMA GroupInterval ==
    ASSUME NEW S, Len(S) \in Nat, NEW i \in Nat, i <= Len(S), S[i].mode = "fan_out"
    PROVE  \E m \in i..Len(S) : GroupOf(S, i) = i..m /\ \A k \in i..m : S[k].mode = "fan_out"
<1>1. GroupOf(S, i) \subseteq i..Len(S)
  BY DEF GroupOf
<1>2. \A k \in GroupOf(S, i) : \A n \in i..k : n \in GroupOf(S, i)
  <2>1. ASSUME NEW k \in GroupOf(S, i), NEW n \in i..k PROVE n \in GroupOf(S, i)
    <3>1. k \in i..Len(S) /\ n \in i..Len(S) /\ \A j \in i..n : j \in i..k
      BY DEF GroupOf
    <3>2. QED
      BY <3>1 DEF GroupOf
  <2>2. QED
    BY <2>1
<1>3. PICK m \in (i - 1)..Len(S) : GroupOf(S, i) = i..m
  <2> DEFINE D == GroupOf(S, i)
             top == Len(S)
  <2>1. IsPrefix(D, i, top) /\ top \in Int /\ i <= top + 1
    BY <1>1, <1>2 DEF IsPrefix
  <2> HIDE DEF D, top
  <2>2. IsInterval(D, i, top)
    BY <2>1, Prefix
  <2>3. QED
    BY <2>2 DEF D, top, IsInterval
<1>4. i \in GroupOf(S, i)
  BY DEF GroupOf
<1>5. m \in i..Len(S)
  BY <1>3, <1>4
<1>6. \A k \in i..m : S[k].mode = "fan_out"
  <2>1. m \in GroupOf(S, i)
    BY <1>3, <1>5
  <2>2. QED
    BY <2>1 DEF GroupOf
<1>7. QED
  BY <1>3, <1>5, <1>6

RecordedOf(f) == {k \in DOMAIN f : \A n \in DOMAIN f : n <= k => f[n] # "failed"}

\* The results of a group that are recorded: those of its first steps.
LEMMA NewResultsAre ==
    ASSUME NEW i \in Nat, NEW m \in Nat, i <= m,
           NEW f \in [i..m -> Outputs \cup {"waiting", "failed"}],
           \A k \in i..m : f[k] # "waiting"
    PROVE  \E c \in 0..(m - i + 1) :
              /\ Cardinality(RecordedOf(f)) = c
              /\ [n \in 1..c |-> [step |-> i + n - 1, out |-> f[i + n - 1]]] \in Seq(Results)
              /\ RecordedOf(f) = DOMAIN f => c = m - i + 1
<1> DEFINE D == RecordedOf(f)
<1>1. D \subseteq i..m /\ \A k \in D : f[k] \in Outputs
  BY DEF RecordedOf
<1>2. \A k \in D : \A n \in i..k : n \in D
  <2>1. ASSUME NEW k \in D, NEW n \in i..k PROVE n \in D
    <3>1. k \in i..m /\ n \in i..m /\ \A j \in i..m : j <= n => j <= k
      BY <1>1
    <3>2. QED
      BY <3>1 DEF RecordedOf
  <2>2. QED
    BY <2>1
<1> HIDE DEF D
<1>3. PICK b \in (i - 1)..m : D = i..b
  <2>1. m \in Int /\ i <= m + 1 /\ IsPrefix(D, i, m)
    BY <1>1, <1>2 DEF IsPrefix
  <2>2. IsInterval(D, i, m)
    BY <2>1, Prefix
  <2>3. QED
    BY <2>2 DEF IsInterval
<1> DEFINE c == b - i + 1
           new == [n \in 1..c |-> [step |-> i + n - 1, out |-> f[i + n - 1]]]
<1>4. c \in 0..(m - i + 1) /\ Cardinality(D) = c
  BY <1>3, FS_Interval
<1>5. \A n \in 1..c : i + n - 1 \in D /\ i + n - 1 \in Nat
  BY <1>3
<1>6. new \in Seq(Results)
  <2>1. \A n \in 1..c : [step |-> i + n - 1, out |-> f[i + n - 1]] \in Results
    BY <1>1, <1>5 DEF Results
  <2>2. c \in Nat
    BY <1>4
  <2> HIDE DEF c
  <2>3. new \in [1..c -> Results]
    BY <2>1
  <2> HIDE DEF new
  <2>4. QED
    BY <2>2, <2>3
<1>7. D = DOMAIN f => c = m - i + 1
  <2>1. ASSUME D = i..m PROVE b = m
    BY <1>3, <2>1
  <2>2. DOMAIN f = i..m
    OBVIOUS
  <2>3. QED
    BY <2>1, <2>2
<1>8. QED
  BY <1>4, <1>6, <1>7 DEF D

\* What a group records keeps the order and the number of results.
LEMMA Recording ==
    ASSUME NEW S, NEW s, NEW i \in Nat, NEW r, NEW res \in Seq(Results), NEW new \in Seq(Results),
           NEW m \in Nat, DOMAIN S = 1..Len(S), Len(S) \in Nat, i >= 1, i <= m, m <= Len(S),
           \A k \in i..m : S[k].mode = "fan_out",
           ProgressOf(S, s, "fanning", i, r, res),
           Len(new) <= m - i + 1, \A n \in DOMAIN new : new[n].step = i + n - 1
    PROVE  LET both == res \o new
           IN  /\ both \in Seq(Results)
               /\ \A n \in DOMAIN both : both[n].step \in DOMAIN S
               /\ Ordered(both) /\ Limited(S, both)
               /\ Before(both, i + Len(new))
               /\ Done(S, both, i + Len(new))
<1> DEFINE both == res \o new
<1>1. /\ both \in Seq(Results) /\ Len(both) = Len(res) + Len(new)
      /\ DOMAIN both = 1..(Len(res) + Len(new)) /\ DOMAIN res = 1..Len(res)
      /\ DOMAIN new = 1..Len(new) /\ Len(res) \in Nat /\ Len(new) \in Nat
      /\ \A n \in 1..Len(res) : both[n] = res[n]
      /\ \A n \in (Len(res) + 1)..(Len(res) + Len(new)) : both[n] = new[n - Len(res)]
  OBVIOUS
<1>2. /\ Ordered(res) /\ Limited(S, res) /\ Done(S, res, i) /\ Before(res, i)
      /\ \A n \in 1..Len(res) : res[n].step \in DOMAIN S /\ res[n].step \in Nat /\ res[n].step < i
  BY <1>1, LastStepType DEF ProgressOf, PlaceOf, Before
<1>3. \A k \in Nat : Count(both, k) = IF k < i THEN Count(res, k)
                                      ELSE IF k < i + Len(new) THEN 1 ELSE 0
  BY <1>2, CountGroup
<1> HIDE DEF both
<1>4. \A n \in DOMAIN both : \/ n \in 1..Len(res) /\ both[n].step = res[n].step
                             \/ /\ n \in (Len(res) + 1)..(Len(res) + Len(new))
                                /\ both[n].step = i + (n - Len(res)) - 1
  <2>1. ASSUME NEW n \in (Len(res) + 1)..(Len(res) + Len(new))
        PROVE  both[n].step = i + (n - Len(res)) - 1
    <3>1. n - Len(res) \in DOMAIN new
      BY <1>1
    <3>2. QED
      BY <1>1, <3>1
  <2>2. \A n \in DOMAIN both : n \in 1..Len(res) \/ n \in (Len(res) + 1)..(Len(res) + Len(new))
    BY <1>1
  <2>3. QED
    BY <1>1, <2>1, <2>2
<1>5. \A n \in DOMAIN both : both[n].step \in DOMAIN S /\ both[n].step < i + Len(new)
  <2>1. ASSUME NEW n \in DOMAIN both
        PROVE  both[n].step \in DOMAIN S /\ both[n].step < i + Len(new)
    <3>1. CASE n \in 1..Len(res) /\ both[n].step = res[n].step
      BY <1>1, <1>2, <3>1
    <3>2. CASE n \in (Len(res) + 1)..(Len(res) + Len(new)) /\ both[n].step = i + (n - Len(res)) - 1
      <4>1. i + (n - Len(res)) - 1 \in i..m /\ i + (n - Len(res)) - 1 < i + Len(new)
        BY <1>1, <3>2
      <4>2. QED
        BY <3>2, <4>1
    <3>3. QED
      BY <1>4, <3>1, <3>2
  <2>2. QED
    BY <2>1
<1>6. Ordered(both)
  <2>1. ASSUME NEW j \in DOMAIN both, NEW n \in DOMAIN both, j <= n
        PROVE  both[j].step <= both[n].step
    <3>1. CASE n \in 1..Len(res)
      <4>1. j \in 1..Len(res)
        BY <1>1, <2>1, <3>1
      <4>2. QED
        BY <1>1, <1>2, <2>1, <3>1, <4>1 DEF Ordered
    <3>2. CASE n \notin 1..Len(res)
      <4>1. n \in (Len(res) + 1)..(Len(res) + Len(new)) /\ both[n].step = i + (n - Len(res)) - 1
        BY <1>4, <3>2
      <4>2. CASE j \in 1..Len(res)
        BY <1>1, <1>2, <4>1, <4>2
      <4>3. CASE j \notin 1..Len(res)
        <5>1. j \in (Len(res) + 1)..(Len(res) + Len(new)) /\ both[j].step = i + (j - Len(res)) - 1
          BY <1>4, <4>3
        <5>2. QED
          BY <1>1, <2>1, <4>1, <5>1
      <4>4. QED
        BY <4>2, <4>3
    <3>3. QED
      BY <3>1, <3>2
  <2>2. QED
    BY <2>1 DEF Ordered
<1>7. Limited(S, both)
  <2>1. ASSUME NEW k \in DOMAIN S
        PROVE  Count(both, k) <= IF S[k].mode = "loop" THEN S[k].rounds ELSE 1
    <3>1. k \in Nat /\ Count(res, k) <= IF S[k].mode = "loop" THEN S[k].rounds ELSE 1
      BY <1>2 DEF Limited
    <3>2. CASE k < i
      BY <1>3, <3>1, <3>2
    <3>3. CASE k >= i /\ k < i + Len(new)
      <4>1. k \in i..m
        BY <1>1, <3>1, <3>3
      <4>2. S[k].mode # "loop" /\ Count(both, k) = 1
        BY <1>3, <3>1, <3>3, <4>1
      <4>3. QED
        BY <4>2
    <3>4. CASE k >= i + Len(new)
      <4>1. Count(both, k) = 0 /\ Count(res, k) = 0
        <5>1. \A n \in DOMAIN res : res[n].step # k
          BY <1>1, <1>2, <3>4
        <5>2. ~ (k < i) /\ ~ (k < i + Len(new))
          BY <1>1, <3>1, <3>4
        <5>3. QED
          BY <1>3, <3>1, <5>1, <5>2, CountNone
      <4>2. QED
        BY <3>1, <4>1
    <3>5. QED
      BY <1>1, <3>1, <3>2, <3>3, <3>4
  <2>2. QED
    BY <2>1 DEF Limited
<1>8. Done(S, both, i + Len(new))
  <2>1. ASSUME NEW k \in DOMAIN S, k < i + Len(new), Must(S[k]) PROVE Count(both, k) = 1
    <3>1. CASE k < i
      BY <1>2, <1>3, <2>1, <3>1 DEF Done
    <3>2. CASE ~ (k < i)
      BY <1>3, <2>1, <3>2
    <3>3. QED
      BY <3>1, <3>2
  <2>2. QED
    BY <2>1 DEF Done
<1>9. QED
  BY <1>1, <1>5, <1>6, <1>7, <1>8 DEF both, Before

\* The texts behind a group: the answers of the group, and of the groups that it
\* follows at once, are at the end of all_outputs.
LEMMA GroupText ==
    ASSUME NEW S, NEW i \in Nat, NEW res \in Seq(Results), NEW new \in Seq(Results),
           NEW text, NEW all \in Text, TextOf(S, i, res, text, all), Ordered(res), Before(res, i),
           Len(new) >= 1, \A n \in DOMAIN new : new[n].step = i + n - 1,
           \A k \in i..(i + Len(new) - 1) : S[k].mode = "fan_out",
           NEW answers, answers = [n \in DOMAIN new |-> new[n].out]
    PROVE  /\ all \o answers \in Text
           /\ TextOf(S, i + Len(new), res \o new, <<new[Len(new)].out>>, all \o answers)
<1> DEFINE both == res \o new
           ends == all \o answers
<1>1. /\ both \in Seq(Results) /\ Len(both) = Len(res) + Len(new)
      /\ DOMAIN both = 1..(Len(res) + Len(new)) /\ DOMAIN res = 1..Len(res)
      /\ DOMAIN new = 1..Len(new) /\ Len(res) \in Nat /\ Len(new) \in Nat
      /\ \A n \in 1..Len(res) : both[n] = res[n]
      /\ \A n \in (Len(res) + 1)..(Len(res) + Len(new)) : both[n] = new[n - Len(res)]
  OBVIOUS
<1> HIDE DEF both
<1>2. answers \in Text /\ Len(answers) = Len(new) /\ \A n \in 1..Len(new) : answers[n] = new[n].out
  <2>1. \A n \in 1..Len(new) : new[n].out \in Outputs \cup {"request"}
    <3>1. \A n \in 1..Len(new) : new[n] \in Results
      BY <1>1
    <3>2. QED
      BY <3>1 DEF Results
  <2>2. answers \in [1..Len(new) -> Outputs \cup {"request"}]
    BY <1>1, <2>1
  <2>3. \A n \in 1..Len(new) : answers[n] = new[n].out
    BY <1>1
  <2>4. answers \in Seq(Outputs \cup {"request"}) /\ Len(answers) = Len(new)
    BY <1>1, <2>2
  <2>5. QED
    BY <2>3, <2>4 DEF Text
<1>3. /\ ends \in Text /\ Len(ends) = Len(all) + Len(new) /\ Len(all) \in Nat
      /\ \A n \in 1..Len(all) : ends[n] = all[n]
      /\ \A n \in (Len(all) + 1)..(Len(all) + Len(new)) : ends[n] = answers[n - Len(all)]
  <2> DEFINE T == Outputs \cup {"request"}
  <2>1. all \in Seq(T) /\ answers \in Seq(T)
    BY <1>2 DEF Text
  <2> HIDE DEF T
  <2>2. /\ ends \in Seq(T) /\ Len(ends) = Len(all) + Len(answers) /\ Len(all) \in Nat
        /\ \A n \in 1..Len(all) : ends[n] = all[n]
        /\ \A n \in (Len(all) + 1)..(Len(all) + Len(answers)) : ends[n] = answers[n - Len(all)]
    BY <2>1
  <2> HIDE DEF ends
  <2>3. QED
    BY <1>2, <2>2 DEF T, Text
<1> HIDE DEF ends
<1>4. LastStep(both) = i + Len(new) - 1 /\ both[Len(both)] = new[Len(new)] /\ Len(both) # 0
  <2>1. both[Len(both)] = new[Len(new)] /\ Len(new) \in DOMAIN new
    <3>1. Len(both) \in (Len(res) + 1)..(Len(res) + Len(new)) /\ Len(both) - Len(res) = Len(new)
      BY <1>1
    <3>2. both[Len(both)] = new[Len(both) - Len(res)]
      BY <1>1, <3>1, Zenon
    <3>3. Len(new) \in DOMAIN new
      BY <1>1
    <3>4. QED
      BY <3>1, <3>2, <3>3
  <2>2. new[Len(new)].step = i + Len(new) - 1
    BY <2>1
  <2>3. Len(both) # 0
    BY <1>1
  <2>4. QED
    BY <2>1, <2>2, <2>3 DEF LastStep
<1>5. \A m : ~ Behind(S, both, i + Len(new), m)
  BY <1>1, <1>4 DEF Behind
<1>6. ASSUME NEW n \in DOMAIN both, InGroup(S, both, n)
      PROVE  Len(ends) - Len(both) + n >= 1 /\ ends[Len(ends) - Len(both) + n] = both[n].out
  <2>1. CASE n \notin 1..Len(res)
    <3>1. n - Len(res) \in 1..Len(new) /\ both[n] = new[n - Len(res)]
      <4>1. n \in (Len(res) + 1)..(Len(res) + Len(new)) /\ n - Len(res) \in 1..Len(new)
        BY <1>1, <2>1
      <4>2. QED
        BY <1>1, <4>1
    <3>2. Len(ends) - Len(both) + n = Len(all) + (n - Len(res))
      BY <1>1, <1>3
    <3>3. ends[Len(all) + (n - Len(res))] = answers[n - Len(res)]
      <4>1. Len(all) + (n - Len(res)) \in (Len(all) + 1)..(Len(all) + Len(new))
        BY <1>1, <1>3, <3>1
      <4>2. (Len(all) + (n - Len(res))) - Len(all) = n - Len(res)
        BY <1>1, <1>3, <3>1
      <4>3. QED
        BY <1>3, <4>1, <4>2
    <3>4. QED
      BY <1>2, <1>3, <3>1, <3>2, <3>3
  <2>2. CASE n \in 1..Len(res)
    <3>1. /\ n \in DOMAIN res /\ both[n] = res[n] /\ res[n].step \in Nat
          /\ LastStep(res) \in Nat /\ LastStep(res) < i /\ res[n].step <= LastStep(res)
      <4>1. /\ n \in DOMAIN res /\ both[n] = res[n] /\ Len(res) \in DOMAIN res /\ n <= Len(res)
            /\ LastStep(res) = res[Len(res)].step
        BY <1>1, <2>2 DEF LastStep
      <4>2. QED
        BY <4>1, LastStepType DEF Ordered, Before
    <3>2. \A k \in res[n].step..(i + Len(new) - 1) : S[k].mode = "fan_out"
      BY <1>4, <1>6, <3>1 DEF InGroup
    <3>3. InGroup(S, res, n)
      BY <1>1, <3>1, <3>2 DEF InGroup
    <3>4. ~ Behind(S, res, i, "loop")
      <4>1. \A k \in LastStep(res) + 1..i - 1 : k \in res[n].step..(i + Len(new) - 1)
        BY <1>1, <3>1
      <4>2. QED
        BY <3>2, <4>1 DEF Behind
    <3>5. Len(all) - Len(res) + n >= 1 /\ all[Len(all) - Len(res) + n] = res[n].out
      BY <3>1, <3>3, <3>4 DEF TextOf, EndsWithGroup
    <3>6. Len(ends) - Len(both) + n = Len(all) - Len(res) + n
      BY <1>1, <1>3
    <3>7. Len(all) - Len(res) + n \in 1..Len(all)
      BY <1>1, <1>3, <2>2, <3>5
    <3>8. QED
      BY <1>3, <3>1, <3>5, <3>6, <3>7
  <2>3. QED
    BY <2>1, <2>2
<1>7. EndsWithGroup(S, both, ends)
  BY <1>6 DEF EndsWithGroup
<1>8. TextOf(S, i + Len(new), both, <<new[Len(new)].out>>, ends)
  BY <1>4, <1>5, <1>7 DEF TextOf
<1>9. QED
  BY <1>3, <1>8 DEF both, ends

-----------------------------------------------------------------------------
(* The runs *)

\* A step of one run that leaves the data of the others alone.
LEMMA OneRunsData ==
    ASSUME LifeInv, DataInv, RunInv, NEW r \in Runs,
           NEW s, NEW p, NEW i \in Nat \ {0}, NEW c \in Nat,
           NEW res \in Seq(Results), NEW text \in Text, NEW all \in Text, NEW f,
           RunOf(StepsIn(r), s, p, i, c, res, text, all), FanOf(StepsIn(r), p, i, f),
           state' = [state EXCEPT ![r] = s], pc' = [pc EXCEPT ![r] = p],
           step' = [step EXCEPT ![r] = i], round' = [round EXCEPT ![r] = c],
           results' = [results EXCEPT ![r] = res],
           input' = [input EXCEPT ![r] = text], outs' = [outs EXCEPT ![r] = all],
           fan' = [fan EXCEPT ![r] = f]
    PROVE  DataInv' /\ RunInv'
<1>1. /\ results' \in [Runs -> Seq(Results)] /\ step' \in [Runs -> Nat \ {0}]
      /\ round' \in [Runs -> Nat] /\ input' \in [Runs -> Text] /\ outs' \in [Runs -> Text]
      /\ fan' = [q \in Runs |-> fan'[q]]
  BY DEF DataInv
<1>2. /\ state'[r] = s /\ pc'[r] = p /\ step'[r] = i /\ round'[r] = c /\ results'[r] = res
      /\ input'[r] = text /\ outs'[r] = all /\ fan'[r] = f
  BY DEF DataInv, LifeInv
<1>3. ASSUME NEW q \in Runs, q # r
      PROVE  /\ state'[q] = state[q] /\ pc'[q] = pc[q] /\ step'[q] = step[q] /\ round'[q] = round[q]
             /\ results'[q] = results[q] /\ input'[q] = input[q] /\ outs'[q] = outs[q]
             /\ fan'[q] = fan[q]
  BY <1>3 DEF DataInv, LifeInv
<1>4. \A q \in Runs : StepsIn(q)' = StepsIn(q)
  BY DEF StepsIn
<1>5. ASSUME NEW q \in Runs
      PROVE  /\ RunOf(StepsIn(q), state'[q], pc'[q], step'[q], round'[q], results'[q], input'[q], outs'[q])
             /\ FanOf(StepsIn(q), pc'[q], step'[q], fan'[q])
  <2>1. CASE q = r
    BY <1>2, <2>1
  <2>2. CASE q # r
    BY <1>3, <2>2 DEF RunInv, DataInv
  <2>3. QED
    BY <2>1, <2>2
<1>6. QED
  BY <1>1, <1>4, <1>5 DEF DataInv, RunInv

\* The data of run r
DataOf(r) ==
    /\ RunOf(StepsIn(r), state[r], pc[r], step[r], round[r], results[r], input[r], outs[r])
    /\ FanOf(StepsIn(r), pc[r], step[r], fan[r])
    /\ step[r] \in Nat \ {0} /\ round[r] \in Nat /\ results[r] \in Seq(Results)
    /\ input[r] \in Text /\ outs[r] \in Text
    /\ state = [state EXCEPT ![r] = state[r]] /\ pc = [pc EXCEPT ![r] = pc[r]]
    /\ step = [step EXCEPT ![r] = step[r]] /\ round = [round EXCEPT ![r] = round[r]]
    /\ results = [results EXCEPT ![r] = results[r]]
    /\ input = [input EXCEPT ![r] = input[r]] /\ outs = [outs EXCEPT ![r] = outs[r]]
    /\ fan = [fan EXCEPT ![r] = fan[r]]

LEMMA DataIs ==
    ASSUME LifeInv, DataInv, RunInv, NEW r \in Runs
    PROVE  DataOf(r)
<1>1. /\ step[r] \in Nat \ {0} /\ round[r] \in Nat /\ results[r] \in Seq(Results)
      /\ input[r] \in Text /\ outs[r] \in Text
  BY DEF DataInv
<1>2. /\ state = [state EXCEPT ![r] = state[r]] /\ pc = [pc EXCEPT ![r] = pc[r]]
      /\ step = [step EXCEPT ![r] = step[r]] /\ round = [round EXCEPT ![r] = round[r]]
      /\ results = [results EXCEPT ![r] = results[r]]
      /\ input = [input EXCEPT ![r] = input[r]] /\ outs = [outs EXCEPT ![r] = outs[r]]
  BY DEF DataInv, LifeInv
<1>3. fan = [fan EXCEPT ![r] = fan[r]]
  BY DEF DataInv
<1>4. QED
  BY <1>1, <1>2, <1>3 DEF DataOf, DataInv, RunInv

\* The task of a run keeps the data of all runs in order (execute_run).
LEMMA CreateData ==
    ASSUME LifeInv, DataInv, RunInv, NEW r \in Runs, Create(r)
    PROVE  DataInv' /\ RunInv'
<1>1. /\ state[r] = "none" /\ pc[r] = "none"
      /\ state' = [q \in Runs |-> IF q = r THEN "pending"
                               ELSE IF q \in Victims(r) THEN "evicted" ELSE state[q]]
      /\ results' = [q \in Runs |-> IF q \in Victims(r) THEN <<>> ELSE results[q]]
      /\ pc' = [pc EXCEPT ![r] = "created"]
      /\ UNCHANGED <<step, round, input, outs, fan>>
  BY DEF Create, data, LifeInv, LifeOf, PCs, Executing
<1>2. \A q \in Victims(r) : q \in Runs /\ q # r /\ pc[q] = "returned"
  BY <1>1, VictimsEnded DEF LifeInv, LifeOf, PCs, Executing, Present, Ended
<1>3. /\ <<>> \in Seq(Results) /\ DOMAIN << >> = {} /\ \A k : Count(<<>>, k) = 0
  BY CountNone
<1>4. DataInv'
  <2>1. results' \in [Runs -> Seq(Results)]
    BY <1>1, <1>3 DEF DataInv
  <2>2. ASSUME NEW q \in Runs PROVE FanOf(StepsIn(q), pc'[q], step'[q], fan'[q])
    <3>1. pc'[q] = "fanning" => pc[q] = "fanning"
      BY <1>1 DEF LifeInv
    <3>2. QED
      BY <1>1, <3>1 DEF DataInv, FanOf
  <2>3. \A q \in Runs : StepsIn(q)' = StepsIn(q)
    BY DEF StepsIn
  <2>4. QED
    BY <1>1, <2>1, <2>2, <2>3 DEF DataInv
<1>5. ASSUME NEW q \in Runs
      PROVE  RunOf(StepsIn(q), state'[q], pc'[q], step'[q], round'[q], results'[q], input'[q], outs'[q])
  <2>1. RunOf(StepsIn(q), state[q], pc[q], step[q], round[q], results[q], input[q], outs[q])
    BY DEF RunInv
  <2>2. CASE q = r
    <3>1. /\ state'[q] = "pending" /\ pc'[q] = "created" /\ results'[q] = results[q]
          /\ step'[q] = step[q] /\ round'[q] = round[q]
      BY <1>1, <1>2, <2>2 DEF LifeInv
    <3>2. pc[q] = "none"
      BY <1>1, <2>2
    <3>3. QED
      BY <2>1, <3>1, <3>2 DEF RunOf, ProgressOf, PlaceOf
  <2>3. CASE q \in Victims(r)
    <3>1. state'[q] = "evicted" /\ pc'[q] = "returned" /\ results'[q] = <<>>
      BY <1>1, <1>2, <2>3 DEF LifeInv
    <3>2. Ordered(<<>>) /\ Limited(StepsIn(q), <<>>)
      BY <1>3, StepsAre DEF Ordered, Limited
    <3>3. QED
      BY <1>3, <3>1, <3>2 DEF RunOf, ProgressOf, PlaceOf
  <2>4. CASE q # r /\ q \notin Victims(r)
    <3>1. /\ state'[q] = state[q] /\ pc'[q] = pc[q] /\ results'[q] = results[q] /\ step'[q] = step[q]
          /\ round'[q] = round[q] /\ input'[q] = input[q] /\ outs'[q] = outs[q]
      BY <1>1, <2>4 DEF LifeInv
    <3>2. QED
      BY <2>1, <3>1
  <2>5. QED
    BY <2>2, <2>3, <2>4
<1>6. \A q \in Runs : StepsIn(q)' = StepsIn(q)
  BY DEF StepsIn
<1>7. QED
  BY <1>4, <1>5, <1>6 DEF RunInv

\* Leaving execute_run keeps what was recorded.
LEMMA LeaveData ==
    ASSUME LifeInv, DataInv, RunInv, NEW r \in Runs, NEW from, NEW answer, Leave(r, from, answer),
           UNCHANGED results, NEW s, state' = [state EXCEPT ![r] = s],
           s = "completed" => state[r] = "completed" \/ Done(StepsIn(r), results[r], Len(StepsIn(r)) + 1)
    PROVE  DataInv' /\ RunInv'
<1>1. /\ pc' = [pc EXCEPT ![r] = "returned"] /\ step' = [step EXCEPT ![r] = 1]
      /\ round' = [round EXCEPT ![r] = 0] /\ input' = [input EXCEPT ![r] = <<>>]
      /\ outs' = [outs EXCEPT ![r] = <<>>] /\ fan' = [fan EXCEPT ![r] = <<>>]
  BY DEF Leave, At, GoTo
<1>2. DataOf(r)
  BY DataIs
<1>3. results' = [results EXCEPT ![r] = results[r]]
  BY <1>2 DEF DataOf
<1>4. RunOf(StepsIn(r), s, "returned", 1, 0, results[r], <<>>, <<>>)
  BY <1>2 DEF DataOf, RunOf, ProgressOf, PlaceOf
<1>5. FanOf(StepsIn(r), "returned", 1, <<>>) /\ <<>> \in Text
  BY DEF FanOf, Text
<1>6. results[r] \in Seq(Results)
  BY <1>2 DEF DataOf
<1>7. 1 \in Nat \ {0} /\ 0 \in Nat
  OBVIOUS
<1>8. QED
  BY <1>1, <1>3, <1>4, <1>5, <1>6, <1>7, OneRunsData, Zenon

\* The task of a run keeps its data in order (execute_run).
LEMMA MoveData ==
    ASSUME LifeInv, DataInv, RunInv, NEW r \in Runs, UNCHANGED <<state, results>>,
           NEW p, NEW i \in Nat \ {0}, NEW c \in Nat, NEW all \in Text, NEW f,
           pc' = [pc EXCEPT ![r] = p], step' = [step EXCEPT ![r] = i],
           round' = [round EXCEPT ![r] = c], UNCHANGED input,
           outs' = [outs EXCEPT ![r] = all], fan' = [fan EXCEPT ![r] = f],
           ProgressOf(StepsIn(r), state[r], p, i, c, results[r]),
           TextOf(StepsIn(r), i, results[r], input[r], all), FanOf(StepsIn(r), p, i, f)
    PROVE  DataInv' /\ RunInv'
<1>1. DataOf(r)
  BY DataIs
<1>2. /\ state' = [state EXCEPT ![r] = state[r]] /\ results' = [results EXCEPT ![r] = results[r]]
      /\ input' = [input EXCEPT ![r] = input[r]]
      /\ results[r] \in Seq(Results) /\ input[r] \in Text
  BY <1>1 DEF DataOf
<1>3. RunOf(StepsIn(r), state[r], p, i, c, results[r], input[r], all)
  BY DEF RunOf
<1>4. QED
  BY <1>2, <1>3, OneRunsData, Zenon

LEMMA ExecuteData ==
    ASSUME LifeInv, DataInv, RunInv, NEW r \in Runs, Execute(r)
    PROVE  DataInv' /\ RunInv'
<1> DEFINE S == StepsIn(r)
           s == state[r]
           p == pc[r]
           i == step[r]
           c == round[r]
           res == results[r]
           text == input[r]
           all == outs[r]
           f == fan[r]
<1>1. DataOf(r)
  BY DataIs
<1>2. /\ RunOf(S, s, p, i, c, res, text, all) /\ FanOf(S, p, i, f)
      /\ i \in Nat /\ i \in Nat \ {0} /\ i + 1 \in Nat \ {0} /\ c \in Nat /\ c + 1 \in Nat
      /\ 0 \in Nat /\ res \in Seq(Results) /\ text \in Text /\ all \in Text
  BY <1>1 DEF DataOf
<1>3. /\ state = [state EXCEPT ![r] = s] /\ pc = [pc EXCEPT ![r] = p]
      /\ step = [step EXCEPT ![r] = i] /\ round = [round EXCEPT ![r] = c]
      /\ results = [results EXCEPT ![r] = res]
      /\ input = [input EXCEPT ![r] = text] /\ outs = [outs EXCEPT ![r] = all]
      /\ fan = [fan EXCEPT ![r] = f]
  BY <1>1 DEF DataOf
<1>4. /\ S \in Seq(Step) /\ Len(S) \in Nat /\ DOMAIN S = 1..Len(S)
      /\ \A k \in DOMAIN S : /\ S[k] \in Step /\ S[k].mode \in Modes /\ S[k].rounds \in Nat
                             /\ Answers[S[k].agent] \subseteq Outputs
  BY StepsAre
<1>5. p \in Executing \ {"created"} => s # "completed"
  BY DEF LifeInv, LifeOf
<1>6. CurrentStep(r) = S[i]
  BY DEF CurrentStep
<1> HIDE DEF S, s, p, i, c, res, text, all, f
<1>7. /\ ProgressOf(S, s, p, i, c, res) /\ Ordered(res)
      /\ p \in {"ready", "calling", "looping", "fanning"} => TextOf(S, i, res, text, all)
  BY <1>2 DEF RunOf, ProgressOf
<1>26. /\ i \in Nat \ {0} /\ i + 1 \in Nat \ {0} /\ c \in Nat /\ c + 1 \in Nat /\ 0 \in Nat
       /\ res \in Seq(Results) /\ text \in Text /\ all \in Text
  BY <1>2
<1>8. \A m, j : m # "fanning" => FanOf(S, m, j, f)
  BY DEF FanOf
<1>23. Before(res, i + 1) => LastStep(res) <= i
  BY <1>2, LastStepType DEF LastStep, Before
<1>24. Before(res, i) => Before(res, i + 1)
  BY <1>2, LastStepType DEF Before
<1>25. state[r] = s /\ pc[r] = p /\ step[r] = i /\ StepsIn(r) = S /\ fan[r] = f
  BY DEF s, p, i, S, f
<1>9. CASE Begin(r)
  <2>1. /\ p = "created" /\ pc' = [pc EXCEPT ![r] = "ready"] /\ state' = [state EXCEPT ![r] = "running"]
        /\ input' = [input EXCEPT ![r] = <<"request">>]
        /\ UNCHANGED <<results, step, round, outs, fan>>
    BY <1>9, <1>25 DEF Begin, At, Stay
  <2>2. res = <<>> /\ i = 1 /\ c = 0
    BY <1>7, <2>1 DEF ProgressOf, PlaceOf
  <2>3. ProgressOf(S, "running", "ready", i, c, res)
    <3>1. Done(S, res, i) /\ Before(res, i) /\ i <= Len(S) + 1
      BY <1>4, <2>2 DEF Done, Before
    <3>2. QED
      BY <1>7, <2>2, <3>1 DEF ProgressOf, PlaceOf
  <2>4. TextOf(S, i, res, <<"request">>, all)
    <3>1. DOMAIN res = {} /\ Len(res) = 0
      BY <2>2
    <3>2. EndsWithGroup(S, res, all)
      BY <3>1 DEF EndsWithGroup
    <3>3. ~ Behind(S, res, i, "collect")
      BY <2>2, <3>1 DEF Behind, LastStep
    <3>4. QED
      BY <3>1, <3>2, <3>3 DEF TextOf
  <2>5. RunOf(S, "running", "ready", i, c, res, <<"request">>, all)
    BY <2>3, <2>4 DEF RunOf
  <2>6. <<"request">> \in Text
    BY DEF Text
  <2>7. FanOf(S, "ready", i, f)
    BY <1>8
  <2>8. /\ results' = [results EXCEPT ![r] = res] /\ step' = [step EXCEPT ![r] = i]
        /\ round' = [round EXCEPT ![r] = c] /\ outs' = [outs EXCEPT ![r] = all]
        /\ fan' = [fan EXCEPT ![r] = f] /\ pc' = [pc EXCEPT ![r] = "ready"]
        /\ state' = [state EXCEPT ![r] = "running"] /\ input' = [input EXCEPT ![r] = <<"request">>]
    BY <1>3, <2>1
  <2>9. QED
    BY <1>26, <2>5, <2>6, <2>7, <2>8, OneRunsData, Zenon DEF S
<1>10. CASE Finish(r)
  <2>1. /\ p = "ready" /\ i > Len(S) /\ Leave(r, "ready", "ok")
        /\ state' = [state EXCEPT ![r] = "completed"] /\ UNCHANGED results
    BY <1>10, <1>25 DEF Finish, Leave, At
  <2>2. Done(S, res, i) /\ i <= Len(S) + 1
    BY <1>7, <2>1 DEF ProgressOf, PlaceOf
  <2>3. i = Len(S) + 1
    BY <1>2, <1>4, <2>1, <2>2
  <2>4. Done(S, res, Len(S) + 1)
    BY <2>2, <2>3
  <2>5. QED
    BY <2>1, <2>4, LeaveData DEF S, res
<1>11. ASSUME NEW m \in {"calling", "fanning"}, Fail(r, m), UNCHANGED results
       PROVE  DataInv' /\ RunInv'
  BY <1>11, LeaveData DEF Fail
<1>12. CASE AgentMissing(r)
  <2>1. Leave(r, "ready", "failed") /\ UNCHANGED <<state, results>>
    BY <1>12 DEF AgentMissing, record
  <2>2. state' = [state EXCEPT ![r] = s]
    BY <1>3, <2>1
  <2>3. QED
    BY <1>25, <2>1, <2>2, LeaveData
<1>13. CASE Resolve(r)
  <2>1. /\ p = "ready" /\ i <= Len(S) /\ S[i].mode \in {"sequential", "loop", "conditional"}
        /\ UNCHANGED <<state, results, step, round, input, outs, fan>>
        /\ pc' = [pc EXCEPT ![r] = IF S[i].mode = "loop" THEN "looping" ELSE "calling"]
    BY <1>6, <1>13, <1>25 DEF Resolve, Wants, Ahead, At, Stay, record, data
  <2> DEFINE q == IF S[i].mode = "loop" THEN "looping" ELSE "calling"
  <2>2. c = 0 /\ Before(res, i) /\ Done(S, res, i) /\ i \in DOMAIN S
    BY <1>2, <1>4, <1>7, <2>1 DEF ProgressOf, PlaceOf
  <2>3. Count(res, i) = 0
    BY <2>2, <1>2, LastStepType, CountNone DEF Before
  <2>4. S[i].rounds \in Nat /\ i <= Len(S) + 1
    BY <1>4, <2>2
  <2>5. ProgressOf(S, s, q, i, c, res)
    BY <1>5, <1>7, <1>24, <2>1, <2>2, <2>3, <2>4 DEF ProgressOf, PlaceOf
  <2>6. TextOf(S, i, res, text, all) /\ FanOf(S, q, i, f)
    BY <1>7, <1>8, <2>1
  <2> HIDE DEF q
  <2>7. /\ pc' = [pc EXCEPT ![r] = q] /\ step' = [step EXCEPT ![r] = i]
        /\ round' = [round EXCEPT ![r] = c] /\ outs' = [outs EXCEPT ![r] = all]
        /\ fan' = [fan EXCEPT ![r] = f]
    BY <1>3, <2>1 DEF q
  <2>8. QED
    BY <1>26, <2>1, <2>5, <2>6, <2>7, MoveData, Zenon DEF S, s, res, text
<1>14. CASE SkipConditional(r)
  <2>1. /\ p = "ready" /\ i <= Len(S) /\ S[i].mode = "conditional"
        /\ UNCHANGED <<state, results, pc, input, outs, fan>>
        /\ step' = [step EXCEPT ![r] = i + 1] /\ round' = [round EXCEPT ![r] = 0]
    BY <1>6, <1>14, <1>25 DEF SkipConditional, Ahead, GoTo, record, data
  <2>2. Before(res, i) /\ i \in DOMAIN S
    BY <1>2, <1>4, <1>7, <2>1 DEF ProgressOf, PlaceOf
  <2>3. ProgressOf(S, s, "ready", i + 1, 0, res)
    BY <1>2, <1>4, <1>5, <1>7, <2>1, <2>2, Passed DEF Must, Executing
  <2>4. TextOf(S, i + 1, res, text, all)
    BY <1>2, <1>7, <1>23, <1>24, <2>1, <2>2, PassedText
  <2>5. /\ pc' = [pc EXCEPT ![r] = "ready"] /\ FanOf(S, "ready", i + 1, f)
        /\ outs' = [outs EXCEPT ![r] = all] /\ fan' = [fan EXCEPT ![r] = f]
    BY <1>3, <1>8, <2>1
  <2>6. QED
    BY <1>26, <2>1, <2>3, <2>4, <2>5, MoveData, Zenon DEF S, s, res, text
<1>15. CASE Collect(r)
  <2>1. /\ p = "ready" /\ i <= Len(S) /\ S[i].mode = "collect"
        /\ UNCHANGED <<state, results, pc, outs, fan>>
        /\ input' = [input EXCEPT ![r] = all]
        /\ step' = [step EXCEPT ![r] = i + 1] /\ round' = [round EXCEPT ![r] = 0]
    BY <1>6, <1>15, <1>25 DEF Collect, Ahead, GoTo, record, data, all
  <2>2. Before(res, i) /\ i \in DOMAIN S
    BY <1>2, <1>4, <1>7, <2>1 DEF ProgressOf, PlaceOf
  <2>3. ProgressOf(S, s, "ready", i + 1, 0, res)
    BY <1>2, <1>4, <1>5, <1>7, <2>1, <2>2, Passed DEF Must, Executing
  <2>4. TextOf(S, i + 1, res, all, all)
    BY <1>2, <1>7, <2>1, <2>2, Collected
  <2>5. RunOf(S, s, "ready", i + 1, 0, res, all, all)
    BY <2>3, <2>4 DEF RunOf
  <2>6. /\ pc' = [pc EXCEPT ![r] = "ready"] /\ FanOf(S, "ready", i + 1, f)
        /\ state' = [state EXCEPT ![r] = s] /\ results' = [results EXCEPT ![r] = res]
        /\ outs' = [outs EXCEPT ![r] = all] /\ fan' = [fan EXCEPT ![r] = f]
        /\ input' = [input EXCEPT ![r] = all]
        /\ step' = [step EXCEPT ![r] = i + 1] /\ round' = [round EXCEPT ![r] = 0]
    BY <1>3, <1>8, <2>1
  <2>7. QED
    BY <1>26, <2>5, <2>6, OneRunsData, Zenon DEF S
<1>16. CASE LoopTest(r)
  <2>1. /\ p = "looping" /\ UNCHANGED <<state, results, input, fan>>
        /\ \/ /\ pc' = [pc EXCEPT ![r] = "calling"] /\ c < S[i].rounds
              /\ UNCHANGED <<step, round, outs>>
           \/ /\ pc' = [pc EXCEPT ![r] = "ready"] /\ outs' = [outs EXCEPT ![r] = all \o text]
              /\ step' = [step EXCEPT ![r] = i + 1] /\ round' = [round EXCEPT ![r] = 0]
    <3>1. round[r] = c /\ input[r] = text /\ outs[r] = all
      BY DEF c, text, all
    <3>2. QED
      BY <1>6, <1>16, <1>25, <3>1 DEF LoopTest, At, Stay, GoTo, record, data
  <2>2. S[i].mode = "loop" /\ i \in DOMAIN S /\ Before(res, i + 1) /\ Done(S, res, i) /\ i <= Len(S) + 1
    BY <1>7, <2>1 DEF ProgressOf, PlaceOf
  <2>3. CASE pc' = [pc EXCEPT ![r] = "calling"] /\ c < S[i].rounds /\ UNCHANGED <<step, round, outs>>
    <3>1. ProgressOf(S, s, "calling", i, c, res)
      BY <1>7, <2>1, <2>2, <2>3 DEF ProgressOf, PlaceOf
    <3>2. TextOf(S, i, res, text, all) /\ FanOf(S, "calling", i, f)
      BY <1>7, <1>8, <2>1
    <3>3. /\ step' = [step EXCEPT ![r] = i] /\ round' = [round EXCEPT ![r] = c]
          /\ outs' = [outs EXCEPT ![r] = all] /\ fan' = [fan EXCEPT ![r] = f]
      BY <1>3, <2>1, <2>3
    <3>4. QED
      BY <1>26, <2>1, <2>3, <3>1, <3>2, <3>3, MoveData, Zenon DEF S, s, res, text
  <2>4. CASE /\ pc' = [pc EXCEPT ![r] = "ready"] /\ outs' = [outs EXCEPT ![r] = all \o text]
             /\ step' = [step EXCEPT ![r] = i + 1] /\ round' = [round EXCEPT ![r] = 0]
    <3>1. ProgressOf(S, s, "ready", i + 1, 0, res)
      BY <1>2, <1>4, <1>5, <1>7, <2>1, <2>2, Passed DEF Must, Executing
    <3>2. TextOf(S, i + 1, res, text, all \o text) /\ FanOf(S, "ready", i + 1, f)
      BY <1>2, <1>7, <1>8, <1>23, <2>1, <2>2, PassedText
    <3>3. all \o text \in Text
      BY <1>2 DEF Text
    <3>4. fan' = [fan EXCEPT ![r] = f]
      BY <1>3, <2>1
    <3>5. QED
      BY <1>26, <2>1, <2>4, <3>1, <3>2, <3>3, <3>4, MoveData, Zenon DEF S, s, res, text
  <2>5. QED
    BY <2>1, <2>3, <2>4
<1>17. ASSUME NEW o \in Outputs, CallSucceeds(r, o) PROVE DataInv' /\ RunInv'
  <2> DEFINE x == [step |-> i, out |-> o]
             new == Append(res, x)
  <2>1. /\ p = "calling" /\ UNCHANGED <<state, fan>>
        /\ results' = [results EXCEPT ![r] = new] /\ input' = [input EXCEPT ![r] = <<o>>]
        /\ \/ /\ S[i].mode = "loop" /\ pc' = [pc EXCEPT ![r] = "looping"]
              /\ round' = [round EXCEPT ![r] = c + 1] /\ UNCHANGED <<step, outs>>
           \/ /\ pc' = [pc EXCEPT ![r] = "ready"] /\ outs' = [outs EXCEPT ![r] = Append(all, o)]
              /\ step' = [step EXCEPT ![r] = i + 1] /\ round' = [round EXCEPT ![r] = 0]
    BY <1>6, <1>17, <1>25 DEF CallSucceeds, At, GoTo, res, c, all
  <2>2. i \in DOMAIN S /\ S[i].rounds \in Nat
    BY <1>4, <1>7, <2>1 DEF ProgressOf, PlaceOf
  <2>3. /\ new \in Seq(Results)
        /\ RunOf(S, s, "ready", i + 1, 0, new, <<o>>, Append(all, o))
        /\ S[i].mode = "loop" => RunOf(S, s, "looping", i, c + 1, new, <<o>>, all)
    <3>1. s # "completed" /\ ProgressOf(S, s, "calling", i, c, res)
      BY <1>5, <1>7, <2>1 DEF Executing
    <3>2. QED
      BY <1>2, <1>4, <2>2, <3>1, Answered
  <2>4. <<o>> \in Text /\ Append(all, o) \in Text
    BY <1>2 DEF Text
  <2>5. FanOf(S, "ready", i + 1, f) /\ FanOf(S, "looping", i, f)
    BY <1>8
  <2> HIDE DEF new
  <2>6. state' = [state EXCEPT ![r] = s] /\ fan' = [fan EXCEPT ![r] = f]
    BY <1>3, <2>1
  <2>7. CASE S[i].mode = "loop" /\ pc' = [pc EXCEPT ![r] = "looping"]
             /\ round' = [round EXCEPT ![r] = c + 1] /\ UNCHANGED <<step, outs>>
    <3>1. /\ step' = [step EXCEPT ![r] = i] /\ outs' = [outs EXCEPT ![r] = all]
          /\ results' = [results EXCEPT ![r] = new] /\ input' = [input EXCEPT ![r] = <<o>>]
          /\ pc' = [pc EXCEPT ![r] = "looping"] /\ round' = [round EXCEPT ![r] = c + 1]
      BY <1>3, <2>1, <2>7
    <3>2. new \in Seq(Results) /\ RunOf(S, s, "looping", i, c + 1, new, <<o>>, all)
      BY <2>3, <2>7
    <3>3. QED
      BY <1>26, <2>4, <2>5, <2>6, <3>1, <3>2, OneRunsData, Zenon DEF S
  <2>8. CASE /\ pc' = [pc EXCEPT ![r] = "ready"] /\ outs' = [outs EXCEPT ![r] = Append(all, o)]
             /\ step' = [step EXCEPT ![r] = i + 1] /\ round' = [round EXCEPT ![r] = 0]
    BY <1>26, <2>1, <2>3, <2>4, <2>5, <2>6, <2>8, OneRunsData, Zenon DEF S
  <2>9. QED
    BY <2>1, <2>7, <2>8
<1>18. CASE CallFails(r)
  <2>1. CASE SkipStep(r) /\ CurrentStep(r).onError = "skip"
    <3> DEFINE all2 == IF S[i].mode = "loop" THEN all \o text ELSE all
    <3>1. /\ p = "calling" /\ UNCHANGED <<state, results, input, fan>>
          /\ pc' = [pc EXCEPT ![r] = "ready"] /\ S[i].onError = "skip"
          /\ step' = [step EXCEPT ![r] = i + 1] /\ round' = [round EXCEPT ![r] = 0]
      BY <1>6, <1>25, <2>1 DEF SkipStep, At, GoTo, record
    <3>2. outs' = [outs EXCEPT ![r] = all2]
      <4>1. outs' = IF S[i].mode = "loop" THEN [outs EXCEPT ![r] = all \o text] ELSE outs
        BY <1>6, <2>1 DEF SkipStep, all, text
      <4>2. QED
        BY <1>3, <4>1
    <3>3. /\ i \in DOMAIN S /\ S[i].mode \in {"sequential", "conditional", "loop"} /\ Before(res, i + 1)
      BY <1>7, <1>24, <3>1 DEF ProgressOf, PlaceOf
    <3>4. ProgressOf(S, s, "ready", i + 1, 0, res)
      BY <1>2, <1>4, <1>5, <1>7, <3>1, <3>3, Passed DEF Must, Executing
    <3>5. TextOf(S, i + 1, res, text, all2) /\ FanOf(S, "ready", i + 1, f)
      BY <1>2, <1>7, <1>8, <1>23, <3>1, <3>3, PassedText
    <3>6. all2 \in Text
      BY <1>2 DEF Text
    <3> HIDE DEF all2
    <3>7. fan' = [fan EXCEPT ![r] = f]
      BY <1>3, <3>1
    <3>8. QED
      BY <1>26, <3>7, <3>1, <3>2, <3>4, <3>5, <3>6, MoveData, Zenon DEF S, s, res, text
  <2>2. CASE Retry(r)
    <3>1. UNCHANGED <<state, pc, step, round, results, input, outs, fan>>
      BY <2>2 DEF Retry, record, data
    <3>2. QED
      BY <3>1 DEF DataInv, RunInv, StepsIn
  <2>3. CASE GiveUp(r)
    BY <1>11, <2>3 DEF GiveUp
  <2>4. QED
    BY <1>18, <2>1, <2>2, <2>3 DEF CallFails
<1>19. CASE FanOut(r)
  <2> DEFINE f2 == [k \in GroupOf(S, i) |-> "waiting"]
  <2>1. /\ p = "ready" /\ i <= Len(S) /\ S[i].mode = "fan_out"
        /\ UNCHANGED <<state, results, step, round, input, outs>>
        /\ pc' = [pc EXCEPT ![r] = "fanning"] /\ fan' = [fan EXCEPT ![r] = f2]
    BY <1>6, <1>19, <1>25 DEF FanOut, Ahead, At, Stay, record, data, Group, GroupOf
  <2>2. c = 0 /\ Before(res, i) /\ Done(S, res, i) /\ i \in DOMAIN S /\ i <= Len(S) + 1
    BY <1>2, <1>4, <1>7, <2>1 DEF ProgressOf, PlaceOf
  <2>3. ProgressOf(S, s, "fanning", i, c, res)
    BY <1>7, <2>1, <2>2 DEF ProgressOf, PlaceOf
  <2>4. TextOf(S, i, res, text, all) /\ FanOf(S, "fanning", i, f2)
    BY <1>7, <2>1 DEF FanOf
  <2> HIDE DEF f2
  <2>5. /\ step' = [step EXCEPT ![r] = i] /\ round' = [round EXCEPT ![r] = c]
        /\ outs' = [outs EXCEPT ![r] = all]
    BY <1>3, <2>1
  <2>6. QED
    BY <1>26, <2>1, <2>3, <2>4, <2>5, MoveData, Zenon DEF S, s, res, text
<1>20. ASSUME NEW k \in DOMAIN fan[r], NEW x \in Outputs \cup {"failed"}, FanEnds(r, k, x)
       PROVE  DataInv' /\ RunInv'
  <2> DEFINE f2 == [f EXCEPT ![k] = x]
  <2>1. /\ p = "fanning" /\ k \in DOMAIN f /\ x \in Answers[S[k].agent] \cup {"failed"}
        /\ UNCHANGED <<state, results, pc, step, round, input, outs>>
        /\ fan' = [fan EXCEPT ![r] = f2]
    BY <1>20, <1>25 DEF FanEnds, record, data, f
  <2>2. f \in [GroupOf(S, i) -> Outputs \cup {"waiting", "failed"}]
    BY <1>2, <2>1 DEF FanOf
  <2>3. k \in DOMAIN S
    BY <1>2, <1>4, <2>1, <2>2 DEF GroupOf
  <2>4. FanOf(S, "fanning", i, f2)
    <3>1. x \in Outputs \cup {"waiting", "failed"}
      BY <1>4, <2>1, <2>3
    <3>2. QED
      BY <2>2, <3>1 DEF FanOf
  <2>5. ProgressOf(S, s, "fanning", i, c, res) /\ TextOf(S, i, res, text, all)
    BY <1>7, <2>1
  <2> HIDE DEF f2
  <2>6. /\ pc' = [pc EXCEPT ![r] = "fanning"] /\ step' = [step EXCEPT ![r] = i]
        /\ round' = [round EXCEPT ![r] = c] /\ outs' = [outs EXCEPT ![r] = all]
    BY <1>3, <2>1
  <2>7. QED
    BY <1>26, <2>1, <2>4, <2>5, <2>6, MoveData, Zenon DEF S, s, res, text
<1>21. CASE Join(r)
  <2> DEFINE rec == RecordedOf(f)
             n == Cardinality(rec)
             new == [k \in 1..n |-> [step |-> i + k - 1, out |-> f[i + k - 1]]]
             answers == [k \in DOMAIN new |-> new[k].out]
  <2>1. /\ p = "fanning" /\ \A k \in DOMAIN f : f[k] # "waiting"
        /\ results' = [results EXCEPT ![r] = res \o new]
        /\ \/ /\ rec = DOMAIN f /\ pc' = [pc EXCEPT ![r] = "ready"] /\ fan' = [fan EXCEPT ![r] = <<>>]
              /\ input' = [input EXCEPT ![r] = <<f[i + n - 1]>>]
              /\ outs' = [outs EXCEPT ![r] = all \o answers]
              /\ step' = [step EXCEPT ![r] = i + Cardinality(DOMAIN f)]
              /\ round' = [round EXCEPT ![r] = 0] /\ UNCHANGED state
           \/ Fail(r, "fanning")
    <3>1. Recorded(r) = rec /\ NewResults(r) = new
      BY <1>25 DEF Recorded, RecordedOf, NewResults
    <3>2. results[r] = res /\ outs[r] = all
      BY DEF res, all
    <3> HIDE DEF rec, new
    <3>3. /\ p = "fanning" /\ \A k \in DOMAIN f : f[k] # "waiting"
          /\ results' = [results EXCEPT ![r] = res \o new]
      BY <1>21, <1>25, <3>1, <3>2 DEF Join, Joined
    <3>4. Cardinality(Recorded(r)) = n /\ answers = [k \in DOMAIN NewResults(r) |-> NewResults(r)[k].out]
      BY <3>1
    <3>5. CASE rec = DOMAIN f
      BY <1>21, <1>25, <3>1, <3>2, <3>3, <3>4, <3>5 DEF Join, At, GoTo
    <3>6. CASE rec # DOMAIN f
      BY <1>21, <1>25, <3>1, <3>3, <3>6 DEF Join
    <3>7. QED
      BY <3>5, <3>6
  <2> HIDE DEF rec
  <2>2. /\ i \in DOMAIN S /\ S[i].mode = "fan_out" /\ Before(res, i) /\ TextOf(S, i, res, text, all)
        /\ f \in [GroupOf(S, i) -> Outputs \cup {"waiting", "failed"}]
    BY <1>2, <1>7, <2>1 DEF ProgressOf, PlaceOf, FanOf
  <2>3. PICK m \in i..Len(S) : GroupOf(S, i) = i..m /\ \A k \in i..m : S[k].mode = "fan_out"
    <3>1. i <= Len(S)
      BY <1>2, <1>4, <2>2
    <3>2. QED
      BY <1>2, <1>4, <2>2, <3>1, GroupInterval
  <2>4. m \in Nat /\ i <= m /\ m <= Len(S) /\ DOMAIN f = i..m /\ 1 <= i
    BY <1>2, <1>4, <2>2, <2>3
  <2>5. /\ n \in 0..(m - i + 1) /\ new \in Seq(Results) /\ (rec = DOMAIN f => n = m - i + 1)
    <3>1. f \in [i..m -> Outputs \cup {"waiting", "failed"}]
      BY <2>2, <2>3
    <3>2. PICK d \in 0..(m - i + 1) :
              /\ Cardinality(RecordedOf(f)) = d
              /\ [k \in 1..d |-> [step |-> i + k - 1, out |-> f[i + k - 1]]] \in Seq(Results)
              /\ RecordedOf(f) = DOMAIN f => d = m - i + 1
      BY <1>2, <2>1, <2>4, <3>1, NewResultsAre
    <3>3. n = d
      BY <3>2 DEF rec
    <3>4. QED
      BY <3>2, <3>3 DEF rec
  <2> HIDE DEF n
  <2>6. /\ Len(new) = n /\ DOMAIN new = 1..n /\ n \in Nat
        /\ \A k \in DOMAIN new : new[k].step = i + k - 1 /\ new[k].out = f[i + k - 1]
    BY <2>4, <2>5
  <2> HIDE DEF new, answers
  <2>7. LET both == res \o new
        IN  /\ both \in Seq(Results) /\ \A k \in DOMAIN both : both[k].step \in DOMAIN S
            /\ Ordered(both) /\ Limited(S, both)
            /\ Before(both, i + Len(new)) /\ Done(S, both, i + Len(new))
    <3>1. ProgressOf(S, s, "fanning", i, c, res)
      BY <1>7, <2>1
    <3>2. Len(new) <= m - i + 1
      BY <2>4, <2>5, <2>6
    <3>3. QED
      BY <1>2, <1>4, <2>3, <2>4, <2>5, <2>6, <3>1, <3>2, Recording
  <2> DEFINE both == res \o new
  <2>8. CASE Fail(r, "fanning")
    <3>1. RunOf(S, "failed", "returned", 1, 0, both, <<>>, <<>>)
      BY <2>7 DEF RunOf, ProgressOf, PlaceOf
    <3>2. FanOf(S, "returned", 1, <<>>) /\ <<>> \in Text
      BY DEF FanOf, Text
    <3>3. /\ pc' = [pc EXCEPT ![r] = "returned"] /\ step' = [step EXCEPT ![r] = 1]
          /\ round' = [round EXCEPT ![r] = 0] /\ input' = [input EXCEPT ![r] = <<>>]
          /\ outs' = [outs EXCEPT ![r] = <<>>] /\ fan' = [fan EXCEPT ![r] = <<>>]
          /\ state' = [state EXCEPT ![r] = "failed"]
      BY <2>8 DEF Fail, Leave, At, GoTo
    <3>4. both \in Seq(Results) /\ results' = [results EXCEPT ![r] = both] /\ 1 \in Nat \ {0}
      BY <2>1, <2>7
    <3> HIDE DEF both
    <3>5. QED
      BY <1>26, <3>1, <3>2, <3>3, <3>4, OneRunsData, Zenon DEF S
  <2>9. CASE /\ rec = DOMAIN f /\ pc' = [pc EXCEPT ![r] = "ready"] /\ fan' = [fan EXCEPT ![r] = <<>>]
             /\ input' = [input EXCEPT ![r] = <<f[i + n - 1]>>]
             /\ outs' = [outs EXCEPT ![r] = all \o answers]
             /\ step' = [step EXCEPT ![r] = i + Cardinality(DOMAIN f)]
             /\ round' = [round EXCEPT ![r] = 0] /\ UNCHANGED state
    <3>1. n = m - i + 1 /\ n >= 1 /\ Cardinality(DOMAIN f) = n /\ i + n = m + 1
      <4>1. Cardinality(i..m) = m - i + 1
        BY <1>26, <2>4, FS_Interval
      <4>2. QED
        BY <1>26, <2>4, <2>5, <2>9, <4>1
    <3> DEFINE ends == all \o answers
    <3>2. ends \in Text /\ TextOf(S, i + Len(new), both, <<new[Len(new)].out>>, ends)
      <4>1. Len(new) >= 1 /\ \A k \in i..(i + Len(new) - 1) : S[k].mode = "fan_out"
        BY <1>26, <2>3, <2>4, <2>6, <3>1
      <4>2. \A k \in DOMAIN new : new[k].step = i + k - 1
        BY <2>6
      <4>3. i \in Nat /\ answers = [k \in DOMAIN new |-> new[k].out]
        BY <1>26 DEF answers
      <4>4. /\ TextOf(S, i, res, text, all) /\ Ordered(res) /\ Before(res, i)
            /\ res \in Seq(Results) /\ new \in Seq(Results) /\ all \in Text
        BY <1>26, <1>7, <2>2, <2>5
      <4>5. /\ all \o answers \in Text
            /\ TextOf(S, i + Len(new), res \o new, <<new[Len(new)].out>>, all \o answers)
        BY <4>1, <4>2, <4>3, <4>4, GroupText, Zenon
      <4>6. QED
        BY <4>5
    <3>3. new[Len(new)].out = f[i + n - 1] /\ f[i + n - 1] \in Outputs
      <4>1. n \in DOMAIN new /\ Len(new) = n
        BY <2>6, <3>1
      <4>2. new[n] \in Results /\ new[n].out = f[i + n - 1]
        BY <2>5, <2>6, <4>1
      <4>3. QED
        BY <4>1, <4>2 DEF Results
    <3>4. ProgressOf(S, s, "ready", i + n, 0, both)
      <4>1. i + n <= Len(S) + 1
        BY <1>4, <2>4, <3>1
      <4>2. s # "completed"
        BY <1>5, <2>1 DEF Executing
      <4>3. QED
        BY <2>6, <2>7, <4>1, <4>2 DEF ProgressOf, PlaceOf
    <3>5. RunOf(S, s, "ready", i + n, 0, both, <<f[i + n - 1]>>, ends)
      BY <2>6, <3>2, <3>3, <3>4 DEF RunOf
    <3>6. FanOf(S, "ready", i + n, <<>>) /\ <<f[i + n - 1]>> \in Text /\ ends \in Text
      BY <3>2, <3>3 DEF FanOf, Text
    <3>7. both \in Seq(Results) /\ results' = [results EXCEPT ![r] = both] /\ i + n \in Nat \ {0}
      BY <1>26, <2>1, <2>6, <2>7
    <3>8. state' = [state EXCEPT ![r] = s] /\ step' = [step EXCEPT ![r] = i + n]
      BY <1>3, <2>9, <3>1
    <3> HIDE DEF both, ends
    <3>9. outs' = [outs EXCEPT ![r] = ends]
      BY <2>9 DEF ends
    <3>10. /\ pc' = [pc EXCEPT ![r] = "ready"] /\ fan' = [fan EXCEPT ![r] = <<>>]
           /\ input' = [input EXCEPT ![r] = <<f[i + n - 1]>>]
           /\ round' = [round EXCEPT ![r] = 0] /\ 0 \in Nat
      BY <2>9
    <3> HIDE DEF n
    <3>11. QED
      BY <3>5, <3>6, <3>7, <3>8, <3>9, <3>10, OneRunsData, Zenon DEF S
  <2>10. QED
    BY <2>1, <2>8, <2>9
<1>22. QED
  BY <1>9, <1>10, <1>12, <1>13, <1>14, <1>15, <1>16, <1>17, <1>18, <1>19, <1>20, <1>21 DEF Execute

LEMMA DataInit == Init => DataInv /\ RunInv
<1> SUFFICES ASSUME Init PROVE DataInv /\ RunInv
  OBVIOUS
<1>1. /\ <<>> \in Seq(Results) /\ DOMAIN << >> = {} /\ \A k : Count(<<>>, k) = 0
      /\ <<>> \in Text
  BY CountNone DEF Text
<1>2. ASSUME NEW r \in Runs
      PROVE  /\ FanOf(StepsIn(r), pc[r], step[r], fan[r])
             /\ RunOf(StepsIn(r), state[r], pc[r], step[r], round[r], results[r], input[r], outs[r])
  <2>1. /\ state[r] = "none" /\ pc[r] = "none" /\ step[r] = 1 /\ round[r] = 0
        /\ results[r] = <<>>
    BY DEF Init
  <2>2. Ordered(<<>>) /\ Limited(StepsIn(r), <<>>)
    BY <1>1, StepsAre DEF Ordered, Limited
  <2>3. QED
    BY <1>1, <2>1, <2>2 DEF FanOf, RunOf, ProgressOf, PlaceOf
<1>3. QED
  BY <1>1, <1>2 DEF Init, DataInv, RunInv

LEMMA DataStep == LifeInv /\ DataInv /\ RunInv /\ [Next]_vars => DataInv' /\ RunInv'
<1> SUFFICES ASSUME LifeInv, DataInv, RunInv, [Next]_vars PROVE DataInv' /\ RunInv'
  OBVIOUS
<1>1. ASSUME NEW r \in Runs, Create(r) PROVE DataInv' /\ RunInv'
  BY <1>1, CreateData
<1>2. ASSUME NEW r \in Runs, Execute(r) PROVE DataInv' /\ RunInv'
  BY <1>2, ExecuteData
<1>3. ASSUME NEW r \in Runs, Drop(r) PROVE DataInv' /\ RunInv'
  <2>1. Leave(r, pc[r], "dropped") /\ UNCHANGED <<state, results>>
    BY <1>3 DEF Drop, record
  <2>2. state' = [state EXCEPT ![r] = state[r]]
    BY <2>1 DEF LifeInv
  <2>3. QED
    BY <2>1, <2>2, LeaveData
<1>4. ASSUME UNCHANGED <<state, pc, results, step, round, input, outs, fan>>
      PROVE  DataInv' /\ RunInv'
  <2>1. \A r \in Runs : StepsIn(r)' = StepsIn(r)
    BY DEF StepsIn
  <2>2. DataInv'
    BY <1>4, <2>1 DEF DataInv
  <2>3. RunInv'
    BY <1>4, <2>1 DEF RunInv
  <2>4. QED
    BY <2>2, <2>3
<1>5. ASSUME NEW a \in Agents, KillAgent(a) PROVE DataInv' /\ RunInv'
  BY <1>4, <1>5 DEF KillAgent, record, data
<1>6. ASSUME UNCHANGED vars PROVE DataInv' /\ RunInv'
  BY <1>4, <1>6 DEF vars, record, data
<1>7. QED
  BY <1>1, <1>2, <1>3, <1>5, <1>6 DEF Next

LEMMA DataInvariant == Spec => [](DataInv /\ RunInv)
BY DataInit, DataStep, LifeInvariant, PTL DEF Spec

-----------------------------------------------------------------------------
(* What the results and the inputs of a run are                              *)

(* Whatever the steps, the failures, the retries and the dropped calls, a     *)
(* completed run has one result of every step it could not skip, none has    *)
(* more results of a step than the step may leave, and they are in the order *)
(* of the steps (execute_run, execute_step_with_error_mode).                 *)
THEOREM WholeTheorem == Spec => []CompletedRunsAreWhole
<1>1. DataInv /\ RunInv => CompletedRunsAreWhole
  <2> SUFFICES ASSUME DataInv, RunInv, NEW r \in Present
               PROVE  /\ \A n \in 2..Len(results[r]) : results[r][n - 1].step <= results[r][n].step
                      /\ \A k \in DOMAIN StepsIn(r) :
                            LET s == StepsIn(r)[k]
                                count == Cardinality(ResultsOf(r, k))
                            IN  /\ count <= IF s.mode = "loop" THEN s.rounds ELSE 1
                                /\ ( /\ state[r] = "completed"
                                     /\ \/ s.mode = "fan_out"
                                        \/ s.mode = "sequential" /\ s.onError # "skip")
                                   => count = 1
    BY DEF CompletedRunsAreWhole
  <2> DEFINE S == StepsIn(r)
             res == results[r]
  <2>1. r \in Runs
    BY DEF Present
  <2>2. ProgressOf(S, state[r], pc[r], step[r], round[r], res) /\ res \in Seq(Results)
    BY <2>1 DEF RunInv, RunOf, DataInv
  <2>3. \A k : Cardinality(ResultsOf(r, k)) = Count(res, k)
    BY DEF ResultsOf, Count
  <2>4. Len(S) \in Nat /\ \A k \in DOMAIN S : k \in 1..Len(S)
    BY <2>1, StepsAre
  <2> HIDE DEF S, res
  <2>5. ASSUME NEW n \in 2..Len(res) PROVE res[n - 1].step <= res[n].step
    <3>1. n - 1 \in DOMAIN res /\ n \in DOMAIN res /\ n - 1 <= n
      BY <2>2
    <3>2. QED
      BY <2>2, <3>1 DEF ProgressOf, Ordered
  <2>6. ASSUME NEW k \in DOMAIN S
        PROVE  /\ Count(res, k) <= IF S[k].mode = "loop" THEN S[k].rounds ELSE 1
               /\ state[r] = "completed" /\ Must(S[k]) => Count(res, k) = 1
    <3>1. k < Len(S) + 1
      BY <2>4
    <3>2. QED
      BY <2>2, <3>1 DEF ProgressOf, Limited, Done
  <2>7. QED
    BY <2>3, <2>5, <2>6 DEF S, res, Must
<1>2. QED
  BY <1>1, DataInvariant, PTL

\* The results of the last group are the last ones.
LEMMA GroupResults ==
    ASSUME NEW S, NEW res \in Seq(Results), Ordered(res)
    PROVE  \E b \in 0..Len(res) : {n \in 1..Len(res) : InGroup(S, res, n)} = (b + 1)..Len(res)
<1> DEFINE D == {n \in 1..Len(res) : ~ InGroup(S, res, n)}
           len == Len(res)
<1>1. /\ len \in Nat /\ DOMAIN res = 1..len
      /\ \A n \in 1..len : res[n].step \in Nat
      /\ LastStep(res) \in Nat
  BY LastStepType
<1>2. ASSUME NEW k \in D, NEW n \in 1..k PROVE n \in D
  <2>1. n \in DOMAIN res /\ k \in DOMAIN res /\ n <= k /\ n \in 1..len
    BY <1>1
  <2>2. res[n].step <= res[k].step /\ res[n].step \in Nat /\ res[k].step \in Nat
    BY <1>1, <2>1 DEF Ordered
  <2>3. \A j \in res[k].step..LastStep(res) : j \in res[n].step..LastStep(res)
    BY <1>1, <2>2
  <2>4. InGroup(S, res, n) => InGroup(S, res, k)
    BY <2>3 DEF InGroup
  <2>5. QED
    BY <2>1, <2>4
<1>3. IsPrefix(D, 1, len)
  BY <1>2 DEF IsPrefix
<1>4. IsInterval(D, 1, len)
  <2> HIDE DEF D
  <2>1. 1 \in Nat /\ len \in Int /\ 1 <= len + 1
    BY <1>1
  <2> HIDE DEF len
  <2>2. QED
    BY <1>3, <2>1, Prefix
<1>5. PICK b \in 0..len : D = 1..b
  BY <1>4 DEF IsInterval
<1>6. \A n \in 1..len : InGroup(S, res, n) <=> n \in (b + 1)..len
  <2>1. \A n \in 1..len : n \in D <=> n \in 1..b
    BY <1>5
  <2>2. QED
    BY <1>1, <2>1
<1>7. \A n \in (b + 1)..len : n \in 1..len
  BY <1>1
<1>8. QED
  BY <1>5, <1>6, <1>7

\* The last answers of a text that ends with a group.
LEMMA GroupEnds ==
    ASSUME NEW S, NEW res \in Seq(Results), NEW text \in Text, Ordered(res),
           EndsWithGroup(S, res, text)
    PROVE  LET size == Cardinality({n \in 1..Len(res) : InGroup(S, res, n)})
               tail == Len(text) - size
           IN  /\ tail >= 0
               /\ \A i \in 1..size : text[tail + i] = res[Len(res) - size + i].out
<1> DEFINE len == Len(res)
           size == Cardinality({n \in 1..Len(res) : InGroup(S, res, n)})
           tail == Len(text) - size
<1>1. len \in Nat /\ Len(text) \in Nat /\ DOMAIN res = 1..len
  BY DEF Text
<1>2. PICK b \in 0..len : {n \in 1..len : InGroup(S, res, n)} = (b + 1)..len
  BY GroupResults
<1>3. size = len - b
  <2>1. b + 1 \in Int /\ len \in Int
    BY <1>1, <1>2
  <2>2. Cardinality((b + 1)..len) = IF b + 1 > len THEN 0 ELSE len - (b + 1) + 1
    BY <2>1, FS_Interval, Zenon
  <2>3. size = Cardinality((b + 1)..len)
    BY <1>2
  <2> HIDE DEF size, len
  <2>4. QED
    BY <1>1, <1>2, <2>2, <2>3
<1>4. \A n \in (b + 1)..len : /\ Len(text) - len + n >= 1
                              /\ text[Len(text) - len + n] = res[n].out
  <2>1. \A n \in (b + 1)..len : n \in DOMAIN res /\ InGroup(S, res, n)
    BY <1>1, <1>2
  <2>2. QED
    BY <2>1 DEF EndsWithGroup
<1> HIDE DEF len, size
<1>5. tail >= 0
  <2>1. CASE b = len
    BY <1>1, <1>3, <2>1
  <2>2. CASE b < len
    <3>1. Len(text) - len + (b + 1) >= 1
      BY <1>1, <1>4, <2>2
    <3>2. QED
      BY <1>1, <1>3, <3>1
  <2>3. QED
    BY <1>1, <2>1, <2>2
<1>6. ASSUME NEW i \in 1..size PROVE text[tail + i] = res[len - size + i].out
  <2>1. /\ b + i \in (b + 1)..len
        /\ Len(text) - len + (b + i) = tail + i /\ len - size + i = b + i
    BY <1>1, <1>3
  <2>2. QED
    BY <1>4, <2>1
<1>7. QED
  BY <1>5, <1>6 DEF len, size

(* What a step is given is what the steps before it said: the last answer,   *)
(* or behind a Collect a text that ends with the answers of the fan-out      *)
(* group before it, none missing and in the order of the steps, though they  *)
(* came in any order (execute_run).                                          *)
THEOREM InputTheorem == Spec => []InputIsLatest
<1>1. DataInv /\ RunInv => InputIsLatest
  <2> SUFFICES ASSUME DataInv, RunInv, NEW r \in Runs, pc[r] \in {"ready", "calling", "looping"}
               PROVE  LET n == Len(results[r])
                          last == IF n = 0 THEN 0 ELSE results[r][n].step
                          behind(m) == \E k \in last + 1..step[r] - 1 : StepsIn(r)[k].mode = m
                          group == {k \in 1..n : \A i \in results[r][k].step..last :
                                                    StepsIn(r)[i].mode = "fan_out"}
                          tail == Len(input[r]) - Cardinality(group)
                      IN  /\ ~ behind("collect") =>
                                input[r] = IF n = 0 THEN <<"request">> ELSE <<results[r][n].out>>
                          /\ behind("collect") /\ ~ behind("loop") =>
                                /\ tail >= 0
                                /\ \A i \in 1..Cardinality(group) :
                                      input[r][tail + i] =
                                         results[r][n - Cardinality(group) + i].out
    BY DEF InputIsLatest
  <2> DEFINE S == StepsIn(r)
             res == results[r]
             n == Len(results[r])
             last == IF n = 0 THEN 0 ELSE results[r][n].step
             behind(m) == \E k \in last + 1..step[r] - 1 : StepsIn(r)[k].mode = m
             group == {k \in 1..n : \A i \in results[r][k].step..last :
                                       StepsIn(r)[i].mode = "fan_out"}
             size == Cardinality(group)
  <2>1. /\ res \in Seq(Results) /\ input[r] \in Text /\ Ordered(res)
        /\ TextOf(S, step[r], res, input[r], outs[r])
    BY DEF DataInv, RunInv, RunOf, ProgressOf
  <2>2. last = LastStep(res)
    BY DEF LastStep
  <2>3. \A m : behind(m) <=> Behind(S, res, step[r], m)
    BY <2>2 DEF Behind
  <2>4. group = {k \in 1..Len(res) : InGroup(S, res, k)}
    BY <2>2 DEF InGroup
  <2>5. ~ behind("collect") => input[r] = IF n = 0 THEN <<"request">> ELSE <<res[n].out>>
    BY <2>1, <2>3 DEF TextOf
  <2>6. ASSUME behind("collect"), ~ behind("loop")
        PROVE  /\ Len(input[r]) - size >= 0
               /\ \A i \in 1..size : input[r][Len(input[r]) - size + i] = res[n - size + i].out
    <3>1. EndsWithGroup(S, res, input[r])
      BY <2>1, <2>3, <2>6 DEF TextOf
    <3>2. size = Cardinality({k \in 1..Len(res) : InGroup(S, res, k)})
      BY <2>4
    <3> HIDE DEF S, res, size
    <3>3. QED
      BY <2>1, <3>1, <3>2, GroupEnds DEF n, res
  <2> HIDE DEF behind, group, size, last
  <2>7. QED
    BY <2>5, <2>6 DEF behind, group, size, last
<1>2. QED
  BY <1>1, DataInvariant, PTL

-----------------------------------------------------------------------------
(* Types *)

\* Failed attempts are counted during a call only, and only a group has calls
\* of its own.
CallOf(S, p, i, a, f) ==
    /\ IF p = "calling" THEN a <= S[i].retries ELSE a = 0
    /\ p # "fanning" => f = <<>>

CallInv ==
    /\ agents \subseteq Agents
    /\ attempt \in [Runs -> Nat]
    /\ \A r \in Runs : CallOf(StepsIn(r), pc[r], step[r], attempt[r], fan[r])

LEMMA OneRunsCall ==
    ASSUME LifeInv, DataInv, CallInv, NEW r \in Runs, UNCHANGED agents,
           NEW p, NEW i, NEW a \in Nat, NEW f, CallOf(StepsIn(r), p, i, a, f),
           pc' = [pc EXCEPT ![r] = p], step' = [step EXCEPT ![r] = i],
           attempt' = [attempt EXCEPT ![r] = a], fan' = [fan EXCEPT ![r] = f]
    PROVE  CallInv'
<1>1. agents' \subseteq Agents /\ attempt' \in [Runs -> Nat]
  BY DEF CallInv
<1>2. ASSUME NEW q \in Runs
      PROVE  CallOf(StepsIn(q), pc'[q], step'[q], attempt'[q], fan'[q])
  <2>1. CASE q = r
    <3>1. pc'[q] = p /\ step'[q] = i /\ attempt'[q] = a /\ fan'[q] = f
      BY <2>1 DEF LifeInv, DataInv, CallInv
    <3>2. QED
      BY <2>1, <3>1
  <2>2. CASE q # r
    <3>1. pc'[q] = pc[q] /\ step'[q] = step[q] /\ attempt'[q] = attempt[q] /\ fan'[q] = fan[q]
      BY <2>2 DEF LifeInv, DataInv, CallInv
    <3>2. QED
      BY <3>1 DEF CallInv
  <2>3. QED
    BY <2>1, <2>2
<1>3. \A q \in Runs : StepsIn(q)' = StepsIn(q)
  BY DEF StepsIn
<1>4. QED
  BY <1>1, <1>2, <1>3 DEF CallInv

LEMMA CallStep == LifeInv /\ DataInv /\ RunInv /\ CallInv /\ [Next]_vars => CallInv'
<1> SUFFICES ASSUME LifeInv, DataInv, RunInv, CallInv, [Next]_vars PROVE CallInv'
  OBVIOUS
<1>1. ASSUME NEW r \in Runs
      PROVE  /\ CallOf(StepsIn(r), pc[r], step[r], attempt[r], fan[r])
             /\ attempt[r] \in Nat /\ 0 \in Nat
             /\ pc = [pc EXCEPT ![r] = pc[r]] /\ step = [step EXCEPT ![r] = step[r]]
             /\ attempt = [attempt EXCEPT ![r] = attempt[r]] /\ fan = [fan EXCEPT ![r] = fan[r]]
             /\ \A k \in DOMAIN StepsIn(r) : StepsIn(r)[k].retries \in Nat
             /\ pc[r] \in {"ready", "calling", "looping", "fanning"} /\ step[r] <= Len(StepsIn(r)) =>
                    step[r] \in DOMAIN StepsIn(r)
             /\ pc[r] \in {"calling", "looping"} => step[r] \in DOMAIN StepsIn(r)
  <2>1. /\ CallOf(StepsIn(r), pc[r], step[r], attempt[r], fan[r])
        /\ attempt[r] \in Nat /\ 0 \in Nat
        /\ attempt = [attempt EXCEPT ![r] = attempt[r]]
    BY DEF CallInv
  <2>2. /\ pc = [pc EXCEPT ![r] = pc[r]] /\ step = [step EXCEPT ![r] = step[r]]
        /\ fan = [fan EXCEPT ![r] = fan[r]] /\ step[r] \in Nat \ {0}
    BY DEF LifeInv, DataInv
  <2>3. \A k \in DOMAIN StepsIn(r) : StepsIn(r)[k] \in Step
    BY StepsAre
  <2>4. \A s \in Step : s.retries \in Nat
    BY DEF Step
  <2>5. DOMAIN StepsIn(r) = 1..Len(StepsIn(r)) /\ Len(StepsIn(r)) \in Nat
    BY StepsAre
  <2>6. pc[r] \in {"calling", "looping"} => step[r] \in DOMAIN StepsIn(r)
    BY DEF RunInv, RunOf, ProgressOf, PlaceOf
  <2>7. QED
    BY <2>1, <2>2, <2>3, <2>4, <2>5, <2>6
\* The task moves between two calls.
<1>2. ASSUME NEW r \in Runs, NEW from, NEW p, NEW i, UNCHANGED <<agents, fan>>,
             pc[r] = from, from # "fanning", p \notin {"calling", "fanning"},
             pc' = [pc EXCEPT ![r] = p], step' = [step EXCEPT ![r] = i],
             attempt' = [attempt EXCEPT ![r] = 0]
      PROVE  CallInv'
  <2>1. fan[r] = <<>> /\ fan' = [fan EXCEPT ![r] = fan[r]]
    BY <1>1, <1>2 DEF CallOf
  <2>2. CallOf(StepsIn(r), p, i, 0, fan[r])
    BY <1>2, <2>1 DEF CallOf
  <2>3. QED
    BY <1>1, <1>2, <2>1, <2>2, OneRunsCall, Zenon
\* The task moves within a step.
<1>3. ASSUME NEW r \in Runs, NEW p, NEW f, UNCHANGED <<agents, step, attempt>>,
             pc[r] # "calling", pc' = [pc EXCEPT ![r] = p], fan' = [fan EXCEPT ![r] = f],
             p # "fanning" => f = <<>>,
             p = "calling" => step[r] \in DOMAIN StepsIn(r)
      PROVE  CallInv'
  <2>1. attempt[r] = 0 /\ attempt' = [attempt EXCEPT ![r] = 0] /\ step' = [step EXCEPT ![r] = step[r]]
    BY <1>1, <1>3 DEF CallOf
  <2>2. p = "calling" => StepsIn(r)[step[r]].retries \in Nat
    BY <1>1, <1>3
  <2>3. CallOf(StepsIn(r), p, step[r], 0, f)
    BY <1>3, <2>2 DEF CallOf
  <2>4. /\ 0 \in Nat /\ UNCHANGED agents
        /\ pc' = [pc EXCEPT ![r] = p] /\ fan' = [fan EXCEPT ![r] = f]
    BY <1>3
  <2>5. QED
    BY <2>1, <2>3, <2>4, OneRunsCall, Zenon
<1>4. ASSUME NEW r \in Runs, NEW from, NEW answer, Leave(r, from, answer), UNCHANGED agents
      PROVE  CallInv'
  <2>1. /\ pc' = [pc EXCEPT ![r] = "returned"] /\ step' = [step EXCEPT ![r] = 1]
        /\ attempt' = [attempt EXCEPT ![r] = 0] /\ fan' = [fan EXCEPT ![r] = <<>>]
    BY <1>4 DEF Leave, At, GoTo
  <2>2. CallOf(StepsIn(r), "returned", 1, 0, <<>>)
    BY DEF CallOf
  <2>3. QED
    BY <1>1, <1>4, <2>1, <2>2, OneRunsCall, Zenon
<1>5. ASSUME NEW r \in Runs, Create(r) PROVE CallInv'
  <2>1. /\ pc' = [pc EXCEPT ![r] = "created"] /\ UNCHANGED <<agents, step, attempt, fan>>
        /\ pc[r] = "none"
    BY <1>5 DEF Create, LifeInv, LifeOf, PCs, Executing
  <2>2. fan[r] = <<>> /\ fan' = [fan EXCEPT ![r] = <<>>]
    BY <1>1, <2>1 DEF CallOf
  <2>3. QED
    BY <1>3, <2>1, <2>2
<1>6. ASSUME NEW r \in Runs, Drop(r) PROVE CallInv'
  BY <1>4, <1>6 DEF Drop
<1>7. ASSUME NEW a \in Agents, KillAgent(a) PROVE CallInv'
  <2>1. agents' \subseteq Agents /\ UNCHANGED <<pc, step, attempt, fan>>
    BY <1>7 DEF KillAgent, CallInv
  <2>2. \A q \in Runs : StepsIn(q)' = StepsIn(q)
    BY DEF StepsIn
  <2>3. QED
    BY <2>1, <2>2 DEF CallInv
<1>8. ASSUME UNCHANGED vars PROVE CallInv'
  <2>1. \A q \in Runs : StepsIn(q)' = StepsIn(q)
    BY DEF StepsIn
  <2>2. QED
    BY <1>8, <2>1 DEF CallInv, vars
<1>9. ASSUME NEW r \in Runs, Execute(r) PROVE CallInv'
  <2>1. CASE Begin(r) \/ Resolve(r) \/ (LoopTest(r) /\ UNCHANGED step)
    <3>1. PICK p \in {"ready", "looping", "calling"} :
             /\ pc' = [pc EXCEPT ![r] = p] /\ UNCHANGED <<agents, fan>>
             /\ pc[r] \notin {"calling", "fanning"}
             /\ p = "calling" => step[r] <= Len(StepsIn(r)) /\ pc[r] \in {"ready", "looping"}
             /\ UNCHANGED <<step, attempt>>
      <4>1. CASE Begin(r)
        BY <4>1 DEF Begin, At, Stay
      <4>2. CASE Resolve(r)
        BY <4>2 DEF Resolve, Wants, Ahead, At, Stay
      <4>3. CASE LoopTest(r) /\ UNCHANGED step
        <5>1. pc[r] = "looping" => step[r] \in Nat /\ step[r] <= Len(StepsIn(r))
          BY <1>1, StepsAre DEF DataInv
        <5>2. step' # [step EXCEPT ![r] = step[r] + 1]
          BY <4>3, <5>1 DEF LoopTest, At, DataInv
        <5>3. QED
          BY <4>3, <5>1, <5>2 DEF LoopTest, At, Stay, GoTo
      <4>4. QED
        BY <2>1, <4>1, <4>2, <4>3
    <3>2. fan[r] = <<>> /\ fan' = [fan EXCEPT ![r] = <<>>]
      BY <1>1, <3>1 DEF CallOf
    <3>3. p = "calling" => step[r] \in DOMAIN StepsIn(r)
      BY <1>1, <3>1
    <3>4. QED
      BY <1>3, <3>1, <3>2, <3>3
  <2>2. CASE Finish(r) \/ AgentMissing(r)
    BY <1>4, <2>2 DEF Finish, AgentMissing
  <2>3. CASE SkipConditional(r) \/ Collect(r) \/ (LoopTest(r) /\ ~ UNCHANGED step)
    <3>1. /\ pc[r] \in {"ready", "looping"} /\ pc' = [pc EXCEPT ![r] = "ready"]
          /\ UNCHANGED <<agents, fan>> /\ step' = [step EXCEPT ![r] = step[r] + 1]
          /\ attempt' = [attempt EXCEPT ![r] = 0]
      BY <1>1, <2>3 DEF SkipConditional, Collect, LoopTest, Ahead, At, Stay, GoTo
    <3>2. QED
      BY <1>2, <3>1
  <2>4. ASSUME NEW o \in Outputs, CallSucceeds(r, o) PROVE CallInv'
    <3>1. PICK p \in {"ready", "looping"}, i \in {step[r], step[r] + 1} :
             /\ pc[r] = "calling" /\ pc' = [pc EXCEPT ![r] = p]
             /\ UNCHANGED <<agents, fan>> /\ step' = [step EXCEPT ![r] = i]
             /\ attempt' = [attempt EXCEPT ![r] = 0]
      BY <1>1, <2>4 DEF CallSucceeds, At, GoTo
    <3>2. QED
      BY <1>2, <3>1
  <2>5. CASE CallFails(r)
    <3>1. CASE SkipStep(r)
      <4>1. /\ pc[r] = "calling" /\ pc' = [pc EXCEPT ![r] = "ready"]
            /\ UNCHANGED <<agents, fan>> /\ step' = [step EXCEPT ![r] = step[r] + 1]
            /\ attempt' = [attempt EXCEPT ![r] = 0]
        BY <3>1 DEF SkipStep, At, GoTo
      <4>2. QED
        BY <1>2, <4>1
    <3>2. CASE attempt[r] < CurrentStep(r).retries /\ Retry(r)
      <4>1. /\ pc[r] = "calling" /\ UNCHANGED <<agents, pc, step, fan>>
            /\ attempt' = [attempt EXCEPT ![r] = attempt[r] + 1]
            /\ attempt[r] < StepsIn(r)[step[r]].retries
        BY <3>2 DEF Retry, CurrentStep
      <4>2. StepsIn(r)[step[r]].retries \in Nat
        BY <1>1, <4>1
      <4>3. CallOf(StepsIn(r), "calling", step[r], attempt[r] + 1, fan[r]) /\ attempt[r] + 1 \in Nat
        BY <1>1, <4>1, <4>2 DEF CallOf
      <4>4. /\ pc' = [pc EXCEPT ![r] = "calling"] /\ step' = [step EXCEPT ![r] = step[r]]
            /\ fan' = [fan EXCEPT ![r] = fan[r]] /\ UNCHANGED agents
            /\ attempt' = [attempt EXCEPT ![r] = attempt[r] + 1]
        BY <1>1, <4>1
      <4>5. QED
        BY <4>3, <4>4, OneRunsCall, Zenon
    <3>3. CASE GiveUp(r)
      BY <1>4, <3>3 DEF GiveUp, Fail
    <3>4. QED
      BY <2>5, <3>1, <3>2, <3>3 DEF CallFails
  <2>6. CASE FanOut(r)
    <3>1. /\ pc[r] = "ready" /\ pc' = [pc EXCEPT ![r] = "fanning"]
          /\ fan' = [fan EXCEPT ![r] = [k \in Group(r) |-> "waiting"]]
          /\ UNCHANGED <<agents, step, attempt>>
      BY <2>6 DEF FanOut, Ahead, At, Stay
    <3> DEFINE f == [k \in Group(r) |-> "waiting"]
    <3> HIDE DEF f
    <3>2. fan' = [fan EXCEPT ![r] = f]
      BY <3>1 DEF f
    <3>3. QED
      BY <1>3, <3>1, <3>2
  <2>7. ASSUME NEW k \in DOMAIN fan[r], NEW x \in Outputs \cup {"failed"}, FanEnds(r, k, x)
        PROVE  CallInv'
    <3>1. /\ pc[r] = "fanning" /\ UNCHANGED <<agents, pc, step, attempt>>
          /\ fan' = [fan EXCEPT ![r][k] = x]
      BY <2>7 DEF FanEnds
    <3> DEFINE f == [fan[r] EXCEPT ![k] = x]
    <3>2. fan' = [fan EXCEPT ![r] = f] /\ pc' = [pc EXCEPT ![r] = "fanning"]
      BY <1>1, <3>1
    <3> HIDE DEF f
    <3>3. QED
      BY <1>3, <3>1, <3>2
  <2>8. CASE Join(r)
    <3>1. CASE Fail(r, "fanning")
      <4>1. UNCHANGED agents
        BY <2>8 DEF Join
      <4>2. QED
        BY <1>4, <3>1, <4>1 DEF Fail
    <3>2. CASE ~ Fail(r, "fanning")
      <4> DEFINE i == step[r] + Cardinality(DOMAIN fan[r])
      <4>1. /\ pc' = [pc EXCEPT ![r] = "ready"] /\ fan' = [fan EXCEPT ![r] = <<>>]
            /\ step' = [step EXCEPT ![r] = i] /\ attempt' = [attempt EXCEPT ![r] = 0]
            /\ UNCHANGED agents
        BY <2>8, <3>2 DEF Join, At, GoTo
      <4> HIDE DEF i
      <4>2. CallOf(StepsIn(r), "ready", i, 0, <<>>)
        BY DEF CallOf
      <4>3. QED
        BY <1>1, <4>1, <4>2, OneRunsCall, Zenon
    <3>3. QED
      BY <3>1, <3>2
  <2>9. QED
    BY <1>9, <2>1, <2>2, <2>3, <2>4, <2>5, <2>6, <2>7, <2>8 DEF Execute
<1>10. QED
  BY <1>5, <1>6, <1>7, <1>8, <1>9 DEF Next

LEMMA CallInvariant == Spec => []CallInv
<1>1. Init => CallInv
  BY DEF Init, CallInv, CallOf
<1>2. QED
  BY <1>1, CallStep, LifeInvariant, DataInvariant, PTL DEF Spec

(* The state of runs and of the tasks that execute them has its type: a task  *)
(* calls no agent beyond the last step, more often than the step may retry   *)
(* or in more rounds than it has, and awaits no more calls than its group    *)
(* has steps (execute_run, execute_step_with_error_mode).                    *)
THEOREM WorkflowTypeCorrect == Spec => []TypeOK
<1>1. LifeInv /\ BornInv /\ DataInv /\ RunInv /\ CallInv => TypeOK
  <2> SUFFICES ASSUME LifeInv, BornInv, DataInv, RunInv, CallInv PROVE TypeOK
    OBVIOUS
  <2>1. ASSUME NEW r \in Runs
        PROVE  /\ pc[r] \in {"calling", "looping", "fanning"} => step[r] <= Len(StepsIn(r))
               /\ pc[r] = "calling" => attempt[r] <= CurrentStep(r).retries
               /\ pc[r] \in {"calling", "looping"} => round[r] <= CurrentStep(r).rounds
               /\ DOMAIN fan[r] \subseteq 1..Len(StepsIn(r))
               /\ \A k \in DOMAIN fan[r] : fan[r][k] \in Outputs \cup {"waiting", "failed"}
    <3>1. PlaceOf(StepsIn(r), pc[r], step[r], round[r], results[r])
      BY DEF RunInv, RunOf, ProgressOf
    <3>2. /\ step[r] \in Nat \ {0} /\ round[r] \in Nat
          /\ FanOf(StepsIn(r), pc[r], step[r], fan[r])
      BY DEF DataInv
    <3>3. CallOf(StepsIn(r), pc[r], step[r], attempt[r], fan[r])
      BY DEF CallInv
    <3>4. /\ Len(StepsIn(r)) \in Nat /\ DOMAIN StepsIn(r) = 1..Len(StepsIn(r))
          /\ \A k \in DOMAIN StepsIn(r) : StepsIn(r)[k].rounds \in Nat
      BY StepsAre
    <3>5. pc[r] \in {"calling", "looping", "fanning"} =>
             step[r] \in DOMAIN StepsIn(r) /\ step[r] <= Len(StepsIn(r))
      BY <3>1, <3>4 DEF PlaceOf
    <3>6. pc[r] = "calling" => attempt[r] <= CurrentStep(r).retries
      BY <3>3 DEF CallOf, CurrentStep
    <3>7. pc[r] \in {"calling", "looping"} => round[r] <= CurrentStep(r).rounds
      <4>1. CASE StepsIn(r)[step[r]].mode = "loop"
        BY <3>1, <4>1 DEF PlaceOf, CurrentStep
      <4>2. CASE StepsIn(r)[step[r]].mode # "loop"
        BY <3>1, <3>2, <3>4, <3>5, <4>2 DEF PlaceOf, CurrentStep
      <4>3. QED
        BY <4>1, <4>2
    <3>8. /\ DOMAIN fan[r] \subseteq 1..Len(StepsIn(r))
          /\ \A k \in DOMAIN fan[r] : fan[r][k] \in Outputs \cup {"waiting", "failed"}
      <4>1. CASE pc[r] = "fanning"
        <5>1. fan[r] \in [GroupOf(StepsIn(r), step[r]) -> Outputs \cup {"waiting", "failed"}]
          BY <3>2, <4>1 DEF FanOf
        <5>2. GroupOf(StepsIn(r), step[r]) \subseteq 1..Len(StepsIn(r))
          BY <3>2, <3>4 DEF GroupOf
        <5>3. QED
          BY <5>1, <5>2
      <4>2. CASE pc[r] # "fanning"
        BY <3>3, <4>2 DEF CallOf
      <4>3. QED
        BY <4>1, <4>2
    <3>9. QED
      BY <3>5, <3>6, <3>7, <3>8
  <2>2. QED
    BY <2>1 DEF TypeOK, LifeInv, BornInv, DataInv, CallInv, States, PCs, Replies, Executing
<1>2. Spec => []BornInv
  BY BornInit, BornStep, PTL DEF Spec
<1>3. QED
  BY <1>1, <1>2, LifeInvariant, DataInvariant, CallInvariant, PTL

=============================================================================
