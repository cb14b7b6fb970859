-------------------------- MODULE Dispatch_proofs ---------------------------
(* Proofs about Dispatch: its type, the permits of the background loops and  *)
(* the bound on what turns under way at one time cost beyond a quota.        *)
EXTENDS Dispatch, FiniteSetTheorems, SequenceTheorems, TLAPS

-----------------------------------------------------------------------------
(* The queue *)

LEMMA WithoutProperties ==
    ASSUME NEW S, NEW q \in Seq(S), NEW a
    PROVE  /\ Without(q, a) \in Seq(S)
           /\ (\A i \in 1 .. Len(q) : q[i] # a) => Without(q, a) = q
           /\ (\E i \in 1 .. Len(q) : q[i] = a) =>
                 \E p \in 1 .. Len(q) :
                     /\ q[p] = a
                     /\ Len(Without(q, a)) = Len(q) - 1
                     /\ \A i \in 1 .. Len(q) - 1 :
                           Without(q, a)[i] = IF i < p THEN q[i] ELSE q[i + 1]
<1> DEFINE places == {i \in 1 .. Len(q) : q[i] = a}
           p == CHOOSE i \in places : TRUE
           left == SubSeq(q, 1, p - 1)
           right == SubSeq(q, p + 1, Len(q))
<1>1. Len(q) \in Nat
  BY LenProperties
<1>2. CASE places = {}
  BY <1>2 DEF Without
<1>3. CASE places # {}
  <2>1. p \in 1 .. Len(q) /\ q[p] = a
    BY <1>3
  <2>2. Without(q, a) = left \o right
    BY <1>3 DEF Without
  <2> HIDE DEF p
  <2>3. left \in Seq(S) /\ Len(left) = p - 1 /\ \A i \in 1 .. p - 1 : left[i] = q[i]
    BY <1>1, <2>1, SubSeqProperties
  <2>4. /\ right \in Seq(S) /\ Len(right) = Len(q) - p
        /\ \A i \in 1 .. Len(q) - p : right[i] = q[p + i]
    BY <1>1, <2>1, SubSeqProperties
  <2> HIDE DEF left, right
  <2>5. /\ left \o right \in Seq(S) /\ Len(left \o right) = Len(q) - 1
        /\ \A i \in 1 .. Len(q) - 1 :
              (left \o right)[i] = IF i <= p - 1 THEN left[i] ELSE right[i - (p - 1)]
    <3>1. /\ left \o right \in Seq(S) /\ Len(left \o right) = Len(left) + Len(right)
          /\ \A i \in 1 .. Len(left) + Len(right) :
                (left \o right)[i] = IF i <= Len(left) THEN left[i] ELSE right[i - Len(left)]
      BY <2>3, <2>4, ConcatProperties, Zenon
    <3>2. Len(left) = p - 1 /\ Len(left) + Len(right) = Len(q) - 1
      BY <1>1, <2>1, <2>3, <2>4
    <3>3. QED
      BY <3>1, <3>2, Zenon
  <2> DEFINE both == left \o right
  <2>6. ASSUME NEW i \in 1 .. Len(q) - 1
        PROVE  both[i] = IF i < p THEN q[i] ELSE q[i + 1]
    <3>1. both[i] = IF i <= p - 1 THEN left[i] ELSE right[i - (p - 1)]
      BY <2>5, Zenon
    <3> HIDE DEF both
    <3>2. CASE i < p
      <4>1. i \in 1 .. p - 1
        BY <1>1, <2>1, <3>2
      <4>2. QED
        BY <2>1, <2>3, <3>1, <3>2, <4>1
    <3>3. CASE ~ (i < p)
      <4> DEFINE j == i - (p - 1)
      <4>1. j \in 1 .. Len(q) - p /\ p + j = i + 1 /\ ~ (i <= p - 1)
        BY <1>1, <2>1, <3>3
      <4> HIDE DEF j
      <4>2. right[j] = q[p + j]
        BY <2>4, <4>1, Zenon
      <4>3. both[i] = right[j]
        BY <3>1, <4>1, Zenon DEF j
      <4>4. QED
        BY <3>3, <4>1, <4>2, <4>3, Zenon
    <3>4. QED
      BY <3>2, <3>3, Zenon
  <2>7. QED
    BY <2>1, <2>2, <2>5, <2>6
<1>4. QED
  BY <1>2, <1>3

(* A loop that waits for a permit is in the queue once, and its tick knows.  *)
QueueInv ==
    /\ \A i \in 1 .. Len(queue) : tick[queue[i]] = "queued"
    /\ \A i, j \in 1 .. Len(queue) : queue[i] = queue[j] => i = j

\* Who waits for a permit goes on waiting, in one place, until it has the permit
\* or is aborted (background.rs:92).
LEMMA QueueStep ==
    ASSUME TypeOK, QueueInv, [Next]_vars
    PROVE  QueueInv'
<1> USE DEF TypeOK, QueueInv
<1>1. Len(queue) \in Nat
  BY LenProperties
<1>2. ASSUME NEW a \in Agents, Wake(a) PROVE QueueInv'
  <2>1. queue' = Append(queue, a) /\ tick' = [tick EXCEPT ![a] = "queued"] /\ tick[a] = "idle"
    BY <1>2 DEF Wake
  <2>2. /\ Len(queue') = Len(queue) + 1
        /\ \A i \in 1 .. Len(queue) : queue'[i] = queue[i]
        /\ queue'[Len(queue) + 1] = a
    BY <2>1, AppendProperties
  <2>3. \A i \in 1 .. Len(queue) : queue[i] \in Agents
    BY ElementOfSeq
  <2>4. QED
    BY <1>1, <2>1, <2>2, <2>3
<1>3. CASE Acquire
  <2> DEFINE h == Head(queue)
  <2>1. queue' = Tail(queue) /\ queue # <<>> /\ tick' = [tick EXCEPT ![h] = "sent"]
    BY <1>3 DEF Acquire
  <2>2. /\ Len(queue') = Len(queue) - 1
        /\ \A i \in 1 .. Len(queue') : queue'[i] = queue[i + 1]
    BY <2>1, HeadTailProperties
  <2>3. h = queue[1] /\ Len(queue) > 0
    BY <2>1, <1>1, EmptySeq
  <2>4. \A i \in 1 .. Len(queue) : queue[i] \in Agents
    BY ElementOfSeq
  <2> HIDE DEF h
  <2>5. QED
    BY <1>1, <2>1, <2>2, <2>3, <2>4
<1>4. ASSUME NEW a \in Agents, KillClean(a) PROVE QueueInv'
  <2>1. /\ queue' = Without(queue, a)
        /\ tick' = [tick EXCEPT ![a] = IF @ = "queued" THEN "idle" ELSE @]
    BY <1>4 DEF KillClean
  <2>2. \A i \in 1 .. Len(queue) : queue[i] \in Agents
    BY ElementOfSeq
  <2>3. CASE \A i \in 1 .. Len(queue) : queue[i] # a
    <3>1. queue' = queue
      BY <2>1, <2>3, WithoutProperties, queue \in Seq(Agents)
    <3>2. QED
      BY <2>1, <2>2, <2>3, <3>1
  <2>4. CASE \E i \in 1 .. Len(queue) : queue[i] = a
    <3>1. PICK p \in 1 .. Len(queue) :
             /\ queue[p] = a
             /\ Len(queue') = Len(queue) - 1
             /\ \A i \in 1 .. Len(queue) - 1 : queue'[i] = IF i < p THEN queue[i] ELSE queue[i + 1]
      BY <2>1, <2>4, WithoutProperties, queue \in Seq(Agents)
    <3>2. ASSUME NEW i \in 1 .. Len(queue') PROVE queue'[i] # a /\ tick'[queue'[i]] = "queued"
      BY <1>1, <2>1, <2>2, <3>1
    <3>3. ASSUME NEW i \in 1 .. Len(queue'), NEW j \in 1 .. Len(queue'), queue'[i] = queue'[j]
          PROVE  i = j
      BY <1>1, <3>1, <3>3
    <3>4. QED
      BY <3>2, <3>3
  <2>5. QED
    BY <2>3, <2>4
<1>5. ASSUME NEW a \in Agents,
             tick[a] # "queued", UNCHANGED queue,
             \E t \in {"running", "released", "idle"} : tick' = [tick EXCEPT ![a] = t]
      PROVE  QueueInv'
  BY <1>5, ElementOfSeq
<1>6. ASSUME UNCHANGED <<queue, tick>> PROVE QueueInv'
  BY <1>6
<1>7. ASSUME NEW a \in Agents, AgentStep(a) PROVE QueueInv'
  BY <1>2, <1>4, <1>5, <1>6, <1>7
     DEF AgentStep, Send, TurnEnds, StreamEnds, TimePasses, TickBegins, TickRefused, TickEnds,
         ClearBusy, LoopEnds, Spawn, KillRemove, loopVars
<1>8. QED
  BY <1>3, <1>6, <1>7 DEF Next, Shutdown, vars, loopVars

-----------------------------------------------------------------------------
(* The permits *)

Holders == {a \in Agents : tick[a] \in {"sent", "running"}}

LEMMA HoldersFinite == IsFiniteSet(Holders) /\ Cardinality(Holders) \in Nat
BY SetsAssumption, FS_Subset, FS_CardinalityType DEF Holders

LEMMA HoldersFinitePrimed == IsFiniteSet(Holders') /\ Cardinality(Holders') \in Nat
<1>1. Holders' \in SUBSET Agents
  BY DEF Holders
<1>2. QED
  BY <1>1, SetsAssumption, FS_Subset, FS_CardinalityType

\* The permit that a tick takes from the semaphore is the one its watcher gives
\* back, whoever is refused, aborted or killed meanwhile (background.rs:117).
LEMMA PermitStep ==
    ASSUME TypeOK, QueueInv, PermitsConserved, [Next]_vars
    PROVE  PermitsConserved'
<1> USE DEF TypeOK
<1>1. permits + Cardinality(Holders) = Permits
  BY DEF PermitsConserved, Holders
<1>2. SUFFICES permits' + Cardinality(Holders') = Permits
  BY DEF PermitsConserved, Holders
<1>3. CASE Acquire
  <2> DEFINE h == Head(queue)
  <2>1. permits' = permits - 1 /\ tick' = [tick EXCEPT ![h] = "sent"] /\ queue # <<>>
    BY <1>3 DEF Acquire
  <2>2. Len(queue) \in Nat \ {0} /\ h = queue[1]
    BY <2>1, EmptySeq
  <2>3. h \in Agents /\ tick[h] = "queued"
    BY <2>2, ElementOfSeq DEF QueueInv
  <2> HIDE DEF h
  <2>4. Holders' = Holders \cup {h} /\ h \notin Holders
    BY <2>1, <2>3 DEF Holders
  <2>5. Cardinality(Holders \cup {h}) = Cardinality(Holders) + 1
    BY <2>4, HoldersFinite, FS_AddElement
  <2>6. QED
    BY <1>1, <2>1, <2>4, <2>5, HoldersFinite
<1>4. ASSUME NEW a \in Agents, TickRefused(a) \/ TickEnds(a)
      PROVE  permits' + Cardinality(Holders') = Permits
  <2>1. /\ tick[a] \in {"sent", "running"} /\ tick' = [tick EXCEPT ![a] = "released"]
        /\ permits' = permits + 1
    BY <1>4 DEF TickRefused, TickEnds
  <2>2. Holders' = Holders \ {a} /\ a \in Holders
    BY <2>1 DEF Holders
  <2>3. Cardinality(Holders \ {a}) = Cardinality(Holders) - 1
    BY <2>2, HoldersFinite, FS_RemoveElement
  <2>4. QED
    BY <1>1, <2>1, <2>2, <2>3, HoldersFinite
<1>5. ASSUME NEW a \in Agents,
             Wake(a) \/ TickBegins(a) \/ ClearBusy(a) \/ KillClean(a)
      PROVE  permits' + Cardinality(Holders') = Permits
  <2>1. permits' = permits
    BY <1>5 DEF Wake, TickBegins, ClearBusy, KillClean
  <2>2. ASSUME NEW b \in Agents
        PROVE  tick'[b] \in {"sent", "running"} <=> tick[b] \in {"sent", "running"}
    BY <1>5 DEF Wake, TickBegins, ClearBusy, KillClean
  <2>3. Holders' = Holders
    BY <2>2 DEF Holders
  <2>4. QED
    BY <1>1, <2>1, <2>3
<1>6. ASSUME UNCHANGED <<permits, tick>>
      PROVE  permits' + Cardinality(Holders') = Permits
  BY <1>1, <1>6 DEF Holders
<1>7. ASSUME NEW a \in Agents, AgentStep(a)
      PROVE  permits' + Cardinality(Holders') = Permits
  BY <1>4, <1>5, <1>6, <1>7
     DEF AgentStep, Send, TurnEnds, StreamEnds, TimePasses, LoopEnds, Spawn, KillRemove, loopVars
<1>8. QED
  BY <1>3, <1>6, <1>7 DEF Next, Shutdown, vars, loopVars

-----------------------------------------------------------------------------
(* The type.  That no more permits are free than there are follows from      *)
(* their conservation.                                                       *)

\* What admitting, refusing and charging a turn leave of the quotas.
LEMMA QuotaTypes ==
    ASSUME TypeOK, NEW a \in Agents,
           \/ \E streaming \in BOOLEAN : Admit(a, streaming) \/ Record(a, streaming)
           \/ Refused(a)
    PROVE  /\ quota' = quota /\ expired' \subseteq Agents
           /\ usage' \in Counts /\ spent' \in Counts /\ peak' \in Counts
<1> USE DEF TypeOK, Counts
<1>1. ASSUME NEW streaming \in BOOLEAN, Admit(a, streaming)
      PROVE  /\ quota' = quota /\ expired' \subseteq Agents
             /\ usage' \in Counts /\ spent' \in Counts /\ peak' \in Counts
  <2>1. InFlight(a) \in Nat
    BY DEF InFlight
  <2>2. QED
    BY <1>1, <2>1 DEF Admit, Usage
<1>2. ASSUME NEW streaming \in BOOLEAN, Record(a, streaming)
      PROVE  /\ quota' = quota /\ expired' \subseteq Agents
             /\ usage' \in Counts /\ spent' \in Counts /\ peak' \in Counts
  <2>1. PICK cost \in 0 .. MaxCost[a], failed \in BOOLEAN :
           /\ usage' = [usage EXCEPT ![a] = IF failed \/ a \notin quota THEN @ ELSE Usage(a) + cost]
           /\ expired' = IF failed \/ a \notin quota THEN expired ELSE expired \ {a}
           /\ spent' = [spent EXCEPT ![a] = IF failed \/ streaming THEN @ ELSE @ + cost]
           /\ UNCHANGED <<quota, peak>>
    BY <1>2 DEF Record
  <2>2. cost \in Nat /\ Usage(a) \in Nat
    BY <2>1, NumbersAssumption DEF Usage
  <2>3. QED
    BY <2>1, <2>2
<1>3. ASSUME Refused(a)
      PROVE  /\ quota' = quota /\ expired' \subseteq Agents
             /\ usage' \in Counts /\ spent' \in Counts /\ peak' \in Counts
  BY <1>3 DEF Refused, quotaVars
<1>4. QED
  BY <1>1, <1>2, <1>3

LEMMA CountsClosed ==
    ASSUME NEW f \in Counts, NEW a \in Agents
    PROVE  /\ [f EXCEPT ![a] = @ + 1] \in Counts
           /\ f[a] > 0 => [f EXCEPT ![a] = @ - 1] \in Counts
BY DEF Counts

\* Every step keeps the state of loops, turns and quotas in its type.
LEMMA TypeStep ==
    ASSUME TypeOK, PermitsConserved', [Next]_vars
    PROVE  TypeOK'
<1> USE DEF TypeOK
<1>1. permits' \in Int => permits' <= Permits
  BY HoldersFinitePrimed, NumbersAssumption DEF PermitsConserved, Holders
<1>2. ASSUME NEW a \in Agents, Send(a) PROVE TypeOK'
  <2>1. users' \in Counts /\ turns' \in Counts /\ streams' \in Counts
    <3>1. users' = [users EXCEPT ![a] = @ + 1]
      BY <1>2 DEF Send
    <3>2. \/ turns' = [turns EXCEPT ![a] = @ + 1] /\ streams' = streams
          \/ streams' = [streams EXCEPT ![a] = @ + 1] /\ turns' = turns
      BY <1>2 DEF Send
    <3>3. QED
      BY <3>1, <3>2, CountsClosed
  <2>2. QED
    BY <1>2, <2>1, QuotaTypes DEF Send, agentVars, loopVars
<1>3. ASSUME NEW a \in Agents, TurnEnds(a) \/ StreamEnds(a) PROVE TypeOK'
  <2>1. users' \in Counts /\ turns' \in Counts /\ streams' \in Counts
    <3>1. \/ /\ turns[a] > 0 /\ turns' = [turns EXCEPT ![a] = @ - 1]
             /\ streams' = streams /\ users' = users
          \/ /\ streams[a] > 0 /\ streams' = [streams EXCEPT ![a] = @ - 1]
             /\ turns' = turns /\ users' = users
      BY <1>3 DEF TurnEnds, StreamEnds
    <3>2. QED
      BY <3>1, CountsClosed
  <2>2. QED
    BY <1>3, <2>1, QuotaTypes DEF TurnEnds, StreamEnds, agentVars, loopVars
<1>4. ASSUME NEW a \in Agents, TimePasses(a) PROVE TypeOK'
  <2>1. expired' \subseteq Agents /\ spent' \in Counts
    <3>1. CASE expired' = expired \cup {a} /\ UNCHANGED spent
      BY <3>1
    <3>2. CASE UNCHANGED expired /\ \E n \in 0 .. spent[a] - 1 : spent' = [spent EXCEPT ![a] = n]
      BY <3>2 DEF Counts
    <3>3. QED
      BY <1>4, <3>1, <3>2 DEF TimePasses
  <2>2. QED
    BY <1>4, <2>1 DEF TimePasses, agentVars, loopVars, turnVars
<1>5. ASSUME NEW a \in Agents, Wake(a) PROVE TypeOK'
  BY <1>5, AppendProperties DEF Wake, agentVars, turnVars, quotaVars
<1>6. CASE Acquire
  <2>1. Head(queue) \in Agents /\ Tail(queue) \in Seq(Agents)
    BY <1>6, HeadTailProperties DEF Acquire
  <2>2. QED
    BY <1>1, <1>6, <2>1 DEF Acquire, agentVars, turnVars, quotaVars
<1>7. ASSUME NEW a \in Agents, TickBegins(a) PROVE TypeOK'
  <2>1. quota' = quota /\ expired' \subseteq Agents /\ usage' \in Counts /\ spent' \in Counts /\ peak' \in Counts
    BY <1>7, QuotaTypes DEF TickBegins
  <2>2. QED
    BY <1>7, <2>1 DEF TickBegins, agentVars, turnVars
<1>8. ASSUME NEW a \in Agents, TickRefused(a) \/ TickEnds(a) PROVE TypeOK'
  <2>1. quota' = quota /\ expired' \subseteq Agents /\ usage' \in Counts /\ spent' \in Counts /\ peak' \in Counts
    BY <1>8, QuotaTypes DEF TickRefused, TickEnds
  <2>2. tick' = [tick EXCEPT ![a] = "released"] /\ permits' = permits + 1
    BY <1>8 DEF TickRefused, TickEnds
  <2>3. tick' \in [Agents -> {"idle", "queued", "sent", "running", "released"}] /\ permits' \in 0 .. Permits
    BY <1>1, <2>2, NumbersAssumption
  <2>4. QED
    BY <1>8, <2>1, <2>3 DEF TickRefused, TickEnds, agentVars, turnVars
<1>9. ASSUME NEW a \in Agents, ClearBusy(a) \/ LoopEnds(a) PROVE TypeOK'
  BY <1>9 DEF ClearBusy, LoopEnds, agentVars, turnVars, quotaVars
<1>10. ASSUME NEW a \in Agents, Spawn(a) \/ KillRemove(a) PROVE TypeOK'
  BY <1>10 DEF Spawn, KillRemove, loopVars, turnVars, quotaVars
<1>11. ASSUME NEW a \in Agents, KillClean(a) PROVE TypeOK'
  <2>1. Without(queue, a) \in Seq(Agents)
    BY WithoutProperties
  <2>2. usage' \in Counts
    BY <1>11 DEF KillClean, Counts
  <2>3. QED
    BY <1>11, <2>1, <2>2 DEF KillClean, turnVars
<1>12. CASE Shutdown \/ UNCHANGED vars
  BY <1>12 DEF Shutdown, vars, agentVars, loopVars, turnVars, quotaVars
<1>13. QED
  BY <1>2, <1>3, <1>4, <1>5, <1>6, <1>7, <1>8, <1>9, <1>10, <1>11, <1>12 DEF Next, AgentStep

PermitInv == TypeOK /\ QueueInv /\ PermitsConserved

LEMMA PermitInit == Init => PermitInv
<1> SUFFICES ASSUME Init PROVE PermitInv
  OBVIOUS
<1>1. TypeOK
  <2>1. /\ queue \in Seq(Agents) /\ permits \in 0 .. Permits
        /\ loop \in [Agents -> {"none", "sleep", "wait", "stopped"}]
        /\ tick \in [Agents -> {"idle", "queued", "sent", "running", "released"}]
    BY NumbersAssumption, EmptySeq DEF Init
  <2>2. /\ users \in Counts /\ turns \in Counts /\ streams \in Counts
        /\ usage \in Counts /\ spent \in Counts /\ peak \in Counts
    BY DEF Init, Counts
  <2>3. QED
    BY <2>1, <2>2, SetsAssumption DEF Init, TypeOK
<1>2. QueueInv
  BY DEF Init, QueueInv
<1>3. {a \in Agents : tick[a] \in {"sent", "running"}} = {}
  BY DEF Init
<1>4. Cardinality({a \in Agents : tick[a] \in {"sent", "running"}}) = 0 /\ permits = Permits
  BY <1>3, FS_EmptySet DEF Init
<1>5. PermitsConserved
  BY <1>4, NumbersAssumption DEF PermitsConserved
<1>6. QED
  BY <1>1, <1>2, <1>5 DEF PermitInv

(* The state of Dispatch has its type (background.rs, scheduler.rs).         *)
THEOREM DispatchTypeCorrect == Spec => []TypeOK
<1>1. PermitInv /\ [Next]_vars => PermitInv'
  BY QueueStep, PermitStep, TypeStep DEF PermitInv
<1>2. PermitInv => TypeOK
  BY DEF PermitInv
<1>3. QED
  BY <1>1, <1>2, PermitInit, PTL DEF Spec

(* No permit of the background loops is lost or made up, whoever is refused, *)
(* aborted or killed while it waits or runs (background.rs:117).             *)
THEOREM PermitTheorem == Spec => []PermitsConserved
<1>1. PermitInv /\ [Next]_vars => PermitInv'
  BY QueueStep, PermitStep, TypeStep DEF PermitInv
<1>2. PermitInv => PermitsConserved
  BY DEF PermitInv
<1>3. QED
  BY <1>1, <1>2, PermitInit, PTL DEF Spec

-----------------------------------------------------------------------------
(* The quotas.  The bound is not inductive: what turns that are under way    *)
(* may still cost has to fit under it.                                       *)

\* The turns that the metering engine will charge for.
Charged(a) == turns[a] + (IF tick[a] = "running" THEN 1 ELSE 0)

\* An agent has room for what is under way: a quota is exceeded by no more
\* than the turns that have ended since the peak.
Budget(a) ==
    /\ InFlight(a) <= peak[a]
    /\ TokenQuota[a] > 0 => usage[a] <= TokenQuota[a] + MaxCost[a] * (peak[a] - InFlight(a))
    /\ CostQuota[a] > 0 => spent[a] <= CostQuota[a] + MaxCost[a] * (peak[a] - Charged(a))

BudgetInv == alive \subseteq quota /\ \A a \in Agents : Budget(a)

LEMMA Products ==
    ASSUME NEW m \in Nat, NEW i \in Nat, NEW k \in Nat
    PROVE  m * i \in Nat /\ m * (i + 1) = m * i + m /\ (i <= k => m * i <= m * k)
<1>1. m * i \in Nat /\ m * (i + 1) = m * i + m
  OBVIOUS
<1>2. ASSUME i <= k PROVE m * i <= m * k
  <2>1. PICK d \in Nat : k = i + d
    <3>1. k - i \in Nat /\ k = i + (k - i)
      BY <1>2
    <3>2. QED
      BY <3>1
  <2>2. m * (i + d) = m * i + m * d /\ m * d \in Nat
    OBVIOUS
  <2>3. QED
    BY <1>1, <2>1, <2>2
<1>3. QED
  BY <1>1, <1>2

\* The arithmetic of a turn that begins: room is what peak leaves.
LEMMA RoomAfterAdmit ==
    ASSUME NEW m \in Nat, NEW limit \in Nat, NEW used \in Nat, NEW used2 \in Nat,
           NEW top \in Nat, NEW top2 \in Nat, NEW n \in Nat, NEW n2 \in Nat,
           n <= top, n2 <= top2, top <= top2, used2 <= used,
           used2 <= limit \/ (n2 = n /\ used <= limit + m * (top - n))
    PROVE  used2 <= limit + m * (top2 - n2)
<1>1. top - n \in Nat /\ top2 - n2 \in Nat
  OBVIOUS
<1>2. m * (top - n) \in Nat /\ m * (top2 - n2) \in Nat
  BY <1>1, Products
<1>3. CASE used2 <= limit
  BY <1>2, <1>3
<1>4. CASE n2 = n /\ used <= limit + m * (top - n)
  <2>1. m * (top - n) <= m * (top2 - n2)
    BY <1>1, <1>4, Products
  <2>2. QED
    BY <1>2, <1>4, <2>1
<1>5. QED
  BY <1>3, <1>4

\* The arithmetic of a turn that ends and is charged for.
LEMMA RoomAfterRecord ==
    ASSUME NEW m \in Nat, NEW limit \in Nat, NEW used \in Nat, NEW used2 \in Nat,
           NEW top \in Nat, NEW n \in Nat, NEW n2 \in Nat,
           n <= top, n2 <= n,
           used <= limit + m * (top - n),
           used2 <= used \/ (n2 = n - 1 /\ used2 <= used + m)
    PROVE  used2 <= limit + m * (top - n2)
<1>1. top - n \in Nat /\ top - n2 \in Nat /\ top - n <= top - n2
  OBVIOUS
<1>2. m * (top - n) \in Nat /\ m * (top - n2) \in Nat /\ m * (top - n) <= m * (top - n2)
  BY <1>1, Products
<1>3. CASE used2 <= used
  BY <1>2, <1>3
<1>4. CASE n2 = n - 1 /\ used2 <= used + m
  <2>1. top - n2 = (top - n) + 1
    BY <1>4
  <2>2. m * (top - n2) = m * (top - n) + m
    BY <1>1, <2>1, Products
  <2>3. QED
    BY <1>2, <1>4, <2>2
<1>5. QED
  BY <1>3, <1>4

LEMMA NumberTypes ==
    ASSUME TypeOK, NEW a \in Agents
    PROVE  /\ MaxCost[a] \in Nat /\ TokenQuota[a] \in Nat /\ CostQuota[a] \in Nat
           /\ peak[a] \in Nat /\ usage[a] \in Nat /\ spent[a] \in Nat /\ Usage(a) \in Nat
           /\ InFlight(a) \in Nat /\ Charged(a) \in Nat /\ Charged(a) <= InFlight(a)
BY NumbersAssumption DEF TypeOK, Counts, InFlight, Charged, Usage

LEMMA NumberTypesPrimed ==
    ASSUME TypeOK', NEW a \in Agents
    PROVE  /\ peak'[a] \in Nat /\ usage'[a] \in Nat /\ spent'[a] \in Nat
           /\ InFlight(a)' \in Nat /\ Charged(a)' \in Nat /\ Charged(a)' <= InFlight(a)'
BY DEF TypeOK, Counts, InFlight, Charged

\* A turn that is let in finds the agent within its quotas (kernel.rs:1894).
LEMMA BudgetAdmit ==
    ASSUME TypeOK, TypeOK', BudgetInv, NEW a \in Agents, NEW streaming \in BOOLEAN,
           Admit(a, streaming),
           InFlight(a)' = InFlight(a) + 1,
           streaming => Charged(a)' = Charged(a)
    PROVE  Budget(a)'
<1>1. Budget(a) /\ a \in quota
  BY DEF BudgetInv, Admit
<1>2. /\ usage'[a] = Usage(a) /\ spent'[a] = spent[a]
      /\ peak'[a] = IF peak[a] > InFlight(a) THEN peak[a] ELSE InFlight(a) + 1
  BY DEF Admit, TypeOK, Counts
<1>3. TokenQuota[a] > 0 => Usage(a) <= TokenQuota[a]
  BY <1>1 DEF Admit, WithinTokens
<1>4. CostQuota[a] > 0 => streaming \/ spent[a] <= CostQuota[a]
  BY NumberTypes DEF Admit, WithinCost
<1>5. InFlight(a)' <= peak'[a] /\ peak[a] <= peak'[a]
  BY <1>2, NumberTypes
<1>6. Charged(a) <= peak[a] /\ Charged(a)' <= peak'[a]
  BY <1>1, <1>5, NumberTypes, NumberTypesPrimed DEF Budget
<1>7. ASSUME TokenQuota[a] > 0
      PROVE  usage'[a] <= TokenQuota[a] + MaxCost[a] * (peak'[a] - InFlight(a)')
  BY <1>1, <1>2, <1>3, <1>5, <1>7, RoomAfterAdmit, NumberTypes, NumberTypesPrimed DEF Budget
<1>8. ASSUME CostQuota[a] > 0
      PROVE  spent'[a] <= CostQuota[a] + MaxCost[a] * (peak'[a] - Charged(a)')
  BY <1>1, <1>2, <1>4, <1>5, <1>6, <1>8, RoomAfterAdmit, NumberTypes, NumberTypesPrimed DEF Budget
<1>9. QED
  BY <1>5, <1>7, <1>8 DEF Budget

\* A turn that ends costs no more than the room it had (scheduler.rs:70).
LEMMA BudgetRecord ==
    ASSUME TypeOK, TypeOK', NEW a \in Agents, Budget(a), NEW streaming \in BOOLEAN,
           Record(a, streaming),
           InFlight(a)' = InFlight(a) - 1,
           Charged(a)' = IF streaming THEN Charged(a) ELSE Charged(a) - 1
    PROVE  Budget(a)'
<1>1. /\ usage'[a] <= usage[a] \/ usage'[a] <= usage[a] + MaxCost[a]
      /\ spent'[a] <= spent[a] \/ (~ streaming /\ spent'[a] <= spent[a] + MaxCost[a])
      /\ peak' = peak
  <2>1. PICK cost \in 0 .. MaxCost[a], failed \in BOOLEAN :
           /\ usage' = [usage EXCEPT ![a] = IF failed \/ a \notin quota THEN @ ELSE Usage(a) + cost]
           /\ spent' = [spent EXCEPT ![a] = IF failed \/ streaming THEN @ ELSE @ + cost]
           /\ peak' = peak
    BY DEF Record
  <2>2. /\ usage'[a] = IF failed \/ a \notin quota THEN usage[a] ELSE Usage(a) + cost
        /\ spent'[a] = IF failed \/ streaming THEN spent[a] ELSE spent[a] + cost
    BY <2>1 DEF TypeOK, Counts
  <2>3. cost \in Nat /\ cost <= MaxCost[a] /\ Usage(a) <= usage[a]
    BY <2>1, NumberTypes DEF Usage
  <2>4. QED
    BY <2>1, <2>2, <2>3, NumberTypes
<1>2. Charged(a)' <= Charged(a) /\ Charged(a) <= peak[a] /\ InFlight(a) <= peak[a]
  BY NumberTypes DEF Budget
<1>3. ASSUME TokenQuota[a] > 0
      PROVE  usage'[a] <= TokenQuota[a] + MaxCost[a] * (peak'[a] - InFlight(a)')
  BY <1>1, <1>2, <1>3, RoomAfterRecord, NumberTypes, NumberTypesPrimed DEF Budget
<1>4. ASSUME CostQuota[a] > 0
      PROVE  spent'[a] <= CostQuota[a] + MaxCost[a] * (peak'[a] - Charged(a)')
  BY <1>1, <1>2, <1>4, RoomAfterRecord, NumberTypes, NumberTypesPrimed DEF Budget
<1>5. QED
  BY <1>1, <1>2, <1>3, <1>4, NumberTypes DEF Budget

\* What costs an agent nothing leaves it in its budget.
LEMMA BudgetKept ==
    ASSUME TypeOK, TypeOK', NEW b \in Agents, Budget(b),
           turns'[b] = turns[b], streams'[b] = streams[b], peak'[b] = peak[b],
           tick'[b] = "running" <=> tick[b] = "running",
           usage'[b] <= usage[b], spent'[b] <= spent[b]
    PROVE  Budget(b)'
<1>1. InFlight(b)' = InFlight(b) /\ Charged(b)' = Charged(b)
  BY DEF InFlight, Charged
<1>2. Charged(b) <= peak[b] /\ InFlight(b) <= peak[b]
  BY NumberTypes DEF Budget
<1>3. ASSUME TokenQuota[b] > 0
      PROVE  usage'[b] <= TokenQuota[b] + MaxCost[b] * (peak'[b] - InFlight(b)')
  BY <1>1, <1>2, <1>3, RoomAfterRecord, NumberTypes, NumberTypesPrimed DEF Budget
<1>4. ASSUME CostQuota[b] > 0
      PROVE  spent'[b] <= CostQuota[b] + MaxCost[b] * (peak'[b] - Charged(b)')
  BY <1>1, <1>2, <1>4, RoomAfterRecord, NumberTypes, NumberTypesPrimed DEF Budget
<1>5. QED
  BY <1>1, <1>2, <1>3, <1>4 DEF Budget

\* A turn of one agent costs the others nothing.
LEMMA QuotaOfOthers ==
    ASSUME TypeOK, NEW a \in Agents, NEW b \in Agents, b # a,
           \E streaming \in BOOLEAN : Admit(a, streaming) \/ Record(a, streaming)
    PROVE  usage'[b] = usage[b] /\ spent'[b] = spent[b] /\ peak'[b] = peak[b]
BY DEF TypeOK, Counts, Admit, Record

\* Every step leaves each agent room for the turns that are under way.
LEMMA BudgetStep ==
    ASSUME PermitInv, TypeOK', BudgetInv, [Next]_vars
    PROVE  BudgetInv'
<1> USE DEF PermitInv
<1>1. \A b \in Agents : Budget(b)
  BY DEF BudgetInv
<1>2. ASSUME NEW b \in Agents, UNCHANGED <<turns, streams, peak, usage, spent>>,
             tick'[b] = "running" <=> tick[b] = "running"
      PROVE  Budget(b)'
  BY <1>1, <1>2, BudgetKept, NumberTypes
<1>3. ASSUME NEW a \in Agents, Send(a) PROVE \A b \in Agents : Budget(b)'
  <2>1. PICK streaming \in BOOLEAN :
           /\ Admit(a, streaming) /\ tick' = tick
           /\ turns' = IF streaming THEN turns ELSE [turns EXCEPT ![a] = @ + 1]
           /\ streams' = IF streaming THEN [streams EXCEPT ![a] = @ + 1] ELSE streams
    BY <1>3 DEF Send, loopVars
  <2>2. InFlight(a)' = InFlight(a) + 1 /\ (streaming => Charged(a)' = Charged(a))
    BY <2>1 DEF InFlight, Charged, TypeOK, Counts
  <2>3. Budget(a)'
    BY <2>1, <2>2, BudgetAdmit
  <2>4. ASSUME NEW b \in Agents, b # a PROVE Budget(b)'
    <3>1. turns'[b] = turns[b] /\ streams'[b] = streams[b]
      BY <2>1, <2>4 DEF TypeOK, Counts
    <3>2. usage'[b] = usage[b] /\ spent'[b] = spent[b] /\ peak'[b] = peak[b]
      BY <2>1, <2>4, QuotaOfOthers
    <3>3. QED
      BY <1>1, <2>1, <3>1, <3>2, BudgetKept, NumberTypes
  <2>5. QED
    BY <2>3, <2>4
<1>4. ASSUME NEW a \in Agents, TurnEnds(a) \/ StreamEnds(a) PROVE \A b \in Agents : Budget(b)'
  <2>1. PICK streaming \in BOOLEAN :
           /\ Record(a, streaming) /\ tick' = tick
           /\ turns' = IF streaming THEN turns ELSE [turns EXCEPT ![a] = @ - 1]
           /\ streams' = IF streaming THEN [streams EXCEPT ![a] = @ - 1] ELSE streams
    BY <1>4 DEF TurnEnds, StreamEnds, loopVars
  <2>2. /\ InFlight(a)' = InFlight(a) - 1
        /\ Charged(a)' = IF streaming THEN Charged(a) ELSE Charged(a) - 1
    <3>1. turns[a] \in Nat /\ streams[a] \in Nat
      BY DEF TypeOK, Counts
    <3>2. /\ turns'[a] = IF streaming THEN turns[a] ELSE turns[a] - 1
          /\ streams'[a] = IF streaming THEN streams[a] - 1 ELSE streams[a]
      BY <2>1 DEF TypeOK, Counts
    <3>3. QED
      BY <2>1, <3>1, <3>2 DEF InFlight, Charged
  <2>3. Budget(a)'
    BY <1>1, <2>1, <2>2, BudgetRecord
  <2>4. ASSUME NEW b \in Agents, b # a PROVE Budget(b)'
    <3>1. turns'[b] = turns[b] /\ streams'[b] = streams[b]
      BY <2>1, <2>4 DEF TypeOK, Counts
    <3>2. usage'[b] = usage[b] /\ spent'[b] = spent[b] /\ peak'[b] = peak[b]
      BY <2>1, <2>4, QuotaOfOthers
    <3>3. QED
      BY <1>1, <2>1, <3>1, <3>2, BudgetKept, NumberTypes
  <2>5. QED
    BY <2>3, <2>4
<1>5. ASSUME NEW a \in Agents, TickBegins(a) PROVE \A b \in Agents : Budget(b)'
  <2>1. /\ Admit(a, FALSE) /\ tick[a] = "sent" /\ tick' = [tick EXCEPT ![a] = "running"]
        /\ turns' = turns /\ streams' = streams
    BY <1>5 DEF TickBegins, turnVars
  <2>2. InFlight(a)' = InFlight(a) + 1
    BY <2>1 DEF InFlight, TypeOK, Counts
  <2>3. Budget(a)'
    BY <2>1, <2>2, BudgetAdmit
  <2>4. ASSUME NEW b \in Agents, b # a PROVE Budget(b)'
    <3>1. tick'[b] = tick[b]
      BY <2>1, <2>4 DEF TypeOK
    <3>2. usage'[b] = usage[b] /\ spent'[b] = spent[b] /\ peak'[b] = peak[b]
      BY <2>1, <2>4, QuotaOfOthers
    <3>3. QED
      BY <1>1, <2>1, <3>1, <3>2, BudgetKept, NumberTypes
  <2>5. QED
    BY <2>3, <2>4
<1>6. ASSUME NEW a \in Agents, TickEnds(a) PROVE \A b \in Agents : Budget(b)'
  <2>1. /\ Record(a, FALSE) /\ tick[a] = "running" /\ tick' = [tick EXCEPT ![a] = "released"]
        /\ turns' = turns /\ streams' = streams
    BY <1>6 DEF TickEnds, turnVars
  <2>2. InFlight(a)' = InFlight(a) - 1 /\ Charged(a)' = Charged(a) - 1
    BY <2>1 DEF InFlight, Charged, TypeOK, Counts
  <2>3. Budget(a)'
    BY <1>1, <2>1, <2>2, BudgetRecord
  <2>4. ASSUME NEW b \in Agents, b # a PROVE Budget(b)'
    <3>1. tick'[b] = tick[b]
      BY <2>1, <2>4 DEF TypeOK
    <3>2. usage'[b] = usage[b] /\ spent'[b] = spent[b] /\ peak'[b] = peak[b]
      BY <2>1, <2>4, QuotaOfOthers
    <3>3. QED
      BY <1>1, <2>1, <3>1, <3>2, BudgetKept, NumberTypes
  <2>5. QED
    BY <2>3, <2>4
<1>7. ASSUME NEW a \in Agents, TimePasses(a) PROVE \A b \in Agents : Budget(b)'
  <2> SUFFICES ASSUME NEW b \in Agents PROVE Budget(b)'
    OBVIOUS
  <2>1. UNCHANGED <<tick, turns, streams, peak, usage>>
    BY <1>7 DEF TimePasses, loopVars, turnVars
  <2>2. spent'[b] <= spent[b]
    <3>1. CASE UNCHANGED spent
      BY <3>1, NumberTypes
    <3>2. CASE \E n \in 0 .. spent[a] - 1 : spent' = [spent EXCEPT ![a] = n]
      <4>1. PICK n \in 0 .. spent[a] - 1 : spent' = [spent EXCEPT ![a] = n]
        BY <3>2
      <4>2. spent'[b] = IF b = a THEN n ELSE spent[b]
        BY <4>1 DEF TypeOK, Counts
      <4>3. spent[a] \in Nat /\ spent[b] \in Nat
        BY NumberTypes
      <4>4. QED
        BY <4>1, <4>2, <4>3
    <3>3. QED
      BY <1>7, <3>1, <3>2 DEF TimePasses
  <2>3. QED
    BY <1>1, <2>1, <2>2, BudgetKept, NumberTypes
<1>8. ASSUME NEW a \in Agents, KillClean(a) PROVE \A b \in Agents : Budget(b)'
  <2> SUFFICES ASSUME NEW b \in Agents PROVE Budget(b)'
    OBVIOUS
  <2>1. UNCHANGED <<turns, streams, peak, spent>>
    BY <1>8 DEF KillClean, turnVars
  <2>2. usage'[b] <= usage[b] /\ (tick'[b] = "running" <=> tick[b] = "running")
    <3>1. usage'[b] = IF b = a THEN 0 ELSE usage[b]
      BY <1>8 DEF KillClean, TypeOK, Counts
    <3>2. usage'[b] <= usage[b]
      BY <3>1, NumberTypes
    <3>3. tick'[b] = "running" <=> tick[b] = "running"
      BY <1>8 DEF KillClean, TypeOK
    <3>4. QED
      BY <3>2, <3>3
  <2>3. QED
    BY <1>1, <2>1, <2>2, BudgetKept, NumberTypes
<1>9. CASE Acquire
  <2>1. Len(queue) \in Nat \ {0} /\ Head(queue) = queue[1]
    BY <1>9, EmptySeq DEF Acquire, TypeOK
  <2>2. tick[Head(queue)] = "queued"
    BY <2>1 DEF QueueInv
  <2>3. ASSUME NEW b \in Agents PROVE tick'[b] = "running" <=> tick[b] = "running"
    BY <1>9, <2>2 DEF Acquire, TypeOK
  <2>4. \A b \in Agents : Budget(b)'
    BY <1>2, <1>9, <2>3 DEF Acquire, turnVars, quotaVars
  <2>5. QED
    BY <1>9, <2>4 DEF BudgetInv, Acquire, agentVars, quotaVars
<1>10. ASSUME NEW a \in Agents,
              Wake(a) \/ TickRefused(a) \/ ClearBusy(a) \/ LoopEnds(a) \/ Spawn(a) \/ KillRemove(a)
       PROVE  \A b \in Agents : Budget(b)'
  <2>1. UNCHANGED <<turns, streams, peak, usage, spent>>
    BY <1>10 DEF Wake, TickRefused, Refused, ClearBusy, LoopEnds, Spawn, KillRemove, turnVars, quotaVars
  <2>2. ASSUME NEW b \in Agents PROVE tick'[b] = "running" <=> tick[b] = "running"
    BY <1>10 DEF Wake, TickRefused, ClearBusy, LoopEnds, Spawn, KillRemove, loopVars, TypeOK
  <2>3. QED
    BY <1>2, <2>1, <2>2
<1>11. ASSUME NEW a \in Agents, AgentStep(a) PROVE alive' \subseteq quota'
  BY <1>11
     DEF BudgetInv, AgentStep, Send, TurnEnds, StreamEnds, TimePasses, Wake, TickBegins, TickRefused,
         TickEnds, ClearBusy, LoopEnds, Spawn, KillRemove, KillClean, Admit, Refused, Record,
         agentVars, quotaVars, TypeOK
<1>12. ASSUME NEW a \in Agents, AgentStep(a) PROVE BudgetInv'
  BY <1>3, <1>4, <1>5, <1>6, <1>7, <1>8, <1>10, <1>11, <1>12 DEF AgentStep, BudgetInv
<1>13. CASE Shutdown \/ UNCHANGED vars
  BY <1>2, <1>13 DEF Shutdown, vars, agentVars, loopVars, turnVars, quotaVars, BudgetInv
<1>14. QED
  BY <1>9, <1>12, <1>13 DEF Next

(* A quota is exceeded by no more than the turns of the agent that were      *)
(* under way at one time can cost, whoever sent them (kernel.rs:1894).       *)
THEOREM QuotaTheorem == Spec => []QuotaOvershootBounded
<1>1. Init => BudgetInv
  <2> SUFFICES ASSUME Init PROVE BudgetInv
    OBVIOUS
  <2>1. ASSUME NEW a \in Agents PROVE Budget(a)
    <3>1. InFlight(a) = 0 /\ Charged(a) = 0 /\ peak[a] = 0 /\ usage[a] = 0 /\ spent[a] = 0
      BY DEF Init, InFlight, Charged
    <3>2. MaxCost[a] * (peak[a] - InFlight(a)) = 0 /\ MaxCost[a] * (peak[a] - Charged(a)) = 0
      BY <3>1, NumbersAssumption DEF Counts
    <3>3. QED
      BY <3>1, <3>2, NumbersAssumption DEF Budget, Counts
  <2>2. QED
    BY <2>1 DEF BudgetInv, Init
<1>2. PermitInv /\ BudgetInv /\ [Next]_vars => PermitInv' /\ BudgetInv'
  BY QueueStep, PermitStep, TypeStep, BudgetStep DEF PermitInv
<1>3. PermitInv /\ BudgetInv => QuotaOvershootBounded
  <2> SUFFICES ASSUME PermitInv, BudgetInv, NEW a \in Agents
               PROVE  /\ TokenQuota[a] > 0 => usage[a] <= TokenQuota[a] + MaxCost[a] * peak[a]
                      /\ CostQuota[a] > 0 => spent[a] <= CostQuota[a] + MaxCost[a] * peak[a]
    BY DEF QuotaOvershootBounded
  <2>1. TypeOK /\ Budget(a)
    BY DEF PermitInv, BudgetInv
  <2>2. /\ peak[a] - InFlight(a) \in Nat /\ peak[a] - Charged(a) \in Nat
        /\ peak[a] - InFlight(a) <= peak[a] /\ peak[a] - Charged(a) <= peak[a]
    BY <2>1, NumberTypes DEF Budget
  <2>3. /\ MaxCost[a] * (peak[a] - InFlight(a)) <= MaxCost[a] * peak[a]
        /\ MaxCost[a] * (peak[a] - Charged(a)) <= MaxCost[a] * peak[a]
        /\ MaxCost[a] * (peak[a] - InFlight(a)) \in Nat /\ MaxCost[a] * (peak[a] - Charged(a)) \in Nat
        /\ MaxCost[a] * peak[a] \in Nat
    BY <2>1, <2>2, NumberTypes, Products
  <2>4. QED
    BY <2>1, <2>3, NumberTypes DEF Budget
<1>4. QED
  BY <1>1, <1>2, <1>3, PermitInit, PTL DEF Spec
=============================================================================
