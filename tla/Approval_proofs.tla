--------------------------- MODULE Approval_proofs ---------------------------
(* Theorems about Approval for every set of agents, requests and approvers  *)
(* and every value of the limits.                                           *)
EXTENDS Approval, FiniteSetTheorems, TLAPS

(* The state always has its type (ApprovalManager and its callers). *)
THEOREM TypeCorrect == Spec => []TypeOK
<1>1. Init => TypeOK
  BY AgentOfType, RestType DEF Init, TypeOK, Stages, NoSender
<1>2. TypeOK /\ [Next]_vars => TypeOK'
  <2> SUFFICES ASSUME TypeOK, [Next]_vars
               PROVE  TypeOK'
    OBVIOUS
  <2> USE DEF TypeOK, Stages, Decisions, Granting, Move, Decide
  <2>1. ASSUME NEW r \in Requests, ToolGate(r) PROVE TypeOK'
    BY <2>1 DEF ToolGate
  <2>2. ASSUME NEW r \in Requests, KernelRequest(r) PROVE TypeOK'
    BY <2>2 DEF KernelRequest
  <2>3. ASSUME NEW r \in Requests, CheckLimit(r) PROVE TypeOK'
    BY <2>3 DEF CheckLimit
  <2>4. ASSUME NEW r \in Requests, InsertPending(r) PROVE TypeOK'
    BY <2>4 DEF InsertPending
  <2>5. ASSUME NEW r \in Requests, Receive(r) PROVE TypeOK'
    BY <2>5 DEF Receive
  <2>6. ASSUME NEW r \in Requests, TimerFires(r) PROVE TypeOK'
    BY <2>6 DEF TimerFires
  <2>7. ASSUME NEW r \in Requests, RemoveExpired(r) PROVE TypeOK'
    BY <2>7 DEF RemoveExpired
  <2>8. ASSUME NEW r \in Requests, DropWaiting(r) PROVE TypeOK'
    BY <2>8 DEF DropWaiting
  <2>9. ASSUME NEW p \in Approvers, NEW r \in Requests, NEW d \in Decisions,
               ResolveRemove(p, r, d)
        PROVE  TypeOK'
    BY <2>9 DEF ResolveRemove
  <2>10. ASSUME NEW p \in Approvers, ResolveSend(p) PROVE TypeOK'
    BY <2>10 DEF ResolveSend, NoSender
  <2>11. CASE UpdatePolicy
    BY <2>11 DEF UpdatePolicy
  <2>12. ASSUME NEW a \in Agents, HandKilled(a) PROVE TypeOK'
    BY <2>12 DEF HandKilled
  <2>13. CASE UNCHANGED vars
    BY <2>13 DEF vars
  <2>14. QED
    BY <2>1, <2>2, <2>3, <2>4, <2>5, <2>6, <2>7, <2>8, <2>9, <2>10, <2>11,
       <2>12, <2>13 DEF Next
<1>3. QED
  BY <1>1, <1>2, PTL DEF Spec

-----------------------------------------------------------------------------
(* The overshoot of the per-agent limit.  The bound on the map alone is not  *)
(* inductive: what is bounded is the map together with the requests that     *)
(* have passed the count and are about to be inserted.                       *)

Claims(a) == PendingOf(a) \cup {r \in Inserting : AgentOf[r] = a}

ClaimsBounded ==
    \A a \in Agents : Cardinality(Claims(a)) <= MaxPending + Workers - 1

LEMMA ClaimsFinite ==
    ASSUME TypeOK, NEW a \in Agents
    PROVE  /\ IsFiniteSet(Claims(a)) /\ IsFiniteSet(PendingOf(a))
           /\ IsFiniteSet(Inserting)
           /\ Cardinality(Claims(a)) \in Nat
           /\ Cardinality(PendingOf(a)) \in Nat
           /\ Cardinality(Inserting) \in Nat
<1>1. /\ Claims(a) \subseteq Requests /\ PendingOf(a) \subseteq Requests
      /\ Inserting \subseteq Requests
  BY DEF TypeOK, Claims, PendingOf, Inserting
<1>2. /\ IsFiniteSet(Claims(a)) /\ IsFiniteSet(PendingOf(a))
      /\ IsFiniteSet(Inserting)
  BY <1>1, RequestsFinite, FS_Subset
<1>3. QED
  BY <1>2, FS_CardinalityType

(* A step after which an agent has no new claim keeps the bound. *)
LEMMA FewerClaims ==
    ASSUME TypeOK, ClaimsBounded,
           \A a \in Agents : Claims(a)' \subseteq Claims(a)
    PROVE  ClaimsBounded'
<1> SUFFICES ASSUME NEW a \in Agents
             PROVE  Cardinality(Claims(a)') <= MaxPending + Workers - 1
  BY DEF ClaimsBounded
<1>1. IsFiniteSet(Claims(a)) /\ Cardinality(Claims(a)) \in Nat
  BY ClaimsFinite
<1>2. /\ IsFiniteSet(Claims(a)')
      /\ Cardinality(Claims(a)') <= Cardinality(Claims(a))
  BY <1>1, FS_Subset
<1>3. Cardinality(Claims(a)') \in Nat
  BY <1>2, FS_CardinalityType
<1>4. Cardinality(Claims(a)) <= MaxPending + Workers - 1
  BY DEF ClaimsBounded
<1>5. QED
  BY <1>1, <1>2, <1>3, <1>4, LimitsType

(* The only step that makes a claim is a count that found room. *)
LEMMA CountKeepsBound ==
    ASSUME TypeOK, ClaimsBounded, NEW r \in Requests, CheckLimit(r)
    PROVE  ClaimsBounded'
<1>1. CASE Cardinality(PendingOf(AgentOf[r])) >= MaxPending
  <2>1. Decide(r, "submit", "Denied") /\ pending' = pending
    BY <1>1, ClaimsFinite, AgentOfType, LimitsType DEF CheckLimit
  <2>2. \A a \in Agents : Claims(a)' \subseteq Claims(a)
    BY <2>1 DEF Claims, PendingOf, Inserting, Decide, Move, TypeOK
  <2>3. QED
    BY <2>2, FewerClaims
<1>2. CASE ~(Cardinality(PendingOf(AgentOf[r])) >= MaxPending)
  <2>1. /\ Move(r, "submit", "insert") /\ pending' = pending
        /\ Cardinality(PendingOf(AgentOf[r])) < MaxPending
        /\ Cardinality(Inserting) < Workers
    BY <1>2, ClaimsFinite, AgentOfType, LimitsType DEF CheckLimit
  <2>2. SUFFICES ASSUME NEW a \in Agents
                 PROVE  Cardinality(Claims(a)') <= MaxPending + Workers - 1
    BY DEF ClaimsBounded
  <2>3. CASE AgentOf[r] # a
    <3>1. Claims(a)' = Claims(a)
      BY <2>1, <2>3 DEF Claims, PendingOf, Inserting, Move, TypeOK
    <3>2. QED
      BY <3>1 DEF ClaimsBounded
  <2>4. CASE AgentOf[r] = a
    <3> DEFINE Window == PendingOf(a) \cup Inserting
    <3>1. Claims(a)' \subseteq Window \cup {r}
      BY <2>1, <2>4 DEF Claims, PendingOf, Inserting, Move, TypeOK
    <3>2. /\ IsFiniteSet(Window) /\ Cardinality(Window) \in Nat
          /\ Cardinality(Window)
                <= Cardinality(PendingOf(a)) + Cardinality(Inserting)
      <4>1. IsFiniteSet(PendingOf(a) \cap Inserting)
        BY ClaimsFinite, FS_Subset
      <4>2. Cardinality(PendingOf(a) \cap Inserting) \in Nat
        BY <4>1, FS_CardinalityType
      <4>3. /\ IsFiniteSet(Window)
            /\ Cardinality(Window) = Cardinality(PendingOf(a))
                  + Cardinality(Inserting)
                  - Cardinality(PendingOf(a) \cap Inserting)
        BY ClaimsFinite, FS_Union
      <4>4. Cardinality(Window) \in Nat
        BY <4>3, FS_CardinalityType
      <4>5. QED
        BY <4>2, <4>3, <4>4, ClaimsFinite
    <3> HIDE DEF Window
    <3>3. /\ IsFiniteSet(Window \cup {r})
          /\ Cardinality(Window \cup {r}) <= Cardinality(Window) + 1
      BY <3>2, FS_AddElement
    <3>4. Cardinality(Window \cup {r}) \in Nat
      BY <3>3, FS_CardinalityType
    <3>5. /\ IsFiniteSet(Claims(a)')
          /\ Cardinality(Claims(a)') <= Cardinality(Window \cup {r})
      BY <3>1, <3>3, FS_Subset
    <3>6. Cardinality(Claims(a)') \in Nat
      BY <3>5, FS_CardinalityType
    <3>7. /\ Cardinality(PendingOf(a)) <= MaxPending - 1
          /\ Cardinality(Inserting) <= Workers - 1
      BY <2>1, <2>4, ClaimsFinite, LimitsType
    <3>8. QED
      BY <3>2, <3>3, <3>4, <3>5, <3>6, <3>7, ClaimsFinite, LimitsType
  <2>5. QED
    BY <2>3, <2>4
<1>3. QED
  BY <1>1, <1>2

(* However requests interleave, an agent never has more than              *)
(* MaxPending + Workers - 1 entries in the map (request_approval).        *)
THEOREM OvershootTheorem == Spec => []OvershootBounded
<1>1. Init => ClaimsBounded
  <2> SUFFICES ASSUME Init, NEW a \in Agents
               PROVE  Cardinality(Claims(a)) <= MaxPending + Workers - 1
    BY DEF ClaimsBounded
  <2>1. Claims(a) = {}
    BY DEF Init, Claims, PendingOf, Inserting
  <2>2. QED
    BY <2>1, FS_EmptySet, LimitsType
<1>2. TypeOK /\ ClaimsBounded /\ [Next]_vars => ClaimsBounded'
  <2> SUFFICES ASSUME TypeOK, ClaimsBounded, [Next]_vars
               PROVE  ClaimsBounded'
    OBVIOUS
  <2> USE DEF Claims, PendingOf, Inserting, Move, Decide
  <2>1. ASSUME NEW r \in Requests, CheckLimit(r) PROVE ClaimsBounded'
    BY <2>1, CountKeepsBound
  <2>2. ASSUME NEW r \in Requests, ToolGate(r)
        PROVE  \A a \in Agents : Claims(a)' \subseteq Claims(a)
    BY <2>2 DEF ToolGate, TypeOK
  <2>3. ASSUME NEW r \in Requests, KernelRequest(r)
        PROVE  \A a \in Agents : Claims(a)' \subseteq Claims(a)
    BY <2>3 DEF KernelRequest, TypeOK
  <2>4. ASSUME NEW r \in Requests, InsertPending(r)
        PROVE  \A a \in Agents : Claims(a)' \subseteq Claims(a)
    BY <2>4 DEF InsertPending, TypeOK
  <2>5. ASSUME NEW r \in Requests, Receive(r) \/ TimerFires(r)
        PROVE  \A a \in Agents : Claims(a)' \subseteq Claims(a)
    BY <2>5 DEF Receive, TimerFires, TypeOK
  <2>6. ASSUME NEW r \in Requests, RemoveExpired(r) \/ DropWaiting(r)
        PROVE  \A a \in Agents : Claims(a)' \subseteq Claims(a)
    BY <2>6 DEF RemoveExpired, DropWaiting, TypeOK
  <2>7. ASSUME NEW p \in Approvers, NEW r \in Requests, NEW d \in Decisions,
               ResolveRemove(p, r, d)
        PROVE  \A a \in Agents : Claims(a)' \subseteq Claims(a)
    BY <2>7 DEF ResolveRemove
  <2>8. ASSUME NEW p \in Approvers, ResolveSend(p)
        PROVE  \A a \in Agents : Claims(a)' \subseteq Claims(a)
    BY <2>8 DEF ResolveSend
  <2>9. ASSUME \/ UpdatePolicy
               \/ \E b \in Agents : HandKilled(b)
               \/ UNCHANGED vars
        PROVE  \A a \in Agents : Claims(a)' \subseteq Claims(a)
    BY <2>9 DEF UpdatePolicy, HandKilled, vars
  <2>10. QED
    BY <2>1, <2>2, <2>3, <2>4, <2>5, <2>6, <2>7, <2>8, <2>9, FewerClaims
    DEF Next
<1>3. TypeOK /\ ClaimsBounded => OvershootBounded
  <2> SUFFICES ASSUME TypeOK, ClaimsBounded, NEW a \in Agents
               PROVE  Cardinality(PendingOf(a)) <= MaxPending + Workers - 1
    BY DEF OvershootBounded
  <2>1. PendingOf(a) \subseteq Claims(a)
    BY DEF Claims
  <2>2. Cardinality(PendingOf(a)) <= Cardinality(Claims(a))
    BY <2>1, ClaimsFinite, FS_Subset
  <2>3. Cardinality(Claims(a)) <= MaxPending + Workers - 1
    BY DEF ClaimsBounded
  <2>4. QED
    BY <2>2, <2>3, ClaimsFinite, LimitsType
<1>4. QED
  BY <1>1, <1>2, <1>3, TypeCorrect, PTL DEF Spec

-----------------------------------------------------------------------------
(* Who owns a request's sender.  An entry in the map, an approver holding    *)
(* the sender and an acknowledgement exclude each other, and only a request  *)
(* that reached the channel ever has one of them.                            *)

Held(r) == \E p \in Approvers : holding[p].req = r
Told(r) == \E x \in acks : x.req = r

NotYetSubmitted(r) ==
    pc[r] \in {"gate", "kernel", "submit", "insert"} =>
        r \notin pending /\ ~Held(r) /\ ~Told(r)

EntryIsFresh(r) ==
    r \in pending =>
        /\ pc[r] \in {"waiting", "expired", "dropped"}
        /\ ~Held(r) /\ ~Told(r)

ChannelSpeaksForApprover(r) ==
    chan[r] \in Decisions =>
        \E x \in acks : x.req = r /\ x.decision = chan[r]

ClosedByAnswer(r) ==
    outcome[r] \in Decisions =>
        /\ pc[r] = "done"
        /\ ~Held(r)
        /\ \A x \in acks : x.req = r => x.decision = outcome[r]

SenderInv ==
    /\ OneApproverPerRequest
    /\ OutcomeIsTheAnswer
    /\ \A r \in Requests :
          /\ NotYetSubmitted(r)
          /\ EntryIsFresh(r)
          /\ ChannelSpeaksForApprover(r)
          /\ ClosedByAnswer(r)

(* The ownership of senders is an invariant of resolve and request_approval. *)
LEMMA SenderInvariant == Spec => [](TypeOK /\ SenderInv)
<1> USE DEF SenderInv, OneApproverPerRequest, OutcomeIsTheAnswer,
            NotYetSubmitted, EntryIsFresh, ChannelSpeaksForApprover,
            ClosedByAnswer, Held, Told
<1>1. Init => SenderInv
  BY NoneIsNoRequest DEF Init, NoSender, Decisions
<1>2. TypeOK /\ SenderInv /\ [Next]_vars => SenderInv'
  <2> SUFFICES ASSUME TypeOK, SenderInv, [Next]_vars
               PROVE  SenderInv'
    OBVIOUS
  <2> USE NoneIsNoRequest
      DEF TypeOK, Stages, Decisions, Granting, Move, Decide, NoSender
  <2>1. ASSUME NEW r \in Requests, ToolGate(r) PROVE SenderInv'
    BY <2>1 DEF ToolGate
  <2>2. ASSUME NEW r \in Requests, KernelRequest(r) PROVE SenderInv'
    BY <2>2 DEF KernelRequest
  <2>3. ASSUME NEW r \in Requests, CheckLimit(r) PROVE SenderInv'
    BY <2>3 DEF CheckLimit
  <2>4. ASSUME NEW r \in Requests, InsertPending(r) PROVE SenderInv'
    BY <2>4 DEF InsertPending
  <2>5. ASSUME NEW r \in Requests, Receive(r) PROVE SenderInv'
    BY <2>5 DEF Receive
  <2>6. ASSUME NEW r \in Requests, TimerFires(r) PROVE SenderInv'
    BY <2>6 DEF TimerFires
  <2>7. ASSUME NEW r \in Requests, RemoveExpired(r) PROVE SenderInv'
    BY <2>7 DEF RemoveExpired
  <2>8. ASSUME NEW r \in Requests, DropWaiting(r) PROVE SenderInv'
    BY <2>8 DEF DropWaiting
  <2>9. ASSUME NEW p \in Approvers, NEW r \in Requests, NEW d \in Decisions,
               ResolveRemove(p, r, d)
        PROVE  SenderInv'
    BY <2>9 DEF ResolveRemove
  <2>10. ASSUME NEW p \in Approvers, ResolveSend(p) PROVE SenderInv'
    <3> DEFINE r == holding[p].req
               d == holding[p].decision
    <3>1. /\ r \in Requests /\ d \in Decisions
          /\ chan' = IF chan[r] = "empty" THEN [chan EXCEPT ![r] = d] ELSE chan
          /\ acks' = acks \cup {[req |-> r, by |-> p, decision |-> d]}
          /\ holding' = [holding EXCEPT ![p] = NoSender]
          /\ UNCHANGED <<pc, pending, outcome>>
      BY <2>10 DEF ResolveSend
    <3>2. /\ r \notin pending
          /\ pc[r] \notin {"gate", "kernel", "submit", "insert"}
          /\ outcome[r] \notin Decisions
          /\ \A x \in acks : x.req # r
          /\ \A q \in Approvers : q # p => holding[q].req # r
      BY <3>1
    <3>3. \A q \in Approvers : /\ holding'[q].req # r
                               /\ q # p => holding'[q] = holding[q]
      BY <3>1, <3>2
    <3>4. holding'[p].req = "none"
      BY <3>1
    <3>5. \A x \in acks' : x \in acks \/ x = [req |-> r, by |-> p, decision |-> d]
      BY <3>1
    <3> HIDE DEF r, d
    <3>6. OneApproverPerRequest'
      BY <3>1, <3>2, <3>3, <3>4, <3>5
    <3>7. \A s \in Requests : s # r => chan'[s] = chan[s]
      BY <3>1
    <3>8. \A s \in Requests :
             /\ s \in pending' => ~Held(s)' /\ ~Told(s)'
             /\ NotYetSubmitted(s)'
             /\ EntryIsFresh(s)'
      BY <3>1, <3>2, <3>3, <3>4, <3>5
    <3>9. \A s \in Requests : ClosedByAnswer(s)'
      BY <3>1, <3>2, <3>3, <3>4, <3>5
    <3>10. \A s \in Requests : ChannelSpeaksForApprover(s)'
      <4> SUFFICES ASSUME NEW s \in Requests, chan'[s] \in Decisions
                   PROVE  \E x \in acks' : x.req = s /\ x.decision = chan'[s]
        OBVIOUS
      <4>1. CASE s = r
        <5>1. chan[r] \notin Decisions
          BY <3>1, <3>2
        <5>2. chan'[r] = d
          BY <3>1, <4>1, <5>1
        <5>3. [req |-> r, by |-> p, decision |-> d] \in acks'
          BY <3>1
        <5>4. QED
          BY <4>1, <5>2, <5>3
      <4>2. CASE s # r
        BY <3>1, <3>7, <4>2
      <4>3. QED
        BY <4>1, <4>2
    <3>11. OutcomeIsTheAnswer'
      BY <3>1, <3>2, <3>5
    <3>12. QED
      BY <3>6, <3>8, <3>9, <3>10, <3>11
  <2>11. ASSUME \/ UpdatePolicy
                \/ \E a \in Agents : HandKilled(a)
                \/ UNCHANGED vars
         PROVE  SenderInv'
    BY <2>11 DEF UpdatePolicy, HandKilled, vars
  <2>12. QED
    BY <2>1, <2>2, <2>3, <2>4, <2>5, <2>6, <2>7, <2>8, <2>9, <2>10, <2>11
    DEF Next
<1>3. QED
  BY <1>1, <1>2, TypeCorrect, PTL DEF Spec

(* An approver that is told Ok is the only one, the request is never closed  *)
(* with another human decision than the one acknowledged, and an entry of    *)
(* the map has a task that waits or was dropped (resolve, request_approval). *)
THEOREM SenderTheorem == Spec => []OneAnswerPerRequest
<1>1. TypeOK /\ SenderInv => OneAnswerPerRequest
  BY DEF TypeOK, SenderInv, OneAnswerPerRequest, EntryHasWaiter, EntryIsFresh
<1>2. QED
  BY <1>1, SenderInvariant, PTL

-----------------------------------------------------------------------------
(* The manager implements ApprovalGate.  Two more facts are needed: only a   *)
(* finished task has an outcome, so that a request that is still on its way  *)
(* is open; and the answer the refinement mapping chooses is the answer of   *)
(* whoever owns or used the sender, because there is only one.               *)

OpenUntilClosed == \A r \in Requests : outcome[r] # "none" => pc[r] = "done"

RestNeverAtGate == \A r \in RestRequests : pc[r] \notin {"gate", "kernel"}

TaskInv == OpenUntilClosed /\ RestNeverAtGate

AnswerIsTheOwners(r) ==
    /\ \A x \in acks : x.req = r => AnswerOf(r) = x.decision
    /\ \A p \in Approvers : holding[p].req = r => AnswerOf(r) = holding[p].decision
    /\ ~Held(r) /\ ~Told(r) => AnswerOf(r) = "none"

GateInv ==
    /\ TypeOK /\ SenderInv /\ TaskInv
    /\ \A r \in Requests : AnswerIsTheOwners(r)

LEMMA OpenInvariant == Spec => []TaskInv
<1>1. Init => TaskInv
  BY RestType DEF Init, TaskInv, OpenUntilClosed, RestNeverAtGate
<1>2. TypeOK /\ TaskInv /\ [Next]_vars => TaskInv'
  <2> SUFFICES ASSUME TypeOK, TaskInv, [Next]_vars
               PROVE  TaskInv'
    OBVIOUS
  <2> USE RestType DEF TaskInv, OpenUntilClosed, RestNeverAtGate, TypeOK, Move, Decide
  <2>1. ASSUME NEW r \in Requests,
               ToolGate(r) \/ KernelRequest(r) \/ CheckLimit(r)
        PROVE  TaskInv'
    BY <2>1 DEF ToolGate, KernelRequest, CheckLimit
  <2>2. ASSUME NEW r \in Requests,
               \/ InsertPending(r) \/ Receive(r) \/ TimerFires(r)
               \/ RemoveExpired(r) \/ DropWaiting(r)
        PROVE  TaskInv'
    BY <2>2 DEF InsertPending, Receive, TimerFires, RemoveExpired, DropWaiting
  <2>3. ASSUME \/ \E p \in Approvers :
                     \/ \E r \in Requests, d \in Decisions : ResolveRemove(p, r, d)
                     \/ ResolveSend(p)
               \/ UpdatePolicy
               \/ \E a \in Agents : HandKilled(a)
               \/ UNCHANGED vars
        PROVE  TaskInv'
    BY <2>3 DEF ResolveRemove, ResolveSend, UpdatePolicy, HandKilled, vars
  <2>4. QED
    BY <2>1, <2>2, <2>3 DEF Next
<1>3. QED
  BY <1>1, <1>2, TypeCorrect, PTL DEF Spec

LEMMA OneOwnerOneAnswer ==
    TypeOK /\ SenderInv => \A r \in Requests : AnswerIsTheOwners(r)
<1> SUFFICES ASSUME TypeOK, SenderInv, NEW r \in Requests
             PROVE  AnswerIsTheOwners(r)
  OBVIOUS
<1> DEFINE told == {x \in acks : x.req = r}
           held == {p \in Approvers : holding[p].req = r}
<1>1. AnswerOf(r) = IF told # {} THEN (CHOOSE x \in told : TRUE).decision
                    ELSE IF held # {} THEN holding[CHOOSE p \in held : TRUE].decision
                    ELSE "none"
  BY DEF AnswerOf
<1>2. ASSUME NEW x \in acks, x.req = r
      PROVE  AnswerOf(r) = x.decision
  <2>1. x \in told
    BY <1>2
  <2>2. (CHOOSE y \in told : TRUE) \in told
    BY <2>1
  <2>3. \A y \in told : y = x
    BY <1>2 DEF SenderInv, OneApproverPerRequest
  <2>4. QED
    BY <1>1, <2>1, <2>2, <2>3
<1>3. ASSUME NEW p \in Approvers, holding[p].req = r
      PROVE  AnswerOf(r) = holding[p].decision
  <2>1. told = {} /\ p \in held
    BY <1>3 DEF SenderInv, OneApproverPerRequest
  <2>2. (CHOOSE q \in held : TRUE) \in held
    BY <2>1
  <2>3. \A q \in held : q = p
    BY <1>3 DEF SenderInv, OneApproverPerRequest
  <2>4. QED
    BY <1>1, <2>1, <2>2, <2>3
<1>4. ~Held(r) /\ ~Told(r) => AnswerOf(r) = "none"
  BY <1>1 DEF Held, Told
<1>5. QED
  BY <1>2, <1>3, <1>4 DEF AnswerIsTheOwners

(* A step that leaves senders and acknowledgements alone keeps every answer. *)
LEMMA AnswerKept ==
    ASSUME acks' = acks, holding' = holding, NEW r \in Requests
    PROVE  AnswerOf(r)' = AnswerOf(r)
BY DEF AnswerOf

LEMMA VerdictKept ==
    ASSUME NEW r \in Requests, outcome'[r] = outcome[r], pc'[r] = pc[r]
    PROVE  VerdictOf(r)' = VerdictOf(r)
BY DEF VerdictOf

LEMMA RequiredKept ==
    ASSUME policy' = policy, hands' = hands
    PROVE  Required' = Required
BY DEF Required

(* The mapped verdict changes at one request only. *)
LEMMA VerdictMoves ==
    ASSUME NEW r \in Requests, NEW v,
           GateInv, policy' = policy, hands' = hands, acks' = acks,
           holding' = holding, NEW to \in Stages, Move(r, pc[r], to),
           \A s \in Requests : s # r => outcome'[s] = outcome[s],
           VerdictOf(r)' = v
    PROVE  /\ Required' = Required
           /\ [s \in Requests |-> AnswerOf(s)]' = [s \in Requests |-> AnswerOf(s)]
           /\ [s \in Requests |-> VerdictOf(s)]'
                 = [[s \in Requests |-> VerdictOf(s)] EXCEPT ![r] = v]
<1>1. Required' = Required
  BY RequiredKept
<1>2. \A s \in Requests : AnswerOf(s)' = AnswerOf(s)
  BY AnswerKept
<1>3. \A s \in Requests : s # r => pc'[s] = pc[s]
  BY DEF Move, GateInv, TypeOK
<1>4. \A s \in Requests : s # r => VerdictOf(s)' = VerdictOf(s)
  BY <1>3, VerdictKept
<1>5. QED
  BY <1>1, <1>2, <1>4

(* A step of one task that lets its operation go ahead unasked. *)
LEMMA ExemptStep ==
    ASSUME GateInv, NEW r \in Requests, NEW from \in {"gate", "kernel"},
           NEW o \in {"NotRequired", "AutoApproved"}, Decide(r, from, o),
           r \notin Required, policy' = policy, hands' = hands,
           acks' = acks, holding' = holding
    PROVE  Gate!Exempt(r)
<1>1. /\ pc[r] = from /\ outcome[r] = "none"
      /\ outcome' = [outcome EXCEPT ![r] = o] /\ DOMAIN outcome = Requests
      /\ Move(r, pc[r], "done") /\ pc'[r] = "done"
  BY DEF Decide, Move, GateInv, TypeOK, OpenUntilClosed, TaskInv
<1>2. VerdictOf(r) = "open" /\ VerdictOf(r)' = "granted"
  BY <1>1 DEF VerdictOf, Granting
<1>3. QED
  BY <1>1, <1>2, VerdictMoves DEF Gate!Exempt, Gate!Move, Stages

(* A step of one task that closes a request a human was asked about. *)
LEMMA CloseStep ==
    ASSUME GateInv, NEW r \in Requests,
           NEW from \in {"submit", "insert", "waiting", "expired"},
           NEW o \in {"TimedOut", "Denied", "Approved"},
           Decide(r, from, o), policy' = policy, hands' = hands,
           acks' = acks, holding' = holding,
           o = "Approved" => AnswerOf(r) = "Approved"
    PROVE  Gate!Grant(r) \/ Gate!Refuse(r)
<1>1. /\ pc[r] = from /\ outcome[r] = "none"
      /\ outcome' = [outcome EXCEPT ![r] = o] /\ DOMAIN outcome = Requests
      /\ Move(r, pc[r], "done") /\ pc'[r] = "done"
  BY DEF Decide, Move, GateInv, TypeOK, OpenUntilClosed, TaskInv
<1>2. VerdictOf(r) = "asked"
  BY <1>1 DEF VerdictOf, Granting
<1>3. CASE o = "Approved"
  <2>1. VerdictOf(r)' = "granted"
    BY <1>1, <1>3 DEF VerdictOf, Granting
  <2>2. QED
    BY <1>1, <1>2, <1>3, <2>1, VerdictMoves DEF Gate!Grant, Gate!Move, Stages
<1>4. CASE o # "Approved"
  <2>1. VerdictOf(r)' = "refused"
    BY <1>1, <1>4 DEF VerdictOf, Granting
  <2>2. QED
    BY <1>1, <1>2, <2>1, VerdictMoves DEF Gate!Refuse, Gate!Move, Stages
<1>5. QED
  BY <1>3, <1>4

(* Every behaviour of the manager, its callers and the approvers, however    *)
(* they interleave, is one of the abstract gate: an operation goes ahead     *)
(* unasked only while none is required for it, and one that a human was      *)
(* asked about goes ahead on the answer "Approved" to it and on nothing else *)
(* (execute_tool, request_approval, resolve).                                *)
THEOREM GateTheorem == Spec => ImplementsGate
<1>1. Init => Gate!Init
  <2> SUFFICES ASSUME Init, NEW r \in Requests
               PROVE  AnswerOf(r) = "none" /\ VerdictOf(r) \in {"open", "asked"}
    BY DEF Gate!Init, Required
  <2>1. \A p \in Approvers : holding[p].req # r
    BY NoneIsNoRequest DEF Init, NoSender
  <2>2. {x \in acks : x.req = r} = {} /\ {p \in Approvers : holding[p].req = r} = {}
    BY <2>1 DEF Init
  <2>3. AnswerOf(r) = "none"
    BY <2>2 DEF AnswerOf
  <2>4. VerdictOf(r) \in {"open", "asked"}
    BY DEF Init, VerdictOf, Granting
  <2>5. QED
    BY <2>3, <2>4
<1>2. GateInv /\ GateInv' /\ [Next]_vars => [Gate!Next]_(Gate!vars)
  <2> SUFFICES ASSUME GateInv, GateInv', [Next]_vars
               PROVE  Gate!Next \/ UNCHANGED Gate!vars
    OBVIOUS
  <2> DEFINE Closed(r) == \/ Gate!Grant(r) \/ Gate!Exempt(r)
                          \/ Gate!Refuse(r) \/ Gate!Ask(r)
             Same == /\ Required' = Required
                     /\ \A s \in Requests : /\ AnswerOf(s)' = AnswerOf(s)
                                            /\ VerdictOf(s)' = VerdictOf(s)
  <2>0. Same => UNCHANGED Gate!vars
    BY DEF Gate!vars
  <2>1. ASSUME NEW r \in Requests, acks' = acks, holding' = holding,
               policy' = policy, hands' = hands, outcome' = outcome,
               NEW from \in Stages, NEW to \in Stages, Move(r, from, to),
               \/ from = "gate" /\ to = "kernel"
               \/ from \in {"submit", "insert", "waiting", "expired"}
                  /\ to \in {"submit", "insert", "waiting", "expired"}
        PROVE  Same
    <3>1. \A s \in Requests : AnswerOf(s)' = AnswerOf(s)
      BY <2>1, AnswerKept
    <3>2. \A s \in Requests : s # r => pc'[s] = pc[s]
      BY <2>1 DEF Move, GateInv, TypeOK
    <3>3. \A s \in Requests : s # r => VerdictOf(s)' = VerdictOf(s)
      BY <2>1, <3>2, VerdictKept
    <3>4. pc[r] = from /\ pc'[r] = to /\ outcome[r] = "none" /\ outcome'[r] = "none"
      BY <2>1 DEF Move, GateInv, TypeOK, OpenUntilClosed, TaskInv
    <3>5. VerdictOf(r)' = VerdictOf(r)
      BY <2>1, <3>4 DEF VerdictOf, Granting
    <3>6. QED
      BY <2>1, <3>1, <3>3, <3>5, RequiredKept
  <2> HIDE DEF Same, Closed
  <2>4. ASSUME NEW r \in Requests, ToolGate(r) PROVE Closed(r) \/ Same
    <3>1. CASE Move(r, "gate", "kernel") /\ UNCHANGED outcome
      BY <2>1, <2>4, <3>1 DEF ToolGate, Stages
    <3>2. CASE Decide(r, "gate", "NotRequired") /\ ToolOf[r] \notin policy
      <4>1. r \notin RestRequests
        BY <3>2 DEF Decide, Move, GateInv, TaskInv, RestNeverAtGate
      <4>2. r \notin Required
        BY <3>2, <4>1 DEF Required
      <4>3. QED
        BY <2>4, <3>2, <4>2, ExemptStep DEF ToolGate, Closed
    <3>3. QED
      BY <2>4, <3>1, <3>2 DEF ToolGate
  <2>5. ASSUME NEW r \in Requests, KernelRequest(r) PROVE Closed(r) \/ Same
    <3>1. CASE Move(r, "kernel", "submit") /\ UNCHANGED outcome
      <4>1. /\ pc[r] = "kernel" /\ pc'[r] = "submit"
            /\ outcome[r] = "none" /\ outcome' = outcome
        BY <3>1 DEF Move, GateInv, TypeOK, OpenUntilClosed, TaskInv
      <4>2. VerdictOf(r) = "open" /\ VerdictOf(r)' = "asked"
        BY <4>1 DEF VerdictOf, Granting
      <4>3. Move(r, pc[r], "submit")
        BY <3>1, <4>1
      <4>4. Gate!Ask(r)
        BY <2>5, <4>1, <4>2, <4>3, VerdictMoves
        DEF KernelRequest, Gate!Ask, Gate!Move, Stages
      <4>5. QED
        BY <4>4 DEF Closed
    <3>2. CASE Decide(r, "kernel", "AutoApproved") /\ AgentOf[r] \in hands
      <4>1. r \notin RestRequests
        BY <3>2 DEF Decide, Move, GateInv, TaskInv, RestNeverAtGate
      <4>2. r \notin Required
        BY <3>2, <4>1 DEF Required
      <4>3. QED
        BY <2>5, <3>2, <4>2, ExemptStep DEF KernelRequest, Closed
    <3>3. QED
      BY <2>5, <3>1, <3>2 DEF KernelRequest
  <2>6. ASSUME NEW r \in Requests, CheckLimit(r) PROVE Closed(r) \/ Same
    <3>1. CASE Move(r, "submit", "insert") /\ UNCHANGED outcome
      BY <2>1, <2>6, <3>1 DEF CheckLimit, Stages
    <3>2. CASE Decide(r, "submit", "Denied")
      BY <2>6, <3>2, CloseStep DEF CheckLimit, Closed
    <3>3. QED
      BY <2>6, <3>1, <3>2 DEF CheckLimit
  <2>7. ASSUME NEW r \in Requests, InsertPending(r) PROVE Closed(r) \/ Same
    BY <2>1, <2>7 DEF InsertPending, Stages
  <2>8. ASSUME NEW r \in Requests, Receive(r) PROVE Closed(r) \/ Same
    <3>1. PICK x \in acks : x.req = r /\ x.decision = chan[r]
      BY <2>8 DEF Receive, GateInv, SenderInv, ChannelSpeaksForApprover
    <3>2. AnswerOf(r) = chan[r]
      BY <3>1 DEF GateInv, AnswerIsTheOwners
    <3>3. chan[r] \in Decisions /\ Decide(r, "waiting", chan[r])
      BY <2>8 DEF Receive
    <3>4. QED
      BY <2>8, <3>2, <3>3, CloseStep DEF Receive, Decisions, Closed
  <2>9. ASSUME NEW r \in Requests, TimerFires(r) PROVE Closed(r) \/ Same
    BY <2>1, <2>9 DEF TimerFires, Stages
  <2>10. ASSUME NEW r \in Requests, RemoveExpired(r) PROVE Closed(r) \/ Same
    BY <2>10, CloseStep DEF RemoveExpired, Closed
  <2>11. ASSUME NEW r \in Requests, DropWaiting(r) PROVE Closed(r) \/ Same
    <3>1. /\ pc[r] = "waiting" /\ Move(r, pc[r], "dropped")
          /\ outcome' = outcome /\ outcome[r] = "none" /\ pc'[r] = "dropped"
      BY <2>11 DEF DropWaiting, Move, GateInv, TypeOK, OpenUntilClosed, TaskInv
    <3>2. VerdictOf(r) = "asked" /\ VerdictOf(r)' = "refused"
      BY <3>1 DEF VerdictOf, Granting
    <3>3. Gate!Refuse(r)
      BY <2>11, <3>1, <3>2, VerdictMoves
      DEF DropWaiting, Gate!Refuse, Gate!Move, Stages
    <3>4. QED
      BY <3>3 DEF Closed
  <2>12. ASSUME NEW p \in Approvers, NEW r \in Requests, NEW d \in Decisions,
                ResolveRemove(p, r, d)
         PROVE  Gate!Answer(r, d)
    <3> DEFINE ans == [s \in Requests |-> AnswerOf(s)]
               ver == [s \in Requests |-> VerdictOf(s)]
    <3>1. /\ holding[p] = NoSender /\ r \in pending /\ DOMAIN holding = Approvers
          /\ holding' = [holding EXCEPT ![p] = [req |-> r, decision |-> d]]
          /\ acks' = acks /\ pc' = pc /\ outcome' = outcome
          /\ policy' = policy /\ hands' = hands
      BY <2>12 DEF ResolveRemove, GateInv, TypeOK
    <3>2. ~Held(r) /\ ~Told(r)
      BY <3>1 DEF GateInv, SenderInv, EntryIsFresh
    <3>3. AnswerOf(r) = "none"
      BY <3>2 DEF GateInv, AnswerIsTheOwners
    <3>4. holding'[p].req = r /\ holding'[p].decision = d
      BY <3>1
    <3>5. AnswerOf(r)' = d
      BY <3>4 DEF GateInv, AnswerIsTheOwners
    <3>6. ASSUME NEW s \in Requests, s # r
          PROVE  AnswerOf(s)' = AnswerOf(s)
      <4>1. CASE Told(s)
        BY <3>1, <4>1 DEF GateInv, AnswerIsTheOwners, Told
      <4>2. CASE ~Told(s) /\ Held(s)
        <5>1. PICK q \in Approvers : holding[q].req = s
          BY <4>2 DEF Held
        <5>2. q # p
          BY <3>1, <5>1, NoneIsNoRequest DEF NoSender
        <5>3. holding'[q] = holding[q]
          BY <3>1, <5>2
        <5>4. QED
          BY <5>1, <5>3 DEF GateInv, AnswerIsTheOwners
      <4>3. CASE ~Told(s) /\ ~Held(s)
        <5>1. ~Held(s)' /\ ~Told(s)'
          BY <3>1, <3>6, <4>3 DEF Held, Told
        <5>2. QED
          BY <4>3, <5>1 DEF GateInv, AnswerIsTheOwners
      <4>4. QED
        BY <4>1, <4>2, <4>3
    <3>7. \A s \in Requests : VerdictOf(s)' = VerdictOf(s)
      BY <3>1, VerdictKept
    <3>8. ans[r] = "none" /\ ans' = [ans EXCEPT ![r] = d] /\ ver' = ver
      BY <3>3, <3>5, <3>6, <3>7
    <3>9. VerdictOf(r) \in {"asked", "refused"}
      <4>1. pc[r] \in {"waiting", "expired", "dropped"} /\ outcome[r] = "none"
        BY <3>1 DEF GateInv, SenderInv, EntryIsFresh, OpenUntilClosed, TaskInv, TypeOK
      <4>2. QED
        BY <4>1 DEF VerdictOf, Granting
    <3>10. ver[r] \in {"asked", "refused"} /\ Required' = Required
      BY <3>1, <3>9, RequiredKept
    <3> HIDE DEF ans, ver
    <3>11. QED
      BY <3>8, <3>10 DEF Gate!Answer, ans, ver
  <2>13. ASSUME NEW p \in Approvers, ResolveSend(p) PROVE Same
    <3> DEFINE r == holding[p].req
               d == holding[p].decision
               x == [req |-> r, by |-> p, decision |-> d]
    <3>1. /\ acks' = acks \cup {x}
          /\ holding' = [holding EXCEPT ![p] = NoSender]
          /\ DOMAIN holding = Approvers /\ pc' = pc /\ outcome' = outcome
          /\ policy' = policy /\ hands' = hands
      BY <2>13 DEF ResolveSend, GateInv, TypeOK
    <3>2. ASSUME NEW s \in Requests PROVE AnswerOf(s)' = AnswerOf(s)
      <4>1. CASE s = r
        <5>1. x \in acks' /\ x.req = s /\ x.decision = holding[p].decision
          BY <3>1, <4>1
        <5>2. AnswerOf(s)' = holding[p].decision
          BY <5>1 DEF GateInv, AnswerIsTheOwners
        <5>3. AnswerOf(s) = holding[p].decision
          BY <4>1 DEF GateInv, AnswerIsTheOwners
        <5>4. QED
          BY <5>2, <5>3
      <4>2. CASE s # r /\ Told(s)
        <5>1. PICK y \in acks : y.req = s
          BY <4>2 DEF Told
        <5>2. y \in acks'
          BY <3>1
        <5>3. QED
          BY <5>1, <5>2 DEF GateInv, AnswerIsTheOwners
      <4>3. CASE s # r /\ ~Told(s) /\ Held(s)
        <5>1. PICK q \in Approvers : holding[q].req = s
          BY <4>3 DEF Held
        <5>2. holding'[q] = holding[q]
          BY <3>1, <4>3, <5>1
        <5>3. QED
          BY <5>1, <5>2 DEF GateInv, AnswerIsTheOwners
      <4>4. CASE s # r /\ ~Told(s) /\ ~Held(s)
        <5>1. ~Told(s)'
          BY <3>1, <4>4 DEF Told
        <5>2. ~Held(s)'
          BY <3>1, <4>4, NoneIsNoRequest DEF Held, NoSender
        <5>3. QED
          BY <4>4, <5>1, <5>2 DEF GateInv, AnswerIsTheOwners
      <4>5. QED
        BY <4>1, <4>2, <4>3, <4>4
    <3>3. \A s \in Requests : VerdictOf(s)' = VerdictOf(s)
      BY <3>1, VerdictKept
    <3>4. QED
      BY <3>1, <3>2, <3>3, RequiredKept DEF Same
  <2>14. ASSUME UpdatePolicy \/ \E a \in Agents : HandKilled(a)
         PROVE  Gate!PolicyChanges
    <3>1. acks' = acks /\ holding' = holding /\ pc' = pc /\ outcome' = outcome
      BY <2>14 DEF UpdatePolicy, HandKilled
    <3>2. \A s \in Requests : /\ AnswerOf(s)' = AnswerOf(s)
                             /\ VerdictOf(s)' = VerdictOf(s)
      BY <3>1, AnswerKept, VerdictKept
    <3>3. Required' \subseteq Requests
      BY DEF Required
    <3>4. QED
      BY <3>2, <3>3 DEF Gate!PolicyChanges
  <2>15. CASE UNCHANGED vars
    <3>1. /\ acks' = acks /\ holding' = holding /\ pc' = pc /\ outcome' = outcome
          /\ policy' = policy /\ hands' = hands
      BY <2>15 DEF vars
    <3>2. \A s \in Requests : /\ AnswerOf(s)' = AnswerOf(s)
                             /\ VerdictOf(s)' = VerdictOf(s)
      BY <3>1, AnswerKept, VerdictKept
    <3>3. Required' = Required
      BY <3>1, RequiredKept
    <3>4. QED
      BY <2>0, <3>2, <3>3 DEF Same
  <2>16. \A r \in Requests : Closed(r) => Gate!Next
    BY DEF Closed, Gate!Next
  <2>17. QED
    BY <2>0, <2>4, <2>5, <2>6, <2>7, <2>8, <2>9, <2>10, <2>11, <2>12, <2>13,
       <2>14, <2>15, <2>16 DEF Next, Gate!Next
<1>3. TypeOK /\ SenderInv /\ TaskInv => GateInv
  BY OneOwnerOneAnswer DEF GateInv
<1>4. QED
  BY <1>1, <1>2, <1>3, SenderInvariant, OpenInvariant, PTL
  DEF Spec, ImplementsGate, Gate!Spec
=============================================================================
