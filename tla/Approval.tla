------------------------------ MODULE Approval ------------------------------
(***************************************************************************)
(* The execution-approval manager (clawreform-kernel/src/approval.rs) with *)
(* its callers: the gate in front of every tool call (tool_runner.rs), the *)
(* kernel's request_approval (kernel.rs) and the approvers, who resolve    *)
(* over the REST API or a chat channel.                                    *)
(*                                                                         *)
(* A request is one asynchronous task.  Between its awaits it runs on a    *)
(* worker thread of the runtime, so the steps of different requests        *)
(* interleave at the granularity of single operations on the shared map;   *)
(* at most Workers of them are inside such a stretch at one time.          *)
(***************************************************************************)
EXTENDS Naturals, FiniteSets

CONSTANTS
    Agents,         \* agent identifiers
    Requests,       \* request identifiers, one per submitted operation
    AgentOf,        \* AgentOf[r]: the agent r is made for
    Tools,          \* tool names
    ToolOf,         \* ToolOf[r]: the tool r wants to run
    RestRequests,   \* requests injected by POST /api/approvals
    Droppable,      \* requests whose task may be dropped while it waits: by
                    \* the tool timeout or by cancelling the agent's run
    Approvers,      \* threads that resolve requests
    MaxPending,     \* MAX_PENDING_PER_AGENT
    Workers         \* worker threads of the runtime

ASSUME RequestsFinite == IsFiniteSet(Requests)
ASSUME NoneIsNoRequest == "none" \notin Requests
ASSUME AgentOfType == AgentOf \in [Requests -> Agents]
ASSUME ToolOfType == ToolOf \in [Requests -> Tools]
ASSUME RestType == RestRequests \subseteq Requests
ASSUME DroppableType == Droppable \subseteq Requests \ RestRequests
ASSUME LimitsType == MaxPending \in Nat \ {0} /\ Workers \in Nat \ {0}

VARIABLES
    policy,         \* tools that require approval (ApprovalPolicy)
    hands,          \* registered agents that carry a "hand:" tag
    pc,             \* pc[r]: where the task of r is
    pending,        \* keys of ApprovalManager.pending
    chan,           \* chan[r]: contents of the oneshot channel of r
    outcome,        \* outcome[r]: how the gate let r through or stopped it
    holding,        \* holding[p]: the sender approver p took out of the map
    acks            \* the Ok responses given to approvers

vars == <<policy, hands, pc, pending, chan, outcome, holding, acks>>

\* ApprovalDecision values a human gives; TimedOut is the manager's own.
Decisions == {"Approved", "Denied"}

\* Outcomes with which execute_tool goes on to run the tool.
Granting == {"NotRequired", "AutoApproved", "Approved"}

\* gate: before execute_tool's check; kernel: inside KernelHandle's
\* request_approval; submit: before the per-agent count; insert: after it;
\* waiting: awaiting the channel; expired: timer fired, receiver dropped, map
\* entry not removed yet.
Stages == {"gate", "kernel", "submit", "insert", "waiting", "expired",
           "done", "dropped"}

NoSender == [req |-> "none", decision |-> "none"]

TypeOK ==
    /\ policy \subseteq Tools
    /\ hands \subseteq Agents
    /\ pc \in [Requests -> Stages]
    /\ pending \subseteq Requests
    /\ chan \in [Requests -> {"empty", "closed"} \cup Decisions]
    /\ outcome \in [Requests -> {"none", "TimedOut", "Denied"} \cup Granting]
    /\ holding \in [Approvers -> [req : Requests, decision : Decisions]
                                     \cup {NoSender}]
    /\ acks \subseteq [req : Requests, by : Approvers, decision : Decisions]

Init ==
    /\ policy \in SUBSET Tools
    /\ hands \in SUBSET Agents
    /\ pc = [r \in Requests |-> IF r \in RestRequests THEN "submit" ELSE "gate"]
    /\ pending = {}
    /\ chan = [r \in Requests |-> "empty"]
    /\ outcome = [r \in Requests |-> "none"]
    /\ holding = [p \in Approvers |-> NoSender]
    /\ acks = {}

-----------------------------------------------------------------------------
(* The task of a request *)

PendingOf(a) == {r \in pending : AgentOf[r] = a}

\* Requests past the count and not yet in the map: the count they saw may be
\* out of date when they insert.
Inserting == {r \in Requests : pc[r] = "insert"}

Move(r, from, to) ==
    /\ pc[r] = from
    /\ pc' = [pc EXCEPT ![r] = to]

Decide(r, from, o) ==
    /\ Move(r, from, "done")
    /\ outcome' = [outcome EXCEPT ![r] = o]

\* execute_tool asks requires_approval: a tool outside the policy runs at once.
ToolGate(r) ==
    /\ \/ /\ ToolOf[r] \in policy
          /\ Move(r, "gate", "kernel")
          /\ UNCHANGED outcome
       \/ /\ ToolOf[r] \notin policy
          /\ Decide(r, "gate", "NotRequired")
    /\ UNCHANGED <<policy, hands, pending, chan, holding, acks>>

\* KernelHandle::request_approval: a registered hand agent is auto-approved,
\* everyone else goes to the manager.
KernelRequest(r) ==
    /\ \/ /\ AgentOf[r] \in hands
          /\ Decide(r, "kernel", "AutoApproved")
       \/ /\ AgentOf[r] \notin hands
          /\ Move(r, "kernel", "submit")
          /\ UNCHANGED outcome
    /\ UNCHANGED <<policy, hands, pending, chan, holding, acks>>

\* A variant that tests the limit with > in place of >=.
CheckLimitOffByOne(r) ==
    /\ Cardinality(Inserting) < Workers
    /\ \/ /\ Cardinality(PendingOf(AgentOf[r])) > MaxPending
          /\ Decide(r, "submit", "Denied")
       \/ /\ Cardinality(PendingOf(AgentOf[r])) <= MaxPending
          /\ Move(r, "submit", "insert")
          /\ UNCHANGED outcome
    /\ UNCHANGED <<policy, hands, pending, chan, holding, acks>>

\* request_approval counts the agent's entries.  Nothing is locked between the
\* count and the insertion; the stretch is synchronous, so it needs a worker.
CheckLimit(r) ==
    /\ Cardinality(Inserting) < Workers
    /\ \/ /\ Cardinality(PendingOf(AgentOf[r])) >= MaxPending
          /\ Decide(r, "submit", "Denied")
       \/ /\ Cardinality(PendingOf(AgentOf[r])) < MaxPending
          /\ Move(r, "submit", "insert")
          /\ UNCHANGED outcome
    /\ UNCHANGED <<policy, hands, pending, chan, holding, acks>>

\* pending.insert(id, ..), then the task awaits the channel.
InsertPending(r) ==
    /\ Move(r, "insert", "waiting")
    /\ pending' = pending \cup {r}
    /\ UNCHANGED <<policy, hands, chan, outcome, holding, acks>>

\* The timeout polls the channel first, so a decision that is already there
\* wins over the timer.
Receive(r) ==
    /\ chan[r] \in Decisions
    /\ Decide(r, "waiting", chan[r])
    /\ UNCHANGED <<policy, hands, pending, chan, holding, acks>>

\* A variant that awaits the channel of an agent's request without a timer.
TimerForRestOnly(r) ==
    /\ r \in RestRequests
    /\ chan[r] = "empty"
    /\ Move(r, "waiting", "expired")
    /\ chan' = [chan EXCEPT ![r] = "closed"]
    /\ UNCHANGED <<policy, hands, pending, outcome, holding, acks>>

\* The timer fires on an empty channel; awaiting the Timeout future is over,
\* so the receiver is dropped before the match arm runs.
TimerFires(r) ==
    /\ chan[r] = "empty"
    /\ Move(r, "waiting", "expired")
    /\ chan' = [chan EXCEPT ![r] = "closed"]
    /\ UNCHANGED <<policy, hands, pending, outcome, holding, acks>>

\* A variant of RemoveExpired that forgets the map entry.
KeepExpired(r) ==
    /\ Decide(r, "expired", "TimedOut")
    /\ UNCHANGED <<policy, hands, pending, chan, holding, acks>>

\* A variant that lets the operation go ahead when nobody answers.
ApproveExpired(r) ==
    /\ Decide(r, "expired", "Approved")
    /\ pending' = pending \ {r}
    /\ UNCHANGED <<policy, hands, chan, holding, acks>>

\* pending.remove(&id), whether or not an approver took the entry meanwhile.
RemoveExpired(r) ==
    /\ Decide(r, "expired", "TimedOut")
    /\ pending' = pending \ {r}
    /\ UNCHANGED <<policy, hands, chan, holding, acks>>

\* The future that awaits is dropped: the tool timeout of the agent loop
\* (TOOL_TIMEOUT_SECS) elapses first, or the run is aborted.  Nothing cleans
\* up: there is no Drop that removes the entry.
DropWaiting(r) ==
    /\ r \in Droppable
    /\ Move(r, "waiting", "dropped")
    /\ chan' = [chan EXCEPT ![r] = "closed"]
    /\ UNCHANGED <<policy, hands, pending, outcome, holding, acks>>

-----------------------------------------------------------------------------
(* Approvers, and what changes under the requests' feet *)

\* A variant of resolve that looks the entry up and leaves it in the map.
ResolvePeek(p, r, d) ==
    /\ holding[p] = NoSender
    /\ r \in pending
    /\ holding' = [holding EXCEPT ![p] = [req |-> r, decision |-> d]]
    /\ UNCHANGED <<policy, hands, pc, pending, chan, outcome, acks>>

\* resolve: pending.remove(&request_id) gives this approver the sender.  When
\* the entry is gone the caller gets Err and nothing changes.
ResolveRemove(p, r, d) ==
    /\ holding[p] = NoSender
    /\ r \in pending
    /\ pending' = pending \ {r}
    /\ holding' = [holding EXCEPT ![p] = [req |-> r, decision |-> d]]
    /\ UNCHANGED <<policy, hands, pc, chan, outcome, acks>>

\* resolve: sender.send(decision), its error ignored, and Ok to the caller.
ResolveSend(p) ==
    LET r == holding[p].req
        d == holding[p].decision
    IN  /\ holding[p] # NoSender
        /\ chan' = IF chan[r] = "empty" THEN [chan EXCEPT ![r] = d] ELSE chan
        /\ acks' = acks \cup {[req |-> r, by |-> p, decision |-> d]}
        /\ holding' = [holding EXCEPT ![p] = NoSender]
        /\ UNCHANGED <<policy, hands, pc, pending, outcome>>

\* Hot reload of the configuration (update_policy).
UpdatePolicy ==
    /\ policy' \in SUBSET Tools
    /\ UNCHANGED <<hands, pc, pending, chan, outcome, holding, acks>>

\* kill_agent takes a hand agent out of the registry; its tasks keep running.
HandKilled(a) ==
    /\ a \in hands
    /\ hands' = hands \ {a}
    /\ UNCHANGED <<policy, pc, pending, chan, outcome, holding, acks>>

\* Every task may have ended and nobody need resolve anything.
Next ==
    \/ \E r \in Requests :
          \/ ToolGate(r)
          \/ KernelRequest(r)
          \/ CheckLimit(r)
          \/ InsertPending(r)
          \/ Receive(r)
          \/ TimerFires(r)
          \/ RemoveExpired(r)
          \/ DropWaiting(r)
    \/ \E p \in Approvers :
          \/ \E r \in Requests, d \in Decisions : ResolveRemove(p, r, d)
          \/ ResolveSend(p)
    \/ UpdatePolicy
    \/ \E a \in Agents : HandKilled(a)

Spec == Init /\ [][Next]_vars

\* The runtime polls every ready task and fires every timer; a thread that
\* holds a sender goes on to use it.  Nobody is obliged to resolve anything.
Fairness ==
    /\ \A r \in Requests :
          /\ WF_vars(ToolGate(r))
          /\ WF_vars(KernelRequest(r))
          /\ WF_vars(CheckLimit(r))
          /\ WF_vars(InsertPending(r))
          /\ WF_vars(Receive(r) \/ TimerFires(r))
          /\ WF_vars(RemoveExpired(r))
    /\ \A p \in Approvers : WF_vars(ResolveSend(p))

FairSpec == Spec /\ Fairness

-----------------------------------------------------------------------------
(* Properties *)

\* The per-agent limit is overshot by at most the requests that can sit
\* between the count and the insertion, one less than the worker threads; with
\* one worker it is exact (request_approval).
OvershootBounded ==
    \A a \in Agents : Cardinality(PendingOf(a)) <= MaxPending + Workers - 1

\* No two approvers are told Ok for the same request: the sender leaves the
\* map with the one that removes the entry (resolve).
OneApproverPerRequest ==
    /\ \A x, y \in acks : x.req = y.req => x = y
    /\ \A x \in acks, p \in Approvers : holding[p].req # x.req
    /\ \A p, q \in Approvers :
          (holding[p].req \in Requests /\ holding[p].req = holding[q].req) => p = q

\* A tool that ran on a human's word ran on the word given for this request,
\* and nobody who was told Ok for one decision finds the request closed with
\* the other one (resolve, request_approval).  It may be closed as TimedOut.
OutcomeIsTheAnswer ==
    \A r \in Requests :
        /\ outcome[r] = "Approved" =>
              \E x \in acks : x.req = r /\ x.decision = "Approved"
        /\ \A x \in acks :
              (x.req = r /\ outcome[r] \in Decisions) => x.decision = outcome[r]

\* Each map entry belongs to a task that still waits for it, unless that task
\* was dropped from outside.
EntryHasWaiter ==
    \A r \in pending : pc[r] \in {"waiting", "expired", "dropped"}

\* A request's sender is in one place: in the map, with a task that waits, with
\* one approver, or used; and the request is closed as it was used (approval.rs:86).
OneAnswerPerRequest == OneApproverPerRequest /\ OutcomeIsTheAnswer /\ EntryHasWaiter

\* Every operation that reaches the gate is decided, whether or not a human
\* ever answers, unless its task is dropped; and a request that nobody drops
\* does not stay in the map, answered or not (request_approval, resolve).
EveryRequestEnds ==
    \A r \in Requests :
        /\ <>(outcome[r] # "none" \/ pc[r] = "dropped")
        /\ r \notin Droppable => (r \in pending ~> r \notin pending)

-----------------------------------------------------------------------------
(* Refinement of ApprovalGate: an answer exists from the moment an approver *)
(* owns the sender.                                                         *)

AnswerOf(r) ==
    LET told == {x \in acks : x.req = r}
        held == {p \in Approvers : holding[p].req = r}
    IN  IF told # {} THEN (CHOOSE x \in told : TRUE).decision
        ELSE IF held # {} THEN holding[CHOOSE p \in held : TRUE].decision
        ELSE "none"

VerdictOf(r) ==
    CASE outcome[r] \in Granting -> "granted"
      [] outcome[r] \in {"Denied", "TimedOut"} \/ pc[r] = "dropped" -> "refused"
      [] outcome[r] = "none" /\ pc[r] \in {"gate", "kernel"} -> "open"
      [] OTHER -> "asked"

\* A REST request asks for approval whatever the policy; a tool call requires
\* it when its tool is in the policy and its agent is no registered hand.
Required ==
    {r \in Requests : r \in RestRequests
                         \/ (ToolOf[r] \in policy /\ AgentOf[r] \notin hands)}

Gate == INSTANCE ApprovalGate
            WITH required <- Required,
                 answer <- [r \in Requests |-> AnswerOf(r)],
                 verdict <- [r \in Requests |-> VerdictOf(r)]

\* The manager and its callers implement the gate's promise: a tool runs unasked
\* only when the policy does not name it or its agent is a hand, and one that a
\* human was asked about never runs on a timeout, a lost channel, a full queue
\* or somebody else's answer (execute_tool, request_approval, resolve).
ImplementsGate == Gate!Spec

=============================================================================
