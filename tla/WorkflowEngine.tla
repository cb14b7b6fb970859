--------------------------- MODULE WorkflowEngine ---------------------------
(***************************************************************************)
(* The workflow engine (clawreform-kernel/src/workflow.rs) and the kernel's *)
(* run_workflow, which creates a run, executes it and gives up on it after  *)
(* an hour.                                                                 *)
(*                                                                          *)
(* Runs are executed concurrently, each by the task that created it; they   *)
(* share the map of runs and the agents.  A task can be dropped whenever it *)
(* awaits: by the hour's timeout, or with the HTTP request it serves.       *)
(***************************************************************************)
EXTENDS Integers, Sequences, FiniteSets

CONSTANTS
    Runs,           \* run identifiers
    Agents,         \* agents that steps are routed to
    Workflows,      \* registered definitions; no caller removes one
    StepsOf,        \* StepsOf[w]: the steps of w
    WorkflowOf,     \* WorkflowOf[r]: the definition r is created from
    Outputs,        \* answers of agents
    Answers,        \* Answers[a]: what agent a may answer
    Mortal,         \* agents that may be killed
    Droppable,      \* runs whose caller may give up
    MaxRetained,    \* MAX_RETAINED_RUNS
    MaxActive       \* bound on the runs that are executed at one time

Modes == {"sequential", "fan_out", "collect", "conditional", "loop"}
ErrorModes == {"fail", "skip", "retry"}

\* A WorkflowStep; match holds the answers that contain the condition of a
\* Conditional or the until of a Loop, rounds is max_iterations.
Step == [mode : Modes, agent : Agents, onError : ErrorModes, retries : Nat,
         match : SUBSET Outputs, rounds : Nat]

ASSUME RunsFinite == IsFiniteSet(Runs)
ASSUME StepsType == StepsOf \in [Workflows -> Seq(Step)]
ASSUME WorkflowOfType == WorkflowOf \in [Runs -> Workflows]
ASSUME OutputsType == Outputs \cap {"request", "waiting", "failed"} = {}
ASSUME AnswersType == Answers \in [Agents -> SUBSET Outputs]
ASSUME ScopeType == Mortal \subseteq Agents /\ Droppable \subseteq Runs
ASSUME BoundsType == MaxRetained \in Nat /\ MaxActive \in Nat

VARIABLES
    agents,         \* agents in the registry
    state,          \* state[r]: WorkflowRunState, "none" or "evicted"
    born,           \* born[r]: place of started_at in the order of creations
    results,        \* results[r]: step_results, the step and the output
    pc,             \* pc[r]: where the task executing r is
    step,           \* step[r]: i, the step it is at
    attempt,        \* attempt[r]: failed attempts of the current call
    round,          \* round[r]: finished iterations of the current loop
    input,          \* input[r]: current_input, as the answers it is made of
    outs,           \* outs[r]: all_outputs, joined
    fan,            \* fan[r]: results of the calls of a fan-out group
    reply,          \* reply[r]: what the caller of run_workflow got
    unresolved      \* history: runs left at a step whose agent was not found

record == <<state, born, results>>
data == <<input, outs>>
vars == <<agents, record, pc, step, attempt, round, data, fan, reply, unresolved>>

Present == {r \in Runs : state[r] \notin {"none", "evicted"}}
Ended(r) == state[r] \in {"completed", "failed"}

\* created: before execute_run; ready: at the top of the loop over the steps;
\* calling: awaiting an agent; looping: between two iterations of a Loop step;
\* fanning: awaiting a fan-out group.
Executing == {"created", "ready", "calling", "looping", "fanning"}
Active == {r \in Runs : pc[r] \in Executing}

Results == [step : Nat, out : Outputs]
Text == Seq(Outputs \cup {"request"})

StepsIn(r) == StepsOf[WorkflowOf[r]]
CurrentStep(r) == StepsIn(r)[step[r]]

TypeOK ==
    /\ agents \subseteq Agents
    /\ state \in [Runs -> {"none", "pending", "running", "completed", "failed",
                           "evicted"}]
    /\ born \in [Runs -> Nat]
    /\ results \in [Runs -> Seq(Results)]
    /\ pc \in [Runs -> {"none", "returned"} \cup Executing]
    /\ step \in [Runs -> Nat \ {0}]
    /\ attempt \in [Runs -> Nat] /\ round \in [Runs -> Nat]
    /\ input \in [Runs -> Text] /\ outs \in [Runs -> Text]
    /\ reply \in [Runs -> {"none", "ok", "failed", "dropped"}]
    /\ unresolved \subseteq Runs
    /\ \A r \in Runs :
          /\ pc[r] \in {"calling", "looping", "fanning"} =>
                step[r] <= Len(StepsIn(r))
          /\ pc[r] = "calling" =>
                attempt[r] <= CurrentStep(r).retries
          /\ pc[r] \in {"calling", "looping"} =>
                round[r] <= CurrentStep(r).rounds
          /\ DOMAIN fan[r] \subseteq 1..Len(StepsIn(r))
          /\ \A k \in DOMAIN fan[r] : fan[r][k] \in Outputs \cup {"waiting", "failed"}

Init ==
    /\ agents = Agents
    /\ state = [r \in Runs |-> "none"]
    /\ born = [r \in Runs |-> 0]
    /\ results = [r \in Runs |-> <<>>]
    /\ pc = [r \in Runs |-> "none"]
    /\ step = [r \in Runs |-> 1]
    /\ attempt = [r \in Runs |-> 0]
    /\ round = [r \in Runs |-> 0]
    /\ input = [r \in Runs |-> <<>>]
    /\ outs = [r \in Runs |-> <<>>]
    /\ fan = [r \in Runs |-> <<>>]
    /\ reply = [r \in Runs |-> "none"]
    /\ unresolved = {}

-----------------------------------------------------------------------------
(* Creating runs *)

\* A variant that leaves failed runs out of the count.
VictimsCompletedOnly(r) ==
    LET ended == {q \in Present : state[q] = "completed"}
        excess == Cardinality(Present \cup {r}) - MaxRetained
    IN  {q \in ended : Cardinality({p \in ended : born[p] < born[q]}) < excess}

\* A variant that takes the oldest runs whatever their state.
VictimsAny(r) ==
    LET excess == Cardinality(Present \cup {r}) - MaxRetained
    IN  {q \in Present : Cardinality({p \in Present : born[p] < born[q]}) < excess}

\* A variant that sorts the other way round.
VictimsNewest(r) ==
    LET ended == {q \in Present : Ended(q)}
        excess == Cardinality(Present \cup {r}) - MaxRetained
    IN  {q \in ended : Cardinality({p \in ended : born[p] > born[q]}) < excess}

\* The runs that create_run evicts when r is one more: as many as are in excess,
\* the oldest completed or failed ones, or all of these if there are too few.
Victims(r) ==
    LET ended == {q \in Present : Ended(q)}
        excess == Cardinality(Present \cup {r}) - MaxRetained
    IN  {q \in ended : Cardinality({p \in ended : born[p] < born[q]}) < excess}

\* create_run, under the write lock of the map.
Create(r) ==
    /\ state[r] = "none"
    /\ Cardinality(Active) < MaxActive
    /\ state' = [q \in Runs |-> IF q = r THEN "pending"
                               ELSE IF q \in Victims(r) THEN "evicted" ELSE state[q]]
    /\ results' = [q \in Runs |-> IF q \in Victims(r) THEN <<>> ELSE results[q]]
    /\ born' = [born EXCEPT ![r] = Cardinality({q \in Runs : state[q] # "none"})]
    /\ pc' = [pc EXCEPT ![r] = "created"]
    /\ UNCHANGED <<agents, step, attempt, round, data, fan, reply, unresolved>>

-----------------------------------------------------------------------------
(* execute_run: from step to step *)

At(r, from, to) ==
    /\ pc[r] = from
    /\ pc' = [pc EXCEPT ![r] = to]

\* On to step k; the counters of the call belong to one step.
GoTo(r, k) ==
    /\ step' = [step EXCEPT ![r] = k]
    /\ attempt' = [attempt EXCEPT ![r] = 0]
    /\ round' = [round EXCEPT ![r] = 0]

Stay == UNCHANGED <<step, attempt, round>>

\* execute_run is left, by a return or by being dropped; its locals are gone.
Leave(r, from, answer) ==
    /\ At(r, from, "returned")
    /\ reply' = [reply EXCEPT ![r] = answer]
    /\ input' = [input EXCEPT ![r] = <<>>]
    /\ outs' = [outs EXCEPT ![r] = <<>>]
    /\ fan' = [fan EXCEPT ![r] = <<>>]
    /\ GoTo(r, 1)

Begin(r) ==
    /\ At(r, "created", "ready")
    /\ state' = [state EXCEPT ![r] = "running"]
    /\ input' = [input EXCEPT ![r] = <<"request">>]
    /\ Stay
    /\ UNCHANGED <<agents, born, results, outs, fan, reply, unresolved>>

\* Past the last step: the run is marked completed.
Finish(r) ==
    /\ step[r] > Len(StepsIn(r))
    /\ Leave(r, "ready", "ok")
    /\ state' = [state EXCEPT ![r] = "completed"]
    /\ UNCHANGED <<agents, born, results, unresolved>>

\* The run is marked failed and execute_run returns the error.
Fail(r, from) ==
    /\ Leave(r, from, "failed")
    /\ state' = [state EXCEPT ![r] = "failed"]
    /\ UNCHANGED unresolved

\* At the top of the loop with a step of mode m ahead.
Ahead(r, m) ==
    /\ pc[r] = "ready"
    /\ step[r] <= Len(StepsIn(r))
    /\ CurrentStep(r).mode = m

Contains(text, answers) == \E k \in DOMAIN text : text[k] \in answers

\* The step ahead wants an agent called: any but a Conditional whose condition
\* the input does not contain.
Wants(r) ==
    \/ Ahead(r, "sequential")
    \/ Ahead(r, "loop")
    \/ Ahead(r, "conditional") /\ Contains(input[r], CurrentStep(r).match)

\* The agent is resolved and the prompt sent, or the iterations begin.
Resolve(r) ==
    /\ Wants(r)
    /\ CurrentStep(r).agent \in agents
    /\ At(r, "ready", IF CurrentStep(r).mode = "loop" THEN "looping" ELSE "calling")
    /\ Stay
    /\ UNCHANGED <<agents, record, data, fan, reply, unresolved>>

Group(r) ==
    {k \in step[r]..Len(StepsIn(r)) :
        \A n \in step[r]..k : StepsIn(r)[n].mode = "fan_out"}

\* A variant that marks the run completed with what it has so far.
AgentMissingCompletes(r) ==
    /\ \/ Wants(r) /\ CurrentStep(r).agent \notin agents
       \/ /\ Ahead(r, "fan_out")
          /\ \E k \in Group(r) : StepsIn(r)[k].agent \notin agents
    /\ Leave(r, "ready", "failed")
    /\ state' = [state EXCEPT ![r] = "completed"]
    /\ UNCHANGED <<agents, born, results, unresolved>>

\* Agent not found: the error is returned with ?, past the code that marks the
\* run failed, and reaches the caller like any other failure.
AgentMissing(r) ==
    /\ \/ Wants(r) /\ CurrentStep(r).agent \notin agents
       \/ /\ Ahead(r, "fan_out")
          /\ \E k \in Group(r) : StepsIn(r)[k].agent \notin agents
    /\ Leave(r, "ready", "failed")
    /\ unresolved' = unresolved \cup {r}
    /\ UNCHANGED <<agents, record>>

SkipConditional(r) ==
    /\ Ahead(r, "conditional")
    /\ ~Contains(input[r], CurrentStep(r).match)
    /\ GoTo(r, step[r] + 1)
    /\ UNCHANGED <<agents, record, pc, data, fan, reply, unresolved>>

\* A variant that goes on with the answer of the last step.
CollectNothing(r) ==
    /\ Ahead(r, "collect")
    /\ GoTo(r, step[r] + 1)
    /\ UNCHANGED <<agents, record, pc, data, fan, reply, unresolved>>

\* all_outputs joined become the input, and the only element of all_outputs.
Collect(r) ==
    /\ Ahead(r, "collect")
    /\ input' = [input EXCEPT ![r] = outs[r]]
    /\ GoTo(r, step[r] + 1)
    /\ UNCHANGED <<agents, record, pc, outs, fan, reply, unresolved>>

-----------------------------------------------------------------------------
(* Calls of one agent *)

\* An iteration of a Loop step begins, or the last one is over: the loop leaves
\* one element in all_outputs.
LoopTest(r) ==
    \/ /\ At(r, "looping", "calling")
       /\ round[r] < CurrentStep(r).rounds
       /\ Stay
       /\ UNCHANGED <<agents, record, data, fan, reply, unresolved>>
    \/ /\ At(r, "looping", "ready")
       /\ round[r] >= CurrentStep(r).rounds
       /\ outs' = [outs EXCEPT ![r] = @ \o input[r]]
       /\ GoTo(r, step[r] + 1)
       /\ UNCHANGED <<agents, record, input, fan, reply, unresolved>>

\* The agent answers o.  An agent that is killed meanwhile may still do so.
CallSucceeds(r, o) ==
    /\ pc[r] = "calling"
    /\ o \in Answers[CurrentStep(r).agent]
    /\ results' = [results EXCEPT ![r] = Append(@, [step |-> step[r], out |-> o])]
    /\ input' = [input EXCEPT ![r] = <<o>>]
    /\ \/ /\ CurrentStep(r).mode = "loop" /\ o \notin CurrentStep(r).match
          /\ At(r, "calling", "looping")
          /\ round' = [round EXCEPT ![r] = @ + 1]
          /\ attempt' = [attempt EXCEPT ![r] = 0]
          /\ UNCHANGED <<step, outs>>
       \/ /\ CurrentStep(r).mode = "loop" => o \in CurrentStep(r).match
          /\ At(r, "calling", "ready")
          /\ outs' = [outs EXCEPT ![r] = Append(@, o)]
          /\ GoTo(r, step[r] + 1)
    /\ UNCHANGED <<agents, state, born, fan, reply, unresolved>>

\* The step is given up and its input goes on to the next one; a Loop stops
\* iterating.
SkipStep(r) ==
    /\ At(r, "calling", "ready")
    /\ outs' = IF CurrentStep(r).mode = "loop"
               THEN [outs EXCEPT ![r] = @ \o input[r]] ELSE outs
    /\ GoTo(r, step[r] + 1)
    /\ UNCHANGED <<agents, record, input, fan, reply, unresolved>>

Retry(r) ==
    /\ pc[r] = "calling"
    /\ attempt' = [attempt EXCEPT ![r] = @ + 1]
    /\ UNCHANGED <<agents, record, pc, step, round, data, fan, reply, unresolved>>

GiveUp(r) ==
    /\ Fail(r, "calling")
    /\ UNCHANGED <<agents, born, results>>

\* A variant that skips the step when the retries are used up.
CallFailsThenSkips(r) ==
    /\ pc[r] = "calling"
    /\ \/ /\ \/ CurrentStep(r).onError = "skip"
             \/ /\ CurrentStep(r).onError = "retry"
                /\ attempt[r] >= CurrentStep(r).retries
          /\ SkipStep(r)
       \/ /\ CurrentStep(r).onError = "retry"
          /\ attempt[r] < CurrentStep(r).retries
          /\ Retry(r)
       \/ CurrentStep(r).onError = "fail" /\ GiveUp(r)

\* A variant that forgets to go on to the next step after a skipped one.
CallFailsStays(r) ==
    /\ pc[r] = "calling"
    /\ \/ /\ CurrentStep(r).onError = "skip"
          /\ At(r, "calling", "ready")
          /\ Stay
          /\ UNCHANGED <<agents, record, data, fan, reply, unresolved>>
       \/ CurrentStep(r).onError # "skip" /\ GiveUp(r)

\* The call fails or times out (execute_step_with_error_mode).
CallFails(r) ==
    /\ pc[r] = "calling"
    /\ \/ CurrentStep(r).onError = "skip" /\ SkipStep(r)
       \/ /\ CurrentStep(r).onError = "retry"
          /\ attempt[r] < CurrentStep(r).retries
          /\ Retry(r)
       \/ /\ \/ CurrentStep(r).onError = "fail"
             \/ /\ CurrentStep(r).onError = "retry"
                /\ attempt[r] >= CurrentStep(r).retries
          /\ GiveUp(r)

-----------------------------------------------------------------------------
(* Fan-out groups *)

\* The consecutive FanOut steps are called together, whatever their error mode.
FanOut(r) ==
    /\ Ahead(r, "fan_out")
    /\ \A k \in Group(r) : StepsIn(r)[k].agent \in agents
    /\ At(r, "ready", "fanning")
    /\ fan' = [fan EXCEPT ![r] = [k \in Group(r) |-> "waiting"]]
    /\ Stay
    /\ UNCHANGED <<agents, record, data, reply, unresolved>>

FanEnds(r, k, result) ==
    /\ pc[r] = "fanning"
    /\ k \in DOMAIN fan[r]
    /\ fan[r][k] = "waiting"
    /\ result \in Answers[StepsIn(r)[k].agent] \cup {"failed"}
    /\ fan' = [fan EXCEPT ![r][k] = result]
    /\ UNCHANGED <<agents, record, pc, step, attempt, round, data, reply, unresolved>>

Joined(r) ==
    /\ pc[r] = "fanning"
    /\ \A k \in DOMAIN fan[r] : fan[r][k] # "waiting"

\* Results are recorded in the order of the steps, up to the first failure.
Recorded(r) ==
    {k \in DOMAIN fan[r] : \A n \in DOMAIN fan[r] : n <= k => fan[r][n] # "failed"}

NewResults(r) ==
    [n \in 1..Cardinality(Recorded(r)) |->
        [step |-> step[r] + n - 1, out |-> fan[r][step[r] + n - 1]]]

\* A variant that marks the run failed and goes on.
JoinedGoesOn(r) ==
    /\ Joined(r)
    /\ results' = [results EXCEPT ![r] = @ \o NewResults(r)]
    /\ state' = IF Recorded(r) = DOMAIN fan[r] THEN state
                ELSE [state EXCEPT ![r] = "failed"]
    /\ At(r, "fanning", "ready")
    /\ fan' = [fan EXCEPT ![r] = <<>>]
    /\ GoTo(r, step[r] + Cardinality(DOMAIN fan[r]))
    /\ UNCHANGED <<agents, born, data, reply, unresolved>>

\* Everything has answered: go past the group, or fail.
Join(r) ==
    /\ Joined(r)
    /\ results' = [results EXCEPT ![r] = @ \o NewResults(r)]
    /\ \/ /\ Recorded(r) = DOMAIN fan[r]
          /\ At(r, "fanning", "ready")
          /\ fan' = [fan EXCEPT ![r] = <<>>]
          /\ input' = [input EXCEPT ![r] =
                           <<fan[r][step[r] + Cardinality(Recorded(r)) - 1]>>]
          /\ outs' = [outs EXCEPT ![r] =
                          @ \o [n \in DOMAIN NewResults(r) |-> NewResults(r)[n].out]]
          /\ GoTo(r, step[r] + Cardinality(DOMAIN fan[r]))
          /\ UNCHANGED <<state, reply, unresolved>>
       \/ /\ Recorded(r) # DOMAIN fan[r]
          /\ Fail(r, "fanning")
    /\ UNCHANGED <<agents, born>>

-----------------------------------------------------------------------------
(* The environment *)

\* The hour is over, or the request that the task serves is given up: the task
\* is dropped where it awaits and nobody touches the run again.
Drop(r) ==
    /\ r \in Droppable /\ pc[r] \in Executing
    /\ Leave(r, pc[r], "dropped")
    /\ UNCHANGED <<agents, record, unresolved>>

KillAgent(a) ==
    /\ a \in agents \cap Mortal
    /\ agents' = agents \ {a}
    /\ UNCHANGED <<record, pc, step, attempt, round, data, fan, reply, unresolved>>

Execute(r) ==
    \/ Begin(r)
    \/ Finish(r)
    \/ Resolve(r)
    \/ AgentMissing(r)
    \/ SkipConditional(r)
    \/ Collect(r)
    \/ LoopTest(r)
    \/ \E o \in Outputs : CallSucceeds(r, o)
    \/ CallFails(r)
    \/ FanOut(r)
    \/ \E k \in DOMAIN fan[r], x \in Outputs \cup {"failed"} : FanEnds(r, k, x)
    \/ Join(r)

Next ==
    \/ \E r \in Runs : Create(r) \/ Execute(r) \/ Drop(r)
    \/ \E a \in Agents : KillAgent(a)

Spec == Init /\ [][Next]_vars

\* The runtime polls the task of a run, and every call of an agent is under a
\* timeout of its own.
Fairness == \A r \in Runs : WF_vars(Execute(r))

FairSpec == Spec /\ Fairness

-----------------------------------------------------------------------------
(* Properties *)

\* The run a task is executing stays in the map, in the state the task put it
\* in, however many runs are created and evicted meanwhile (create_run).
ActiveRunsRetained ==
    \A r \in Runs :
        /\ pc[r] = "created" => state[r] = "pending"
        /\ pc[r] \in Executing \ {"created"} => state[r] = "running"

\* What the caller was told is what the run says for as long as it is kept, with
\* one exception: a run left at a step whose agent could not be resolved failed
\* for its caller and stays Running in the record (execute_run).
RepliesMatchRecords ==
    \A r \in Present :
        /\ reply[r] = "ok" <=> state[r] = "completed"
        /\ state[r] = "failed" => reply[r] = "failed"
        /\ reply[r] = "failed" =>
              state[r] = IF r \in unresolved THEN "running" ELSE "failed"

\* What a record says of its run is true, to the task that executes it and to
\* whoever asked for it, unless an agent was missing (create_run, execute_run).
RecordsAreTrue == ActiveRunsRetained /\ RepliesMatchRecords

ResultsOf(r, k) == {n \in DOMAIN results[r] : results[r][n].step = k}

\* A completed run has one result for every step it could not skip, at most one
\* for a step it could, and no more than max_iterations for a loop; results are
\* in the order of the steps (execute_run, execute_step_with_error_mode).
CompletedRunsAreWhole ==
    \A r \in Present :
        /\ \A n \in 2..Len(results[r]) : results[r][n - 1].step <= results[r][n].step
        /\ \A k \in DOMAIN StepsIn(r) :
              LET s == StepsIn(r)[k]
                  count == Cardinality(ResultsOf(r, k))
              IN  /\ count <= IF s.mode = "loop" THEN s.rounds ELSE 1
                  /\ ( /\ state[r] = "completed"
                       /\ \/ s.mode = "fan_out"
                          \/ s.mode = "sequential" /\ s.onError # "skip")
                     => count = 1

\* Between steps the input is the last answer or, behind a Collect, a text that
\* ends with the answers of the fan-out group before it, in the order of the
\* steps.  A Loop that got no answer in between says nothing new, and what is
\* collected has the last input once more at its end (execute_run).
InputIsLatest ==
    \A r \in Runs :
        LET n == Len(results[r])
            last == IF n = 0 THEN 0 ELSE results[r][n].step
            behind(m) == \E k \in last + 1..step[r] - 1 : StepsIn(r)[k].mode = m
            group == {k \in 1..n : \A i \in results[r][k].step..last :
                                      StepsIn(r)[i].mode = "fan_out"}
            tail == Len(input[r]) - Cardinality(group)
        IN  pc[r] \in {"ready", "calling", "looping"} =>
               /\ ~ behind("collect") =>
                     input[r] = IF n = 0 THEN <<"request">> ELSE <<results[r][n].out>>
               /\ behind("collect") /\ ~ behind("loop") =>
                     /\ tail >= 0
                     /\ \A i \in 1..Cardinality(group) :
                           input[r][tail + i] =
                              results[r][n - Cardinality(group) + i].out

\* Runs whose task is gone and that are neither completed nor failed.
Stranded == {r \in Present : pc[r] = "returned" /\ ~Ended(r)}

\* The map holds no more than MaxRetained runs, or than the runs that cannot be
\* evicted: those in execution and those that were left behind (create_run).
RetentionBounded ==
    \/ Cardinality(Present) <= MaxRetained
    \/ Cardinality(Present) <= MaxActive + Cardinality(Stranded)

\* "The oldest completed or failed runs are evicted": an ended run leaves the
\* map only before every ended run that was created after it (create_run).
OldestEndedEvicted ==
    [][\A r \in Present \ Present', q \in Present' :
          Ended(q) => born[r] < born[q]]_vars

\* Every run that is created is executed to an end or given up: skipping,
\* retrying, looping and fanning out all come to an end, as long as every call
\* of an agent does (execute_run).
EveryRunReturns ==
    \A r \in Runs : pc[r] = "created" ~> pc[r] = "returned"

=============================================================================
