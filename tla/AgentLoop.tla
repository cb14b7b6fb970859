------------------------------ MODULE AgentLoop ------------------------------
(***************************************************************************)
(* One agent's turns, one after the other: run_agent_loop of                *)
(* clawreform-runtime/src/agent_loop.rs, from the stored session to the     *)
(* saved one.  run_agent_loop_streaming takes the same decisions.           *)
(*                                                                          *)
(* A turn works on two histories: the session (work), which is saved, and   *)
(* the messages sent to the model (msgs), which are repaired and trimmed    *)
(* when the turn begins and only extended or trimmed afterwards.  The model *)
(* and the tools are external: any answer they may give is considered.      *)
(***************************************************************************)
EXTENDS SessionRepair, LoopGuard, Functions

CONSTANTS
    UsedCalls,          \* calls the model makes
    DefaultBreaker,     \* global_circuit_breaker of LoopGuardConfig::default
    MaxIterations,      \* max_iterations
    MaxRetries,         \* MAX_RETRIES
    MaxContinuations,   \* MAX_CONTINUATIONS
    MaxCallsPerResponse,\* bound on the calls in one response
    MaxCalls,           \* bound on the calls in all responses
    MaxTurns,           \* bound on the messages the agent receives
    RepairMessages,     \* messages of the histories that repair is checked on
    MaxRepair,          \* bound on their length
    MaxGuarded          \* length of the sequences the guard is checked on

ASSUME UsedCallsType == UsedCalls \subseteq Calls
ASSUME LimitsType ==
    /\ {DefaultBreaker, MaxIterations, MaxRetries, MaxContinuations, MaxCallsPerResponse,
     MaxCalls, MaxTurns, MaxRepair, MaxGuarded} \subseteq Nat
    /\ MaxGuarded # 0
\* Calls come from the assistant, results from the user.
ASSUME RepairMessagesType == RepairMessages \subseteq Proper

VARIABLES
    stored,     \* messages of the session in the database
    turn,       \* messages received so far
    pc,         \* "idle", "loop" (top of an iteration), "llm" or "tools"
    work,       \* session.messages
    msgs,       \* messages
    iter,       \* iteration
    attempt,    \* attempt of call_with_retry
    conts,      \* consecutive_max_tokens
    guard,      \* loop_guard
    calls,      \* calls of the response that are still to be made: call and id
    results,    \* tool_result_blocks
    lastId,     \* identifiers of tool calls given out so far
    reply,      \* what the caller got for the last turn
    executed,   \* history: executions of each call in this turn
    cut         \* history: messages were trimmed in this turn

history == <<executed, cut>>
loop == <<pc, work, msgs, iter, attempt, conts, guard, calls, results>>
vars == <<stored, turn, loop, lastId, reply, history>>

Replies == {"none", "answer", "silent", "partial", "error", "aborted"}
Ids == 0 .. MaxCalls
IsHistory(ms) == DOMAIN ms = 1 .. Len(ms) /\ \A i \in DOMAIN ms : ms[i].role \in {"user", "assistant"}

TypeOK ==
    /\ IsHistory(stored) /\ IsHistory(work) /\ IsHistory(msgs)
    /\ turn \in 0 .. MaxTurns
    /\ pc \in {"idle", "loop", "llm", "tools"}
    /\ iter \in 0 .. MaxIterations
    /\ attempt \in 0 .. MaxRetries
    /\ conts \in Nat
    /\ guard.total \in Nat /\ guard.counts \in [Calls -> Nat]
    /\ calls \in Seq([call : Calls, id : Ids])
    /\ lastId \in Ids /\ reply \in Replies
    /\ executed \in [Calls -> Nat] /\ cut \in BOOLEAN

\* The breaker is scaled for agents with many iterations.
CircuitBreaker == IF MaxIterations > DefaultBreaker THEN MaxIterations * 3 ELSE DefaultBreaker

Init ==
    /\ stored = <<>> /\ turn = 0 /\ lastId = 0 /\ reply = "none"
    /\ pc = "idle" /\ work = <<>> /\ msgs = <<>> /\ iter = 0 /\ attempt = 0 /\ conts = 0
    /\ guard = NewGuard(CircuitBreaker) /\ calls = <<>> /\ results = <<>>
    /\ executed = [c \in Calls |-> 0] /\ cut = FALSE

\* save_session, which replaces the session as a whole, or fails.
Save(ms, ok) == stored' = IF ok THEN ms ELSE stored

\* The turn is over and its task forgets everything.
EndTurn(r) ==
    /\ pc' = "idle" /\ reply' = r
    /\ work' = <<>> /\ msgs' = <<>> /\ iter' = 0 /\ attempt' = 0 /\ conts' = 0
    /\ guard' = NewGuard(CircuitBreaker) /\ calls' = <<>> /\ results' = <<>>
    /\ executed' = [c \in Calls |-> 0] /\ cut' = FALSE
    /\ UNCHANGED <<turn, lastId>>

\* The session is loaded, the question appended and the history repaired.
Begin ==
    LET question == User(<<TextBlock("text", turn + 1)>>)
        repaired == ValidateAndRepair(Append(stored, question))
    IN
    /\ pc = "idle" /\ turn < MaxTurns
    /\ turn' = turn + 1
    /\ work' = Append(stored, question)
    /\ msgs' = TrimHistory(repaired)
    /\ cut' = (TrimHistory(repaired) # repaired)
    /\ pc' = "loop" /\ reply' = "none"
    /\ UNCHANGED <<stored, iter, attempt, conts, guard, calls, results, lastId, executed>>

\* The top of an iteration: recovery from overflow, and the request is sent.
SendRequest ==
    /\ pc = "loop" /\ iter < MaxIterations
    /\ \E ms \in RecoverFromOverflow(msgs) :
         /\ msgs' = ms
         /\ cut' = (cut \/ ms # msgs)
    /\ pc' = "llm" /\ attempt' = 0
    /\ UNCHANGED <<stored, turn, work, iter, conts, guard, calls, results, lastId, reply, executed>>

\* max_iterations: what was said is saved, if it can be, and the turn fails.
GiveUp ==
    /\ pc = "loop" /\ iter >= MaxIterations
    /\ \E ok \in BOOLEAN : Save(work, ok)
    /\ EndTurn("error")

\* Variant for mutation: retries are not counted for good.
RetryForever ==
    /\ pc = "llm"
    /\ attempt' = (attempt + 1) % (MaxRetries + 1)
    /\ UNCHANGED <<stored, turn, pc, work, msgs, iter, conts, guard, calls, results, lastId, reply, history>>

\* A rate limit or overload is retried after a delay ...
RetryRequest ==
    /\ pc = "llm" /\ attempt < MaxRetries
    /\ attempt' = attempt + 1
    /\ UNCHANGED <<stored, turn, pc, work, msgs, iter, conts, guard, calls, results, lastId, reply, history>>

\* ... and any other error, or one too many, ends the turn with nothing saved.
RequestFails ==
    /\ pc = "llm"
    /\ EndTurn("error")
    /\ UNCHANGED stored

NextIteration ==
    /\ pc' = "loop" /\ iter' = iter + 1 /\ attempt' = 0

\* EndTurn or StopSequence with the text NO_REPLY or a silent directive.
AnswerSilent ==
    /\ pc = "llm"
    /\ \E ok \in BOOLEAN :
         /\ Save(Append(work, Assistant(<<TextBlock("noreply", 0)>>)), ok)
         /\ EndTurn(IF ok THEN "silent" ELSE "error")

\* An empty first answer is asked for once more, within the turn.
AnswerEmptyFirst ==
    /\ pc = "llm" /\ iter = 0
    /\ msgs' = msgs \o << Assistant(<<TextBlock("text", 0)>>), User(<<TextBlock("text", 0)>>) >>
    /\ NextIteration
    /\ UNCHANGED <<stored, turn, work, conts, guard, calls, results, lastId, reply, history>>

\* Variant for mutation: a failed save is only logged.
AnswerTextUnsaved ==
    /\ pc = "llm"
    /\ \E ok \in BOOLEAN :
         Save(PruneHeartbeatTurns(Append(work, Assistant(<<TextBlock("text", 0)>>))), ok)
    /\ EndTurn("answer")

\* A text, or a fallback where a later answer is empty.  Tool calls in a
\* response that did not stop for them are ignored.
AnswerText ==
    /\ pc = "llm"
    /\ \E ok \in BOOLEAN :
         /\ Save(PruneHeartbeatTurns(Append(work, Assistant(<<TextBlock("text", 0)>>))), ok)
         /\ EndTurn(IF ok THEN "answer" ELSE "error")

\* ToolUse, or calls recovered from the text.  The content repeats the calls,
\* except where a driver recovered them from an error (content is empty).
AnswerToolUse ==
    /\ pc = "llm"
    /\ \E n \in 0 .. MaxCallsPerResponse, bare \in BOOLEAN : \E cs \in [1 .. n -> UsedCalls] :
         /\ lastId + n <= MaxCalls
         /\ calls' = [k \in 1 .. n |-> [call |-> cs[k], id |-> lastId + k]]
         /\ lastId' = lastId + n
         /\ LET content == IF bare THEN <<>> ELSE [k \in 1 .. n |-> UseBlock(lastId + k)] IN
            /\ work' = Append(work, Assistant(content))
            /\ msgs' = Append(msgs, Assistant(content))
    /\ conts' = 0 /\ results' = <<>> /\ pc' = "tools"
    /\ UNCHANGED <<stored, turn, iter, attempt, guard, reply, history>>

\* One call: refused by the guard or a hook, or executed, which ends with a
\* result, an error or the timeout.  Each of these is a result.
CallTool ==
    /\ pc = "tools" /\ calls # <<>>
    /\ LET c == Head(calls).call
           checked == Check(guard, c)
       IN
       /\ checked.verdict # "break"
       /\ guard' = checked.guard
       /\ \E hooked \in BOOLEAN :
            executed' = IF checked.verdict = "block" \/ hooked THEN executed
                        ELSE [executed EXCEPT ![c] = @ + 1]
       /\ results' = Append(results, ResultBlock(Head(calls).id))
       /\ calls' = Tail(calls)
    /\ UNCHANGED <<stored, turn, pc, work, msgs, iter, attempt, conts, lastId, reply, cut>>

\* The circuit breaker ends the turn before the results of this response are
\* part of the session.
CircuitBreak ==
    /\ pc = "tools" /\ calls # <<>>
    /\ Check(guard, Head(calls).call).verdict = "break"
    /\ \E ok \in BOOLEAN : Save(work, ok)
    /\ EndTurn("error")

\* All calls are made: the results are added and saved, and the loop goes on.
CallsDone ==
    /\ pc = "tools" /\ calls = <<>>
    /\ work' = Append(work, User(results))
    /\ msgs' = Append(msgs, User(results))
    /\ \E ok \in BOOLEAN : Save(Append(work, User(results)), ok)
    /\ NextIteration
    /\ UNCHANGED <<turn, conts, guard, calls, results, lastId, reply, executed, cut>>

\* MaxTokens: the partial text is kept and the model asked to continue ...
AnswerPartial(blank) ==
    /\ pc = "llm" /\ conts + 1 < MaxContinuations
    /\ LET said == IF blank THEN <<>> ELSE << Assistant(<<TextBlock("text", 0)>>) >>
           more == said \o << User(<<TextBlock("text", 0)>>) >>
       IN  work' = work \o more /\ msgs' = msgs \o more
    /\ conts' = conts + 1
    /\ NextIteration
    /\ UNCHANGED <<stored, turn, guard, calls, results, lastId, reply, history>>

\* ... until it was asked too often, and the partial text is the answer.
AnswerPartialLast ==
    /\ pc = "llm" /\ conts + 1 >= MaxContinuations
    /\ \E ok \in BOOLEAN : Save(Append(work, Assistant(<<TextBlock("text", 0)>>)), ok)
    /\ EndTurn("partial")

\* The task is aborted or panics, or the daemon dies: only the database stays.
Abort ==
    /\ pc # "idle"
    /\ EndTurn("aborted")
    /\ UNCHANGED stored

LoopStep ==
    \/ SendRequest \/ GiveUp \/ RetryRequest \/ RequestFails
    \/ AnswerSilent \/ AnswerEmptyFirst \/ AnswerText \/ AnswerToolUse
    \/ (\E blank \in BOOLEAN : AnswerPartial(blank)) \/ AnswerPartialLast
    \/ CallTool \/ CircuitBreak \/ CallsDone

Next == Begin \/ LoopStep \/ Abort

Spec == Init /\ [][Next]_vars

\* The loop goes on by itself; that the model and the tools answer or fail is
\* assumed of them (tools are timed out, the HTTP client of a driver is not).
FairSpec == Spec /\ WF_vars(LoopStep)
-----------------------------------------------------------------------------
(* Properties *)

\* In every request, each call of a tool is answered exactly once, by the
\* message after it, whatever earlier turns left in the database: a crash
\* between the calls, the circuit breaker, a failed save (agent_loop.rs:505).
\* The first request of a turn whose history was not trimmed is one that a
\* provider accepts: repair leaves no orphan, no gap, no two messages of one
\* role, however the stored session came about (session_repair.rs:44).
RequestsAccepted ==
    pc = "llm" => UsesAnsweredIn(msgs) /\ (iter = 0 /\ ~ cut => WellFormed(msgs))

\* A caller that got an answer finds its question and the answer in the
\* database, also after silent turns were pruned (agent_loop.rs:394).  A partial
\* answer is none: its save may have failed (agent_loop.rs:681).
AnsweredIsStored ==
    reply = "answer" =>
        /\ stored # <<>>
        /\ Last(stored) = Assistant(<<TextBlock("text", 0)>>)
        /\ User(<<TextBlock("text", turn)>>) \in ToSet(stored)

\* In one turn no call is executed as often as the threshold that blocks it,
\* and no more calls are executed than the circuit breaker allows, however
\* they are spread over responses (loop_guard.rs:146).
ExecutionsBounded ==
    /\ \A c \in Calls : executed[c] < BlockThreshold * Multiplier(c)
    /\ SumFunction(executed) <= CircuitBreaker

\* About the pure function, evaluated in the initial state: repair turns every history, misplaced, duplicate, missing and orphaned
\* results included, into one a provider accepts, and has nothing to do in
\* one it has repaired (session_repair.rs:44).
RepairIsSound ==
    turn = 0 => \A n \in 0 .. MaxRepair : \A ms \in [1 .. n -> RepairMessages] :
        (\A i, k \in 1 .. n : UsesOf(ms[i]) \cap UsesOf(ms[k]) # {} => i = k) =>
            LET repaired == ValidateAndRepair(ms) IN
            WellFormed(repaired) /\ ValidateAndRepair(repaired) = repaired

\* In a turn the two bounds above hold; and in the initial state, about the pure
\* function: whatever calls are made, none is executed BlockThreshold times, one
\* that ends three rounds of a cycle is executed only if its own count already
\* drew the warning, and one that neither repeats nor ends a cycle is let
\* through (loop_guard.rs:146).
GuardIsSound ==
    /\ ExecutionsBounded
    /\ turn = 0 => \A cs \in [1 .. MaxGuarded -> Calls] :
        LET vs == Verdicts(cs, MaxGuarded - 1)
            ran(k) == vs[k] \in {"allow", "warn"}
            cycle(k, p) == /\ k >= 3 * p
                           /\ \A l \in (k - 2 * p + 1) .. k : cs[l] = cs[l - p]
                           /\ \E l \in (k - p + 1) .. k : cs[l] # cs[k]
            before(k) == Cardinality({l \in 1 .. k : cs[l] = cs[k]})
        IN  /\ \A k \in DOMAIN vs :
                 (cycle(k, 2) \/ cycle(k, 3)) /\ ran(k) =>
                     before(k) >= WarnThreshold * Multiplier(cs[k])
            /\ \A c \in Calls :
                 Cardinality({k \in DOMAIN vs : cs[k] = c /\ ran(k)}) < BlockThreshold * Multiplier(c)
            /\ \A k \in DOMAIN vs :
                 \/ k = MaxGuarded \/ cycle(k, 2) \/ cycle(k, 3)
                 \/ before(k) >= WarnThreshold * Multiplier(cs[k])
                 \/ vs[k] = "allow"
            /\ vs[Len(vs)] = "break" /\ Len(vs) = MaxGuarded

\* A question that was saved leaves the database only if the agent chose not
\* to answer it (session_repair.rs:616).
OnlySilentTurnsVanish ==
    [][\A i \in DOMAIN stored : \A t \in 1 .. MaxTurns :
          /\ stored[i] = User(<<TextBlock("text", t)>>)
          /\ stored[i] \notin ToSet(stored')
          => i < Len(stored) /\ IsNoReply(stored[i + 1])]_vars

\* Every turn ends (agent_loop.rs:250).
TurnEnds == (pc # "idle") ~> (pc = "idle")
=============================================================================
