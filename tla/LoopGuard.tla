------------------------------ MODULE LoopGuard ------------------------------
(***************************************************************************)
(* The guard of the agent loop against calls that repeat                    *)
(* (clawreform-runtime/src/loop_guard.rs).  A call stands for the hash of a *)
(* tool's name and parameters.  Outcomes are not recorded by any caller, so *)
(* no call is ever blocked for its outcome.                                 *)
(***************************************************************************)
EXTENDS Integers, Sequences, FiniteSets

CONSTANTS
    Calls,              \* distinct calls
    PollCalls,          \* those that is_poll_call recognises
    WarnThreshold,
    BlockThreshold,
    PollMultiplier,
    MinRepeats,         \* ping_pong_min_repeats
    MaxWarnings,        \* max_warnings_per_call
    HistorySize         \* HISTORY_SIZE

\* There are finitely many hashes.
ASSUME CallsFinite == IsFiniteSet(Calls)
ASSUME PollCallsType == PollCalls \subseteq Calls
ASSUME ThresholdsType ==
    /\ {WarnThreshold, MinRepeats, MaxWarnings} \subseteq Nat
    /\ {BlockThreshold, PollMultiplier, HistorySize} \subseteq Nat \ {0}
\* The only configuration in use, LoopGuardConfig::default, has 3, 5 and 3, and
\* HISTORY_SIZE is 30: a cycle is seen while it is remembered, and blocked as
\* soon as it is seen.
ASSUME DefaultsOrdered ==
    /\ WarnThreshold <= BlockThreshold
    /\ MinRepeats <= 3 /\ HistorySize >= 9

\* breaker is the guard's global_circuit_breaker, the rest of its
\* configuration is the same for every guard.
Guard == [breaker : Nat, total : Nat, counts : [Calls -> Nat], recent : Seq(Calls),
          warned : [Calls -> Nat], pingWarned : [Calls -> Nat]]

NewGuard(breaker) ==
    [breaker |-> breaker, total |-> 0, counts |-> [c \in Calls |-> 0], recent |-> <<>>,
     warned |-> [c \in Calls |-> 0], pingWarned |-> [c \in Calls |-> 0]]

Multiplier(c) == IF c \in PollCalls THEN PollMultiplier ELSE 1

\* recent ends in n rounds of one pattern of p calls that are not all the same.
Cycle(recent, p, n) ==
    LET len == Len(recent) IN
    /\ len >= p * n
    /\ \A k \in 1 .. (p * (n - 1)) : recent[len + 1 - k] = recent[len + 1 - k - p]
    /\ \E k \in 1 .. p : recent[len + 1 - k] # recent[len]

PingPong(recent) == Cycle(recent, 2, 3) \/ Cycle(recent, 3, 3)

\* Full rounds of the pattern that recent ends in, two calls before three.
Repeats(recent) ==
    LET rounds(p) == {n \in 2 .. Len(recent) : Cycle(recent, p, n)}
        most(S) == CHOOSE n \in S : \A k \in S : k <= n
    IN  IF rounds(2) # {} THEN most(rounds(2))
        ELSE IF rounds(3) # {} THEN most(rounds(3)) ELSE 0

Remember(recent, c) ==
    Append(IF Len(recent) >= HistorySize THEN Tail(recent) ELSE recent, c)

\* Variant for mutation: a call is blocked one time too late.
VerdictLate(g, c, total, count, recent) ==
    IF total > g.breaker THEN "break"
    ELSE IF count > BlockThreshold * Multiplier(c) THEN "block" ELSE "allow"

Verdict(g, c, total, count, recent) ==
    IF total > g.breaker THEN "break"
    ELSE IF count >= BlockThreshold * Multiplier(c) THEN "block"
    ELSE IF count >= WarnThreshold * Multiplier(c)
         THEN IF g.warned[c] + 1 > MaxWarnings THEN "block" ELSE "warn"
    ELSE IF PingPong(recent)
         THEN IF Repeats(recent) >= MinRepeats THEN "block"
              ELSE IF g.pingWarned[c] + 1 <= MaxWarnings THEN "warn" ELSE "allow"
    ELSE "allow"

\* check: the verdict on call c, and the guard afterwards.
Check(g, c) ==
    LET total == g.total + 1
        count == g.counts[c] + 1
        recent == Remember(g.recent, c)
        slow == count >= WarnThreshold * Multiplier(c) /\ count < BlockThreshold * Multiplier(c)
        ping == count < WarnThreshold * Multiplier(c) /\ count < BlockThreshold * Multiplier(c)
                /\ PingPong(recent) /\ Repeats(recent) < MinRepeats
    IN  [verdict |-> Verdict(g, c, total, count, recent),
         guard |-> IF total > g.breaker THEN [g EXCEPT !.total = total]
                   ELSE [g EXCEPT !.total = total,
                                  !.counts[c] = count,
                                  !.recent = recent,
                                  !.warned[c] = IF slow THEN @ + 1 ELSE @,
                                  !.pingWarned[c] = IF ping THEN @ + 1 ELSE @]]

\* A run of the guard, up to the call that breaks.
Ready(breaker) == [guard |-> NewGuard(breaker), broken |-> FALSE, verdicts |-> <<>>]
Ruled(acc, c) ==
    IF acc.broken THEN acc
    ELSE LET r == Check(acc.guard, c) IN
         [guard |-> r.guard, broken |-> r.verdict = "break", verdicts |-> Append(acc.verdicts, r.verdict)]

\* The verdicts on a whole sequence of calls, up to the one that breaks.
Verdicts(cs, breaker) ==
    LET run[n \in 0 .. Len(cs)] == IF n = 0 THEN Ready(breaker) ELSE Ruled(run[n - 1], cs[n])
    IN  run[Len(cs)].verdicts
=============================================================================
