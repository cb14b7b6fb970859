---------------------------- MODULE SessionRepair ----------------------------
(***************************************************************************)
(* What happens to a message history before it is sent to a model: the     *)
(* repair of clawreform-runtime/src/session_repair.rs, the trim of          *)
(* agent_loop.rs, and the overflow recovery of context_overflow.rs; and the *)
(* pruning of silent turns before a history is saved.                       *)
(*                                                                          *)
(* A message is a role and a sequence of blocks; the Text form of a content *)
(* is the sequence of its one text block, and empty text is no block.  The  *)
(* texts that the code tells apart are "text", "blank" (white space only)   *)
(* and "noreply" (NO_REPLY and what is stored for it).                      *)
(***************************************************************************)
EXTENDS Integers, Sequences, SequencesExt, FiniteSetsExt

CONSTANTS
    KeepRecent,     \* keep_recent of prune_heartbeat_turns
    MaxHistory,     \* MAX_HISTORY_MESSAGES
    KeepModerate,   \* messages kept by stage 1 of the overflow recovery
    KeepAggressive  \* messages kept by stage 2

ASSUME KeepsType == {KeepRecent, MaxHistory, KeepModerate, KeepAggressive} \subseteq Nat

\* Messages with blocks in B.
Blocks == [kind : {"text", "blank", "noreply", "use", "result"}, id : Nat]
Messages(B) == [role : {"user", "assistant"}, blocks : Seq(B)]

TextBlock(kind, id) == [kind |-> kind, id |-> id]
UseBlock(id) == [kind |-> "use", id |-> id]
ResultBlock(id) == [kind |-> "result", id |-> id]
User(blocks) == [role |-> "user", blocks |-> blocks]
Assistant(blocks) == [role |-> "assistant", blocks |-> blocks]

IdsOf(m, kind) == {m.blocks[j].id : j \in {k \in DOMAIN m.blocks : m.blocks[k].kind = kind}}
UsesOf(m) == IdsOf(m, "use")
ResultsOf(m) == IdsOf(m, "result")
AllUses(ms) == UNION {UsesOf(ms[i]) : i \in DOMAIN ms}
AllResults(ms) == UNION {ResultsOf(ms[i]) : i \in DOMAIN ms}
\* The calls are the assistant's and the results the user's.
Proper == {m \in Messages(Blocks) : IF m.role = "user" THEN UsesOf(m) = {} ELSE ResultsOf(m) = {}}

-----------------------------------------------------------------------------
(* validate_and_repair, phase by phase *)

\* The elements of s at the indices in I, in order (Vec::retain by index).
Retain(s, I) ==
    LET kept[n \in 0 .. Len(s)] ==
            IF n = 0 THEN <<>>
            ELSE IF n \in I THEN Append(kept[n - 1], s[n]) ELSE kept[n - 1]
    IN  kept[Len(s)]
DropEmpty(ms) == Retain(ms, {i \in DOMAIN ms : ms[i].blocks # <<>>})
\* Message i keeps the blocks j for which Keep(i, j).
KeepBlocks(ms, Keep(_, _)) ==
    [i \in DOMAIN ms |-> [ms[i] EXCEPT !.blocks =
        Retain(ms[i].blocks, {j \in DOMAIN ms[i].blocks : Keep(i, j)})]]

DropOrphans(ms) ==
    DropEmpty(KeepBlocks(ms, LAMBDA i, j :
        ms[i].blocks[j].kind = "result" => ms[i].blocks[j].id \in AllUses(ms)))

\* The blocks in after[i] go to the message after i if it is the user's, and
\* to a new message of the user otherwise.
PlaceAfter(ms, after) ==
    FlattenSeq([i \in DOMAIN ms |->
        LET taken == i > 1 /\ ms[i].role = "user"
            given == i < Len(ms) /\ ms[i + 1].role = "user"
        IN  << IF taken THEN [ms[i] EXCEPT !.blocks = @ \o after[i - 1]] ELSE ms[i] >>
            \o IF after[i] = <<>> \/ given THEN <<>> ELSE << User(after[i]) >>])

\* The assistant message that holds the use of a result: the last, if several do.
UseAt(ms, id) == LET at == {i \in DOMAIN ms : ms[i].role = "assistant" /\ id \in UsesOf(ms[i])}
                 IN  IF at = {} THEN 0 ELSE Max(at)
Misplaced(ms, i, j) ==
    LET b == ms[i].blocks[j] IN
    /\ ms[i].role = "user" /\ b.kind = "result"
    /\ UseAt(ms, b.id) # 0 /\ i # UseAt(ms, b.id) + 1

\* Variant for mutation: results stay where they are.
ReorderNothing(ms) == ms
ReorderResults(ms) ==
    LET moved(a) == FlattenSeq([i \in DOMAIN ms |->
            Retain(ms[i].blocks, {j \in DOMAIN ms[i].blocks :
                Misplaced(ms, i, j) /\ UseAt(ms, ms[i].blocks[j].id) = a})])
        stripped == KeepBlocks(ms, LAMBDA i, j : ~ Misplaced(ms, i, j))
        left == Retain([i \in DOMAIN ms |-> i], {i \in DOMAIN ms : stripped[i].blocks # <<>>})
    IN  PlaceAfter([n \in DOMAIN left |-> stripped[left[n]]],
                   [n \in DOMAIN left |-> moved(left[n])])

\* Variant for mutation: a call without a result is left alone.
InsertNothing(ms) == ms
InsertSynthetic(ms) ==
    PlaceAfter(ms, [i \in DOMAIN ms |->
        LET missing == Retain(ms[i].blocks, {j \in DOMAIN ms[i].blocks :
                /\ ms[i].role = "assistant" /\ ms[i].blocks[j].kind = "use"
                /\ ms[i].blocks[j].id \notin AllResults(ms)})
        IN  [n \in DOMAIN missing |-> ResultBlock(missing[n].id)]])

Deduplicate(ms) ==
    DropEmpty(KeepBlocks(ms, LAMBDA i, j :
        LET b == ms[i].blocks[j] IN
        b.kind = "result" =>
            /\ \A k \in 1 .. (i - 1) : b.id \notin ResultsOf(ms[k])
            /\ \A l \in 1 .. (j - 1) : ms[i].blocks[l].kind = "result" => ms[i].blocks[l].id # b.id))

IsBlank(m) == \A j \in DOMAIN m.blocks : m.blocks[j].kind = "blank"
RemoveAborted(ms) ==
    Retain(ms, {i \in DOMAIN ms : ~ (ms[i].role = "assistant" /\ IsBlank(ms[i]) /\ i < Len(ms))})

\* Variant for mutation: consecutive messages of one role stay apart.
MergeNothing(ms) == ms
MergeRoles(ms) ==
    LET merged[n \in 0 .. Len(ms)] ==
            IF n = 0 THEN <<>>
            ELSE LET acc == merged[n - 1] IN
                 IF acc # <<>> /\ Last(acc).role = ms[n].role
                 THEN [acc EXCEPT ![Len(acc)].blocks = @ \o ms[n].blocks]
                 ELSE Append(acc, ms[n])
    IN  merged[Len(ms)]

ValidateAndRepair(ms) ==
    MergeRoles(RemoveAborted(Deduplicate(InsertSynthetic(ReorderResults(DropOrphans(ms))))))

-----------------------------------------------------------------------------
(* Trimming and pruning *)

LastN(ms, n) == SubSeq(ms, Len(ms) - n + 1, Len(ms))
TrimHistory(ms) == IF Len(ms) > MaxHistory THEN LastN(ms, MaxHistory) ELSE ms

\* The histories that the recovery may leave; which one depends on estimated
\* token counts.  Truncating results (stage 3) leaves the structure alone.
RecoverFromOverflow(ms) ==
    LET moderate == IF Len(ms) > KeepModerate THEN LastN(ms, KeepModerate) ELSE ms
        aggressive(s) == IF Len(s) > KeepAggressive
                         THEN << User(<<TextBlock("text", 0)>>) >> \o LastN(s, KeepAggressive)
                         ELSE s
    IN  {ms, moderate, aggressive(moderate), aggressive(ms)}

IsNoReply(m) == Len(m.blocks) = 1 /\ m.blocks[1].kind = "noreply"
\* Variant for mutation: the message after a silent turn goes with it.
PruneBothSides(ms) ==
    LET silent == {i \in 1 .. (Len(ms) - KeepRecent) :
                       ms[i].role = "assistant" /\ IsNoReply(ms[i])}
    IN  Retain(ms, DOMAIN ms \ UNION {{i - 1, i, i + 1} : i \in silent})

PruneHeartbeatTurns(ms) ==
    LET silent == {i \in 1 .. (Len(ms) - KeepRecent) :
                       ms[i].role = "assistant" /\ IsNoReply(ms[i])}
        asked == {i - 1 : i \in {k \in silent : k > 1 /\ ms[k - 1].role = "user"}}
    IN  Retain(ms, DOMAIN ms \ (silent \cup asked))

-----------------------------------------------------------------------------
(* Reference: what a provider accepts *)

\* Every call is answered, once, by the message after it.
UsesAnsweredIn(ms) ==
    \A i \in DOMAIN ms : \A id \in UsesOf(ms[i]) :
        /\ i < Len(ms) /\ ms[i + 1].role = "user"
        /\ Cardinality({j \in DOMAIN ms[i + 1].blocks :
                ms[i + 1].blocks[j].kind = "result" /\ ms[i + 1].blocks[j].id = id}) = 1

NoOrphansIn(ms) ==
    \A i \in DOMAIN ms : \A id \in ResultsOf(ms[i]) : i > 1 /\ id \in UsesOf(ms[i - 1])

WellFormed(ms) ==
    /\ UsesAnsweredIn(ms)
    /\ NoOrphansIn(ms)
    /\ \A i \in DOMAIN ms : ms[i].blocks # <<>>
    /\ \A i \in 1 .. (Len(ms) - 1) : ms[i].role # ms[i + 1].role
=============================================================================
