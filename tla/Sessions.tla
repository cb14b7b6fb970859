------------------------------ MODULE Sessions ------------------------------
(***************************************************************************)
(* The sessions of one agent while several messages are handled at once:   *)
(* send_message_with_handle, send_message_streaming, execute_llm_agent,     *)
(* stop_agent_run, reset_session, create_agent_session,                     *)
(* switch_agent_session and compact_agent_session of                        *)
(* clawreform-kernel/src/kernel.rs, over the session store of               *)
(* clawreform-memory/src/session.rs.  Dispatch has the quotas.              *)
(*                                                                          *)
(* A turn reads the session, works on its copy (AgentLoop has the details)  *)
(* and writes the copy back as a whole; nothing serialises the turns of an  *)
(* agent.  Turn t asks the question TextBlock("text", t).                   *)
(***************************************************************************)
EXTENDS SessionRepair

CONSTANTS
    MaxMessages,        \* bound on the messages the agent receives
    MaxSessions,        \* bound on the sessions ever created
    MaxEvents,          \* bound on resets, new sessions, compactions asked for, failures and crashes together
    CompactAbove,       \* threshold of CompactionConfig
    CompactKeep,        \* keep_recent of CompactionConfig
    CanonicalAbove,     \* DEFAULT_COMPACTION_THRESHOLD
    CanonicalWindow     \* DEFAULT_CANONICAL_WINDOW

Turns == 1 .. MaxMessages
SessionIds == 1 .. MaxSessions

ASSUME BoundsType ==
    /\ {MaxMessages, MaxEvents, CompactAbove, CompactKeep, CanonicalAbove, CanonicalWindow} \subseteq Nat
    /\ MaxSessions \in Nat \ {0} /\ CompactKeep <= CompactAbove /\ CompactKeep <= CanonicalAbove
    /\ CanonicalWindow < CanonicalAbove

VARIABLES
    rows,       \* table sessions: the messages of the rows that exist
    canonical,  \* table canonical_sessions: messages, and the turns of each part of the summary
    active,     \* session_id of the agent's entry in the registry
    saved,      \* session_id of the agent's row
    stage,      \* of each turn
    sid,        \* session of each turn
    held,       \* session.messages of each turn
    before,     \* messages_before of each turn
    copy,       \* canonical session that a turn has loaded
    comp,       \* compactions: of a turn, or asked for (0)
    resetting,  \* a reset_session has deleted the old session
    alone,      \* history: turns that nothing else overlapped
    said,       \* history: turns whose caller was answered
    unstored,   \* history: turns taken out of their session by a compaction, or never saved in it
    deleted,    \* history: sessions that were deleted
    shrunk,     \* history: turns whose answer pruned the session
    faded,      \* history: turns cut off from the summary, or never appended to it
    replaced,   \* history: turns said before a compaction replaced the canonical session
    made,       \* sessions created so far
    events      \* events so far

turnVars == <<stage, sid, held, before, copy>>
historyVars == <<alone, said, unstored, deleted, shrunk, faded, replaced>>
boundVars == <<made, events>>
sessionVars == <<rows, canonical, active, saved, turnVars, comp, resetting, historyVars, boundVars>>

NoCanonical == [messages |-> <<>>, summary |-> <<>>]
NoCompaction == [pc |-> "idle", sid |-> 1, kept |-> <<>>, dropped |-> {}]

Question(t) == User(<<TextBlock("text", t)>>)
\* The turns whose question is in a history.
AskedIn(ms) ==
    UNION {{b.id : b \in {x \in ToSet(ms[i].blocks) : x.kind = "text"}} :
              i \in {k \in DOMAIN ms : ms[k].role = "user"}}
InFlight == {t \in Turns : stage[t] \notin {"none", "done"}}

IsSession(ms) == DOMAIN ms = 1 .. Len(ms) /\ AskedIn(ms) \subseteq Turns
SessionsTypeOK ==
    /\ events \in 0 .. MaxEvents
    /\ DOMAIN rows \subseteq SessionIds /\ \A s \in DOMAIN rows : IsSession(rows[s])
    /\ IsSession(canonical.messages) /\ canonical.summary \in Seq(SUBSET Turns)
    /\ active \in 1 .. made /\ saved \in 1 .. made
    /\ stage \in [Turns -> {"none", "compact", "loop", "saved", "merge", "return", "done"}]
    /\ sid \in [Turns -> 0 .. made] /\ before \in [Turns -> Nat]
    /\ \A t \in Turns : IsSession(held[t])
    /\ \A c \in 0 .. MaxMessages : comp[c].pc \in {"idle", "llm", "save"} /\ comp[c].sid \in 1 .. made
    /\ resetting \in BOOLEAN
    /\ Len(canonical.messages) <= CanonicalAbove
    /\ made \in SessionIds

\* spawn_agent has created the agent's first session.
SessionsInit ==
    /\ rows = [s \in {1} |-> <<>>] /\ canonical = NoCanonical /\ active = 1 /\ saved = 1
    /\ stage = [t \in Turns |-> "none"] /\ sid = [t \in Turns |-> 0]
    /\ held = [t \in Turns |-> <<>>] /\ before = [t \in Turns |-> 0]
    /\ copy = [t \in Turns |-> NoCanonical]
    /\ comp = [c \in 0 .. MaxMessages |-> NoCompaction] /\ resetting = FALSE
    /\ alone = {} /\ said = {} /\ unstored = {} /\ deleted = {}
    /\ shrunk = {} /\ faded = {} /\ replaced = {}
    /\ made = 1 /\ events = 0

Event == events < MaxEvents /\ events' = events + 1

-----------------------------------------------------------------------------
(* The session store *)

\* get_session, and the empty session where there is no row.
Read(s) == IF s \in DOMAIN rows THEN rows[s] ELSE <<>>
\* save_session inserts or replaces the row as a whole.
Saved(s, ms) == [x \in DOMAIN rows \cup {s} |-> IF x = s THEN ms ELSE rows[x]]

-----------------------------------------------------------------------------
(* Turns *)

\* run_agent_loop begins on the session ms, with the question of turn t.
StartLoop(t, ms) ==
    /\ stage' = [stage EXCEPT ![t] = "loop"]
    /\ held' = [held EXCEPT ![t] = Append(ms, Question(t))]
    /\ before' = [before EXCEPT ![t] = Len(ms)]

LeaveTurn(t) ==
    /\ stage' = [stage EXCEPT ![t] = "done"]
    /\ held' = [held EXCEPT ![t] = <<>>]
    /\ before' = [before EXCEPT ![t] = 0]
    /\ copy' = [copy EXCEPT ![t] = NoCanonical]

\* The turn belongs to the session that is active now.
Admit(t) ==
    /\ sid' = [sid EXCEPT ![t] = active]
    /\ alone' = IF InFlight = {} /\ comp[0].pc = "idle" THEN alone \cup {t} ELSE alone \ InFlight
    /\ UNCHANGED <<rows, canonical, active, saved, copy, comp, resetting, said, unstored, deleted, shrunk, faded, replaced, boundVars>>

\* The messages of an agent are numbered in the order of their arrival.
Arrives(t) == stage[t] = "none" /\ \A u \in Turns : u < t => stage[u] # "none"

\* send_message_with_handle and execute_llm_agent up to the agent loop.
BeginBlocking(t) ==
    /\ Arrives(t)
    /\ StartLoop(t, Read(active))
    /\ Admit(t)

\* send_message_streaming.  Compaction is needed for the number of messages,
\* or for an estimate of their tokens.
BeginStreaming(t) ==
    /\ Arrives(t)
    /\ \/ /\ stage' = [stage EXCEPT ![t] = "compact"]
          /\ held' = [held EXCEPT ![t] = Read(active)]
          /\ UNCHANGED before
       \/ /\ Len(Read(active)) <= CompactAbove
          /\ StartLoop(t, Read(active))
    /\ Admit(t)

\* The results of tools are saved while the turn goes on (they are left out of
\* the history here).
SaveProgress(t) ==
    /\ stage[t] = "loop"
    /\ rows' = Saved(sid[t], held[t])
    /\ UNCHANGED <<canonical, active, saved, turnVars, comp, resetting, historyVars, boundVars>>

\* Variant for mutation: the answer goes to the session that is active by now.
AnswerToActive(t) ==
    /\ stage[t] = "loop"
    /\ LET ms == Append(held[t], Assistant(<<TextBlock("text", t)>>)) IN
       held' = [held EXCEPT ![t] = ms] /\ rows' = Saved(active, ms)
    /\ stage' = [stage EXCEPT ![t] = "saved"]
    /\ UNCHANGED <<canonical, active, saved, sid, before, copy, comp, resetting, historyVars, boundVars>>

\* The answer is saved, a silent one as well; an answer prunes silent turns.
Answer(t) ==
    LET answered == Append(held[t], Assistant(<<TextBlock("text", t)>>))
        silent == Append(held[t], Assistant(<<TextBlock("noreply", t)>>))
    IN
    /\ stage[t] = "loop"
    /\ \E ms \in {PruneHeartbeatTurns(answered), silent} :
         /\ held' = [held EXCEPT ![t] = ms]
         /\ rows' = Saved(sid[t], ms)
         /\ shrunk' = IF Len(ms) < Len(answered) THEN shrunk \cup {t} ELSE shrunk
    /\ stage' = [stage EXCEPT ![t] = "saved"]
    /\ UNCHANGED <<canonical, active, saved, sid, before, copy, comp, resetting,
                   alone, said, unstored, deleted, faded, replaced, boundVars>>

\* The answer was cut off too often (MAX_CONTINUATIONS): what there is of it is
\* returned, whether it can be saved or not.  Nothing is pruned.
AnswerCutOff(t) ==
    LET answered == Append(held[t], Assistant(<<TextBlock("text", t)>>)) IN
    /\ stage[t] = "loop"
    /\ held' = [held EXCEPT ![t] = answered]
    /\ \/ rows' = Saved(sid[t], answered) /\ UNCHANGED <<unstored, events>>
       \/ rows' = rows /\ unstored' = unstored \cup {t} /\ Event
    /\ stage' = [stage EXCEPT ![t] = "saved"]
    /\ UNCHANGED <<canonical, active, saved, sid, before, copy, comp, resetting,
                   alone, said, deleted, shrunk, faded, replaced, made>>

\* The loop fails, after or without saving what was said.
Fail(t) ==
    /\ stage[t] = "loop"
    /\ \E kept \in BOOLEAN : rows' = IF kept THEN Saved(sid[t], held[t]) ELSE rows
    /\ LeaveTurn(t)
    /\ UNCHANGED <<canonical, active, saved, sid, comp, resetting, historyVars, boundVars>>

\* append_canonical: what the session gained over messages_before is added to
\* a copy of the canonical session, if it gained anything ...
LoadCanonical(t) ==
    /\ stage[t] = "saved"
    /\ IF Len(held[t]) > before[t]
       THEN stage' = [stage EXCEPT ![t] = "merge"] /\ copy' = [copy EXCEPT ![t] = canonical]
       ELSE stage' = [stage EXCEPT ![t] = "return"] /\ UNCHANGED copy
    /\ UNCHANGED <<rows, canonical, active, saved, sid, held, before, comp, resetting,
                   historyVars, boundVars>>

\* Variant for mutation: the older messages are dropped, not summarised.
SaveCanonicalWindow(t) ==
    /\ stage[t] = "merge"
    /\ LET ms == copy[t].messages \o SubSeq(held[t], before[t] + 1, Len(held[t])) IN
       canonical' = [copy[t] EXCEPT !.messages = IF Len(ms) > CanonicalAbove THEN LastN(ms, CanonicalWindow) ELSE ms]
    /\ stage' = [stage EXCEPT ![t] = "return"] /\ copy' = [copy EXCEPT ![t] = NoCanonical]
    /\ UNCHANGED <<rows, active, saved, sid, held, before, comp, resetting, historyVars, boundVars>>

\* ... and the copy is written back, its older messages as lines of the summary,
\* of which the last 4000 bytes are kept.  Cutting a message at byte 200 may
\* panic, inside a character: nothing is written.  Neither is it when the store
\* fails: that is logged, and the turn goes on to its answer.
SaveCanonical(t) ==
    LET ms == copy[t].messages \o SubSeq(held[t], before[t] + 1, Len(held[t]))
        older == Retain(ms, {i \in 1 .. (Len(ms) - CanonicalWindow) : ms[i].role = "user"})
        lines == copy[t].summary \o [i \in DOMAIN older |-> AskedIn(<<older[i]>>)]
        done == stage' = [stage EXCEPT ![t] = "return"] /\ copy' = [copy EXCEPT ![t] = NoCanonical]
                /\ UNCHANGED <<held, before>>
    IN
    /\ stage[t] = "merge"
    /\ \/ /\ faded' = faded \cup {t} /\ Event
          /\ done /\ UNCHANGED canonical
       \/ /\ Len(ms) <= CanonicalAbove
          /\ canonical' = [copy[t] EXCEPT !.messages = ms]
          /\ done /\ UNCHANGED <<faded, events>>
       \/ /\ Len(ms) > CanonicalAbove
          /\ \E n \in 0 .. Len(lines) :
               /\ canonical' = [messages |-> LastN(ms, CanonicalWindow), summary |-> LastN(lines, n)]
               /\ faded' = faded \cup UNION ToSet(SubSeq(lines, 1, Len(lines) - n))
          /\ done /\ UNCHANGED events
       \/ /\ Len(ms) > CanonicalAbove
          /\ LeaveTurn(t) /\ UNCHANGED <<canonical, faded, events>>
    /\ UNCHANGED <<rows, active, saved, sid, comp, resetting,
                   alone, said, unstored, deleted, shrunk, replaced, made>>

\* The caller is answered.
Return(t) ==
    /\ stage[t] = "return"
    /\ said' = IF IsNoReply(Last(held[t])) THEN said ELSE said \cup {t}
    /\ LeaveTurn(t)
    /\ UNCHANGED <<rows, canonical, active, saved, sid, comp, resetting,
                   alone, unstored, deleted, shrunk, faded, replaced, boundVars>>

\* A turn is stopped by its abort handle, or its client hangs up: it is dropped
\* where it waits.  After its last wait it runs to its end.
Drop(t) ==
    /\ stage[t] \in {"compact", "loop", "saved"}
    /\ LeaveTurn(t)
    /\ comp' = [comp EXCEPT ![t] = NoCompaction]
    /\ UNCHANGED <<rows, canonical, active, saved, sid, resetting, historyVars, boundVars>>

-----------------------------------------------------------------------------
(* compact_agent_session, called by a streaming turn (c = t), or asked for by *)
(* a user or started after a streaming turn (c = 0)                          *)

\* A streaming turn goes on with its session as it now is.
Resume(c) ==
    IF c = 0 THEN UNCHANGED <<stage, held, before>>
    ELSE StartLoop(c, IF sid[c] \in DOMAIN rows' THEN rows'[sid[c]] ELSE held[c])

Requested(c) ==
    \/ c # 0 /\ stage[c] = "compact" /\ comp[c].pc = "idle" /\ UNCHANGED <<events, alone>>
    \/ c = 0 /\ comp[0].pc = "idle" /\ Event /\ alone' = alone \ InFlight

\* Too few messages in the active session, however many tokens.
CompactNothing(c) ==
    /\ Requested(c) /\ Len(Read(active)) <= CompactAbove
    /\ rows' = rows /\ Resume(c)
    /\ UNCHANGED <<canonical, active, saved, sid, copy, comp, resetting,
                   said, unstored, deleted, shrunk, faded, replaced, made>>

\* No driver: the turn goes on with the session it has.
CompactFails(t) ==
    /\ stage[t] = "compact" /\ comp[t].pc = "idle" /\ Len(Read(active)) > CompactAbove
    /\ StartLoop(t, held[t])
    /\ UNCHANGED <<rows, canonical, active, saved, sid, copy, comp, resetting, historyVars, boundVars>>

\* Variant for mutation: one message is neither summarised nor kept.
CompactReadOffByOne(c) ==
    /\ Requested(c) /\ Len(Read(active)) > CompactAbove
    /\ LET n == Len(Read(active)) - CompactKeep IN
       comp' = [comp EXCEPT ![c] = [pc |-> "llm", sid |-> active, kept |-> LastN(Read(active), CompactKeep),
                                    dropped |-> AskedIn(SubSeq(Read(active), 1, n - 1))]]
    /\ UNCHANGED <<rows, canonical, active, saved, turnVars, resetting, said, unstored, deleted, shrunk, faded, replaced, made>>

\* The messages to summarise are selected, and the model is asked.
CompactRead(c) ==
    /\ Requested(c) /\ Len(Read(active)) > CompactAbove
    /\ LET n == Len(Read(active)) - CompactKeep IN
       comp' = [comp EXCEPT ![c] = [pc |-> "llm", sid |-> active, kept |-> LastN(Read(active), CompactKeep),
                                    dropped |-> AskedIn(SubSeq(Read(active), 1, n))]]
    /\ UNCHANGED <<rows, canonical, active, saved, turnVars, resetting,
                   said, unstored, deleted, shrunk, faded, replaced, made>>

\* store_llm_summary replaces summary and messages of the canonical session;
\* without an answer of the model the summary tells nothing.
StoreSummary(c) ==
    /\ comp[c].pc = "llm"
    /\ \E told \in {<<comp[c].dropped>>, <<>>} :
         canonical' = [messages |-> comp[c].kept, summary |-> told]
    /\ comp' = [comp EXCEPT ![c].pc = "save"]
    /\ replaced' = replaced \cup said
    /\ UNCHANGED <<rows, active, saved, turnVars, resetting, alone, said, unstored, deleted, shrunk, faded, boundVars>>

\* The kept messages are repaired and replace the session.
SaveCompacted(c) ==
    /\ comp[c].pc = "save"
    /\ rows' = Saved(comp[c].sid, ValidateAndRepair(comp[c].kept))
    /\ unstored' = unstored \cup comp[c].dropped
    /\ comp' = [comp EXCEPT ![c] = NoCompaction]
    /\ Resume(c)
    /\ UNCHANGED <<canonical, active, saved, sid, copy, resetting,
                   alone, said, deleted, shrunk, faded, replaced, boundVars>>

\* The model cannot be asked, or the store fails: nothing more is written, and
\* the turn goes on with the session it has.
CompactStops(c) ==
    /\ comp[c].pc # "idle" /\ Event
    /\ comp' = [comp EXCEPT ![c] = NoCompaction]
    /\ IF c = 0 THEN UNCHANGED <<stage, held, before>> ELSE StartLoop(c, held[c])
    /\ UNCHANGED <<rows, canonical, active, saved, sid, copy, resetting, historyVars, made>>

-----------------------------------------------------------------------------
(* Sessions are reset, created and switched; the entry is saved; a crash *)

NewSession ==
    /\ made < MaxSessions /\ made' = made + 1
    /\ rows' = Saved(made + 1, <<>>)
    /\ active' = made + 1
    /\ UNCHANGED <<canonical, saved, turnVars, comp, historyVars>>

ResetDelete ==
    /\ ~ resetting /\ made < MaxSessions /\ Event
    /\ resetting' = TRUE
    /\ rows' = [s \in DOMAIN rows \ {active} |-> rows[s]]
    /\ deleted' = deleted \cup {active}
    /\ UNCHANGED <<canonical, active, saved, turnVars, comp, alone, said, unstored, shrunk, faded, replaced, made>>

ResetCreate == resetting /\ resetting' = FALSE /\ NewSession /\ UNCHANGED events

CreateSession == NewSession /\ Event /\ UNCHANGED resetting

SwitchSession(s) ==
    /\ s \in DOMAIN rows /\ s # active
    /\ active' = s
    /\ UNCHANGED <<rows, canonical, saved, turnVars, comp, resetting, historyVars, boundVars>>

\* save_agent, by a set_agent_* handler or at shutdown.
SaveEntry ==
    /\ saved # active /\ saved' = active
    /\ UNCHANGED <<rows, canonical, active, turnVars, comp, resetting, historyVars, boundVars>>

\* The daemon dies and boots from the database.
Crash ==
    /\ Event
    /\ active' = saved
    /\ stage' = [t \in Turns |-> IF stage[t] = "none" THEN "none" ELSE "done"]
    /\ held' = [t \in Turns |-> <<>>] /\ before' = [t \in Turns |-> 0]
    /\ copy' = [t \in Turns |-> NoCanonical]
    /\ comp' = [c \in 0 .. MaxMessages |-> NoCompaction]
    /\ resetting' = FALSE
    /\ UNCHANGED <<rows, canonical, saved, sid, historyVars, made>>

TurnStep(t) ==
    \/ BeginBlocking(t) \/ BeginStreaming(t)
    \/ CompactFails(t) \/ SaveProgress(t) \/ Answer(t) \/ AnswerCutOff(t) \/ Fail(t) \/ Drop(t)
    \/ LoadCanonical(t) \/ SaveCanonical(t) \/ Return(t)

CompactStep(c) ==
    \/ CompactNothing(c) \/ CompactRead(c) \/ StoreSummary(c) \/ SaveCompacted(c) \/ CompactStops(c)

SessionsNext ==
    \/ \E t \in Turns : TurnStep(t)
    \/ \E c \in 0 .. MaxMessages : CompactStep(c)
    \/ ResetDelete \/ ResetCreate \/ CreateSession
    \/ (\E s \in SessionIds : SwitchSession(s)) \/ SaveEntry
    \/ Crash

SessionsSpec == SessionsInit /\ [][SessionsNext]_sessionVars
-----------------------------------------------------------------------------
(* Properties *)

\* A turn that was answered is in its session, unless a compaction summarised
\* it, its answer was a partial one that could not be saved (agent_loop.rs:681),
\* the session was deleted, or another turn or a compaction overlapped it
\* (kernel.rs:2535, kernel.rs:3266).
LossNeedsOverlap ==
    \A t \in said \cap alone :
        \/ t \in AskedIn(Read(sid[t]))
        \/ t \in unstored \/ sid[t] \in deleted

\* A session holds only what was said to it: a turn or a compaction that is
\* late never writes into the session that a reset or a switch has made the
\* active one (kernel.rs:2872).
SessionsKeepTheirOwn == \A s \in DOMAIN rows : \A t \in AskedIn(rows[s]) : sid[t] = s

\* A session holds what was said to it and nothing else.
SessionsHoldWhatWasSaid == LossNeedsOverlap /\ SessionsKeepTheirOwn

\* What a user told the agent is remembered across its sessions, unless another
\* turn or a compaction overlapped it, a compaction replaced the memory later,
\* appending to the memory failed, which is only logged (kernel.rs:2796), the
\* summary outgrew its limit, or the turn also pruned silent turns, which hides
\* it from messages_before
\* (kernel.rs:2794; "what a user tells an agent on Telegram is remembered on
\* Discord", session.rs:342).
RememberedAcrossSessions ==
    \A t \in said \cap alone :
        \/ t \in AskedIn(canonical.messages) \cup UNION ToSet(canonical.summary)
        \/ t \in shrunk \cup faded \cup replaced
=============================================================================
