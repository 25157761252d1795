----------------------------- MODULE AgentTurn -----------------------------
(***************************************************************************)
(* A turn of an agent, from the prompt to its end: the query loop of the   *)
(* orchestrator (orchestrator/loop) drives the provider, the history and a *)
(* tool round, and yields history events that the session's turn runner    *)
(* writes to the event log, from which a crashed session is loaded again.  *)
(*                                                                         *)
(* The loop is a generator and the runner its consumer, in one task: a     *)
(* cancellation is delivered where that task waits, inside the generator   *)
(* (which seals open tool calls) or inside the consumer (which does not).  *)
(*                                                                         *)
(* The log's order is the order in which writes are issued, because events *)
(* are read back by the timestamp taken then; writes complete in order.    *)
(***************************************************************************)
EXTENDS ToolRound, History

CONSTANTS
  MaxTurns,      \* max_turns of a prompt, 0 for no limit
  MaxTransient,  \* MAX_TRANSIENT_STREAM_RETRIES
  MaxReactive,   \* MAX_REACTIVE_RETRIES
  MaxOutput,     \* MAX_OUTPUT_TOKEN_RETRIES
  MaxCalls,      \* bound: tool calls of the whole behaviour; Calls is 1..MaxCalls
  MaxPrompts,    \* bound: prompts
  Budget         \* bound: disturbances (see Faults) of the whole behaviour

ASSUME TurnAssumption ==
  /\ {MaxTurns, MaxTransient, MaxReactive, MaxOutput, MaxCalls, MaxPrompts,
      Budget} \subseteq Nat
  /\ Calls = 1..MaxCalls

VARIABLES
  history,  \* ConversationHistory._messages
  kinds,    \* ids with a recorded read-only ToolKind
  pc,       \* where the query loop is
  turn,     \* TurnState and the locals of run_query
  pend,     \* log writes under way, in the order they were issued
  disk,     \* the event log, as the history its replay yields
  torn,     \* history: a write has been lost that no later snapshot replaced
  lost,     \* history: calls a round has ended without a result for
  left      \* bounds: what may still happen

turnVars == <<history, kinds, pc, turn, pend, disk, torn, lost, left>>
vars == <<queue, tool, st, proj, avoid, held, mode, saved, grants, consent, online,
          history, kinds, pc, turn, pend, disk, torn, lost, left>>

\* compact: the boundary compact() has computed; then: what follows the summary;
\* calls: the tool uses of the stream; limit: the stream stopped at max_tokens.
NewTurn == [index |-> 0, transient |-> 0, reactive |-> 0, protocol |-> 0, output |-> 0,
            compact |-> 0, then |-> "send", calls |-> <<>>, limit |-> FALSE]

Pcs == {"idle", "setup", "prompt", "loop", "summarise", "send", "stop", "round", "tools"}

Init ==
  /\ ToolInit
  /\ history = <<>> /\ disk = <<>> /\ pend = <<>> /\ kinds = {}
  /\ pc = "idle" /\ turn = NewTurn
  /\ torn = FALSE /\ lost = {}
  /\ left = [prompts |-> MaxPrompts, calls |-> MaxCalls, faults |-> Budget]

\* A disturbance happens, one of the Budget.
Disturb(what) ==
  /\ what \in Faults /\ left.faults > 0
  /\ left' = [left EXCEPT !.faults = @ - 1]

(***************************************************************************)
(* The log.                                                                *)
(***************************************************************************)
Entry(who, snap, msgs) == [by |-> who, snap |-> snap, msgs |-> msgs]

\* One event of _LoadedSessionState.apply.
apply(d, e) == IF e.snap THEN e.msgs ELSE _append_history_message(d, e.msgs[1])

\* The consumer's await of _persist_history_append or _persist_history_snapshot.
Writing == \E i \in DOMAIN pend : pend[i].by = "turn"
YieldAppend(m) == pend' = Append(pend, Entry("turn", FALSE, <<m>>))
YieldSnapshot(h) == pend' = Append(pend, Entry("turn", TRUE, h))

Commit ==
  /\ pend # <<>>
  /\ disk' = apply(disk, Head(pend))
  /\ torn' = (torn /\ ~Head(pend).snap)
  /\ pend' = Tail(pend)
  /\ UNCHANGED <<toolVars, history, kinds, pc, turn, lost, left>>

\* A write raises, which is logged and skipped; or it was cancelled under way.
WriteFails ==
  /\ pend # <<>>
  /\ \/ Head(pend).by = "cut" /\ UNCHANGED left
     \/ Head(pend).by # "cut" /\ Disturb("storeError")
  /\ pend' = Tail(pend) /\ torn' = TRUE
  /\ UNCHANGED <<toolVars, history, kinds, pc, turn, disk, lost>>

(***************************************************************************)
(* run_query.  Goto is a step of the loop that only moves on.              *)
(***************************************************************************)
At(p) == pc = p /\ ~Writing
Goto(p, t) == pc' = p /\ turn' = t
EndTurn == Goto("idle", NewTurn)
Again == [turn EXCEPT !.calls = <<>>, !.limit = FALSE, !.compact = 0]

\* A prompt starts a turn; mode changes made by tools are logged first.
BeginTurn ==
  /\ At("idle") /\ left.prompts > 0
  /\ left' = [left EXCEPT !.prompts = @ - 1]
  /\ Goto("setup", NewTurn)
  /\ saved' = mode
  /\ UNCHANGED <<queue, tool, st, proj, avoid, held, mode, grants, consent, online,
                 history, kinds, pend, disk, torn, lost>>

Blocked ==
  /\ At("setup") /\ Disturb("block")
  /\ EndTurn
  /\ UNCHANGED <<toolVars, history, kinds, pend, disk, torn, lost>>

AppendUser ==
  /\ history' = Append(history, Prompt)
  /\ YieldAppend(Prompt)
  /\ Goto("loop", turn)

Mutant_NoSnapshotAfterRepair ==
  /\ At("setup")
  /\ LET h == repair_orphan_tool_results(history)
     IN IF h = history THEN AppendUser
        ELSE history' = h /\ UNCHANGED pend /\ Goto("prompt", turn)
  /\ UNCHANGED <<toolVars, kinds, disk, torn, lost, left>>

Mutant_NoRepair ==
  /\ At("setup")
  /\ AppendUser
  /\ UNCHANGED <<toolVars, kinds, disk, torn, lost, left>>

\* The history is repaired before the prompt is appended.
SetupTurn ==
  /\ At("setup")
  /\ LET h == repair_orphan_tool_results(history)
     IN IF h = history THEN AppendUser
        ELSE history' = h /\ YieldSnapshot(h) /\ Goto("prompt", turn)
  /\ UNCHANGED <<toolVars, kinds, disk, torn, lost, left>>

AppendPrompt ==
  /\ At("prompt")
  /\ AppendUser
  /\ UNCHANGED <<toolVars, kinds, disk, torn, lost, left>>

StopAtMaxTurns ==
  /\ At("loop") /\ MaxTurns > 0 /\ turn.index + 1 > MaxTurns
  /\ EndTurn
  /\ UNCHANGED <<toolVars, history, kinds, pend, disk, torn, lost, left>>

\* prepare_history: below the threshold nothing, else microcompact, and if that is
\* not enough a compaction, whose boundary is computed before the summary is awaited.
PrepareHistory ==
  /\ At("loop") /\ (MaxTurns > 0 => turn.index + 1 <= MaxTurns)
  /\ LET t == [turn EXCEPT !.index = IF MaxTurns > 0 THEN @ + 1 ELSE @]
         micro == remove_read_only_pairs(history, kinds)
     IN \/ Goto("send", t) /\ UNCHANGED <<history, left>>
        \/ Disturb("compact") /\ history' = micro /\ Goto("send", t)
        \/ /\ Disturb("compact") /\ history' = micro
           /\ Goto("summarise", [t EXCEPT !.compact = find_compaction_boundary(micro),
                                          !.then = "send"])
  /\ UNCHANGED <<toolVars, kinds, pend, disk, torn, lost>>

\* compact() goes on once the summary is there; a compaction before the request is
\* logged as a snapshot, one in reaction to a refusal is not.
Summarised ==
  /\ At("summarise")
  /\ history' = IF turn.compact = 0 THEN history
                ELSE replace_with_compacted(history, turn.compact)
  /\ IF turn.then = "send" THEN YieldSnapshot(history') ELSE UNCHANGED pend
  /\ Goto(turn.then, Again)
  /\ UNCHANGED <<toolVars, kinds, disk, torn, lost, left>>

(***************************************************************************)
(* The provider's stream.                                                  *)
(***************************************************************************)
Fresh == MaxCalls - left.calls

\* The stream ends with tool uses; append_assistant.
StreamCalls ==
  /\ At("send") /\ \E n \in 1..2 :
       /\ n <= left.calls
       /\ LET calls == [i \in 1..n |-> Fresh + i]
              m == Assistant({calls[i] : i \in 1..n})
          IN /\ history' = Append(history, m)
             /\ YieldAppend(m)
             /\ Goto("round", [Again EXCEPT !.calls = calls])
             /\ left' = [left EXCEPT !.calls = @ - n]
  /\ UNCHANGED <<toolVars, kinds, disk, torn, lost>>

\* The stream ends without tool uses, with text or with nothing at all.
StreamText ==
  /\ At("send") /\ \E limit \in BOOLEAN, empty \in BOOLEAN :
       /\ IF limit \/ empty THEN Disturb("retry") ELSE UNCHANGED left
       /\ Goto("stop", [Again EXCEPT !.limit = limit])
       /\ IF empty THEN UNCHANGED <<history, pend>>
          ELSE history' = Append(history, Assistant({})) /\ YieldAppend(Assistant({}))
  /\ UNCHANGED <<toolVars, kinds, disk, torn, lost>>

Rewound(t) == [t EXCEPT !.index = IF MaxTurns > 0 THEN @ - 1 ELSE @]

Mutant_RetryAlways ==
  /\ At("send") /\ Disturb("retry")
  /\ \/ Goto("loop", Rewound([turn EXCEPT !.transient = @ + 1]))
     \/ EndTurn
  /\ UNCHANGED <<toolVars, history, kinds, pend, disk, torn, lost>>

\* A StreamError: a transient one before any output is retried, any other ends
\* the turn.
StreamError ==
  /\ At("send") /\ Disturb("retry")
  /\ \/ /\ turn.transient < MaxTransient
        /\ Goto("loop", Rewound([turn EXCEPT !.transient = @ + 1]))
     \/ EndTurn
  /\ UNCHANGED <<toolVars, history, kinds, pend, disk, torn, lost>>

\* PromptTooLongError and MediaSizeError: compact and try again; a media error
\* that strips nothing tries again as it is.
Refused ==
  /\ At("send") /\ Disturb("compact")
  /\ IF turn.reactive >= MaxReactive THEN EndTurn
     ELSE LET t == Rewound([turn EXCEPT !.reactive = @ + 1])
          IN \/ Goto("summarise", [t EXCEPT !.then = "loop",
                                     !.compact = find_compaction_boundary(history)])
             \/ Goto("loop", t)
  /\ UNCHANGED <<toolVars, history, kinds, pend, disk, torn, lost>>

\* A provider may refuse a history that is not paired.  A refusal whose wording
\* _is_tool_protocol_error knows is repaired once per turn; any other ends it.
ProtocolError ==
  /\ At("send") /\ ~Paired(history)
  /\ LET h == repair_orphan_tool_results(history)
     IN \/ /\ turn.protocol < 1 /\ h # history
           /\ history' = h /\ YieldSnapshot(h)
           /\ Goto("loop", Rewound([turn EXCEPT !.protocol = @ + 1]))
        \/ EndTurn /\ UNCHANGED <<history, pend>>
  /\ UNCHANGED <<toolVars, kinds, disk, torn, lost, left>>

\* handle_stop: an answer cut off at max_tokens is dropped and asked for again.
HandleStop ==
  /\ At("stop")
  /\ IF turn.limit /\ turn.output < MaxOutput
     THEN /\ history' = pop_last_assistant(history)
          /\ Goto("loop", [Again EXCEPT !.output = @ + 1])
     ELSE EndTurn /\ UNCHANGED history
  /\ UNCHANGED <<toolVars, kinds, pend, disk, torn, lost, left>>

(***************************************************************************)
(* The tool round inside the loop.                                         *)
(***************************************************************************)

\* An executor that a cancelled turn has left is collected before the next one.
StartRound ==
  /\ At("round") /\ queue = <<>>
  /\ BeginRound(turn.calls)
  /\ Goto("tools", Again)
  /\ UNCHANGED <<history, kinds, pend, disk, torn, lost, left>>

\* A step of a call; record_tool_kind for one that starts.
RunTools ==
  /\ ToolStep
  /\ kinds' = kinds \cup {c \in Calls : st[c] = "allowed" /\ st'[c] = "running"
                                        /\ tool[c] \in ReadOnlyKind /\ ~held}
  /\ UNCHANGED <<history, pc, turn, pend, disk, torn, lost, left>>

\* All batches have ended: what results there are become one message.
AppendResults ==
  /\ At("tools") /\ RoundOver
  /\ LET ids == {c \in Round : st[c] # "lost"}
     IN /\ history' = append_tool_results(history, ids)
        /\ IF ids = {} THEN UNCHANGED pend ELSE YieldAppend(Results(ids))
  /\ lost' = lost \cup {c \in Round : st[c] = "lost"}
  /\ CloseRound /\ Goto("loop", Again)
  /\ UNCHANGED <<kinds, disk, torn, left>>

\* The client and the faults of the tool round.
ClientActs ==
  /\ ClientStep
  /\ UNCHANGED turnVars

ToolFaults ==
  /\ ToolFault
  /\ left.faults > 0 /\ left' = [left EXCEPT !.faults = @ - 1]
  /\ UNCHANGED <<history, kinds, pc, turn, pend, disk, torn, lost>>

(***************************************************************************)
(* Cancellation, user executions, crash and reload.                        *)
(***************************************************************************)
\* CancelledError inside run_query: open tool uses are sealed.
CancelInQuery ==
  /\ Disturb("cancel") /\ ~Writing
  /\ pc \in {"setup", "summarise", "send", "stop", "tools"}
  /\ LET ids == pending_tool_use_ids(history)
     IN /\ history' = append_interrupted_tool_results(history)
        /\ IF ids = {} THEN UNCHANGED pend ELSE YieldAppend(Results(ids))
  /\ IF pc = "tools" THEN CloseRound ELSE UNCHANGED toolVars
  /\ EndTurn
  /\ UNCHANGED <<kinds, disk, torn, lost>>

\* CancelledError in the consumer, while it writes or broadcasts an event: the
\* turn is over, the generator and its tool tasks are left to be collected.
CancelInConsumer ==
  /\ Disturb("cancel")
  /\ Writing \/ pc \in {"send", "tools"}
  /\ pend' = [i \in DOMAIN pend |->
                IF pend[i].by = "turn" THEN [pend[i] EXCEPT !.by = "cut"] ELSE pend[i]]
  /\ held' = (pc = "tools" \/ held)
  /\ EndTurn
  /\ UNCHANGED <<queue, tool, st, proj, avoid, mode, saved, grants, consent, online,
                 history, kinds, disk, torn, lost>>

\* The left generator is closed, which cancels the tasks of its batch.
Collect ==
  /\ held
  /\ CloseRound
  /\ UNCHANGED turnVars

\* _append_user_execution_context: at any moment, a turn under way or not.
UserContext ==
  /\ Disturb("context")
  /\ history' = Append(history, Context)
  /\ pend' = Append(pend, Entry("user", FALSE, <<Context>>))
  /\ UNCHANGED <<toolVars, kinds, pc, turn, disk, torn, lost>>

\* The process dies and the session is loaded again from its log.
Crash ==
  /\ Disturb("crash")
  /\ history' = disk /\ kinds' = {} /\ pend' = <<>> /\ torn' = FALSE
  /\ EndTurn
  /\ queue' = <<>> /\ tool' = NoTools /\ st' = [c \in Calls |-> "none"]
  /\ proj' = "default" /\ avoid' = FALSE /\ held' = FALSE
  /\ mode' = saved /\ grants' = {} /\ consent' = {} /\ online' = FALSE
  /\ UNCHANGED <<saved, disk, lost>>

(***************************************************************************)
(* The specification.                                                      *)
(***************************************************************************)
LoopStep ==
  \/ Blocked \/ SetupTurn \/ AppendPrompt \/ StopAtMaxTurns \/ PrepareHistory
  \/ Summarised \/ StreamCalls \/ StreamText \/ StreamError \/ Refused
  \/ ProtocolError \/ HandleStop \/ StartRound \/ AppendResults

Next ==
  \/ BeginTurn \/ LoopStep \/ RunTools \/ ClientActs \/ ToolFaults
  \/ Commit \/ WriteFails
  \/ CancelInQuery \/ CancelInConsumer \/ Collect \/ UserContext \/ Crash

Spec == Init /\ [][Next]_vars

(***************************************************************************)
(* Properties.                                                             *)
(***************************************************************************)
TypeOK ==
  /\ ToolTypeOK
  /\ history \in Seq(Messages(Calls)) /\ disk \in Seq(Messages(Calls))
  /\ kinds \subseteq Calls /\ lost \subseteq Calls /\ torn \in BOOLEAN
  /\ pc \in Pcs
  /\ turn.calls \in Seq(Calls) /\ turn.compact \in 0..Len(history)
  /\ turn.reactive <= MaxReactive /\ turn.transient <= MaxTransient
  /\ turn.protocol <= 1 /\ turn.output <= MaxOutput
  /\ \A i \in DOMAIN pend : /\ pend[i].by \in {"turn", "user", "cut"}
                            /\ pend[i].msgs \in Seq(Messages(Calls))

\* What the log d holds after the first n of the writes w, and what it holds after
\* all that are under way.
Replay(d, w) ==
  LET log[n \in 0..Len(w)] == IF n = 0 THEN d ELSE apply(log[n - 1], w[n]) IN log
Logged == Replay(disk, pend)[Len(pend)]

\* Every request the loop sends answers every tool use it carries before the next
\* assistant message, after any mixture of cancellations, crashes, reloads, failed
\* writes and compactions; only a call that a round ended without a result for is
\* open.
RequestsAnswerUses ==
  pc = "send" => \A i \in DOMAIN history :
    LET later == {j \in (i + 1)..Len(history) : IsAssistant(history[j])}
        upto == IF later = {} THEN Len(history)
                ELSE (CHOOSE j \in later : \A k \in later : j <= k) - 1
    IN Uses(history[i]) \ AnsweredIn(history, i + 1, upto) \subseteq lost

\* A result the loop sends follows its own use, with nothing but results and user
\* executions between; the one exception is the head of a compacted history, where
\* the boundary may fall between a use and its results.
RequestResultsFollowUses ==
  pc = "send" => \A i \in DOMAIN history : history[i].role = "results" =>
    LET a == AssistantBefore(history, i)
    IN \/ a # 0 /\ history[i].ids \subseteq history[a].ids
          /\ \A j \in (a + 1)..i : history[j].role \in {"results", "context"}
       \/ history[1] = Note /\ \A j \in 2..i : history[j].role \in {"results", "context"}
       \/ history[i].ids \subseteq lost

\* repair_orphan_tool_results does its work on every history and every log the
\* program can reach: the outcome is paired, no text and no assistant message is
\* lost or reordered, and a paired history is left alone.
RepairPairs ==
  \A h \in {history, disk} :
    LET r == repair_orphan_tool_results(h)
        rest(s) == KeepAt(s, {i \in DOMAIN s : s[i].role # "results"})
    IN Paired(r) /\ rest(r) = rest(h) /\ (Paired(h) => r = h)

\* What the agent has in mind can be loaded again: leaving out summaries and
\* markers, its history is, in order, part of what the log replays to, although
\* retries drop answers, the log collapses them and two compactions are not logged.
\* It holds unless a write was lost or a round lost a result.
HistoryReloads ==
  ~torn /\ lost = {} =>
    IsSubsequence(KeepAt(history, {i \in DOMAIN history : history[i] # Note}), Logged)
=============================================================================
