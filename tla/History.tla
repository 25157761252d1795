------------------------------ MODULE History ------------------------------
(***************************************************************************)
(* The conversation history of one agent (orchestrator/history) as         *)
(* operators on sequences of messages: how tool uses and tool results are  *)
(* paired and repaired, how old messages are compacted, and how the event  *)
(* log of a session is folded back into a history (sessions/lifecycle).    *)
(*                                                                         *)
(* Of a message only what pairing and compaction look at is kept: its role *)
(* and the ids of the tool uses or tool results it carries.  An assistant  *)
(* message with tool uses carries nothing else; a result message carries   *)
(* results only, because nothing in the program mixes them with text.      *)
(***************************************************************************)
EXTENDS Naturals, Sequences, SequencesExt

CONSTANTS
  KeepRecent   \* keep_recent_turns of the Compactor

ASSUME HistoryAssumption == KeepRecent \in Nat \ {0}

Assistant(ids) == [role |-> "assistant", ids |-> ids]
Results(ids) == [role |-> "results", ids |-> ids]
Text(role) == [role |-> role, ids |-> {}]
Prompt == Text("prompt")      \* append_user
Context == Text("context")    \* append_user_context
Note == Text("note")          \* a compaction summary or a removal marker

Messages(Calls) == [role : {"assistant", "results"}, ids : SUBSET Calls]
                     \cup {Prompt, Context, Note}

IsAssistant(m) == m.role = "assistant"
IsUser(m) == ~IsAssistant(m)                  \* isinstance(msg, UserMessage)
Uses(m) == IF IsAssistant(m) THEN m.ids ELSE {}
Answers(m) == IF m.role = "results" THEN m.ids ELSE {}

(***************************************************************************)
(* Appending.  An empty assistant turn, or an empty result list, appends   *)
(* nothing.                                                                *)
(***************************************************************************)
append_tool_results(h, ids) == IF ids = {} THEN h ELSE Append(h, Results(ids))

pop_last_assistant(h) == IF h # <<>> /\ IsAssistant(Last(h)) THEN Front(h) ELSE h

(***************************************************************************)
(* Pairing.                                                                *)
(***************************************************************************)

\* The position of the last assistant message before position i, 0 for none.
AssistantBefore(h, i) == SelectLastInSubSeq(h, 1, i - 1, IsAssistant)

\* Which ids the result messages at positions from..to answer.
AnsweredIn(h, from, to) == UNION {Answers(h[j]) : j \in from..to}

\* Of the last assistant message, the uses no later message answers.
pending_tool_use_ids(h) ==
  LET a == AssistantBefore(h, Len(h) + 1)
  IN IF a = 0 THEN {} ELSE Uses(h[a]) \ AnsweredIn(h, a + 1, Len(h))

append_interrupted_tool_results(h) == append_tool_results(h, pending_tool_use_ids(h))

Mutant_KeepsStrays(acc, m) ==
  IF m.role = "results"
  THEN [out |-> Append(acc.out, m), pending |-> acc.pending \ m.ids]
  ELSE [out |-> Append(append_tool_results(acc.out, acc.pending), m), pending |-> Uses(m)]

\* One message of the pass: results that answer nothing pending are dropped, what is
\* missing is inserted before the next message that is not a result.
RepairStep(acc, m) ==
  IF m.role = "results"
  THEN [out |-> append_tool_results(acc.out, m.ids \cap acc.pending),
        pending |-> acc.pending \ m.ids]
  ELSE [out |-> Append(append_tool_results(acc.out, acc.pending), m), pending |-> Uses(m)]

\* Where the pass is after n messages.
RepairPass(h) ==
  LET acc[n \in 0..Len(h)] ==
        IF n = 0 THEN [out |-> <<>>, pending |-> {}] ELSE RepairStep(acc[n - 1], h[n])
  IN acc

\* The pass over all messages that makes every assistant's tool uses be followed
\* at once by their results.
repair_orphan_tool_results(h) ==
  LET end == RepairPass(h)[Len(h)] IN append_tool_results(end.out, end.pending)

(***************************************************************************)
(* Compaction.                                                             *)
(***************************************************************************)

\* s without the elements at positions outside P, up to position n and as a whole.
Keeping(s, P) ==
  LET kept[n \in 0..Len(s)] ==
        IF n = 0 THEN <<>> ELSE IF n \in P THEN Append(kept[n - 1], s[n]) ELSE kept[n - 1]
  IN kept
KeepAt(s, P) == Keeping(s, P)[Len(s)]

\* How many messages come before the part that is kept; every user message
\* counts as a turn, one that only carries tool results too.
find_compaction_boundary(h) ==
  LET users == KeepAt([i \in 1..Len(h) |-> i], {i \in DOMAIN h : IsUser(h[i])})
  IN IF Len(users) <= KeepRecent THEN 0
     ELSE users[Len(users) - KeepRecent + 1] - 1

replace_with_compacted(h, boundary) == <<Note>> \o SubSeq(h, boundary + 1, Len(h))

\* A marker stands where the first of the removed messages was.
RemoveMarked(h, gone) ==
  LET first == Min(gone)
  IN IF gone = {} THEN h
     ELSE KeepAt([h EXCEPT ![first] = Note], (DOMAIN h \ gone) \cup {first})

\* The read-only calls before the boundary that a result message follows at once.
\* readOnly: the ids whose recorded ToolKind is read-only.
ReadOnlyPairs(h, readOnly) ==
  {i \in 1..(find_compaction_boundary(h) - 1) :
     IsAssistant(h[i]) /\ h[i].ids # {} /\ h[i].ids \subseteq readOnly /\ h[i + 1].role = "results"}

Mutant_RemoveOnlyUses(h, readOnly) == RemoveMarked(h, ReadOnlyPairs(h, readOnly))

\* Both sides of a pair are removed together.
remove_read_only_pairs(h, readOnly) ==
  LET pairs == ReadOnlyPairs(h, readOnly)
  IN RemoveMarked(h, pairs \cup {i + 1 : i \in pairs})

(***************************************************************************)
(* Replay of the session log.  _LoadedSessionState.apply is a left fold    *)
(* over the events, so a log is represented by what replaying it yields.   *)
(***************************************************************************)
\* Two assistant messages in a row: the earlier one was popped for a retry.
_append_history_message(d, m) ==
  IF d # <<>> /\ IsAssistant(Last(d)) /\ IsAssistant(m)
  THEN Append(Front(d), m)
  ELSE Append(d, m)

(***************************************************************************)
(* What the properties say of histories.                                   *)
(***************************************************************************)

\* Every tool use is answered by the result messages that follow it at once, and
\* every result answers, once, a use it follows in this way.
Paired(h) ==
  /\ \A i \in DOMAIN h : IsAssistant(h[i]) =>
       \E n \in i..Len(h) :
         /\ \A j \in (i + 1)..n : h[j].role = "results"
         /\ AnsweredIn(h, i + 1, n) = h[i].ids
         /\ n < Len(h) => h[n + 1].role # "results"
  /\ \A i \in DOMAIN h : h[i].role = "results" =>
       LET a == AssistantBefore(h, i)
       IN /\ a # 0 /\ \A j \in (a + 1)..i : h[j].role = "results"
          /\ Answers(h[i]) \cap AnsweredIn(h, a + 1, i - 1) = {}

\* How much of t the first n elements of s hold, in order.
Matching(t, s) ==
  LET found[n \in 0..Len(s)] ==
        IF n = 0 THEN 0
        ELSE LET k == found[n - 1] IN IF k < Len(t) /\ t[k + 1] = s[n] THEN k + 1 ELSE k
  IN found

\* s with messages of s left out, nothing reordered or invented, is t.
IsSubsequence(t, s) == Matching(t, s)[Len(s)] = Len(t)
=============================================================================
