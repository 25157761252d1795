----------------------------- MODULE ToolRound -----------------------------
(***************************************************************************)
(* One executor of the tool loop (orchestrator/tools_exec): the calls an   *)
(* assistant message asks for are partitioned into batches, every call of  *)
(* a batch runs the pipeline validate - authorize - ask the user - hook -  *)
(* call in a task of its own, and the batches run one after the other.     *)
(* The authorizer (tool_authz), the permission round trip of the session   *)
(* and the client's connection take part.                                  *)
(*                                                                         *)
(* A tool stands for itself and its input, so a session grant is for a     *)
(* tool, and writing a plan file and writing another file are two tools.   *)
(*                                                                         *)
(* The executor is the session's own agent's.  A sub-agent runs inside a   *)
(* call of its parent, with an executor of its own that is not followed:   *)
(* nobody sets a callback or a mode on it, so that _auto_allow of          *)
(* orchestrator/agents.py answers its asks and plan mode does not bind it. *)
(***************************************************************************)
EXTENDS Naturals, Sequences, FiniteSets

CONSTANTS
  Calls,           \* tool-use ids
  Tools,           \* tools the model asks for
  Known,           \* those the ToolManager resolves
  Safe,            \* is_concurrency_safe
  ReadOnly,        \* is_read_only_call
  ReadOnlyKind,    \* tools whose ToolKind is read-only
  PlanExempt,      \* ExitPlanMode, which plan mode leaves to the rules
  PlanFile,        \* Edit or Write of the session's plan file
  ModeTools,       \* EnterPlanMode and ExitPlanMode, whose call sets the mode
  Verdict,         \* [Tools -> {"allow", "ask", "deny"}]: RuleEngine and arbitration
  Modes,           \* permission modes of the session that occur
  MaxConcurrency,  \* the executor's semaphore
  Faults           \* which disturbances occur

ASSUME ToolAssumption ==
  /\ Known \subseteq Tools /\ Safe \subseteq Known /\ ReadOnly \subseteq Known
  /\ ReadOnlyKind \subseteq Known /\ ModeTools \subseteq Known
  /\ PlanExempt \subseteq Known /\ PlanFile \subseteq Known
  /\ Verdict \in [Tools -> {"allow", "ask", "deny"}]
  /\ Modes \subseteq {"default", "plan", "bypass", "accept_edits", "auto", "dont_ask"}
  /\ MaxConcurrency \in Nat \ {0}
  /\ Faults \subseteq {"disconnect", "pipelineError", "mode", "cancel", "crash",
                       "storeError", "retry", "compact", "context", "block"}

VARIABLES
  queue,   \* the executor's _queue: a sequence of calls
  tool,    \* [Calls -> Tools \cup {"none"}]
  st,      \* [Calls -> Stages]
  proj,    \* the permission mode projected when the round began
  avoid,   \* should_avoid_prompts as read when the batch was started
  held,    \* the executor has been left by its consumer: no further batch starts
  mode,    \* the session's mode
  saved,   \* the mode the session log holds
  grants,  \* SessionGrantCache of this session
  consent, \* history: the calls of this round the user has allowed
  online   \* a client is connected (session.senders is not empty)

toolVars == <<queue, tool, st, proj, avoid, held, mode, saved, grants, consent, online>>

(***************************************************************************)
(* Stages of a call.                                                       *)
(***************************************************************************)
\* done: the call has a result, of the tool or an error; lost: it has none.
Ended == {"done", "lost"}
Active == {"started", "lock", "asked", "allowed", "running"}
Stages == {"none", "queued"} \cup Active \cup Ended

InStage(S) == {c \in Calls : st[c] \in S}
Move(c, stage) == st' = [st EXCEPT ![c] = stage]
Round == {queue[i] : i \in DOMAIN queue}
NoTools == [c \in Calls |-> "none"]

ToolInit ==
  /\ queue = <<>>
  /\ tool = NoTools
  /\ st = [c \in Calls |-> "none"]
  /\ proj = "default" /\ avoid = FALSE /\ held = FALSE
  /\ mode = "default" /\ saved = "default"
  /\ grants = {} /\ consent = {}
  /\ online = TRUE

(***************************************************************************)
(* The round.                                                              *)
(***************************************************************************)

\* _tool_permission_mode
_tool_permission_mode(m) == IF m \in {"plan", "bypass"} THEN m ELSE "default"

\* add_tool for every call, finalize_stream, and the mode of the whole round.  Which
\* tools the model asked for is chosen here.
BeginRound(calls) ==
  LET ids == {calls[i] : i \in DOMAIN calls}
  IN /\ queue' = calls
     /\ st' = [c \in Calls |-> IF c \in ids THEN "queued" ELSE "none"]
     /\ \E use \in [ids -> Tools] :
          tool' = [c \in Calls |-> IF c \in ids THEN use[c] ELSE "none"]
     /\ proj' = _tool_permission_mode(mode)
     /\ held' = FALSE /\ consent' = {}
     /\ UNCHANGED <<avoid, mode, saved, grants, online>>

Mutant_PartitionUnsafe(i) ==
  {j \in i..Len(queue) : \A k \in (i + 1)..j : tool[queue[k]] \in Safe}

\* partition_tool_calls: the batch that begins at position i of the queue.  Only
\* adjacent calls that are all concurrency-safe share a batch.
partition_tool_calls(i) ==
  {i} \cup {j \in i..Len(queue) : \A k \in i..j : tool[queue[k]] \in Safe}

\* results(): the next batch begins when the one before it has ended; tasks and
\* authorization contexts are made for all its calls at once.
StartBatch ==
  /\ ~held /\ InStage(Active) = {}
  /\ \E i \in DOMAIN queue :
       /\ st[queue[i]] = "queued"
       /\ \A j \in 1..(i - 1) : st[queue[j]] \in Ended
       /\ LET batch == {queue[j] : j \in partition_tool_calls(i)}
          IN st' = [c \in Calls |-> IF c \notin batch THEN st[c]
                                    ELSE IF tool[c] \in Known THEN "started" ELSE "done"]
  /\ avoid' = ~online
  /\ UNCHANGED <<queue, tool, proj, held, mode, saved, grants, consent, online>>

RoundOver == queue # <<>> /\ ~held /\ \A c \in Round : st[c] \in Ended

(***************************************************************************)
(* The pipeline of one call.                                               *)
(***************************************************************************)

\* _authorize_impl, _apply_outcome and _handle_ask: a session grant comes first,
\* then the mode, then the rules; without a listener an ask becomes a denial.
_authorize_impl(t) ==
  IF t \in grants THEN "allow"
  ELSE IF proj = "plan" /\ t \notin ReadOnly \cup PlanExempt
       THEN IF t \in PlanFile THEN "allow" ELSE "deny"
  ELSE IF proj = "bypass" THEN "allow"
  ELSE IF Verdict[t] = "ask" /\ avoid THEN "deny"
  ELSE Verdict[t]

\* _run_one_to_queue takes the semaphore; the input is validated and the call is
\* authorized.  An invalid input, a denial and an authorizer that raises all end in
\* an error result.
_authorize(c) ==
  /\ st[c] = "started"
  /\ Cardinality(InStage(Active \ {"started"})) < MaxConcurrency
  /\ LET decision == _authorize_impl(tool[c])
     IN \/ decision = "allow" /\ Move(c, "allowed")
        \/ decision = "ask" /\ Move(c, "lock")
        \/ Move(c, "done")
  /\ UNCHANGED <<queue, tool, proj, avoid, held, mode, saved, grants, consent, online>>

Mutant_AskWithoutLock(c) ==
  /\ st[c] = "lock"
  /\ Move(c, IF online THEN "asked" ELSE "done")
  /\ UNCHANGED <<queue, tool, proj, avoid, held, mode, saved, grants, consent, online>>

\* _permission_lock is taken; _on_permission asks the first sender, or rejects when
\* nobody is connected by now.
AskUser(c) ==
  /\ st[c] = "lock" /\ InStage({"asked"}) = {}
  /\ Move(c, IF online THEN "asked" ELSE "done")
  /\ UNCHANGED <<queue, tool, proj, avoid, held, mode, saved, grants, consent, online>>

Mutant_FailOpen(c, option) ==
  /\ st[c] = "asked"
  /\ Move(c, "allowed")
  /\ consent' = IF option = "reject" THEN consent ELSE consent \cup {c}
  /\ grants' = IF option = "allow_always" THEN grants \cup {tool[c]} ELSE grants
  /\ UNCHANGED <<queue, tool, proj, avoid, held, mode, saved, online>>

\* The client's answer: an option id, offered or not, of which any but two rejects,
\* as an error does.
Answer(c, option) ==
  /\ st[c] = "asked"
  /\ Move(c, IF option = "reject" THEN "done" ELSE "allowed")
  /\ consent' = IF option = "reject" THEN consent ELSE consent \cup {c}
  /\ grants' = IF option = "allow_always" THEN grants \cup {tool[c]} ELSE grants
  /\ UNCHANGED <<queue, tool, proj, avoid, held, mode, saved, online>>

\* PRE_TOOL_USE: the hook may block; otherwise the call starts.
PreToolUse(c) ==
  /\ st[c] = "allowed"
  /\ Move(c, "running") \/ Move(c, "done")
  /\ UNCHANGED <<queue, tool, proj, avoid, held, mode, saved, grants, consent, online>>

\* The tool returns a result; or it raises or returns none, which is an error
\* result.
ToolEnds(c) ==
  /\ st[c] = "running"
  /\ Move(c, "done")
  /\ UNCHANGED <<queue, tool, proj, avoid, held, mode, saved, grants, consent, online>>

\* An exception of the pipeline itself is logged and the call has no result.
PipelineError(c) ==
  /\ "pipelineError" \in Faults
  /\ st[c] \in {"allowed", "running"}
  /\ Move(c, "lost")
  /\ UNCHANGED <<queue, tool, proj, avoid, held, mode, saved, grants, consent, online>>

\* The executor is gone, and the tasks of its current batch are cancelled with it.
CloseRound ==
  /\ queue' = <<>> /\ tool' = NoTools /\ held' = FALSE /\ consent' = {}
  /\ st' = [c \in Calls |-> "none"]
  /\ proj' = "default" /\ avoid' = FALSE
  /\ UNCHANGED <<mode, saved, grants, online>>

(***************************************************************************)
(* The connection and the mode.                                            *)
(***************************************************************************)
Connect ==
  /\ ~online
  /\ online' = TRUE
  /\ UNCHANGED <<queue, tool, st, proj, avoid, held, mode, saved, grants, consent>>

\* on_disconnect: cancel_all_pending cancels the future a permission request waits
\* for.  The cancellation is no Exception, so it passes both handlers that would
\* reject, and ends the task of the call without a result.
Disconnect ==
  /\ "disconnect" \in Faults /\ online
  /\ online' = FALSE
  /\ st' = [c \in Calls |-> IF st[c] = "asked" THEN "lost" ELSE st[c]]
  /\ UNCHANGED <<queue, tool, proj, avoid, held, mode, saved, grants, consent>>

\* session/set_mode of a client: the change is logged at once.
SetMode(m) ==
  /\ "mode" \in Faults /\ m # mode
  /\ mode' = m /\ saved' = m
  /\ UNCHANGED <<queue, tool, st, proj, avoid, held, grants, consent, online>>

\* _set_mode from inside a tool: the log learns of it before the next turn.
ToolSetsMode(c, m) ==
  /\ "mode" \in Faults /\ st[c] = "running" /\ tool[c] \in ModeTools /\ m # mode
  /\ mode' = m
  /\ UNCHANGED <<queue, tool, st, proj, avoid, held, saved, grants, consent, online>>

ToolStep ==
  \/ StartBatch
  \/ \E c \in Calls : _authorize(c) \/ AskUser(c) \/ PreToolUse(c) \/ ToolEnds(c)

ClientStep ==
  \/ Connect
  \/ \E c \in Calls, o \in {"allow_once", "allow_always", "reject"} : Answer(c, o)

ToolFault ==
  \/ Disconnect
  \/ \E c \in Calls : PipelineError(c)
  \/ \E m \in Modes : SetMode(m) \/ \E c \in Calls : ToolSetsMode(c, m)

(***************************************************************************)
(* Properties.                                                             *)
(***************************************************************************)
ToolTypeOK ==
  /\ queue \in Seq(Calls)
  /\ tool \in [Calls -> Tools \cup {"none"}]
  /\ st \in [Calls -> Stages]
  /\ proj \in {"default", "plan", "bypass"}
  /\ avoid \in BOOLEAN /\ held \in BOOLEAN /\ online \in BOOLEAN
  /\ mode \in Modes \cup {"default"} /\ saved \in Modes \cup {"default"}
  /\ grants \subseteq Known /\ consent \subseteq Calls

\* A call that is not concurrency-safe is a barrier (partition_tool_calls): while it
\* is under way no other call is, and nothing that comes after it in the assistant's
\* message has begun, whatever is rejected, blocked, lost or left behind by a
\* cancelled turn.
BarrierHolds ==
  \A i \in DOMAIN queue : tool[queue[i]] \notin Safe =>
    /\ st[queue[i]] \in Active => InStage(Active) = {queue[i]}
    /\ st[queue[i]] \in Active \cup {"queued"} =>
         \A j \in (i + 1)..Len(queue) : st[queue[j]] = "queued"

\* _permission_lock serialises the prompts of a round: the user is never asked
\* about two calls at once.
OnePromptAtATime == Cardinality(InStage({"asked"})) <= 1

\* A call gets past authorization only with a consent: the user's answer to its own
\* prompt, an earlier allow_always, or a mode or rule that needs none.  In a round
\* that began in plan mode a call with side effects needs the standing grant or
\* writes the plan file.  It is about the calls of the session's own agent.  What a sub-agent
\* does inside a call is not meant: spawn_subagent falls back to _auto_allow, which grants
\* every ask it gets.  Nor is a turn of the cron scheduler: with somebody connected to its
\* session CronExecutor allows what is asked.
EffectsAreConsented ==
  \A c \in InStage({"allowed", "running"}) :
    \/ tool[c] \in grants
    \/ proj = "bypass"
    \/ proj = "plan" /\ tool[c] \in PlanFile
    \/ /\ Verdict[tool[c]] = "allow" \/ c \in consent
       /\ proj = "plan" => tool[c] \in ReadOnly \cup PlanExempt
=============================================================================
