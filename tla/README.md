# Verification of the Mustang kernel

TLA+ models of the parts of this repository whose correctness depends on the
order in which concurrent things happen, TLC runs on small instances of them, and
TLAPS proofs for every value of the constants. Product code lives under
`src/kernel/kernel` (below: `K`), the Mustang agent under
`K/agents/mustang` (below: `M`).

## The system

A supervisor starts and restarts three kinds of processes: an agent hub that
registers agents and forwards requests, an access agent that faces the clients,
and agent kernels. The Mustang kernel is one asyncio process. Clients reach it by
ACP over WebSockets, chat platforms through gateway adapters, and its own cron
scheduler through the gateway interface. Several kernels may share one SQLite file.

| Component | State | Operations | How it interacts | What is hard |
|---|---|---|---|---|
| Cron scheduler (`M/schedule`) | `cron_tasks` rows (status, next fire, counts, `running_by`, heartbeat), memory tasks, loop and catch-up coroutines, executions | loop tick, claim, release, heartbeat, sweep, fire, failure handling, create / pause / resume / delete / trigger, start, stop | shares SQLite with other kernels; runs turns through the session manager | claims against crashes, stale listings, two-step writes, a loop that can die |
| Sessions (`M/sessions`) | `_sessions` table, per session `in_flight_turn`, FIFO, senders, event log | prompt, retry, gateway turn, cancel, close, load, resume, disconnect, evict, delete | called by ACP requests, gateways, cron; drives the orchestrator | awaits between check and use; cancellation at every await; objects replaced under running coroutines |
| ACP layer (`K/core/protocol/acp`) | request tasks, pending outgoing requests, connections | route, cancel request, disconnect | one task per request | cancellation of a request that another awaits |
| Supervisor (`K/supervisor`) | child processes, restart history, lock | start in order, wait, restart chain, control requests, stop | threads, OS processes, runtime files, readiness endpoints | control thread against wait loop, restart budget |
| Agent hub, Access Agent, runtime service (`K/agent_hub`, `K/agents/access`, `M/runtime`) | runtime records, waiting requests, the sender of a session and its peer | register, forward, prompt, load, cancel | WebSockets between three processes | a process that dies under a request, a sender shared by prompts |
| Orchestrator (`M/orchestrator`) | history, mode, tool round state | query, close, compact, tool rounds | provider, tools, permission callback, event log | cancellation in one of two coroutines, repair, retries, reload |
| Tool authorization (`M/tool_authz`) | rules, session grants | authorize, grant | permission round trip to a client | mode, grants and connection change during a round |
| Background tasks (`M/tasks`, `M/tools/builtin`) | task table, names, notification queue, reminders | spawn, resume, stop, report, drain, evict, shut down | agents of one session share the registry | who is told of an end, and what outlives what |
| Gateways, MCP, LLM, memory, git, other tools, configuration, CLI, launcher | | | | mostly I/O; see `PROJECT.json` |

What makes the modelled components correct:

* cron: one execution of a task at a time; a claim is lost only when its owner
  stopped refreshing it; a one-shot fires once; repeat limits hold; finished tasks
  stay finished; a claim leaks only where its release failed, and ends even then; due
  tasks are served as long as some kernel survives;
* sessions: one turn at a time; a queue always has a turn that will dispatch it;
  `in_flight_turn` tells the truth; a retry under one `clientTurnId` neither runs
  again nor is answered differently; every prompt is answered;
* agent turns: what is sent to the provider pairs tool uses with results; what the
  agent has in mind can be loaded again; unsafe tools run alone; no effect of the agent's
  own calls happens without consent;
* runtime: one process per child and none left behind but in two named ways; after crashes
  the default route comes back; a prompt's stream goes to its own client and every request
  ends;
* background tasks: the end of a task is announced at most once, is at every moment in one
  place on its way to a prompt, and lost only in ways that can be named; a forgotten task
  does not run on; names lead to agents.

`PROJECT.json` lists the hazards behind these, each at its line.

## Plan

1. `CronScheduler`, its runs, proofs of exclusion and heartbeats. *Done.*
2. `SessionTurns`, its runs, proof that the queue keeps its driver. *Done.*
3. `TaskLease`, the abstract claim protocol, and `CronScheduler` checked to implement
   it. *Done.*
4. `History`, `ToolRound`, `AgentTurn`: the agent's turn from prompt to log. *Done.*
5. `AgentHub` and `Supervisor`: the processes and the way of a prompt. *Done.*
6. `BackgroundTasks`. *Done.*
7. Proofs of the refinement of 3 and of the safety properties of every component.
   *Done.*
8. Proofs about the message sequences of `AgentTurn`: what repair yields, what requests
   hold, that the log reloads. *Done.*

9. Failing releases and heartbeats of the scheduler, the threads' steps inside
   `_consume_restart_budget` and `_start_child`, the awaits inside `setup_turn`.
   *Done.*
10. Next: the executors of sub-agents, as rounds inside a call of their parent.

Composition: `AgentTurn` extends `ToolRound` and `History`; `Supervisor` extends
`AgentHub`; `CronScheduler` instantiates `TaskLease`.

## Modules

### CronScheduler

One row per task (`row`), its claim columns (`claim`), and per kernel the loop, the
catch-up and the pending user operation. A *fiber* is a coroutine that can execute tasks:
the loop, the catch-up, and `trigger_now`. `job[f][t]` is where fiber `f` is with task
`t`: `due` (in its listing), `queued` (claimed, waiting for the semaphore), `starting`,
`running`, `mute` (running, its heartbeat has failed), `ended`, `failed` (in the except
clause), `complete` and `alert` (between two writes), `release`, `raised` (its exception
is about to end the catch-up). An action is what the code does between two awaits of the
store:

| Action | Code |
|---|---|
| `LoopCleanup`, `LoopList`, `LoopExpire`, `LoopClaim`, `LoopFire`, `LoopSleep`, `LoopWake`, `LoopError` | `_schedule_loop`, `_fire_batch` |
| `CatchupCleanup` ... `CatchupDone`, `CatchupError` | `handle_startup_catchup` |
| `_claim_tasks`, `_release_task`, `_cleanup_stale_claims` | the same names |
| `BeginTurn`, `SessionFails`, `Heartbeat`, `HeartbeatFails`, `EndTurn` | `CronExecutor.execute`, `_heartbeat_loop` |
| `RecordFired`, `RecordCompleted`, `RecordFails`, `HandleFailure`, `FailureAlert` | `_fire_task`, `_handle_failure` |
| `HandleFails`, `ReleaseFails` | the same, when a write of the failure handling or of the release raises |
| `CreateCheck`/`CreateAdd`, `PauseCheck`/`PauseWrite`, `ResumeCheck`/`ResumeWrite`, `DeleteTask`, `TriggerNow`/`TriggerEnds` | `ScheduleManager` |
| `Startup`, `Stop`, `Shutdown`, `Crash` | process life cycle |
| `Tick` | the clock |

A kernel draws a fresh id at every start, so a member of `Kernels` starts once.
Time is kept as ages and countdowns. `Tick` does not pass a heartbeat or wake-up
that is due: asyncio serves timers within the grain of the model (seconds against
intervals of 30, 60 and 120 seconds); everything else, the time between any two
store calls included, may take arbitrarily many ticks. A durable task is
copied when it is listed; a memory task is shared by reference. The schedule parser
is abstracted to the distances it can return, an error to transient or permanent.

A write that fails changes nothing, and where it fails decides what follows. In the
success path it leads to the except clause, whose failure handling may fail too; then, and
when the release in the finally clause fails, an exception leaves `_fire_task`: `gather`
swallows it for a job of the loop, for the catch-up it is the end. A heartbeat that fails
stops beating while its turn goes on, and its exception comes up when the turn is over.
That a failure alert's write fails is caught by the code and is its step that changes
nothing.

`claim[t].leaked` is a history variable: an attempt to release this claim failed.
`ClaimHasWorker` exempts those claims and no others; that they end all the same, by a
sweep, is `ClaimsEnd`. The claim of a memory task is never released, so that it is not
due again for its kernel once it has been claimed: `ClaimHasWorker`, `ClaimsEnd` and
`DueIsServed` are about durable tasks.

`swept` is a history variable: the tasks of which a stale claim was ever cleared.
`ExclusiveExecution` and `OneShotFiredOnce` promise nothing about those, because the
code does not: a claim queued behind the semaphore has no heartbeat, and when it is
swept, its owner still runs the task later.

### SessionTurns

One session id, several Session objects for it, and a set of prompts. `pc[t]` is
where the coroutine of prompt `t` is; `setup`, `query`, `cancelling` and `closing`
are the parts of `_run_turn_core` before the try block, in it, in its except clause
and in its finally clause. `ready` is the event loop's list of dispatched
`_run_queued_turn` tasks. `answer` is what the caller gets (`response_future`, or
the return of the request), `comp` the `completion_future`; `withdrawn` is the answer
to a request its client cancelled, `stranded` that of a gateway call whose
`text_collector` nobody will resolve. `stored` is what the event log says of a
`clientTurnId`. `wedged` is a history variable: the objects of which a turn ended
before its finally clause did. The code leaves those with a stale `in_flight_turn`;
`QueueHasDriver`, `InFlightIsRunning` and `EveryPromptAnswered` are about the others,
and `FinallyClearsInFlight` is the violated claim that there are none.

The setup awaits four times and the finally clause three or four times; each is one
step here, with `TurnAborts` standing for a cancellation or failure at any of its
awaits. Closing a runtime (`_close_runtime`) is one await.

### TaskLease

What the claim columns promise, without table, loops and clock: a task is leased to one
owner at a time, only a lapse lets a second worker in. `CronScheduler` instantiates it
(`Lease`) for the durable tasks: `holder` is `running_by`, the workers of a task are the
fibers between claim and release, `lapsed` is `swept`. `ImplementsLease` says that every
step of the scheduler is a step of the lease or leaves it alone.

### History, ToolRound, AgentTurn

`History` holds the operators on message sequences: pairing, repair, compaction
boundary, microcompaction, and the step of the log's replay. A message is its role and
the ids of the tool uses or results it carries. A pass over a history (a `for` loop of the
code) is a recursive function of the position it has got to, so that what it computes can
be proved for histories of any length.

`ToolRound` is one executor of the session's own agent. `queue` is its list of calls,
`st[c]` where call `c` is: `queued`, `started` (its task exists), `lock` (waits for
`_permission_lock`), `asked`, `allowed`, `running`, `done` (a result, of the tool or an
error) or `lost` (no result).

| Action | Code |
|---|---|
| `BeginRound`, `StartBatch`, `partition_tool_calls`, `CloseRound` | `ToolExecutor`, `partition.py`, `_execute_batch_concurrent` |
| `_authorize`, `_authorize_impl`, `AskUser`, `Answer` | `tools_exec/authorization.py`, `tool_authz/authorizer.py`, `_on_permission` |
| `PreToolUse`, `ToolEnds`, `PipelineError` | `_run_one` |
| `Connect`, `Disconnect`, `SetMode`, `ToolSetsMode` | binding, `on_disconnect`, `set_mode`, `_set_mode` |

An answer is any option id, offered or not: `_on_permission` and `_authorize` look only at
what it is. So a client that answers `allow_always` where the option was not offered, for
a destructive tool, creates a grant; `session_grant_cache.py` and `tool_authorizer.md`
leave that to the user interface.

A sub-agent is a child orchestrator inside a call of its parent, here one running call.
Its executor has a lock and a grant cache of its own and is not modelled. Its asks go to
`_auto_allow` (`orchestrator/agents.py`), which grants them, and its mode is `default` for
ever: an Agent call is read-only and therefore allowed in plan mode, and what the child
then does is not under plan mode. So `EffectsAreConsented` says nothing of it: what the
rules want asked is done by a sub-agent without a question, as long as somebody is
connected.

`AgentTurn` is `run_query` (`pc`, `turn`), the session's consumer of its events, and the
log. The generator and its consumer share a task, so a cancellation is delivered
either inside the generator (`CancelInQuery`, which seals open tool uses) or inside the
consumer (`CancelInConsumer`, which does not, and leaves the tools of the round running
until `Collect`). `pend` is the list of log writes under way and `disk` the history a
replay of the log yields: replay is a left fold, so nothing else of the log matters.
`lost` and `torn` are history variables: calls that ended without result, and whether
a write was lost that no later snapshot replaced.

| Action | Code |
|---|---|
| `BeginTurn`, `Blocked`, `SetupTurn`, `AppendPrompt`, `StopAtMaxTurns` | head of `run_query`, `setup_turn` |
| `PrepareHistory`, `Summarised` | `prepare_history`, `Compactor.compact` |
| `StreamCalls`, `StreamText`, `StreamError`, `Refused`, `ProtocolError`, `HandleStop` | stream loop, its handlers, `handle_stop` |
| `StartRound`, `RunTools`, `AppendResults` | tool part of the loop |
| `Commit`, `WriteFails`, `UserContext`, `Crash` | `_persist_history_*`, `_append_user_execution_context`, `_load_from_disk` |

Abstractions: an assistant message with tool uses carries only them; a call stands for its
tool and input, so a grant is for a tool; input validation and authorization are one step;
a provider refuses a history for its pairing only if it is not paired; an executor left by
a cancelled turn is collected before the next round starts; the rule engine is the
parameter `Verdict`; the authorizer is present; the input a hook or an answer may rewrite
is not followed; the callbacks that gateways and the cron executor bring along are not
modelled (the latter allows what it is asked, which happens only when a client is
connected to the session of a cron turn).

### AgentHub, Supervisor

`AgentHub` has the three processes (`child`), the hub's record of the Primary Agent, and
the way of the prompts of one session: `req[p]` as the Access Agent sees it (a result and
an error are both `answered`), `runq` the prompts inside the Primary Agent, `bound` and
`peer` the session's sender and the connection it streams to. `clean` is a history
variable: the prompts that had the sender to themselves from their arrival on.
`Supervisor` adds the threads: `main` (`start`, `wait`, `stop`), `ctl` (the control
socket, single-threaded) and one per requested restart.

| Action | Code |
|---|---|
| `HubBoots`, `AccessBoots`, `_register_agent` | the three `__main__`/`_lifespan` |
| `_route_agent_prompt_through_hub`, `_forward_agent_contract`, `EnterService`, `PromptReturns` | ACP session handler, hub server, `AgentSessionRuntimeService.prompt` |
| `_broadcast`, `load_session`, `_cancel_incoming_request`, `Gone` | the same names; connections that end with a process |
| `_start_child` (Popen), `EnterChild` (the entry in `children`), `AwaitChild`, `AwaitFails`, `RouteReady`, `RouteFails` | `start`, `_start_child`, `_wait_*`, second half of `_restart_from_locked` |
| `Poll`, `_handle_child_exit`, `ExitNoted`, `_restart_from`, `Reap` | `wait` and the restart chain |
| `FilterAttempts`, `StoreAttempts`, `CheckAttempts`, `_consume_restart_budget` | the four steps of `_consume_restart_budget` |
| `control_*`, `ControlReplies` | control requests |
| `Signal`, `Halt`, `StopReap`, `Quit` | signal handler, `stop`, exit |

`unnamed` has the children whose newest process is not in `children`: `stop()`, `wait()`
and a restart see the one before it, which is over. A signal may strike the main thread
between the two statements of `_start_child`, and then the process stays unnamed. The
restart budget is filtered, stored, checked and appended to in four steps, by the main
thread and by the control thread at once, without a lock; `recent` is the list a thread
has filtered and not yet stored.

Abstractions: status texts, counters and the payload of `supervisor.json` steer nothing
and are left out, but that two threads write it through one temporary name is kept (a
write of the main thread may raise while the control thread writes); the kill after a
deadline is folded into `ProcessEnds`, and `stop()` waits for the process a child had when
its turn came (`stopWait`), not for one that a restart put in its place; sending to the
hub and forwarding are one step; ports are fixed, so a registration is a boolean;
`restart_self` after a prompt is the control request `restart_agent`; the budget is the
number of attempts younger than the window; an unnamed process that is replaced is not
followed further; a request is served when a worker is free to take its restart (`Workers`
bounds them); a second signal inside `stop()`, which would run it once more, is not an
action. `stray` and `raced` are history variables: an entry of `children` replaced while
its process lived, a child entered by a restart thread while the main thread was in
`stop()`.

### BackgroundTasks

Tasks are numbered as they are started; a sub-agent's id is its task. `work[t]` is what
became of the process or coroutine, `status[t]` what the registry says; `nq[t]` counts the
entries of `t` in the notification queue, which is drained whole, so that its order
decides nothing; `rem` the session's reminders, `taken[a]` those that agent `a`'s query
has drained and not yet appended to its history, `ph[a]` where the query is: in `hook` it
awaits the prompt hooks, or the write of a repaired history. `told`, `lost`, `evictor` and
`late` are history variables.

| Action | Code |
|---|---|
| `setup_turn`, `BeginTurn`, `PromptBlocked`, `TurnCancelled` | head of `run_query` (`loop/engine.py`), `loop/steps.py` |
| `drain_task_notifications` | `loop/steps.py` |
| `_spawn_background`, `SpawnForeground`, `_resume_agent`, `register`, `SpawnFails` | Bash, Monitor, Agent, SendMessage |
| `_wait_and_notify`, `_monitor_timeout`, `_run_agent_background`, `AgentRaises`, `TaskStop` | the ends of a task |
| `ShutdownBegins`, `ShutdownVisits`, `ShutdownReaps`, `ShutdownEnds` | `TaskRegistry.shutdown` from `_close_runtime` |

Abstractions: a tool call is a round of its own; an agent starts nothing while one of its
calls is under way; `shutdown()` visits its list in any order; a closed session is not
loaded again; a sub-agent that is cancelled is one that raises (`AgentRaises`); the
message queues of agents, monitor lines, todos, output files and the stall watchdog are
left out.

### MC modules

They name model values and constant functions for TLC.

## Runs

| Run | Instance | Shows |
|---|---|---|
| `cron_claims` | 2 kernels (1 already up), 1 durable one-shot; crash, loop error | types, heartbeats, exclusion, fired once, no leaked claim; implements `TaskLease` |
| `cron_users` | 1 kernel, 1 recurring task whose schedule may raise; create, pause, resume, delete, trigger, shutdown, failing writes | only a failed release leaks a claim; a trigger breaks neither exclusion nor claims; a finished task stays finished |
| `cron_live` | 2 kernels, 1 durable recurring task, there from the start or created at any moment; crash, shutdown, loop error, failing writes, raising schedule; fair | claims end; due tasks are served, although notifications are cleared unseen |
| `cron_repeat` | 2 kernels, `max_count` 2 | **violated**: a third fire |
| `session_turns` | prompt, retry, gateway turn, 2 objects, queue of 1, 2 client operations; failing store | types, queue driven, in-flight truthful, retries agree |
| `session_live` | prompt, its retry, another prompt, 2 objects, queue of 1, 1 client operation; raising orchestrator; fair | every client prompt answered |
| `session_serial` | prompt and gateway turn | **violated**: two turns at once |
| `session_retry` | prompt and retry | **violated**: both run |
| `session_cancel` | prompt and cancel | **violated**: `in_flight_turn` stays |
| `agent_turn` | 2 prompts, 2 tool calls of 4 tools (read-only, with effects, writing the plan file, mode-setting), 3 modes, 2 disturbances of 10 kinds | requests answer and follow their uses, repair works, the log reloads, barriers, one prompt at a time, consent |
| `runtime` | 3 processes, 2 prompts, 1 restart thread, budget of 1 restart, 2 disturbances of 8 kinds; fair | one process per child, none left at exit but in two named ways, registration, clean streams; recovery; every request ends |
| `background_tasks` | root agent, 2 tasks of any kind, 1 name, 3 disturbances of 7 kinds | a notice in one place, own notice kept, nothing forgotten runs, names resolve, ends are final |

Bounds. Two kernels are enough for every claim race the protocol has, because a claim has
one holder and one contender at a time; one of them starts late so that it is also the
restarted one. A second task, and with it the queue on the semaphore, is left to the proof
of `Exclusive`, which holds for any number of tasks. Heartbeat interval, stale threshold,
sleep and period are one tick, the least that keeps beat, stale, due and asleep apart.
`CountCap` and `FailCap` saturate just above the limits the properties compare with; a run
that does not look at the counts sets them lower. The failing writes and the trigger are
in a run of one kernel (`cron_users`), the writes in `cron_live` too; the theorems hold
for all of them together. Where one failure already counts as the last strike
(`cron_users`), a schedule that raises disables its task; in `cron_live` it does not.
`cron_live` has creation as its only user operation: a trigger's heartbeat refreshes a
claim of its kernel, a leaked one too, so a user who triggers for ever keeps it from being
swept. Three turns give one in flight, one in the queue and one arriving. Two Session
objects give the old and the reloaded one; an object nothing refers to is reused. `Budget`
bounds cancel, `$/cancel_request`, close and disconnect; loads are free. In the models of
turns, processes and tasks a *disturbance* is anything the program does not do by itself
(crash, cancel, lost write, refused prompt, control request, ...); `Budget` bounds how
many occur and every kind may. Two calls make a batch and a barrier, two prompts a
repaired history or an overlap on a sender; one restart of budget makes it run out; two
tasks give a parent and a child or two tasks of one owner, three disturbances a stop, an
eviction and a reuse. `ObjectSymmetry` is used by `session_turns` only, which checks
invariants. Deadlock checking is off: a behaviour ends when all kernels are down, or all
prompts are over.

Fairness. `CronScheduler`: asyncio runs every runnable coroutine (weak fairness of loop,
catch-up and job steps), time passes, turns end (`execute` bounds them with
`timeout_seconds`), a graceful shutdown completes. Nothing is assumed of users, crashes or
errors; `ClaimsEnd` and `DueIsServed` assume a kernel that stays up with its loop, and
`DueIsServed` that the handling of failed executions does not itself fail for ever
(`StoreRecovers`), both stated in the formula. `SessionTurns`: asyncio runs every runnable
coroutine, the store answers, and the orchestrator's stream ends. Nothing is assumed of
clients. `Supervisor`: threads are scheduled, processes that start come up and processes
that are signalled end (a kill follows the deadline), the window of the budget moves with
time, and turns end. Nothing is assumed of crashes, requests, signals and clients.

Every property of a passing run has a mutant: an operator `Mutant_...` next to the
definition it replaces, under which TLC finds the property violated.

## Findings

Four documented promises are stated as properties that TLC finds violated; `PROJECT.json`
quotes them. `cron_repeat`: the claim does not re-check that the task is still due.
`session_serial`: a dispatched turn that has not started is invisible. `session_retry`: the
duplicate check awaits between check and use. `session_cancel`: the setup of a turn is
outside its try block.

Four more came up with the models of this code and are exceptions of its properties or
outside them:

* `ExitLeavesNoChild`: `docs/kernel/architecture/history/agent-control-plane.md` (line 1018)
  has the Supervisor stop its three children when it exits. A signal between Popen and the
  entry in `children` (`runtime.py:222`) leaves the new process behind.
* The restart budget is checked and then appended to without a lock by two threads
  (`runtime.py:382-391`), so that both can pass the check, or one overwrite the other's
  attempt; no property claims that it is kept
  (`supervisor-controlled-restart-plan.md`, line 120: at most so many in the window).
* `NoticeIsOnce`: `setup_turn` takes the reminders off the session and then awaits. A turn
  cancelled there has them in a local variable only, and nobody is told (`lost` is
  `cancelled`), although the Agent tool says "You will be notified when it completes."
* `docs/kernel/subsystems/tool_authorizer.md` (line 694) has a sub-agent's asks reach the
  user through the channel of the root session; `_auto_allow` grants them unasked.

Properties of passing runs name, as exceptions, what the code does not guarantee; each
is worth a look by itself:

* `ClaimHasWorker` and `DueIsServed`: the release does not reach a task kept in memory,
  which therefore fires once; a release that raises leaves a claim nobody works on until a
  sweep.
* `EffectsAreConsented` is about the calls of the session's own agent, not its sub-agents'.
* `RequestsAnswerUses` exempts calls that ended without result: a client that
  disconnects while it is asked cancels a future, and `CancelledError` passes the
  `except Exception` that would reject the call.
* `RequestResultsFollowUses` exempts the head of a compacted history: the boundary counts
  result-only messages as turns and may separate a use from its results.
* `ExitLeavesNoChild` exempts a process that is started and not entered when the exit
  begins, and a requested restart that is under way: `stop()` neither joins nor locks it
  out.
* `RegisteredWithThisHub` is about a Primary Agent the Supervisor knows.
* `NoticeIsOnce` counts a notice a blocked or cancelled prompt has drained as lost.
* `RuntimeRecovers` names `ControlDeadlock`: `stop_runtime` shuts down the server of the
  thread it runs in, and the main thread then restarts what was stopped.
* `CleanPromptStreams` is about prompts that do not overlap on a session.
* `TerminalSticks` lets `killed` be overwritten by a stopped shell's or agent's own end,
  although `TaskStatus.is_terminal` says "True when the task will not transition further".
* `ForgottenIsStopped` exempts stopped agents, whose `cancel_event` nobody creates, and
  tasks registered while `shutdown()` awaits.
* `OwnNoticeKept` lets another agent's round evict a task before its owner was told.

Seen while reading and not modelled: messages queued for a running agent are drained at
the start of its query only; a monitor's last lines are lost when it is evicted in the
same round; modes `accept_edits`, `auto` and `dont_ask` are projected to `default` for
tools; a call that times out in the hub may still be applied.

## Proofs

Checked by TLAPS for all values of the constants that satisfy the assumptions of the
modules (`CronAssumption`, `HeartbeatAssumption`, `TurnsAssumption`, `ToolAssumption`,
`HistoryAssumption`, `TurnAssumption`, `HubAssumption`, `SupervisorAssumption`,
`TasksAssumption`): types, non-emptiness, `None` distinct, at least one recent turn kept
by a compaction, heartbeat interval at most the stale threshold. The bounds of the runs
(numbers of kernels, tasks, turns, prompts, calls, disturbances) are parameters here. Every
invariant below was first checked by TLC on the instance of its run.

| Theorem | Property | Inductive invariant |
|---|---|---|
| `TypeCorrect` (`CronScheduler_proofs`) | `TypeOK` | itself |
| `Exclusive` (`CronScheduler_proofs`) | `ExclusiveExecution` | `ClaimInv` |
| `BeatingIsSafe` (`CronLease_proofs`) | `BeatingClaimIsNotStale` | `BeatInv` |
| `LeaseRefined` (`CronLease_proofs`) | `ImplementsLease` | `ClaimInv` |
| `ClaimsAreWorked` (`CronOutcomes_proofs`) | `ClaimHasWorker` | `WorkerInv` |
| `OneShotOnce` (`CronOutcomes_proofs`) | `OneShotFiredOnce` | `OnceInv` |
| `FinishedForGood` (`CronOutcomes_proofs`) | `FinishedIsFinal` | `TypeOK`, `ClaimInv` |
| `QueueIsDriven`, `InFlightIsTruthful` (`SessionTurns_proofs`) | `QueueHasDriver`, `InFlightIsRunning` | `TurnInv` |
| `RetryIsTold`, `SessionTypes` (`SessionTurns_proofs`) | `RetryGetsTheAnswer`, `TypeOK` | `TurnInv`, `RetryInv` |
| `UnsafeCallsRunAlone`, `PromptsAreSerial`, `NoEffectWithoutConsent` (`AgentTurn_proofs`) | `BarrierHolds`, `OnePromptAtATime`, `EffectsAreConsented` | `CallsAreNew`, `ToolInv` |
| `TypesHold`, `RequestsAreAnswered`, `ResultsFollowTheirUses` (`AgentTurn_proofs`) | `TypeOK`, `RequestsAnswerUses`, `RequestResultsFollowUses` | the same and `RequestInv` |
| `RepairAlwaysPairs` (`AgentTurn_proofs`) | `RepairPairs` | `RequestInv`, for the types; `RepairCorrect`, `RepairIdle` |
| `HistoryCanBeReloaded` (`AgentTurn_proofs`) | `HistoryReloads` | the same and `ReloadInv` |
| `OneProcessPerChild`, `NothingOutlivesExit`, `RouteLeadsToPrimary`, `SupervisorTypes` (`Supervisor_proofs`) | `NoStrayChild`, `ExitLeavesNoChild`, `RegisteredWithThisHub`, `TypeOK` | `ProcInv` |
| `PromptsStreamHome` (`Supervisor_proofs`) | `CleanPromptStreams` | `PathInv` |
| `NoticeInOnePlace`, `OwnerMissesNothing`, `DroppedIsStopped`, `NamesLead`, `TaskTypes` (`BackgroundTasks_proofs`) | `NoticeIsOnce`, `OwnNoticeKept`, `ForgottenIsStopped`, `NamesResolve`, `TypeOK` | `Inv` |
| `EndsStick` (`BackgroundTasks_proofs`) | `TerminalSticks` | `Inv` |

The arguments:

* `ClaimInv`. Exclusion alone is not inductive: a release or a claim may touch a row
  another fiber holds. The invariant adds that a durable task claimed by a fiber and
  never swept has that fiber's kernel in `running_by` (`ClaimNamesHolder`), so that a
  compare-and-swap by anybody else fails, and that `trigger_now` fibers hold nothing
  (`TriggersHoldNothing`). A sweep is the only step that takes a claim from its holder,
  and it records the task in `swept`.
* `BeatInv`. A running turn's beat timer never passes the interval (`BeatsInTime`: `Tick`
  waits for a due heartbeat), and the age of a beating claim is at most the beat timer
  (`AgeBoundedByBeat`: both are reset together and grow together). With the interval at
  most the threshold, the claim is not stale.
* `LeaseRefined`. Initial states map to initial states; for each group of actions a lemma
  says which step of `TaskLease` it is: a claim acquires, a release finishes, a sweep
  lapses, crash, stop and loop errors abandon, all else leaves the lease alone. That a
  release finishes only its own lease needs `ClaimNamesHolder`.
* `WorkerInv`. A claim that has not leaked has its fiber. Listing overwrites the jobs of a
  fiber; a claim would leak if one were left. So a loop outside its working section has no
  jobs (`LoopRests`), nor has a catch-up (`CatchupRests`), and a kernel that has not
  started owns no claim (`NewIsFresh`).
* `OnceInv`. For a one-shot that was never swept: while its row is active and unclaimed
  nothing has been recorded, and a fiber that holds it has recorded nothing unless it is
  between the two writes or past both (`RecordedThenClosed`). Exclusion makes that fiber
  the only one.
* `TurnInv`. Every queue holds turns of its own object that are waiting in it, each once
  (`QueuesAreSound`; otherwise a head that is dispatched could already be over, or be
  dispatched again), dispatched tasks are popped turns, each once (`ReadyIsSound`), and a
  turn on its way through `_run_turn_core` holds an object (`HoldsObject`). One lemma per
  kind of step says what it does; `NextInv` assigns each action to one of them. Two turns
  at once (the finding of `session_serial`) do not break it: whoever reaches the end of
  the finally clause clears `in_flight_turn` and dispatches the next turn.
* `RetryInv`. A retry never becomes a turn and what it awaits is never a retry
  (`RetriesWait`, `InFlightIsNoRetry`), so that answers do not chain. A turn that is not
  over has both futures pending (`Unanswered`), a settled `completion_future` says what
  `response_future` says (`FuturesAgree`), unless a client withdrew a request for the
  turn; a withdrawal is never forgotten (`WithdrawnStays`). The second is why it does not
  matter which of the two a retry awaits.
* `ToolInv`. Only calls of the round's queue have a stage, each is there once
  (`StagesOK`, `CallsAreNew`), so that the batch `partition_tool_calls` cuts off is the
  whole of what is under way; the permission lock has one holder (`AskedIsOne`); a call
  that is to be asked about is one plan mode lets through (`AskedIsPermitted`: mode is
  read once per round, the answer comes later).
* `History_proofs` holds what the operators on histories compute, for every length. The
  provers have no induction over data; it is replaced by a fact about sets of positions
  (`Positions`: a set that holds 0 and with each position the next holds all of them,
  since every non-empty set of naturals has a least member, `LeastMember`). By it the
  recursive functions satisfy their equations (`KeepingDef`, `RepairPassDef`,
  `MatchingDef`, and `ReplayDef` of `AgentTurn_proofs`) and what they compute follows.
  `RepairCorrect`: what repair has put out so far is in order (`InOrder`: paired, but for
  the uses of the assistant message whose results are awaited), so the whole is paired.
  `RepairIdle`: on a paired history each step puts out what it reads.
* `RequestInv`. That a request answers its uses is not inductive: tool uses are appended
  before their results, and compaction and retries cut the history in between. While a
  request is prepared, every use whose result was not lost is answered (`Closed`), and once
  the history is set up results follow their uses (`Follow`); while a round runs, the uses
  not answered are those of the round, in the last assistant message (`Open`). A call whose
  kind was recorded is answered by one message next to its use (`First`, `Settled`), so that
  microcompaction, which decides by kind, removes both sides. One lemma per way a history
  changes (`Grown...`, `SealedKeeps`, `PoppedKeeps`, `CompactedKeeps`, `RemovedKeeps`,
  `RepairFirst`) says which of these survive.
* `ReloadInv`. The history is a part of what the log replays to (`Part`), unless a write was
  lost and no snapshot is under way (`Reloadable`). An assistant message that is replayed
  replaces one that is last, so more is needed where the next one is still to come: the
  history fits the log without the log's last assistant message too (`InLog`), and has no
  assistant message last itself (`LastAsked`). Repair uncovers none (`RepairedEnds`). A
  write that reaches the disk leaves the replay as it is (`ReplayAgrees`).
* `ProcInv`. One thread at a time starts children and enters them (`OneStarter`: under the
  lock, or in `start()` before there are others); it has ended those it will start again
  (`StarterKnows`), so no live process is replaced; the order of starting keeps the
  registration (`PrimaryIsRegistered`: everything after the hub restarts with it).
  `StopperKnows` says how far `stop()` has got with the processes that are entered, unless
  a restart raced it. The restart budget plays no part in it: nothing is proved of the
  number of attempts.
* `PathInv`. The session's queue holds each prompt once and none that is still to be sent
  (`QueueOK`): a prompt with the sender to itself is its head.
* `Inv` of the background tasks. A query holds drained notices only while it awaits in
  `hook` (`HandsAtHook`), no two hold the same, and queue, reminders, hands, told and lost
  are apart and make up what was notified (`Once`). Nothing refers to a task number that
  was not given out (`Untouched`); status and process agree, but for stopped agents
  (`WorkAgrees`); a queued notice of an evicted task was overtaken by another agent
  (`WaitingIsOvertaken`); `shutdown()` still has every running task before it, but for
  late ones (`ShutdownKnows`).

Two proofs changed a model. That `stop()` waits for the process a child had, and not for
a process put in its place, came out of the proof of `NothingOutlivesExit`; that
`start()` opens the control socket once out of `OneStarter`.

Only model-checked:

* liveness (`ClaimsEnd`, `DueIsServed`, `EveryPromptAnswered`, `RuntimeRecovers`,
  `RequestsEnd`): arguments from fairness are out of this prover's reach;
* the four violated claims.

## Not modelled

Sessions: creation, archiving, forking, configuration options; the parent chain of events
and the spilling of large payloads (replay looks at neither). Cron: delivery of results,
pruning of executions, the session reaper, the grammar of schedules. Orchestrator: the
executors of sub-agents, prompt building, snip and media stripping, token budgets, nested
calls of the REPL tool, streaming tool execution, the Bash classifier and dynamic rules.
Hub: management of agent definitions, several agents, resource revisions. Tools other than
the background side of Bash, Monitor, Agent, TaskStop and SendMessage.

Providers, MCP transports, gateways' platform code, memory, skills, hooks, git,
configuration and secrets are I/O and text processing with little state that other parts
decide on; the CLI and the probe are clients; the archived daemon is retired. They are
listed in `PROJECT.json` with the reason for each.
