--------------------------- MODULE BackgroundTasks ---------------------------
(***************************************************************************)
(* The background tasks of one session: shell commands, monitors and       *)
(* sub-agents that agents of the session's tree start (tools/builtin), the *)
(* registry they share (tasks/registry), and the way the end of a task     *)
(* takes to a prompt: notification queue, the owner's drain at the end of  *)
(* a tool round, the session's reminder buffer, the next prompt.           *)
(*                                                                         *)
(* A sub-agent's id is its task id; a foreground sub-agent has an id but   *)
(* no entry in the registry.  Asyncio runs one coroutine at a time, so an  *)
(* action is what happens between two awaits.                              *)
(***************************************************************************)
EXTENDS Naturals

CONSTANTS
  NumTasks,  \* bound: tasks ever started, numbered in that order
  Names,     \* names for background agents
  Root,      \* the session's own agent
  None,
  Faults,    \* which disturbances occur
  Budget     \* bound: how many of them

Tasks == 1..NumTasks
Agents == {Root} \cup Tasks

ASSUME TasksAssumption ==
  /\ NumTasks \in Nat /\ Budget \in Nat
  /\ Root \notin Tasks /\ None \notin Agents \cup Names
  /\ Faults \subseteq {"stop", "resume", "block", "cancel", "raise", "spawnFails", "close"}

VARIABLES
  next,      \* tasks started so far
  kind,      \* kind[t]: none, shell, monitor, agent (background), foreground
  owner,     \* owner[t]: the agent that started t
  nm,        \* nm[t]: the name of agent t, or None
  work,      \* work[t]: what became of the process, the coroutine or their creation
  status,    \* status[t]: TaskState.status, none before registration
  notified,  \* tasks whose TaskState.notified is set
  reg,       \* TaskRegistry._tasks
  names,     \* TaskRegistry._name_to_id
  nq,        \* nq[t]: how often t is in TaskRegistry._notification_queue, whose order only
             \* orders the text of a prompt; the owner of an entry is owner[t]
  rem,       \* tasks with a notification in session.pending_reminders
  taken,     \* taken[a]: those in the reminders a's query has drained and not yet in its history
  ph,        \* ph[a]: where the query of agent a is - none, idle, start, hook, loop, blocked, ended
  life,      \* the registry: open, closing (in shutdown()), closed
  visit,     \* shutdown(): tasks of its list not yet visited
  killing,   \* shutdown(): the task whose process it waits for
  told,      \* history: tasks a prompt has told of
  lost,      \* history: lost[t]: how the notification of t was lost
  evictor,   \* history: evictor[t]: whose round evicted t before its notification was drained
  late,      \* history: tasks registered after shutdown() had begun
  left       \* disturbances that may still occur

taskVars == <<next, kind, owner, nm, work, status>>
noteVars == <<notified, nq, rem, taken, told, lost>>
closeVars == <<life, visit, killing, late>>
vars == <<taskVars, noteVars, reg, names, ph, closeVars, evictor, left>>

Terminal == {"completed", "failed", "killed"}
InQueue == {t \in Tasks : nq[t] > 0}

Init ==
  /\ next = 0
  /\ kind = [t \in Tasks |-> "none"] /\ owner = [t \in Tasks |-> None]
  /\ nm = [t \in Tasks |-> None]
  /\ work = [t \in Tasks |-> "none"] /\ status = [t \in Tasks |-> "none"]
  /\ notified = {} /\ reg = {} /\ nq = [t \in Tasks |-> 0] /\ rem = {}
  /\ taken = [a \in Agents |-> {}]
  /\ names = [n \in Names |-> None]
  /\ ph = [a \in Agents |-> IF a = Root THEN "idle" ELSE "none"]
  /\ life = "open" /\ visit = {} /\ killing = None
  /\ told = {} /\ lost = [t \in Tasks |-> "no"] /\ evictor = [t \in Tasks |-> None]
  /\ late = {} /\ left = Budget

Disturb(what) ==
  /\ what \in Faults /\ left > 0
  /\ left' = left - 1

\* A tool call of a is under way: a task is being created, or a foreground child runs.
Busy(a) == \E t \in Tasks : /\ owner[t] = a
                            /\ \/ work[t] \in {"creating", "resuming"}
                               \/ kind[t] = "foreground" /\ ph[t] # "ended"
InRound(a) == ph[a] = "loop" /\ ~Busy(a)

(***************************************************************************)
(* TaskRegistry.  The operators give the value a method leaves behind.     *)
(***************************************************************************)
Mutant_EnqueueAlways(t, q) == IF t \in reg THEN [q EXCEPT ![t] = @ + 1] ELSE q

\* enqueue_notification: at most once for a task, and only while it is registered.
enqueue_notification(t, q) == IF t \in reg /\ t \notin notified THEN [q EXCEPT ![t] = @ + 1] ELSE q
Notify(t) == notified' = IF t \in reg THEN notified \cup {t} ELSE notified

\* update_status finds only registered tasks.
update_status(t, s) == status' = [status EXCEPT ![t] = IF t \in reg THEN s ELSE @]

Owned(a) == {t \in InQueue : owner[t] = a}
Others(a) == [t \in Tasks |-> IF owner[t] = a THEN 0 ELSE nq[t]]

\* The loop over drain_notifications(agent_id=a): what is still registered becomes a
\* reminder of the session, if the session manager still has the session.
Remind(a, registry) ==
  LET kept == IF life = "closed" THEN {} ELSE Owned(a) \cap registry
  IN /\ rem' = rem \cup kept
     /\ lost' = [t \in Tasks |-> IF t \notin Owned(a) \ kept THEN lost[t]
                                 ELSE IF life = "closed" THEN "closed" ELSE "evicted"]

Mutant_EvictLeavesNames(a) ==
  LET gone == {t \in reg : status[t] \in Terminal /\ t \in notified}
  IN /\ reg' = reg \ gone
     /\ UNCHANGED names
     /\ evictor' = [t \in Tasks |-> IF t \in gone \cap InQueue' THEN a ELSE evictor[t]]

\* evict_terminal: every notified task that has ended, whoever owns it, and its names.
evict_terminal(a) ==
  LET gone == {t \in reg : status[t] \in Terminal /\ t \in notified}
  IN /\ reg' = reg \ gone
     /\ names' = [n \in Names |-> IF names[n] \in gone THEN None ELSE names[n]]
     /\ evictor' = [t \in Tasks |-> IF t \in gone \cap InQueue' THEN a ELSE evictor[t]]

(***************************************************************************)
(* Agents.                                                                 *)
(***************************************************************************)

\* setup_turn drains the reminders of the whole session, then awaits the prompt hooks.  The
\* repair of the history may await a write, too, before the prompt is in it.
setup_turn(a) ==
  /\ ph[a] = "start" \/ (a = Root /\ ph[a] = "idle" /\ life # "closed")
  /\ ph' = [ph EXCEPT ![a] = "hook"]
  /\ taken' = [taken EXCEPT ![a] = rem]
  /\ rem' = {}
  /\ UNCHANGED <<taskVars, notified, nq, told, lost, reg, names, closeVars, evictor, left>>

\* append_user: the prompt with the reminders is in the history.
BeginTurn(a) ==
  /\ ph[a] = "hook"
  /\ ph' = [ph EXCEPT ![a] = "loop"]
  /\ told' = told \cup taken[a]
  /\ taken' = [taken EXCEPT ![a] = {}]
  /\ UNCHANGED <<taskVars, notified, nq, rem, lost, reg, names, closeVars, evictor, left>>

\* A query that ends before that loses what it has drained.
Lose(a, how) ==
  /\ lost' = [t \in Tasks |-> IF t \in taken[a] THEN how ELSE lost[t]]
  /\ taken' = [taken EXCEPT ![a] = {}]

\* A hook blocks the prompt.
PromptBlocked(a) ==
  /\ ph[a] = "hook"
  /\ Disturb("block")
  /\ ph' = [ph EXCEPT ![a] = IF a = Root THEN "idle" ELSE "blocked"]
  /\ Lose(a, "blocked")
  /\ UNCHANGED <<taskVars, notified, nq, rem, told, reg, names, closeVars, evictor>>

\* session/cancel reaches the turn at one of those awaits.
TurnCancelled ==
  /\ ph[Root] = "hook"
  /\ Disturb("cancel")
  /\ ph' = [ph EXCEPT ![Root] = "idle"]
  /\ Lose(Root, "cancelled")
  /\ UNCHANGED <<taskVars, notified, nq, rem, told, reg, names, closeVars, evictor>>

EndTurn ==
  /\ InRound(Root)
  /\ ph' = [ph EXCEPT ![Root] = "idle"]
  /\ UNCHANGED <<taskVars, noteVars, reg, names, closeVars, evictor, left>>

Mutant_EvictFirst(a) ==
  /\ InRound(a)
  /\ nq' = Others(a)
  /\ evict_terminal(a)
  /\ Remind(a, reg')
  /\ UNCHANGED <<taskVars, notified, taken, told, ph, closeVars, left>>

\* The end of a tool round: the agent's own notifications, then the eviction.
drain_task_notifications(a) ==
  /\ InRound(a)
  /\ nq' = Others(a)
  /\ Remind(a, reg)
  /\ evict_terminal(a)
  /\ UNCHANGED <<taskVars, notified, taken, told, ph, closeVars, left>>

(***************************************************************************)
(* Starting tasks.                                                         *)
(***************************************************************************)
Fresh(a, k, n, w) ==
  /\ next < NumTasks /\ next' = next + 1
  /\ kind' = [kind EXCEPT ![next'] = k]
  /\ owner' = [owner EXCEPT ![next'] = a]
  /\ nm' = [nm EXCEPT ![next'] = n]
  /\ work' = [work EXCEPT ![next'] = w]
  /\ UNCHANGED status

\* Bash, Monitor and Agent in the background: a name is taken first, then the output
\* file and the process are awaited.
_spawn_background(a, k, n) ==
  /\ InRound(a)
  /\ n # None => k = "agent" /\ names[n] = None
  /\ Fresh(a, k, n, "creating")
  /\ names' = [m \in Names |-> IF m = n THEN next' ELSE names[m]]
  /\ UNCHANGED <<noteVars, reg, ph, closeVars, evictor, left>>

\* Agent in the foreground: the child's query begins at once.
SpawnForeground(a) ==
  /\ InRound(a)
  /\ Fresh(a, "foreground", None, "alive")
  /\ ph' = [ph EXCEPT ![next'] = "start"]
  /\ UNCHANGED <<noteVars, reg, names, closeVars, evictor, left>>

\* SendMessage to an agent that has ended starts another one from its transcript.
_resume_agent(a, t) ==
  /\ InRound(a)
  /\ t \in reg /\ kind[t] = "agent" /\ status[t] \in Terminal
  /\ Disturb("resume")
  /\ Fresh(a, "agent", nm[t], "resuming")
  /\ UNCHANGED <<noteVars, reg, names, ph, closeVars, evictor>>

Mutant_RegisterPending(t) ==
  /\ work[t] \in {"creating", "resuming"}
  /\ work' = [work EXCEPT ![t] = "alive"]
  /\ status' = [status EXCEPT ![t] = "pending"]
  /\ reg' = reg \cup {t}
  /\ names' = [n \in Names |-> IF work[t] = "resuming" /\ n = nm[t] THEN t ELSE names[n]]
  /\ ph' = IF kind[t] = "agent" THEN [ph EXCEPT ![t] = "start"] ELSE ph
  /\ late' = IF life = "open" THEN late ELSE late \cup {t}
  /\ UNCHANGED <<next, kind, owner, nm, noteVars, life, visit, killing, evictor, left>>

\* register, and the coroutines of the task are created; a resumed agent takes its name
\* over (update_name).
register(t) ==
  /\ work[t] \in {"creating", "resuming"}
  /\ work' = [work EXCEPT ![t] = "alive"]
  /\ status' = [status EXCEPT ![t] = "running"]
  /\ reg' = reg \cup {t}
  /\ names' = [n \in Names |-> IF work[t] = "resuming" /\ n = nm[t] THEN t ELSE names[n]]
  /\ ph' = IF kind[t] = "agent" THEN [ph EXCEPT ![t] = "start"] ELSE ph
  /\ late' = IF life = "open" THEN late ELSE late \cup {t}
  /\ UNCHANGED <<next, kind, owner, nm, noteVars, life, visit, killing, evictor, left>>

\* No output file, no shell, or the call was cancelled while it waited.
SpawnFails(t) ==
  /\ work[t] \in {"creating", "resuming"}
  /\ Disturb("spawnFails")
  /\ work' = [work EXCEPT ![t] = "aborted"]
  /\ UNCHANGED <<next, kind, owner, nm, status, noteVars, reg, names, ph, closeVars, evictor>>

(***************************************************************************)
(* The end of a task.                                                      *)
(***************************************************************************)
ProcessExits(t) ==
  /\ kind[t] \in {"shell", "monitor"} /\ work[t] = "alive"
  /\ work' = [work EXCEPT ![t] = "exited"]
  /\ UNCHANGED <<next, kind, owner, nm, status, noteVars, reg, names, ph, closeVars, evictor, left>>

\* By its exit code: a process that was killed has failed.
ExitStatus(t) == IF work[t] = "killed" THEN {"failed"} ELSE {"completed", "failed"}

Report(t, s) ==
  /\ work' = [work EXCEPT ![t] = "over"]
  /\ update_status(t, s)
  /\ nq' = enqueue_notification(t, nq) /\ Notify(t)
  /\ UNCHANGED <<next, kind, owner, nm, rem, taken, told, lost, reg, names, ph, closeVars, evictor, left>>

\* The waiter of a shell reports whatever the status is by now.  A timeout kills.
_wait_and_notify(t) ==
  /\ kind[t] = "shell" /\ work[t] \in {"exited", "killed"}
  /\ \E s \in ExitStatus(t) : Report(t, s)

Mutant_MonitorReportsAlways(t) ==
  /\ kind[t] = "monitor" /\ work[t] \in {"exited", "killed"}
  /\ \E s \in ExitStatus(t) : Report(t, s)

\* The waiter of a monitor reports only what nobody has ended before.
_monitor_timeout(t) ==
  /\ kind[t] = "monitor" /\ work[t] \in {"exited", "killed"}
  /\ IF t \in reg /\ status[t] \notin Terminal
     THEN \E s \in ExitStatus(t) : Report(t, s)
     ELSE /\ work' = [work EXCEPT ![t] = "over"]
          /\ UNCHANGED <<next, kind, owner, nm, status, noteVars, reg, names, ph, closeVars,
                         evictor, left>>

\* The query of a sub-agent ends: its parent takes its remaining notifications
\* (drain_orphan_notifications), and a background agent is completed.
_run_agent_background(t) ==
  /\ kind[t] \in {"agent", "foreground"} /\ (InRound(t) \/ ph[t] = "blocked")
  /\ ph' = [ph EXCEPT ![t] = "ended"]
  /\ work' = [work EXCEPT ![t] = "over"]
  /\ Remind(t, reg)
  /\ update_status(t, "completed")
  /\ nq' = enqueue_notification(t, Others(t)) /\ Notify(t)
  /\ UNCHANGED <<next, kind, owner, nm, taken, told, reg, names, closeVars, evictor, left>>

\* It raises, or is cancelled with the turn of its parent: nobody takes its notifications,
\* and a background agent has failed.
AgentRaises(t) ==
  /\ kind[t] \in {"agent", "foreground"} /\ ph[t] \in {"start", "hook", "loop"} /\ ~Busy(t)
  /\ Disturb("raise")
  /\ ph' = [ph EXCEPT ![t] = "ended"]
  /\ work' = [work EXCEPT ![t] = "over"]
  /\ Lose(t, "cancelled")
  /\ update_status(t, "failed")
  /\ nq' = enqueue_notification(t, nq) /\ Notify(t)
  /\ UNCHANGED <<next, kind, owner, nm, rem, told, reg, names, closeVars, evictor>>

\* What kill() does to the task's process.  An agent has none, and its cancel_event is
\* never set up: it goes on.
Killed(t) == IF kind[t] \in {"shell", "monitor"} /\ work[t] = "alive"
             THEN [work EXCEPT ![t] = "killed"] ELSE work

Mutant_StopWithoutKill(a, t) ==
  /\ InRound(a)
  /\ t \in reg /\ status[t] = "running"
  /\ Disturb("stop")
  /\ update_status(t, "killed")
  /\ nq' = enqueue_notification(t, nq) /\ Notify(t)
  /\ UNCHANGED <<next, kind, owner, nm, work, rem, taken, told, lost, reg, names, ph, closeVars, evictor>>

\* TaskStop, by any agent of the tree.
TaskStop(a, t) ==
  /\ InRound(a)
  /\ t \in reg /\ status[t] = "running"
  /\ Disturb("stop")
  /\ work' = Killed(t)
  /\ update_status(t, "killed")
  /\ nq' = enqueue_notification(t, nq) /\ Notify(t)
  /\ UNCHANGED <<next, kind, owner, nm, rem, taken, told, lost, reg, names, ph, closeVars, evictor>>

(***************************************************************************)
(* TaskRegistry.shutdown, when the session is closed, evicted or deleted.  *)
(***************************************************************************)
ShutdownBegins ==
  /\ life = "open"
  /\ Disturb("close")
  /\ life' = "closing" /\ visit' = reg
  /\ UNCHANGED <<taskVars, noteVars, reg, names, ph, killing, late, evictor>>

\* The next task of the list: a process is killed and waited for.
ShutdownVisits(t) ==
  /\ life = "closing" /\ killing = None /\ t \in visit
  /\ IF status[t] # "running"
     THEN visit' = visit \ {t} /\ UNCHANGED <<work, status, killing>>
     ELSE IF kind[t] = "agent"
     THEN /\ status' = [status EXCEPT ![t] = "killed"]
          /\ visit' = visit \ {t} /\ UNCHANGED <<work, killing>>
     ELSE /\ work' = Killed(t) /\ killing' = t
          /\ UNCHANGED <<status, visit>>
  /\ UNCHANGED <<next, kind, owner, nm, noteVars, reg, names, ph, life, late, evictor, left>>

ShutdownReaps ==
  /\ killing # None
  /\ status' = [status EXCEPT ![killing] = "killed"]
  /\ visit' = visit \ {killing} /\ killing' = None
  /\ UNCHANGED <<next, kind, owner, nm, work, noteVars, reg, names, ph, life, late, evictor, left>>

\* The registry is emptied and the session manager drops the session.
ShutdownEnds ==
  /\ life = "closing" /\ visit = {} /\ killing = None
  /\ life' = "closed" /\ reg' = {}
  /\ rem' = {} /\ lost' = [t \in Tasks |-> IF t \in rem THEN "closed" ELSE lost[t]]
  /\ UNCHANGED <<taskVars, notified, nq, taken, told, names, ph, visit, killing, late, evictor, left>>

(***************************************************************************)
(* The specification.                                                      *)
(***************************************************************************)
AgentStep(a) ==
  \/ setup_turn(a) \/ BeginTurn(a) \/ PromptBlocked(a)
  \/ drain_task_notifications(a) \/ SpawnForeground(a)
  \/ \E k \in {"shell", "monitor", "agent"}, n \in Names \cup {None} : _spawn_background(a, k, n)
  \/ \E t \in Tasks : _resume_agent(a, t) \/ TaskStop(a, t)

TaskStep(t) ==
  \/ register(t) \/ SpawnFails(t) \/ ProcessExits(t)
  \/ _wait_and_notify(t) \/ _monitor_timeout(t) \/ _run_agent_background(t) \/ AgentRaises(t)

Next ==
  \/ TurnCancelled \/ EndTurn
  \/ \E a \in Agents : AgentStep(a)
  \/ \E t \in Tasks : TaskStep(t) \/ ShutdownVisits(t)
  \/ ShutdownBegins \/ ShutdownReaps \/ ShutdownEnds

Spec == Init /\ [][Next]_vars

(***************************************************************************)
(* Properties.                                                             *)
(***************************************************************************)
TypeOK ==
  /\ next \in 0..NumTasks
  /\ kind \in [Tasks -> {"none", "shell", "monitor", "agent", "foreground"}]
  /\ owner \in [Tasks -> Agents \cup {None}] /\ nm \in [Tasks -> Names \cup {None}]
  /\ work \in [Tasks -> {"none", "creating", "resuming", "aborted", "alive", "exited",
                         "killed", "over"}]
  /\ status \in [Tasks -> Terminal \cup {"none", "running"}]
  /\ notified \subseteq Tasks /\ reg \subseteq Tasks /\ rem \subseteq Tasks
  /\ names \in [Names -> Tasks \cup {None}]
  /\ nq \in [Tasks -> Nat] /\ taken \in [Agents -> SUBSET Tasks]
  /\ ph \in [Agents -> {"none", "idle", "start", "hook", "loop", "blocked", "ended"}]
  /\ life \in {"open", "closing", "closed"}
  /\ visit \subseteq Tasks /\ killing \in Tasks \cup {None}
  /\ told \subseteq Tasks /\ late \subseteq Tasks
  /\ lost \in [Tasks -> {"no", "evicted", "blocked", "cancelled", "closed"}]
  /\ evictor \in [Tasks -> Agents \cup {None}]
  /\ left \in 0..Budget

\* The notifications that queries have drained and hold.
InHand == UNION {taken[a] : a \in Agents}

\* The end of a task is announced at most once.  However TaskStop, the waiter, the drains of
\* several agents, prompts that are blocked or cancelled half-way and shutdown() interleave,
\* a task that was notified has its one notification in exactly one place: queued, among
\* the reminders, held by one query, told, or lost in one of the ways `lost` names.
NoticeIsOnce ==
  /\ \A t \in Tasks : nq[t] <= 1
  /\ \A a, b \in Agents : a # b => taken[a] \cap taken[b] = {}
  /\ LET places == <<InQueue, rem, InHand, told, {t \in Tasks : lost[t] # "no"}>>
     IN /\ \A i, j \in DOMAIN places : i # j => places[i] \cap places[j] = {}
        /\ notified = UNION {places[i] : i \in DOMAIN places}

\* While the session is open an agent never misses the end of its own task because of
\* its own doing: a notification that finds its task evicted was overtaken by the round
\* of another agent (evict_terminal does not look at the owner).
OwnNoticeKept == \A t \in Tasks : lost[t] = "evicted" => evictor[t] \notin {None, owner[t]}

\* A task that has ended stays as it ended - but for a stopped shell or agent, whose own
\* end overwrites `killed`, and for the process shutdown() is waiting for.
TerminalSticks ==
  [][\A t \in Tasks : status[t] \in Terminal /\ status'[t] # status[t] =>
       (status[t] = "killed" /\ kind[t] # "monitor") \/ killing = t]_vars

\* What the registry has forgotten, evicted or cleared at shutdown, is not running any
\* more - but for agents that were stopped, which nothing stops, and for tasks that were
\* registered once shutdown() had made its list.
ForgottenIsStopped ==
  \A t \in Tasks : status[t] # "none" /\ t \notin reg /\ work[t] = "alive" =>
    (kind[t] = "agent" /\ status[t] = "killed") \/ t \in late

\* While the session is open a name leads to an agent of that name which is registered or
\* about to be, or whose creation failed after the name was taken; never to one that was
\* evicted, whoever evicts, resumes and reuses names meanwhile.
NamesResolve ==
  life # "closed" => \A n \in Names : names[n] # None =>
    /\ nm[names[n]] = n
    /\ names[n] \in reg \/ work[names[n]] \in {"creating", "aborted"}
=============================================================================
