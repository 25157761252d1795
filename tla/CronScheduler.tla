--------------------------- MODULE CronScheduler ---------------------------
(***************************************************************************)
(* The cron subsystem of the Mustang agent kernel (schedule/): several     *)
(* kernel processes share one SQLite table of tasks.  Each kernel runs a   *)
(* scheduler loop and, at startup, a catch-up pass next to it; both claim  *)
(* due tasks with a compare-and-swap on running_by, run them, refresh the  *)
(* claim's heartbeat while the turn runs, write the outcome and release.   *)
(* Users create, pause, resume, delete and trigger tasks meanwhile.        *)
(*                                                                         *)
(* A kernel identity is drawn afresh by every process (uuid4), so a member *)
(* of Kernels is one incarnation: it starts once and a restart is the      *)
(* start of another member.                                                *)
(*                                                                         *)
(* Time is relative: timestamps are kept as ages (hb, idle) and countdowns *)
(* (next, soon) that Tick moves, so no clock value is unbounded.  One tick *)
(* is the grain at which the constants are given.                          *)
(***************************************************************************)
EXTENDS Integers, Sequences, FiniteSets

CONSTANTS
  Kernels,            \* kernel incarnations sharing kernel.db
  Veterans,           \* kernels that are up, idle and past their catch-up at first
  Tasks,              \* task ids
  Recurring,          \* tasks with recurring = True
  Durable,            \* tasks kept in SQLite; the others live in one kernel's memory
  Home,               \* [Tasks -> Kernels]: whose memory holds a non-durable task
  Raising,            \* recurring tasks whose compute_next_fire may raise
  MaxCount,           \* [Tasks -> Nat]: RepeatConfig.max_count, 0 for None
  Period,             \* longest distance to a schedule's next fire
  BackoffSchedule,    \* BACKOFF_SCHEDULE_S
  OneshotRetries,     \* ONESHOT_MAX_TRANSIENT_RETRIES
  Strikes,            \* the 3 failed computations after which a task is paused
  FallbackDelay,      \* the 300 s used when the next fire cannot be computed
  AlertAfter,         \* FailureAlertConfig.after, 0 for no alert
  HeartbeatInterval,  \* HEARTBEAT_INTERVAL_S
  StaleThreshold,     \* HEARTBEAT_STALE_THRESHOLD_S
  MaxSleep,           \* MAX_SLEEP_S
  MaxAge,             \* max_age_seconds, 0 to disable
  MaxConcurrent,      \* max_concurrent_executions
  MaxJobs,            \* max_jobs
  UserOps,            \* which user operations occur
  Faults,             \* which faults occur
  CountCap, FailCap,  \* bounds at which fire_count and consecutive_failures saturate
  None

ASSUME CronAssumption ==
  /\ Veterans \subseteq Kernels
  /\ Recurring \subseteq Tasks /\ Durable \subseteq Tasks
  /\ Raising \subseteq Recurring
  /\ Home \in [Tasks -> Kernels] /\ MaxCount \in [Tasks -> Nat]
  /\ Period \in Nat \ {0}
  /\ BackoffSchedule \in Seq(Nat) /\ BackoffSchedule # <<>>
  /\ OneshotRetries \in Nat /\ Strikes \in Nat /\ FallbackDelay \in Nat /\ AlertAfter \in Nat
  /\ HeartbeatInterval \in Nat \ {0} /\ StaleThreshold \in Nat
  /\ MaxSleep \in Nat \ {0} /\ MaxAge \in Nat
  /\ MaxConcurrent \in Nat \ {0} /\ MaxJobs \in Nat
  /\ CountCap \in Nat /\ FailCap \in Nat
  /\ UserOps \subseteq {"create", "pause", "resume", "delete", "trigger"}
  /\ Faults \subseteq {"crash", "stop", "loopError", "storeError"}
  /\ None \notin Nat \cup Kernels \cup Tasks

\* A heartbeat is due well before its claim counts as abandoned (30 s and 120 s).
ASSUME HeartbeatAssumption == HeartbeatInterval <= StaleThreshold

VARIABLES
  row,      \* [Tasks -> Row]: the cron_tasks table, and the memory dicts
  claim,    \* [Tasks -> Claim]: its running_by and running_heartbeat columns
  mode,     \* [Kernels -> {"new", "up", "stopping", "down"}]
  loop,     \* [Kernels -> loop record]: the local state of _schedule_loop
  catchup,  \* [Kernels -> pc]: handle_startup_catchup
  job,      \* [Fibers -> [Tasks -> Job]]: what each fiber does with each task
  op,       \* [Kernels -> pending user operation]
  swept     \* history: tasks of which a cleanup has cleared a stale claim

vars == <<row, claim, mode, loop, catchup, job, op, swept>>

(***************************************************************************)
(* Types.                                                                  *)
(***************************************************************************)
Kinds == {"loop", "catchup"} \cup (UserOps \cap {"trigger"})
Fibers == Kernels \X Kinds
Statuses == {"absent", "active", "paused", "completed", "expired", "deleted"}
Phases == {"none", "due", "queued", "starting", "running", "mute", "ended",
           "failed", "complete", "alert", "release", "raised"}
Results == {"ok", "transient", "permanent"}

RowType == [status : Statuses, next : Nat \cup {None}, count : Nat,
            fails : Nat, idle : Nat \cup {None}]

\* The two columns, and leaked: history, an attempt to release this claim failed.
ClaimType == [by : Kernels \cup {None}, hb : Nat, leaked : BOOLEAN]

JobType == [ph : Phases, res : Results,
            beat : Nat, beaten : BOOLEAN, count : Nat, fails : Nat]

LoopType == [pc : {"off", "cleanup", "list", "claim", "sleep"},
             exp : SUBSET Tasks, soon : Nat \cup {None}, wake : BOOLEAN]

NoOp == [kind |-> "none", t |-> None, next |-> None]
OpType == {NoOp} \cup [kind : {"add", "pause", "resume", "trigger"}, t : Tasks,
                       next : Nat \cup {None}]

NoJob == [ph |-> "none", res |-> "ok", beat |-> 0, beaten |-> FALSE,
          count |-> 0, fails |-> 0]
NoTask == [status |-> "absent", next |-> None, count |-> 0, fails |-> 0,
           idle |-> None]
NoClaim == [by |-> None, hb |-> 0, leaked |-> FALSE]
ClaimBy(k) == [NoClaim EXCEPT !.by = k]
LoopOff == [pc |-> "off", exp |-> {}, soon |-> None, wake |-> FALSE]

(***************************************************************************)
(* Helpers.                                                                *)
(***************************************************************************)
Least(a, b) == IF a <= b THEN a ELSE b
Most(a, b) == IF a >= b THEN a ELSE b

\* backoff_delay: the N-th consecutive failure, the last level kept for ever.
backoff_delay(n) == BackoffSchedule[Most(1, Least(n, Len(BackoffSchedule)))]

\* compute_next_fire as the set of distances it can return.  A cron or interval
\* schedule is in the future; a one-shot's run_at may have passed, which makes
\* it due at once.
compute_next_fire(t) == IF t \in Recurring THEN 1..Period ELSE 0..Period

\* RepeatConfig.is_exhausted, its count limit.
is_exhausted(t, n) == MaxCount[t] # 0 /\ n >= MaxCount[t]

\* A non-durable task is found only in the memory of its own kernel.
Visible(k, t) == t \in Durable \/ Home[t] = k

\* list_active
Active(k) == {t \in Tasks : row[t].status = "active" /\ Visible(k, t)}

\* The task fields a fiber works with: a durable task is a copy made when the
\* row was listed, a non-durable one is the live object itself.
SeenCount(f, t) == IF t \in Durable THEN job[f][t].count ELSE row[t].count
SeenFails(f, t) == IF t \in Durable THEN job[f][t].fails ELSE row[t].fails

\* An UPDATE ... WHERE id = t.  A deleted memory task has left the dict and the
\* statement then matches no row.
Write(t, r) == IF t \notin Durable /\ row[t].status \in {"deleted", "absent"}
               THEN UNCHANGED row
               ELSE row' = [row EXCEPT ![t] = r]

SetJob(f, t, j) == job' = [job EXCEPT ![f][t] = j]
Step(f, t, ph) == SetJob(f, t, [job[f][t] EXCEPT !.ph = ph])
\* The job is now nothing but its phase: the rest is fresh or no longer read.
OnlyPhase(f, t, ph) == SetJob(f, t, [NoJob EXCEPT !.ph = ph])

\* notify_change on kernel k
Notify(k) == loop' = [loop EXCEPT ![k].wake = TRUE]

Alive(k) == mode[k] = "up"
JobsOf(f, phs) == {t \in Tasks : job[f][t].ph \in phs}
Working == Phases \ {"none", "due", "queued", "raised"}
Busy(f) == JobsOf(f, Phases \ {"none"}) # {}

(***************************************************************************)
(* Initial states: a table left by earlier kernels; a veteran sleeps, not  *)
(* knowing of tasks other processes have added.                            *)
(***************************************************************************)
Init ==
  /\ row \in [Tasks -> {NoTask} \cup
                {[NoTask EXCEPT !.status = "active", !.next = n] : n \in 0..Period}]
  /\ \A t \in Tasks \ Durable : row[t] = NoTask
  /\ claim = [t \in Tasks |-> NoClaim]
  /\ mode = [k \in Kernels |-> IF k \in Veterans THEN "up" ELSE "new"]
  /\ loop = [k \in Kernels |-> IF k \in Veterans
                               THEN [LoopOff EXCEPT !.pc = "sleep", !.soon = MaxSleep]
                               ELSE LoopOff]
  /\ catchup = [k \in Kernels |-> "off"]
  /\ job = [f \in Fibers |-> [t \in Tasks |-> NoJob]]
  /\ op = [k \in Kernels |-> NoOp]
  /\ swept = {}

(***************************************************************************)
(* Process life cycle.                                                     *)
(***************************************************************************)

\* ScheduleManager.startup: the loop is started, then the catch-up runs beside it.
Startup(k) ==
  /\ mode[k] = "new"
  /\ mode' = [mode EXCEPT ![k] = "up"]
  /\ loop' = [loop EXCEPT ![k].pc = "cleanup"]
  /\ catchup' = [catchup EXCEPT ![k] = "cleanup"]
  /\ UNCHANGED <<row, claim, job, op, swept>>

\* The process is gone: its fibers, pending operations and memory tasks with it.
Gone(k) ==
  /\ mode' = [mode EXCEPT ![k] = "down"]
  /\ loop' = [loop EXCEPT ![k] = LoopOff]
  /\ catchup' = [catchup EXCEPT ![k] = "off"]
  /\ job' = [f \in Fibers |-> IF f[1] = k THEN [t \in Tasks |-> NoJob] ELSE job[f]]
  /\ op' = [op EXCEPT ![k] = NoOp]
  /\ row' = [t \in Tasks |-> IF t \notin Durable /\ Home[t] = k THEN NoTask ELSE row[t]]
  /\ claim' = [t \in Tasks |-> IF t \notin Durable /\ Home[t] = k THEN NoClaim ELSE claim[t]]
  /\ UNCHANGED swept

Crash(k) ==
  /\ "crash" \in Faults
  /\ mode[k] \in {"up", "stopping"}
  /\ Gone(k)

\* CronScheduler.stop cancels the loop task.  The gathered jobs that wait for
\* the semaphore never reach _fire_task's finally; the others run _release_task.
Stop(k) ==
  /\ "stop" \in Faults
  /\ Alive(k) /\ catchup[k] = "off"
  /\ mode' = [mode EXCEPT ![k] = "stopping"]
  /\ loop' = [loop EXCEPT ![k] = LoopOff]
  /\ job' = [job EXCEPT ![<<k, "loop">>] =
               [t \in Tasks |-> IF job[<<k, "loop">>][t].ph \in Working
                                THEN [NoJob EXCEPT !.ph = "release"]
                                ELSE NoJob]]
  /\ UNCHANGED <<row, claim, catchup, op, swept>>

\* ScheduleManager.shutdown goes on to close the store once the loop has ended.
Shutdown(k) ==
  /\ mode[k] = "stopping"
  /\ ~Busy(<<k, "loop">>)
  /\ Gone(k)

(***************************************************************************)
(* The claim protocol.                                                     *)
(***************************************************************************)

\* Mutants of this section are plausible mistakes; each is used only to show that
\* a property notices it.
Mutant_NoSweep == UNCHANGED <<claim, swept>>

\* The UPDATE of _cleanup_stale_claims.
Stale(c) == c.by # None /\ c.hb > StaleThreshold
_cleanup_stale_claims ==
  /\ claim' = [t \in Tasks |-> IF t \in Durable /\ Stale(claim[t])
                               THEN NoClaim ELSE claim[t]]
  /\ swept' = swept \cup {t \in Durable : Stale(claim[t])}

Mutant_ClaimWithoutCAS(f, t, ph) ==
  IF t \in Durable => row[t].status = "active"
  THEN Step(f, t, ph) /\ claim' = [claim EXCEPT ![t] = ClaimBy(f[1])]
  ELSE SetJob(f, t, NoJob) /\ UNCHANGED claim

Mutant_ClaimWithoutHeartbeat(f, t, ph) ==
  IF t \in Durable => claim[t].by = None /\ row[t].status = "active"
  THEN Step(f, t, ph) /\ claim' = [claim EXCEPT ![t] = [ClaimBy(f[1]) EXCEPT !.hb = None]]
  ELSE SetJob(f, t, NoJob) /\ UNCHANGED claim

Mutant_ClaimAnyStatus(f, t, ph) ==
  IF t \in Durable => claim[t].by = None
  THEN Step(f, t, ph) /\ claim' = [claim EXCEPT ![t] = ClaimBy(f[1])]
  ELSE SetJob(f, t, NoJob) /\ UNCHANGED claim

\* _claim_tasks for one task of the list: the CAS, or the unconditional claim of
\* a memory task.  A claimed task goes on to phase ph.
_claim_tasks(f, t, ph) ==
  IF t \in Durable => claim[t].by = None /\ row[t].status = "active"
  THEN /\ Step(f, t, ph)
       /\ claim' = [claim EXCEPT ![t] = ClaimBy(f[1])]
  ELSE /\ SetJob(f, t, NoJob)
       /\ UNCHANGED claim

Mutant_KeepClaim(f, t) ==
  /\ job[f][t].ph = "release"
  /\ SetJob(f, t, NoJob)
  /\ UNCHANGED <<row, claim, mode, loop, catchup, op, swept>>

Mutant_ReleaseAnyClaim(f, t) ==
  /\ job[f][t].ph = "release"
  /\ SetJob(f, t, NoJob)
  /\ claim' = IF t \in Durable THEN [claim EXCEPT ![t] = NoClaim] ELSE claim
  /\ UNCHANGED <<row, mode, loop, catchup, op, swept>>

\* What is left of a job when _fire_task ends: gather swallows an exception of the
\* loop's jobs, in the catch-up it ends the whole pass.
Ended(f, raises) ==
  [NoJob EXCEPT !.ph = IF raises /\ f[2] = "catchup" THEN "raised" ELSE "none"]

\* _release_task, the last step of _fire_task; the job's result is not ok when an
\* exception of the failure handling is on its way out.
_release_task(f, t) ==
  /\ job[f][t].ph = "release"
  /\ SetJob(f, t, Ended(f, job[f][t].res # "ok"))
  /\ claim' = IF t \in Durable /\ claim[t].by = f[1]
              THEN [claim EXCEPT ![t] = NoClaim] ELSE claim
  /\ UNCHANGED <<row, mode, loop, catchup, op, swept>>

\* The UPDATE of _release_task raises in the finally clause of _fire_task: the row
\* keeps its claim and nobody works on it any more.
ReleaseFails(f, t) ==
  /\ "storeError" \in Faults
  /\ job[f][t].ph = "release"
  /\ SetJob(f, t, Ended(f, TRUE))
  /\ claim' = IF t \in Durable /\ claim[t].by = f[1]
              THEN [claim EXCEPT ![t].leaked = TRUE] ELSE claim
  /\ UNCHANGED <<row, mode, loop, catchup, op, swept>>

(***************************************************************************)
(* _schedule_loop.                                                         *)
(***************************************************************************)
LoopCleanup(k) ==
  /\ loop[k].pc = "cleanup"
  /\ _cleanup_stale_claims
  /\ loop' = [loop EXCEPT ![k].pc = "list"]
  /\ UNCHANGED <<row, mode, catchup, job, op>>

\* What a fiber keeps of the rows it found due.
Listed(due) == [t \in Tasks |->
  IF t \in due THEN [NoJob EXCEPT !.ph = "due", !.count = row[t].count,
                                  !.fails = row[t].fails]
  ELSE NoJob]

\* The earliest of the fire times in the future, if there is one.
Soonest(later) == IF later = {} THEN {None}
                  ELSE {n \in later : \A m \in later : n <= m}

\* list_active and the two passes over its result, with no await between them.
LoopList(k) ==
  /\ loop[k].pc = "list"
  /\ LET open == {t \in Active(k) : row[t].next # None /\ claim[t].by = None}
         expired == {t \in Active(k) \cap Recurring :
                       MaxAge > 0 /\ row[t].idle # None /\ row[t].idle > MaxAge}
     IN /\ job' = [job EXCEPT ![<<k, "loop">>] =
                     Listed({t \in open : row[t].next = 0})]
        /\ \E soon \in Soonest({row[t].next : t \in {u \in open : row[u].next > 0}}) :
             loop' = [loop EXCEPT ![k] =
                        [@ EXCEPT !.pc = "claim", !.exp = expired, !.soon = soon]]
  /\ UNCHANGED <<row, claim, mode, catchup, op, swept>>

LoopExpire(k, t) ==
  /\ loop[k].pc = "claim" /\ t \in loop[k].exp
  /\ Write(t, [row[t] EXCEPT !.status = "expired", !.next = None])
  /\ loop' = [loop EXCEPT ![k].exp = @ \ {t}]
  /\ UNCHANGED <<claim, mode, catchup, job, op, swept>>

LoopClaim(k, t) ==
  /\ loop[k].pc = "claim" /\ loop[k].exp = {}
  /\ job[<<k, "loop">>][t].ph = "due"
  /\ _claim_tasks(<<k, "loop">>, t, "queued")
  /\ UNCHANGED <<row, mode, loop, catchup, op, swept>>

\* The gathered _run coroutines: a claimed task waits for the semaphore.
LoopFire(k, t) ==
  /\ loop[k].pc = "claim" /\ loop[k].exp = {}
  /\ job[<<k, "loop">>][t].ph = "queued"
  /\ JobsOf(<<k, "loop">>, {"due"}) = {}
  /\ Cardinality(JobsOf(<<k, "loop">>, Working)) < MaxConcurrent
  /\ Step(<<k, "loop">>, t, "starting")
  /\ UNCHANGED <<row, claim, mode, loop, catchup, op, swept>>

Mutant_SleepForever(soon) == IF soon = None THEN None ELSE Least(soon, MaxSleep)

\* How long to sleep: until the soonest fire that was listed, at most MaxSleep.
SleepTime(soon) == IF soon = None THEN MaxSleep ELSE Least(soon, MaxSleep)

\* The batch has ended: clear the wake event, then sleep.
LoopSleep(k) ==
  /\ loop[k].pc = "claim" /\ loop[k].exp = {}
  /\ ~Busy(<<k, "loop">>)
  /\ loop' = [loop EXCEPT ![k] =
                [@ EXCEPT !.pc = "sleep", !.wake = FALSE,
                          !.soon = SleepTime(loop[k].soon)]]
  /\ UNCHANGED <<row, claim, mode, catchup, job, op, swept>>

LoopWake(k) ==
  /\ loop[k].pc = "sleep" /\ (loop[k].wake \/ loop[k].soon = 0)
  /\ loop' = [loop EXCEPT ![k] = [@ EXCEPT !.pc = "cleanup", !.soon = None]]
  /\ UNCHANGED <<row, claim, mode, catchup, job, op, swept>>

\* An exception of a statement of the loop itself ends the loop for good; what
\* it had claimed and not yet started stays claimed.
LoopError(k) ==
  /\ "loopError" \in Faults
  /\ \/ loop[k].pc \in {"cleanup", "list"}
     \/ loop[k].pc = "claim" /\ (loop[k].exp # {} \/ JobsOf(<<k, "loop">>, {"due"}) # {})
  /\ loop' = [loop EXCEPT ![k] = LoopOff]
  /\ job' = [job EXCEPT ![<<k, "loop">>] = [t \in Tasks |-> NoJob]]
  /\ UNCHANGED <<row, claim, mode, catchup, op, swept>>

(***************************************************************************)
(* handle_startup_catchup.                                                 *)
(***************************************************************************)
CatchupCleanup(k) ==
  /\ catchup[k] = "cleanup"
  /\ _cleanup_stale_claims
  /\ catchup' = [catchup EXCEPT ![k] = "list"]
  /\ UNCHANGED <<row, mode, loop, job, op>>

CatchupList(k) ==
  /\ catchup[k] = "list"
  /\ job' = [job EXCEPT ![<<k, "catchup">>] =
               Listed({t \in Active(k) : row[t].next = 0 /\ claim[t].by = None})]
  /\ catchup' = [catchup EXCEPT ![k] = "scan"]
  /\ UNCHANGED <<row, claim, mode, loop, op, swept>>

\* The missed tasks are handled one after the other.
CatchupTurn(k, t) ==
  /\ catchup[k] = "scan"
  /\ job[<<k, "catchup">>][t].ph = "due"
  /\ JobsOf(<<k, "catchup">>, Working \cup {"raised"}) = {}

Repeats(f, t) == t \in Recurring /\ ~is_exhausted(t, SeenCount(f, t))

\* A missed recurring task skips to its next fire; an exception leaves it due.
CatchupSkip(k, t) ==
  /\ CatchupTurn(k, t) /\ Repeats(<<k, "catchup">>, t)
  /\ SetJob(<<k, "catchup">>, t, NoJob)
  /\ \/ (t \in Raising \/ "loopError" \in Faults) /\ UNCHANGED row
     \/ \E n \in compute_next_fire(t) :
          Write(t, [row[t] EXCEPT !.status = "active", !.next = n])
  /\ UNCHANGED <<claim, mode, loop, catchup, op, swept>>

\* Every other missed task is claimed and fired at once, outside the semaphore.
CatchupClaim(k, t) ==
  /\ CatchupTurn(k, t) /\ ~Repeats(<<k, "catchup">>, t)
  /\ _claim_tasks(<<k, "catchup">>, t, "starting")
  /\ UNCHANGED <<row, mode, loop, catchup, op, swept>>

CatchupDone(k) ==
  /\ catchup[k] = "scan" /\ ~Busy(<<k, "catchup">>)
  /\ catchup' = [catchup EXCEPT ![k] = "off"]
  /\ UNCHANGED <<row, claim, mode, loop, job, op, swept>>

\* A statement of the pass raises, or an execution did: the rest is not caught up.
CatchupError(k) ==
  /\ \A t \in Tasks : job[<<k, "catchup">>][t].ph \in {"none", "due", "raised"}
  /\ \/ "loopError" \in Faults /\ catchup[k] \in {"cleanup", "list"}
     \/ "loopError" \in Faults
        /\ \E t \in Tasks : CatchupTurn(k, t) /\ ~Repeats(<<k, "catchup">>, t)
     \/ catchup[k] = "scan" /\ JobsOf(<<k, "catchup">>, {"raised"}) # {}
  /\ catchup' = [catchup EXCEPT ![k] = "off"]
  /\ job' = [job EXCEPT ![<<k, "catchup">>] = [t \in Tasks |-> NoJob]]
  /\ UNCHANGED <<row, claim, mode, loop, op, swept>>

(***************************************************************************)
(* CronExecutor.execute and the rest of _fire_task.                        *)
(***************************************************************************)

\* The session exists: the heartbeat loop starts, then the turn.
BeginTurn(f, t) ==
  /\ job[f][t].ph = "starting"
  /\ Step(f, t, "running")
  /\ UNCHANGED <<row, claim, mode, loop, catchup, op, swept>>

\* create_for_gateway raises: the execution fails before any heartbeat.
SessionFails(f, t) ==
  /\ job[f][t].ph = "starting"
  /\ \E r \in Results \ {"ok"} :
       SetJob(f, t, [job[f][t] EXCEPT !.ph = "ended", !.res = r])
  /\ UNCHANGED <<row, claim, mode, loop, catchup, op, swept>>

Mutant_BeatWithoutUpdate(f, t) ==
  /\ job[f][t].ph = "running" /\ job[f][t].beat = HeartbeatInterval
  /\ SetJob(f, t, [job[f][t] EXCEPT !.beat = 0, !.beaten = TRUE])
  /\ UNCHANGED <<row, claim, mode, loop, catchup, op, swept>>

\* One round of _heartbeat_loop: an UPDATE guarded by running_by = this kernel.
Heartbeat(f, t) ==
  /\ job[f][t].ph = "running" /\ job[f][t].beat = HeartbeatInterval
  /\ SetJob(f, t, [job[f][t] EXCEPT !.beat = 0, !.beaten = TRUE])
  /\ claim' = IF t \in Durable /\ claim[t].by = f[1]
              THEN [claim EXCEPT ![t].hb = 0] ELSE claim
  /\ UNCHANGED <<row, mode, loop, catchup, op, swept>>

\* The UPDATE raises and ends the heartbeat loop; the turn goes on without.
HeartbeatFails(f, t) ==
  /\ "storeError" \in Faults
  /\ job[f][t].ph = "running" /\ job[f][t].beat = HeartbeatInterval
  /\ SetJob(f, t, [job[f][t] EXCEPT !.ph = "mute", !.beat = 0, !.beaten = FALSE])
  /\ UNCHANGED <<row, claim, mode, loop, catchup, op, swept>>

\* The turn completes, raises or runs into timeout_seconds; the heartbeat is
\* cancelled before hooks and delivery run.  The exception of a heartbeat that
\* failed comes up when it is awaited, whatever the turn was.
EndTurn(f, t) ==
  /\ \/ /\ job[f][t].ph = "running"
        /\ \E r \in Results :
             SetJob(f, t, [job[f][t] EXCEPT !.ph = "ended", !.res = r,
                                            !.beat = 0, !.beaten = FALSE])
     \/ /\ job[f][t].ph = "mute"
        /\ SetJob(f, t, [job[f][t] EXCEPT !.ph = "failed", !.res = "permanent"])
  /\ UNCHANGED <<row, claim, mode, loop, catchup, op, swept>>

\* trigger_now runs a task without a claim and changes nothing but the log.
TriggerEnds(f, t) ==
  /\ f[2] = "trigger" /\ job[f][t].ph \in {"ended", "failed"}
  /\ SetJob(f, t, NoJob)
  /\ op' = [op EXCEPT ![f[1]] = NoOp]
  /\ UNCHANGED <<row, claim, mode, loop, catchup, swept>>

\* update_fired after a successful execution.
Fired(r, next) == [r EXCEPT !.idle = 0, !.next = next, !.fails = 0,
                            !.count = Least(@ + 1, CountCap)]

RecordFired(f, t) ==
  /\ f[2] # "trigger" /\ job[f][t].ph = "ended" /\ job[f][t].res = "ok"
  /\ \E next \in (IF t \in Recurring THEN compute_next_fire(t) ELSE {None}) :
       Write(t, Fired(row[t], next))
  /\ LET seen == IF t \in Durable THEN job[f][t].count ELSE row'[t].count
     IN IF t \in Recurring => is_exhausted(t, seen + 1)
        THEN Step(f, t, "complete")
        ELSE OnlyPhase(f, t, "release")
  /\ UNCHANGED <<claim, mode, loop, catchup, op, swept>>

Mutant_CompleteKeepsStatus(f, t) ==
  /\ job[f][t].ph = "complete"
  /\ Write(t, [row[t] EXCEPT !.next = None])
  /\ OnlyPhase(f, t, "release")
  /\ UNCHANGED <<claim, mode, loop, catchup, op, swept>>

\* A one-shot, or a recurring task at its repeat limit, is marked completed.
RecordCompleted(f, t) ==
  /\ job[f][t].ph = "complete"
  /\ Write(t, [row[t] EXCEPT !.status = "completed", !.next = None])
  /\ OnlyPhase(f, t, "release")
  /\ UNCHANGED <<claim, mode, loop, catchup, op, swept>>

\* An exception while the success is recorded goes to the except clause, which
\* handles it as a failed execution.
RecordFails(f, t) ==
  /\ f[2] # "trigger" /\ job[f][t].res = "ok"
  /\ \/ job[f][t].ph = "ended" /\ t \in Raising
     \/ job[f][t].ph \in {"ended", "complete"} /\ "storeError" \in Faults
  /\ SetJob(f, t, [job[f][t] EXCEPT !.ph = "failed", !.res = "permanent"])
  /\ UNCHANGED <<row, claim, mode, loop, catchup, op, swept>>

\* The rows _handle_failure can write for the n-th failure; raised: the next fire
\* could not be computed.
FailedRow(t, n, res, raised) ==
  LET giveUp == IF t \in Recurring THEN raised /\ n >= Strikes
                ELSE res # "transient" \/ n > OneshotRetries
      natural == IF raised THEN {FallbackDelay} ELSE compute_next_fire(t)
      retry == IF t \in Recurring
               THEN {Most(m, backoff_delay(n)) : m \in natural}
               ELSE {backoff_delay(n)}
  IN IF giveUp
     THEN {[row[t] EXCEPT !.status = "paused", !.next = None, !.fails = n]}
     ELSE {[row[t] EXCEPT !.status = "active", !.next = m, !.fails = n] : m \in retry}

\* _handle_failure is called in the try clause or in the except clause.
Failing(f, t) ==
  /\ f[2] # "trigger" /\ job[f][t].res # "ok"
  /\ job[f][t].ph \in {"ended", "failed"}

\* Its first write raises: in the try clause that leads to the except clause and a
\* second attempt, in the except clause out of _fire_task, by way of the release.
HandleFails(f, t) ==
  /\ "storeError" \in Faults
  /\ Failing(f, t)
  /\ \/ /\ job[f][t].ph = "ended"
        /\ SetJob(f, t, [job[f][t] EXCEPT !.ph = "failed", !.res = "permanent"])
     \/ /\ job[f][t].ph = "failed"
        /\ SetJob(f, t, [NoJob EXCEPT !.ph = "release", !.res = "permanent"])
  /\ UNCHANGED <<row, claim, mode, loop, catchup, op, swept>>

\* _handle_failure up to its first write; the last strike returns early.
HandleFailure(f, t) ==
  /\ Failing(f, t)
  /\ \E raised \in {b \in BOOLEAN : b => t \in Raising} :
       LET n == Least(SeenFails(f, t) + 1, FailCap)
           alert == AlertAfter > 0 /\ n >= AlertAfter /\ ~(raised /\ n >= Strikes)
       IN /\ \E r \in FailedRow(t, n, job[f][t].res, raised) : Write(t, r)
          /\ OnlyPhase(f, t, IF alert THEN "alert" ELSE "release")
  /\ UNCHANGED <<claim, mode, loop, catchup, op, swept>>

\* The failure alert rewrites the status the fiber listed (always active); it is
\* skipped inside the cooldown or without a delivery router.
FailureAlert(f, t) ==
  /\ job[f][t].ph = "alert"
  /\ OnlyPhase(f, t, "release")
  /\ \/ UNCHANGED row
     \/ Write(t, [row[t] EXCEPT !.status = IF t \in Durable THEN "active" ELSE @])
  /\ UNCHANGED <<claim, mode, loop, catchup, op, swept>>

(***************************************************************************)
(* ScheduleManager's public operations.  pause, resume and create read the *)
(* store, await, and then write.  One operation per kernel is under way at *)
(* a time, a bound of the model.                                           *)
(***************************************************************************)
CanAsk(k, what) == what \in UserOps /\ Alive(k) /\ op[k] = NoOp

CreateCheck(k, t) ==
  /\ CanAsk(k, "create") /\ row[t].status = "absent"
  /\ t \in Durable \/ Home[t] = k
  /\ \A j \in Kernels : op[j].t # t
  /\ Cardinality(Active(k)) < MaxJobs
  /\ op' = [op EXCEPT ![k] = [kind |-> "add", t |-> t, next |-> None]]
  /\ UNCHANGED <<row, claim, mode, loop, catchup, job, swept>>

CreateAdd(k) ==
  /\ op[k].kind = "add"
  /\ \E n \in compute_next_fire(op[k].t) :
       row' = [row EXCEPT ![op[k].t] =
                 [NoTask EXCEPT !.status = "active", !.next = n]]
  /\ op' = [op EXCEPT ![k] = NoOp]
  /\ Notify(k)
  /\ UNCHANGED <<claim, mode, catchup, job, swept>>

PauseCheck(k, t) ==
  /\ CanAsk(k, "pause") /\ Visible(k, t) /\ row[t].status = "active"
  /\ op' = [op EXCEPT ![k] = [kind |-> "pause", t |-> t, next |-> None]]
  /\ UNCHANGED <<row, claim, mode, loop, catchup, job, swept>>

PauseWrite(k) ==
  /\ op[k].kind = "pause"
  /\ LET t == op[k].t IN Write(t, [row[t] EXCEPT !.status = "paused", !.next = None])
  /\ op' = [op EXCEPT ![k] = NoOp]
  /\ Notify(k)
  /\ UNCHANGED <<claim, mode, catchup, job, swept>>

ResumeCheck(k, t) ==
  /\ CanAsk(k, "resume") /\ Visible(k, t) /\ row[t].status = "paused"
  /\ \E n \in compute_next_fire(t) :
       op' = [op EXCEPT ![k] = [kind |-> "resume", t |-> t, next |-> n]]
  /\ UNCHANGED <<row, claim, mode, loop, catchup, job, swept>>

ResumeWrite(k) ==
  /\ op[k].kind = "resume"
  /\ LET t == op[k].t
     IN Write(t, [row[t] EXCEPT !.status = "active", !.next = op[k].next, !.fails = 0])
  /\ op' = [op EXCEPT ![k] = NoOp]
  /\ Notify(k)
  /\ UNCHANGED <<claim, mode, catchup, job, swept>>

\* store.remove: one UPDATE with no condition on the status.
DeleteTask(k, t) ==
  /\ CanAsk(k, "delete") /\ Visible(k, t) /\ row[t].status # "absent"
  /\ row' = [row EXCEPT ![t].status = "deleted"]
  /\ Notify(k)
  /\ UNCHANGED <<claim, mode, catchup, job, op, swept>>

TriggerNow(k, t) ==
  /\ CanAsk(k, "trigger") /\ Visible(k, t) /\ row[t].status # "absent"
  /\ OnlyPhase(<<k, "trigger">>, t, "starting")
  /\ op' = [op EXCEPT ![k] = [kind |-> "trigger", t |-> t, next |-> None]]
  /\ UNCHANGED <<row, claim, mode, loop, catchup, swept>>

(***************************************************************************)
(* Time.  asyncio serves a timer within the tick in which it is due: time  *)
(* does not pass a heartbeat or a wake-up that is waiting to be taken.     *)
(***************************************************************************)
Down(n) == IF n = None \/ n = 0 THEN n ELSE n - 1
Up(n, cap) == IF n = None THEN n ELSE Least(n + 1, cap)

Tick ==
  /\ \A f \in Fibers, t \in Tasks :
       job[f][t].ph = "running" => job[f][t].beat < HeartbeatInterval
  /\ \A k \in Kernels : loop[k].pc = "sleep" => loop[k].soon # 0
  /\ row' = [t \in Tasks |-> [row[t] EXCEPT
               !.next = Down(@), !.idle = Up(@, IF MaxAge = 0 THEN 0 ELSE MaxAge + 1)]]
  /\ claim' = [t \in Tasks |-> IF claim[t].by = None THEN claim[t]
                               ELSE [claim[t] EXCEPT !.hb = Up(@, StaleThreshold + 1)]]
  /\ loop' = [k \in Kernels |-> [loop[k] EXCEPT !.soon = Down(@)]]
  /\ job' = [f \in Fibers |-> [t \in Tasks |->
               IF job[f][t].ph = "running"
               THEN [job[f][t] EXCEPT !.beat = @ + 1] ELSE job[f][t]]]
  /\ UNCHANGED <<mode, catchup, op, swept>>

(***************************************************************************)
(* The specification.                                                      *)
(***************************************************************************)
JobStep(f, t) ==
  \/ BeginTurn(f, t) \/ SessionFails(f, t) \/ EndTurn(f, t)
  \/ TriggerEnds(f, t) \/ RecordFired(f, t) \/ RecordCompleted(f, t)
  \/ RecordFails(f, t) \/ HandleFailure(f, t) \/ HandleFails(f, t)
  \/ FailureAlert(f, t) \/ _release_task(f, t) \/ ReleaseFails(f, t)

LoopStep(k) ==
  \/ LoopCleanup(k) \/ LoopList(k) \/ LoopSleep(k) \/ LoopWake(k)
  \/ \E t \in Tasks : LoopExpire(k, t) \/ LoopClaim(k, t) \/ LoopFire(k, t)

CatchupStep(k) ==
  \/ CatchupCleanup(k) \/ CatchupList(k) \/ CatchupDone(k) \/ CatchupError(k)
  \/ \E t \in Tasks : CatchupSkip(k, t) \/ CatchupClaim(k, t)

UserStep(k) ==
  \/ CreateAdd(k) \/ PauseWrite(k) \/ ResumeWrite(k)
  \/ \E t \in Tasks : \/ CreateCheck(k, t) \/ PauseCheck(k, t) \/ ResumeCheck(k, t)
                      \/ DeleteTask(k, t) \/ TriggerNow(k, t)

KernelStep(k) ==
  \/ Startup(k) \/ Crash(k) \/ Stop(k) \/ Shutdown(k) \/ LoopError(k)
  \/ LoopStep(k) \/ CatchupStep(k) \/ UserStep(k)

Next ==
  \/ Tick
  \/ \E k \in Kernels : KernelStep(k)
  \/ \E f \in Fibers, t \in Tasks : JobStep(f, t) \/ Heartbeat(f, t)
                                       \/ HeartbeatFails(f, t)

Spec == Init /\ [][Next]_vars

\* Every runnable coroutine is scheduled and time passes; a turn ends because
\* execute bounds it with timeout_seconds.  Nothing obliges users or faults.
Fairness ==
  /\ WF_vars(Tick)
  /\ \A k \in Kernels : WF_vars(LoopStep(k)) /\ WF_vars(CatchupStep(k))
                        /\ WF_vars(Shutdown(k))
  /\ \A f \in Fibers, t \in Tasks :
       /\ WF_vars(Heartbeat(f, t))
       /\ WF_vars(JobStep(f, t))

FairSpec == Spec /\ Fairness

(***************************************************************************)
(* Properties.                                                             *)
(***************************************************************************)
TypeOK ==
  /\ row \in [Tasks -> RowType]
  /\ claim \in [Tasks -> ClaimType]
  /\ mode \in [Kernels -> {"new", "up", "stopping", "down"}]
  /\ loop \in [Kernels -> LoopType]
  /\ catchup \in [Kernels -> {"off", "cleanup", "list", "scan"}]
  /\ job \in [Fibers -> [Tasks -> JobType]]
  /\ op \in [Kernels -> OpType]
  /\ swept \subseteq Durable

\* A fiber that has claimed t and not yet released it.
Claimed(f, t) == f[2] # "trigger" /\ job[f][t].ph \in Working \cup {"queued"}

\* As long as the heartbeat of a running turn is being refreshed, its claim is
\* never taken for abandoned, however long the turn runs (_heartbeat_loop
\* against _cleanup_stale_claims).
BeatingClaimIsNotStale ==
  \A f \in Fibers, t \in Durable :
    job[f][t].ph = "running" /\ job[f][t].beaten /\ claim[t].by = f[1]
      => ~Stale(claim[t])

\* The claim protocol excludes: until a cleanup has cleared a claim of t as
\* stale, no two fibers, of the same kernel or of different ones, hold t between
\* _claim_tasks and _release_task.
ExclusiveExecution ==
  \A t \in Durable \ swept : \A f, g \in Fibers :
    Claimed(f, t) /\ Claimed(g, t) => f = g

\* A one-shot whose claim was never cleared as stale is recorded as fired at most
\* once, whatever crashes, loop errors and listings made too early happen; only
\* the resume of a paused task, a failing store, or a shutdown between the two
\* writes of a success can run it again.
OneShotFiredOnce ==
  \A t \in Durable \ (Recurring \cup swept) :
    "resume" \notin UserOps /\ Faults \cap {"stop", "storeError"} = {}
      => row[t].count <= 1

\* A claim leaks in one way only while the loop of its holder is running, by a
\* release that raised (_fire_task's finally clause): every other claim has a fiber
\* of that kernel between _claim_tasks and _release_task.
ClaimHasWorker ==
  \A t \in Durable, k \in Kernels :
    claim[t].by = k /\ ~claim[t].leaked /\ mode[k] = "up" /\ loop[k].pc # "off"
      => \E f \in Fibers : f[1] = k /\ Claimed(f, t)

\* t is completed, expired or deleted and nobody is left who could still write its
\* row: no claimed job, no catch-up that listed it, no user operation between its
\* read and its write.
Finished(t) ==
  /\ row[t].status \in {"completed", "expired", "deleted"}
  /\ \A f \in Fibers : ~Claimed(f, t)
  /\ \A k \in Kernels : job[<<k, "catchup">>][t].ph # "due"
  /\ \A k \in Kernels : op[k].t = t => op[k].kind = "trigger"

\* A finished task stays finished: the unconditional writes of update_status can
\* revive it only from work that was already under way, and a loop that listed it
\* while it was active cannot claim it any more.
FinishedIsFinal == [][\A t \in Durable : Finished(t) => Finished(t)']_vars

\* A repeat limit of N lets a task be recorded as fired at most N times.
FiresAtMostN ==
  \A t \in Recurring : MaxCount[t] # 0 => row[t].count <= MaxCount[t]

\* The loop of a kernel that knows t keeps running for ever.
Survivor(t) == \E k \in Kernels : Visible(k, t) /\ <>[](mode[k] = "up" /\ loop[k].pc # "off")

\* With a surviving kernel every claim comes to an end, those included whose kernel
\* crashed, stopped with queued work, lost its loop or failed to release them.
ClaimsEnd ==
  \A t \in Durable :
    Survivor(t) => \A k \in Kernels : claim[t].by = k ~> claim[t].by # k

\* t is waiting to be fired.
Due(t) == row[t].status = "active" /\ row[t].next = 0

\* The handling of a failed execution stops failing itself.
StoreRecovers == <>[][~\E f \in Fibers, t \in Tasks : HandleFails(f, t)]_vars

\* With a surviving kernel a due task in the table is eventually served: fired,
\* postponed or taken out of service, never left due for ever, also when it is
\* created while the loop is busy and the notification is cleared unseen.  A task kept
\* in memory is not meant: the release of its claim reaches the table only, so that it
\* is never due again for its kernel once it has been claimed.
DueIsServed == StoreRecovers => \A t \in Durable : Survivor(t) => (Due(t) ~> ~Due(t))

(***************************************************************************)
(* The claim protocol implements the abstract lease: running_by is the     *)
(* holder, the fibers between _claim_tasks and _release_task the workers,  *)
(* and _cleanup_stale_claims the lapse.                                    *)
(***************************************************************************)
Lease == INSTANCE TaskLease WITH
  Tasks <- Durable,
  Workers <- Fibers,
  OwnerOf <- [f \in Fibers |-> f[1]],
  holder <- [t \in Durable |-> claim[t].by],
  workers <- [t \in Durable |-> {f \in Fibers : Claimed(f, t)}],
  lapsed <- swept

\* Every step of every kernel, crashes, stops and loop errors included, is a step
\* of the lease or leaves it alone: no claim is taken from another holder, none is
\* cleared by anyone but its holder or the stale sweep, and no fiber works on a
\* task it did not get by the compare-and-swap.
ImplementsLease == Lease!Spec
=============================================================================
