----------------------- MODULE CronScheduler_proofs -----------------------
(* Proofs about CronScheduler, for every value of its constants. *)
EXTENDS CronScheduler, TLAPS

(***************************************************************************)
(* What the helpers preserve.                                              *)
(***************************************************************************)

\* The empty records have their types.
LEMMA EmptyRecords ==
  /\ NoJob \in JobType /\ NoTask \in RowType /\ NoClaim \in ClaimType
  /\ LoopOff \in LoopType /\ NoOp \in OpType
  BY DEF NoJob, JobType, Phases, Results, NoTask, RowType, Statuses, NoClaim, ClaimType,
         LoopOff, LoopType, NoOp, OpType

\* A job keeps its type under the updates the actions make.
LEMMA JobPhase ==
  ASSUME NEW j \in JobType, NEW p \in Phases
  PROVE  /\ [j EXCEPT !.ph = p] \in JobType
         /\ [j EXCEPT !.ph = p].ph = p
  <1>1. [j EXCEPT !.ph = p] \in JobType
    BY DEF JobType
  <1>2. [j EXCEPT !.ph = p].ph = p
    BY DEF JobType
  <1> QED BY <1>1, <1>2

\* A job whose execution or its recording fails has a phase and a result.
LEMMA JobFails ==
  ASSUME NEW j \in JobType, NEW p \in Phases, NEW r \in Results
  PROVE  /\ [j EXCEPT !.ph = p, !.res = r] \in JobType
         /\ [j EXCEPT !.ph = p, !.res = r].ph = p
  <1>1. [j EXCEPT !.ph = p, !.res = r] \in JobType
    BY DEF JobType
  <1>2. [j EXCEPT !.ph = p, !.res = r].ph = p
    BY DEF JobType
  <1> QED BY <1>1, <1>2

\* What is left of a job is a job that holds nothing.
LEMMA JobOver ==
  ASSUME NEW f \in Fibers, NEW b \in BOOLEAN
  PROVE  /\ Ended(f, b) \in JobType
         /\ \/ Ended(f, b).ph = "none"
            \/ Ended(f, b).ph = "raised" /\ f[2] = "catchup"
  <1>1. NoJob \in JobType /\ "none" \in Phases /\ "raised" \in Phases
    BY EmptyRecords DEF Phases
  <1>2. CASE b /\ f[2] = "catchup"
    <2>1. Ended(f, b) = [NoJob EXCEPT !.ph = "raised"]
      BY <1>2 DEF Ended
    <2> QED BY <1>1, <1>2, <2>1, JobPhase, ZenonT(30)
  <1>3. CASE ~(b /\ f[2] = "catchup")
    <2>1. Ended(f, b) = [NoJob EXCEPT !.ph = "none"]
      BY <1>3 DEF Ended
    <2> QED BY <1>1, <2>1, JobPhase
  <1> QED BY <1>2, <1>3

\* A job whose turn ends (EndTurn) is a job in phase ended.
LEMMA JobEnds ==
  ASSUME NEW j \in JobType, NEW r \in Results
  PROVE  LET e == [j EXCEPT !.ph = "ended", !.res = r, !.beat = 0, !.beaten = FALSE]
         IN e \in JobType /\ e.ph = "ended"
  <1> DEFINE e == [j EXCEPT !.ph = "ended", !.res = r, !.beat = 0, !.beaten = FALSE]
  <1>1. e \in JobType
    BY DEF JobType, Phases
  <1>2. e.ph = "ended"
    BY DEF JobType
  <1> QED BY <1>1, <1>2

\* A heartbeat and the passing of time change nothing but the beat of a job.
LEMMA JobBeat ==
  ASSUME NEW j \in JobType
  PROVE  /\ [j EXCEPT !.beat = 0, !.beaten = TRUE] \in JobType
         /\ [j EXCEPT !.beat = 0, !.beaten = TRUE].ph = j.ph
         /\ [j EXCEPT !.beat = @ + 1] \in JobType
         /\ [j EXCEPT !.beat = @ + 1].ph = j.ph
  <1>1. [j EXCEPT !.beat = 0, !.beaten = TRUE] \in JobType
    BY DEF JobType
  <1>2. [j EXCEPT !.beat = 0, !.beaten = TRUE].ph = j.ph
    BY DEF JobType
  <1>3. [j EXCEPT !.beat = @ + 1] \in JobType
    BY DEF JobType
  <1>4. [j EXCEPT !.beat = @ + 1].ph = j.ph
    BY DEF JobType
  <1> QED BY <1>1, <1>2, <1>3, <1>4

\* A job whose heartbeat loop dies (HeartbeatFails) goes on without.
LEMMA JobMutes ==
  ASSUME NEW j \in JobType
  PROVE  LET e == [j EXCEPT !.ph = "mute", !.beat = 0, !.beaten = FALSE]
         IN e \in JobType /\ e.ph = "mute"
  <1> DEFINE e == [j EXCEPT !.ph = "mute", !.beat = 0, !.beaten = FALSE]
  <1>1. e \in JobType
    BY DEF JobType, Phases
  <1>2. e.ph = "mute"
    BY DEF JobType
  <1> QED BY <1>1, <1>2

\* A heartbeat, a failing release and the passing of time keep the holder.
LEMMA ClaimKeeps ==
  ASSUME NEW c \in ClaimType, NEW n \in Nat
  PROVE  /\ [c EXCEPT !.hb = n] \in ClaimType /\ [c EXCEPT !.hb = n].by = c.by
         /\ [c EXCEPT !.leaked = TRUE] \in ClaimType
         /\ [c EXCEPT !.leaked = TRUE].by = c.by
         /\ [c EXCEPT !.leaked = TRUE].hb = c.hb
         /\ [c EXCEPT !.hb = n].leaked = c.leaked
  BY DEF ClaimType

\* SetJob changes one entry of job and no other.
LEMMA SetJobEffect ==
  ASSUME job \in [Fibers -> [Tasks -> JobType]],
         NEW f \in Fibers, NEW t \in Tasks, NEW j \in JobType, SetJob(f, t, j)
  PROVE  /\ job' \in [Fibers -> [Tasks -> JobType]]
         /\ job'[f][t] = j
         /\ \A g \in Fibers, u \in Tasks : g # f \/ u # t => job'[g][u] = job[g][u]
  BY DEF SetJob

\* What the proofs need to know of a step of one job: it ends in phase p.
Moves(f, t, p) == \E j \in JobType : j.ph = p /\ SetJob(f, t, j)

\* A job ends as no job, or in the catch-up as one that raised.
JobLeaves(f, t) ==
  \/ Moves(f, t, "none")
  \/ Moves(f, t, "raised") /\ f[2] = "catchup"

\* A step of one job leaves every other job alone.
LEMMA MovesEffect ==
  ASSUME job \in [Fibers -> [Tasks -> JobType]],
         NEW f \in Fibers, NEW t \in Tasks, NEW p, Moves(f, t, p)
  PROVE  /\ job' \in [Fibers -> [Tasks -> JobType]]
         /\ job'[f][t].ph = p
         /\ \A g \in Fibers, u \in Tasks : g # f \/ u # t => job'[g][u] = job[g][u]
  BY SetJobEffect DEF Moves

\* Both ways of naming the next phase are steps of one job.
LEMMA StepMoves ==
  ASSUME job \in [Fibers -> [Tasks -> JobType]],
         NEW f \in Fibers, NEW t \in Tasks, NEW p \in Phases,
         \/ Step(f, t, p)
         \/ OnlyPhase(f, t, p)
  PROVE  Moves(f, t, p)
  <1>1. job[f][t] \in JobType /\ NoJob \in JobType
    BY EmptyRecords
  <1>2. CASE Step(f, t, p)
    BY <1>1, <1>2, JobPhase, Zenon DEF Step, Moves
  <1>3. CASE OnlyPhase(f, t, p)
    BY <1>1, <1>3, JobPhase, Zenon DEF OnlyPhase, Moves
  <1> QED BY <1>2, <1>3

\* Every action of a job moves it from one known phase to another.
LEMMA JobMoves ==
  ASSUME TypeOK, NEW f \in Fibers, NEW t \in Tasks
  PROVE  /\ BeginTurn(f, t) => Moves(f, t, "running")
         /\ SessionFails(f, t) => Moves(f, t, "ended")
         /\ Heartbeat(f, t) => Moves(f, t, "running")
         /\ HeartbeatFails(f, t) => Moves(f, t, "mute")
         /\ EndTurn(f, t) => Moves(f, t, "ended") \/ Moves(f, t, "failed")
         /\ TriggerEnds(f, t) => Moves(f, t, "none")
         /\ RecordFired(f, t) => Moves(f, t, "complete") \/ Moves(f, t, "release")
         /\ RecordCompleted(f, t) => Moves(f, t, "release")
         /\ RecordFails(f, t) => Moves(f, t, "failed")
         /\ HandleFailure(f, t) => Moves(f, t, "alert") \/ Moves(f, t, "release")
         /\ HandleFails(f, t) => Moves(f, t, "failed") \/ Moves(f, t, "release")
         /\ FailureAlert(f, t) => Moves(f, t, "release")
         /\ _release_task(f, t) \/ ReleaseFails(f, t) => JobLeaves(f, t)
  <1> USE DEF TypeOK
  <1>0. /\ job[f][t] \in JobType
        /\ NoJob \in JobType /\ NoJob.ph = "none"
        /\ "running" \in Phases /\ "ended" \in Phases /\ "complete" \in Phases
        /\ "alert" \in Phases /\ "release" \in Phases /\ "failed" \in Phases
        /\ "permanent" \in Results
    BY EmptyRecords DEF NoJob, Phases, Results
  <1>1. BeginTurn(f, t) => Moves(f, t, "running")
    BY <1>0, StepMoves DEF BeginTurn
  <1>2. ASSUME SessionFails(f, t) PROVE Moves(f, t, "ended")
    <2>1. PICK r \in Results \ {"ok"} :
            SetJob(f, t, [job[f][t] EXCEPT !.ph = "ended", !.res = r])
      BY <1>2 DEF SessionFails
    <2>2. r \in Results
      OBVIOUS
    <2> QED BY <1>0, <2>1, <2>2, JobFails, Zenon DEF Moves
  <1>3. Heartbeat(f, t) => Moves(f, t, "running")
    BY <1>0, JobBeat, Zenon DEF Heartbeat, Moves
  <1>4. EndTurn(f, t) => Moves(f, t, "ended") \/ Moves(f, t, "failed")
    <2>1. ASSUME SetJob(f, t, [job[f][t] EXCEPT !.ph = "failed", !.res = "permanent"])
          PROVE  Moves(f, t, "failed")
      BY <1>0, <2>1, JobFails, Zenon DEF Moves
    <2>2. ASSUME NEW r \in Results,
                 SetJob(f, t, [job[f][t] EXCEPT !.ph = "ended", !.res = r,
                                                !.beat = 0, !.beaten = FALSE])
          PROVE  Moves(f, t, "ended")
      BY <1>0, <2>2, JobEnds, Zenon DEF Moves
    <2> QED BY <2>1, <2>2, Zenon DEF EndTurn
  <1>5. TriggerEnds(f, t) => Moves(f, t, "none")
    BY <1>0, Zenon DEF TriggerEnds, Moves
  <1>6. RecordFired(f, t) => Moves(f, t, "complete") \/ Moves(f, t, "release")
    BY <1>0, StepMoves, Zenon DEF RecordFired
  <1>7. RecordCompleted(f, t) => Moves(f, t, "release")
    BY <1>0, StepMoves, Zenon DEF RecordCompleted
  <1>8. RecordFails(f, t) => Moves(f, t, "failed")
    <2> SUFFICES ASSUME RecordFails(f, t) PROVE Moves(f, t, "failed")
      OBVIOUS
    <2>1. SetJob(f, t, [job[f][t] EXCEPT !.ph = "failed", !.res = "permanent"])
      BY Zenon DEF RecordFails
    <2> QED BY <1>0, <2>1, JobFails, Zenon DEF Moves
  <1>9. HandleFailure(f, t) => Moves(f, t, "alert") \/ Moves(f, t, "release")
    BY <1>0, StepMoves, Zenon DEF HandleFailure
  <1>10. FailureAlert(f, t) => Moves(f, t, "release")
    BY <1>0, StepMoves, Zenon DEF FailureAlert
  <1>11. _release_task(f, t) \/ ReleaseFails(f, t) => JobLeaves(f, t)
    <2>1. ASSUME NEW b \in BOOLEAN, SetJob(f, t, Ended(f, b)) PROVE JobLeaves(f, t)
      BY <2>1, JobOver, Zenon DEF JobLeaves, Moves
    <2>2. (job[f][t].res # "ok") \in BOOLEAN /\ TRUE \in BOOLEAN
      OBVIOUS
    <2> QED BY <2>1, <2>2, Zenon DEF _release_task, ReleaseFails
  <1>12. HandleFails(f, t) => Moves(f, t, "failed") \/ Moves(f, t, "release")
    <2>1. ASSUME SetJob(f, t, [job[f][t] EXCEPT !.ph = "failed", !.res = "permanent"])
          PROVE  Moves(f, t, "failed")
      BY <1>0, <2>1, JobFails, Zenon DEF Moves
    <2>2. ASSUME SetJob(f, t, [NoJob EXCEPT !.ph = "release", !.res = "permanent"])
          PROVE  Moves(f, t, "release")
      BY <1>0, <2>2, JobFails, Zenon DEF Moves
    <2> QED BY <2>1, <2>2, Zenon DEF HandleFails
  <1>13. HeartbeatFails(f, t) => Moves(f, t, "mute")
    BY <1>0, JobMutes, Zenon DEF HeartbeatFails, Moves
  <1> QED
    BY <1>1, <1>2, <1>3, <1>4, <1>5, <1>6, <1>7, <1>8, <1>9, <1>10, <1>11, <1>12, <1>13

\* A heartbeat and a failing release leave every holder alone.
LEMMA HoldersStay ==
  ASSUME TypeOK, NEW f \in Fibers, NEW t \in Tasks, Heartbeat(f, t) \/ ReleaseFails(f, t)
  PROVE  \A u \in Tasks : claim'[u].by = claim[u].by
  <1> SUFFICES ASSUME NEW u \in Tasks PROVE claim'[u].by = claim[u].by
    OBVIOUS
  <1>1. claim \in [Tasks -> ClaimType] /\ claim[u] \in ClaimType
    BY DEF TypeOK
  <1>2. \/ claim' = claim
        \/ claim' = [claim EXCEPT ![t].hb = 0]
        \/ claim' = [claim EXCEPT ![t].leaked = TRUE]
    BY DEF Heartbeat, ReleaseFails
  <1>3. \/ claim'[u] = claim[u]
        \/ claim'[u] = [claim[u] EXCEPT !.hb = 0]
        \/ claim'[u] = [claim[u] EXCEPT !.leaked = TRUE]
    BY <1>1, <1>2
  <1>4. claim[u].by = [claim[u] EXCEPT !.hb = 0].by
    BY <1>1, ClaimKeeps
  <1>5. claim[u].by = [claim[u] EXCEPT !.leaked = TRUE].by
    BY <1>1, ClaimKeeps
  <1> QED BY <1>3, <1>4, <1>5

(***************************************************************************)
(* Type correctness.                                                       *)
(***************************************************************************)

\* Every row an action writes is a row.
LEMMA RowRecords ==
  ASSUME NEW r \in RowType, NEW s \in Statuses, NEW n \in Nat \cup {None}, NEW c \in Nat
  PROVE  /\ [r EXCEPT !.status = s] \in RowType
         /\ [r EXCEPT !.status = s, !.next = n] \in RowType
         /\ [r EXCEPT !.status = s, !.next = n, !.fails = c] \in RowType
         /\ Fired(r, n) \in RowType
  <1>1. [r EXCEPT !.status = s] \in RowType
    BY DEF RowType
  <1>2. [r EXCEPT !.status = s, !.next = n] \in RowType
    BY DEF RowType
  <1>3. [r EXCEPT !.status = s, !.next = n, !.fails = c] \in RowType
    BY DEF RowType
  <1>4. Least(r.count + 1, CountCap) \in Nat
    BY CronAssumption DEF RowType, Least
  <1>5. Fired(r, n) \in RowType
    BY <1>4 DEF RowType, Fired
  <1> QED BY <1>1, <1>2, <1>3, <1>5

\* Write keeps the table's type and touches at most one row.
LEMMA WriteEffect ==
  ASSUME row \in [Tasks -> RowType], NEW t \in Tasks, NEW r \in RowType, Write(t, r)
  PROVE  /\ row' \in [Tasks -> RowType]
         /\ \A u \in Tasks : u # t => row'[u] = row[u]
         /\ row'[t] \in {r, row[t]}
         /\ t \in Durable => row'[t] = r
  BY DEF Write

\* The distances of compute_next_fire and backoff_delay are natural numbers.
LEMMA Delays ==
  /\ \A t \in Tasks : compute_next_fire(t) \subseteq Nat
  /\ \A n \in Nat : backoff_delay(n) \in Nat
  /\ \A a, b \in Nat : Least(a, b) \in Nat /\ Most(a, b) \in Nat
  <1>1. \A t \in Tasks : compute_next_fire(t) \subseteq Nat
    BY CronAssumption DEF compute_next_fire
  <1>2. \A a, b \in Nat : Least(a, b) \in Nat /\ Most(a, b) \in Nat
    BY DEF Least, Most
  <1>3. ASSUME NEW n \in Nat PROVE backoff_delay(n) \in Nat
    <2>1. Len(BackoffSchedule) \in Nat \ {0}
      BY CronAssumption
    <2>2. Most(1, Least(n, Len(BackoffSchedule))) \in 1..Len(BackoffSchedule)
      BY <2>1 DEF Most, Least
    <2> QED BY <2>2, CronAssumption DEF backoff_delay
  <1> QED BY <1>1, <1>2, <1>3

\* The rows of a failure are rows.
LEMMA FailedRows ==
  ASSUME TypeOK, NEW t \in Tasks, NEW n \in Nat, NEW res, NEW raised \in BOOLEAN
  PROVE  FailedRow(t, n, res, raised) \subseteq RowType
  <1>1. row[t] \in RowType
    BY DEF TypeOK
  <1>2. {"active", "paused"} \subseteq Statuses
    BY DEF Statuses
  <1>3. [row[t] EXCEPT !.status = "paused", !.next = None, !.fails = n] \in RowType
    BY <1>1, <1>2, RowRecords
  <1>4. \A m \in Nat : [row[t] EXCEPT !.status = "active", !.next = m, !.fails = n] \in RowType
    BY <1>1, <1>2, RowRecords
  <1>5. \A m \in (IF raised THEN {FallbackDelay} ELSE compute_next_fire(t)) :
          Most(m, backoff_delay(n)) \in Nat /\ backoff_delay(n) \in Nat
    BY Delays, CronAssumption
  <1>6. backoff_delay(n) \in Nat
    BY Delays
  <1>7. SUFFICES ASSUME NEW r \in FailedRow(t, n, res, raised) PROVE r \in RowType
    OBVIOUS
  <1>8. \/ r = [row[t] EXCEPT !.status = "paused", !.next = None, !.fails = n]
        \/ \E m \in Nat : r = [row[t] EXCEPT !.status = "active", !.next = m, !.fails = n]
    <2> DEFINE natural == IF raised THEN {FallbackDelay} ELSE compute_next_fire(t)
    <2>1. CASE t \in Recurring
      <3>1. \/ r \in {[row[t] EXCEPT !.status = "paused", !.next = None, !.fails = n]}
            \/ r \in {[row[t] EXCEPT !.status = "active", !.next = m, !.fails = n] :
                       m \in {Most(m, backoff_delay(n)) : m \in natural}}
        BY <2>1, Zenon DEF FailedRow
      <3>2. CASE r \in {[row[t] EXCEPT !.status = "active", !.next = m, !.fails = n] :
                       m \in {Most(m, backoff_delay(n)) : m \in natural}}
        BY <3>2, <1>5, Zenon
      <3> QED BY <3>1, <3>2, Zenon
    <2>2. CASE t \notin Recurring
      BY <2>2, <1>6 DEF FailedRow
    <2> QED BY <2>1, <2>2
  <1> QED BY <1>3, <1>4, <1>8

\* The fibers of a kernel.
LEMMA FiberFacts ==
  /\ \A f \in Fibers : f[1] \in Kernels
  /\ \A k \in Kernels : <<k, "loop">> \in Fibers /\ <<k, "catchup">> \in Fibers
  BY DEF Fibers, Kinds

\* Every job action keeps the types.
LEMMA JobStepType ==
  ASSUME TypeOK, NEW f \in Fibers, NEW t \in Tasks, JobStep(f, t) \/ Heartbeat(f, t) \/ HeartbeatFails(f, t)
  PROVE  TypeOK'
  <1> USE DEF TypeOK
  <1>1. job' \in [Fibers -> [Tasks -> JobType]]
    BY JobMoves, MovesEffect, Zenon DEF JobStep, JobLeaves
  <1>2. row' \in [Tasks -> RowType]
    <2>0. row[t] \in RowType /\ {"active", "completed"} \subseteq Statuses
      BY DEF Statuses
    <2>1. CASE RecordFired(f, t)
      <3>1. PICK n \in (IF t \in Recurring THEN compute_next_fire(t) ELSE {None}) :
              Write(t, Fired(row[t], n))
        BY <2>1 DEF RecordFired
      <3>2. n \in Nat \cup {None}
        BY Delays
      <3>3. Fired(row[t], n) \in RowType
        BY <2>0, <3>2, RowRecords, CronAssumption
      <3> QED BY <3>1, <3>3, WriteEffect
    <2>2. CASE RecordCompleted(f, t)
      <3>1. [row[t] EXCEPT !.status = "completed", !.next = None] \in RowType
        BY <2>0, RowRecords
      <3> QED BY <2>2, <3>1, WriteEffect, Zenon DEF RecordCompleted
    <2>3. CASE HandleFailure(f, t)
      <3>1. SeenFails(f, t) \in Nat
        BY DEF SeenFails, JobType, RowType
      <3>2. Least(SeenFails(f, t) + 1, FailCap) \in Nat
        BY <3>1, CronAssumption DEF Least
      <3>3. \E raised \in BOOLEAN :
              \E r \in FailedRow(t, Least(SeenFails(f, t) + 1, FailCap),
                                 job[f][t].res, raised) : Write(t, r)
        BY <2>3 DEF HandleFailure
      <3> QED BY <3>2, <3>3, FailedRows, WriteEffect
    <2>4. CASE FailureAlert(f, t)
      <3>1. [row[t] EXCEPT !.status = IF t \in Durable THEN "active" ELSE @] \in RowType
        BY DEF RowType, Statuses
      <3> QED BY <2>4, <3>1, WriteEffect, Zenon DEF FailureAlert
    <2>5. CASE UNCHANGED row
      BY <2>5
    <2> QED
      BY <2>1, <2>2, <2>3, <2>4, <2>5
      DEF JobStep, BeginTurn, SessionFails, Heartbeat, EndTurn, TriggerEnds,
          RecordFails, HeartbeatFails, HandleFails, _release_task, ReleaseFails
  <1>3. claim' \in [Tasks -> ClaimType]
    <2>1. /\ NoClaim \in ClaimType
          /\ [claim[t] EXCEPT !.hb = 0] \in ClaimType
          /\ [claim[t] EXCEPT !.leaked = TRUE] \in ClaimType
      BY EmptyRecords DEF ClaimType
    <2>2. CASE Heartbeat(f, t) \/ ReleaseFails(f, t)
      BY <2>1, <2>2 DEF Heartbeat, ReleaseFails
    <2>3. CASE _release_task(f, t)
      BY <2>1, <2>3 DEF _release_task
    <2>4. CASE UNCHANGED claim
      BY <2>4
    <2> QED
      BY <2>2, <2>3, <2>4
      DEF JobStep, BeginTurn, SessionFails, EndTurn, TriggerEnds, RecordFired,
          RecordCompleted, RecordFails, HeartbeatFails, HandleFailure, HandleFails,
          FailureAlert
  <1>4. op' \in [Kernels -> OpType]
    BY EmptyRecords
    DEF JobStep, BeginTurn, SessionFails, Heartbeat, EndTurn, TriggerEnds, RecordFired,
        RecordCompleted, RecordFails, HeartbeatFails, HandleFailure, HandleFails,
        FailureAlert, _release_task, ReleaseFails
  <1>5. UNCHANGED <<mode, loop, catchup, swept>>
    BY DEF JobStep, BeginTurn, SessionFails, Heartbeat, EndTurn, TriggerEnds, RecordFired,
        RecordCompleted, RecordFails, HeartbeatFails, HandleFailure, HandleFails,
        FailureAlert, _release_task, ReleaseFails
  <1> QED BY <1>1, <1>2, <1>3, <1>4, <1>5

\* Starting, stopping and losing a process keeps the types.
LEMMA LifeStepType ==
  ASSUME TypeOK, NEW k \in Kernels,
         Startup(k) \/ Crash(k) \/ Stop(k) \/ Shutdown(k) \/ LoopError(k)
  PROVE  TypeOK'
  <1> USE DEF TypeOK
  <1>1. CASE Startup(k)
    <2>1. [loop[k] EXCEPT !.pc = "cleanup"] \in LoopType
      BY DEF LoopType
    <2> QED BY <1>1, <2>1 DEF Startup
  <1>2. CASE Gone(k)
    <2>1. row' \in [Tasks -> RowType] /\ claim' \in [Tasks -> ClaimType]
      BY <1>2, EmptyRecords DEF Gone
    <2>2. job' \in [Fibers -> [Tasks -> JobType]]
      BY <1>2, EmptyRecords DEF Gone
    <2>3. /\ mode' \in [Kernels -> {"new", "up", "stopping", "down"}]
          /\ loop' \in [Kernels -> LoopType]
          /\ catchup' \in [Kernels -> {"off", "cleanup", "list", "scan"}]
          /\ op' \in [Kernels -> OpType]
          /\ swept' = swept
      BY <1>2, EmptyRecords DEF Gone
    <2> QED BY <2>1, <2>2, <2>3
  <1>3. CASE Stop(k)
    <2>1. [NoJob EXCEPT !.ph = "release"] \in JobType
      BY EmptyRecords, JobPhase DEF Phases
    <2>2. job' \in [Fibers -> [Tasks -> JobType]]
      BY <1>3, <2>1, EmptyRecords, FiberFacts DEF Stop
    <2> QED BY <1>3, <2>2, EmptyRecords DEF Stop
  <1>4. CASE LoopError(k)
    <2>1. job' \in [Fibers -> [Tasks -> JobType]]
      BY <1>4, EmptyRecords, FiberFacts DEF LoopError
    <2> QED BY <1>4, <2>1, EmptyRecords DEF LoopError
  <1> QED BY <1>1, <1>2, <1>3, <1>4 DEF Crash, Shutdown

\* The lists made of the table keep the type of job.
LEMMA ListedType ==
  ASSUME TypeOK, NEW due
  PROVE  Listed(due) \in [Tasks -> JobType]
  <1>1. ASSUME NEW t \in Tasks
        PROVE  [NoJob EXCEPT !.ph = "due", !.count = row[t].count,
                             !.fails = row[t].fails] \in JobType
    <2>1. row[t].count \in Nat /\ row[t].fails \in Nat
      BY DEF TypeOK, RowType
    <2> QED BY <2>1 DEF NoJob, JobType, Phases, Results
  <1> QED BY <1>1, EmptyRecords DEF Listed

\* A claim attempt keeps the types.
LEMMA ClaimAttemptType ==
  ASSUME TypeOK, NEW f \in Fibers, NEW t \in Tasks, NEW p \in Phases,
         _claim_tasks(f, t, p)
  PROVE  /\ job' \in [Fibers -> [Tasks -> JobType]]
         /\ claim' \in [Tasks -> ClaimType]
  <1> USE DEF TypeOK
  <1>1. ClaimBy(f[1]) \in ClaimType
    BY FiberFacts DEF ClaimBy, NoClaim, ClaimType
  <1>2. CASE Step(f, t, p) /\ claim' = [claim EXCEPT ![t] = ClaimBy(f[1])]
    <2>1. job' \in [Fibers -> [Tasks -> JobType]]
      BY <1>2, StepMoves, MovesEffect
    <2> QED BY <2>1, <1>1, <1>2
  <1>3. CASE SetJob(f, t, NoJob) /\ UNCHANGED claim
    BY <1>3, SetJobEffect, EmptyRecords
  <1> QED BY <1>2, <1>3 DEF _claim_tasks

\* The scheduler loop keeps the types.
LEMMA LoopStepType ==
  ASSUME TypeOK, NEW k \in Kernels, LoopStep(k)
  PROVE  TypeOK'
  <1> USE DEF TypeOK
  <1>0. loop[k] \in LoopType
    OBVIOUS
  <1>1. CASE LoopCleanup(k)
    <2>1. claim' \in [Tasks -> ClaimType] /\ swept' \subseteq Durable
      BY <1>1, EmptyRecords DEF LoopCleanup, _cleanup_stale_claims
    <2>2. [loop[k] EXCEPT !.pc = "list"] \in LoopType
      BY <1>0 DEF LoopType
    <2> QED BY <1>1, <2>1, <2>2 DEF LoopCleanup
  <1>2. CASE LoopList(k)
    <2> DEFINE open == {t \in Active(k) : row[t].next # None /\ claim[t].by = None}
               later == {row[t].next : t \in {u \in open : row[u].next > 0}}
               expired == {t \in Active(k) \cap Recurring :
                             MaxAge > 0 /\ row[t].idle # None /\ row[t].idle > MaxAge}
    <2>1. open \subseteq Tasks /\ expired \in SUBSET Tasks
      BY DEF Active
    <2>2. Soonest(later) \subseteq Nat \cup {None}
      BY <2>1 DEF RowType, Soonest
    <2>3. PICK soon \in Soonest(later) :
            loop' = [loop EXCEPT ![k] =
                       [@ EXCEPT !.pc = "claim", !.exp = expired, !.soon = soon]]
      BY <1>2, Zenon DEF LoopList
    <2>4. [loop[k] EXCEPT !.pc = "claim", !.exp = expired, !.soon = soon] \in LoopType
      <3> HIDE DEF expired
      <3> QED BY <1>0, <2>1, <2>2 DEF LoopType
    <2>5. job' \in [Fibers -> [Tasks -> JobType]]
      <3>1. job' = [job EXCEPT ![<<k, "loop">>] = Listed({t \in open : row[t].next = 0})]
        BY <1>2, Zenon DEF LoopList
      <3> QED BY <3>1, ListedType, FiberFacts
    <2>6. loop' \in [Kernels -> LoopType]
      <3> HIDE DEF expired, later
      <3> QED BY <2>3, <2>4
    <2>7. UNCHANGED <<row, claim, mode, catchup, op, swept>>
      BY <1>2 DEF LoopList
    <2> HIDE DEF open, later, expired
    <2> QED BY <2>5, <2>6, <2>7
  <1>3. CASE LoopSleep(k)
    <2>1. SleepTime(loop[k].soon) \in Nat \cup {None}
      BY <1>0, CronAssumption DEF LoopType, Least, SleepTime
    <2>2. [loop[k] EXCEPT !.pc = "sleep", !.wake = FALSE,
                          !.soon = SleepTime(loop[k].soon)] \in LoopType
      BY <1>0, <2>1 DEF LoopType
    <2> QED BY <1>3, <2>2 DEF LoopSleep
  <1>4. CASE LoopWake(k)
    <2>1. [loop[k] EXCEPT !.pc = "cleanup", !.soon = None] \in LoopType
      BY <1>0 DEF LoopType
    <2> QED BY <1>4, <2>1 DEF LoopWake
  <1>5. ASSUME NEW t \in Tasks, LoopExpire(k, t) PROVE TypeOK'
    <2>1. [row[t] EXCEPT !.status = "expired", !.next = None] \in RowType
      BY DEF RowType, Statuses
    <2>2. row' \in [Tasks -> RowType]
      BY <1>5, <2>1, WriteEffect, Zenon DEF LoopExpire
    <2>3. [loop[k] EXCEPT !.exp = @ \ {t}] \in LoopType
      BY <1>0 DEF LoopType
    <2>4. loop' \in [Kernels -> LoopType]
      BY <1>5, <2>3 DEF LoopExpire
    <2> QED BY <1>5, <2>2, <2>4 DEF LoopExpire
  <1>6. ASSUME NEW t \in Tasks, LoopClaim(k, t) PROVE TypeOK'
    <2>1. "queued" \in Phases
      BY DEF Phases
    <2>2. job' \in [Fibers -> [Tasks -> JobType]] /\ claim' \in [Tasks -> ClaimType]
      BY <1>6, <2>1, FiberFacts, ClaimAttemptType DEF LoopClaim
    <2> QED BY <1>6, <2>2 DEF LoopClaim
  <1>7. ASSUME NEW t \in Tasks, LoopFire(k, t) PROVE TypeOK'
    <2>1. "starting" \in Phases
      BY DEF Phases
    <2>2. job' \in [Fibers -> [Tasks -> JobType]]
      BY <1>7, <2>1, FiberFacts, StepMoves, MovesEffect DEF LoopFire
    <2> QED BY <1>7, <2>2 DEF LoopFire
  <1> QED BY <1>1, <1>2, <1>3, <1>4, <1>5, <1>6, <1>7 DEF LoopStep

\* A fiber without jobs has their type.
LEMMA NoJobsType == [t \in Tasks |-> NoJob] \in [Tasks -> JobType]
  BY EmptyRecords

\* The startup catch-up keeps the types.
LEMMA CatchupStepType ==
  ASSUME TypeOK, NEW k \in Kernels, CatchupStep(k)
  PROVE  TypeOK'
  <1> USE DEF TypeOK
  <1>1. CASE CatchupCleanup(k)
    <2>1. claim' \in [Tasks -> ClaimType] /\ swept' \subseteq Durable
      BY <1>1, EmptyRecords DEF CatchupCleanup, _cleanup_stale_claims
    <2> QED BY <1>1, <2>1 DEF CatchupCleanup
  <1>2. CASE CatchupList(k)
    <2>1. job' \in [Fibers -> [Tasks -> JobType]]
      BY <1>2, ListedType, FiberFacts DEF CatchupList
    <2> QED BY <1>2, <2>1 DEF CatchupList
  <1>3. CASE CatchupDone(k)
    BY <1>3 DEF CatchupDone
  <1>4. ASSUME NEW t \in Tasks, CatchupSkip(k, t) PROVE TypeOK'
    <2>1. job' \in [Fibers -> [Tasks -> JobType]]
      BY <1>4, SetJobEffect, EmptyRecords, FiberFacts, Zenon DEF CatchupSkip
    <2>2. \A n \in compute_next_fire(t) :
            [row[t] EXCEPT !.status = "active", !.next = n] \in RowType
      BY Delays DEF RowType, Statuses
    <2>3. row' \in [Tasks -> RowType]
      BY <1>4, <2>2, WriteEffect, Zenon DEF CatchupSkip
    <2> QED BY <1>4, <2>1, <2>3 DEF CatchupSkip
  <1>5. ASSUME NEW t \in Tasks, CatchupClaim(k, t) PROVE TypeOK'
    <2>1. "starting" \in Phases
      BY DEF Phases
    <2>2. job' \in [Fibers -> [Tasks -> JobType]] /\ claim' \in [Tasks -> ClaimType]
      BY <1>5, <2>1, FiberFacts, ClaimAttemptType DEF CatchupClaim
    <2> QED BY <1>5, <2>2 DEF CatchupClaim
  <1>6. CASE CatchupError(k)
    BY <1>6, NoJobsType, FiberFacts DEF CatchupError
  <1> QED BY <1>1, <1>2, <1>3, <1>4, <1>5, <1>6 DEF CatchupStep

\* User operations keep the types.
LEMMA UserStepType ==
  ASSUME TypeOK, NEW k \in Kernels, UserStep(k)
  PROVE  TypeOK'
  <1> USE DEF TypeOK
  <1>0. [loop[k] EXCEPT !.wake = TRUE] \in LoopType
    BY DEF LoopType
  <1>1. Notify(k) => loop' \in [Kernels -> LoopType]
    BY <1>0 DEF Notify
  <1>2. CASE CreateAdd(k)
    <2>1. \A n \in Nat : [NoTask EXCEPT !.status = "active", !.next = n] \in RowType
      BY DEF NoTask, RowType, Statuses
    <2>2. PICK n \in compute_next_fire(op[k].t) :
            row' = [row EXCEPT ![op[k].t] = [NoTask EXCEPT !.status = "active", !.next = n]]
      BY <1>2 DEF CreateAdd
    <2>3. n \in Nat
      BY <2>2, CronAssumption, SMTT(30) DEF compute_next_fire
    <2>4. row' \in [Tasks -> RowType]
      BY <2>1, <2>2, <2>3
    <2> QED BY <1>1, <1>2, <2>4, EmptyRecords DEF CreateAdd
  <1>3. CASE PauseWrite(k)
    <2>1. \A t \in Tasks : [row[t] EXCEPT !.status = "paused", !.next = None] \in RowType
      BY DEF RowType, Statuses
    <2>2. row' \in [Tasks -> RowType]
      <3>1. op[k].t \in Tasks
        BY <1>3 DEF PauseWrite, OpType, NoOp
      <3> QED BY <1>3, <2>1, <3>1, WriteEffect, Zenon DEF PauseWrite
    <2> QED BY <1>1, <1>3, <2>2, EmptyRecords DEF PauseWrite
  <1>4. CASE ResumeWrite(k)
    <2>1. op[k].next \in Nat \cup {None}
      BY DEF OpType, NoOp
    <2>2. \A t \in Tasks : [row[t] EXCEPT !.status = "active", !.next = op[k].next,
                                          !.fails = 0] \in RowType
      BY <2>1, ZenonT(30) DEF RowType, Statuses
    <2>3. row' \in [Tasks -> RowType]
      <3>1. op[k].t \in Tasks
        BY <1>4 DEF ResumeWrite, OpType, NoOp
      <3> QED BY <1>4, <2>2, <3>1, WriteEffect, Zenon DEF ResumeWrite
    <2> QED BY <1>1, <1>4, <2>3, EmptyRecords DEF ResumeWrite
  <1>5. ASSUME NEW t \in Tasks, CreateCheck(k, t) \/ PauseCheck(k, t) \/ ResumeCheck(k, t)
        PROVE  TypeOK'
    <2>1. op' \in [Kernels -> OpType]
      <3>1. /\ [kind |-> "add", t |-> t, next |-> None] \in OpType
            /\ [kind |-> "pause", t |-> t, next |-> None] \in OpType
        BY DEF OpType
      <3>2. \A n \in compute_next_fire(t) :
              [kind |-> "resume", t |-> t, next |-> n] \in OpType
        BY Delays DEF OpType
      <3> QED BY <1>5, <3>1, <3>2 DEF CreateCheck, PauseCheck, ResumeCheck
    <2> QED BY <1>5, <2>1 DEF CreateCheck, PauseCheck, ResumeCheck
  <1>6. ASSUME NEW t \in Tasks, DeleteTask(k, t) PROVE TypeOK'
    <2>1. [row[t] EXCEPT !.status = "deleted"] \in RowType
      BY DEF RowType, Statuses
    <2> QED BY <1>1, <1>6, <2>1 DEF DeleteTask
  <1>7. ASSUME NEW t \in Tasks, TriggerNow(k, t) PROVE TypeOK'
    <2>1. <<k, "trigger">> \in Fibers /\ "starting" \in Phases
      BY <1>7 DEF TriggerNow, CanAsk, Fibers, Kinds, Phases
    <2>2. job' \in [Fibers -> [Tasks -> JobType]]
      BY <1>7, <2>1, StepMoves, MovesEffect DEF TriggerNow
    <2> QED BY <1>7, <2>2 DEF TriggerNow, OpType
  <1> QED BY <1>2, <1>3, <1>4, <1>5, <1>6, <1>7 DEF UserStep

\* The passing of time keeps the types.
LEMMA TickType ==
  ASSUME TypeOK, Tick
  PROVE  TypeOK'
  <1> USE DEF TypeOK
  <1>0. \A n \in Nat \cup {None} : \A c \in Nat :
          Down(n) \in Nat \cup {None} /\ Up(n, c) \in Nat \cup {None}
    BY CronAssumption DEF Down, Up, Least
  <1>1. row' \in [Tasks -> RowType]
    <2>1. ASSUME NEW t \in Tasks
          PROVE  [row[t] EXCEPT !.next = Down(@),
                    !.idle = Up(@, IF MaxAge = 0 THEN 0 ELSE MaxAge + 1)] \in RowType
      <3>1. /\ row[t].next \in Nat \cup {None} /\ row[t].idle \in Nat \cup {None}
            /\ (IF MaxAge = 0 THEN 0 ELSE MaxAge + 1) \in Nat
        BY CronAssumption DEF RowType
      <3>2. /\ Down(row[t].next) \in Nat \cup {None}
            /\ Up(row[t].idle, IF MaxAge = 0 THEN 0 ELSE MaxAge + 1) \in Nat \cup {None}
        BY <1>0, <3>1, Zenon
      <3> QED BY <3>2 DEF RowType
    <2> QED BY <2>1, Zenon DEF Tick
  <1>2. claim' \in [Tasks -> ClaimType]
    <2>1. ASSUME NEW t \in Tasks
          PROVE  [claim[t] EXCEPT !.hb = Up(@, StaleThreshold + 1)] \in ClaimType
      <3>1. Up(claim[t].hb, StaleThreshold + 1) \in Nat
        BY CronAssumption DEF ClaimType, Up, Least
      <3> QED BY <3>1 DEF ClaimType
    <2> QED BY <2>1 DEF Tick
  <1>3. loop' \in [Kernels -> LoopType]
    <2>1. ASSUME NEW k \in Kernels PROVE [loop[k] EXCEPT !.soon = Down(@)] \in LoopType
      BY <1>0 DEF LoopType
    <2> QED BY <2>1, Zenon DEF Tick
  <1>4. job' \in [Fibers -> [Tasks -> JobType]]
    BY JobBeat DEF Tick
  <1> QED BY <1>1, <1>2, <1>3, <1>4 DEF Tick

\* TypeOK is an invariant of the cron subsystem for any kernels, tasks and timings.
THEOREM TypeCorrect == Spec => []TypeOK
  <1>1. Init => TypeOK
    <2> SUFFICES ASSUME Init PROVE TypeOK
      OBVIOUS
    <2>1. row \in [Tasks -> RowType]
      <3>1. \A n \in 0..Period : [NoTask EXCEPT !.status = "active", !.next = n] \in RowType
        <4>1. NoTask \in RowType /\ "active" \in Statuses /\ 0..Period \subseteq Nat
          BY EmptyRecords, CronAssumption DEF Statuses
        <4> QED BY <4>1, RowRecords
      <3>2. {NoTask} \cup {[NoTask EXCEPT !.status = "active", !.next = n] : n \in 0..Period}
              \subseteq RowType
        BY <3>1, EmptyRecords
      <3> QED BY <3>2, Zenon DEF Init
    <2>2. loop \in [Kernels -> LoopType]
      BY EmptyRecords, CronAssumption DEF Init, LoopOff, LoopType
    <2> QED BY <2>1, <2>2, EmptyRecords DEF Init, TypeOK
  <1>2. TypeOK /\ [Next]_vars => TypeOK'
    <2> SUFFICES ASSUME TypeOK, [Next]_vars PROVE TypeOK'
      OBVIOUS
    <2>1. CASE UNCHANGED vars
      BY <2>1 DEF vars, TypeOK
    <2>2. CASE Tick
      BY <2>2, TickType
    <2>3. ASSUME NEW k \in Kernels, KernelStep(k) PROVE TypeOK'
      BY <2>3, LifeStepType, LoopStepType, CatchupStepType, UserStepType DEF KernelStep
    <2>4. ASSUME NEW f \in Fibers, NEW t \in Tasks, JobStep(f, t) \/ Heartbeat(f, t) \/ HeartbeatFails(f, t)
          PROVE  TypeOK'
      BY <2>4, JobStepType
    <2> QED BY <2>1, <2>2, <2>3, <2>4 DEF Next
  <1> QED BY <1>1, <1>2, PTL DEF Spec

(***************************************************************************)
(* The claim protocol excludes.  ExclusiveExecution is not inductive: what *)
(* keeps a second fiber out is that a claimed job's row names its kernel,  *)
(* which the CAS then refuses; and a trigger, which has no claim, must     *)
(* never reach the release.                                                *)
(***************************************************************************)
TriggersHoldNothing ==
  \A f \in Fibers, t \in Tasks :
    f[2] = "trigger" =>
      job[f][t].ph \in {"none", "starting", "running", "mute", "ended", "failed"}

ClaimNamesHolder ==
  \A t \in Durable \ swept : \A f \in Fibers :
    Claimed(f, t) => claim[t].by = f[1]

ClaimInv == TriggersHoldNothing /\ ClaimNamesHolder /\ ExclusiveExecution

\* A step that leaves every running_by alone and lets no fiber enter the section
\* between claim and release keeps ClaimInv.
LEMMA NoNewClaims ==
  ASSUME TypeOK, ClaimInv, TriggersHoldNothing', swept' = swept,
         \A t \in Durable : claim'[t].by = claim[t].by,
         \A f \in Fibers, t \in Durable : Claimed(f, t)' => Claimed(f, t)
  PROVE  ClaimInv'
  BY DEF ClaimInv, ClaimNamesHolder, ExclusiveExecution

\* The phases a job action may start from, for a fiber that is not a trigger,
\* lie between claim and release.
LEMMA JobStepFrom ==
  ASSUME TypeOK, ClaimInv, NEW f \in Fibers, NEW t \in Tasks,
         JobStep(f, t) \/ Heartbeat(f, t) \/ HeartbeatFails(f, t)
  PROVE  /\ f[2] # "trigger" => Claimed(f, t)
         /\ f[2] = "trigger" => \/ Moves(f, t, "running") \/ Moves(f, t, "ended")
                                \/ Moves(f, t, "mute") \/ Moves(f, t, "failed")
                                \/ Moves(f, t, "none")
  <1>1. job[f][t].ph \in {"starting", "running", "mute", "ended", "failed",
                          "complete", "alert", "release"}
    BY DEF Failing, JobStep, BeginTurn, SessionFails, Heartbeat, EndTurn, TriggerEnds, RecordFired,
        RecordCompleted, RecordFails, HeartbeatFails, HandleFailure, HandleFails,
        FailureAlert, _release_task, ReleaseFails
  <1>2. f[2] # "trigger" => Claimed(f, t)
    BY <1>1 DEF Claimed, Working, Phases
  <1>3. ASSUME f[2] = "trigger"
        PROVE  BeginTurn(f, t) \/ SessionFails(f, t) \/ Heartbeat(f, t)
               \/ HeartbeatFails(f, t) \/ EndTurn(f, t) \/ TriggerEnds(f, t)
    <2>1. job[f][t].ph \notin {"complete", "alert", "release"}
      BY <1>3, CronAssumption DEF ClaimInv, TriggersHoldNothing
    <2> QED BY <1>3, <2>1
        DEF JobStep, RecordFired, RecordCompleted, RecordFails, HandleFailure, Failing,
            HandleFails, FailureAlert, _release_task, ReleaseFails
  <1> QED BY <1>2, <1>3, JobMoves

\* Every job action keeps ClaimInv.
LEMMA JobStepClaims ==
  ASSUME TypeOK, ClaimInv, NEW f \in Fibers, NEW t \in Tasks,
         JobStep(f, t) \/ Heartbeat(f, t) \/ HeartbeatFails(f, t)
  PROVE  ClaimInv'
  <1>1. /\ job' \in [Fibers -> [Tasks -> JobType]]
        /\ \A g \in Fibers, u \in Tasks : g # f \/ u # t => job'[g][u] = job[g][u]
    <2>1. job \in [Fibers -> [Tasks -> JobType]]
      BY DEF TypeOK
    <2> QED BY <2>1, JobMoves, MovesEffect, ZenonT(30) DEF JobStep, JobLeaves
  <1>2. f[2] = "trigger" => job'[f][t].ph \in {"running", "mute", "ended", "failed", "none"}
    BY JobStepFrom, MovesEffect DEF TypeOK
  <1>3. TriggersHoldNothing'
    BY <1>1, <1>2 DEF ClaimInv, TriggersHoldNothing
  <1>4. \A g \in Fibers, u \in Tasks : Claimed(g, u)' => Claimed(g, u)
    BY <1>1, JobStepFrom DEF Claimed
  <1>5. swept' = swept
    BY DEF JobStep, BeginTurn, SessionFails, Heartbeat, EndTurn, TriggerEnds, RecordFired,
        RecordCompleted, RecordFails, HeartbeatFails, HandleFailure, HandleFails,
        FailureAlert, _release_task, ReleaseFails
  <1>6. CASE _release_task(f, t)
    <2>1. job'[f][t].ph \in {"none", "raised"}
      BY <1>6, JobMoves, MovesEffect DEF JobLeaves, TypeOK
    <2>2. ~Claimed(f, t)'
      BY <2>1 DEF Claimed, Working
    <2>3. \A u \in Tasks : u # t => claim'[u] = claim[u]
      BY <1>6 DEF _release_task, TypeOK
    <2>4. Claimed(f, t)
      BY <1>6, JobStepFrom DEF ClaimInv, TriggersHoldNothing, _release_task
    <2>5. \A u \in Durable \ swept, g \in Fibers : Claimed(g, u)' => u # t
      BY <1>4, <2>2, <2>4, CronAssumption DEF ClaimInv, ExclusiveExecution
    <2> QED BY <1>3, <1>4, <1>5, <2>3, <2>5, CronAssumption
        DEF ClaimInv, ClaimNamesHolder, ExclusiveExecution
  <1>7. CASE ~_release_task(f, t)
    <2>1. CASE Heartbeat(f, t) \/ ReleaseFails(f, t)
      <3>1. \A u \in Tasks : claim'[u].by = claim[u].by
        BY <2>1, HoldersStay
      <3> QED BY <3>1, <1>3, <1>4, <1>5, NoNewClaims, CronAssumption
    <2>2. CASE UNCHANGED claim
      BY <2>2, <1>3, <1>4, <1>5, NoNewClaims, CronAssumption
    <2> QED BY <1>7, <2>1, <2>2
        DEF JobStep, BeginTurn, SessionFails, EndTurn, TriggerEnds, RecordFired,
            RecordCompleted, RecordFails, HeartbeatFails, HandleFailure, HandleFails,
            FailureAlert
  <1> QED BY <1>6, <1>7

\* Starting, stopping and losing a process keeps ClaimInv: no fiber enters the
\* section, and a claim left behind only keeps others out.
LEMMA LifeStepClaims ==
  ASSUME TypeOK, ClaimInv, NEW k \in Kernels,
         Startup(k) \/ Crash(k) \/ Stop(k) \/ Shutdown(k) \/ LoopError(k)
  PROVE  ClaimInv'
  <1>0. <<k, "loop">> \in Fibers /\ NoJob.ph = "none" /\ Durable \subseteq Tasks
    BY FiberFacts, CronAssumption DEF NoJob
  <1>1. CASE Startup(k)
    <2>1. UNCHANGED <<claim, job, swept>>
      BY <1>1 DEF Startup
    <2> QED BY <2>1, NoNewClaims DEF Claimed, ClaimInv, TriggersHoldNothing
  <1>2. CASE Gone(k)
    <2>1. \A f \in Fibers, t \in Tasks :
            job'[f][t].ph = job[f][t].ph \/ job'[f][t].ph = "none"
      BY <1>0, <1>2 DEF Gone
    <2>2. swept' = swept /\ \A t \in Durable : claim'[t].by = claim[t].by
      BY <1>0, <1>2 DEF Gone
    <2>3. \A f \in Fibers, t \in Durable : Claimed(f, t)' => Claimed(f, t)
      BY <1>0, <2>1 DEF Claimed, Working
    <2>4. TriggersHoldNothing'
      BY <2>1 DEF ClaimInv, TriggersHoldNothing
    <2> QED BY <2>2, <2>3, <2>4, NoNewClaims
  <1>3. CASE Stop(k)
    <2>1. [NoJob EXCEPT !.ph = "release"].ph = "release"
      BY DEF NoJob
    <2>2. \A f \in Fibers, t \in Tasks :
            \/ job'[f][t].ph = job[f][t].ph
            \/ f = <<k, "loop">> /\ job'[f][t].ph = "none"
            \/ f = <<k, "loop">> /\ job[f][t].ph \in Working /\ job'[f][t].ph = "release"
      BY <1>0, <1>3, <2>1 DEF Stop, TypeOK
    <2>3. swept' = swept /\ claim' = claim
      BY <1>3 DEF Stop
    <2>4. \A f \in Fibers, t \in Durable : Claimed(f, t)' => Claimed(f, t)
      BY <1>0, <2>2 DEF Claimed, Working
    <2>5. TriggersHoldNothing'
      BY <2>2 DEF ClaimInv, TriggersHoldNothing
    <2> QED BY <2>3, <2>4, <2>5, NoNewClaims
  <1>4. CASE LoopError(k)
    <2>1. \A f \in Fibers, t \in Tasks :
            job'[f][t].ph = job[f][t].ph \/ job'[f][t].ph = "none"
      BY <1>0, <1>4 DEF LoopError, TypeOK
    <2>2. swept' = swept /\ claim' = claim
      BY <1>4 DEF LoopError
    <2>3. \A f \in Fibers, t \in Durable : Claimed(f, t)' => Claimed(f, t)
      BY <1>0, <2>1 DEF Claimed, Working
    <2>4. TriggersHoldNothing'
      BY <2>1 DEF ClaimInv, TriggersHoldNothing
    <2> QED BY <2>2, <2>3, <2>4, NoNewClaims
  <1> QED BY <1>1, <1>2, <1>3, <1>4 DEF Crash, Shutdown

\* A cleanup takes a claim away only from tasks it adds to swept.
LEMMA CleanupClaims ==
  ASSUME TypeOK, ClaimInv, _cleanup_stale_claims, UNCHANGED job
  PROVE  ClaimInv'
  <1>1. swept \subseteq swept' /\ \A t \in Durable \ swept' : claim'[t] = claim[t]
    BY CronAssumption DEF _cleanup_stale_claims, TypeOK
  <1>2. \A f \in Fibers, t \in Durable : Claimed(f, t)' <=> Claimed(f, t)
    BY DEF Claimed
  <1> QED BY <1>1, <1>2
      DEF ClaimInv, TriggersHoldNothing, ClaimNamesHolder, ExclusiveExecution

\* Listing replaces a fiber's jobs by due ones, which hold no claim.
LEMMA ListingClaims ==
  ASSUME TypeOK, ClaimInv, NEW k \in Kernels, NEW kind \in {"loop", "catchup"}, NEW due,
         job' = [job EXCEPT ![<<k, kind>>] = Listed(due)], UNCHANGED <<claim, swept>>
  PROVE  ClaimInv'
  <1>1. \A t \in Tasks : Listed(due)[t].ph \in {"due", "none"}
    BY DEF Listed, NoJob
  <1>2. \A f \in Fibers, t \in Tasks :
          \/ job'[f][t].ph = job[f][t].ph
          \/ job'[f][t].ph \in {"due", "none"} /\ f[2] = kind
    <2>1. <<k, kind>> \in Fibers /\ <<k, kind>>[2] = kind
      BY FiberFacts
    <2>2. job'[<<k, kind>>] = Listed(due)
      BY <2>1 DEF TypeOK
    <2>3. \A f \in Fibers : f # <<k, kind>> => job'[f] = job[f]
      BY <2>1 DEF TypeOK
    <2> TAKE f \in Fibers, t \in Tasks
    <2>4. CASE f = <<k, kind>>
      <3>1. f[2] = kind
        BY <2>1, <2>4
      <3>2. job'[f] = Listed(due)
        BY <2>2, <2>4
      <3>3. job'[f][t].ph \in {"due", "none"}
        BY <1>1, <3>2, Zenon
      <3> QED BY <3>1, <3>3
    <2>5. CASE f # <<k, kind>>
      BY <2>3, <2>5, Zenon
    <2> QED BY <2>4, <2>5
  <1>3. \A f \in Fibers, t \in Durable : Claimed(f, t)' => Claimed(f, t)
    BY <1>2, CronAssumption DEF Claimed, Working
  <1>4. TriggersHoldNothing'
    BY <1>2 DEF ClaimInv, TriggersHoldNothing
  <1> QED BY <1>3, <1>4, NoNewClaims

\* The CAS: it succeeds only on a row that names no kernel, so no other fiber is
\* in the section of a task that was never swept.
LEMMA ClaimAttemptClaims ==
  ASSUME TypeOK, ClaimInv, NEW f \in Fibers, NEW t \in Tasks,
         NEW p \in {"queued", "starting"}, f[2] # "trigger",
         _claim_tasks(f, t, p), UNCHANGED swept
  PROVE  ClaimInv'
  <1>0. p \in Phases /\ NoJob \in JobType /\ NoJob.ph = "none" /\ Durable \subseteq Tasks
    BY EmptyRecords, CronAssumption DEF Phases, NoJob
  <1>1. CASE /\ t \in Durable => claim[t].by = None
             /\ Step(f, t, p) /\ claim' = [claim EXCEPT ![t] = ClaimBy(f[1])]
    <2>1. /\ job'[f][t].ph = p
          /\ \A g \in Fibers, u \in Tasks : g # f \/ u # t => job'[g][u] = job[g][u]
      BY <1>0, <1>1, StepMoves, MovesEffect DEF TypeOK
    <2>2. TriggersHoldNothing'
      BY <2>1 DEF ClaimInv, TriggersHoldNothing
    <2>3. \A g \in Fibers, u \in Durable : g # f \/ u # t => (Claimed(g, u)' <=> Claimed(g, u))
      BY <1>0, <2>1 DEF Claimed
    <2>4. t \in Durable \ swept => \A g \in Fibers : ~Claimed(g, t)
      <3>1. \A g \in Fibers : g[1] # None
        BY FiberFacts, CronAssumption
      <3> QED BY <1>1, <3>1 DEF ClaimInv, ClaimNamesHolder
    <2>5. /\ claim'[t].by = f[1]
          /\ \A u \in Durable : u # t => claim'[u] = claim[u]
      BY <1>0, <1>1 DEF TypeOK, ClaimBy, NoClaim
    <2>6. ClaimNamesHolder'
      BY <2>3, <2>4, <2>5 DEF ClaimInv, ClaimNamesHolder
    <2>7. ExclusiveExecution'
      BY <2>3, <2>4 DEF ClaimInv, ExclusiveExecution
    <2> QED BY <2>2, <2>6, <2>7 DEF ClaimInv
  <1>2. CASE SetJob(f, t, NoJob) /\ UNCHANGED claim
    <2>1. /\ job'[f][t] = NoJob
          /\ \A g \in Fibers, u \in Tasks : g # f \/ u # t => job'[g][u] = job[g][u]
      BY <1>0, <1>2, SetJobEffect DEF TypeOK
    <2>2. \A g \in Fibers, u \in Durable : Claimed(g, u)' => Claimed(g, u)
      BY <1>0, <2>1 DEF Claimed, Working
    <2>3. TriggersHoldNothing'
      BY <1>0, <2>1 DEF ClaimInv, TriggersHoldNothing
    <2> QED BY <1>2, <2>2, <2>3, NoNewClaims
  <1> QED BY <1>1, <1>2 DEF _claim_tasks

\* A step that touches neither the jobs nor the claims keeps ClaimInv.
LEMMA ElsewhereClaims ==
  ASSUME TypeOK, ClaimInv, UNCHANGED <<claim, job, swept>>
  PROVE  ClaimInv'
  BY NoNewClaims DEF Claimed, ClaimInv, TriggersHoldNothing

\* The scheduler loop keeps ClaimInv.
LEMMA LoopStepClaims ==
  ASSUME TypeOK, ClaimInv, NEW k \in Kernels, LoopStep(k)
  PROVE  ClaimInv'
  <1>0. <<k, "loop">> \in Fibers
    BY FiberFacts
  <1>1. CASE LoopCleanup(k)
    BY <1>1, CleanupClaims DEF LoopCleanup
  <1>2. CASE LoopList(k)
    BY <1>2, ListingClaims, Zenon DEF LoopList
  <1>3. CASE LoopSleep(k) \/ LoopWake(k)
    BY <1>3, ElsewhereClaims DEF LoopSleep, LoopWake
  <1>4. ASSUME NEW t \in Tasks, LoopExpire(k, t) PROVE ClaimInv'
    BY <1>4, ElsewhereClaims DEF LoopExpire
  <1>5. ASSUME NEW t \in Tasks, LoopClaim(k, t) PROVE ClaimInv'
    BY <1>0, <1>5, ClaimAttemptClaims DEF LoopClaim
  <1>6. ASSUME NEW t \in Tasks, LoopFire(k, t) PROVE ClaimInv'
    <2>1. /\ job'[<<k, "loop">>][t].ph = "starting"
          /\ \A g \in Fibers, u \in Tasks :
               g # <<k, "loop">> \/ u # t => job'[g][u] = job[g][u]
      BY <1>0, <1>6, StepMoves, MovesEffect DEF LoopFire, TypeOK, Phases
    <2>2. job[<<k, "loop">>][t].ph = "queued" /\ UNCHANGED <<claim, swept>>
      BY <1>6 DEF LoopFire
    <2>3. \A g \in Fibers, u \in Durable : Claimed(g, u)' => Claimed(g, u)
      BY <2>1, <2>2, CronAssumption, ZenonT(30) DEF Claimed
    <2>4. TriggersHoldNothing'
      BY <2>1 DEF ClaimInv, TriggersHoldNothing
    <2> QED BY <2>2, <2>3, <2>4, NoNewClaims
  <1> QED BY <1>1, <1>2, <1>3, <1>4, <1>5, <1>6 DEF LoopStep

\* The startup catch-up keeps ClaimInv.
LEMMA CatchupStepClaims ==
  ASSUME TypeOK, ClaimInv, NEW k \in Kernels, CatchupStep(k)
  PROVE  ClaimInv'
  <1>0. <<k, "catchup">> \in Fibers
    BY FiberFacts
  <1>1. CASE CatchupCleanup(k)
    BY <1>1, CleanupClaims DEF CatchupCleanup
  <1>2. CASE CatchupList(k)
    BY <1>2, ListingClaims, Zenon DEF CatchupList
  <1>3. CASE CatchupDone(k)
    BY <1>3, ElsewhereClaims DEF CatchupDone
  <1>4. ASSUME NEW t \in Tasks, CatchupSkip(k, t) PROVE ClaimInv'
    <2>1. NoJob.ph = "none" /\ NoJob \in JobType
      BY EmptyRecords DEF NoJob
    <2>2. /\ job'[<<k, "catchup">>][t] = NoJob
          /\ \A g \in Fibers, u \in Tasks :
               g # <<k, "catchup">> \/ u # t => job'[g][u] = job[g][u]
      <3>1. job \in [Fibers -> [Tasks -> JobType]]
        BY DEF TypeOK
      <3>2. SetJob(<<k, "catchup">>, t, NoJob)
        BY <1>4, Zenon DEF CatchupSkip
      <3> QED BY <1>0, <2>1, <3>1, <3>2, SetJobEffect
    <2>3. \A g \in Fibers, u \in Durable : Claimed(g, u)' => Claimed(g, u)
      <3>1. \A g \in Fibers, u \in Tasks : job'[g][u].ph \in {"none", job[g][u].ph}
        BY <2>1, <2>2, Zenon
      <3> QED BY <3>1, CronAssumption DEF Claimed, Working
    <2>4. TriggersHoldNothing'
      BY <2>1, <2>2 DEF ClaimInv, TriggersHoldNothing
    <2> QED BY <1>4, <2>3, <2>4, NoNewClaims DEF CatchupSkip
  <1>5. ASSUME NEW t \in Tasks, CatchupClaim(k, t) PROVE ClaimInv'
    BY <1>0, <1>5, ClaimAttemptClaims DEF CatchupClaim
  <1>6. CASE CatchupError(k)
    <2>1. \A f \in Fibers, t \in Tasks :
            job'[f][t].ph = job[f][t].ph \/ job'[f][t].ph = "none"
      BY <1>0, <1>6 DEF CatchupError, TypeOK, NoJob
    <2>2. UNCHANGED <<claim, swept>>
      BY <1>6 DEF CatchupError
    <2>3. \A f \in Fibers, t \in Durable : Claimed(f, t)' => Claimed(f, t)
      BY <2>1, CronAssumption DEF Claimed, Working
    <2>4. TriggersHoldNothing'
      BY <2>1 DEF ClaimInv, TriggersHoldNothing
    <2> QED BY <2>2, <2>3, <2>4, NoNewClaims
  <1> QED BY <1>1, <1>2, <1>3, <1>4, <1>5, <1>6 DEF CatchupStep

\* User operations keep ClaimInv; trigger_now starts a job that holds no claim.
LEMMA UserStepClaims ==
  ASSUME TypeOK, ClaimInv, NEW k \in Kernels, UserStep(k)
  PROVE  ClaimInv'
  <1>1. ASSUME NEW t \in Tasks, TriggerNow(k, t) PROVE ClaimInv'
    <2>1. <<k, "trigger">> \in Fibers /\ "starting" \in Phases
      BY <1>1 DEF TriggerNow, CanAsk, Fibers, Kinds, Phases
    <2>2. /\ job'[<<k, "trigger">>][t].ph = "starting"
          /\ \A g \in Fibers, u \in Tasks :
               g # <<k, "trigger">> \/ u # t => job'[g][u] = job[g][u]
      BY <1>1, <2>1, StepMoves, MovesEffect DEF TriggerNow, TypeOK
    <2>3. \A g \in Fibers, u \in Durable : Claimed(g, u)' => Claimed(g, u)
      BY <2>2, CronAssumption DEF Claimed
    <2>4. TriggersHoldNothing'
      BY <2>2 DEF ClaimInv, TriggersHoldNothing
    <2> QED BY <1>1, <2>3, <2>4, NoNewClaims DEF TriggerNow
  <1>2. CASE UNCHANGED <<claim, job, swept>>
    BY <1>2, ElsewhereClaims
  <1> QED BY <1>1, <1>2
      DEF UserStep, CreateAdd, PauseWrite, ResumeWrite, CreateCheck, PauseCheck,
          ResumeCheck, DeleteTask

\* Time keeps ClaimInv: it moves ages and countdowns, no phase and no holder.
LEMMA TickClaims ==
  ASSUME TypeOK, ClaimInv, Tick
  PROVE  ClaimInv'
  <1>1. \A f \in Fibers, t \in Tasks : job'[f][t].ph = job[f][t].ph
    <2> SUFFICES ASSUME NEW f \in Fibers, NEW t \in Tasks
                 PROVE  job'[f][t].ph = job[f][t].ph
      OBVIOUS
    <2>0. job[f][t] \in JobType
      BY DEF TypeOK
    <2>1. [job[f][t] EXCEPT !.beat = @ + 1].ph = job[f][t].ph
      BY <2>0, JobBeat, Zenon
    <2>2. job' = [g \in Fibers |-> [u \in Tasks |->
                    IF job[g][u].ph = "running"
                    THEN [job[g][u] EXCEPT !.beat = @ + 1] ELSE job[g][u]]]
      BY Zenon DEF Tick
    <2>3. job'[f][t] = IF job[f][t].ph = "running"
                       THEN [job[f][t] EXCEPT !.beat = @ + 1] ELSE job[f][t]
      BY <2>2, Zenon
    <2> QED BY <2>1, <2>3
  <1>2. \A t \in Durable : claim'[t].by = claim[t].by
    <2> SUFFICES ASSUME NEW t \in Durable PROVE claim'[t].by = claim[t].by
      OBVIOUS
    <2>1. t \in Tasks /\ claim[t] \in ClaimType
      BY CronAssumption DEF TypeOK
    <2>2. \/ claim'[t] = claim[t]
          \/ claim'[t] = [claim[t] EXCEPT !.hb = Up(claim[t].hb, StaleThreshold + 1)]
      BY <2>1 DEF Tick
    <2>3. Up(claim[t].hb, StaleThreshold + 1) \in Nat
      BY <2>1, CronAssumption DEF ClaimType, Up, Least
    <2> QED BY <2>1, <2>2, <2>3, ClaimKeeps
  <1>3. \A f \in Fibers, t \in Durable : Claimed(f, t)' => Claimed(f, t)
    BY <1>1, CronAssumption DEF Claimed
  <1>4. TriggersHoldNothing'
    BY <1>1 DEF ClaimInv, TriggersHoldNothing
  <1> QED BY <1>2, <1>3, <1>4, NoNewClaims DEF Tick

\* ClaimInv holds throughout: what the exclusion and the refinement rest on.
LEMMA ClaimInvariant == Spec => []ClaimInv
  <1>1. Init => ClaimInv
    <2> SUFFICES ASSUME Init PROVE ClaimInv
      OBVIOUS
    <2>1. \A f \in Fibers, t \in Tasks : job[f][t].ph = "none"
      BY DEF Init, NoJob
    <2> QED BY <2>1, CronAssumption
        DEF ClaimInv, TriggersHoldNothing, ClaimNamesHolder, ExclusiveExecution, Claimed,
            Working
  <1>2. TypeOK /\ ClaimInv /\ [Next]_vars => ClaimInv'
    <2> SUFFICES ASSUME TypeOK, ClaimInv, [Next]_vars PROVE ClaimInv'
      OBVIOUS
    <2>1. CASE UNCHANGED vars
      BY <2>1, ElsewhereClaims DEF vars
    <2>2. CASE Tick
      BY <2>2, TickClaims
    <2>3. ASSUME NEW k \in Kernels, KernelStep(k) PROVE ClaimInv'
      BY <2>3, LifeStepClaims, LoopStepClaims, CatchupStepClaims, UserStepClaims
      DEF KernelStep
    <2>4. ASSUME NEW f \in Fibers, NEW t \in Tasks, JobStep(f, t) \/ Heartbeat(f, t) \/ HeartbeatFails(f, t)
          PROVE  ClaimInv'
      BY <2>4, JobStepClaims
    <2> QED BY <2>1, <2>2, <2>3, <2>4 DEF Next
  <1> QED BY <1>1, <1>2, TypeCorrect, PTL DEF Spec

\* The claim protocol (_claim_tasks, _release_task, _cleanup_stale_claims) never
\* lets two fibers hold a task whose claim no cleanup has cleared, for any number
\* of kernels and tasks, with crashes, stops, loop errors and user operations.
THEOREM Exclusive == Spec => []ExclusiveExecution
  <1>1. ClaimInv => ExclusiveExecution
    BY DEF ClaimInv
  <1> QED BY <1>1, ClaimInvariant, PTL
=============================================================================
