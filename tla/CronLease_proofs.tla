-------------------------- MODULE CronLease_proofs --------------------------
(***************************************************************************)
(* The claim protocol of CronScheduler implements TaskLease, for any       *)
(* kernels, tasks and timings.  One lemma per kind of abstract step; each  *)
(* concrete action is then an instance of one of them.  After that, a      *)
(* claim that is refreshed never goes stale under its holder.              *)
(***************************************************************************)
EXTENDS CronScheduler_proofs

\* A step that moves no running_by, no swept and no fiber across the borders of
\* the section between claim and release leaves the lease alone.
LEMMA LeaseStays ==
  ASSUME swept' = swept,
         \A t \in Durable : claim'[t].by = claim[t].by,
         \A f \in Fibers, t \in Durable : Claimed(f, t)' <=> Claimed(f, t)
  PROVE  UNCHANGED Lease!vars
  <1>1. [t \in Durable |-> claim[t].by]' = [t \in Durable |-> claim[t].by]
    OBVIOUS
  <1>2. [t \in Durable |-> {f \in Fibers : Claimed(f, t)}]'
          = [t \in Durable |-> {f \in Fibers : Claimed(f, t)}]
    <2>1. \A t \in Durable :
            {f \in Fibers : Claimed(f, t)'} = {f \in Fibers : Claimed(f, t)}
      OBVIOUS
    <2> QED BY <2>1, Zenon
  <1> QED BY <1>1, <1>2 DEF Lease!vars

\* A step in which fibers of one kernel leave the section without a release (a
\* crash, a stop, a loop error) abandons their leases.
LEMMA LeaseAbandoned ==
  ASSUME NEW k \in Kernels, swept' = swept,
         \A t \in Durable : claim'[t].by = claim[t].by,
         \A f \in Fibers, t \in Durable : Claimed(f, t)' => Claimed(f, t),
         \A f \in Fibers, t \in Durable : Claimed(f, t) /\ ~Claimed(f, t)' => f[1] = k
  PROVE  Lease!Next
  <1> DEFINE W == [t \in Durable |-> {f \in Fibers : Claimed(f, t)}]
             own == [f \in Fibers |-> f[1]]
  <1>0. <<k, "loop">> \in Fibers /\ own[<<k, "loop">>] = k
    BY FiberFacts
  <1>1. [t \in Durable |-> claim[t].by]' = [t \in Durable |-> claim[t].by]
    OBVIOUS
  <1>2. W' = [t \in Durable |-> {f \in Fibers : Claimed(f, t)'}]
    OBVIOUS
  <1>3. /\ \A t \in Durable : \A w \in Fibers : w \in W'[t] => w \in W[t]
        /\ \A t \in Durable : \A w \in W[t] \ W'[t] : own[w] = k
        /\ W' \in [Durable -> SUBSET Fibers]
    BY <1>2
  <1>4. Lease!Abandon(k)
    BY <1>1, <1>3 DEF Lease!Abandon
  <1> QED BY <1>0, <1>4, Zenon DEF Lease!Next

\* The CAS of _claim_tasks on a durable task is the taking of a free lease.
LEMMA LeaseAcquired ==
  ASSUME NEW f \in Fibers, NEW t \in Durable, swept' = swept,
         claim[t].by = None, claim'[t].by = f[1],
         \A u \in Durable : u # t => claim'[u].by = claim[u].by,
         Claimed(f, t)',
         \A g \in Fibers, u \in Durable :
           g # f \/ u # t => (Claimed(g, u)' <=> Claimed(g, u))
  PROVE  Lease!Next
  <1> DEFINE H == [u \in Durable |-> claim[u].by]
             W == [u \in Durable |-> {g \in Fibers : Claimed(g, u)}]
             own == [g \in Fibers |-> g[1]]
  <1>1. H[t] = None /\ H' = [H EXCEPT ![t] = own[f]]
    <2>1. H' = [u \in Durable |-> claim'[u].by]
      OBVIOUS
    <2> QED BY <2>1
  <1>2. W' = [W EXCEPT ![t] = @ \cup {f}]
    <2>1. W' = [u \in Durable |-> {g \in Fibers : Claimed(g, u)'}]
      OBVIOUS
    <2>2. \A u \in Durable : {g \in Fibers : Claimed(g, u)'}
                               = IF u = t THEN W[u] \cup {f} ELSE W[u]
      OBVIOUS
    <2> QED BY <2>1, <2>2
  <1>3. Lease!Acquire(f, t)
    BY <1>1, <1>2 DEF Lease!Acquire
  <1> QED BY <1>3, Zenon DEF Lease!Next

\* _release_task on a durable task is the end of a worker, and of the lease if the
\* row still names the worker's kernel.
LEMMA LeaseFinished ==
  ASSUME NEW f \in Fibers, NEW t \in Durable, swept' = swept,
         claim'[t].by = (IF claim[t].by = f[1] THEN None ELSE claim[t].by),
         \A u \in Durable : u # t => claim'[u].by = claim[u].by,
         Claimed(f, t), ~Claimed(f, t)',
         \A g \in Fibers, u \in Durable :
           g # f \/ u # t => (Claimed(g, u)' <=> Claimed(g, u))
  PROVE  Lease!Next
  <1> DEFINE H == [u \in Durable |-> claim[u].by]
             W == [u \in Durable |-> {g \in Fibers : Claimed(g, u)}]
             own == [g \in Fibers |-> g[1]]
  <1>1. H' = [H EXCEPT ![t] = IF @ = own[f] THEN None ELSE @]
    <2>1. H' = [u \in Durable |-> claim'[u].by]
      OBVIOUS
    <2> QED BY <2>1
  <1>2. f \in W[t] /\ W' = [W EXCEPT ![t] = @ \ {f}]
    <2>1. W' = [u \in Durable |-> {g \in Fibers : Claimed(g, u)'}]
      OBVIOUS
    <2>2. \A u \in Durable : {g \in Fibers : Claimed(g, u)'}
                               = IF u = t THEN W[u] \ {f} ELSE W[u]
      OBVIOUS
    <2> QED BY <2>1, <2>2
  <1>3. Lease!Finish(f, t)
    BY <1>1, <1>2 DEF Lease!Finish
  <1> QED BY <1>3, Zenon DEF Lease!Next

\* The UPDATE of _cleanup_stale_claims is a lapse of the stale leases.
LEMMA LeaseLapsed ==
  ASSUME TypeOK, _cleanup_stale_claims, UNCHANGED job
  PROVE  Lease!Next
  <1> DEFINE H == [u \in Durable |-> claim[u].by]
             W == [u \in Durable |-> {g \in Fibers : Claimed(g, u)}]
  <1>0. PICK S \in SUBSET Durable : S = {t \in Durable : Stale(claim[t])}
    OBVIOUS
  <1>1. \A t \in S : H[t] # None
    BY <1>0 DEF Stale
  <1>2. H' = [t \in Durable |-> IF t \in S THEN None ELSE H[t]]
    <2>1. H' = [t \in Durable |-> claim'[t].by]
      OBVIOUS
    <2>2. \A t \in Durable : claim'[t].by = IF t \in S THEN None ELSE H[t]
      BY <1>0, CronAssumption DEF _cleanup_stale_claims, NoClaim
    <2> QED BY <2>1, <2>2
  <1>3. swept' = swept \cup S
    BY <1>0 DEF _cleanup_stale_claims
  <1>4. W' = W
    <2>1. W' = [u \in Durable |-> {g \in Fibers : Claimed(g, u)'}]
      OBVIOUS
    <2>2. \A u \in Durable, g \in Fibers : Claimed(g, u)' <=> Claimed(g, u)
      BY DEF Claimed
    <2> QED BY <2>1, <2>2
  <1>5. Lease!Lapse(S)
    BY <1>1, <1>2, <1>3, <1>4 DEF Lease!Lapse
  <1> QED BY <1>5, Zenon DEF Lease!Next

(***************************************************************************)
(* The actions.                                                            *)
(***************************************************************************)

\* What a step of the cron subsystem is to the lease.
LeaseStep == Lease!Next \/ UNCHANGED Lease!vars

\* What a job action does to the section between claim and release: it touches one
\* job that is under way, crosses the border only by its release, and changes
\* running_by only there, when the release gets through.
LEMMA JobStepEffect ==
  ASSUME TypeOK, ClaimInv, NEW f \in Fibers, NEW t \in Tasks,
         JobStep(f, t) \/ Heartbeat(f, t) \/ HeartbeatFails(f, t)
  PROVE  /\ UNCHANGED <<mode, loop, catchup, swept>>
         /\ job[f][t].ph # "none" /\ job'[f][t].ph # "due"
         /\ \A g \in Fibers, u \in Tasks : g # f \/ u # t => job'[g][u] = job[g][u]
         /\ \A g \in Fibers, u \in Tasks :
              g # f \/ u # t => (Claimed(g, u)' <=> Claimed(g, u))
         /\ \A u \in Tasks : u # t => claim'[u].by = claim[u].by
         /\ ~_release_task(f, t) => claim'[t].by = claim[t].by
         /\ ~_release_task(f, t) /\ ~ReleaseFails(f, t) =>
              (Claimed(f, t)' <=> Claimed(f, t))
         /\ ReleaseFails(f, t) => Claimed(f, t) /\ ~Claimed(f, t)'
         /\ _release_task(f, t) =>
              /\ Claimed(f, t) /\ ~Claimed(f, t)'
              /\ claim'[t].by = IF t \in Durable /\ claim[t].by = f[1]
                                THEN None ELSE claim[t].by
  <1>1. \A g \in Fibers, u \in Tasks : g # f \/ u # t => job'[g][u] = job[g][u]
    <2>1. \E p : Moves(f, t, p)
      BY JobMoves, Zenon DEF JobStep, JobLeaves
    <2>2. job \in [Fibers -> [Tasks -> JobType]]
      BY DEF TypeOK
    <2> QED BY <2>1, <2>2, MovesEffect, Zenon
  <1>2. \A g \in Fibers, u \in Tasks :
          g # f \/ u # t => (Claimed(g, u)' <=> Claimed(g, u))
    BY <1>1 DEF Claimed
  <1>3. UNCHANGED <<mode, loop, catchup, swept>> /\ job[f][t].ph # "none"
    BY DEF JobStep, BeginTurn, SessionFails, Heartbeat, EndTurn, TriggerEnds, RecordFired,
        RecordCompleted, RecordFails, HeartbeatFails, HandleFailure, HandleFails, Failing,
        FailureAlert, _release_task, ReleaseFails
  <1>4. ASSUME _release_task(f, t) \/ ReleaseFails(f, t)
        PROVE  Claimed(f, t) /\ ~Claimed(f, t)'
    <2>1. job'[f][t].ph \in {"none", "raised"}
      BY <1>4, JobMoves, MovesEffect DEF JobLeaves, TypeOK
    <2>2. ~Claimed(f, t)'
      BY <2>1 DEF Claimed, Working
    <2>3. JobStep(f, t) /\ job[f][t].ph = "release"
      BY <1>4 DEF JobStep, _release_task, ReleaseFails
    <2>4. Claimed(f, t)
      BY <2>3, JobStepFrom DEF ClaimInv, TriggersHoldNothing
    <2> QED BY <2>2, <2>4
  <1>5. ASSUME _release_task(f, t)
        PROVE  /\ claim'[t].by = IF t \in Durable /\ claim[t].by = f[1]
                                 THEN None ELSE claim[t].by
               /\ \A u \in Tasks : u # t => claim'[u].by = claim[u].by
    <2>1. \A u \in Tasks : u # t => claim'[u].by = claim[u].by
      BY <1>5 DEF _release_task, TypeOK
    <2>2. claim'[t].by = IF t \in Durable /\ claim[t].by = f[1]
                         THEN None ELSE claim[t].by
      BY <1>5 DEF _release_task, TypeOK, NoClaim
    <2> QED BY <2>1, <2>2
  <1>7. ASSUME ~_release_task(f, t)
        PROVE  \A u \in Tasks : claim'[u].by = claim[u].by
    <2>1. CASE Heartbeat(f, t) \/ ReleaseFails(f, t)
      BY <2>1, HoldersStay
    <2>2. CASE UNCHANGED claim
      BY <2>2
    <2> QED BY <1>7, <2>1, <2>2
        DEF JobStep, BeginTurn, SessionFails, EndTurn, TriggerEnds, RecordFired,
            RecordCompleted, RecordFails, HeartbeatFails, HandleFailure, HandleFails,
            FailureAlert
  <1>8. ASSUME ~_release_task(f, t), ~ReleaseFails(f, t)
        PROVE  Claimed(f, t)' <=> Claimed(f, t)
    <2>1. f[2] # "trigger" => Claimed(f, t) /\ Claimed(f, t)'
      <3>1. SUFFICES ASSUME f[2] # "trigger" PROVE Claimed(f, t) /\ Claimed(f, t)'
        OBVIOUS
      <3>2. Claimed(f, t)
        BY <3>1, JobStepFrom
      <3>3. ~TriggerEnds(f, t)
        BY <3>1 DEF TriggerEnds
      <3>4. job'[f][t].ph \in {"running", "mute", "ended", "failed", "complete", "alert",
                               "release"}
        BY <1>8, <3>3, JobMoves, MovesEffect DEF JobStep, TypeOK
      <3> QED BY <3>1, <3>2, <3>4 DEF Claimed, Working, Phases
    <2>2. f[2] = "trigger" => ~Claimed(f, t) /\ ~Claimed(f, t)'
      BY DEF Claimed
    <2> QED BY <2>1, <2>2
  <1>6. job'[f][t].ph # "due"
    <2>1. \E p \in Phases \ {"due"} : Moves(f, t, p)
      BY JobMoves DEF JobStep, JobLeaves, Phases
    <2>2. job \in [Fibers -> [Tasks -> JobType]]
      BY DEF TypeOK
    <2> QED BY <2>1, <2>2, MovesEffect
  <1> QED BY <1>1, <1>2, <1>3, <1>4, <1>5, <1>6, <1>7, <1>8

\* A job's step between claim and release is invisible; its release ends a worker,
\* and a release that fails is a worker's leaving.
LEMMA JobStepLeases ==
  ASSUME TypeOK, ClaimInv, NEW f \in Fibers, NEW t \in Tasks,
         JobStep(f, t) \/ Heartbeat(f, t) \/ HeartbeatFails(f, t)
  PROVE  LeaseStep
  <1>1. /\ Durable \subseteq Tasks /\ swept' = swept
        /\ \A g \in Fibers, u \in Durable :
             g # f \/ u # t => (Claimed(g, u)' <=> Claimed(g, u))
        /\ \A u \in Durable : u # t => claim'[u].by = claim[u].by
    BY CronAssumption, JobStepEffect
  <1>2. CASE _release_task(f, t) /\ t \in Durable
    <2>1. Claimed(f, t) /\ ~Claimed(f, t)'
      BY <1>2, JobStepEffect
    <2>2. claim'[t].by = IF claim[t].by = f[1] THEN None ELSE claim[t].by
      BY <1>2, JobStepEffect
    <2> QED BY <1>1, <1>2, <2>1, <2>2, LeaseFinished DEF LeaseStep
  <1>3. CASE _release_task(f, t) /\ t \notin Durable
    BY <1>1, <1>3, LeaseStays DEF LeaseStep
  <1>4. CASE ~_release_task(f, t) /\ ~ReleaseFails(f, t)
    <2>1. claim'[t].by = claim[t].by /\ (Claimed(f, t)' <=> Claimed(f, t))
      BY <1>4, JobStepEffect
    <2> QED BY <1>1, <2>1, LeaseStays DEF LeaseStep
  <1>5. CASE ~_release_task(f, t) /\ ReleaseFails(f, t)
    <2>1. claim'[t].by = claim[t].by /\ ~Claimed(f, t)'
      BY <1>5, JobStepEffect
    <2>2. f[1] \in Kernels
      BY FiberFacts
    <2>3. \A u \in Durable : claim'[u].by = claim[u].by
      BY <1>1, <2>1
    <2>4. \A g \in Fibers, u \in Durable :
            /\ Claimed(g, u)' => Claimed(g, u)
            /\ Claimed(g, u) /\ ~Claimed(g, u)' => g[1] = f[1]
      BY <1>1, <2>1
    <2> QED BY <1>1, <2>2, <2>3, <2>4, LeaseAbandoned DEF LeaseStep
  <1> QED BY <1>2, <1>3, <1>4, <1>5

\* Starting a process is invisible; losing one, or its loop, abandons its leases.
LEMMA LifeStepLeases ==
  ASSUME TypeOK, NEW k \in Kernels,
         Startup(k) \/ Crash(k) \/ Stop(k) \/ Shutdown(k) \/ LoopError(k)
  PROVE  LeaseStep
  <1>0. /\ <<k, "loop">> \in Fibers /\ <<k, "loop">>[1] = k
        /\ NoJob.ph = "none" /\ Durable \subseteq Tasks
    BY FiberFacts, CronAssumption DEF NoJob
  <1>1. CASE Startup(k)
    BY <1>1, LeaseStays DEF Startup, Claimed, LeaseStep
  <1>2. CASE Gone(k)
    <2>1. \A f \in Fibers, t \in Tasks :
            job'[f][t].ph = job[f][t].ph \/ (job'[f][t].ph = "none" /\ f[1] = k)
      <3>1. \A f \in Fibers : f[1] # k => job'[f] = job[f]
        BY <1>2 DEF Gone
      <3>2. \A f \in Fibers, t \in Tasks : f[1] = k => job'[f][t].ph = "none"
        BY <1>0, <1>2 DEF Gone
      <3> QED BY <3>1, <3>2
    <2>2. swept' = swept /\ \A t \in Durable : claim'[t].by = claim[t].by
      BY <1>0, <1>2 DEF Gone
    <2>3. \A f \in Fibers, t \in Durable :
            Claimed(f, t)' # Claimed(f, t) => Claimed(f, t) /\ f[1] = k
      BY <1>0, <2>1 DEF Claimed, Working
    <2> QED BY <2>2, <2>3, LeaseAbandoned DEF LeaseStep
  <1>3. CASE Stop(k)
    <2>1. [NoJob EXCEPT !.ph = "release"].ph = "release"
      BY DEF NoJob
    <2>2. \A f \in Fibers, t \in Tasks :
            \/ job'[f][t].ph = job[f][t].ph
            \/ f = <<k, "loop">> /\ job'[f][t].ph = "none"
            \/ f = <<k, "loop">> /\ job[f][t].ph \in Working /\ job'[f][t].ph = "release"
      BY <1>0, <1>3, <2>1 DEF Stop, TypeOK
    <2>3. \A f \in Fibers, t \in Durable :
            Claimed(f, t)' # Claimed(f, t) => Claimed(f, t) /\ f[1] = k
      BY <1>0, <2>2 DEF Claimed, Working, Phases
    <2> QED BY <1>3, <2>3, LeaseAbandoned DEF LeaseStep, Stop
  <1>4. CASE LoopError(k)
    <2>1. \A f \in Fibers, t \in Tasks :
            job'[f][t].ph = job[f][t].ph \/ (job'[f][t].ph = "none" /\ f[1] = k)
      <3>1. \A f \in Fibers : f # <<k, "loop">> => job'[f] = job[f]
        BY <1>0, <1>4 DEF LoopError, TypeOK
      <3>2. \A t \in Tasks : job'[<<k, "loop">>][t].ph = "none"
        BY <1>0, <1>4 DEF LoopError, TypeOK
      <3> QED BY <1>0, <3>1, <3>2
    <2>2. \A f \in Fibers, t \in Durable :
            Claimed(f, t)' # Claimed(f, t) => Claimed(f, t) /\ f[1] = k
      BY <1>0, <2>1 DEF Claimed, Working
    <2> QED BY <1>4, <2>2, LeaseAbandoned DEF LeaseStep, LoopError
  <1> QED BY <1>1, <1>2, <1>3, <1>4 DEF Crash, Shutdown

\* Listing gives a fiber due jobs in place of what it had.
LEMMA ListingLeases ==
  ASSUME TypeOK, NEW k \in Kernels, NEW kind \in {"loop", "catchup"}, NEW due,
         job' = [job EXCEPT ![<<k, kind>>] = Listed(due)], UNCHANGED <<claim, swept>>
  PROVE  LeaseStep
  <1>0. <<k, kind>> \in Fibers /\ <<k, kind>>[1] = k
    BY FiberFacts
  <1>1. \A t \in Tasks : Listed(due)[t].ph \in {"due", "none"}
    BY DEF Listed, NoJob
  <1>2. \A t \in Tasks : job'[<<k, kind>>][t].ph \in {"due", "none"}
    <2>1. job'[<<k, kind>>] = Listed(due)
      BY <1>0 DEF TypeOK
    <2> QED BY <1>1, <2>1, Zenon
  <1>3. \A f \in Fibers : f # <<k, kind>> => job'[f] = job[f]
    BY <1>0 DEF TypeOK
  <1>4. \A t \in Durable : ~Claimed(<<k, kind>>, t)'
    BY <1>2, CronAssumption DEF Claimed, Working
  <1>5. \A f \in Fibers, t \in Durable :
          f # <<k, kind>> => (Claimed(f, t)' <=> Claimed(f, t))
    BY <1>3 DEF Claimed
  <1>6. \A f \in Fibers, t \in Durable :
          /\ Claimed(f, t)' => Claimed(f, t)
          /\ Claimed(f, t) /\ ~Claimed(f, t)' => f[1] = k
    BY <1>0, <1>4, <1>5
  <1> QED BY <1>6, LeaseAbandoned DEF LeaseStep

\* An attempt at a claim takes a free lease or leaves the lease alone; memory
\* tasks are outside it.
LEMMA ClaimAttemptLeases ==
  ASSUME TypeOK, NEW f \in Fibers, NEW t \in Tasks, NEW p \in {"queued", "starting"},
         f[2] # "trigger", job[f][t].ph = "due",
         _claim_tasks(f, t, p), UNCHANGED swept
  PROVE  LeaseStep
  <1>0. p \in Phases /\ NoJob \in JobType /\ NoJob.ph = "none" /\ Durable \subseteq Tasks
    BY EmptyRecords, CronAssumption DEF Phases, NoJob
  <1>1. ~Claimed(f, t)
    BY DEF Claimed, Working
  <1>2. CASE /\ t \in Durable => claim[t].by = None
             /\ Step(f, t, p) /\ claim' = [claim EXCEPT ![t] = ClaimBy(f[1])]
    <2>1. /\ job'[f][t].ph = p
          /\ \A g \in Fibers, u \in Tasks : g # f \/ u # t => job'[g][u] = job[g][u]
      BY <1>0, <1>2, StepMoves, MovesEffect DEF TypeOK
    <2>2. Claimed(f, t)'
      BY <2>1 DEF Claimed, Working, Phases
    <2>3. \A g \in Fibers, u \in Durable :
            g # f \/ u # t => (Claimed(g, u)' <=> Claimed(g, u))
      BY <1>0, <2>1 DEF Claimed
    <2>4. /\ claim'[t].by = f[1]
          /\ \A u \in Durable : u # t => claim'[u].by = claim[u].by
      BY <1>0, <1>2 DEF TypeOK, ClaimBy, NoClaim
    <2>5. CASE t \in Durable
      BY <1>2, <2>2, <2>3, <2>4, <2>5, LeaseAcquired DEF LeaseStep
    <2>6. CASE t \notin Durable
      BY <2>3, <2>4, <2>6, LeaseStays DEF LeaseStep
    <2> QED BY <2>5, <2>6
  <1>3. CASE SetJob(f, t, NoJob) /\ UNCHANGED claim
    <2>1. /\ job'[f][t] = NoJob
          /\ \A g \in Fibers, u \in Tasks : g # f \/ u # t => job'[g][u] = job[g][u]
      BY <1>0, <1>3, SetJobEffect DEF TypeOK
    <2>2. ~Claimed(f, t)'
      BY <1>0, <2>1 DEF Claimed, Working
    <2>3. \A g \in Fibers, u \in Durable : Claimed(g, u)' <=> Claimed(g, u)
      BY <1>0, <1>1, <2>1, <2>2 DEF Claimed
    <2> QED BY <1>3, <2>3, LeaseStays DEF LeaseStep
  <1> QED BY <1>2, <1>3 DEF _claim_tasks

\* A step that touches neither the jobs nor the claims.
LEMMA ElsewhereLeases ==
  ASSUME UNCHANGED <<claim, job, swept>>
  PROVE  LeaseStep
  BY LeaseStays DEF Claimed, LeaseStep

\* The scheduler loop: its cleanup lapses, its CAS acquires.
LEMMA LoopStepLeases ==
  ASSUME TypeOK, NEW k \in Kernels, LoopStep(k)
  PROVE  LeaseStep
  <1>0. <<k, "loop">> \in Fibers
    BY FiberFacts
  <1>1. CASE LoopCleanup(k)
    BY <1>1, LeaseLapsed DEF LoopCleanup, LeaseStep
  <1>2. CASE LoopList(k)
    BY <1>2, ListingLeases, Zenon DEF LoopList
  <1>3. CASE LoopSleep(k) \/ LoopWake(k)
    BY <1>3, ElsewhereLeases DEF LoopSleep, LoopWake
  <1>4. ASSUME NEW t \in Tasks, LoopExpire(k, t) PROVE LeaseStep
    BY <1>4, ElsewhereLeases DEF LoopExpire
  <1>5. ASSUME NEW t \in Tasks, LoopClaim(k, t) PROVE LeaseStep
    BY <1>0, <1>5, ClaimAttemptLeases DEF LoopClaim
  <1>6. ASSUME NEW t \in Tasks, LoopFire(k, t) PROVE LeaseStep
    <2>1. /\ job'[<<k, "loop">>][t].ph = "starting"
          /\ \A g \in Fibers, u \in Tasks :
               g # <<k, "loop">> \/ u # t => job'[g][u] = job[g][u]
      BY <1>0, <1>6, StepMoves, MovesEffect DEF LoopFire, TypeOK, Phases
    <2>2. job[<<k, "loop">>][t].ph = "queued" /\ UNCHANGED <<claim, swept>>
      BY <1>6 DEF LoopFire
    <2>3. \A g \in Fibers, u \in Durable : Claimed(g, u)' <=> Claimed(g, u)
      <3>1. \A g \in Fibers, u \in Durable : g # <<k, "loop">> \/ u # t
              => (Claimed(g, u)' <=> Claimed(g, u))
        BY <2>1, CronAssumption DEF Claimed
      <3>2. Claimed(<<k, "loop">>, t)' /\ Claimed(<<k, "loop">>, t)
        BY <2>1, <2>2 DEF Claimed, Working, Phases
      <3> QED BY <3>1, <3>2
    <2> QED BY <2>2, <2>3, LeaseStays DEF LeaseStep
  <1> QED BY <1>1, <1>2, <1>3, <1>4, <1>5, <1>6 DEF LoopStep

\* The startup catch-up: the same cleanup and the same CAS.
LEMMA CatchupStepLeases ==
  ASSUME TypeOK, NEW k \in Kernels, CatchupStep(k)
  PROVE  LeaseStep
  <1>0. <<k, "catchup">> \in Fibers
    BY FiberFacts
  <1>1. CASE CatchupCleanup(k)
    BY <1>1, LeaseLapsed DEF CatchupCleanup, LeaseStep
  <1>2. CASE CatchupList(k)
    BY <1>2, ListingLeases, Zenon DEF CatchupList
  <1>3. CASE CatchupDone(k)
    BY <1>3, ElsewhereLeases DEF CatchupDone
  <1>4. ASSUME NEW t \in Tasks, CatchupSkip(k, t) PROVE LeaseStep
    <2>1. NoJob.ph = "none" /\ NoJob \in JobType
      BY EmptyRecords DEF NoJob
    <2>2. job \in [Fibers -> [Tasks -> JobType]]
      BY DEF TypeOK
    <2>3. SetJob(<<k, "catchup">>, t, NoJob)
      BY <1>4, Zenon DEF CatchupSkip
    <2>4. /\ job'[<<k, "catchup">>][t] = NoJob
          /\ \A g \in Fibers, u \in Tasks :
               g # <<k, "catchup">> \/ u # t => job'[g][u] = job[g][u]
      BY <1>0, <2>1, <2>2, <2>3, SetJobEffect
    <2>5. job[<<k, "catchup">>][t].ph = "due" /\ UNCHANGED <<claim, swept>>
      BY <1>4 DEF CatchupSkip, CatchupTurn
    <2>6. \A g \in Fibers, u \in Durable : Claimed(g, u)' <=> Claimed(g, u)
      <3>1. \A g \in Fibers, u \in Durable : g # <<k, "catchup">> \/ u # t
              => (Claimed(g, u)' <=> Claimed(g, u))
        BY <2>4, CronAssumption DEF Claimed
      <3>2. ~Claimed(<<k, "catchup">>, t)' /\ ~Claimed(<<k, "catchup">>, t)
        BY <2>1, <2>4, <2>5 DEF Claimed, Working
      <3> QED BY <3>1, <3>2
    <2> QED BY <2>5, <2>6, LeaseStays DEF LeaseStep
  <1>5. ASSUME NEW t \in Tasks, CatchupClaim(k, t) PROVE LeaseStep
    BY <1>0, <1>5, ClaimAttemptLeases DEF CatchupClaim, CatchupTurn
  <1>6. CASE CatchupError(k)
    <2>1. NoJob.ph = "none" /\ UNCHANGED <<claim, swept>>
      BY <1>6 DEF CatchupError, NoJob
    <2>2. \A f \in Fibers : f # <<k, "catchup">> => job'[f] = job[f]
      BY <1>0, <1>6 DEF CatchupError, TypeOK
    <2>3. \A t \in Tasks : job'[<<k, "catchup">>][t] = NoJob
      BY <1>0, <1>6 DEF CatchupError, TypeOK
    <2>4. \A f \in Fibers, t \in Durable :
            /\ Claimed(f, t)' => Claimed(f, t)
            /\ Claimed(f, t) /\ ~Claimed(f, t)' => f[1] = k
      <3> SUFFICES ASSUME NEW f \in Fibers, NEW t \in Durable
                   PROVE  /\ Claimed(f, t)' => Claimed(f, t)
                          /\ Claimed(f, t) /\ ~Claimed(f, t)' => f[1] = k
        OBVIOUS
      <3>1. CASE f = <<k, "catchup">>
        BY <2>1, <2>3, <3>1, CronAssumption DEF Claimed, Working
      <3>2. CASE f # <<k, "catchup">>
        BY <2>2, <3>2 DEF Claimed
      <3> QED BY <3>1, <3>2
    <2> QED BY <2>1, <2>4, LeaseAbandoned DEF LeaseStep
  <1> QED BY <1>1, <1>2, <1>3, <1>4, <1>5, <1>6 DEF CatchupStep

\* User operations are invisible: trigger_now runs without a lease.
LEMMA UserStepLeases ==
  ASSUME TypeOK, NEW k \in Kernels, UserStep(k)
  PROVE  LeaseStep
  <1>1. ASSUME NEW t \in Tasks, TriggerNow(k, t) PROVE LeaseStep
    <2>1. <<k, "trigger">> \in Fibers /\ "starting" \in Phases
      BY <1>1 DEF TriggerNow, CanAsk, Fibers, Kinds, Phases
    <2>2. \A g \in Fibers, u \in Tasks :
            g # <<k, "trigger">> \/ u # t => job'[g][u] = job[g][u]
      BY <1>1, <2>1, StepMoves, MovesEffect DEF TriggerNow, TypeOK
    <2>3. \A g \in Fibers, u \in Durable : Claimed(g, u)' <=> Claimed(g, u)
      BY <2>2, CronAssumption DEF Claimed
    <2> QED BY <1>1, <2>3, LeaseStays DEF TriggerNow, LeaseStep
  <1>2. CASE UNCHANGED <<claim, job, swept>>
    BY <1>2, ElsewhereLeases
  <1> QED BY <1>1, <1>2
      DEF UserStep, CreateAdd, PauseWrite, ResumeWrite, CreateCheck, PauseCheck,
          ResumeCheck, DeleteTask

\* Time moves no phase, no program counter and no holder.
LEMMA TickEffect ==
  ASSUME TypeOK, Tick
  PROVE  /\ \A f \in Fibers, t \in Tasks : job'[f][t].ph = job[f][t].ph
         /\ \A t \in Tasks : claim'[t].by = claim[t].by /\ claim'[t].leaked = claim[t].leaked
         /\ \A k \in Kernels : loop'[k].pc = loop[k].pc
         /\ UNCHANGED <<mode, catchup, op, swept>>
  <1>1. ASSUME NEW f \in Fibers, NEW t \in Tasks PROVE job'[f][t].ph = job[f][t].ph
    <2>1. [job[f][t] EXCEPT !.beat = @ + 1].ph = job[f][t].ph
      <3>1. job[f][t] \in JobType
        BY DEF TypeOK
      <3> QED BY <3>1, JobBeat, Zenon
    <2>2. job' = [g \in Fibers |-> [u \in Tasks |->
                    IF job[g][u].ph = "running"
                    THEN [job[g][u] EXCEPT !.beat = @ + 1] ELSE job[g][u]]]
      BY Zenon DEF Tick
    <2>3. job'[f][t] = IF job[f][t].ph = "running"
                       THEN [job[f][t] EXCEPT !.beat = @ + 1] ELSE job[f][t]
      BY <2>2, Zenon
    <2> QED BY <2>1, <2>3
  <1>2. \A t \in Tasks : claim'[t].by = claim[t].by /\ claim'[t].leaked = claim[t].leaked
    <2> SUFFICES ASSUME NEW t \in Tasks
                 PROVE  claim'[t].by = claim[t].by /\ claim'[t].leaked = claim[t].leaked
      OBVIOUS
    <2>1. claim[t] \in ClaimType
      BY DEF TypeOK
    <2>2. \/ claim'[t] = claim[t]
          \/ claim'[t] = [claim[t] EXCEPT !.hb = Up(claim[t].hb, StaleThreshold + 1)]
      BY DEF Tick
    <2>3. Up(claim[t].hb, StaleThreshold + 1) \in Nat
      BY <2>1, CronAssumption DEF ClaimType, Up, Least
    <2> QED BY <2>1, <2>2, <2>3, ClaimKeeps, ZenonT(30)
  <1>3. \A k \in Kernels : loop'[k].pc = loop[k].pc
    BY DEF Tick, TypeOK, LoopType
  <1> QED BY <1>1, <1>2, <1>3 DEF Tick

\* Time is invisible.
LEMMA TickLeases ==
  ASSUME TypeOK, Tick
  PROVE  LeaseStep
  <1>1. \A f \in Fibers, t \in Durable : Claimed(f, t)' <=> Claimed(f, t)
    BY TickEffect, CronAssumption DEF Claimed
  <1> QED BY <1>1, TickEffect, LeaseStays, CronAssumption DEF LeaseStep

\* The cron table's claim columns keep the promise of a lease whatever the number
\* of kernels and tasks: _claim_tasks takes only free tasks, _release_task frees
\* only its own kernel's, _cleanup_stale_claims is the only other way a claim
\* ends, and crashes, stops and loop errors merely abandon work.
THEOREM LeaseRefined == Spec => ImplementsLease
  <1>1. Init => Lease!Init
    <2> SUFFICES ASSUME Init PROVE Lease!Init
      OBVIOUS
    <2>1. \A t \in Durable : claim[t].by = None
      BY CronAssumption DEF Init, NoClaim
    <2>2. \A f \in Fibers, t \in Durable : ~Claimed(f, t)
      BY CronAssumption DEF Init, NoJob, Claimed, Working
    <2> QED BY <2>1, <2>2 DEF Lease!Init, Init
  <1>2. TypeOK /\ ClaimInv /\ [Next]_vars => [Lease!Next]_(Lease!vars)
    <2> SUFFICES ASSUME TypeOK, ClaimInv, [Next]_vars PROVE LeaseStep
      BY DEF LeaseStep
    <2>1. CASE UNCHANGED vars
      BY <2>1, ElsewhereLeases DEF vars
    <2>2. CASE Tick
      BY <2>2, TickLeases
    <2>3. ASSUME NEW k \in Kernels, KernelStep(k) PROVE LeaseStep
      BY <2>3, LifeStepLeases, LoopStepLeases, CatchupStepLeases, UserStepLeases
      DEF KernelStep
    <2>4. ASSUME NEW f \in Fibers, NEW t \in Tasks, JobStep(f, t) \/ Heartbeat(f, t) \/ HeartbeatFails(f, t)
          PROVE  LeaseStep
      BY <2>4, JobStepLeases
    <2> QED BY <2>1, <2>2, <2>3, <2>4 DEF Next
  <1> QED BY <1>1, <1>2, TypeCorrect, ClaimInvariant, PTL
      DEF Spec, ImplementsLease, Lease!Spec

(***************************************************************************)
(* A claim whose heartbeat is being refreshed never goes stale.  The age   *)
(* of the claim's heartbeat is bounded by the time since the fiber's own   *)
(* last round, which the interval bounds in turn; the bound survives the   *)
(* other fiber of the kernel refreshing, releasing or renewing the claim,  *)
(* because each of these leaves an age of zero.                            *)
(***************************************************************************)

\* A job whose heartbeat loop has not completed a round.
Calm(j) == j.beat = 0 /\ ~j.beaten

BeatsInTime ==
  \A f \in Fibers, t \in Tasks :
    /\ job[f][t].ph # "running" => Calm(job[f][t])
    /\ job[f][t].beat <= HeartbeatInterval

AgeBoundedByBeat ==
  \A f \in Fibers, t \in Durable :
    job[f][t].beaten /\ claim[t].by = f[1] => claim[t].hb <= job[f][t].beat

BeatInv == BeatsInTime /\ AgeBoundedByBeat

\* The records of jobs that have no heartbeat.
LEMMA CalmRecords ==
  ASSUME NEW j \in JobType, NEW p \in Phases, NEW r \in Results
  PROVE  /\ Calm(NoJob)
         /\ Calm(j) => Calm([j EXCEPT !.ph = p])
         /\ Calm(j) => Calm([j EXCEPT !.ph = p, !.res = r])
         /\ Calm([j EXCEPT !.ph = "ended", !.res = r, !.beat = 0, !.beaten = FALSE])
         /\ Calm([j EXCEPT !.ph = "mute", !.beat = 0, !.beaten = FALSE])
  <1>1. Calm(NoJob)
    BY DEF Calm, NoJob
  <1>2. Calm(j) => Calm([j EXCEPT !.ph = p])
    BY DEF Calm, JobType
  <1>3. Calm(j) => Calm([j EXCEPT !.ph = p, !.res = r])
    BY DEF Calm, JobType
  <1>4. Calm([j EXCEPT !.ph = "ended", !.res = r, !.beat = 0, !.beaten = FALSE])
    BY DEF Calm, JobType
  <1>5. Calm([j EXCEPT !.ph = "mute", !.beat = 0, !.beaten = FALSE])
    BY DEF Calm, JobType
  <1> QED BY <1>1, <1>2, <1>3, <1>4, <1>5

\* A step that changes only calm jobs and leaves only fresh or unchanged claims
\* keeps BeatInv.
LEMMA CalmStep ==
  ASSUME TypeOK, BeatInv,
         \A f \in Fibers, t \in Tasks : job'[f][t] = job[f][t] \/ Calm(job'[f][t]),
         \A t \in Durable : \/ claim'[t].hb = 0
                            \/ claim'[t].by = claim[t].by /\ claim'[t].hb = claim[t].hb
  PROVE  BeatInv'
  <1>0. /\ \A f \in Fibers, t \in Tasks : job[f][t].beat \in Nat
        /\ Durable \subseteq Tasks /\ HeartbeatInterval \in Nat
    BY CronAssumption DEF TypeOK, JobType
  <1>1. BeatsInTime'
    <2> SUFFICES ASSUME NEW f \in Fibers, NEW t \in Tasks
                 PROVE  /\ job'[f][t].ph # "running" => Calm(job'[f][t])
                        /\ job'[f][t].beat <= HeartbeatInterval
      BY DEF BeatsInTime, Calm
    <2>1. CASE job'[f][t] = job[f][t]
      BY <2>1 DEF BeatInv, BeatsInTime
    <2>2. CASE Calm(job'[f][t])
      BY <1>0, <2>2 DEF Calm
    <2> QED BY <2>1, <2>2
  <1>2. AgeBoundedByBeat'
    <2> SUFFICES ASSUME NEW f \in Fibers, NEW t \in Durable,
                        job'[f][t].beaten, claim'[t].by = f[1]
                 PROVE  claim'[t].hb <= job'[f][t].beat
      BY DEF AgeBoundedByBeat
    <2>1. job'[f][t] = job[f][t]
      BY <1>0 DEF Calm
    <2> QED BY <1>0, <2>1 DEF BeatInv, AgeBoundedByBeat
  <1> QED BY <1>1, <1>2 DEF BeatInv

\* The job actions other than a round of the heartbeat leave a calm job.
LEMMA JobStepCalm ==
  ASSUME TypeOK, BeatInv, NEW f \in Fibers, NEW t \in Tasks,
         JobStep(f, t) \/ HeartbeatFails(f, t)
  PROVE  \E j \in JobType : Calm(j) /\ SetJob(f, t, j)
  <1>0. /\ job[f][t] \in JobType /\ NoJob \in JobType /\ Calm(NoJob)
        /\ job[f][t].ph # "running" => Calm(job[f][t])
        /\ "running" \in Phases /\ "ended" \in Phases /\ "complete" \in Phases
        /\ "alert" \in Phases /\ "release" \in Phases /\ "failed" \in Phases
        /\ "permanent" \in Results /\ "none" \in Phases /\ "raised" \in Phases
    BY EmptyRecords, CalmRecords DEF TypeOK, Phases, Results, BeatInv, BeatsInTime
  <1>1. ASSUME job[f][t].ph # "running", NEW p \in Phases, Step(f, t, p) \/ OnlyPhase(f, t, p)
        PROVE  \E j \in JobType : Calm(j) /\ SetJob(f, t, j)
    <2>1. /\ [job[f][t] EXCEPT !.ph = p] \in JobType /\ [NoJob EXCEPT !.ph = p] \in JobType
          /\ Calm([job[f][t] EXCEPT !.ph = p]) /\ Calm([NoJob EXCEPT !.ph = p])
      BY <1>0, <1>1, JobPhase, CalmRecords, Zenon
    <2> QED BY <1>1, <2>1, Zenon DEF Step, OnlyPhase
  <1>2. CASE BeginTurn(f, t)
    BY <1>0, <1>1, <1>2 DEF BeginTurn
  <1>3. ASSUME NEW p \in Phases, NEW r \in Results, job[f][t].ph # "running",
               SetJob(f, t, [job[f][t] EXCEPT !.ph = p, !.res = r])
        PROVE  \E j \in JobType : Calm(j) /\ SetJob(f, t, j)
    BY <1>0, <1>3, JobFails, CalmRecords, Zenon
  <1>4. CASE SessionFails(f, t)
    BY <1>0, <1>3, <1>4 DEF SessionFails
  <1>5. CASE RecordFails(f, t)
    BY <1>0, <1>3, <1>5 DEF RecordFails
  <1>6. CASE EndTurn(f, t)
    <2>1. ASSUME NEW r \in Results,
                 SetJob(f, t, [job[f][t] EXCEPT !.ph = "ended", !.res = r,
                                                !.beat = 0, !.beaten = FALSE])
          PROVE  \E j \in JobType : Calm(j) /\ SetJob(f, t, j)
      BY <1>0, <2>1, JobEnds, CalmRecords, Zenon
    <2>2. CASE job[f][t].ph = "mute"
               /\ SetJob(f, t, [job[f][t] EXCEPT !.ph = "failed", !.res = "permanent"])
      <3>1. job[f][t].ph # "running"
        BY <2>2
      <3> QED BY <1>0, <1>3, <2>2, <3>1, Zenon
    <2> QED BY <1>6, <2>1, <2>2, Zenon DEF EndTurn
  <1>7. CASE TriggerEnds(f, t)
    BY <1>0, <1>7, Zenon DEF TriggerEnds
  <1>12. CASE _release_task(f, t) \/ ReleaseFails(f, t)
    <2>1. \A b \in BOOLEAN : Ended(f, b) \in JobType /\ Calm(Ended(f, b))
      BY <1>0, JobOver, CalmRecords DEF Ended
    <2>2. \E b \in BOOLEAN : SetJob(f, t, Ended(f, b))
      BY <1>12 DEF _release_task, ReleaseFails
    <2> QED BY <2>1, <2>2, Zenon
  <1>13. CASE HandleFails(f, t)
    <2>1. CASE SetJob(f, t, [NoJob EXCEPT !.ph = "release", !.res = "permanent"])
      BY <1>0, <2>1, JobFails, CalmRecords, Zenon
    <2>2. CASE job[f][t].ph = "ended"
               /\ SetJob(f, t, [job[f][t] EXCEPT !.ph = "failed", !.res = "permanent"])
      <3>1. job[f][t].ph # "running"
        BY <2>2
      <3> QED BY <1>0, <1>3, <2>2, <3>1, Zenon
    <2> QED BY <1>13, <2>1, <2>2, Zenon DEF HandleFails
  <1>14. CASE HeartbeatFails(f, t)
    BY <1>0, <1>14, JobMutes, CalmRecords, Zenon DEF HeartbeatFails
  <1>8. CASE RecordFired(f, t)
    BY <1>0, <1>1, <1>8 DEF RecordFired
  <1>9. CASE RecordCompleted(f, t)
    BY <1>0, <1>1, <1>9 DEF RecordCompleted
  <1>10. CASE HandleFailure(f, t)
    <2>1. \E p \in Phases : OnlyPhase(f, t, p)
      BY <1>0, <1>10, Zenon DEF HandleFailure
    <2>2. job[f][t].ph # "running"
      BY <1>10 DEF HandleFailure, Failing
    <2> QED BY <1>1, <2>1, <2>2
  <1>11. CASE FailureAlert(f, t)
    BY <1>0, <1>1, <1>11 DEF FailureAlert
  <1> QED
    BY <1>2, <1>4, <1>5, <1>6, <1>7, <1>8, <1>9, <1>10, <1>11, <1>12, <1>13, <1>14
    DEF JobStep

\* Every step of a job other than its heartbeat keeps beats in time: it leaves the
\* job without a beaten heartbeat, and no claim older than it was.
LEMMA JobStepBeats ==
  ASSUME TypeOK, BeatInv, NEW f \in Fibers, NEW t \in Tasks,
         JobStep(f, t) \/ HeartbeatFails(f, t)
  PROVE  BeatInv'
  <1>1. PICK j \in JobType : Calm(j) /\ SetJob(f, t, j)
    BY JobStepCalm
  <1>2. \A g \in Fibers, u \in Tasks : job'[g][u] = job[g][u] \/ job'[g][u] = j
    BY <1>1, SetJobEffect DEF TypeOK
  <1>3. \A g \in Fibers, u \in Tasks : job'[g][u] = job[g][u] \/ Calm(job'[g][u])
    BY <1>1, <1>2, Zenon
  <1>4. \A u \in Durable :
          \/ claim'[u].hb = 0
          \/ claim'[u].by = claim[u].by /\ claim'[u].hb = claim[u].hb
    <2>1. CASE _release_task(f, t)
      BY <2>1, CronAssumption DEF _release_task, TypeOK, NoClaim
    <2>3. CASE ReleaseFails(f, t)
      <3> SUFFICES ASSUME NEW u \in Durable
                   PROVE  claim'[u].by = claim[u].by /\ claim'[u].hb = claim[u].hb
        OBVIOUS
      <3>1. claim \in [Tasks -> ClaimType] /\ u \in Tasks /\ claim[u] \in ClaimType
        BY CronAssumption DEF TypeOK
      <3>2. claim'[u] = claim[u] \/ claim'[u] = [claim[u] EXCEPT !.leaked = TRUE]
        BY <2>3, <3>1 DEF ReleaseFails
      <3> QED BY <3>1, <3>2, ClaimKeeps
    <2>2. CASE UNCHANGED claim
      BY <2>2
    <2> QED BY <2>1, <2>2, <2>3
        DEF JobStep, BeginTurn, SessionFails, EndTurn, TriggerEnds, RecordFired,
            RecordCompleted, RecordFails, HeartbeatFails, HandleFailure, HandleFails,
            FailureAlert
  <1> QED BY <1>3, <1>4, CalmStep

\* A round of the heartbeat loop resets the fiber's timer, and the claim's age
\* with it when the claim is still this kernel's.
LEMMA HeartbeatBeats ==
  ASSUME TypeOK, BeatInv, NEW f \in Fibers, NEW t \in Tasks, Heartbeat(f, t)
  PROVE  BeatInv'
  <1> DEFINE j == [job[f][t] EXCEPT !.beat = 0, !.beaten = TRUE]
  <1>0. /\ Durable \subseteq Tasks /\ HeartbeatInterval \in Nat
        /\ job[f][t].ph = "running" /\ SetJob(f, t, j)
        /\ job[f][t] \in JobType
    BY CronAssumption DEF Heartbeat, TypeOK
  <1>1. j \in JobType /\ j.ph = "running"
    BY <1>0, JobBeat, Zenon
  <1>2. j.beat = 0
    BY <1>0 DEF JobType
  <1> HIDE DEF j
  <1>3. /\ job'[f][t] = j
        /\ \A g \in Fibers, u \in Tasks : g # f \/ u # t => job'[g][u] = job[g][u]
    BY <1>0, <1>1, SetJobEffect DEF TypeOK
  <1>4. /\ \A u \in Durable : u # t => claim'[u] = claim[u]
        /\ t \in Durable => claim'[t] = claim[t] \/ claim'[t].hb = 0
        /\ t \in Durable => claim'[t].by = claim[t].by
        /\ t \in Durable /\ claim'[t].by = f[1] => claim'[t].hb = 0
    <2>1. /\ claim[t] \in ClaimType /\ claim \in [Tasks -> ClaimType]
          /\ claim'[t].by = claim[t].by
      BY HoldersStay DEF TypeOK
    <2>2. [claim[t] EXCEPT !.hb = 0].hb = 0
      BY <2>1 DEF ClaimType
    <2>3. claim' = IF t \in Durable /\ claim[t].by = f[1]
                   THEN [claim EXCEPT ![t] = [claim[t] EXCEPT !.hb = 0]] ELSE claim
      BY DEF Heartbeat
    <2> QED BY <1>0, <2>1, <2>2, <2>3
  <1>5. BeatsInTime'
    <2> SUFFICES ASSUME NEW g \in Fibers, NEW u \in Tasks
                 PROVE  /\ job'[g][u].ph # "running" => Calm(job'[g][u])
                        /\ job'[g][u].beat <= HeartbeatInterval
      BY DEF BeatsInTime, Calm
    <2>1. CASE g = f /\ u = t
      BY <1>0, <1>1, <1>2, <1>3, <2>1
    <2>2. CASE g # f \/ u # t
      BY <1>3, <2>2 DEF BeatInv, BeatsInTime
    <2> QED BY <2>1, <2>2
  <1>6. AgeBoundedByBeat'
    <2> SUFFICES ASSUME NEW g \in Fibers, NEW u \in Durable,
                        job'[g][u].beaten, claim'[u].by = g[1]
                 PROVE  claim'[u].hb <= job'[g][u].beat
      BY DEF AgeBoundedByBeat
    <2>0. job[g][u].beat \in Nat
      BY <1>0 DEF TypeOK, JobType
    <2>1. CASE g = f /\ u = t
      BY <1>2, <1>3, <1>4, <2>1
    <2>2. CASE g # f \/ u # t
      <3>1. job'[g][u] = job[g][u]
        BY <1>0, <1>3, <2>2
      <3> QED BY <1>4, <2>0, <3>1 DEF BeatInv, AgeBoundedByBeat
    <2> QED BY <2>1, <2>2
  <1> QED BY <1>5, <1>6 DEF BeatInv

\* The steps of the process, the loop, the catch-up and the users.
LEMMA KernelStepBeats ==
  ASSUME TypeOK, BeatInv, NEW k \in Kernels, KernelStep(k)
  PROVE  BeatInv'
  <1>0. /\ <<k, "loop">> \in Fibers /\ <<k, "catchup">> \in Fibers
        /\ NoJob \in JobType /\ Calm(NoJob) /\ NoClaim.hb = 0
        /\ Durable \subseteq Tasks
        /\ \A f \in Fibers, t \in Tasks : job[f][t].ph # "running" => Calm(job[f][t])
    BY FiberFacts, EmptyRecords, CronAssumption
    DEF NoJob, Calm, NoClaim, BeatInv, BeatsInTime
  <1>1. CASE UNCHANGED <<job, claim>>
    BY <1>1, CalmStep
  <1>2. ASSUME NEW f \in Fibers, NEW t \in Tasks, NEW p \in Phases,
               (job[f][t].ph # "running" /\ Step(f, t, p)) \/ OnlyPhase(f, t, p)
        PROVE  \A g \in Fibers, u \in Tasks : job'[g][u] = job[g][u] \/ Calm(job'[g][u])
    <2>1. job[f][t] \in JobType /\ "ok" \in Results
      BY DEF TypeOK, Results
    <2>2. \A j \in JobType : Calm(j) =>
            [j EXCEPT !.ph = p] \in JobType /\ Calm([j EXCEPT !.ph = p])
      BY <2>1, JobPhase, CalmRecords, Zenon
    <2>3. \E j \in JobType : Calm(j) /\ SetJob(f, t, [j EXCEPT !.ph = p])
      BY <1>0, <1>2, <2>1, Zenon DEF Step, OnlyPhase
    <2>4. PICK j \in JobType : Calm(j) /\ SetJob(f, t, j)
      BY <2>2, <2>3, Zenon
    <2> QED BY <2>4, SetJobEffect DEF TypeOK
  <1>3. ASSUME NEW f \in Fibers, NEW t \in Tasks, SetJob(f, t, NoJob)
        PROVE  \A g \in Fibers, u \in Tasks : job'[g][u] = job[g][u] \/ Calm(job'[g][u])
    BY <1>0, <1>3, SetJobEffect DEF TypeOK
  <1>4. ASSUME NEW f \in Fibers, NEW js \in [Tasks -> JobType], job' = [job EXCEPT ![f] = js],
               \A t \in Tasks : Calm(js[t])
        PROVE  \A g \in Fibers, u \in Tasks : job'[g][u] = job[g][u] \/ Calm(job'[g][u])
    BY <1>4, Zenon DEF TypeOK
  <1>5. CASE Gone(k)
    <2>1. \A f \in Fibers, t \in Tasks : job'[f][t] \in {job[f][t], NoJob}
      BY <1>5 DEF Gone
    <2>2. \A t \in Durable : claim'[t] = claim[t]
      BY <1>0, <1>5 DEF Gone
    <2> QED BY <1>0, <2>1, <2>2, CalmStep
  <1>6. CASE Stop(k)
    <2> DEFINE js == [t \in Tasks |-> IF job[<<k, "loop">>][t].ph \in Working
                                      THEN [NoJob EXCEPT !.ph = "release"] ELSE NoJob]
    <2>1. [NoJob EXCEPT !.ph = "release"] \in JobType /\ Calm([NoJob EXCEPT !.ph = "release"])
      BY <1>0, JobPhase, CalmRecords DEF Phases, Results
    <2>2. js \in [Tasks -> JobType] /\ \A t \in Tasks : Calm(js[t])
      BY <1>0, <2>1
    <2>3. job' = [job EXCEPT ![<<k, "loop">>] = js] /\ UNCHANGED claim
      BY <1>6 DEF Stop
    <2> HIDE DEF js
    <2> QED BY <1>0, <1>4, <2>2, <2>3, CalmStep
  <1>7. CASE LoopError(k)
    <2> DEFINE js == [t \in Tasks |-> NoJob]
    <2>1. js \in [Tasks -> JobType] /\ \A t \in Tasks : Calm(js[t])
      BY <1>0
    <2>2. job' = [job EXCEPT ![<<k, "loop">>] = js] /\ UNCHANGED claim
      BY <1>7 DEF LoopError
    <2> HIDE DEF js
    <2> QED BY <1>0, <1>4, <2>1, <2>2, CalmStep
  <1>8. CASE _cleanup_stale_claims /\ UNCHANGED job
    BY <1>0, <1>8, CalmStep DEF _cleanup_stale_claims, TypeOK
  <1>9. ASSUME NEW f \in Fibers, NEW due, job' = [job EXCEPT ![f] = Listed(due)],
               UNCHANGED claim
        PROVE  BeatInv'
    <2>1. \A t \in Tasks : Calm(Listed(due)[t])
      BY <1>0 DEF Listed, NoJob, Calm
    <2>2. Listed(due) \in [Tasks -> JobType]
      BY ListedType
    <2> QED BY <1>4, <1>9, <2>1, <2>2, CalmStep
  <1>10. ASSUME NEW f \in Fibers, NEW t \in Tasks, NEW p \in Phases,
                job[f][t].ph = "due", _claim_tasks(f, t, p)
         PROVE  BeatInv'
    <2>1. \A u \in Durable : claim'[u] = claim[u] \/ claim'[u].hb = 0
      BY <1>0, <1>10 DEF _claim_tasks, TypeOK, ClaimBy, NoClaim
    <2>2. \A g \in Fibers, u \in Tasks : job'[g][u] = job[g][u] \/ Calm(job'[g][u])
      BY <1>2, <1>3, <1>10 DEF _claim_tasks
    <2> QED BY <2>1, <2>2, CalmStep
  <1>11. CASE LoopStep(k)
    <2>1. CASE LoopCleanup(k)
      BY <1>8, <2>1 DEF LoopCleanup
    <2>2. CASE LoopList(k)
      BY <1>0, <1>9, <2>2, Zenon DEF LoopList
    <2>3. CASE LoopSleep(k) \/ LoopWake(k) \/ \E t \in Tasks : LoopExpire(k, t)
      BY <1>1, <2>3 DEF LoopSleep, LoopWake, LoopExpire
    <2>4. ASSUME NEW t \in Tasks, LoopClaim(k, t) PROVE BeatInv'
      BY <1>0, <1>10, <2>4 DEF LoopClaim, Phases
    <2>5. ASSUME NEW t \in Tasks, LoopFire(k, t) PROVE BeatInv'
      <3>1. "starting" \in Phases
        BY DEF Phases
      <3> QED BY <1>0, <1>2, <2>5, <3>1, CalmStep DEF LoopFire
    <2> QED BY <1>11, <2>1, <2>2, <2>3, <2>4, <2>5 DEF LoopStep
  <1>12. CASE CatchupStep(k)
    <2>1. CASE CatchupCleanup(k)
      BY <1>8, <2>1 DEF CatchupCleanup
    <2>2. CASE CatchupList(k)
      BY <1>0, <1>9, <2>2, Zenon DEF CatchupList
    <2>3. CASE CatchupDone(k)
      BY <1>1, <2>3 DEF CatchupDone
    <2>4. ASSUME NEW t \in Tasks, CatchupSkip(k, t) PROVE BeatInv'
      <3>1. SetJob(<<k, "catchup">>, t, NoJob) /\ UNCHANGED claim
        BY <2>4, Zenon DEF CatchupSkip
      <3> QED BY <1>0, <1>3, <3>1, CalmStep
    <2>5. ASSUME NEW t \in Tasks, CatchupClaim(k, t) PROVE BeatInv'
      BY <1>0, <1>10, <2>5 DEF CatchupClaim, CatchupTurn, Phases
    <2>6. CASE CatchupError(k)
      <3> DEFINE js == [t \in Tasks |-> NoJob]
      <3>1. js \in [Tasks -> JobType] /\ \A t \in Tasks : Calm(js[t])
        BY <1>0
      <3>2. job' = [job EXCEPT ![<<k, "catchup">>] = js] /\ UNCHANGED claim
        BY <2>6 DEF CatchupError
      <3> HIDE DEF js
      <3> QED BY <1>0, <1>4, <3>1, <3>2, CalmStep
    <2> QED BY <1>12, <2>1, <2>2, <2>3, <2>4, <2>5, <2>6 DEF CatchupStep
  <1>13. CASE UserStep(k)
    <2>1. ASSUME NEW t \in Tasks, TriggerNow(k, t) PROVE BeatInv'
      <3>1. <<k, "trigger">> \in Fibers /\ "starting" \in Phases
        BY <2>1 DEF TriggerNow, CanAsk, Fibers, Kinds, Phases
      <3> QED BY <1>2, <2>1, <3>1, CalmStep DEF TriggerNow
    <2> QED BY <1>1, <1>13, <2>1
        DEF UserStep, CreateAdd, PauseWrite, ResumeWrite, CreateCheck, PauseCheck,
            ResumeCheck, DeleteTask
  <1> QED BY <1>1, <1>5, <1>6, <1>7, <1>11, <1>12, <1>13
      DEF KernelStep, Startup, Crash, Shutdown

\* Time moves the fiber's timer and the age of the claim together.
LEMMA TickBeats ==
  ASSUME TypeOK, BeatInv, Tick
  PROVE  BeatInv'
  <1>0. Durable \subseteq Tasks /\ HeartbeatInterval \in Nat /\ StaleThreshold \in Nat
    BY CronAssumption
  <1>1. \A f \in Fibers, t \in Tasks :
          \/ job[f][t].ph # "running" /\ job'[f][t] = job[f][t]
          \/ /\ job[f][t].ph = "running" /\ job[f][t].beat < HeartbeatInterval
             /\ job'[f][t] = [job[f][t] EXCEPT !.beat = @ + 1]
    <2> TAKE f \in Fibers, t \in Tasks
    <2>1. job' = [g \in Fibers |-> [u \in Tasks |->
                    IF job[g][u].ph = "running"
                    THEN [job[g][u] EXCEPT !.beat = @ + 1] ELSE job[g][u]]]
      BY Zenon DEF Tick
    <2>2. job[f][t].ph = "running" => job[f][t].beat < HeartbeatInterval
      BY DEF Tick
    <2> QED BY <2>1, <2>2, Zenon
  <1>2. \A f \in Fibers, t \in Tasks :
          LET j == [job[f][t] EXCEPT !.beat = @ + 1]
          IN /\ j.ph = job[f][t].ph /\ j.beat = job[f][t].beat + 1
             /\ j.beaten = job[f][t].beaten
    BY DEF TypeOK, JobType
  <1>3. \A t \in Durable : /\ claim'[t].by = claim[t].by
                           /\ claim[t].by # None => claim'[t].hb <= claim[t].hb + 1
    <2> TAKE t \in Durable
    <2>1. claim'[t] = IF claim[t].by = None THEN claim[t]
                      ELSE [claim[t] EXCEPT !.hb = Up(@, StaleThreshold + 1)]
      BY <1>0 DEF Tick
    <2>2. claim[t] \in ClaimType
      BY <1>0 DEF TypeOK
    <2>3. claim[t].hb \in Nat /\ Up(claim[t].hb, StaleThreshold + 1) <= claim[t].hb + 1
      BY <1>0, <2>2, CronAssumption DEF ClaimType, Up, Least
    <2> QED BY <2>1, <2>2, <2>3 DEF ClaimType
  <1>4. BeatsInTime'
    <2> SUFFICES ASSUME NEW f \in Fibers, NEW t \in Tasks
                 PROVE  /\ job'[f][t].ph # "running" => Calm(job'[f][t])
                        /\ job'[f][t].beat <= HeartbeatInterval
      BY DEF BeatsInTime, Calm
    <2>0. job[f][t].beat \in Nat
      BY DEF TypeOK, JobType
    <2>1. CASE job'[f][t] = job[f][t]
      BY <2>1 DEF BeatInv, BeatsInTime
    <2>2. CASE /\ job[f][t].ph = "running" /\ job[f][t].beat < HeartbeatInterval
               /\ job'[f][t] = [job[f][t] EXCEPT !.beat = @ + 1]
      <3>1. job'[f][t].ph = "running" /\ job'[f][t].beat = job[f][t].beat + 1
        BY <1>2, <2>2, ZenonT(30)
      <3> QED BY <1>0, <2>0, <2>2, <3>1
    <2> QED BY <1>1, <2>1, <2>2, Zenon
  <1>5. AgeBoundedByBeat'
    <2> SUFFICES ASSUME NEW f \in Fibers, NEW t \in Durable,
                        job'[f][t].beaten, claim'[t].by = f[1]
                 PROVE  claim'[t].hb <= job'[f][t].beat
      BY DEF AgeBoundedByBeat
    <2>0. /\ t \in Tasks /\ job[f][t].beat \in Nat /\ claim[t].hb \in Nat
          /\ job[f][t].beaten \in BOOLEAN
      BY <1>0 DEF TypeOK, JobType, ClaimType
    <2>1. job[f][t].beaten /\ job[f][t].ph = "running" /\ job'[f][t].beat = job[f][t].beat + 1
      <3>1. job'[f][t].beaten = job[f][t].beaten
        <4>1. CASE job'[f][t] = job[f][t]
          BY <4>1
        <4>2. CASE job'[f][t] = [job[f][t] EXCEPT !.beat = @ + 1]
          BY <1>2, <2>0, <4>2, ZenonT(30)
        <4> QED BY <1>1, <2>0, <4>1, <4>2, Zenon
      <3>2. job[f][t].ph = "running"
        BY <2>0, <3>1 DEF BeatInv, BeatsInTime, Calm
      <3> QED BY <1>1, <1>2, <2>0, <3>1, <3>2, Zenon
    <2>2. claim[t].by = f[1] /\ claim[t].by # None
      BY <1>3, FiberFacts, CronAssumption
    <2>3. claim[t].hb <= job[f][t].beat
      BY <2>1, <2>2 DEF BeatInv, AgeBoundedByBeat
    <2>4. claim'[t].hb \in Nat
      <3>1. TypeOK'
        BY TickType
      <3> QED BY <2>0, <3>1 DEF TypeOK, ClaimType
    <2> QED BY <1>3, <2>0, <2>1, <2>2, <2>3, <2>4
  <1> QED BY <1>4, <1>5 DEF BeatInv

\* As long as _heartbeat_loop of a running turn completes its rounds, no
\* _cleanup_stale_claims of any kernel takes its claim for abandoned, whatever
\* the other fiber of the same kernel does with the task.
THEOREM BeatingIsSafe == Spec => []BeatingClaimIsNotStale
  <1>1. Init => BeatInv
    <2> SUFFICES ASSUME Init PROVE BeatInv
      OBVIOUS
    <2>1. \A f \in Fibers, t \in Tasks : job[f][t].beat = 0 /\ ~job[f][t].beaten
      BY DEF Init, NoJob
    <2> QED BY <2>1, CronAssumption DEF BeatInv, BeatsInTime, AgeBoundedByBeat, Calm
  <1>2. TypeOK /\ BeatInv /\ [Next]_vars => BeatInv'
    <2> SUFFICES ASSUME TypeOK, BeatInv, [Next]_vars PROVE BeatInv'
      OBVIOUS
    <2>1. CASE UNCHANGED vars
      BY <2>1, CalmStep DEF vars
    <2>2. CASE Tick
      BY <2>2, TickBeats
    <2>3. ASSUME NEW k \in Kernels, KernelStep(k) PROVE BeatInv'
      BY <2>3, KernelStepBeats
    <2>4. ASSUME NEW f \in Fibers, NEW t \in Tasks, JobStep(f, t) \/ Heartbeat(f, t) \/ HeartbeatFails(f, t)
          PROVE  BeatInv'
      BY <2>4, JobStepBeats, HeartbeatBeats
    <2> QED BY <2>1, <2>2, <2>3, <2>4 DEF Next
  <1>3. TypeOK /\ BeatInv => BeatingClaimIsNotStale
    <2> SUFFICES ASSUME TypeOK, BeatInv, NEW f \in Fibers, NEW t \in Durable,
                        job[f][t].beaten, claim[t].by = f[1]
                 PROVE  ~(claim[t].hb > StaleThreshold)
      BY DEF BeatingClaimIsNotStale, Stale
    <2>1. /\ t \in Tasks /\ claim[t].hb \in Nat /\ job[f][t].beat \in Nat
          /\ HeartbeatInterval \in Nat /\ StaleThreshold \in Nat
      BY CronAssumption DEF TypeOK, ClaimType, JobType
    <2>2. claim[t].hb <= job[f][t].beat /\ job[f][t].beat <= HeartbeatInterval
      BY <2>1 DEF BeatInv, BeatsInTime, AgeBoundedByBeat
    <2> QED BY <2>1, <2>2, HeartbeatAssumption
  <1> QED BY <1>1, <1>2, <1>3, TypeCorrect, PTL DEF Spec
=============================================================================
