------------------------- MODULE CronOutcomes_proofs -------------------------
(***************************************************************************)
(* What becomes of claims and of tasks in CronScheduler, for any kernels,  *)
(* tasks and timings: no claim leaks under a running loop, a one-shot is   *)
(* recorded once, and a finished task stays finished.                      *)
(***************************************************************************)
EXTENDS CronLease_proofs

(***************************************************************************)
(* A claim has a worker.  Not inductive alone: listing overwrites the jobs *)
(* of a fiber, so a loop must have none left when it lists, and a kernel   *)
(* that starts must own no claim yet.                                      *)
(***************************************************************************)
NewIsFresh ==
  \A k \in Kernels : mode[k] = "new" =>
    /\ loop[k].pc = "off" /\ catchup[k] = "off"
    /\ \A t \in Durable : claim[t].by # k

LoopRests ==
  \A k \in Kernels : mode[k] # "stopping" /\ loop[k].pc # "claim"
    => \A t \in Tasks : job[<<k, "loop">>][t].ph = "none"

CatchupRests ==
  \A k \in Kernels : catchup[k] # "scan"
    => \A t \in Tasks : job[<<k, "catchup">>][t].ph = "none"

WorkerInv == NewIsFresh /\ LoopRests /\ CatchupRests /\ ClaimHasWorker

\* A fiber that is not busy has no job.
LEMMA IdleHasNoJob ==
  ASSUME TypeOK, NEW f \in Fibers, ~Busy(f), NEW t \in Tasks
  PROVE  job[f][t].ph = "none"
  BY DEF TypeOK, JobType, Busy, JobsOf

\* A fiber that rests goes on resting if it gets a job only in its working section
\* and leaves that section only without jobs.
LEMMA RestsStay ==
  ASSUME TypeOK, LoopRests, CatchupRests, mode' = mode,
         \A k \in Kernels : \/ loop'[k].pc = "claim" \/ loop[k].pc # "claim"
                            \/ ~Busy(<<k, "loop">>),
         \A k \in Kernels : \/ catchup'[k] = "scan" \/ catchup[k] # "scan"
                            \/ ~Busy(<<k, "catchup">>),
         \A k \in Kernels, t \in Tasks :
           job[<<k, "loop">>][t].ph = "none"
             => job'[<<k, "loop">>][t].ph = "none" \/ loop'[k].pc = "claim",
         \A k \in Kernels, t \in Tasks :
           job[<<k, "catchup">>][t].ph = "none"
             => job'[<<k, "catchup">>][t].ph = "none" \/ catchup'[k] = "scan"
  PROVE  LoopRests' /\ CatchupRests'
  <1>1. LoopRests'
    <2> SUFFICES ASSUME NEW k \in Kernels, NEW t \in Tasks,
                        mode[k] # "stopping", loop'[k].pc # "claim"
                 PROVE  job'[<<k, "loop">>][t].ph = "none"
      BY DEF LoopRests
    <2>1. job[<<k, "loop">>][t].ph = "none"
      BY FiberFacts, IdleHasNoJob DEF LoopRests
    <2> QED BY <2>1
  <1>2. CatchupRests'
    <2> SUFFICES ASSUME NEW k \in Kernels, NEW t \in Tasks, catchup'[k] # "scan"
                 PROVE  job'[<<k, "catchup">>][t].ph = "none"
      BY DEF CatchupRests
    <2>1. job[<<k, "catchup">>][t].ph = "none"
      BY FiberFacts, IdleHasNoJob DEF CatchupRests
    <2> QED BY <2>1
  <1> QED BY <1>1, <1>2

\* A step leaves the claim of t with its holder.
SameHolder(t) == claim'[t].by = claim[t].by /\ claim'[t].leaked = claim[t].leaked

\* A step in which no fiber loses its claimed job and no claim goes to a kernel
\* keeps WorkerInv.
LEMMA WorkersStay ==
  ASSUME TypeOK, WorkerInv, LoopRests', CatchupRests', mode' = mode,
         \A k \in Kernels : loop'[k].pc = "off" <=> loop[k].pc = "off",
         \A k \in Kernels : catchup[k] = "off" => catchup'[k] = "off",
         \A t \in Durable : SameHolder(t) \/ claim'[t].by = None,
         \A f \in Fibers, t \in Durable :
           Claimed(f, t) => Claimed(f, t)' \/ claim'[t].by = None
  PROVE  WorkerInv'
  <1>0. None \notin Kernels
    BY CronAssumption
  <1>1. NewIsFresh'
    BY <1>0 DEF WorkerInv, NewIsFresh, SameHolder
  <1>2. ClaimHasWorker'
    BY <1>0 DEF WorkerInv, ClaimHasWorker, SameHolder
  <1> QED BY <1>1, <1>2 DEF WorkerInv

\* What a job action does to leaked: nothing undoes it but the end of the claim, and
\* a release that fails sets it.
LEMMA JobStepLeaks ==
  ASSUME TypeOK, NEW f \in Fibers, NEW t \in Tasks,
         JobStep(f, t) \/ Heartbeat(f, t) \/ HeartbeatFails(f, t), NEW u \in Durable
  PROVE  /\ claim'[u].by = None \/ claim'[u].leaked = claim[u].leaked \/ claim'[u].leaked
         /\ ReleaseFails(f, t) /\ u = t /\ claim[t].by = f[1] => claim'[t].leaked
  <1>0. /\ u \in Tasks /\ claim \in [Tasks -> ClaimType] /\ claim[u] \in ClaimType
        /\ NoClaim.by = None
    BY CronAssumption DEF TypeOK, NoClaim
  <1>1. /\ [claim[u] EXCEPT !.leaked = TRUE].leaked
        /\ [claim[u] EXCEPT !.hb = 0].leaked = claim[u].leaked
    BY <1>0, ClaimKeeps DEF ClaimType
  <1>2. CASE Heartbeat(f, t)
    <2>1. claim'[u] = claim[u] \/ claim'[u] = [claim[u] EXCEPT !.hb = 0]
      BY <1>0, <1>2 DEF Heartbeat
    <2>2. ~ReleaseFails(f, t)
      BY <1>2 DEF Heartbeat, ReleaseFails
    <2> QED BY <1>1, <2>1, <2>2
  <1>3. CASE _release_task(f, t) /\ ~ReleaseFails(f, t)
    <2>1. claim'[u] = claim[u] \/ claim'[u] = NoClaim
      BY <1>0, <1>3 DEF _release_task
    <2> QED BY <1>0, <1>3, <2>1
  <1>4. CASE ReleaseFails(f, t)
    <2>1. /\ claim'[u] = claim[u] \/ claim'[u] = [claim[u] EXCEPT !.leaked = TRUE]
          /\ u = t /\ claim[t].by = f[1] => claim'[u] = [claim[u] EXCEPT !.leaked = TRUE]
      BY <1>0, <1>4 DEF ReleaseFails
    <2> QED BY <1>1, <2>1
  <1>5. CASE UNCHANGED claim /\ ~ReleaseFails(f, t)
    BY <1>5
  <1> QED BY <1>2, <1>3, <1>4, <1>5
      DEF JobStep, BeginTurn, SessionFails, EndTurn, TriggerEnds, RecordFired,
          RecordCompleted, RecordFails, HeartbeatFails, HandleFailure, HandleFails,
          FailureAlert

\* Job actions: only the release ends a claimed job; it frees the claim, or leaves it
\* leaked.
LEMMA JobStepWorkers ==
  ASSUME TypeOK, ClaimInv, WorkerInv, NEW f \in Fibers, NEW t \in Tasks,
         JobStep(f, t) \/ Heartbeat(f, t) \/ HeartbeatFails(f, t)
  PROVE  WorkerInv'
  <1>1. /\ UNCHANGED <<mode, loop, catchup, swept>>
        /\ job[f][t].ph # "none"
        /\ \A g \in Fibers, u \in Tasks : g # f \/ u # t => job'[g][u] = job[g][u]
    BY JobStepEffect
  <1>2. LoopRests' /\ CatchupRests'
    BY <1>1, RestsStay, FiberFacts DEF WorkerInv
  <1>3. \A u \in Durable : claim'[u].by \in {claim[u].by, None}
    BY JobStepEffect, CronAssumption
  <1>4. ASSUME NEW k \in Kernels, NEW u \in Durable, claim'[u].by = k,
               ~claim'[u].leaked, mode[k] = "up", loop[k].pc # "off"
        PROVE  \E g \in Fibers : g[1] = k /\ Claimed(g, u)'
    <2>0. None \notin Kernels /\ u \in Tasks
      BY CronAssumption
    <2>1. claim[u].by = k /\ ~claim[u].leaked
      BY <1>3, <1>4, <2>0, JobStepLeaks
    <2>2. PICK g \in Fibers : g[1] = k /\ Claimed(g, u)
      BY <1>4, <2>1 DEF WorkerInv, ClaimHasWorker
    <2>3. CASE g # f \/ u # t
      BY <2>0, <2>2, <2>3, JobStepEffect
    <2>4. CASE g = f /\ u = t
      <3>1. ~_release_task(f, t)
        BY <1>4, <2>0, <2>1, <2>2, <2>4, JobStepEffect
      <3>2. ~ReleaseFails(f, t)
        BY <1>4, <2>1, <2>2, <2>4, JobStepLeaks
      <3> QED BY <2>2, <2>4, <3>1, <3>2, JobStepEffect
    <2> QED BY <2>3, <2>4
  <1>5. ClaimHasWorker'
    BY <1>1, <1>4 DEF ClaimHasWorker
  <1>6. NewIsFresh'
    <2>1. None \notin Kernels
      BY CronAssumption
    <2> QED BY <1>1, <1>3, <2>1 DEF WorkerInv, NewIsFresh
  <1> QED BY <1>2, <1>5, <1>6 DEF WorkerInv

\* A process that starts owns nothing; one that stops, crashes or loses its loop
\* has no running loop any more.
LEMMA LifeStepWorkers ==
  ASSUME TypeOK, WorkerInv, NEW k \in Kernels,
         Startup(k) \/ Crash(k) \/ Stop(k) \/ Shutdown(k) \/ LoopError(k)
  PROVE  WorkerInv'
  <1>0. /\ <<k, "loop">> \in Fibers /\ <<k, "catchup">> \in Fibers
        /\ NoJob.ph = "none" /\ Durable \subseteq Tasks /\ LoopOff.pc = "off"
    BY FiberFacts, CronAssumption DEF NoJob, LoopOff
  <1>1. CASE Startup(k)
    <2>1. /\ mode[k] = "new" /\ mode'[k] = "up"
          /\ loop'[k].pc = "cleanup" /\ catchup'[k] = "cleanup"
          /\ UNCHANGED <<claim, job>>
      BY <1>1 DEF Startup, TypeOK, LoopType
    <2>2. \A j \in Kernels : j # k => mode'[j] = mode[j] /\ loop'[j] = loop[j]
                                      /\ catchup'[j] = catchup[j]
      BY <1>1 DEF Startup, TypeOK
    <2>3. loop[k].pc = "off" /\ catchup[k] = "off" /\ \A t \in Durable : claim[t].by # k
      BY <2>1 DEF WorkerInv, NewIsFresh
    <2>4. NewIsFresh'
      BY <2>1, <2>2 DEF WorkerInv, NewIsFresh
    <2>5. LoopRests' /\ CatchupRests'
      BY <2>1, <2>2, <2>3 DEF WorkerInv, LoopRests, CatchupRests
    <2>6. ClaimHasWorker'
      <3>1. \A f \in Fibers, t \in Durable : Claimed(f, t)' <=> Claimed(f, t)
        BY <2>1 DEF Claimed
      <3> QED BY <2>1, <2>2, <2>3, <3>1 DEF WorkerInv, ClaimHasWorker
    <2> QED BY <2>4, <2>5, <2>6 DEF WorkerInv
  <1>2. CASE Gone(k)
    <2>1. mode'[k] = "down" /\ loop'[k].pc = "off" /\ catchup'[k] = "off"
      BY <1>0, <1>2 DEF Gone, TypeOK
    <2>2. \A j \in Kernels : j # k => mode'[j] = mode[j] /\ loop'[j] = loop[j]
                                      /\ catchup'[j] = catchup[j]
      BY <1>2 DEF Gone, TypeOK
    <2>3. \A f \in Fibers : f[1] # k => job'[f] = job[f]
      BY <1>2 DEF Gone
    <2>4. \A f \in Fibers, t \in Tasks : f[1] = k => job'[f][t].ph = "none"
      BY <1>0, <1>2 DEF Gone
    <2>5. \A t \in Durable : claim'[t] = claim[t]
      BY <1>0, <1>2 DEF Gone
    <2>6. NewIsFresh'
      BY <2>1, <2>2, <2>5 DEF WorkerInv, NewIsFresh
    <2>7. LoopRests' /\ CatchupRests'
      <3>1. \A j \in Kernels : j # k => /\ job'[<<j, "loop">>] = job[<<j, "loop">>]
                                        /\ job'[<<j, "catchup">>] = job[<<j, "catchup">>]
        BY <2>3, FiberFacts
      <3>2. \A t \in Tasks : /\ job'[<<k, "loop">>][t].ph = "none"
                              /\ job'[<<k, "catchup">>][t].ph = "none"
        BY <1>0, <2>4
      <3>3. LoopRests'
        BY <2>2, <3>1, <3>2, ZenonT(30) DEF WorkerInv, LoopRests
      <3>4. CatchupRests'
        BY <2>2, <3>1, <3>2 DEF WorkerInv, CatchupRests
      <3> QED BY <3>3, <3>4
    <2>8. ClaimHasWorker'
      <3>1. \A f \in Fibers, t \in Durable : f[1] # k => (Claimed(f, t)' <=> Claimed(f, t))
        BY <2>3 DEF Claimed
      <3> QED BY <2>1, <2>2, <2>5, <3>1 DEF WorkerInv, ClaimHasWorker
    <2> QED BY <2>6, <2>7, <2>8 DEF WorkerInv
  <1>3. CASE Stop(k) \/ LoopError(k)
    <2>1. /\ loop'[k].pc = "off" /\ UNCHANGED <<catchup, claim>>
          /\ mode'[k] = "stopping" \/ mode'[k] = mode[k]
      BY <1>0, <1>3 DEF Stop, LoopError, TypeOK
    <2>2. \A j \in Kernels : j # k => mode'[j] = mode[j] /\ loop'[j] = loop[j]
      BY <1>3 DEF Stop, LoopError, TypeOK
    <2>3. \A f \in Fibers : f # <<k, "loop">> => job'[f] = job[f]
      BY <1>0, <1>3 DEF Stop, LoopError, TypeOK
    <2>4. mode'[k] = "stopping" \/ \A t \in Tasks : job'[<<k, "loop">>][t].ph = "none"
      BY <1>0, <1>3 DEF Stop, LoopError, TypeOK
    <2>5. NewIsFresh'
      BY <2>1, <2>2 DEF WorkerInv, NewIsFresh
    <2>6. LoopRests' /\ CatchupRests'
      <3>1. \A j \in Kernels : j # k => job'[<<j, "loop">>] = job[<<j, "loop">>]
        BY <2>3, FiberFacts
      <3>2. \A j \in Kernels : job'[<<j, "catchup">>] = job[<<j, "catchup">>]
        BY <2>3, FiberFacts
      <3>3. LoopRests'
        BY <2>2, <2>4, <3>1 DEF WorkerInv, LoopRests
      <3>4. CatchupRests'
        BY <2>1, <3>2 DEF WorkerInv, CatchupRests
      <3> QED BY <3>3, <3>4
    <2>7. ClaimHasWorker'
      <3>1. \A f \in Fibers, t \in Durable : f[1] # k => (Claimed(f, t)' <=> Claimed(f, t))
        <4>1. <<k, "loop">>[1] = k
          OBVIOUS
        <4> QED BY <2>3, <4>1 DEF Claimed
      <3> QED BY <2>1, <2>2, <3>1 DEF WorkerInv, ClaimHasWorker
    <2> QED BY <2>5, <2>6, <2>7 DEF WorkerInv
  <1> QED BY <1>1, <1>2, <1>3 DEF Crash, Shutdown

\* The CAS gives a claim to a kernel together with a claimed job of it.
LEMMA ClaimAttemptWorkers ==
  ASSUME TypeOK, WorkerInv, NEW f \in Fibers, NEW t \in Tasks,
         NEW p \in {"queued", "starting"}, f[2] # "trigger", job[f][t].ph = "due",
         _claim_tasks(f, t, p), UNCHANGED <<mode, loop, catchup, swept>>
  PROVE  WorkerInv'
  <1>0. /\ p \in Phases /\ NoJob \in JobType /\ NoJob.ph = "none"
        /\ Durable \subseteq Tasks /\ f[1] \in Kernels /\ None \notin Kernels
    BY EmptyRecords, CronAssumption, FiberFacts DEF Phases, NoJob
  <1>1. ~Claimed(f, t) /\ f[1] \in Kernels /\ mode[f[1]] # "new"
    <2>1. f = <<f[1], "loop">> \/ f = <<f[1], "catchup">>
      BY DEF Fibers, Kinds
    <2>2. f = <<f[1], "loop">> => mode[f[1]] = "stopping" \/ loop[f[1]].pc = "claim"
      BY <1>0 DEF WorkerInv, LoopRests
    <2>3. f = <<f[1], "catchup">> => catchup[f[1]] = "scan"
      BY <1>0 DEF WorkerInv, CatchupRests
    <2> QED BY <1>0, <2>1, <2>2, <2>3 DEF WorkerInv, NewIsFresh, Claimed, Working
  <1>2. ASSUME \A g \in Fibers, u \in Tasks : g # f \/ u # t => job'[g][u] = job[g][u]
        PROVE  /\ LoopRests' /\ CatchupRests'
               /\ \A g \in Fibers, u \in Durable :
                    g # f \/ u # t => (Claimed(g, u)' <=> Claimed(g, u))
    <2>1. LoopRests' /\ CatchupRests'
      BY <1>2, RestsStay, FiberFacts DEF WorkerInv
    <2> QED BY <1>0, <1>2, <2>1 DEF Claimed
  <1>3. CASE Step(f, t, p) /\ claim' = [claim EXCEPT ![t] = ClaimBy(f[1])]
    <2>1. /\ job'[f][t].ph = p
          /\ \A g \in Fibers, u \in Tasks : g # f \/ u # t => job'[g][u] = job[g][u]
      BY <1>0, <1>3, StepMoves, MovesEffect DEF TypeOK
    <2>2. Claimed(f, t)'
      BY <2>1 DEF Claimed, Working, Phases
    <2>3. /\ claim'[t].by = f[1]
          /\ \A u \in Durable : u # t => claim'[u] = claim[u]
      BY <1>0, <1>3 DEF TypeOK, ClaimBy, NoClaim
    <2>4. NewIsFresh'
      BY <1>1, <2>3 DEF WorkerInv, NewIsFresh
    <2>5. ClaimHasWorker'
      <3> SUFFICES ASSUME NEW u \in Durable, NEW k \in Kernels, claim'[u].by = k,
                          ~claim'[u].leaked, mode[k] = "up", loop[k].pc # "off"
                   PROVE  \E g \in Fibers : g[1] = k /\ Claimed(g, u)'
        BY DEF ClaimHasWorker
      <3>1. CASE u = t
        BY <2>2, <2>3, <3>1
      <3>2. CASE u # t
        BY <1>2, <2>1, <2>3, <3>2 DEF WorkerInv, ClaimHasWorker
      <3> QED BY <3>1, <3>2
    <2> QED BY <1>2, <2>1, <2>4, <2>5 DEF WorkerInv
  <1>4. CASE SetJob(f, t, NoJob) /\ UNCHANGED claim
    <2>1. \A g \in Fibers, u \in Tasks : g # f \/ u # t => job'[g][u] = job[g][u]
      BY <1>0, <1>4, SetJobEffect DEF TypeOK
    <2>2. \A g \in Fibers, u \in Durable : Claimed(g, u) => Claimed(g, u)'
      BY <1>1, <1>2, <2>1
    <2> QED BY <1>2, <1>4, <2>1, <2>2, WorkersStay DEF SameHolder
  <1> QED BY <1>3, <1>4 DEF _claim_tasks

\* The scheduler loop: it lists with no job left and sleeps when the batch ended.
LEMMA LoopStepWorkers ==
  ASSUME TypeOK, WorkerInv, NEW k \in Kernels, LoopStep(k)
  PROVE  WorkerInv'
  <1>0. /\ <<k, "loop">> \in Fibers /\ Durable \subseteq Tasks
        /\ \A j \in Kernels : <<j, "catchup">> # <<k, "loop">>
        /\ \A j \in Kernels : j # k => <<j, "loop">> # <<k, "loop">>
    BY FiberFacts, CronAssumption
  <1>1. CASE LoopCleanup(k)
    <2>1. /\ UNCHANGED <<mode, catchup, job>>
          /\ \A j \in Kernels : \/ loop'[j].pc = loop[j].pc
                                \/ loop[j].pc = "cleanup" /\ loop'[j].pc = "list"
      BY <1>1 DEF LoopCleanup, TypeOK, LoopType
    <2>2. \A t \in Durable : SameHolder(t) \/ claim'[t].by = None
      BY <1>0, <1>1 DEF LoopCleanup, _cleanup_stale_claims, NoClaim, SameHolder
    <2>3. \A f \in Fibers, t \in Durable : Claimed(f, t) => Claimed(f, t)'
      BY <2>1 DEF Claimed
    <2>4. LoopRests' /\ CatchupRests'
      BY <2>1, RestsStay DEF WorkerInv
    <2> QED BY <2>1, <2>2, <2>3, <2>4, WorkersStay DEF SameHolder
  <1>2. CASE LoopList(k)
    <2>1. /\ UNCHANGED <<claim, mode, catchup>>
          /\ loop[k].pc = "list" /\ loop'[k].pc = "claim"
          /\ \A j \in Kernels : j # k => loop'[j] = loop[j]
      BY <1>2 DEF LoopList, TypeOK, LoopType
    <2>2. \A f \in Fibers : f # <<k, "loop">> => job'[f] = job[f]
      BY <1>0, <1>2 DEF LoopList, TypeOK
    <2>3. LoopRests' /\ CatchupRests'
      BY <1>0, <2>1, <2>2, RestsStay, FiberFacts DEF WorkerInv
    <2>4. \A t \in Durable : Claimed(<<k, "loop">>, t) => mode[k] = "stopping"
      BY <1>0, <2>1 DEF WorkerInv, LoopRests, Claimed, Working
    <2>5. ClaimHasWorker'
      <3> SUFFICES ASSUME NEW u \in Durable, NEW j \in Kernels, claim[u].by = j,
                          ~claim[u].leaked, mode[j] = "up", loop'[j].pc # "off"
                   PROVE  \E g \in Fibers : g[1] = j /\ Claimed(g, u)'
        BY <2>1 DEF ClaimHasWorker
      <3>1. PICK g \in Fibers : g[1] = j /\ Claimed(g, u)
        BY <2>1 DEF WorkerInv, ClaimHasWorker
      <3>2. g # <<k, "loop">>
        BY <2>4, <3>1
      <3> QED BY <2>2, <3>1, <3>2 DEF Claimed
    <2>6. NewIsFresh'
      BY <2>1 DEF WorkerInv, NewIsFresh
    <2> QED BY <2>3, <2>5, <2>6 DEF WorkerInv
  <1>3. CASE LoopSleep(k) \/ LoopWake(k)
    <2>1. /\ UNCHANGED <<claim, mode, catchup, job>>
          /\ \A j \in Kernels : j # k => loop'[j] = loop[j]
          /\ loop[k].pc # "off" /\ loop'[k].pc # "off"
          /\ loop[k].pc = "claim" => ~Busy(<<k, "loop">>)
      <3>0. loop[k] \in LoopType
        BY DEF TypeOK
      <3>1. CASE LoopSleep(k)
        BY <3>0, <3>1 DEF LoopSleep, TypeOK, LoopType
      <3>2. CASE LoopWake(k)
        BY <3>0, <3>2 DEF LoopWake, TypeOK, LoopType
      <3> QED BY <1>3, <3>1, <3>2
    <2>2. LoopRests' /\ CatchupRests'
      BY <2>1, RestsStay DEF WorkerInv
    <2>3. \A f \in Fibers, t \in Durable : Claimed(f, t) => Claimed(f, t)'
      BY <2>1 DEF Claimed
    <2> QED BY <2>1, <2>2, <2>3, WorkersStay DEF SameHolder
  <1>4. ASSUME NEW t \in Tasks, LoopExpire(k, t) PROVE WorkerInv'
    <2>1. /\ UNCHANGED <<claim, mode, catchup, job>>
          /\ \A j \in Kernels : loop'[j].pc = loop[j].pc
      BY <1>4 DEF LoopExpire, TypeOK, LoopType
    <2>2. LoopRests' /\ CatchupRests'
      BY <2>1, RestsStay DEF WorkerInv
    <2>3. \A f \in Fibers, u \in Durable : Claimed(f, u) => Claimed(f, u)'
      BY <2>1 DEF Claimed
    <2> QED BY <2>1, <2>2, <2>3, WorkersStay DEF SameHolder
  <1>5. ASSUME NEW t \in Tasks, LoopClaim(k, t) PROVE WorkerInv'
    BY <1>0, <1>5, ClaimAttemptWorkers DEF LoopClaim
  <1>6. ASSUME NEW t \in Tasks, LoopFire(k, t) PROVE WorkerInv'
    <2>1. /\ job'[<<k, "loop">>][t].ph = "starting"
          /\ \A g \in Fibers, u \in Tasks :
               g # <<k, "loop">> \/ u # t => job'[g][u] = job[g][u]
      BY <1>0, <1>6, StepMoves, MovesEffect DEF LoopFire, TypeOK, Phases
    <2>2. /\ loop[k].pc = "claim" /\ job[<<k, "loop">>][t].ph = "queued"
          /\ UNCHANGED <<claim, mode, loop, catchup, swept>>
      BY <1>6 DEF LoopFire
    <2>3. LoopRests' /\ CatchupRests'
      BY <1>0, <2>1, <2>2, RestsStay, FiberFacts DEF WorkerInv
    <2>4. \A g \in Fibers, u \in Durable : Claimed(g, u) => Claimed(g, u)'
      <3>1. <<k, "loop">>[2] # "trigger"
        OBVIOUS
      <3>2. Claimed(<<k, "loop">>, t)'
        BY <2>1, <3>1 DEF Claimed, Working, Phases
      <3>3. \A g \in Fibers, u \in Durable : g # <<k, "loop">> \/ u # t
              => (Claimed(g, u)' <=> Claimed(g, u))
        BY <1>0, <2>1 DEF Claimed
      <3> QED BY <3>2, <3>3
    <2> QED BY <2>2, <2>3, <2>4, WorkersStay DEF SameHolder
  <1> QED BY <1>1, <1>2, <1>3, <1>4, <1>5, <1>6 DEF LoopStep

\* The startup catch-up.
LEMMA CatchupStepWorkers ==
  ASSUME TypeOK, WorkerInv, NEW k \in Kernels, CatchupStep(k)
  PROVE  WorkerInv'
  <1>0. /\ <<k, "catchup">> \in Fibers /\ Durable \subseteq Tasks
        /\ \A j \in Kernels : <<j, "loop">> # <<k, "catchup">>
        /\ \A j \in Kernels : j # k => <<j, "catchup">> # <<k, "catchup">>
    BY FiberFacts, CronAssumption
  <1>1. CASE CatchupCleanup(k)
    <2>1. /\ UNCHANGED <<mode, loop, job>>
          /\ \A j \in Kernels : \/ catchup'[j] = catchup[j]
                                \/ catchup[j] = "cleanup" /\ catchup'[j] = "list"
      BY <1>1 DEF CatchupCleanup, TypeOK
    <2>2. \A t \in Durable : SameHolder(t) \/ claim'[t].by = None
      BY <1>0, <1>1 DEF CatchupCleanup, _cleanup_stale_claims, NoClaim, SameHolder
    <2>3. \A f \in Fibers, t \in Durable : Claimed(f, t) => Claimed(f, t)'
      BY <2>1 DEF Claimed
    <2>4. LoopRests' /\ CatchupRests'
      BY <2>1, RestsStay DEF WorkerInv
    <2> QED BY <2>1, <2>2, <2>3, <2>4, WorkersStay DEF SameHolder
  <1>2. CASE CatchupList(k)
    <2>1. /\ UNCHANGED <<claim, mode, loop>>
          /\ catchup[k] = "list" /\ catchup'[k] = "scan"
          /\ \A j \in Kernels : j # k => catchup'[j] = catchup[j]
      BY <1>2 DEF CatchupList, TypeOK
    <2>2. \A f \in Fibers : f # <<k, "catchup">> => job'[f] = job[f]
      BY <1>0, <1>2 DEF CatchupList, TypeOK
    <2>3. LoopRests' /\ CatchupRests'
      BY <1>0, <2>1, <2>2, RestsStay, FiberFacts DEF WorkerInv
    <2>4. \A t \in Durable : ~Claimed(<<k, "catchup">>, t)
      BY <1>0, <2>1 DEF WorkerInv, CatchupRests, Claimed, Working
    <2>5. \A f \in Fibers, t \in Durable : Claimed(f, t) => Claimed(f, t)'
      <3>1. \A f \in Fibers, t \in Durable :
              f # <<k, "catchup">> /\ Claimed(f, t) => Claimed(f, t)'
        BY <2>2 DEF Claimed
      <3> QED BY <2>4, <3>1
    <2> QED BY <2>1, <2>3, <2>5, WorkersStay DEF SameHolder
  <1>3. CASE CatchupDone(k)
    <2>1. /\ UNCHANGED <<claim, mode, loop, job>>
          /\ \A j \in Kernels : j # k => catchup'[j] = catchup[j]
          /\ catchup[k] = "scan" /\ ~Busy(<<k, "catchup">>)
      BY <1>3 DEF CatchupDone, TypeOK
    <2>2. LoopRests' /\ CatchupRests'
      BY <2>1, RestsStay DEF WorkerInv
    <2>3. \A f \in Fibers, t \in Durable : Claimed(f, t) => Claimed(f, t)'
      BY <2>1 DEF Claimed
    <2> QED BY <2>1, <2>2, <2>3, WorkersStay DEF SameHolder
  <1>4. ASSUME NEW t \in Tasks, CatchupSkip(k, t) PROVE WorkerInv'
    <2>1. NoJob.ph = "none" /\ NoJob \in JobType
      BY EmptyRecords DEF NoJob
    <2>2. job \in [Fibers -> [Tasks -> JobType]]
      BY DEF TypeOK
    <2>3. SetJob(<<k, "catchup">>, t, NoJob)
      BY <1>4, Zenon DEF CatchupSkip
    <2>4. /\ job'[<<k, "catchup">>][t] = NoJob
          /\ \A g \in Fibers, u \in Tasks :
               g # <<k, "catchup">> \/ u # t => job'[g][u] = job[g][u]
      BY <1>0, <2>1, <2>2, <2>3, SetJobEffect
    <2>5. /\ job[<<k, "catchup">>][t].ph = "due"
          /\ UNCHANGED <<claim, mode, loop, catchup, swept>>
      BY <1>4 DEF CatchupSkip, CatchupTurn
    <2>6. LoopRests' /\ CatchupRests'
      BY <1>0, <2>1, <2>4, <2>5, RestsStay, FiberFacts DEF WorkerInv
    <2>7. \A g \in Fibers, u \in Durable : Claimed(g, u) => Claimed(g, u)'
      <3>1. \A g \in Fibers, u \in Durable : g # <<k, "catchup">> \/ u # t
              => (Claimed(g, u)' <=> Claimed(g, u))
        BY <1>0, <2>4 DEF Claimed
      <3>2. ~Claimed(<<k, "catchup">>, t)
        BY <2>5 DEF Claimed, Working
      <3> QED BY <3>1, <3>2
    <2> QED BY <2>5, <2>6, <2>7, WorkersStay DEF SameHolder
  <1>5. ASSUME NEW t \in Tasks, CatchupClaim(k, t) PROVE WorkerInv'
    BY <1>0, <1>5, ClaimAttemptWorkers DEF CatchupClaim, CatchupTurn
  <1>6. CASE CatchupError(k)
    <2>1. /\ UNCHANGED <<claim, mode, loop>> /\ catchup'[k] = "off"
          /\ \A j \in Kernels : j # k => catchup'[j] = catchup[j]
      BY <1>6 DEF CatchupError, TypeOK
    <2>2. \A f \in Fibers : f # <<k, "catchup">> => job'[f] = job[f]
      BY <1>0, <1>6 DEF CatchupError, TypeOK
    <2>3. \A t \in Tasks : job'[<<k, "catchup">>][t].ph = "none"
      BY <1>0, <1>6 DEF CatchupError, TypeOK, NoJob
    <2>4. LoopRests'
      <3>1. \A j \in Kernels : job'[<<j, "loop">>] = job[<<j, "loop">>]
        BY <1>0, <2>2, FiberFacts
      <3> QED BY <2>1, <3>1 DEF WorkerInv, LoopRests
    <2>5. CatchupRests'
      <3>1. \A j \in Kernels : j # k => job'[<<j, "catchup">>] = job[<<j, "catchup">>]
        BY <1>0, <2>2, FiberFacts
      <3> QED BY <2>1, <2>3, <3>1 DEF WorkerInv, CatchupRests
    <2>6. \A t \in Durable : ~Claimed(<<k, "catchup">>, t)
      BY <1>0, <1>6 DEF CatchupError, Claimed, Working
    <2>7. \A f \in Fibers, t \in Durable : Claimed(f, t) => Claimed(f, t)'
      <3>1. \A f \in Fibers, t \in Durable :
              f # <<k, "catchup">> /\ Claimed(f, t) => Claimed(f, t)'
        BY <2>2 DEF Claimed
      <3> QED BY <2>6, <3>1
    <2> QED BY <2>1, <2>4, <2>5, <2>7, WorkersStay DEF SameHolder
  <1> QED BY <1>1, <1>2, <1>3, <1>4, <1>5, <1>6 DEF CatchupStep

\* What a step outside the claims and the jobs keeps: user operations and time.
LEMMA ElsewhereWorkers ==
  ASSUME TypeOK, WorkerInv, UNCHANGED <<mode, catchup>>,
         \A k \in Kernels : loop'[k].pc = loop[k].pc,
         \A t \in Durable : SameHolder(t),
         \A f \in Fibers, t \in Tasks : f[2] # "trigger" => job'[f][t].ph = job[f][t].ph
  PROVE  WorkerInv'
  <1>1. \A k \in Kernels : <<k, "loop">>[2] # "trigger" /\ <<k, "catchup">>[2] # "trigger"
    OBVIOUS
  <1>2. LoopRests' /\ CatchupRests'
    BY <1>1, RestsStay, FiberFacts DEF WorkerInv
  <1>3. \A f \in Fibers, t \in Durable : Claimed(f, t) => Claimed(f, t)'
    BY CronAssumption DEF Claimed
  <1> QED BY <1>2, <1>3, WorkersStay DEF SameHolder

\* User operations.
LEMMA UserStepWorkers ==
  ASSUME TypeOK, WorkerInv, NEW k \in Kernels, UserStep(k)
  PROVE  WorkerInv'
  <1>1. /\ UNCHANGED <<claim, mode, catchup>>
        /\ \A j \in Kernels : loop'[j].pc = loop[j].pc
    <2>1. UNCHANGED <<claim, mode, catchup>> /\ (UNCHANGED loop \/ Notify(k))
      BY DEF UserStep, CreateAdd, PauseWrite, ResumeWrite, CreateCheck, PauseCheck,
             ResumeCheck, DeleteTask, TriggerNow
    <2>2. Notify(k) => \A j \in Kernels : loop'[j].pc = loop[j].pc
      BY DEF Notify, TypeOK, LoopType
    <2> QED BY <2>1, <2>2
  <1>2. \A f \in Fibers, t \in Tasks : f[2] # "trigger" => job'[f][t].ph = job[f][t].ph
    <2>1. ASSUME NEW t \in Tasks, TriggerNow(k, t)
          PROVE  \A f \in Fibers, u \in Tasks : f[2] # "trigger" => job'[f][u] = job[f][u]
      <3>1. <<k, "trigger">> \in Fibers /\ "starting" \in Phases
        BY <2>1 DEF TriggerNow, CanAsk, Fibers, Kinds, Phases
      <3>2. \A g \in Fibers, u \in Tasks :
              g # <<k, "trigger">> \/ u # t => job'[g][u] = job[g][u]
        BY <2>1, <3>1, StepMoves, MovesEffect DEF TriggerNow, TypeOK
      <3> QED BY <3>2
    <2>2. CASE UNCHANGED job
      BY <2>2
    <2> QED BY <2>1, <2>2
        DEF UserStep, CreateAdd, PauseWrite, ResumeWrite, CreateCheck, PauseCheck,
            ResumeCheck, DeleteTask
  <1> QED BY <1>1, <1>2, ElsewhereWorkers DEF SameHolder

\* WorkerInv holds throughout.
LEMMA WorkerInvariant == Spec => []WorkerInv
  <1>1. Init => WorkerInv
    <2> SUFFICES ASSUME Init PROVE WorkerInv
      OBVIOUS
    <2>1. \A f \in Fibers, t \in Tasks : job[f][t].ph = "none"
      BY DEF Init, NoJob
    <2>2. \A t \in Durable : claim[t].by = None
      BY CronAssumption DEF Init, NoClaim
    <2>3. NewIsFresh
      BY <2>2, CronAssumption DEF Init, NewIsFresh, LoopOff
    <2>4. LoopRests /\ CatchupRests
      BY <2>1, FiberFacts DEF LoopRests, CatchupRests
    <2>5. ClaimHasWorker
      BY <2>2, CronAssumption DEF ClaimHasWorker
    <2> QED BY <2>3, <2>4, <2>5 DEF WorkerInv
  <1>2. TypeOK /\ ClaimInv /\ WorkerInv /\ [Next]_vars => WorkerInv'
    <2> SUFFICES ASSUME TypeOK, ClaimInv, WorkerInv, [Next]_vars PROVE WorkerInv'
      OBVIOUS
    <2>1. CASE UNCHANGED vars
      BY <2>1, ElsewhereWorkers DEF vars, SameHolder
    <2>2. CASE Tick
      BY <2>2, TickEffect, ElsewhereWorkers, CronAssumption DEF SameHolder
    <2>3. ASSUME NEW k \in Kernels, KernelStep(k) PROVE WorkerInv'
      BY <2>3, LifeStepWorkers, LoopStepWorkers, CatchupStepWorkers, UserStepWorkers
      DEF KernelStep
    <2>4. ASSUME NEW f \in Fibers, NEW t \in Tasks, JobStep(f, t) \/ Heartbeat(f, t) \/ HeartbeatFails(f, t)
          PROVE  WorkerInv'
      BY <2>4, JobStepWorkers
    <2> QED BY <2>1, <2>2, <2>3, <2>4 DEF Next
  <1> QED BY <1>1, <1>2, TypeCorrect, ClaimInvariant, PTL DEF Spec

\* Under a running loop a claim leaks in one way only, for any kernels and tasks, failing
\* writes included: whatever ends a claimed job also ends the claim (_release_task), the
\* loop or the process, but for a release that raised itself.
THEOREM ClaimsAreWorked == Spec => []ClaimHasWorker
  <1>1. WorkerInv => ClaimHasWorker
    BY DEF WorkerInv
  <1> QED BY <1>1, WorkerInvariant, PTL

(***************************************************************************)
(* A finished task stays finished.                                         *)
(***************************************************************************)

\* Write touches no other row.
LEMMA WriteElsewhere ==
  ASSUME TypeOK, NEW t \in Tasks, NEW r, Write(t, r)
  PROVE  \A u \in Tasks : u # t => row'[u] = row[u]
  BY DEF Write, TypeOK

\* A job action writes the row of its own task, and a trigger's writes none.
LEMMA JobStepRows ==
  ASSUME TypeOK, ClaimInv, NEW f \in Fibers, NEW t \in Tasks,
         JobStep(f, t) \/ Heartbeat(f, t) \/ HeartbeatFails(f, t)
  PROVE  /\ \A u \in Tasks : u # t => row'[u] = row[u]
         /\ f[2] = "trigger" => row' = row
         /\ op' = op \/ op' = [op EXCEPT ![f[1]] = NoOp]
  <1>1. UNCHANGED row \/ \E r : Write(t, r)
    BY Zenon DEF JobStep, BeginTurn, SessionFails, Heartbeat, HeartbeatFails, EndTurn,
       TriggerEnds, RecordFired, RecordCompleted, RecordFails, HandleFailure, HandleFails,
       FailureAlert, _release_task, ReleaseFails
  <1>2. \A u \in Tasks : u # t => row'[u] = row[u]
    BY <1>1, WriteElsewhere
  <1>3. ASSUME f[2] = "trigger" PROVE row' = row
    <2>1. job[f][t].ph \notin {"complete", "alert", "release"}
      BY <1>3 DEF ClaimInv, TriggersHoldNothing
    <2> QED BY <1>3, <2>1
        DEF JobStep, BeginTurn, SessionFails, Heartbeat, HeartbeatFails, EndTurn, TriggerEnds,
            RecordFired, RecordCompleted, RecordFails, HandleFailure, Failing, HandleFails,
            FailureAlert, _release_task, ReleaseFails
  <1>4. op' = op \/ op' = [op EXCEPT ![f[1]] = NoOp]
    BY DEF JobStep, BeginTurn, SessionFails, Heartbeat, HeartbeatFails, EndTurn, TriggerEnds,
           RecordFired, RecordCompleted, RecordFails, HandleFailure, HandleFails,
           FailureAlert, _release_task, ReleaseFails
  <1> QED BY <1>2, <1>3, <1>4

\* What a step must not do to a finished task: write an unfinished status, claim
\* it, list it for the catch-up or read it for a later write.
LEMMA FinishedStays ==
  ASSUME NEW t \in Durable, Finished(t),
         row'[t].status \in {"completed", "expired", "deleted"},
         \A f \in Fibers : Claimed(f, t)' => Claimed(f, t),
         \A k \in Kernels : job'[<<k, "catchup">>][t].ph = "due"
                              => job[<<k, "catchup">>][t].ph = "due",
         \A k \in Kernels : op'[k] = op[k] \/ op'[k].t # t \/ op'[k].kind = "trigger"
  PROVE  Finished(t)'
  BY DEF Finished

\* A job action on a finished task is a trigger's, which writes nothing.
LEMMA JobStepFinal ==
  ASSUME TypeOK, ClaimInv, NEW f \in Fibers, NEW u \in Tasks,
         JobStep(f, u) \/ Heartbeat(f, u) \/ HeartbeatFails(f, u), NEW t \in Durable, Finished(t)
  PROVE  Finished(t)'
  <1>0. t \in Tasks /\ NoOp.t # t /\ f[1] \in Kernels
    BY CronAssumption, FiberFacts DEF NoOp
  <1>1. u = t => f[2] = "trigger"
    BY JobStepFrom DEF Finished
  <1>2. row'[t] = row[t]
    BY <1>0, <1>1, JobStepRows
  <1>3. \A g \in Fibers : Claimed(g, t)' => Claimed(g, t)
    BY <1>0, <1>1, JobStepEffect DEF Claimed
  <1>4. \A k \in Kernels : job'[<<k, "catchup">>][t].ph = "due"
                            => job[<<k, "catchup">>][t].ph = "due"
    <2> SUFFICES ASSUME NEW k \in Kernels, job'[<<k, "catchup">>][t].ph = "due"
                 PROVE  job[<<k, "catchup">>][t].ph = "due"
      OBVIOUS
    <2>1. CASE f = <<k, "catchup">> /\ u = t
      BY <2>1, JobStepEffect
    <2>2. CASE f # <<k, "catchup">> \/ u # t
      <3>1. job'[<<k, "catchup">>][t] = job[<<k, "catchup">>][t]
        <4>1. \A g \in Fibers, v \in Tasks : g # f \/ v # u => job'[g][v] = job[g][v]
          BY JobStepEffect
        <4> QED BY <1>0, <2>2, <4>1, FiberFacts
      <3> QED BY <3>1
    <2> QED BY <2>1, <2>2
  <1>5. \A k \in Kernels : op'[k] = op[k] \/ op'[k].t # t
    BY <1>0, JobStepRows DEF TypeOK
  <1>6. row'[t].status \in {"completed", "expired", "deleted"}
    BY <1>2 DEF Finished
  <1> QED BY <1>3, <1>4, <1>5, <1>6, FinishedStays

\* Losing a process takes jobs and operations away and leaves durable rows alone.
LEMMA LifeStepFinal ==
  ASSUME TypeOK, NEW k \in Kernels,
         Startup(k) \/ Crash(k) \/ Stop(k) \/ Shutdown(k) \/ LoopError(k),
         NEW t \in Durable, Finished(t)
  PROVE  Finished(t)'
  <1>0. /\ t \in Tasks /\ NoOp.t # t /\ NoJob.ph = "none" /\ <<k, "loop">> \in Fibers
        /\ [NoJob EXCEPT !.ph = "release"].ph = "release"
    BY CronAssumption, FiberFacts DEF NoOp, NoJob
  <1>1. row'[t] = row[t]
    BY <1>0 DEF Startup, Crash, Stop, Shutdown, LoopError, Gone
  <1>2. \A f \in Fibers : \/ job'[f][t].ph \in {job[f][t].ph, "none"}
                          \/ job[f][t].ph \in Working /\ job'[f][t].ph = "release"
    <2>1. CASE Startup(k)
      BY <2>1 DEF Startup
    <2>2. CASE Gone(k)
      BY <1>0, <2>2 DEF Gone
    <2>3. CASE Stop(k)
      BY <1>0, <2>3 DEF Stop, TypeOK
    <2>4. CASE LoopError(k)
      BY <1>0, <2>4 DEF LoopError, TypeOK
    <2> QED BY <2>1, <2>2, <2>3, <2>4 DEF Crash, Shutdown
  <1>3. \A f \in Fibers : Claimed(f, t)' => Claimed(f, t)
    BY <1>2 DEF Claimed, Working
  <1>4. \A j \in Kernels : job'[<<j, "catchup">>][t].ph = "due"
                            => job[<<j, "catchup">>][t].ph = "due"
    BY <1>2, FiberFacts
  <1>5. \A j \in Kernels : op'[j] = op[j] \/ op'[j].t # t
    BY <1>0 DEF Startup, Crash, Stop, Shutdown, LoopError, Gone, TypeOK
  <1>6. row'[t].status \in {"completed", "expired", "deleted"}
    BY <1>1 DEF Finished
  <1> QED BY <1>3, <1>4, <1>5, <1>6, FinishedStays

\* The loop may expire a finished task, and its CAS refuses one.
LEMMA LoopStepFinal ==
  ASSUME TypeOK, NEW k \in Kernels, LoopStep(k), NEW t \in Durable, Finished(t)
  PROVE  Finished(t)'
  <1>0. /\ t \in Tasks /\ NoJob.ph = "none" /\ NoJob \in JobType
        /\ <<k, "loop">> \in Fibers
        /\ \A j \in Kernels : <<j, "catchup">> # <<k, "loop">>
    BY CronAssumption, FiberFacts, EmptyRecords DEF NoJob
  <1>1. op' = op
    BY DEF LoopStep, LoopCleanup, LoopList, LoopSleep, LoopWake, LoopExpire, LoopClaim,
           LoopFire
  <1>2. row'[t].status \in {"completed", "expired", "deleted"}
    <2>1. ASSUME NEW u \in Tasks, LoopExpire(k, u)
          PROVE  row'[t].status \in {"completed", "expired", "deleted"}
      <3>1. CASE u # t
        BY <1>0, <2>1, <3>1, WriteElsewhere DEF LoopExpire, Finished
      <3>2. CASE u = t
        <4>1. row' = [row EXCEPT ![t] = [row[t] EXCEPT !.status = "expired", !.next = None]]
          BY <2>1, <3>2 DEF LoopExpire, Write
        <4> QED BY <1>0, <4>1 DEF TypeOK, RowType
      <3> QED BY <3>1, <3>2
    <2>2. CASE UNCHANGED row
      BY <2>2 DEF Finished
    <2> QED BY <2>1, <2>2
        DEF LoopStep, LoopCleanup, LoopList, LoopSleep, LoopWake, LoopClaim, LoopFire
  <1>3. \A f \in Fibers : f # <<k, "loop">> => job'[f] = job[f]
    BY <1>0 DEF LoopStep, LoopCleanup, LoopList, LoopSleep, LoopWake, LoopExpire, LoopClaim,
           LoopFire, _claim_tasks, Step, SetJob, TypeOK
  <1>4. ~Claimed(<<k, "loop">>, t)'
    <2>0. ~Claimed(<<k, "loop">>, t) /\ row[t].status # "active"
      BY <1>0 DEF Finished
    <2>1. CASE LoopList(k)
      <3>1. \E due : job' = [job EXCEPT ![<<k, "loop">>] = Listed(due)]
        BY <2>1, Zenon DEF LoopList
      <3>2. \A due : Listed(due)[t].ph \in {"due", "none"}
        BY <1>0 DEF Listed, NoJob
      <3>3. job'[<<k, "loop">>][t].ph \in {"due", "none"}
        BY <1>0, <3>1, <3>2 DEF TypeOK
      <3> QED BY <3>3 DEF Claimed, Working
    <2>2. ASSUME NEW u \in Tasks, LoopClaim(k, u) PROVE ~Claimed(<<k, "loop">>, t)'
      <3>1. CASE u = t
        <4>1. SetJob(<<k, "loop">>, t, NoJob)
          BY <2>0, <2>2, <3>1 DEF LoopClaim, _claim_tasks
        <4>2. job'[<<k, "loop">>][t] = NoJob
          BY <1>0, <4>1, SetJobEffect DEF TypeOK
        <4> QED BY <1>0, <4>2 DEF Claimed, Working
      <3>2. CASE u # t
        <4>1. job'[<<k, "loop">>][t] = job[<<k, "loop">>][t]
          BY <1>0, <2>2, <3>2 DEF LoopClaim, _claim_tasks, Step, SetJob, TypeOK
        <4> QED BY <2>0, <4>1 DEF Claimed
      <3> QED BY <3>1, <3>2
    <2>3. ASSUME NEW u \in Tasks, LoopFire(k, u) PROVE ~Claimed(<<k, "loop">>, t)'
      <3>1. u # t
        BY <2>0, <2>3 DEF LoopFire, Claimed
      <3>2. job'[<<k, "loop">>][t] = job[<<k, "loop">>][t]
        BY <1>0, <2>3, <3>1 DEF LoopFire, Step, SetJob, TypeOK
      <3> QED BY <2>0, <3>2 DEF Claimed
    <2>4. CASE UNCHANGED job
      BY <2>0, <2>4 DEF Claimed
    <2> QED BY <2>1, <2>2, <2>3, <2>4
        DEF LoopStep, LoopCleanup, LoopSleep, LoopWake, LoopExpire
  <1>5. \A f \in Fibers : Claimed(f, t)' => Claimed(f, t)
    BY <1>3, <1>4 DEF Claimed
  <1>6. \A j \in Kernels : job'[<<j, "catchup">>] = job[<<j, "catchup">>]
    BY <1>0, <1>3, FiberFacts
  <1> QED BY <1>1, <1>2, <1>5, <1>6, FinishedStays

\* The catch-up lists active tasks only.
LEMMA CatchupStepFinal ==
  ASSUME TypeOK, NEW k \in Kernels, CatchupStep(k), NEW t \in Durable, Finished(t)
  PROVE  Finished(t)'
  <1>0. /\ t \in Tasks /\ NoJob.ph = "none" /\ <<k, "catchup">> \in Fibers
        /\ row[t].status # "active" /\ job[<<k, "catchup">>][t].ph # "due"
    BY CronAssumption, FiberFacts DEF NoJob, Finished
  <1>1. op' = op
    BY DEF CatchupStep, CatchupCleanup, CatchupList, CatchupDone, CatchupError, CatchupSkip,
           CatchupClaim
  <1>2. row'[t] = row[t]
    <2>1. ASSUME NEW u \in Tasks, CatchupSkip(k, u) PROVE row'[t] = row[t]
      <3>1. u # t
        BY <1>0, <2>1 DEF CatchupSkip, CatchupTurn
      <3>2. UNCHANGED row \/ \E r : Write(u, r)
        BY <2>1, Zenon DEF CatchupSkip
      <3> QED BY <1>0, <3>1, <3>2, WriteElsewhere
    <2> QED
      BY <2>1
      DEF CatchupStep, CatchupCleanup, CatchupList, CatchupDone, CatchupError, CatchupClaim
  <1>3. \A f \in Fibers : f # <<k, "catchup">> => job'[f] = job[f]
    BY <1>0 DEF CatchupStep, CatchupCleanup, CatchupList, CatchupDone, CatchupError,
           CatchupSkip, CatchupClaim, _claim_tasks, Step, SetJob, TypeOK
  <1>4. \/ job'[<<k, "catchup">>][t] = job[<<k, "catchup">>][t]
        \/ job'[<<k, "catchup">>][t].ph = "none"
    <2>1. CASE CatchupList(k)
      <3> DEFINE due == {u \in Active(k) : row[u].next = 0 /\ claim[u].by = None}
      <3>1. job' = [job EXCEPT ![<<k, "catchup">>] = Listed(due)] /\ t \notin due
        BY <1>0, <2>1 DEF CatchupList, Active
      <3>2. Listed(due)[t] = NoJob
        BY <1>0, <3>1 DEF Listed
      <3> QED BY <1>0, <3>1, <3>2 DEF TypeOK
    <2>2. ASSUME NEW u \in Tasks, CatchupSkip(k, u) \/ CatchupClaim(k, u)
          PROVE  job'[<<k, "catchup">>][t] = job[<<k, "catchup">>][t]
      <3>1. u # t
        BY <1>0, <2>2 DEF CatchupSkip, CatchupClaim, CatchupTurn
      <3>2. \E j : SetJob(<<k, "catchup">>, u, j)
        BY <2>2, Zenon DEF CatchupSkip, CatchupClaim, _claim_tasks, Step
      <3> QED BY <1>0, <3>1, <3>2 DEF SetJob, TypeOK
    <2>3. CASE UNCHANGED job
      BY <2>3
    <2>4. CASE CatchupError(k)
      BY <1>0, <2>4 DEF CatchupError, TypeOK
    <2> QED BY <2>1, <2>2, <2>3, <2>4 DEF CatchupStep, CatchupCleanup, CatchupDone
  <1>5. \A f \in Fibers : Claimed(f, t)' => Claimed(f, t)
    BY <1>3, <1>4 DEF Claimed, Working
  <1>6. \A j \in Kernels : job'[<<j, "catchup">>][t].ph = "due"
                            => job[<<j, "catchup">>][t].ph = "due"
    BY <1>0, <1>3, <1>4, FiberFacts
  <1>7. row'[t].status \in {"completed", "expired", "deleted"}
    BY <1>2 DEF Finished
  <1> QED BY <1>1, <1>5, <1>6, <1>7, FinishedStays

\* Users may delete or trigger a finished task; the checks of the other operations
\* refuse it.
LEMMA UserStepFinal ==
  ASSUME TypeOK, NEW k \in Kernels, UserStep(k), NEW t \in Durable, Finished(t)
  PROVE  Finished(t)'
  <1>0. /\ t \in Tasks /\ NoOp.t # t
        /\ row[t].status \notin {"absent", "active", "paused"}
    BY CronAssumption DEF NoOp, Finished
  <1>1. \A f \in Fibers : f[2] # "trigger" => job'[f][t] = job[f][t]
    <2>1. ASSUME NEW u \in Tasks, TriggerNow(k, u)
          PROVE  \A f \in Fibers : f[2] # "trigger" => job'[f][t] = job[f][t]
      <3>1. <<k, "trigger">> \in Fibers /\ "starting" \in Phases
        BY <2>1 DEF TriggerNow, CanAsk, Fibers, Kinds, Phases
      <3>2. \A g \in Fibers, v \in Tasks :
              g # <<k, "trigger">> \/ v # u => job'[g][v] = job[g][v]
        BY <2>1, <3>1, StepMoves, MovesEffect DEF TriggerNow, TypeOK
      <3> QED BY <1>0, <3>2
    <2>2. CASE UNCHANGED job
      BY <2>2
    <2> QED BY <2>1, <2>2
        DEF UserStep, CreateAdd, PauseWrite, ResumeWrite, CreateCheck, PauseCheck,
            ResumeCheck, DeleteTask
  <1>2. \A f \in Fibers : Claimed(f, t)' => Claimed(f, t)
    BY <1>1 DEF Claimed
  <1>3. \A j \in Kernels : job'[<<j, "catchup">>][t] = job[<<j, "catchup">>][t]
    <2>1. \A j \in Kernels : <<j, "catchup">>[2] # "trigger"
      OBVIOUS
    <2> QED BY <1>1, <2>1, FiberFacts
  <1>4. \A j \in Kernels : op'[j] = op[j] \/ op'[j].t # t \/ op'[j].kind = "trigger"
    <2>1. CASE CreateAdd(k) \/ PauseWrite(k) \/ ResumeWrite(k)
      BY <1>0, <2>1 DEF CreateAdd, PauseWrite, ResumeWrite, TypeOK
    <2>2. ASSUME NEW u \in Tasks, CreateCheck(k, u) \/ PauseCheck(k, u) \/ ResumeCheck(k, u)
          PROVE  \A j \in Kernels : op'[j] = op[j] \/ op'[j].t # t
      <3>1. u # t
        BY <1>0, <2>2 DEF CreateCheck, PauseCheck, ResumeCheck
      <3>2. \E o : o.t = u /\ op' = [op EXCEPT ![k] = o]
        BY <2>2 DEF CreateCheck, PauseCheck, ResumeCheck
      <3> QED BY <3>1, <3>2 DEF TypeOK
    <2>3. ASSUME NEW u \in Tasks, DeleteTask(k, u) \/ TriggerNow(k, u)
          PROVE  \A j \in Kernels : op'[j] = op[j] \/ op'[j].kind = "trigger"
      BY <2>3 DEF DeleteTask, TriggerNow, TypeOK
    <2> QED BY <2>1, <2>2, <2>3 DEF UserStep
  <1>5. row'[t].status \in {"completed", "expired", "deleted"}
    <2>1. CASE CreateAdd(k) \/ PauseWrite(k) \/ ResumeWrite(k)
      <3>1. op[k].t # t /\ op[k].t \in Tasks
        <4>1. op[k].kind \in {"add", "pause", "resume"}
          BY <2>1 DEF CreateAdd, PauseWrite, ResumeWrite
        <4>2. op[k] \in OpType /\ op[k] # NoOp
          BY <4>1 DEF TypeOK, NoOp
        <4>3. op[k].t \in Tasks
          BY <4>2 DEF OpType
        <4> QED BY <4>1, <4>3 DEF Finished
      <3>2. row'[t] = row[t]
        <4>1. CASE CreateAdd(k)
          BY <1>0, <3>1, <4>1 DEF CreateAdd, TypeOK
        <4>2. CASE PauseWrite(k)
          BY <1>0, <3>1, <4>2, WriteElsewhere DEF PauseWrite
        <4>3. CASE ResumeWrite(k)
          BY <1>0, <3>1, <4>3, WriteElsewhere DEF ResumeWrite
        <4> QED BY <2>1, <4>1, <4>2, <4>3
      <3> QED BY <3>2 DEF Finished
    <2>2. ASSUME NEW u \in Tasks, DeleteTask(k, u)
          PROVE  row'[t].status \in {"completed", "expired", "deleted"}
      BY <1>0, <2>2 DEF DeleteTask, Finished, TypeOK, RowType
    <2>3. CASE UNCHANGED row
      BY <2>3 DEF Finished
    <2> QED BY <2>1, <2>2, <2>3
        DEF UserStep, CreateCheck, PauseCheck, ResumeCheck, TriggerNow
  <1> QED BY <1>2, <1>3, <1>4, <1>5, FinishedStays

\* Time changes no status.
LEMMA TickRows ==
  ASSUME TypeOK, Tick, NEW t \in Tasks
  PROVE  row'[t].status = row[t].status /\ row'[t].count = row[t].count
  <1>1. row[t] \in RowType
    BY DEF TypeOK
  <1>2. row'[t] = [row[t] EXCEPT !.next = Down(@),
                                 !.idle = Up(@, IF MaxAge = 0 THEN 0 ELSE MaxAge + 1)]
    BY Zenon DEF Tick
  <1> QED BY <1>1, <1>2 DEF RowType

\* For any kernels and tasks, crashes, stops, store failures and user operations
\* included: once a durable task is completed, expired or deleted and nobody is
\* between reading and writing it, no step of any kernel gives it back (the CAS of
\* _claim_tasks, list_active and the status checks of pause and resume).
THEOREM FinishedForGood == Spec => FinishedIsFinal
  <1>1. TypeOK /\ ClaimInv /\ [Next]_vars
          => [\A t \in Durable : Finished(t) => Finished(t)']_vars
    <2> SUFFICES ASSUME TypeOK, ClaimInv, Next, NEW t \in Durable, Finished(t)
                 PROVE  Finished(t)'
      OBVIOUS
    <2>1. CASE Tick
      <3>1. \A f \in Fibers : Claimed(f, t)' => Claimed(f, t)
        BY <2>1, TickEffect, CronAssumption DEF Claimed
      <3>2. \A k \in Kernels : job'[<<k, "catchup">>][t].ph = job[<<k, "catchup">>][t].ph
        BY <2>1, TickEffect, FiberFacts, CronAssumption
      <3>3. row'[t].status \in {"completed", "expired", "deleted"}
        BY <2>1, TickRows, CronAssumption DEF Finished
      <3> QED BY <2>1, <3>1, <3>2, <3>3, TickEffect, FinishedStays
    <2>2. ASSUME NEW k \in Kernels, KernelStep(k) PROVE Finished(t)'
      BY <2>2, LifeStepFinal, LoopStepFinal, CatchupStepFinal, UserStepFinal
      DEF KernelStep
    <2>3. ASSUME NEW f \in Fibers, NEW u \in Tasks, JobStep(f, u) \/ Heartbeat(f, u) \/ HeartbeatFails(f, u)
          PROVE  Finished(t)'
      BY <2>3, JobStepFinal
    <2> QED BY <2>1, <2>2, <2>3 DEF Next
  <1> QED BY <1>1, TypeCorrect, ClaimInvariant, PTL DEF Spec, FinishedIsFinal

(***************************************************************************)
(* A one-shot is recorded once.  What has to be known between the two      *)
(* writes of a success: as long as the row can still be claimed, or its    *)
(* holder has not come to the second write, nothing has been recorded; and *)
(* who releases a recorded task has closed its row.                        *)
(***************************************************************************)
OnlyOnce == "resume" \notin UserOps /\ Faults \cap {"stop", "storeError"} = {}

RecordedThenClosed(t) ==
  /\ row[t].count <= 1
  /\ row[t].status = "active" /\ claim[t].by = None => row[t].count = 0
  /\ \A f \in Fibers : Claimed(f, t) /\ job[f][t].ph # "complete" =>
       row[t].count = 0 \/ (job[f][t].ph = "release" /\ row[t].status # "active")

OnceInv ==
  OnlyOnce => /\ \A k \in Kernels : op[k].kind # "resume"
              /\ \A t \in Durable \ (Recurring \cup swept) : RecordedThenClosed(t)

\* A row with nothing recorded is in order whatever its jobs do.
LEMMA NothingRecorded ==
  ASSUME NEW t \in Durable, row'[t].count = 0
  PROVE  RecordedThenClosed(t)'
  BY DEF RecordedThenClosed

\* A step that records nothing, activates nothing, frees nothing and lets no fiber
\* past the second write keeps a row in order.
LEMMA RecordStays ==
  ASSUME NEW t \in Durable, RecordedThenClosed(t),
         row'[t].count = row[t].count,
         row'[t].status = "active" => row[t].status = "active",
         claim'[t].by = None => claim[t].by = None,
         \A f \in Fibers : Claimed(f, t)' =>
           /\ Claimed(f, t)
           /\ \/ job'[f][t].ph = job[f][t].ph
              \/ job[f][t].ph \notin {"complete", "release"}
  PROVE  RecordedThenClosed(t)'
  BY DEF RecordedThenClosed

\* An update_status that takes a task out of service keeps the count.
LEMMA ClosingKeepsCount ==
  ASSUME TypeOK, NEW u \in Tasks, NEW st,
         Write(u, [row[u] EXCEPT !.status = st, !.next = None]), NEW t \in Tasks
  PROVE  row'[t].count = row[t].count /\ row'[t].status \in {row[t].status, st}
  <1>1. row[u] \in RowType
    BY DEF TypeOK
  <1>2. /\ [row[u] EXCEPT !.status = st, !.next = None].count = row[u].count
        /\ [row[u] EXCEPT !.status = st, !.next = None].status = st
    BY <1>1 DEF RowType
  <1>3. \/ row'[t] = row[t]
        \/ t = u /\ row'[t] = [row[u] EXCEPT !.status = st, !.next = None]
    BY DEF Write, TypeOK
  <1> QED BY <1>2, <1>3

\* The row of a failure keeps its count.
LEMMA FailedRowCount ==
  ASSUME TypeOK, NEW t \in Tasks, NEW n, NEW res, NEW raised \in BOOLEAN,
         NEW r \in FailedRow(t, n, res, raised)
  PROVE  r.count = row[t].count
  <1>0. row[t] \in RowType
    BY DEF TypeOK
  <1>1. \/ r = [row[t] EXCEPT !.status = "paused", !.next = None, !.fails = n]
        \/ \E m : r = [row[t] EXCEPT !.status = "active", !.next = m, !.fails = n]
    BY Zenon DEF FailedRow
  <1>2. CASE r = [row[t] EXCEPT !.status = "paused", !.next = None, !.fails = n]
    BY <1>0, <1>2 DEF RowType
  <1>3. ASSUME NEW m, r = [row[t] EXCEPT !.status = "active", !.next = m, !.fails = n]
        PROVE  r.count = row[t].count
    BY <1>0, <1>3 DEF RowType
  <1> QED BY <1>1, <1>2, <1>3

\* The job actions of the claim's holder: record, close, release, in this order.
LEMMA HolderRecords ==
  ASSUME TypeOK, ClaimInv, OnlyOnce, NEW f \in Fibers,
         NEW t \in Durable, t \notin Recurring, t \notin swept,
         RecordedThenClosed(t), f[2] # "trigger",
         JobStep(f, t) \/ Heartbeat(f, t) \/ HeartbeatFails(f, t)
  PROVE  RecordedThenClosed(t)'
  <1>0. /\ t \in Tasks /\ t \notin Raising /\ f[1] \in Kernels /\ f[1] # None
        /\ "storeError" \notin Faults /\ row[t] \in RowType /\ row[t].count \in Nat
    BY CronAssumption, FiberFacts DEF OnlyOnce, TypeOK, RowType
  <1>1. /\ Claimed(f, t) /\ claim[t].by = f[1]
        /\ \A g \in Fibers : Claimed(g, t) => g = f
    <2>1. t \in Durable \ swept /\ Claimed(f, t)
      BY <1>0, JobStepFrom
    <2> QED BY <2>1 DEF ClaimInv, ClaimNamesHolder, ExclusiveExecution
  <1>2. \A g \in Fibers : g # f => ~Claimed(g, t)'
    <2>1. \A g \in Fibers : g # f => (Claimed(g, t)' <=> Claimed(g, t))
      BY <1>0, JobStepEffect
    <2> QED BY <1>1, <2>1
  <1>3. job[f][t].ph \notin {"complete", "release"} => row[t].count = 0
    BY <1>1 DEF RecordedThenClosed
  <1>4. CASE RecordFired(f, t)
    <2>1. job[f][t].ph = "ended" /\ UNCHANGED claim /\ Step(f, t, "complete")
      BY <1>0, <1>4 DEF RecordFired
    <2>2. job'[f][t].ph = "complete"
      BY <1>0, <2>1, StepMoves, MovesEffect DEF TypeOK, Phases
    <2>3. PICK n : Write(t, Fired(row[t], n))
      BY <1>4, Zenon DEF RecordFired
    <2>4. row'[t] = Fired(row[t], n)
      BY <1>0, <2>3 DEF Write, TypeOK
    <2>5. row[t].count = 0
      BY <1>3, <2>1
    <2>6. Fired(row[t], n).count = Least(row[t].count + 1, CountCap)
      BY <1>0 DEF Fired, RowType
    <2>7. row'[t].count <= 1
      BY <2>4, <2>5, <2>6, CronAssumption DEF Least
    <2> QED BY <1>0, <1>1, <1>2, <2>1, <2>2, <2>7 DEF RecordedThenClosed
  <1>5. CASE RecordCompleted(f, t)
    <2>1. job[f][t].ph = "complete" /\ UNCHANGED claim /\ OnlyPhase(f, t, "release")
      BY <1>5 DEF RecordCompleted
    <2>2. job'[f][t].ph = "release"
      BY <1>0, <2>1, StepMoves, MovesEffect DEF TypeOK, Phases
    <2>3. row'[t] = [row[t] EXCEPT !.status = "completed", !.next = None]
      BY <1>0, <1>5 DEF RecordCompleted, Write, TypeOK
    <2>4. row'[t].count = row[t].count /\ row'[t].status = "completed"
      BY <1>0, <2>3 DEF RowType
    <2> QED BY <1>2, <2>2, <2>4 DEF RecordedThenClosed
  <1>6. CASE _release_task(f, t)
    <2>1. job[f][t].ph = "release" /\ UNCHANGED row
      BY <1>6 DEF _release_task
    <2>2. ~Claimed(f, t)'
      BY <1>0, <1>6, JobStepEffect
    <2>3. row[t].count = 0 \/ row[t].status # "active"
      BY <1>1, <2>1 DEF RecordedThenClosed
    <2> QED BY <1>2, <2>1, <2>2, <2>3 DEF RecordedThenClosed
  <1>7. CASE BeginTurn(f, t) \/ SessionFails(f, t) \/ Heartbeat(f, t) \/ EndTurn(f, t)
             \/ RecordFails(f, t) \/ HeartbeatFails(f, t) \/ HandleFails(f, t)
             \/ ReleaseFails(f, t)
    <2>1. UNCHANGED row /\ job[f][t].ph \notin {"complete", "release"}
      BY <1>0, <1>7 DEF BeginTurn, SessionFails, Heartbeat, EndTurn, RecordFails,
                        HeartbeatFails, HandleFails, ReleaseFails
    <2> QED BY <1>3, <2>1, NothingRecorded
  <1>8. CASE HandleFailure(f, t)
    <2>1. job[f][t].ph \in {"ended", "failed"}
      BY <1>8 DEF HandleFailure, Failing
    <2>2. \E n : \E raised \in BOOLEAN :
            \E r \in FailedRow(t, n, job[f][t].res, raised) : Write(t, r)
      BY <1>8, Zenon DEF HandleFailure
    <2>3. PICK r : Write(t, r) /\ r.count = row[t].count
      BY <1>0, <2>2, FailedRowCount
    <2>4. row'[t] = r
      BY <1>0, <2>3 DEF Write, TypeOK
    <2> QED BY <1>3, <2>1, <2>3, <2>4, NothingRecorded
  <1>9. CASE FailureAlert(f, t)
    <2>1. job[f][t].ph = "alert"
      BY <1>9 DEF FailureAlert
    <2>2. row'[t].count = row[t].count
      BY <1>0, <1>9 DEF FailureAlert, Write, TypeOK, RowType
    <2> QED BY <1>3, <2>1, <2>2, NothingRecorded
  <1>10. ~TriggerEnds(f, t)
    BY DEF TriggerEnds
  <1> QED BY <1>4, <1>5, <1>6, <1>7, <1>8, <1>9, <1>10 DEF JobStep

\* Job actions of any fiber on any task.
LEMMA JobStepOnce ==
  ASSUME TypeOK, ClaimInv, OnceInv, NEW f \in Fibers, NEW u \in Tasks,
         JobStep(f, u) \/ Heartbeat(f, u) \/ HeartbeatFails(f, u)
  PROVE  OnceInv'
  <1>1. SUFFICES ASSUME OnlyOnce PROVE OnceInv'
    BY DEF OnceInv, OnlyOnce
  <1>2. \A k \in Kernels : op'[k].kind # "resume"
    <2>1. op' = op \/ op' = [op EXCEPT ![f[1]] = NoOp]
      BY JobStepRows
    <2>2. NoOp.kind # "resume" /\ op \in [Kernels -> OpType] /\ f[1] \in Kernels
      BY FiberFacts DEF NoOp, TypeOK
    <2>3. \A k \in Kernels : op[k].kind # "resume"
      BY <1>1 DEF OnceInv
    <2> QED BY <2>1, <2>2, <2>3
  <1>3. ASSUME NEW t \in Durable \ (Recurring \cup swept) PROVE RecordedThenClosed(t)'
    <2>0. t \in Tasks /\ RecordedThenClosed(t)
      BY <1>1, CronAssumption DEF OnceInv
    <2>1. CASE u = t /\ f[2] # "trigger"
      BY <1>1, <2>0, <2>1, HolderRecords
    <2>2. CASE u = t /\ f[2] = "trigger"
      <3>1. row' = row
        BY <2>2, JobStepRows
      <3>2. ~_release_task(f, t)
        BY <2>0, <2>2 DEF _release_task, ClaimInv, TriggersHoldNothing
      <3>3. claim'[t].by = claim[t].by
        BY <2>2, <3>2, JobStepEffect
      <3>4. \A g \in Fibers : g[2] # "trigger" => job'[g][t] = job[g][t]
        BY <2>0, <2>2, JobStepEffect
      <3>5. \A g \in Fibers : Claimed(g, t)' => Claimed(g, t) /\ job'[g][t] = job[g][t]
        BY <3>4 DEF Claimed
      <3> QED BY <2>0, <3>1, <3>3, <3>5, RecordStays
    <2>3. CASE u # t
      <3>1. row'[t] = row[t] /\ claim'[t].by = claim[t].by
        BY <2>0, <2>3, JobStepRows, JobStepEffect
      <3>2. \A g \in Fibers : job'[g][t] = job[g][t]
        BY <2>0, <2>3, JobStepEffect
      <3>3. \A g \in Fibers : Claimed(g, t)' => Claimed(g, t)
        BY <3>2 DEF Claimed
      <3> QED BY <2>0, <3>1, <3>2, <3>3, RecordStays
    <2> QED BY <2>1, <2>2, <2>3
  <1>4. swept' = swept
    BY JobStepEffect
  <1> QED BY <1>2, <1>3, <1>4 DEF OnceInv

\* Losing a process or a loop leaves the claims of its jobs behind, so a success
\* that was recorded but not closed cannot be claimed again.
LEMMA LifeStepOnce ==
  ASSUME TypeOK, OnceInv, NEW k \in Kernels,
         Startup(k) \/ Crash(k) \/ Stop(k) \/ Shutdown(k) \/ LoopError(k)
  PROVE  OnceInv'
  <1>1. SUFFICES ASSUME OnlyOnce PROVE OnceInv'
    BY DEF OnceInv, OnlyOnce
  <1>0. ~Stop(k) /\ NoJob.ph = "none" /\ NoOp.kind = "none" /\ <<k, "loop">> \in Fibers
    BY <1>1, FiberFacts DEF Stop, OnlyOnce, NoJob, NoOp
  <1>2. swept' = swept /\ \A j \in Kernels : op'[j].kind # "resume"
    BY <1>0, <1>1 DEF Startup, Crash, Shutdown, LoopError, Gone, OnceInv, TypeOK
  <1>3. ASSUME NEW t \in Durable \ (Recurring \cup swept) PROVE RecordedThenClosed(t)'
    <2>0. t \in Tasks /\ RecordedThenClosed(t)
      BY <1>1, CronAssumption DEF OnceInv
    <2>1. row'[t] = row[t] /\ claim'[t] = claim[t]
      BY <1>0, <2>0 DEF Startup, Crash, Shutdown, LoopError, Gone
    <2>2. \A f \in Fibers : job'[f][t].ph \in {job[f][t].ph, "none"}
      <3>1. CASE Startup(k)
        BY <3>1 DEF Startup
      <3>2. CASE Gone(k)
        BY <1>0, <2>0, <3>2 DEF Gone
      <3>3. CASE LoopError(k)
        BY <1>0, <2>0, <3>3 DEF LoopError, TypeOK
      <3> QED BY <1>0, <3>1, <3>2, <3>3 DEF Crash, Shutdown
    <2>3. \A f \in Fibers : Claimed(f, t)' => Claimed(f, t) /\ job'[f][t].ph = job[f][t].ph
      BY <2>2 DEF Claimed, Working
    <2> QED BY <2>0, <2>1, <2>3, RecordStays
  <1> QED BY <1>2, <1>3 DEF OnceInv

\* Only a row with nothing recorded passes the CAS.
LEMMA ClaimAttemptOnce ==
  ASSUME TypeOK, NEW f \in Fibers, NEW u \in Tasks, NEW p \in {"queued", "starting"},
         _claim_tasks(f, u, p), UNCHANGED row,
         NEW t \in Durable, RecordedThenClosed(t)
  PROVE  RecordedThenClosed(t)'
  <1>0. p \in Phases /\ NoJob \in JobType /\ NoJob.ph = "none" /\ t \in Tasks
    BY EmptyRecords, CronAssumption DEF Phases, NoJob
  <1>1. CASE u = t /\ claim[t].by = None /\ row[t].status = "active"
    BY <1>1, NothingRecorded DEF RecordedThenClosed
  <1>2. CASE u = t /\ ~(claim[t].by = None /\ row[t].status = "active")
    <2>1. SetJob(f, t, NoJob) /\ UNCHANGED claim
      BY <1>2 DEF _claim_tasks
    <2>2. /\ job'[f][t] = NoJob
          /\ \A g \in Fibers : g # f => job'[g][t] = job[g][t]
      BY <1>0, <2>1, SetJobEffect DEF TypeOK
    <2>3. \A g \in Fibers : Claimed(g, t)' => Claimed(g, t) /\ job'[g][t].ph = job[g][t].ph
      BY <1>0, <2>2 DEF Claimed, Working
    <2> QED BY <2>1, <2>3, RecordStays
  <1>3. CASE u # t
    <2>1. claim'[t] = claim[t] /\ \A g \in Fibers : job'[g][t] = job[g][t]
      BY <1>0, <1>3 DEF _claim_tasks, Step, SetJob, TypeOK
    <2>2. \A g \in Fibers : Claimed(g, t)' => Claimed(g, t)
      BY <2>1 DEF Claimed
    <2> QED BY <2>1, <2>2, RecordStays
  <1> QED BY <1>1, <1>2, <1>3

\* A cleanup that leaves t unswept has left its claim alone.
LEMMA CleanupOnce ==
  ASSUME TypeOK, _cleanup_stale_claims, UNCHANGED <<row, job>>,
         NEW t \in Durable, t \notin swept', RecordedThenClosed(t)
  PROVE  RecordedThenClosed(t)'
  <1>1. claim'[t] = claim[t]
    BY CronAssumption DEF _cleanup_stale_claims
  <1>2. \A f \in Fibers : Claimed(f, t)' => Claimed(f, t)
    BY DEF Claimed
  <1> QED BY <1>1, <1>2, RecordStays

\* Listing takes jobs away or makes them due.
LEMMA ListingOnce ==
  ASSUME TypeOK, NEW k \in Kernels, NEW kind \in {"loop", "catchup"}, NEW due,
         job' = [job EXCEPT ![<<k, kind>>] = Listed(due)], UNCHANGED <<row, claim>>,
         NEW t \in Durable, RecordedThenClosed(t)
  PROVE  RecordedThenClosed(t)'
  <1>0. <<k, kind>> \in Fibers /\ t \in Tasks
    BY FiberFacts, CronAssumption
  <1>1. Listed(due)[t].ph \in {"due", "none"}
    BY <1>0 DEF Listed, NoJob
  <1>2. job'[<<k, kind>>][t].ph \in {"due", "none"}
    <2>1. job'[<<k, kind>>] = Listed(due)
      BY <1>0 DEF TypeOK
    <2> QED BY <1>1, <2>1, Zenon
  <1>3. \A f \in Fibers : f # <<k, kind>> => job'[f] = job[f]
    BY <1>0 DEF TypeOK
  <1>4. \A f \in Fibers : Claimed(f, t)' => Claimed(f, t) /\ job'[f][t].ph = job[f][t].ph
    BY <1>2, <1>3 DEF Claimed, Working
  <1> QED BY <1>4, RecordStays

\* The scheduler loop.
LEMMA LoopStepOnce ==
  ASSUME TypeOK, OnceInv, NEW k \in Kernels, LoopStep(k)
  PROVE  OnceInv'
  <1>1. SUFFICES ASSUME OnlyOnce PROVE OnceInv'
    BY DEF OnceInv, OnlyOnce
  <1>2. op' = op /\ swept \subseteq swept'
    BY DEF LoopStep, LoopCleanup, LoopList, LoopSleep, LoopWake, LoopExpire, LoopClaim,
           LoopFire, _cleanup_stale_claims
  <1>3. ASSUME NEW t \in Durable, t \notin Recurring, t \notin swept'
        PROVE  RecordedThenClosed(t)'
    <2>0. t \in Tasks /\ RecordedThenClosed(t) /\ <<k, "loop">> \in Fibers
      BY <1>1, <1>2, <1>3, FiberFacts, CronAssumption DEF OnceInv
    <2>1. CASE LoopCleanup(k)
      BY <1>3, <2>0, <2>1, CleanupOnce DEF LoopCleanup
    <2>2. CASE LoopList(k)
      BY <2>0, <2>2, ListingOnce, Zenon DEF LoopList
    <2>3. CASE LoopSleep(k) \/ LoopWake(k)
      BY <2>0, <2>3, RecordStays DEF LoopSleep, LoopWake, Claimed
    <2>4. ASSUME NEW u \in Tasks, LoopExpire(k, u) PROVE RecordedThenClosed(t)'
      <3>1. UNCHANGED <<claim, job>>
        BY <2>4 DEF LoopExpire
      <3>2. row'[t].count = row[t].count /\ row'[t].status \in {row[t].status, "expired"}
        BY <2>0, <2>4, ClosingKeepsCount DEF LoopExpire
      <3> QED BY <2>0, <3>1, <3>2, RecordStays DEF Claimed
    <2>5. ASSUME NEW u \in Tasks, LoopClaim(k, u) PROVE RecordedThenClosed(t)'
      BY <2>0, <2>5, ClaimAttemptOnce DEF LoopClaim
    <2>6. ASSUME NEW u \in Tasks, LoopFire(k, u) PROVE RecordedThenClosed(t)'
      <3>1. \A g \in Fibers, v \in Tasks :
              g # <<k, "loop">> \/ v # u => job'[g][v] = job[g][v]
        BY <2>0, <2>6, StepMoves, MovesEffect DEF LoopFire, TypeOK, Phases
      <3>2. job[<<k, "loop">>][u].ph = "queued" /\ UNCHANGED <<row, claim>>
        BY <2>6 DEF LoopFire
      <3>3. \A g \in Fibers : Claimed(g, t)' => /\ Claimed(g, t)
                                               /\ \/ job'[g][t].ph = job[g][t].ph
                                                  \/ job[g][t].ph = "queued"
        BY <2>0, <3>1, <3>2 DEF Claimed
      <3> QED BY <2>0, <3>2, <3>3, RecordStays
    <2> QED BY <2>1, <2>2, <2>3, <2>4, <2>5, <2>6 DEF LoopStep
  <1> QED BY <1>1, <1>2, <1>3 DEF OnceInv

\* The catch-up skips recurring tasks only; a one-shot has to pass the CAS.
LEMMA CatchupStepOnce ==
  ASSUME TypeOK, OnceInv, NEW k \in Kernels, CatchupStep(k)
  PROVE  OnceInv'
  <1>1. SUFFICES ASSUME OnlyOnce PROVE OnceInv'
    BY DEF OnceInv, OnlyOnce
  <1>2. op' = op /\ swept \subseteq swept'
    BY DEF CatchupStep, CatchupCleanup, CatchupList, CatchupDone, CatchupError, CatchupSkip,
           CatchupClaim, _cleanup_stale_claims
  <1>3. ASSUME NEW t \in Durable, t \notin Recurring, t \notin swept'
        PROVE  RecordedThenClosed(t)'
    <2>0. t \in Tasks /\ RecordedThenClosed(t) /\ <<k, "catchup">> \in Fibers
      BY <1>1, <1>2, <1>3, FiberFacts, CronAssumption DEF OnceInv
    <2>1. CASE CatchupCleanup(k)
      BY <1>3, <2>0, <2>1, CleanupOnce DEF CatchupCleanup
    <2>2. CASE CatchupList(k)
      BY <2>0, <2>2, ListingOnce, Zenon DEF CatchupList
    <2>3. CASE CatchupDone(k)
      BY <2>0, <2>3, RecordStays DEF CatchupDone, Claimed
    <2>4. ASSUME NEW u \in Tasks, CatchupSkip(k, u) PROVE RecordedThenClosed(t)'
      <3>1. u # t /\ UNCHANGED claim
        BY <1>3, <2>4 DEF CatchupSkip, Repeats
      <3>2. UNCHANGED row \/ \E r : Write(u, r)
        BY <2>4, Zenon DEF CatchupSkip
      <3>3. row'[t] = row[t]
        BY <2>0, <3>1, <3>2, WriteElsewhere
      <3>4. SetJob(<<k, "catchup">>, u, NoJob)
        BY <2>4, Zenon DEF CatchupSkip
      <3>5. \A g \in Fibers : job'[g][t] = job[g][t]
        BY <2>0, <3>1, <3>4 DEF SetJob, TypeOK
      <3>6. \A g \in Fibers : Claimed(g, t)' => Claimed(g, t)
        BY <3>5 DEF Claimed
      <3> QED BY <2>0, <3>1, <3>3, <3>5, <3>6, RecordStays
    <2>5. ASSUME NEW u \in Tasks, CatchupClaim(k, u) PROVE RecordedThenClosed(t)'
      BY <2>0, <2>5, ClaimAttemptOnce DEF CatchupClaim
    <2>6. CASE CatchupError(k)
      <3>1. UNCHANGED <<row, claim>> /\ NoJob.ph = "none"
        BY <2>6 DEF CatchupError, NoJob
      <3>2. \A f \in Fibers : job'[f][t].ph \in {job[f][t].ph, "none"}
        BY <2>0, <2>6, <3>1 DEF CatchupError, TypeOK
      <3>3. \A f \in Fibers : Claimed(f, t)' => Claimed(f, t) /\ job'[f][t].ph = job[f][t].ph
        BY <3>2 DEF Claimed, Working
      <3> QED BY <2>0, <3>1, <3>3, RecordStays
    <2> QED BY <2>1, <2>2, <2>3, <2>4, <2>5, <2>6 DEF CatchupStep
  <1> QED BY <1>1, <1>2, <1>3 DEF OnceInv

\* User operations: without resume none activates a row that has fired.
LEMMA UserStepOnce ==
  ASSUME TypeOK, OnceInv, NEW k \in Kernels, UserStep(k)
  PROVE  OnceInv'
  <1>1. SUFFICES ASSUME OnlyOnce PROVE OnceInv'
    BY DEF OnceInv, OnlyOnce
  <1>2. \A u \in Tasks : ~ResumeCheck(k, u)
    BY <1>1 DEF ResumeCheck, CanAsk, OnlyOnce
  <1>3. ~ResumeWrite(k)
    BY <1>1 DEF ResumeWrite, OnceInv
  <1>4. swept' = swept /\ claim' = claim
    BY DEF UserStep, CreateAdd, PauseWrite, ResumeWrite, CreateCheck, PauseCheck,
           ResumeCheck, DeleteTask, TriggerNow
  <1>5. \A j \in Kernels : op'[j].kind # "resume"
    <2>1. op' = op \/ \E o : o.kind # "resume" /\ op' = [op EXCEPT ![k] = o]
      BY <1>2, <1>3
      DEF UserStep, CreateAdd, PauseWrite, CreateCheck, PauseCheck, DeleteTask, TriggerNow,
          NoOp
    <2> QED BY <1>1, <2>1 DEF OnceInv, TypeOK
  <1>6. ASSUME NEW t \in Durable \ (Recurring \cup swept) PROVE RecordedThenClosed(t)'
    <2>0. t \in Tasks /\ RecordedThenClosed(t) /\ row[t] \in RowType
      BY <1>1, CronAssumption DEF OnceInv, TypeOK
    <2>1. \A f \in Fibers : Claimed(f, t)' => Claimed(f, t) /\ job'[f][t] = job[f][t]
      <3>1. ASSUME NEW u \in Tasks, TriggerNow(k, u)
            PROVE  \A f \in Fibers : f[2] # "trigger" => job'[f][t] = job[f][t]
        <4>1. <<k, "trigger">> \in Fibers /\ "starting" \in Phases
          BY <3>1 DEF TriggerNow, CanAsk, Fibers, Kinds, Phases
        <4>2. \A g \in Fibers, v \in Tasks :
                g # <<k, "trigger">> \/ v # u => job'[g][v] = job[g][v]
          BY <3>1, <4>1, StepMoves, MovesEffect DEF TriggerNow, TypeOK
        <4> QED BY <2>0, <4>2
      <3>2. \A f \in Fibers : f[2] # "trigger" => job'[f][t] = job[f][t]
        BY <3>1
        DEF UserStep, CreateAdd, PauseWrite, ResumeWrite, CreateCheck, PauseCheck,
            ResumeCheck, DeleteTask
      <3> QED BY <3>2 DEF Claimed
    <2>2. \/ row'[t].count = 0
          \/ /\ row'[t].count = row[t].count
             /\ row'[t].status = "active" => row[t].status = "active"
      <3>1. CASE CreateAdd(k)
        <4>1. \E n : row' = [row EXCEPT ![op[k].t] =
                               [NoTask EXCEPT !.status = "active", !.next = n]]
          BY <3>1 DEF CreateAdd
        <4>2. \A n : [NoTask EXCEPT !.status = "active", !.next = n].count = 0
          BY DEF NoTask
        <4> QED BY <2>0, <4>1, <4>2 DEF TypeOK
      <3>2. CASE PauseWrite(k)
        <4>1. op[k].t \in Tasks
          <5>1. op[k] \in OpType /\ op[k] # NoOp
            BY <3>2 DEF PauseWrite, TypeOK, NoOp
          <5> QED BY <5>1 DEF OpType
        <4>2. Write(op[k].t, [row[op[k].t] EXCEPT !.status = "paused", !.next = None])
          BY <3>2 DEF PauseWrite
        <4>3. row'[t].count = row[t].count /\ row'[t].status \in {row[t].status, "paused"}
          BY <2>0, <4>1, <4>2, ClosingKeepsCount
        <4> QED BY <4>3
      <3>3. ASSUME NEW u \in Tasks, DeleteTask(k, u)
            PROVE  row'[t].count = row[t].count /\ row'[t].status \in {row[t].status, "deleted"}
        BY <2>0, <3>3 DEF DeleteTask, TypeOK, RowType
      <3>4. CASE UNCHANGED row
        BY <3>4
      <3> QED BY <1>2, <1>3, <3>1, <3>2, <3>3, <3>4
          DEF UserStep, CreateCheck, PauseCheck, TriggerNow
    <2> QED BY <1>4, <2>0, <2>1, <2>2, NothingRecorded, RecordStays
  <1> QED BY <1>4, <1>5, <1>6 DEF OnceInv

\* Time records nothing.
LEMMA TickOnce ==
  ASSUME TypeOK, OnceInv, Tick
  PROVE  OnceInv'
  <1>1. SUFFICES ASSUME OnlyOnce PROVE OnceInv'
    BY DEF OnceInv, OnlyOnce
  <1>2. op' = op /\ swept' = swept
    BY DEF Tick
  <1>3. ASSUME NEW t \in Durable \ (Recurring \cup swept) PROVE RecordedThenClosed(t)'
    <2>0. t \in Tasks /\ RecordedThenClosed(t)
      BY <1>1, CronAssumption DEF OnceInv
    <2>1. \A f \in Fibers : job'[f][t].ph = job[f][t].ph
      BY <2>0, TickEffect
    <2>2. \A f \in Fibers : Claimed(f, t)' => Claimed(f, t)
      BY <2>1 DEF Claimed
    <2>3. claim'[t].by = claim[t].by
      BY <2>0, TickEffect
    <2>4. row'[t].status = row[t].status /\ row'[t].count = row[t].count
      BY <2>0, TickRows
    <2> QED BY <2>0, <2>1, <2>2, <2>3, <2>4, RecordStays
  <1> QED BY <1>1, <1>2, <1>3 DEF OnceInv

\* A one-shot is recorded as fired at most once (update_fired, then update_status)
\* for any number of kernels that crash or lose their loop and with users creating,
\* pausing, deleting and triggering tasks; a resume, a failing store, a shutdown
\* between the two writes and a stale claim are the only ways to a second record.
THEOREM OneShotOnce == Spec => []OneShotFiredOnce
  <1>1. Init => OnceInv
    <2> SUFFICES ASSUME Init PROVE OnceInv
      OBVIOUS
    <2>1. \A t \in Tasks : row[t].count = 0
      <3>1. \A n : [NoTask EXCEPT !.status = "active", !.next = n].count = 0
        BY DEF NoTask
      <3>2. \A t \in Tasks : row[t] = NoTask \/
              \E n : row[t] = [NoTask EXCEPT !.status = "active", !.next = n]
        <4> DEFINE Rows == {NoTask} \cup
                     {[NoTask EXCEPT !.status = "active", !.next = n] : n \in 0..Period}
        <4>1. \A t \in Tasks : row[t] \in Rows
          BY DEF Init
        <4>2. \A r \in Rows : r = NoTask \/
                \E n : r = [NoTask EXCEPT !.status = "active", !.next = n]
          BY Zenon
        <4> HIDE DEF Rows
        <4> QED BY <4>1, <4>2, Zenon
      <3>3. NoTask.count = 0
        BY DEF NoTask
      <3> QED BY <3>1, <3>2, <3>3
    <2>2. \A k \in Kernels : op[k].kind = "none"
      BY DEF Init, NoOp
    <2> QED BY <2>1, <2>2, CronAssumption DEF OnceInv, RecordedThenClosed
  <1>2. TypeOK /\ ClaimInv /\ OnceInv /\ [Next]_vars => OnceInv'
    <2> SUFFICES ASSUME TypeOK, ClaimInv, OnceInv, [Next]_vars PROVE OnceInv'
      OBVIOUS
    <2>1. CASE UNCHANGED vars
      BY <2>1 DEF vars, OnceInv, OnlyOnce, RecordedThenClosed, Claimed
    <2>2. CASE Tick
      BY <2>2, TickOnce
    <2>3. ASSUME NEW k \in Kernels, KernelStep(k) PROVE OnceInv'
      BY <2>3, LifeStepOnce, LoopStepOnce, CatchupStepOnce, UserStepOnce DEF KernelStep
    <2>4. ASSUME NEW f \in Fibers, NEW t \in Tasks, JobStep(f, t) \/ Heartbeat(f, t) \/ HeartbeatFails(f, t)
          PROVE  OnceInv'
      BY <2>4, JobStepOnce
    <2> QED BY <2>1, <2>2, <2>3, <2>4 DEF Next
  <1>3. OnceInv => OneShotFiredOnce
    BY DEF OnceInv, OnlyOnce, OneShotFiredOnce, RecordedThenClosed
  <1> QED BY <1>1, <1>2, <1>3, TypeCorrect, ClaimInvariant, PTL DEF Spec
=============================================================================
