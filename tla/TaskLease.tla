----------------------------- MODULE TaskLease -----------------------------
(***************************************************************************)
(* What the claim columns of the cron table promise, with the table, the   *)
(* kernels' loops and the clock left out: a task is leased to one owner at *)
(* a time, the workers of that owner that hold the lease do the work, and  *)
(* only a lapse of the lease lets a second worker in.  CronScheduler       *)
(* implements this specification.                                          *)
(***************************************************************************)
EXTENDS FiniteSets

CONSTANTS
  Tasks,     \* what is leased
  Workers,   \* who works on a leased task
  OwnerOf,   \* [Workers -> owner]: in whose name a worker takes a lease
  None

VARIABLES
  holder,    \* [Tasks -> owner or None]
  workers,   \* [Tasks -> SUBSET Workers]: who works on the task now
  lapsed     \* the tasks of which a lease has ever lapsed

vars == <<holder, workers, lapsed>>

Init ==
  /\ holder = [t \in Tasks |-> None]
  /\ workers = [t \in Tasks |-> {}]
  /\ lapsed = {}

\* A free task is taken.
Acquire(w, t) ==
  /\ holder[t] = None
  /\ holder' = [holder EXCEPT ![t] = OwnerOf[w]]
  /\ workers' = [workers EXCEPT ![t] = @ \cup {w}]
  /\ UNCHANGED lapsed

\* A worker ends; the lease ends with it if its owner still holds it.
Finish(w, t) ==
  /\ w \in workers[t]
  /\ holder' = [holder EXCEPT ![t] = IF @ = OwnerOf[w] THEN None ELSE @]
  /\ workers' = [workers EXCEPT ![t] = @ \ {w}]
  /\ UNCHANGED lapsed

\* Workers of one owner are lost, by a crash or a stop; their leases remain.
Abandon(o) ==
  /\ \A t \in Tasks : \A w \in Workers :
       w \in workers'[t] => w \in workers[t]
  /\ \A t \in Tasks : \A w \in workers[t] \ workers'[t] : OwnerOf[w] = o
  /\ workers' \in [Tasks -> SUBSET Workers]
  /\ UNCHANGED <<holder, lapsed>>

\* Held leases end although nobody finished.
Lapse(S) ==
  /\ \A t \in S : holder[t] # None
  /\ holder' = [t \in Tasks |-> IF t \in S THEN None ELSE holder[t]]
  /\ lapsed' = lapsed \cup S
  /\ UNCHANGED workers

Next ==
  \/ \E w \in Workers, t \in Tasks : Acquire(w, t) \/ Finish(w, t)
  \/ \E w \in Workers : Abandon(OwnerOf[w])
  \/ \E S \in SUBSET Tasks : Lapse(S)

Spec == Init /\ [][Next]_vars

\* The promise: a task whose lease never lapsed has at most one worker, and while
\* it has one the lease is in that worker's owner's name.
Exclusion ==
  \A t \in Tasks \ lapsed : \A w \in workers[t] :
    workers[t] = {w} /\ holder[t] = OwnerOf[w]
=============================================================================
