-------------------------- MODULE MCCronScheduler --------------------------
(* Small instances of CronScheduler for TLC. *)
EXTENDS CronScheduler

CONSTANTS k1, k2, t1, t2

HomeK1 == [t \in Tasks |-> k1]
NoLimit == [t \in Tasks |-> 0]
FireTwice == [t \in Tasks |-> 2]
FireOnce == [t \in Tasks |-> 1]
Backoff == <<1>>
=============================================================================
