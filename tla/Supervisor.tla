----------------------------- MODULE Supervisor -----------------------------
(***************************************************************************)
(* The Supervisor process: its main thread starts hub, Access Agent and    *)
(* Primary Agent and then watches them, the control thread serves one      *)
(* request at a time, and every restart a request asks for runs in a       *)
(* thread of its own.  Restarts exclude each other by a lock; stop() takes *)
(* none.  The processes and the prompts going through them are AgentHub's. *)
(*                                                                         *)
(* status, last_exit, restart_counts and the payload of the runtime file   *)
(* steer nothing and are left out; that two threads write that file        *)
(* through one temporary name is not.                                      *)
(***************************************************************************)
EXTENDS AgentHub

CONSTANTS
  Workers,      \* threads for requested restarts
  MaxAttempts,  \* RESTART_BUDGET_MAX_ATTEMPTS
  Faults,       \* which disturbances occur
  Budget        \* how many of them

ASSUME SupervisorAssumption ==
  /\ MaxAttempts \in Nat \ {0} /\ Budget \in Nat
  /\ {"main", "ctl"} \cap Workers = {} /\ None \notin Workers \cup {"main", "ctl"}
  /\ Faults \subseteq {"crash", "slow", "status", "restart_runtime", "restart_agent",
                       "stop_runtime", "signal", "cancel"}

VARIABLES
  at,        \* at[t]: where thread t is
  from,      \* from[t]: the child the restart of t began with
  cur,       \* cur[t]: the child t reaps, starts or waits for
  lock,      \* holder of _restart_lock
  passes,    \* calls of stop() the main thread has left before it exits
  attempts,  \* restarts in _restart_attempts that are younger than the window
  recent,    \* recent[t]: as many in the list t has filtered and not yet stored
  unnamed,   \* children whose newest process is not in `children`, or not yet
  stray,     \* children of which a process lives whose entry has been replaced
  raced,     \* a restart thread has entered a child while the main thread was in stop()
  left       \* disturbances that may still occur

supVars == <<at, from, cur, lock, passes, attempts, recent, unnamed, stray, raced, left>>
vars == <<hubVars, supVars>>

Threads == {"main", "ctl"} \cup Workers

\* The threads that call _consume_restart_budget: without a lock, so at the same time.
Spenders == {"main", "ctl"}

\* hub before access before primary
Rank == [hub |-> 1, access |-> 2, primary |-> 3]
Successor == [hub |-> "access", access |-> "primary"]
Suffix(c) == {d \in Children : Rank[d] >= Rank[c]}

Stopping == {"halt", "stopReap", "stopWait", "quit"}

\* Threads other than the main one are daemons: they are gone once it has exited.
Running == at["main"] # "exited"

Disturb(f) == f \in Faults /\ left > 0 /\ left' = left - 1

\* start(): runtime files are removed and the hub is first.
Init ==
  /\ HubInit
  /\ at = [t \in Threads |-> IF t = "main" THEN "spawn" ELSE IF t = "ctl" THEN "off" ELSE "free"]
  /\ from = [t \in Threads |-> "hub"]
  /\ cur = [t \in Threads |-> "hub"]
  /\ lock = None
  /\ passes = 0
  /\ attempts = 0
  /\ recent = [t \in Spenders |-> 0]
  /\ unnamed = {}
  /\ stray = {}
  /\ raced = FALSE
  /\ left = Budget

-----------------------------------------------------------------------------
(* Starting children: start() and the second half of _restart_from_locked() *)

\* Popen has started the process, which `children` does not name yet.
_start_child(t) ==
  /\ Running
  /\ at[t] = "spawn"
  /\ LET c == cur[t]
     IN /\ child' = [child EXCEPT ![c] = "boot"]
        /\ stray' = IF Live(c) /\ c \notin unnamed THEN stray \cup {c} ELSE stray
        /\ unnamed' = unnamed \cup {c}
        /\ record' = IF c = "hub" THEN FALSE ELSE record
  /\ at' = [at EXCEPT ![t] = "enter"]
  /\ UNCHANGED <<file, pathVars, from, cur, lock, passes, attempts, recent, raced, left>>

\* self.children[spec.name] = proc
EnterChild(t) ==
  /\ Running
  /\ at[t] = "enter"
  /\ unnamed' = unnamed \ {cur[t]}
  /\ raced' = (raced \/ (t # "main" /\ at["main"] \in Stopping))
  /\ at' = [at EXCEPT ![t] = "await"]
  /\ UNCHANGED <<hubVars, from, cur, lock, passes, attempts, recent, stray, left>>

\* _wait_runtime_file of hub and primary, _wait_http_readiness of access
IsReady(c) == IF c = "access" THEN child["access"] = "up" /\ child["hub"] = "up" ELSE c \in file

AwaitChild(t) ==
  /\ Running
  /\ at[t] = "await"
  /\ IsReady(cur[t])
  /\ IF cur[t] = "primary"
     THEN at' = [at EXCEPT ![t] = "route"] /\ UNCHANGED cur
     ELSE at' = [at EXCEPT ![t] = "spawn"] /\ cur' = [cur EXCEPT ![t] = Successor[cur[t]]]
  /\ UNCHANGED <<hubVars, from, lock, passes, attempts, recent, unnamed, stray, raced, left>>

\* The locals of a thread that is through with a restart are of no use any more.
Forget(t) == from' = [from EXCEPT ![t] = "hub"] /\ cur' = [cur EXCEPT ![t] = "hub"]

Mutant_RaiseExits(t) ==
  /\ at' = [at EXCEPT ![t] = IF t = "main" THEN "exited" ELSE "free"]
  /\ lock' = IF lock = t THEN None ELSE lock
  /\ passes' = IF t = "main" THEN 1 ELSE passes
  /\ Forget(t)

Mutant_RaiseKeepsLock(t) ==
  /\ at' = [at EXCEPT ![t] = IF t = "main" THEN "halt" ELSE "free"]
  /\ lock' = lock
  /\ passes' = IF t = "main" THEN 1 ELSE passes
  /\ Forget(t)

\* An exception ends a restart thread, and sends the main thread to the `finally`
\* of main(): one call of stop(), then exit.
Raise(t) ==
  /\ at' = [at EXCEPT ![t] = IF t = "main" THEN "halt" ELSE "free"]
  /\ lock' = IF lock = t THEN None ELSE lock
  /\ passes' = IF t = "main" THEN 1 ELSE passes
  /\ Forget(t)

\* A child that died while it was waited for never gets ready: the waits look only
\* at the file or the endpoint.  A slow child, or one whose file is read half
\* written, fails the wait too.
AwaitFails(t) ==
  /\ Running
  /\ at[t] = "await"
  /\ ~IsReady(cur[t])
  /\ \/ {child[cur[t]], child["hub"]} \cap {"dead", "term"} # {} /\ UNCHANGED left
     \/ Disturb("slow")
  /\ Raise(t)
  /\ UNCHANGED <<hubVars, attempts, recent, unnamed, stray, raced>>

\* _wait_default_route: a refused connection or an HTTP error is raised at once.
RouteFails(t) ==
  /\ Running
  /\ at[t] = "route"
  /\ ~(child["access"] = "up" /\ child["hub"] = "up" /\ record)
  /\ Raise(t)
  /\ UNCHANGED <<hubVars, attempts, recent, unnamed, stray, raced, left>>

\* Ready: start() also opens the control socket.  Writing supervisor.json while the
\* control thread does may find the temporary file renamed away.
RouteReady(t) ==
  /\ Running
  /\ at[t] = "route"
  /\ child["access"] = "up" /\ child["hub"] = "up" /\ record
  /\ \/ /\ at' = [at EXCEPT ![t] = IF t = "main" THEN "poll" ELSE "free",
                            !["ctl"] = IF t = "main" /\ @ = "off" THEN "idle" ELSE @]
        /\ lock' = IF lock = t THEN None ELSE lock
        /\ Forget(t)
        /\ UNCHANGED passes
     \/ at["ctl"] = "write" /\ Raise(t)
  /\ UNCHANGED <<hubVars, attempts, recent, unnamed, stray, raced, left>>

-----------------------------------------------------------------------------
(* Stopping children *)

\* proc.terminate() on the process of every entry of D that lives
Terminate(D) ==
  child' = [c \in Children |-> IF c \in D \ unnamed /\ Live(c) THEN "term" ELSE child[c]]

\* The process `children` has for c is over: poll() and wait() return.  It is when c has
\* a newer one that has not been entered.
Over(c) == c \in unnamed \/ child[c] \in {"none", "dead"}

\* The signalled process ends, by itself or by the kill after the deadline.
ProcessEnds(c) ==
  /\ child[c] = "term"
  /\ Gone(c)
  /\ UNCHANGED supVars

Crash(c) ==
  /\ child[c] \in {"boot", "up"}
  /\ Disturb("crash")
  /\ Gone(c)
  /\ UNCHANGED <<at, from, cur, lock, passes, attempts, recent, unnamed, stray, raced>>

-----------------------------------------------------------------------------
(* Restarting *)

\* _consume_restart_budget builds the list of the attempts within the window, ...
FilterAttempts(t) == recent' = [recent EXCEPT ![t] = attempts]

\* ... stores it, whatever another thread has stored or appended meanwhile, ...
StoreAttempts(t) ==
  /\ Running
  /\ at[t] = "store"
  /\ attempts' = recent[t]
  /\ recent' = [recent EXCEPT ![t] = 0]
  /\ at' = [at EXCEPT ![t] = "check"]
  /\ UNCHANGED <<hubVars, from, cur, lock, passes, unnamed, stray, raced, left>>

\* ... looks at the length of the stored one, ...
CheckAttempts(t) ==
  /\ Running
  /\ at[t] = "check"
  /\ at' = [at EXCEPT ![t] = IF attempts < MaxAttempts THEN "append"
                             ELSE IF t = "main" THEN "degraded" ELSE "write"]
  /\ from' = IF t = "ctl" /\ attempts >= MaxAttempts THEN [from EXCEPT ![t] = "hub"] ELSE from
  /\ UNCHANGED <<hubVars, cur, lock, passes, attempts, recent, unnamed, stray, raced, left>>

\* ... and appends this attempt.  The control thread starts a thread for the restart.
_consume_restart_budget(t) ==
  /\ Running
  /\ at[t] = "append"
  /\ attempts' = attempts + 1
  /\ \/ /\ t = "main"
        /\ at' = [at EXCEPT ![t] = "restarting"]
        /\ UNCHANGED from
     \/ /\ t = "ctl"
        /\ \E w \in Workers :
             /\ at[w] = "free"
             /\ at' = [at EXCEPT ![w] = "lock", ![t] = "write"]
             /\ from' = [from EXCEPT ![w] = from[t], ![t] = "hub"]
  /\ UNCHANGED <<hubVars, cur, lock, passes, recent, unnamed, stray, raced, left>>

\* The oldest attempt leaves the window: the one of the lists being filtered, which the
\* stored list holds too unless another thread has overwritten it there.
WindowMoves ==
  /\ Running
  /\ attempts' \in {attempts, attempts - 1} \cap Nat
  /\ recent' = [t \in Spenders |-> IF recent[t] > 0 THEN recent[t] - 1 ELSE 0]
  /\ <<attempts, recent>>' # <<attempts, recent>>
  /\ UNCHANGED <<hubVars, at, from, cur, lock, passes, unnamed, stray, raced, left>>

\* wait(): poll() says that the process of child c is over ...
Poll(c) ==
  /\ at["main"] = "poll"
  /\ Over(c)
  /\ at' = [at EXCEPT !["main"] = "seen"]
  /\ from' = [from EXCEPT !["main"] = c]
  /\ UNCHANGED <<hubVars, cur, lock, passes, attempts, recent, unnamed, stray, raced, left>>

\* ... which counts unless a restart holds the lock by then.
_handle_child_exit ==
  /\ at["main"] = "seen"
  /\ IF lock = None
     THEN FilterAttempts("main") /\ at' = [at EXCEPT !["main"] = "store"] /\ UNCHANGED from
     ELSE /\ at' = [at EXCEPT !["main"] = "poll"]
          /\ from' = [from EXCEPT !["main"] = "hub"]
          /\ UNCHANGED recent
  /\ UNCHANGED <<hubVars, cur, lock, passes, attempts, unnamed, stray, raced, left>>

\* Degraded or about to restart, the main thread writes supervisor.json, which may collide
\* with the control thread as in RouteReady.  A later poll of a degraded runtime tries again.
ExitNoted ==
  /\ \/ /\ at["main"] = "degraded"
        /\ at' = [at EXCEPT !["main"] = "poll"]
        /\ from' = [from EXCEPT !["main"] = "hub"]
        /\ UNCHANGED <<cur, lock, passes>>
     \/ /\ at["main"] = "restarting"
        /\ at' = [at EXCEPT !["main"] = "lock"]
        /\ UNCHANGED <<from, cur, lock, passes>>
     \/ at["main"] \in {"degraded", "restarting"} /\ at["ctl"] = "write" /\ Raise("main")
  /\ UNCHANGED <<hubVars, attempts, recent, unnamed, stray, raced, left>>

Mutant_RestartUnlocked(t) ==
  /\ Running
  /\ at[t] = "lock"
  /\ UNCHANGED lock
  /\ Terminate(Suffix(from[t]))
  /\ cur' = [cur EXCEPT ![t] = from[t]]
  /\ at' = [at EXCEPT ![t] = "reap"]
  /\ UNCHANGED <<file, record, pathVars, from, passes, attempts, recent, unnamed, stray, raced, left>>

Mutant_RestartOnlyTheChild(t) ==
  /\ Running
  /\ at[t] = "lock"
  /\ lock = None
  /\ lock' = IF from[t] = "hub" THEN None ELSE t
  /\ IF from[t] = "hub"
     THEN /\ child' = [child EXCEPT !["hub"] = "boot"]
          /\ record' = FALSE
          /\ at' = [at EXCEPT ![t] = IF t = "main" THEN "poll" ELSE "free"]
          /\ UNCHANGED cur
     ELSE /\ Terminate(Suffix(from[t]))
          /\ cur' = [cur EXCEPT ![t] = from[t]]
          /\ at' = [at EXCEPT ![t] = "reap"]
          /\ UNCHANGED record
  /\ UNCHANGED <<file, pathVars, from, passes, attempts, recent, unnamed, stray, raced, left>>

\* _restart_from: take the lock and signal the child and all that depend on it.
_restart_from(t) ==
  /\ Running
  /\ at[t] = "lock"
  /\ lock = None
  /\ lock' = t
  /\ Terminate(Suffix(from[t]))
  /\ cur' = [cur EXCEPT ![t] = from[t]]
  /\ at' = [at EXCEPT ![t] = "reap"]
  /\ UNCHANGED <<file, record, pathVars, from, passes, attempts, recent, unnamed, stray, raced, left>>

\* _restart_from_locked: wait for every child of the suffix, then remove their
\* runtime files and start them again in order.
Reap(t) ==
  /\ Running
  /\ at[t] = "reap"
  /\ Over(cur[t])
  /\ IF cur[t] = "primary"
     THEN /\ file' = file \ Suffix(from[t])
          /\ cur' = [cur EXCEPT ![t] = from[t]]
          /\ at' = [at EXCEPT ![t] = "spawn"]
     ELSE cur' = [cur EXCEPT ![t] = Successor[cur[t]]] /\ UNCHANGED <<file, at>>
  /\ UNCHANGED <<child, record, pathVars, from, lock, passes, attempts, recent, unnamed, stray, raced, left>>

-----------------------------------------------------------------------------
(* The control socket *)

\* status, and the reply to any request, writes the runtime file.
control_status ==
  /\ at["ctl"] = "idle"
  /\ Disturb("status")
  /\ at' = [at EXCEPT !["ctl"] = "write"]
  /\ UNCHANGED <<hubVars, from, cur, lock, passes, attempts, recent, unnamed, stray, raced>>

\* restart_runtime (c = hub) and restart_agent (c = primary): within the budget a thread is
\* started for the restart.  Workers bounds how many there are at a time.
control_restart(c, f) ==
  /\ Running
  /\ at["ctl"] = "idle"
  /\ \E w \in Workers : at[w] = "free"
  /\ Disturb(f)
  /\ FilterAttempts("ctl")
  /\ at' = [at EXCEPT !["ctl"] = "store"]
  /\ from' = [from EXCEPT !["ctl"] = c]
  /\ UNCHANGED <<hubVars, cur, lock, passes, attempts, unnamed, stray, raced>>

ControlReplies ==
  /\ Running
  /\ at["ctl"] = "write"
  /\ at' = [at EXCEPT !["ctl"] = "idle"]
  /\ UNCHANGED <<hubVars, from, cur, lock, passes, attempts, recent, unnamed, stray, raced, left>>

\* stop() in the control thread; the main thread goes on watching.
control_stop_runtime ==
  /\ Running
  /\ at["ctl"] = "idle"
  /\ Disturb("stop_runtime")
  /\ at' = [at EXCEPT !["ctl"] = "halt"]
  /\ UNCHANGED <<hubVars, from, cur, lock, passes, attempts, recent, unnamed, stray, raced>>

-----------------------------------------------------------------------------
(* stop() *)

\* SIGTERM or SIGINT interrupts the main thread anywhere: stop(), SystemExit, and
\* stop() again in the `finally` of main().  A lock the main thread holds is released
\* by SystemExit only, and a process it has started and not entered stays unnamed.
Signal ==
  /\ at["main"] \notin Stopping \cup {"exited"}
  /\ Disturb("signal")
  /\ at' = [at EXCEPT !["main"] = "halt"]
  /\ passes' = 2
  /\ Forget("main")
  /\ recent' = [recent EXCEPT !["main"] = 0]
  /\ UNCHANGED <<hubVars, lock, attempts, unnamed, stray, raced>>

Halt(t) ==
  /\ Running
  /\ at[t] = "halt"
  /\ Terminate(Children)
  /\ cur' = [cur EXCEPT ![t] = "hub"]
  /\ at' = [at EXCEPT ![t] = "stopReap"]
  /\ UNCHANGED <<file, record, pathVars, from, lock, passes, attempts, recent, unnamed, stray, raced, left>>

\* stop() takes each child's process once: one that lives is waited for, and killed at the
\* deadline, which one started after the terminate() calls runs into.  That process is gone
\* when none is being ended, even if another thread has started the next one by then.
StopReap(t) ==
  /\ Running
  /\ \/ /\ at[t] = "stopReap" /\ ~Over(cur[t])
        /\ Terminate({cur[t]})
        /\ at' = [at EXCEPT ![t] = "stopWait"]
        /\ UNCHANGED cur
     \/ /\ \/ at[t] = "stopReap" /\ Over(cur[t])
           \/ at[t] = "stopWait" /\ child[cur[t]] # "term"
        /\ UNCHANGED child
        /\ IF cur[t] = "primary"
           THEN at' = [at EXCEPT ![t] = "quit"] /\ cur' = [cur EXCEPT ![t] = "hub"]
           ELSE at' = [at EXCEPT ![t] = "stopReap"] /\ cur' = [cur EXCEPT ![t] = Successor[cur[t]]]
  /\ UNCHANGED <<file, record, pathVars, from, lock, passes, attempts, recent, unnamed, stray, raced, left>>

\* _control.stop() waits for the request being served.  The control thread, which is
\* serving one, waits for itself: no step of "ctl" leads out of "quit".
Quit ==
  /\ at["main"] = "quit"
  /\ at["ctl"] \in {"off", "idle"}
  /\ passes' = passes - 1
  /\ at' = [at EXCEPT !["main"] = IF passes = 1 THEN "exited" ELSE "halt", !["ctl"] = "off"]
  /\ lock' = IF lock = "main" THEN None ELSE lock
  /\ UNCHANGED <<hubVars, from, cur, attempts, recent, unnamed, stray, raced, left>>

-----------------------------------------------------------------------------
Boots == (HubBoots \/ AccessBoots \/ _register_agent) /\ UNCHANGED supVars

ThreadStep(t) ==
  \/ _start_child(t) \/ EnterChild(t) \/ AwaitChild(t) \/ AwaitFails(t) \/ RouteFails(t) \/ RouteReady(t)
  \/ _restart_from(t) \/ Reap(t) \/ Halt(t) \/ StopReap(t)

BudgetStep(t) == StoreAttempts(t) \/ CheckAttempts(t) \/ _consume_restart_budget(t)

Watch == (\E c \in Children : Poll(c)) \/ _handle_child_exit \/ ExitNoted

ControlRequest ==
  \/ control_status
  \/ control_restart("hub", "restart_runtime") \/ control_restart("primary", "restart_agent")
  \/ control_stop_runtime

TurnEnds == PromptReturns /\ UNCHANGED supVars

ClientStep ==
  /\ \/ \E p \in Prompts : _route_agent_prompt_through_hub(p)
     \/ _broadcast
     \/ load_session
  /\ UNCHANGED supVars

ClientCancels ==
  /\ \E p \in Prompts : _cancel_incoming_request(p)
  /\ Disturb("cancel")
  /\ UNCHANGED <<at, from, cur, lock, passes, attempts, recent, unnamed, stray, raced>>

Next ==
  \/ Boots
  \/ \E c \in Children : ProcessEnds(c) \/ Crash(c)
  \/ \E t \in Threads : ThreadStep(t)
  \/ \E t \in Spenders : BudgetStep(t)
  \/ Watch \/ ControlRequest \/ ControlReplies \/ WindowMoves \/ Signal \/ Quit
  \/ TurnEnds \/ ClientStep \/ ClientCancels

Spec == Init /\ [][Next]_vars

MainStep == ThreadStep("main") \/ BudgetStep("main") \/ Watch \/ Quit
ControlStep == ThreadStep("ctl") \/ BudgetStep("ctl") \/ ControlReplies

\* Threads are scheduled, processes start and end, time passes, and a turn comes to an end.
Fairness ==
  /\ WF_vars(Boots) /\ WF_vars(\E c \in Children : ProcessEnds(c))
  /\ WF_vars(MainStep) /\ WF_vars(ControlStep) /\ \A w \in Workers : WF_vars(ThreadStep(w))
  /\ WF_vars(WindowMoves) /\ WF_vars(TurnEnds)

FairSpec == Spec /\ Fairness

-----------------------------------------------------------------------------
(* Properties *)

TypeOK ==
  /\ HubTypeOK
  /\ at \in [Threads -> {"spawn", "enter", "await", "route", "poll", "seen", "store", "check",
                         "append", "degraded", "restarting", "lock", "reap", "halt", "stopReap",
                         "stopWait", "quit", "exited", "off", "idle", "write", "free"}]
  /\ from \in [Threads -> Children] /\ cur \in [Threads -> Children]
  /\ lock \in Threads \cup {None}
  /\ passes \in 0..2 /\ attempts \in Nat /\ recent \in [Spenders -> Nat] /\ left \in 0..Budget
  /\ unnamed \subseteq Children /\ stray \subseteq Children /\ raced \in BOOLEAN

\* Whenever hub and a Primary Agent the Supervisor knows both serve, the hub of now - not
\* one that was replaced - holds the record of the Primary Agent, so that the default route
\* the readiness check reports is one prompts can take.  The record lives in the hub's
\* memory only: it is restarting everything after the hub that restores it.
RegisteredWithThisHub ==
  child["hub"] = "up" /\ child["primary"] = "up" /\ "primary" \notin unnamed => record

\* Whatever crashes, requests and stop() interleave, _start_child replaces only an entry of
\* `children` whose process has ended: no process that was entered is forgotten alive.
NoStrayChild == stray = {}

\* Once the Supervisor has exited no child is left running, on the way of a signal as on
\* that of an exception of start() or wait(), with two exceptions: a process the exit has
\* caught between Popen and its entry in `children`, and one a requested restart, whose
\* thread stop() neither joins nor locks out, entered meanwhile.
ExitLeavesNoChild ==
  at["main"] = "exited" => \A c \in Children : Live(c) => c \in unnamed \/ raced

\* All three processes serve and the default route leads to the Primary Agent.
Served == Reachable /\ lock = None

\* stop_runtime has made the control thread wait for itself and the main thread for it.
ControlDeadlock == at["main"] = "quit" /\ at["ctl"] \in Stopping

\* The runtime recovers: after finitely many crashes, slow starts and requests the
\* default route is served for good, or the Supervisor has stopped (or hangs in the
\* one way ControlDeadlock names).  The restart budget only delays the recovery.
RuntimeRecovers == <>[](Served \/ at["main"] = "exited" \/ ControlDeadlock)
=============================================================================
