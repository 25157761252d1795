------------------------- MODULE Supervisor_proofs -------------------------
(***************************************************************************)
(* Proofs about the Supervisor and the prompts that go through its three   *)
(* processes, for every number of prompts, restart threads, attempts and   *)
(* disturbances.                                                           *)
(***************************************************************************)
EXTENDS Supervisor, FiniteSetTheorems, TLAPS

-----------------------------------------------------------------------------
(* The inductive invariant *)

\* The places of a thread that is in the middle of starting children.
Starting == {"reap", "spawn", "enter", "await", "route"}

BudgetPlaces == {"store", "check", "append"}
MainPlaces ==
  Starting \cup Stopping \cup BudgetPlaces
  \cup {"poll", "seen", "degraded", "restarting", "lock", "exited"}
CtlPlaces == Stopping \cup BudgetPlaces \cup {"off", "idle", "write"}
WorkerPlaces == Starting \cup {"free", "lock"}

PlacesOK ==
  /\ at["main"] \in MainPlaces
  /\ at["ctl"] \in CtlPlaces
  /\ \A w \in Workers : at[w] \in WorkerPlaces
  /\ at["main"] \in Stopping => passes \in {1, 2}

\* One thread at a time starts children: a restart thread under the lock, the main
\* thread under the lock or, in start(), before any other thread does anything.
OneStarter ==
  /\ \A w \in Workers : at[w] \in Starting => lock = w
  /\ at["main"] \in Starting =>
       \/ lock = "main"
       \/ lock = None /\ at["ctl"] = "off" /\ \A w \in Workers : at[w] = "free"

\* The process `children` has for c is over or signalled.
Ended(c) == c \in unnamed \/ child[c] \notin {"boot", "up"}

\* What the starting thread has done about the children behind it and has yet to do
\* about those before it.
StarterKnows ==
  \A t \in Threads : \A c \in Children :
    /\ at[t] = "reap" /\ Rank[c] >= Rank[from[t]] =>
         Ended(c) /\ (Rank[c] < Rank[cur[t]] => Over(c))
    /\ at[t] = "spawn" /\ Rank[c] >= Rank[cur[t]] => Over(c)
    /\ at[t] = "enter" /\ Rank[c] >= Rank[cur[t]] => Over(c)
    /\ at[t] = "await" /\ Rank[c] > Rank[cur[t]] => Over(c)

\* The hub a serving Primary Agent registered with is the present one, except for a Primary
\* Agent that a signal has left out of `children` for good.
PrimaryIsRegistered ==
  child["primary"] = "up" =>
    \/ record
    \/ "primary" \in unnamed /\ \A t \in Threads : at[t] = "enter" => cur[t] # "primary"

\* What the main thread has achieved in stop() when no restart thread interferes.
StopperKnows ==
  ~raced => \A c \in Children :
    /\ at["main"] \in {"stopReap", "stopWait"} => Ended(c) /\ (Rank[c] < Rank[cur["main"]] => Over(c))
    /\ at["main"] \in {"quit", "exited"} => Over(c)

\* The queue of the session holds each prompt at most once, and none that is still to be sent.
QueueOK ==
  /\ runq \in Seq(Prompts)
  /\ \A i, j \in 1..Len(runq) : runq[i] = runq[j] => i = j
  /\ \A i \in 1..Len(runq) : req[runq[i]] # "new"

\* The part about processes and threads ...
ProcType ==
  /\ child \in [Children -> {"none", "boot", "up", "term", "dead"}]
  /\ file \subseteq {"hub", "primary"}
  /\ record \in BOOLEAN
  /\ at \in [Threads -> MainPlaces \cup CtlPlaces \cup WorkerPlaces]
  /\ from \in [Threads -> Children] /\ cur \in [Threads -> Children]
  /\ lock \in Threads \cup {None}
  /\ passes \in 0..2 /\ attempts \in Nat /\ recent \in [Spenders -> Nat] /\ left \in 0..Budget
  /\ unnamed \subseteq Children /\ stray \subseteq Children /\ raced \in BOOLEAN

ProcInv ==
  /\ ProcType /\ PlacesOK /\ OneStarter /\ StarterKnows /\ PrimaryIsRegistered
  /\ StopperKnows /\ NoStrayChild

\* ... and the part about prompts, which does without the other one.
PathType ==
  /\ req \in [Prompts -> {"new", "runtime", "answered"}]
  /\ bound \in {"absent", "bound", "dropped"}
  /\ peer \in Prompts \cup {None}
  /\ mine \subseteq InService
  /\ clean \subseteq InService

PathInv == PathType /\ QueueOK /\ CleanPromptStreams

procVars == <<child, file, record, supVars>>

-----------------------------------------------------------------------------
(* Facts about the order of the children and about threads *)

\* hub, access, primary are ranked 1, 2, 3, and the successor is one rank up.
LEMMA RankFacts ==
  /\ "hub" \in Children /\ "primary" \in Children
  /\ \A c \in Children : Rank[c] \in 1..3
  /\ \A c \in Children : (Rank[c] = 1 <=> c = "hub") /\ (Rank[c] = 3 <=> c = "primary")
  /\ \A c \in Children \ {"primary"} : Successor[c] \in Children /\ Rank[Successor[c]] = Rank[c] + 1
  /\ \A c, d \in Children : Rank[c] = Rank[d] => c = d
BY DEF Children, Rank, Successor

\* The main thread, the control thread and the restart threads are different ones.
LEMMA ThreadFacts ==
  /\ "main" \in Threads /\ "ctl" \in Threads /\ "main" \notin Workers /\ "ctl" \notin Workers
  /\ \A t \in Threads : t = "main" \/ t = "ctl" \/ t \in Workers
  /\ \A w \in Workers : w \in Threads
  /\ None \notin Threads
BY SupervisorAssumption DEF Threads

\* Two threads that start children are one and the same.
LEMMA StarterAlone ==
  ASSUME ProcInv, NEW t \in Threads, NEW u \in Threads, at[t] \in Starting, at[u] \in Starting
  PROVE  t = u
BY ThreadFacts DEF ProcInv, PlacesOK, OneStarter, Starting, CtlPlaces, Stopping, BudgetPlaces

\* The control thread never starts a child.
LEMMA CtlStartsNothing ==
  ASSUME ProcInv PROVE at["ctl"] \notin Starting
BY DEF ProcInv, PlacesOK, CtlPlaces, Stopping, Starting, BudgetPlaces

-----------------------------------------------------------------------------
(* Processes and threads: one lemma per action *)

\* A started process is not in `children` yet, whose entry has ended.
LEMMA StartChildKeeps ==
  ASSUME ProcInv, NEW t \in Threads, _start_child(t) PROVE ProcInv'
<1> USE ThreadFacts, RankFacts
<1>0. /\ at[t] = "spawn" /\ cur[t] \in Children /\ Over(cur[t]) /\ t # "ctl"
      /\ child \in [Children -> {"none", "boot", "up", "term", "dead"}] /\ at \in [Threads -> MainPlaces \cup CtlPlaces \cup WorkerPlaces]
  BY CtlStartsNothing DEF _start_child, ProcInv, ProcType, StarterKnows, Starting
<1>a. /\ child' = [child EXCEPT ![cur[t]] = "boot"] /\ unnamed' = unnamed \cup {cur[t]}
      /\ at' = [at EXCEPT ![t] = "enter"] /\ UNCHANGED <<from, cur, raced>>
  BY DEF _start_child
<1>b. \A c \in Children : (Over(c) => Over(c)') /\ (Ended(c) => Ended(c)')
  BY <1>0, <1>a DEF Over, Ended
<1>1. ProcType'
  BY <1>0 DEF _start_child, ProcInv, ProcType, MainPlaces, Starting, Live
<1>2. PlacesOK'
  BY <1>0 DEF _start_child, ProcInv, ProcType, PlacesOK, MainPlaces, WorkerPlaces, Starting,
     Stopping
<1>3. OneStarter'
  BY <1>0 DEF _start_child, ProcInv, ProcType, OneStarter, Starting
<1>4. StarterKnows'
  BY <1>0, <1>a, <1>b DEF ProcInv, StarterKnows
<1>5. PrimaryIsRegistered'
  <2>1. CASE cur[t] = "primary"
    BY <1>0, <1>a, <2>1 DEF PrimaryIsRegistered
  <2>2. CASE cur[t] = "hub"
    <3>1. Over("primary")
      BY <1>0, <2>2 DEF ProcInv, StarterKnows
    <3>2. \A u \in Threads : at'[u] = "enter" => cur'[u] # "primary"
      BY <1>0, <1>a, <2>2, StarterAlone DEF Starting
    <3> QED BY <1>0, <1>a, <2>2, <3>1, <3>2 DEF PrimaryIsRegistered, Over
  <2>3. CASE cur[t] = "access"
    <3>1. record' = record
      BY <2>3 DEF _start_child
    <3> QED BY <1>0, <1>a, <2>3, <3>1 DEF ProcInv, PrimaryIsRegistered
  <2> QED BY <1>0, <2>1, <2>2, <2>3 DEF Children
<1>6. StopperKnows'
  BY <1>0, <1>a, <1>b DEF ProcInv, ProcType, StopperKnows, Stopping
<1>7. NoStrayChild'
  BY <1>0 DEF _start_child, ProcInv, NoStrayChild, Over, Live
<1> QED BY <1>1, <1>2, <1>3, <1>4, <1>5, <1>6, <1>7 DEF ProcInv

\* Entering it in `children` changes what only later steps of the same thread rely on.
LEMMA EnterChildKeeps ==
  ASSUME ProcInv, NEW t \in Threads, EnterChild(t) PROVE ProcInv'
<1> USE ThreadFacts, RankFacts
<1>0. /\ at[t] = "enter" /\ cur[t] \in Children /\ t # "ctl"
      /\ at \in [Threads -> MainPlaces \cup CtlPlaces \cup WorkerPlaces]
  BY CtlStartsNothing DEF EnterChild, ProcInv, ProcType, Starting
<1>a. /\ unnamed' = unnamed \ {cur[t]} /\ at' = [at EXCEPT ![t] = "await"]
      /\ UNCHANGED <<child, file, record, from, cur, lock, passes, attempts, recent, stray, left>>
      /\ raced' = (raced \/ (t # "main" /\ at["main"] \in Stopping)) /\ Running
  BY DEF EnterChild, hubVars
<1>b. \A c \in Children : c # cur[t] => (Over(c) => Over(c)') /\ (Ended(c) => Ended(c)')
  BY <1>a DEF Over, Ended
<1>1. ProcType'
  BY <1>0, <1>a DEF ProcInv, ProcType, MainPlaces, Starting
<1>2. PlacesOK'
  BY <1>0, <1>a DEF ProcInv, PlacesOK, MainPlaces, WorkerPlaces, Starting, Stopping
<1>3. OneStarter'
  BY <1>0, <1>a DEF ProcInv, OneStarter, Starting
<1>4. StarterKnows'
  <2>1. \A u \in Threads : u # t => at'[u] \notin Starting
    BY <1>0, <1>a, StarterAlone DEF Starting
  <2>2. \A c \in Children : Rank[c] > Rank[cur[t]] => Over(c)'
    BY <1>0, <1>b DEF ProcInv, StarterKnows
  <2> QED BY <1>0, <1>a, <2>1, <2>2 DEF StarterKnows, Starting
<1>5. PrimaryIsRegistered'
  BY <1>0, <1>a DEF ProcInv, PrimaryIsRegistered
<1>6. StopperKnows'
  <2> SUFFICES ASSUME ~raced' PROVE at'["main"] \notin {"stopReap", "stopWait", "quit", "exited"}
    BY DEF StopperKnows
  <2>1. CASE t = "main"
    BY <1>0, <1>a, <2>1
  <2>2. CASE t # "main"
    BY <1>0, <1>a, <2>2 DEF Running, Stopping
  <2> QED BY <2>1, <2>2
<1>7. NoStrayChild'
  BY <1>a DEF ProcInv, NoStrayChild
<1> QED BY <1>1, <1>2, <1>3, <1>4, <1>5, <1>6, <1>7 DEF ProcInv

\* The wait for a child that is ready goes on to the next child or to the route.
LEMMA AwaitChildKeeps ==
  ASSUME ProcInv, NEW t \in Threads, AwaitChild(t) PROVE ProcInv'
<1> USE ThreadFacts, RankFacts DEF MainPlaces, CtlPlaces, WorkerPlaces, Starting, Stopping,
       BudgetPlaces
<1>0. at[t] = "await" /\ cur[t] \in Children /\ t # "ctl"
  BY CtlStartsNothing DEF AwaitChild, ProcInv, ProcType
<1>1. ProcType'
  BY <1>0 DEF AwaitChild, ProcInv, ProcType, hubVars
<1>2. PlacesOK'
  BY <1>0 DEF AwaitChild, ProcInv, ProcType, PlacesOK, hubVars
<1>3. OneStarter'
  BY <1>0 DEF AwaitChild, ProcInv, ProcType, OneStarter, PlacesOK, hubVars
<1>4. StarterKnows'
  BY <1>0 DEF AwaitChild, ProcInv, ProcType, StarterKnows, Over, Ended, hubVars
<1>5. PrimaryIsRegistered'
  BY <1>0 DEF AwaitChild, ProcInv, ProcType, PrimaryIsRegistered, Children, hubVars
<1>6. StopperKnows'
  BY <1>0 DEF AwaitChild, ProcInv, ProcType, StopperKnows, Ended, Over, hubVars
<1>7. NoStrayChild'
  BY <1>0 DEF AwaitChild, ProcInv, ProcType, NoStrayChild, hubVars
<1> QED BY <1>1, <1>2, <1>3, <1>4, <1>5, <1>6, <1>7 DEF ProcInv

\* An exception sends the main thread to stop() and ends a restart thread.
LEMMA RaiseKeeps ==
  ASSUME ProcInv, NEW t \in Threads, t # "ctl", at[t] \notin Stopping \cup {"exited"}, Raise(t),
         UNCHANGED <<hubVars, unnamed, stray, raced>>, attempts' \in Nat,
         recent' \in [Spenders -> Nat], left' \in 0..Budget
  PROVE  ProcInv'
<1> USE ThreadFacts, RankFacts DEF MainPlaces, CtlPlaces, WorkerPlaces, Starting, Stopping,
       BudgetPlaces
<1>1. ProcType'
  BY DEF Raise, Forget, hubVars, ProcInv, ProcType
<1>2. PlacesOK'
  BY DEF Raise, ProcInv, ProcType, PlacesOK
<1>3. OneStarter'
  BY DEF Raise, ProcInv, ProcType, OneStarter, PlacesOK
<1>4. StarterKnows'
  BY DEF Raise, Forget, hubVars, ProcInv, ProcType, StarterKnows, Over, Ended
<1>5. PrimaryIsRegistered'
  <2>1. \A u \in Threads : at'[u] = "enter" => at[u] = "enter" /\ cur'[u] = cur[u]
    BY DEF Raise, Forget, ProcInv, ProcType
  <2> QED BY <2>1 DEF hubVars, ProcInv, PrimaryIsRegistered
<1>6. StopperKnows'
  BY DEF Raise, Forget, hubVars, ProcInv, ProcType, StopperKnows, Ended, Over
<1>7. NoStrayChild'
  BY DEF ProcInv, NoStrayChild
<1> QED BY <1>1, <1>2, <1>3, <1>4, <1>5, <1>6, <1>7 DEF ProcInv

\* A failed wait, or a route that is not served, is an exception.
LEMMA AwaitFailsKeeps ==
  ASSUME ProcInv, NEW t \in Threads, AwaitFails(t) \/ RouteFails(t) PROVE ProcInv'
<1>1. at[t] \in Starting /\ t # "ctl"
  BY CtlStartsNothing DEF AwaitFails, RouteFails, Starting
<1>2. left' \in 0..Budget /\ attempts' \in Nat /\ recent' \in [Spenders -> Nat]
  BY SupervisorAssumption DEF AwaitFails, RouteFails, Disturb, ProcInv, ProcType
<1>3. Raise(t) /\ UNCHANGED <<hubVars, unnamed, stray, raced>>
  BY DEF AwaitFails, RouteFails
<1> QED BY <1>1, <1>2, <1>3, RaiseKeeps DEF Starting, Stopping

\* The end of start() or of a restart.
LEMMA RouteReadyKeeps ==
  ASSUME ProcInv, NEW t \in Threads, RouteReady(t) PROVE ProcInv'
<1> USE ThreadFacts, RankFacts DEF MainPlaces, CtlPlaces, WorkerPlaces, Starting, Stopping,
       BudgetPlaces
<1>0. at[t] = "route" /\ t # "ctl"
  BY CtlStartsNothing DEF RouteReady, ProcInv, ProcType
<1>a. CASE Raise(t)
  <2>1. UNCHANGED <<hubVars, attempts, recent, unnamed, stray, raced, left>>
    BY DEF RouteReady
  <2> QED BY <1>0, <1>a, <2>1, RaiseKeeps DEF ProcInv, ProcType
<1> SUFFICES ASSUME ~Raise(t) PROVE ProcInv'
  BY <1>a
<1>b. /\ at' = [at EXCEPT ![t] = IF t = "main" THEN "poll" ELSE "free",
                        !["ctl"] = IF t = "main" /\ @ = "off" THEN "idle" ELSE @]
      /\ UNCHANGED <<hubVars, passes, attempts, recent, unnamed, stray, raced, left>>
      /\ lock' = IF lock = t THEN None ELSE lock
      /\ Forget(t)
  BY DEF RouteReady
<1>1. ProcType'
  BY <1>0, <1>b DEF Forget, hubVars, ProcInv, ProcType
<1>2. PlacesOK'
  BY <1>0, <1>b DEF ProcInv, ProcType, PlacesOK
<1>3. OneStarter'
  BY <1>0, <1>b DEF ProcInv, ProcType, PlacesOK, OneStarter
<1>4. StarterKnows'
  BY <1>0, <1>b DEF Forget, hubVars, ProcInv, ProcType, StarterKnows, Over, Ended
<1>5. PrimaryIsRegistered'
  <2>1. \A u \in Threads : at'[u] = "enter" => at[u] = "enter" /\ cur'[u] = cur[u]
    BY <1>0, <1>b DEF Forget, ProcInv, ProcType
  <2> QED BY <1>b, <2>1 DEF hubVars, ProcInv, PrimaryIsRegistered
<1>6. StopperKnows'
  BY <1>0, <1>b DEF Forget, hubVars, ProcInv, ProcType, StopperKnows, Ended, Over
<1>7. NoStrayChild'
  BY <1>b DEF ProcInv, NoStrayChild
<1> QED BY <1>1, <1>2, <1>3, <1>4, <1>5, <1>6, <1>7 DEF ProcInv

\* A restart that gets the lock signals its children; nobody else is starting any.
LEMMA RestartFromKeeps ==
  ASSUME ProcInv, NEW t \in Threads, _restart_from(t) PROVE ProcInv'
<1> USE ThreadFacts, RankFacts DEF MainPlaces, CtlPlaces, WorkerPlaces, Starting, Stopping,
       BudgetPlaces
<1>0. at[t] = "lock" /\ lock = None /\ from[t] \in Children /\ t # "ctl"
  BY DEF _restart_from, ProcInv, ProcType, PlacesOK
<1>1. ProcType'
  BY <1>0 DEF _restart_from, ProcInv, ProcType, Terminate, Suffix, Live
<1>2. PlacesOK'
  BY <1>0 DEF _restart_from, ProcInv, ProcType, PlacesOK, Terminate, Suffix, Live
<1>3. OneStarter'
  BY <1>0 DEF _restart_from, ProcInv, ProcType, OneStarter, PlacesOK, Terminate, Suffix, Live
<1>4. StarterKnows'
  BY <1>0 DEF _restart_from, ProcInv, ProcType, StarterKnows, Over, Ended, Terminate, Suffix, Live
<1>5. PrimaryIsRegistered'
  BY <1>0 DEF _restart_from, ProcInv, ProcType, PrimaryIsRegistered, Children, Terminate, Suffix,
     Live
<1>6. StopperKnows'
  BY <1>0 DEF _restart_from, ProcInv, ProcType, StopperKnows, Ended, Over, Terminate, Suffix, Live
<1>7. NoStrayChild'
  BY <1>0 DEF _restart_from, ProcInv, ProcType, NoStrayChild, Terminate, Suffix, Live
<1> QED BY <1>1, <1>2, <1>3, <1>4, <1>5, <1>6, <1>7 DEF ProcInv

\* Reaping moves to the next child, and to the first start after the last one.
LEMMA ReapKeeps ==
  ASSUME ProcInv, NEW t \in Threads, Reap(t) PROVE ProcInv'
<1> USE ThreadFacts, RankFacts DEF MainPlaces, CtlPlaces, WorkerPlaces, Starting, Stopping,
       BudgetPlaces
<1>0. at[t] = "reap" /\ Over(cur[t]) /\ cur[t] \in Children /\ from[t] \in Children /\ t # "ctl"
  BY CtlStartsNothing DEF Reap, ProcInv, ProcType
<1>1. ProcType'
  <2>1. CASE cur[t] = "primary"
    <3>1. /\ file' = file \ Suffix(from[t]) /\ cur' = [cur EXCEPT ![t] = from[t]]
          /\ at' = [at EXCEPT ![t] = "spawn"]
          /\ UNCHANGED <<child, record, from, lock, passes, attempts, recent, unnamed, stray, raced, left>>
      BY <2>1 DEF Reap
    <3>2. file' \subseteq {"hub", "primary"} /\ cur' \in [Threads -> Children]
      BY <1>0, <3>1 DEF ProcInv, ProcType
    <3>3. at' \in [Threads -> MainPlaces \cup CtlPlaces \cup WorkerPlaces]
      BY <3>1 DEF ProcInv, ProcType
    <3> QED BY <3>1, <3>2, <3>3 DEF ProcInv, ProcType
  <2>2. CASE cur[t] # "primary"
    <3>1. Successor[cur[t]] \in Children
      BY <1>0, <2>2
    <3>2. cur' = [cur EXCEPT ![t] = Successor[cur[t]]] /\ UNCHANGED <<file, at>>
      BY <2>2 DEF Reap
    <3> QED BY <3>1, <3>2 DEF Reap, ProcInv, ProcType
  <2> QED BY <2>1, <2>2
<1>2. PlacesOK'
  BY <1>0 DEF Reap, ProcInv, ProcType, PlacesOK, Suffix
<1>3. OneStarter'
  BY <1>0 DEF Reap, ProcInv, ProcType, OneStarter, PlacesOK, Suffix
<1>4. StarterKnows'
  BY <1>0 DEF Reap, ProcInv, ProcType, StarterKnows, Over, Ended, Suffix
<1>5. PrimaryIsRegistered'
  BY <1>0 DEF Reap, ProcInv, ProcType, PrimaryIsRegistered, Children, Suffix
<1>6. StopperKnows'
  BY <1>0 DEF Reap, ProcInv, ProcType, StopperKnows, Ended, Over, Suffix
<1>7. NoStrayChild'
  BY <1>0 DEF Reap, ProcInv, ProcType, NoStrayChild, Suffix
<1> QED BY <1>1, <1>2, <1>3, <1>4, <1>5, <1>6, <1>7 DEF ProcInv

\* stop() signals every child.
LEMMA HaltKeeps ==
  ASSUME ProcInv, NEW t \in Threads, Halt(t) PROVE ProcInv'
<1> USE ThreadFacts, RankFacts DEF MainPlaces, CtlPlaces, WorkerPlaces, Starting, Stopping,
       BudgetPlaces
<1>0. at[t] = "halt" /\ t \in {"main", "ctl"}
  BY DEF Halt, ProcInv, ProcType, PlacesOK
<1>1. ProcType'
  BY <1>0 DEF Halt, ProcInv, ProcType, Terminate, Live
<1>2. PlacesOK'
  BY <1>0 DEF Halt, ProcInv, ProcType, PlacesOK, Terminate, Live
<1>3. OneStarter'
  BY <1>0 DEF Halt, ProcInv, ProcType, OneStarter, PlacesOK, Terminate, Live
<1>4. StarterKnows'
  BY <1>0 DEF Halt, ProcInv, ProcType, StarterKnows, Over, Ended, Terminate, Live
<1>5. PrimaryIsRegistered'
  BY <1>0 DEF Halt, ProcInv, ProcType, PrimaryIsRegistered, Children, Terminate, Live
<1>6. StopperKnows'
  BY <1>0 DEF Halt, ProcInv, ProcType, StopperKnows, Ended, Over, Terminate, Live
<1>7. NoStrayChild'
  BY <1>0 DEF Halt, ProcInv, ProcType, NoStrayChild, Terminate, Live
<1> QED BY <1>1, <1>2, <1>3, <1>4, <1>5, <1>6, <1>7 DEF ProcInv

\* stop() waits for the children one by one.
LEMMA StopReapKeeps ==
  ASSUME ProcInv, NEW t \in Threads, StopReap(t) PROVE ProcInv'
<1> USE ThreadFacts, RankFacts DEF MainPlaces, CtlPlaces, WorkerPlaces, Starting, Stopping,
       BudgetPlaces
<1>0. at[t] \in {"stopReap", "stopWait"} /\ cur[t] \in Children /\ t \in {"main", "ctl"}
  BY DEF StopReap, ProcInv, ProcType, PlacesOK
<1>a. PICK a \in {"stopReap", "stopWait", "quit"} : at' = [at EXCEPT ![t] = a]
  BY <1>0 DEF StopReap
<1>b. UNCHANGED <<from, lock, passes>>
  BY DEF StopReap
<1>1. ProcType'
  BY <1>0 DEF StopReap, ProcInv, ProcType, Terminate, Live
<1>2. PlacesOK'
  BY <1>0, <1>a, <1>b DEF ProcInv, ProcType, PlacesOK
<1>3. OneStarter'
  BY <1>0, <1>a, <1>b DEF ProcInv, ProcType, OneStarter, PlacesOK
<1>4. StarterKnows'
  BY <1>0 DEF StopReap, ProcInv, ProcType, StarterKnows, Over, Ended, Terminate, Live
<1>5. PrimaryIsRegistered'
  BY <1>0 DEF StopReap, ProcInv, ProcType, PrimaryIsRegistered, Children, Terminate, Live
<1>6. StopperKnows'
  BY <1>0 DEF StopReap, ProcInv, ProcType, StopperKnows, Ended, Over, Terminate, Live
<1>7. NoStrayChild'
  BY <1>0 DEF StopReap, ProcInv, ProcType, NoStrayChild, Terminate, Live
<1> QED BY <1>1, <1>2, <1>3, <1>4, <1>5, <1>6, <1>7 DEF ProcInv
\* A process that comes up; the Primary Agent registers when it does.
LEMMA BootsKeeps ==
  ASSUME ProcInv, Boots PROVE ProcInv'
<1> USE ThreadFacts, RankFacts DEF MainPlaces, CtlPlaces, WorkerPlaces, Starting, Stopping,
       BudgetPlaces
<1>1. ProcType'
  <2>1. UNCHANGED supVars
    BY DEF Boots
  <2>2. child' \in [Children -> {"none", "boot", "up", "term", "dead"}]
    <3>1. \E c \in Children : \E s \in {"up", "dead"} : child' = [child EXCEPT ![c] = s]
      BY DEF Boots, HubBoots, AccessBoots, _register_agent, Children
    <3> QED BY <3>1 DEF ProcInv, ProcType
  <2>5. file' \subseteq {"hub", "primary"}
    <3>1. file' = file \/ file' = file \cup {"hub"} \/ file' = file \cup {"primary"}
      BY DEF Boots, HubBoots, AccessBoots, _register_agent
    <3>2. file \subseteq {"hub", "primary"}
      BY DEF ProcInv, ProcType
    <3> HIDE ThreadFacts, RankFacts
    <3> QED BY <3>1, <3>2, Zenon
  <2>3. record' = record \/ record' = TRUE
    BY DEF Boots, HubBoots, AccessBoots, _register_agent
  <2>4. record' \in BOOLEAN
    BY <2>3 DEF ProcInv, ProcType
  <2> QED BY <2>1, <2>2, <2>4, <2>5 DEF supVars, ProcInv, ProcType
<1>2. PlacesOK'
  BY DEF Boots, HubBoots, AccessBoots, _register_agent, supVars, ProcInv, ProcType, PlacesOK
<1>3. OneStarter'
  BY DEF Boots, HubBoots, AccessBoots, _register_agent, supVars, ProcInv, ProcType, OneStarter,
     PlacesOK
<1>4. StarterKnows'
  BY DEF Boots, HubBoots, AccessBoots, _register_agent, supVars, ProcInv, ProcType, StarterKnows,
     Over, Ended
<1>5. PrimaryIsRegistered'
  BY DEF Boots, HubBoots, AccessBoots, _register_agent, supVars, ProcInv, ProcType,
     PrimaryIsRegistered, Children
<1>6. StopperKnows'
  BY DEF Boots, HubBoots, AccessBoots, _register_agent, supVars, ProcInv, ProcType, StopperKnows,
     Ended, Over
<1>7. NoStrayChild'
  BY DEF Boots, HubBoots, AccessBoots, _register_agent, supVars, ProcInv, ProcType, NoStrayChild
<1> QED BY <1>1, <1>2, <1>3, <1>4, <1>5, <1>6, <1>7 DEF ProcInv

\* A process that ends, by signal or by itself.
LEMMA EndKeeps ==
  ASSUME ProcInv, NEW c \in Children, ProcessEnds(c) \/ Crash(c) PROVE ProcInv'
<1> USE ThreadFacts, RankFacts DEF MainPlaces, CtlPlaces, WorkerPlaces, Starting, Stopping,
       BudgetPlaces
<1>1. ProcType'
  <2>1. left' \in 0..Budget /\ UNCHANGED <<at, from, cur, lock, passes, attempts, recent, unnamed, stray, raced>>
    BY SupervisorAssumption DEF ProcessEnds, Crash, Disturb, supVars, ProcInv, ProcType
  <2>2. child' = [child EXCEPT ![c] = "dead"] /\ UNCHANGED <<file, record>>
    BY DEF ProcessEnds, Crash, Gone
  <2> QED BY <2>1, <2>2 DEF ProcInv, ProcType
<1>2. PlacesOK'
  BY SupervisorAssumption DEF ProcessEnds, Crash, Gone, Disturb, supVars, ProcInv, ProcType,
     PlacesOK
<1>3. OneStarter'
  BY SupervisorAssumption DEF ProcessEnds, Crash, Gone, Disturb, supVars, ProcInv, ProcType,
     OneStarter, PlacesOK
<1>4. StarterKnows'
  BY SupervisorAssumption DEF ProcessEnds, Crash, Gone, Disturb, supVars, ProcInv, ProcType,
     StarterKnows, Over, Ended
<1>5. PrimaryIsRegistered'
  BY SupervisorAssumption DEF ProcessEnds, Crash, Gone, Disturb, supVars, ProcInv, ProcType,
     PrimaryIsRegistered, Children
<1>6. StopperKnows'
  BY SupervisorAssumption DEF ProcessEnds, Crash, Gone, Disturb, supVars, ProcInv, ProcType,
     StopperKnows, Ended, Over
<1>7. NoStrayChild'
  BY SupervisorAssumption DEF ProcessEnds, Crash, Gone, Disturb, supVars, ProcInv, ProcType,
     NoStrayChild
<1> QED BY <1>1, <1>2, <1>3, <1>4, <1>5, <1>6, <1>7 DEF ProcInv

\* A step that only moves threads between places outside starting and stopping.
LEMMA MoveKeeps ==
  ASSUME ProcInv, UNCHANGED <<child, file, record, cur, lock, passes, unnamed, stray, raced>>,
         attempts' \in Nat, recent' \in [Spenders -> Nat], left' \in 0..Budget,
         at' \in [Threads -> MainPlaces \cup CtlPlaces \cup WorkerPlaces],
         from' \in [Threads -> Children], PlacesOK', OneStarter',
         \A t \in Threads : \/ at'[t] = at[t] /\ from'[t] = from[t]
                            \/ at'[t] \notin Starting \cup {"stopReap", "stopWait", "quit", "exited"}
  PROVE  ProcInv'
<1> USE ThreadFacts
<1>0. \A c \in Children : (Over(c) <=> Over(c)') /\ (Ended(c) <=> Ended(c)')
  BY DEF Over, Ended
<1>1. ProcType'
  BY DEF ProcInv, ProcType
<1>2. StarterKnows'
  BY <1>0 DEF ProcInv, StarterKnows, Starting
<1>3. PrimaryIsRegistered'
  BY DEF ProcInv, PrimaryIsRegistered, Starting
<1>4. StopperKnows'
  BY <1>0 DEF ProcInv, StopperKnows
<1>5. NoStrayChild'
  BY DEF ProcInv, NoStrayChild
<1> QED BY <1>1, <1>2, <1>3, <1>4, <1>5 DEF ProcInv

\* The main thread finds the process of a child over.
LEMMA WatchKeeps ==
  ASSUME ProcInv, Watch PROVE ProcInv'
<1> USE ThreadFacts, RankFacts
    DEF MainPlaces, CtlPlaces, WorkerPlaces, Starting, Stopping, BudgetPlaces, Spenders
<1>a. CASE ExitNoted /\ Raise("main")
  <2>1. /\ UNCHANGED <<hubVars, attempts, recent, unnamed, stray, raced, left>>
        /\ at["main"] \in {"degraded", "restarting"}
    BY <1>a DEF ExitNoted
  <2> QED BY <1>a, <2>1, RaiseKeeps DEF ProcInv, ProcType
<1>b. CASE ~(ExitNoted /\ Raise("main"))
  <2>1. PICK a \in {"seen", "store", "poll", "lock"}, c \in Children :
          /\ at' = [at EXCEPT !["main"] = a] /\ from' = [from EXCEPT !["main"] = c]
          /\ at["main"] \in {"poll", "seen", "degraded", "restarting"}
    <3>1. ASSUME NEW c \in Children, Poll(c)
          PROVE  /\ at' = [at EXCEPT !["main"] = "seen"] /\ from' = [from EXCEPT !["main"] = c]
                 /\ at["main"] = "poll"
      BY <3>1 DEF Poll
    <3>2. from["main"] \in Children /\ from = [from EXCEPT !["main"] = from["main"]]
      BY DEF ProcInv, ProcType
    <3>3. CASE _handle_child_exit
      BY <3>2, <3>3 DEF _handle_child_exit
    <3>4. CASE ExitNoted
      BY <1>b, <3>2, <3>4 DEF ExitNoted
    <3> QED BY <3>1, <3>3, <3>4 DEF Watch
  <2>2. /\ UNCHANGED <<child, file, record, cur, lock, passes, unnamed, stray, raced, left, attempts>>
        /\ recent' \in [Spenders -> Nat]
    <3>1. recent' = recent \/ recent' = [recent EXCEPT !["main"] = attempts]
      BY <1>b DEF Watch, Poll, _handle_child_exit, ExitNoted, FilterAttempts
    <3>2. recent' \in [Spenders -> Nat]
      BY <3>1 DEF ProcInv, ProcType
    <3> QED BY <1>b, <3>2 DEF Watch, Poll, _handle_child_exit, ExitNoted, hubVars
  <2>3. /\ at' \in [Threads -> MainPlaces \cup CtlPlaces \cup WorkerPlaces]
        /\ from' \in [Threads -> Children]
    BY <2>1 DEF ProcInv, ProcType
  <2>4. at'["main"] = a /\ \A t \in Threads : t # "main" => at'[t] = at[t] /\ from'[t] = from[t]
    BY <2>1 DEF ProcInv, ProcType
  <2>5. PlacesOK' /\ OneStarter'
    BY <2>2, <2>4 DEF ProcInv, PlacesOK, OneStarter
  <2>6. left' \in 0..Budget /\ attempts' \in Nat
    BY <2>2 DEF ProcInv, ProcType
  <2> QED BY <2>2, <2>3, <2>4, <2>5, <2>6, MoveKeeps
<1> QED BY <1>a, <1>b

\* What main and control thread do to the list of attempts leaves processes alone; the
\* last step of the control thread hands the restart to a thread that is free.
LEMMA BudgetKeeps ==
  ASSUME ProcInv, NEW t \in Spenders, BudgetStep(t) PROVE ProcInv'
<1> USE ThreadFacts, RankFacts
    DEF MainPlaces, CtlPlaces, WorkerPlaces, Starting, Stopping, BudgetPlaces, Spenders
<1>0. /\ at[t] \in BudgetPlaces
      /\ UNCHANGED <<child, file, record, cur, lock, passes, unnamed, stray, raced, left>>
  BY DEF BudgetStep, StoreAttempts, CheckAttempts, _consume_restart_budget, hubVars
<1>1. attempts' \in Nat
  <2>1. attempts' \in {attempts, attempts + 1, recent[t]}
    BY DEF BudgetStep, StoreAttempts, CheckAttempts, _consume_restart_budget
  <2> QED BY <2>1 DEF ProcInv, ProcType
<1>2. recent' \in [Spenders -> Nat]
  BY DEF BudgetStep, StoreAttempts, CheckAttempts, _consume_restart_budget, ProcInv, ProcType
<1>3. /\ at' \in [Threads -> MainPlaces \cup CtlPlaces \cup WorkerPlaces]
      /\ from' \in [Threads -> Children]
      /\ at'[t] \in {"check", "append", "degraded", "restarting", "write"}
      /\ t = "main" => at'[t] # "write"
      /\ t = "ctl" => at'[t] \notin {"degraded", "restarting"}
      /\ \A u \in Threads : u # t => \/ at'[u] = at[u] /\ from'[u] = from[u]
                                     \/ u \in Workers /\ at'[u] = "lock"
  <2>0. at \in [Threads -> MainPlaces \cup CtlPlaces \cup WorkerPlaces] /\ from \in [Threads -> Children]
    BY DEF ProcInv, ProcType
  <2>1. CASE StoreAttempts(t)
    BY <2>0, <2>1 DEF StoreAttempts
  <2>2. CASE CheckAttempts(t)
    BY <2>0, <2>2 DEF CheckAttempts
  <2>3. CASE _consume_restart_budget(t) /\ t = "main"
    BY <2>0, <2>3 DEF _consume_restart_budget
  <2>4. CASE _consume_restart_budget(t) /\ t = "ctl"
    <3>1. PICK w \in Workers : /\ at' = [at EXCEPT ![w] = "lock", ![t] = "write"]
                               /\ from' = [from EXCEPT ![w] = from[t], ![t] = "hub"]
      BY <2>4 DEF _consume_restart_budget
    <3> QED BY <2>0, <2>4, <3>1
  <2> QED BY <2>1, <2>2, <2>3, <2>4 DEF BudgetStep
<1>4. PlacesOK' /\ OneStarter'
  BY <1>0, <1>3 DEF ProcInv, PlacesOK, OneStarter
<1>5. left' \in 0..Budget
  BY <1>0 DEF ProcInv, ProcType
<1>6. \A u \in Threads : \/ at'[u] = at[u] /\ from'[u] = from[u]
                         \/ at'[u] \notin Starting \cup {"stopReap", "stopWait", "quit", "exited"}
  BY <1>3
<1> QED BY <1>0, <1>1, <1>2, <1>3, <1>4, <1>5, <1>6, MoveKeeps

\* What the control thread does apart from stop(): it moves between its own places.
LEMMA ControlKeeps ==
  ASSUME ProcInv, ControlRequest \/ ControlReplies PROVE ProcInv'
<1> USE ThreadFacts, RankFacts
    DEF MainPlaces, CtlPlaces, WorkerPlaces, Starting, Stopping, BudgetPlaces, Spenders
<1> USE DEF ControlRequest, control_status, control_stop_runtime, ControlReplies, control_restart
<1>0. /\ UNCHANGED <<child, file, record, cur, lock, passes, attempts, unnamed, stray, raced>>
      /\ at["ctl"] \in {"idle", "write"}
  BY DEF hubVars
<1>1. left' \in 0..Budget /\ attempts' \in Nat
  BY <1>0, SupervisorAssumption DEF Disturb, ProcInv, ProcType
<1>2. recent' \in [Spenders -> Nat]
  <2>1. recent' = recent \/ recent' = [recent EXCEPT !["ctl"] = attempts]
    BY DEF FilterAttempts
  <2> QED BY <2>1 DEF ProcInv, ProcType
<1>3. PICK a \in {"idle", "write", "halt", "store"}, c \in Children :
        at' = [at EXCEPT !["ctl"] = a] /\ from' = [from EXCEPT !["ctl"] = c]
  <2>1. from["ctl"] \in Children /\ from = [from EXCEPT !["ctl"] = from["ctl"]]
    BY DEF ProcInv, ProcType
  <2> QED BY <2>1 DEF Children
<1>4. /\ at' \in [Threads -> MainPlaces \cup CtlPlaces \cup WorkerPlaces]
      /\ from' \in [Threads -> Children] /\ at'["ctl"] = a
      /\ \A t \in Threads : t # "ctl" => at'[t] = at[t] /\ from'[t] = from[t]
  BY <1>3 DEF ProcInv, ProcType
<1>5. PlacesOK' /\ OneStarter'
  BY <1>0, <1>4 DEF ProcInv, PlacesOK, OneStarter
<1> QED BY <1>0, <1>1, <1>2, <1>4, <1>5, MoveKeeps

\* A signal interrupts the main thread.
LEMMA SignalKeeps ==
  ASSUME ProcInv, Signal PROVE ProcInv'
<1> USE ThreadFacts, RankFacts DEF MainPlaces, CtlPlaces, WorkerPlaces, Starting, Stopping,
       BudgetPlaces
<1>1. ProcType'
  <2>1. left' \in 0..Budget
    BY SupervisorAssumption DEF Signal, Disturb, ProcInv, ProcType
  <2>2. recent' \in [Spenders -> Nat]
    BY DEF Signal, ProcInv, ProcType
  <2>3. /\ at' \in [Threads -> MainPlaces \cup CtlPlaces \cup WorkerPlaces]
        /\ from' \in [Threads -> Children] /\ cur' \in [Threads -> Children]
    BY DEF Signal, Forget, ProcInv, ProcType
  <2> QED BY <2>1, <2>2, <2>3 DEF Signal, hubVars, ProcInv, ProcType
<1>2. PlacesOK'
  BY SupervisorAssumption DEF Signal, Forget, Disturb, hubVars, ProcInv, ProcType, PlacesOK
<1>3. OneStarter'
  BY SupervisorAssumption DEF Signal, Forget, Disturb, hubVars, ProcInv, ProcType, OneStarter,
     PlacesOK
<1>4. StarterKnows'
  BY SupervisorAssumption DEF Signal, Forget, Disturb, hubVars, ProcInv, ProcType, StarterKnows,
     Over, Ended
<1>5. PrimaryIsRegistered'
  BY SupervisorAssumption DEF Signal, Forget, Disturb, hubVars, ProcInv, ProcType,
     PrimaryIsRegistered, Children
<1>6. StopperKnows'
  BY SupervisorAssumption DEF Signal, Forget, Disturb, hubVars, ProcInv, ProcType, StopperKnows,
     Ended, Over
<1>7. NoStrayChild'
  BY SupervisorAssumption DEF Signal, Forget, Disturb, hubVars, ProcInv, ProcType, NoStrayChild
<1> QED BY <1>1, <1>2, <1>3, <1>4, <1>5, <1>6, <1>7 DEF ProcInv

\* The last step of stop(): once more, or exit.
LEMMA QuitKeeps ==
  ASSUME ProcInv, Quit PROVE ProcInv'
<1> USE ThreadFacts, RankFacts DEF MainPlaces, CtlPlaces, WorkerPlaces, Starting, Stopping,
       BudgetPlaces
<1>1. ProcType'
  <2>1. passes' \in 0..2
    BY DEF Quit, ProcInv, PlacesOK
  <2> QED BY <2>1 DEF Quit, hubVars, ProcInv, ProcType
<1>2. PlacesOK'
  BY DEF Quit, hubVars, ProcInv, ProcType, PlacesOK
<1>3. OneStarter'
  BY DEF Quit, hubVars, ProcInv, ProcType, OneStarter, PlacesOK
<1>4. StarterKnows'
  BY DEF Quit, hubVars, ProcInv, ProcType, StarterKnows, Over, Ended
<1>5. PrimaryIsRegistered'
  BY DEF Quit, hubVars, ProcInv, ProcType, PrimaryIsRegistered, Children
<1>6. StopperKnows'
  BY DEF Quit, hubVars, ProcInv, ProcType, StopperKnows, Ended, Over
<1>7. NoStrayChild'
  BY DEF Quit, hubVars, ProcInv, ProcType, NoStrayChild
<1> QED BY <1>1, <1>2, <1>3, <1>4, <1>5, <1>6, <1>7 DEF ProcInv

\* The steps of clients and the clock touch neither processes nor threads.
LEMMA OthersKeep ==
  ASSUME ProcInv, UNCHANGED <<child, file, record, at, from, cur, lock, passes, unnamed, stray, raced>>,
         attempts' \in Nat, recent' \in [Spenders -> Nat], left' \in 0..Budget
  PROVE  ProcInv'
BY DEF ProcInv, ProcType, PlacesOK, OneStarter, StarterKnows, PrimaryIsRegistered, StopperKnows,
   NoStrayChild, Ended, Over
-----------------------------------------------------------------------------
(* The prompts *)

\* A queue without repetitions has as many entries as elements.
LEMMA CountQueue ==
  ASSUME QueueOK PROVE Len(runq) = Cardinality(InService)
<1> DEFINE n == Len(runq)
           f == [i \in 1..n |-> runq[i]]
<1>1. n \in Nat /\ DOMAIN runq = 1..n
  BY DEF QueueOK
<1>2. f \in Bijection(1..n, InService)
  <2>1. InService = {runq[i] : i \in 1..n}
    BY <1>1 DEF InService
  <2>2. f \in [1..n -> InService]
    BY <2>1
  <2>3. \A i, j \in 1..n : f[i] = f[j] => i = j
    BY DEF QueueOK
  <2>4. \A x \in InService : \E i \in 1..n : f[i] = x
    BY <2>1
  <2> QED BY <2>2, <2>3, <2>4 DEF Bijection, Injection, Surjection, IsInjective
<1>3. ExistsBijection(1..n, InService)
  BY <1>2 DEF ExistsBijection
<1> QED BY <1>1, <1>3, FS_CountingElements

\* The numbers 1..NumPrompts do not contain None.
LEMMA PromptFacts == Prompts = 1..NumPrompts /\ None \notin Prompts /\ NumPrompts \in Nat
BY HubAssumption DEF Prompts

\* A prompt enters the queue behind the others, or gets an error.
LEMMA RouteKeepsPath ==
  ASSUME PathInv, NEW p \in Prompts, _route_agent_prompt_through_hub(p) PROVE PathInv'
<1> USE PromptFacts DEF PathInv, PathType
<1>1. CASE _forward_agent_contract
  <2>1. /\ runq' = Append(runq, p) /\ peer' = p /\ mine' = mine \cup {p}
        /\ clean' = IF runq = <<>> /\ bound = "bound" THEN {p} ELSE {}
        /\ req' = [req EXCEPT ![p] = "runtime"] /\ bound' = bound /\ req[p] = "new"
    BY <1>1 DEF _route_agent_prompt_through_hub, EnterService
  <2>2. /\ runq' \in Seq(Prompts) /\ Len(runq') = Len(runq) + 1 /\ runq'[Len(runq) + 1] = p
        /\ \A i \in 1..Len(runq) : runq'[i] = runq[i]
        /\ Len(runq) \in Nat /\ DOMAIN runq = 1..Len(runq) /\ DOMAIN runq' = 1..Len(runq')
    BY <2>1 DEF QueueOK
  <2>3. QueueOK'
    <3>1. \A i \in 1..Len(runq') : i \in 1..Len(runq) \/ i = Len(runq) + 1
      BY <2>2
    <3>2. \A i \in 1..Len(runq) : runq[i] # p /\ runq[i] \in Prompts
      BY <2>1 DEF QueueOK
    <3>3. \A i, j \in 1..Len(runq') : runq'[i] = runq'[j] => i = j
      BY <2>2, <3>1, <3>2, SMTT(30) DEF QueueOK
    <3>4. \A i \in 1..Len(runq') : req'[runq'[i]] # "new"
      BY <2>1, <2>2, <3>1, <3>2 DEF QueueOK
    <3> QED BY <2>2, <3>3, <3>4 DEF QueueOK
  <2>4. InService' = InService \cup {p}
    <3>1. 1..Len(runq') = 1..Len(runq) \cup {Len(runq) + 1}
      BY <2>2
    <3> QED BY <2>2, <3>1, SMTT(30) DEF InService
  <2>5. PathType'
    BY <2>1, <2>4
  <2>6. CleanPromptStreams'
    BY <2>1, <2>2 DEF CleanPromptStreams, Arrives, QueueOK
  <2> QED BY <2>3, <2>5, <2>6
<1>2. CASE ~_forward_agent_contract
  <2>1. req' = [req EXCEPT ![p] = "answered"] /\ UNCHANGED <<runq, peer, mine, clean, bound>> /\ req[p] = "new"
    BY <1>2 DEF _route_agent_prompt_through_hub
  <2>2. InService' = InService
    BY <2>1 DEF InService
  <2>3. QueueOK' /\ PathType'
    BY <2>1, <2>2 DEF QueueOK
  <2>4. CleanPromptStreams'
    BY <2>1 DEF CleanPromptStreams, Arrives
  <2> QED BY <2>3, <2>4
<1> QED BY <1>1, <1>2

\* The first prompt of the queue returns.
LEMMA ReturnKeepsPath ==
  ASSUME PathInv, PromptReturns PROVE PathInv'
<1> USE PromptFacts DEF PathInv, PathType
<1> DEFINE p == Head(runq)
<1>1. /\ runq # <<>> /\ runq' = Tail(runq) /\ peer' = IF p \in mine THEN None ELSE peer
      /\ mine' = mine \ {p} /\ clean' = clean \ {p} /\ bound' = bound
      /\ req' = [req EXCEPT ![p] = IF req[p] = "runtime" THEN "answered" ELSE req[p]]
  BY DEF PromptReturns
<1>2. /\ runq \in Seq(Prompts) /\ Len(runq) \in Nat \ {0} /\ p \in Prompts /\ p = runq[1]
      /\ runq' \in Seq(Prompts) /\ Len(runq') = Len(runq) - 1
      /\ \A i \in 1..Len(runq') : runq'[i] = runq[i + 1]
      /\ DOMAIN runq = 1..Len(runq) /\ DOMAIN runq' = 1..Len(runq')
  BY <1>1 DEF QueueOK
<1>3. QueueOK'
  BY <1>1, <1>2 DEF QueueOK
<1>4. InService \subseteq InService' \cup {p}
  <2> SUFFICES ASSUME NEW i \in 1..Len(runq), i # 1 PROVE runq[i] \in InService'
    BY <1>2, SMTT(30) DEF InService
  <2>1. i - 1 \in 1..Len(runq') /\ runq'[i - 1] = runq[i]
    BY <1>2, SMTT(30)
  <2> QED BY <1>2, <2>1 DEF InService
<1>5. PathType'
  BY <1>1, <1>2, <1>4
<1>6. clean' = {}
  BY <1>1 DEF CleanPromptStreams
<1>7. CleanPromptStreams'
  BY <1>6 DEF CleanPromptStreams
<1> QED BY <1>3, <1>5, <1>7

\* A process ends, and with the Primary Agent its queue.
LEMMA EndKeepsPath ==
  ASSUME PathInv, NEW c \in Children, Gone(c) PROVE PathInv'
<1> USE PromptFacts DEF PathInv, PathType
<1>1. clean' = {} /\ req' = [p \in Prompts |-> IF req[p] = "runtime" THEN "answered" ELSE req[p]]
  BY DEF Gone
<1>2. CASE c = "primary"
  <2>1. runq' = <<>> /\ bound' = "absent" /\ peer' = None /\ mine' = {}
    BY <1>2 DEF Gone
  <2> QED BY <1>1, <2>1 DEF QueueOK, CleanPromptStreams
<1>3. CASE c # "primary"
  <2>1. UNCHANGED <<runq, bound, peer, mine>>
    BY <1>3 DEF Gone
  <2> QED BY <1>1, <2>1 DEF QueueOK, CleanPromptStreams, InService
<1> QED BY <1>2, <1>3

\* A broken stream, a session that is loaded again, a client that goes away.
LEMMA ClientKeepsPath ==
  ASSUME PathInv, _broadcast \/ load_session \/ \E p \in Prompts : _cancel_incoming_request(p)
  PROVE  PathInv'
<1> USE PromptFacts DEF PathInv, PathType, InService, QueueOK, CleanPromptStreams
<1>1. CASE _broadcast
  BY <1>1 DEF _broadcast
<1>2. CASE load_session
  BY <1>2 DEF load_session
<1>3. ASSUME NEW p \in Prompts, _cancel_incoming_request(p) PROVE PathInv'
  BY <1>3 DEF _cancel_incoming_request, Arrives
<1> QED BY <1>1, <1>2, <1>3

\* Every other step leaves the prompts alone.
LEMMA OthersKeepPath ==
  ASSUME PathInv, UNCHANGED pathVars PROVE PathInv'
BY DEF PathInv, PathType, QueueOK, CleanPromptStreams, Arrives, InService, pathVars
-----------------------------------------------------------------------------
(* The theorems *)

\* Both invariants hold initially.
LEMMA InitInv == Init => ProcInv /\ PathInv
<1> SUFFICES ASSUME Init PROVE ProcInv /\ PathInv
  OBVIOUS
<1> USE ThreadFacts, RankFacts, SupervisorAssumption DEF Init, HubInit
<1>1. ProcType
  <2>1. at \in [Threads -> MainPlaces \cup CtlPlaces \cup WorkerPlaces]
    BY DEF MainPlaces, CtlPlaces, WorkerPlaces, Starting
  <2>2. child \in [Children -> {"none", "boot", "up", "term", "dead"}] /\ from \in [Threads -> Children]
    OBVIOUS
  <2>3. record \in BOOLEAN /\ raced \in BOOLEAN /\ file = {} /\ stray = {} /\ unnamed = {}
    OBVIOUS
  <2>4. passes \in 0..2 /\ attempts \in Nat /\ recent \in [Spenders -> Nat] /\ left \in 0..Budget
    OBVIOUS
  <2> QED BY <2>1, <2>2, <2>3, <2>4 DEF ProcType
<1>2. PlacesOK /\ OneStarter
  BY DEF PlacesOK, OneStarter, MainPlaces, CtlPlaces, WorkerPlaces, Starting, Stopping
<1>3. StarterKnows /\ StopperKnows
  BY DEF StarterKnows, StopperKnows, Over, Ended
<1>4. PrimaryIsRegistered /\ NoStrayChild
  BY DEF PrimaryIsRegistered, NoStrayChild
<1>5. PathInv
  <2>1. runq = <<>> /\ InService = {}
    BY DEF InService
  <2> QED BY <2>1, PromptFacts DEF PathInv, PathType, QueueOK, CleanPromptStreams
<1> QED BY <1>1, <1>2, <1>3, <1>4, <1>5 DEF ProcInv

\* Every step keeps the invariant of processes and threads.
LEMMA NextKeepsProc ==
  ASSUME ProcInv, [Next]_vars PROVE ProcInv'
<1>0. attempts \in Nat /\ recent \in [Spenders -> Nat] /\ left \in 0..Budget /\ Budget \in Nat
  BY SupervisorAssumption DEF ProcInv, ProcType
<1>1. CASE Boots
  BY <1>1, BootsKeeps
<1>2. ASSUME NEW c \in Children, ProcessEnds(c) \/ Crash(c) PROVE ProcInv'
  BY <1>2, EndKeeps
<1>3. ASSUME NEW t \in Threads, ThreadStep(t) PROVE ProcInv'
  BY <1>3, StartChildKeeps, EnterChildKeeps, AwaitChildKeeps, AwaitFailsKeeps, RouteReadyKeeps, RestartFromKeeps,
     ReapKeeps, HaltKeeps, StopReapKeeps DEF ThreadStep
<1>4. CASE Watch
  BY <1>4, WatchKeeps
<1>5. CASE ControlRequest \/ ControlReplies
  BY <1>5, ControlKeeps
<1>11. ASSUME NEW t \in Spenders, BudgetStep(t) PROVE ProcInv'
  BY <1>11, BudgetKeeps
<1>6. CASE WindowMoves
  <2>1. attempts' \in Nat /\ recent' \in [Spenders -> Nat]
    BY <1>0, <1>6 DEF WindowMoves
  <2> QED BY <1>0, <1>6, <2>1, OthersKeep DEF WindowMoves, hubVars
<1>7. CASE Signal \/ Quit
  BY <1>7, SignalKeeps, QuitKeeps
<1>8. CASE TurnEnds \/ ClientStep
  BY <1>0, <1>8, OthersKeep DEF TurnEnds, ClientStep, supVars, PromptReturns, _broadcast,
     load_session,
     _route_agent_prompt_through_hub
<1>9. CASE ClientCancels
  <2>1. left' \in 0..Budget
    BY <1>0, <1>9 DEF ClientCancels, Disturb
  <2> QED BY <1>0, <1>9, <2>1, OthersKeep DEF ClientCancels, _cancel_incoming_request
<1>10. CASE UNCHANGED vars
  BY <1>0, <1>10, OthersKeep DEF vars, hubVars, supVars
<1> QED BY <1>1, <1>2, <1>3, <1>4, <1>5, <1>6, <1>7, <1>8, <1>9, <1>10, <1>11 DEF Next

\* Every step keeps the invariant of the prompts.
LEMMA NextKeepsPath ==
  ASSUME PathInv, [Next]_vars PROVE PathInv'
<1>1. CASE Boots
  BY <1>1, OthersKeepPath DEF Boots, HubBoots, AccessBoots, _register_agent
<1>2. ASSUME NEW c \in Children, ProcessEnds(c) \/ Crash(c) PROVE PathInv'
  BY <1>2, EndKeepsPath DEF ProcessEnds, Crash
<1>3. ASSUME NEW t \in Threads, ThreadStep(t) PROVE PathInv'
  <2>1. UNCHANGED pathVars
    BY <1>3 DEF ThreadStep, _start_child, EnterChild, AwaitChild, AwaitFails, RouteFails, RouteReady,
       _restart_from,
       Reap, Halt, StopReap, hubVars, pathVars
  <2> QED BY <2>1, OthersKeepPath
<1>4. CASE Watch \/ ControlRequest \/ ControlReplies \/ WindowMoves \/ Signal \/ Quit \/ UNCHANGED vars
  <2>1. UNCHANGED pathVars
    BY <1>4 DEF Watch, Poll, _handle_child_exit, ExitNoted, ControlRequest, control_status, control_restart,
       control_stop_runtime,
       ControlReplies, WindowMoves, Signal, Quit, hubVars, pathVars, vars
  <2> QED BY <2>1, OthersKeepPath
<1>7. ASSUME NEW t \in Spenders, BudgetStep(t) PROVE PathInv'
  <2>1. UNCHANGED pathVars
    BY <1>7 DEF BudgetStep, StoreAttempts, CheckAttempts, _consume_restart_budget, hubVars, pathVars
  <2> QED BY <2>1, OthersKeepPath
<1>5. CASE TurnEnds
  BY <1>5, ReturnKeepsPath DEF TurnEnds
<1>6. CASE ClientStep \/ ClientCancels
  BY <1>6, RouteKeepsPath, ClientKeepsPath DEF ClientStep, ClientCancels
<1> QED BY <1>1, <1>2, <1>3, <1>4, <1>5, <1>6, <1>7 DEF Next

\* Both are invariants of the specification.
LEMMA Invariants == Spec => [](ProcInv /\ PathInv)
<1>1. ProcInv /\ PathInv /\ [Next]_vars => (ProcInv /\ PathInv)'
  BY NextKeepsProc, NextKeepsPath
<1> QED BY <1>1, InitInv, PTL DEF Spec

\* Variables keep their types, and no prompt is in the queue of the session twice, whatever
\* the threads of the Supervisor interleave.
THEOREM SupervisorTypes == Spec => []TypeOK
<1>1. ProcInv /\ PathInv => TypeOK
  <2> SUFFICES ASSUME ProcInv, PathInv PROVE TypeOK
    OBVIOUS
  <2>1. InService \subseteq Prompts
    BY DEF PathInv, QueueOK, InService
  <2> QED BY <2>1, CountQueue DEF ProcInv, ProcType, PathInv, PathType, TypeOK, HubTypeOK,
       MainPlaces, CtlPlaces,
       WorkerPlaces, Starting, Stopping, BudgetPlaces
<1> QED BY <1>1, Invariants, PTL

\* For any number of restart threads, requests, crashes and signals, _start_child never
\* replaces an entry of `children` whose process lives.
THEOREM OneProcessPerChild == Spec => []NoStrayChild
<1>1. ProcInv => NoStrayChild
  BY DEF ProcInv
<1> QED BY <1>1, Invariants, PTL

\* When the Supervisor has exited no child of it runs, apart from a process the exit caught
\* between Popen and its entry in `children` and from those a requested restart entered
\* while stop() ran.
THEOREM NothingOutlivesExit == Spec => []ExitLeavesNoChild
<1>1. ProcInv => ExitLeavesNoChild
  BY DEF ProcInv, ExitLeavesNoChild, StopperKnows, Over, Live
<1> QED BY <1>1, Invariants, PTL

\* When hub and Primary Agent serve, the hub that serves knows the Primary Agent, unless
\* the Supervisor itself does not.
THEOREM RouteLeadsToPrimary == Spec => []RegisteredWithThisHub
<1>1. ProcInv => RegisteredWithThisHub
  BY DEF ProcInv, PrimaryIsRegistered, RegisteredWithThisHub
<1> QED BY <1>1, Invariants, PTL

\* A prompt that has the sender of its session to itself streams to its own client, for
\* any number of prompts and whatever happens to the processes.
THEOREM PromptsStreamHome == Spec => []CleanPromptStreams
<1>1. PathInv => CleanPromptStreams
  BY DEF PathInv
<1> QED BY <1>1, Invariants, PTL
=============================================================================
