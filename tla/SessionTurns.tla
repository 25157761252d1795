---------------------------- MODULE SessionTurns ----------------------------
(***************************************************************************)
(* The turn queue of one session of the Mustang session manager            *)
(* (sessions/): prompts arrive from ACP clients and gateways, run inline   *)
(* or through a FIFO, can be retried under the same clientTurnId,          *)
(* cancelled, and raced by closing, eviction and reloading of the session. *)
(*                                                                         *)
(* Everything runs in one asyncio loop: a step is what a coroutine does    *)
(* between two awaits.  The session id is fixed; a Session object is a     *)
(* member of Objects, because an evicted session is rebuilt as a new       *)
(* object while coroutines may still hold the old one.                     *)
(***************************************************************************)
EXTENDS Naturals, Sequences, FiniteSets

CONSTANTS
  Turns,        \* prompts that are sent
  Gateway,      \* those that come through run_turn_for_gateway
  Ids,          \* client turn ids
  Id,           \* [Turns -> Ids \cup {None}]: the clientTurnId of a prompt
  Objects,      \* Session objects
  MaxQueue,     \* max_queue_length
  Ops,          \* which operations and failures occur
  Budget,       \* bound on the client operations other than prompts and loads
  None

ASSUME TurnsAssumption ==
  /\ Gateway \subseteq Turns
  /\ Id \in [Turns -> Ids \cup {None}]
  /\ \A t \in Gateway : Id[t] = None
  /\ MaxQueue \in Nat \ {0} /\ Budget \in Nat
  /\ Ops \subseteq {"cancel", "cancelRequest", "close", "disconnect", "raise", "storeError"}
  /\ None \notin Turns \cup Ids \cup Objects

VARIABLES
  table,      \* SessionManager._sessions[session_id]
  inflight,   \* [Objects -> Turns \cup {None}]: in_flight_turn
  queue,      \* [Objects -> Seq(Turns)]
  senders,    \* [Objects -> BOOLEAN]: is the client among the session's senders?
  ready,      \* dispatched _run_queued_turn tasks that have not run yet, in order
  pc,         \* [Turns -> Pcs]: where the coroutine of the turn is
  of,         \* [Turns -> Objects \cup {None}]: the Session object it holds
  inline,     \* turns run inside their own request
  wait,       \* [Turns -> Turns \cup {None}]: the turn whose future a retry awaits
  stop,       \* [Turns -> Stops]: stop_reason, or "raised" for an exception
  cancelled,  \* turns with an undelivered task.cancel()
  answer,     \* [Turns -> Answers]: response_future, or the return of the call
  comp,       \* [Turns -> Answers]: completion_future
  stored,     \* [Ids -> what find_turn_by_client_turn_id finds]
  client,     \* the ACP connection
  budget,     \* how many more operations of Ops clients may send
  closer,     \* the object of a close_session that awaits _close_runtime
  checks,     \* [Objects -> Nat]: scheduled _maybe_evict coroutines
  evicting,   \* [Objects -> Nat]: those that passed the check and await the close
  wedged,     \* history: objects a turn left without reaching its last statements
  ran         \* history: [Ids -> Nat]: turns started under each id

sessVars == <<table, inflight, queue, senders>>
logVars == <<stored, ran>>
connVars == <<client, budget>>
evictVars == <<closer, checks, evicting>>
vars == <<sessVars, ready, pc, of, inline, wait, stop, cancelled, answer, comp,
          logVars, connVars, evictVars, wedged>>

(***************************************************************************)
(* Types.                                                                  *)
(***************************************************************************)
Core == {"setup", "query", "cancelling", "closing"}   \* inside _run_turn_core
Pcs == {"new", "loading", "lookup", "onFlight", "onQueue", "queued", "popped", "over"}
         \cup Core
Stops == {"end", "cancelled", "raised"}
Answers == Stops \cup {"pending", "refused", "withdrawn", "stranded"}

\* The turns that hold object o and will dispatch its queue when they end.
Drivers(o) == {t \in Turns : of[t] = o /\ pc[t] \in Core \cup {"popped"}}

InQueue(o) == {queue[o][i] : i \in DOMAIN queue[o]}

\* An object nothing refers to any more: the next load may be given its place.
Free(o) ==
  /\ o # table /\ o # closer /\ o \notin wedged
  /\ checks[o] = 0 /\ evicting[o] = 0
  /\ \A t \in Turns : of[t] = o => pc[t] \in {"new", "over"}

Init ==
  \E o \in Objects :
    /\ table = o
    /\ inflight = [p \in Objects |-> None] /\ queue = [p \in Objects |-> <<>>]
    /\ senders = [p \in Objects |-> p = o]
    /\ ready = <<>>
    /\ pc = [t \in Turns |-> "new"] /\ of = [t \in Turns |-> None]
    /\ inline = {} /\ wait = [t \in Turns |-> None]
    /\ stop = [t \in Turns |-> "end"] /\ cancelled = {}
    /\ answer = [t \in Turns |-> "pending"] /\ comp = [t \in Turns |-> "pending"]
    /\ stored = [i \in Ids |-> "none"] /\ ran = [i \in Ids |-> 0]
    /\ client = "here" /\ budget = Budget /\ closer = None
    /\ checks = [p \in Objects |-> 0] /\ evicting = [p \in Objects |-> 0]
    /\ wedged = {}

(***************************************************************************)
(* The FIFO and the start of a turn.                                       *)
(***************************************************************************)

\* _enqueue_turn, with the _maybe_dispatch_next it makes when no turn is in
\* flight: the head of the queue becomes a task that runs later.
_enqueue_turn(t, o) ==
  LET q == Append(queue[o], t)
  IN IF inflight[o] = None
     THEN /\ queue' = [queue EXCEPT ![o] = Tail(q)]
          /\ ready' = Append(ready, Head(q))
          /\ pc' = [pc EXCEPT ![t] = "queued", ![Head(q)] = "popped"]
     ELSE /\ queue' = [queue EXCEPT ![o] = q]
          /\ pc' = [pc EXCEPT ![t] = "queued"]
          /\ UNCHANGED ready

\* The first statements of _run_turn_core, up to the first await.
BeginCore(t, o) ==
  /\ inflight' = [inflight EXCEPT ![o] = t]
  /\ pc' = [pc EXCEPT ![t] = "setup"]
  /\ ran' = [i \in Ids |-> IF i = Id[t] THEN ran[i] + 1 ELSE ran[i]]

\* A request returns without a turn.
Return(t, a) ==
  /\ pc' = [pc EXCEPT ![t] = "over"]
  /\ answer' = [answer EXCEPT ![t] = a]

\* The end of prompt: run now when idle, refuse when the queue is full, else queue.
Admit(t, o) ==
  /\ of' = [of EXCEPT ![t] = o]
  /\ \/ /\ inflight[o] = None /\ queue[o] = <<>>
        /\ BeginCore(t, o)
        /\ inline' = inline \cup {t}
        /\ UNCHANGED <<queue, ready, answer>>
     \/ /\ ~(inflight[o] = None /\ queue[o] = <<>>)
        /\ Len(queue[o]) >= MaxQueue
        /\ Return(t, "refused")
        /\ UNCHANGED <<inflight, queue, ready, inline, ran>>
     \/ /\ ~(inflight[o] = None /\ queue[o] = <<>>)
        /\ Len(queue[o]) < MaxQueue
        /\ _enqueue_turn(t, o)
        /\ UNCHANGED <<inflight, inline, answer, ran>>

(***************************************************************************)
(* session/prompt.                                                         *)
(***************************************************************************)
Asks(t) == t \in Turns \ Gateway /\ pc[t] = "new"

\* _get_or_raise
PromptNotFound(t) ==
  /\ Asks(t) /\ table = None
  /\ Return(t, "refused")
  /\ UNCHANGED <<sessVars, ready, of, inline, wait, stop, cancelled, comp, logVars,
                 connVars, evictVars, wedged>>

PromptWithoutId(t) ==
  /\ Asks(t) /\ table # None /\ Id[t] = None
  /\ Admit(t, table)
  /\ UNCHANGED <<table, senders, wait, stop, cancelled, comp, stored, connVars, evictVars,
                 wedged>>

\* _resolve_duplicate_prompt up to its first await: a retry of the turn in flight
\* awaits its completion_future, one of a queued turn its response_future, and
\* every other prompt looks into the event log.
SameId(t, u) == Id[t] = Id[u]

PromptWithId(t) ==
  /\ Asks(t) /\ table # None /\ Id[t] # None
  /\ LET flying == {u \in Turns : inflight[table] = u /\ SameId(t, u)}
         waiting == {u \in InQueue(table) : SameId(t, u)}
     IN \/ \E u \in flying :
             /\ pc' = [pc EXCEPT ![t] = "onFlight"]
             /\ wait' = [wait EXCEPT ![t] = u]
        \/ /\ flying = {}
           /\ \E u \in waiting :
                /\ pc' = [pc EXCEPT ![t] = "onQueue"]
                /\ wait' = [wait EXCEPT ![t] = u]
        \/ /\ flying = {} /\ waiting = {}
           /\ pc' = [pc EXCEPT ![t] = "lookup"]
           /\ UNCHANGED wait
  /\ of' = [of EXCEPT ![t] = table]
  /\ UNCHANGED <<sessVars, ready, inline, stop, cancelled, answer, comp, logVars, connVars,
                 evictVars, wedged>>

Mutant_ReplayIncomplete(t) ==
  /\ pc[t] = "lookup"
  /\ \/ /\ stored[Id[t]] = "none"
        /\ Admit(t, of[t])
     \/ /\ stored[Id[t]] # "none"
        /\ Return(t, stored[Id[t]])
        /\ UNCHANGED <<inflight, queue, ready, of, inline, ran>>
  /\ UNCHANGED <<table, senders, wait, stop, cancelled, comp, stored, connVars, evictVars,
                 wedged>>

\* The event log has been read: run an unknown turn, replay a completed one with
\* its stop reason, refuse one that was started and never completed.
PromptLookedUp(t) ==
  /\ pc[t] = "lookup"
  /\ \/ /\ stored[Id[t]] = "none"
        /\ Admit(t, of[t])
     \/ /\ stored[Id[t]] # "none"
        /\ Return(t, IF stored[Id[t]] = "incomplete" THEN "refused" ELSE stored[Id[t]])
        /\ UNCHANGED <<inflight, queue, ready, of, inline, ran>>
  /\ UNCHANGED <<table, senders, wait, stop, cancelled, comp, stored, connVars, evictVars,
                 wedged>>

(***************************************************************************)
(* run_turn_for_gateway, with _get_or_load.                                *)
(***************************************************************************)
GatewayTurn(t) ==
  /\ t \in Gateway /\ pc[t] = "new"
  /\ \/ /\ table # None
        /\ of' = [of EXCEPT ![t] = table]
        /\ _enqueue_turn(t, table)
     \/ /\ table = None
        /\ pc' = [pc EXCEPT ![t] = "loading"]
        /\ UNCHANGED <<queue, ready, of>>
  /\ UNCHANGED <<table, inflight, senders, inline, wait, stop, cancelled, answer, comp,
                 logVars, connVars, evictVars, wedged>>

\* _load_from_disk has rebuilt the session: the new object replaces whatever the
\* table holds by now.
GatewayLoaded(t, o) ==
  /\ pc[t] = "loading" /\ Free(o)
  /\ table' = o
  /\ of' = [of EXCEPT ![t] = o]
  /\ inflight' = [inflight EXCEPT ![o] = None]
  /\ queue' = [queue EXCEPT ![o] = <<>>]
  /\ senders' = [senders EXCEPT ![o] = FALSE]
  /\ ready' = Append(ready, t)
  /\ pc' = [pc EXCEPT ![t] = "popped"]
  /\ UNCHANGED <<inline, wait, stop, cancelled, answer, comp, logVars, connVars, evictVars,
                 wedged>>

(***************************************************************************)
(* _run_turn_core.                                                         *)
(***************************************************************************)

\* The loop starts the oldest dispatched task.
RunQueued ==
  /\ ready # <<>>
  /\ ready' = Tail(ready)
  /\ BeginCore(Head(ready), of[Head(ready)])
  /\ UNCHANGED <<table, queue, senders, of, inline, wait, stop, cancelled, answer, comp,
                 stored, connVars, evictVars, wedged>>

\* What a lookup finds after an event of the turn was written: the first
\* turn_completed counts, anything before it is incomplete.
Logged(t, s) == [i \in Ids |-> IF i = Id[t] /\ stored[i] \in {"none", "incomplete"}
                               THEN s ELSE stored[i]]

\* The user message and turn_started are written, modes drained.
SetupDone(t) ==
  /\ pc[t] = "setup" /\ t \notin cancelled
  /\ pc' = [pc EXCEPT ![t] = "query"]
  /\ stored' = Logged(t, "incomplete")
  /\ UNCHANGED <<sessVars, ready, of, inline, wait, stop, cancelled, answer, comp, ran,
                 connVars, evictVars, wedged>>

\* The orchestrator's stream ends or raises.
QueryEnds(t) ==
  /\ pc[t] = "query" /\ t \notin cancelled
  /\ \E s \in {"end"} \cup (IF "raise" \in Ops THEN {"raised"} ELSE {}) :
       stop' = [stop EXCEPT ![t] = s]
  /\ pc' = [pc EXCEPT ![t] = "closing"]
  /\ UNCHANGED <<sessVars, ready, of, inline, wait, cancelled, answer, comp, logVars,
                 connVars, evictVars, wedged>>

\* A cancellation is delivered: the orchestrator turns it into a CancelledEvent, or
\* it reaches the except clause, which writes a turn_cancelled.
QueryCancelled(t) ==
  /\ pc[t] = "query" /\ t \in cancelled
  /\ stop' = [stop EXCEPT ![t] = "cancelled"]
  /\ cancelled' = cancelled \ {t}
  /\ \E next \in {"cancelling", "closing"} : pc' = [pc EXCEPT ![t] = next]
  /\ UNCHANGED <<sessVars, ready, of, inline, wait, answer, comp, logVars, connVars,
                 evictVars, wedged>>

\* The end of the except clause; a second cancellation here only raises through
\* the finally clause, which runs all the same.
CancelWritten(t) ==
  /\ pc[t] = "cancelling"
  /\ pc' = [pc EXCEPT ![t] = "closing"]
  /\ cancelled' = cancelled \ {t}
  /\ UNCHANGED <<sessVars, ready, of, inline, wait, stop, answer, comp, logVars, connVars,
                 evictVars, wedged>>

\* The answer to a turn that is cancelled before its finally clause ends: a gateway
\* call goes on to await its text_collector, which nobody will ever resolve.
Dropped(t) == IF t \in Gateway THEN "stranded" ELSE "cancelled"

\* A future or request that is already answered keeps its answer.
Settle(f, t, a) == [f EXCEPT ![t] = IF @ = "pending" THEN a ELSE @]

\* What the finally clause reports: an exception leaves stop_reason at its default.
Mutant_AlwaysEndTurn(t) == "end"

StopReason(t) == IF stop[t] = "raised" THEN "end" ELSE stop[t]

Mutant_KeepInFlight(o) == UNCHANGED inflight

ClearInFlight(o) == inflight' = [inflight EXCEPT ![o] = None]

\* Turn t of o is over: the next queued turn is dispatched, or an eviction scheduled.
Mutant_NoDispatch(t, o) ==
  /\ pc' = [pc EXCEPT ![t] = "over"]
  /\ checks' = [checks EXCEPT ![o] = @ + 1]
  /\ UNCHANGED <<queue, ready>>

_maybe_dispatch_next(t, o) ==
  \/ /\ queue[o] # <<>>
     /\ queue' = [queue EXCEPT ![o] = Tail(@)]
     /\ ready' = Append(ready, Head(queue[o]))
     /\ pc' = [pc EXCEPT ![t] = "over", ![Head(queue[o])] = "popped"]
     /\ UNCHANGED checks
  \/ /\ queue[o] = <<>>
     /\ pc' = [pc EXCEPT ![t] = "over"]
     /\ checks' = [checks EXCEPT ![o] = @ + 1]
     /\ UNCHANGED <<queue, ready>>

\* The finally clause to its end: turn_completed is written, the futures are
\* settled, in_flight_turn is cleared whoever it names, and the queue moves on.
CloseTurn(t) ==
  /\ pc[t] = "closing" /\ t \notin cancelled
  /\ stored' = Logged(t, StopReason(t))
  /\ comp' = Settle(comp, t, StopReason(t))
  /\ answer' = Settle(answer, t, stop[t])
  /\ ClearInFlight(of[t])
  /\ _maybe_dispatch_next(t, of[t])
  /\ inline' = inline \ {t} /\ of' = [of EXCEPT ![t] = None]
  /\ UNCHANGED <<table, senders, wait, stop, cancelled, ran, connVars, closer, evicting,
                 wedged>>

\* A cancellation, or a failing store, outside the try block or inside the
\* finally clause: the coroutine ends there.  Its request is answered, but
\* completion_future and in_flight_turn stay as they are and nothing is dispatched.
\* An inline turn that its client cancelled is answered with an error.
TurnAborts(t) ==
  /\ pc[t] \in {"setup", "closing"}
  /\ \/ /\ t \in cancelled
        /\ \E a \in {Dropped(t)} \cup
                   (IF t \in inline /\ "cancelRequest" \in Ops THEN {"withdrawn"} ELSE {}) :
             answer' = Settle(answer, t, a)
     \/ t \notin cancelled /\ "storeError" \in Ops /\ answer' = Settle(answer, t, "raised")
  /\ pc' = [pc EXCEPT ![t] = "over"]
  /\ cancelled' = cancelled \ {t}
  /\ stored' \in {stored, Logged(t, IF pc[t] = "setup" THEN "incomplete" ELSE StopReason(t))}
  /\ wedged' = wedged \cup {of[t]}
  /\ inline' = inline \ {t} /\ of' = [of EXCEPT ![t] = None]
  /\ UNCHANGED <<sessVars, ready, wait, stop, comp, ran, connVars, evictVars>>

(***************************************************************************)
(* Cancelling and closing.                                                 *)
(***************************************************************************)

\* Every queued turn is answered and dropped.
Mutant_DropQueue(o) ==
  /\ queue' = [queue EXCEPT ![o] = <<>>]
  /\ pc' = [t \in Turns |-> IF t \in InQueue(o) THEN "over" ELSE pc[t]]
  /\ UNCHANGED answer

Drain(o) ==
  /\ queue' = [queue EXCEPT ![o] = <<>>]
  /\ pc' = [t \in Turns |-> IF t \in InQueue(o) THEN "over" ELSE pc[t]]
  /\ answer' = [t \in Turns |-> IF t \in InQueue(o) /\ answer[t] = "pending"
                                THEN Dropped(t) ELSE answer[t]]

\* task.cancel() on the turn in flight, of no effect on a task that has ended.
CancelInFlight(o) ==
  cancelled' = cancelled \cup {t \in Turns : inflight[o] = t /\ pc[t] \in Core}

\* The client sends operation op.
Sends(op) == op \in Ops /\ budget > 0 /\ budget' = budget - 1

\* session/cancel
Cancel ==
  /\ Sends("cancel") /\ table # None
  /\ CancelInFlight(table)
  /\ Drain(table)
  /\ checks' = [checks EXCEPT ![table] = @ + 1]
  /\ UNCHANGED <<table, inflight, senders, ready, of, inline, wait, stop, comp, logVars,
                 client, closer, evicting, wedged>>

\* $/cancel_request cancels the task of the request: an inline turn, a lookup, or
\* an await, and then the awaited future with it.  Another request that awaits a
\* cancelled future is answered "cancelled".
CancelRequest(t) ==
  /\ Sends("cancelRequest") /\ t \notin Gateway
  /\ \/ /\ t \in inline /\ pc[t] \in Core
        /\ cancelled' = cancelled \cup {t}
        /\ UNCHANGED <<pc, answer, comp>>
     \/ /\ pc[t] = "lookup"
        /\ Return(t, "withdrawn")
        /\ UNCHANGED <<cancelled, comp>>
     \/ /\ t \notin inline /\ pc[t] \in Core \cup {"queued", "popped"} /\ answer[t] = "pending"
        /\ answer' = [answer EXCEPT ![t] = "withdrawn"]
        /\ UNCHANGED <<pc, cancelled, comp>>
     \/ /\ pc[t] = "onQueue" /\ answer[wait[t]] = "pending"
        /\ answer' = [answer EXCEPT ![wait[t]] = "cancelled", ![t] = "withdrawn"]
        /\ pc' = [pc EXCEPT ![t] = "over"]
        /\ UNCHANGED <<cancelled, comp>>
     \/ /\ pc[t] = "onFlight" /\ comp[wait[t]] = "pending"
        /\ comp' = [comp EXCEPT ![wait[t]] = "cancelled"]
        /\ Return(t, "withdrawn")
        /\ UNCHANGED cancelled
  /\ UNCHANGED <<sessVars, ready, of, inline, wait, stop, logVars, client, evictVars,
                 wedged>>

\* The future a retry awaits is settled.
RetryAnswered(t) ==
  /\ LET a == IF pc[t] = "onFlight" THEN comp[wait[t]] ELSE answer[wait[t]]
     IN /\ pc[t] \in {"onFlight", "onQueue"} /\ a # "pending"
        /\ Return(t, IF a = "withdrawn" THEN "cancelled" ELSE a)
  /\ UNCHANGED <<sessVars, ready, of, inline, wait, stop, cancelled, comp, logVars, connVars,
                 evictVars, wedged>>

\* session/close up to the await of _close_runtime.  One close at a time, a bound
\* of the model.
CloseSession ==
  /\ Sends("close") /\ table # None /\ closer = None
  /\ CancelInFlight(table)
  /\ ClearInFlight(table)
  /\ Drain(table)
  /\ senders' = [senders EXCEPT ![table] = FALSE]
  /\ closer' = table
  /\ UNCHANGED <<table, ready, of, inline, wait, stop, comp, logVars, client, checks,
                 evicting, wedged>>

\* _sessions.pop(session_id), whichever object is there by now.
SessionClosed ==
  /\ closer # None
  /\ table' = None /\ closer' = None
  /\ UNCHANGED <<inflight, queue, senders, ready, pc, of, inline, wait, stop, cancelled,
                 answer, comp, logVars, connVars, checks, evicting, wedged>>

(***************************************************************************)
(* Connections and eviction.                                               *)
(***************************************************************************)

\* session/load and session/resume on a session in memory, or after a reload.
Attach ==
  /\ client # "loading" /\ ~(client = "here" /\ table # None /\ senders[table])
  /\ \/ /\ table # None
        /\ client' = "here"
        /\ senders' = [senders EXCEPT ![table] = TRUE]
     \/ /\ table = None
        /\ client' = "loading"
        /\ UNCHANGED senders
  /\ UNCHANGED <<table, inflight, queue, ready, pc, of, inline, wait, stop, cancelled,
                 answer, comp, logVars, budget, evictVars, wedged>>

AttachLoaded(o) ==
  /\ client = "loading" /\ Free(o)
  /\ client' = "here"
  /\ table' = o
  /\ inflight' = [inflight EXCEPT ![o] = None]
  /\ queue' = [queue EXCEPT ![o] = <<>>]
  /\ senders' = [senders EXCEPT ![o] = TRUE]
  /\ UNCHANGED <<ready, pc, of, inline, wait, stop, cancelled, answer, comp, logVars,
                 budget, evictVars, wedged>>

\* on_disconnect looks only at sessions in the table that list the connection.
Disconnect ==
  /\ Sends("disconnect") /\ client = "here"
  /\ client' = "away"
  /\ \/ /\ table # None /\ senders[table]
        /\ senders' = [senders EXCEPT ![table] = FALSE]
        /\ checks' = [checks EXCEPT ![table] = @ + 1]
     \/ /\ ~(table # None /\ senders[table])
        /\ UNCHANGED <<senders, checks>>
  /\ UNCHANGED <<table, inflight, queue, ready, pc, of, inline, wait, stop, cancelled,
                 answer, comp, logVars, closer, evicting, wedged>>

\* _maybe_evict asks for the session id, not for this object, in the table.
EvictCheck(o) ==
  /\ checks[o] > 0
  /\ checks' = [checks EXCEPT ![o] = @ - 1]
  /\ evicting' = IF table # None /\ ~senders[o] /\ inflight[o] = None /\ queue[o] = <<>>
                 THEN [evicting EXCEPT ![o] = @ + 1] ELSE evicting
  /\ UNCHANGED <<sessVars, ready, pc, of, inline, wait, stop, cancelled, answer, comp,
                 logVars, connVars, closer, wedged>>

Evicted(o) ==
  /\ evicting[o] > 0
  /\ evicting' = [evicting EXCEPT ![o] = @ - 1]
  /\ table' = None
  /\ UNCHANGED <<inflight, queue, senders, ready, pc, of, inline, wait, stop, cancelled,
                 answer, comp, logVars, connVars, closer, checks, wedged>>

(***************************************************************************)
(* The specification.                                                      *)
(***************************************************************************)
CoreStep(t) ==
  \/ SetupDone(t) \/ QueryEnds(t) \/ QueryCancelled(t) \/ CancelWritten(t)
  \/ CloseTurn(t) \/ TurnAborts(t)

RequestStep(t) ==
  \/ PromptLookedUp(t) \/ RetryAnswered(t) \/ \E o \in Objects : GatewayLoaded(t, o)

Ask(t) == PromptNotFound(t) \/ PromptWithoutId(t) \/ PromptWithId(t) \/ GatewayTurn(t)

ManagerStep ==
  \/ Cancel \/ CloseSession \/ SessionClosed \/ Attach \/ Disconnect
  \/ \E o \in Objects : AttachLoaded(o) \/ EvictCheck(o) \/ Evicted(o)

Next ==
  \/ RunQueued
  \/ \E t \in Turns : CoreStep(t) \/ RequestStep(t) \/ Ask(t) \/ CancelRequest(t)
  \/ ManagerStep

Spec == Init /\ [][Next]_vars

\* asyncio runs every ready task, the store answers, and the orchestrator's stream
\* comes to an end.  Nothing obliges clients.
Fairness ==
  /\ WF_vars(RunQueued)
  /\ \A t \in Turns : WF_vars(CoreStep(t)) /\ WF_vars(RequestStep(t))
  /\ \A o \in Objects : WF_vars(EvictCheck(o)) /\ WF_vars(Evicted(o))
  /\ WF_vars(SessionClosed)

FairSpec == Spec /\ Fairness

(***************************************************************************)
(* Properties.                                                             *)
(***************************************************************************)
TypeOK ==
  /\ table \in Objects \cup {None}
  /\ inflight \in [Objects -> Turns \cup {None}]
  /\ queue \in [Objects -> Seq(Turns)]
  /\ senders \in [Objects -> BOOLEAN]
  /\ ready \in Seq(Turns)
  /\ pc \in [Turns -> Pcs]
  /\ of \in [Turns -> Objects \cup {None}]
  /\ inline \subseteq Turns
  /\ wait \in [Turns -> Turns \cup {None}]
  /\ stop \in [Turns -> Stops]
  /\ cancelled \subseteq Turns
  /\ answer \in [Turns -> Answers] /\ comp \in [Turns -> Answers]
  /\ stored \in [Ids -> {"none", "incomplete"} \cup Stops]
  /\ client \in {"here", "away", "loading"} /\ budget \in Nat
  /\ closer \in Objects \cup {None}
  /\ checks \in [Objects -> Nat] /\ evicting \in [Objects -> Nat]
  /\ wedged \subseteq Objects
  /\ ran \in [Ids -> Nat]

\* A session whose turns all reached the end of their finally clause never has a
\* queue that nobody will dispatch: some turn of it is dispatched or running.
QueueHasDriver ==
  \A o \in Objects \ wedged : queue[o] # <<>> => Drivers(o) # {}

\* in_flight_turn names a running turn of this session, unless a turn of it ended
\* outside its finally clause.
InFlightIsRunning ==
  \A o \in Objects \ wedged, t \in Turns : inflight[o] = t => of[t] = o /\ pc[t] \in Core

\* cancel relies on the running turn's own finally block to clear in_flight_turn:
\* it never goes on naming a turn that has ended.
FinallyClearsInFlight ==
  \A o \in Objects, t \in Turns : inflight[o] = t => pc[t] # "over"

\* A retry that joined a running or queued turn is answered as that turn is,
\* unless the turn raised or a client withdrew one of the requests for it.
Withdrawn(u) == \E v \in Turns : answer[v] = "withdrawn" /\ u \in {v, wait[v]}

RetryGetsTheAnswer ==
  \A t, u \in Turns :
    /\ wait[t] = u /\ ~Withdrawn(u)
    /\ pc[t] = "over" /\ answer[u] \notin {"pending", "raised"}
    => answer[t] = answer[u]

\* One active turn per session: no two turns of a session object are inside
\* _run_turn_core together.
OneTurnAtATime ==
  \A t, u \in Turns :
    pc[t] \in Core /\ pc[u] \in Core /\ of[t] = of[u] => t = u

\* A retry under the same clientTurnId never runs the turn a second time.
RunsOncePerId == \A i \in Ids : ran[i] <= 1

\* While no turn ends outside its finally clause, every prompt of a client is
\* answered, through cancellation, closing, eviction and reloading.
EveryPromptAnswered ==
  [](wedged = {}) =>
    \A t \in Turns \ Gateway : pc[t] # "new" ~> answer[t] # "pending"
=============================================================================
