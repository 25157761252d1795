----------------------- MODULE BackgroundTasks_proofs -----------------------
(***************************************************************************)
(* Proofs about the background tasks of a session, for every number of     *)
(* tasks, names and disturbances.                                          *)
(***************************************************************************)
EXTENDS BackgroundTasks, TLAPS

-----------------------------------------------------------------------------
(* The inductive invariant *)

\* Nothing is known of a task that has not been started.
Untouched ==
  /\ \A t \in Tasks : t > next =>
       /\ kind[t] = "none" /\ owner[t] = None /\ nm[t] = None
       /\ work[t] = "none" /\ status[t] = "none" /\ ph[t] = "none"
       /\ t \notin notified \cup reg \cup rem \cup told \cup late \cup visit
       /\ nq[t] = 0 /\ lost[t] = "no" /\ evictor[t] = None /\ killing # t
  /\ \A n \in Names : names[n] # None => names[n] <= next

\* How the status the registry keeps and the life of the process or coroutine agree.
\* Only a stopped agent runs on under a terminal status.
WorkAgrees ==
  \A t \in Tasks :
    /\ work[t] \in {"none", "creating", "resuming", "aborted"} => status[t] = "none" /\ ph[t] = "none"
    /\ work[t] \in {"creating", "resuming"} \/ status[t] # "none" => kind[t] \in {"shell", "monitor", "agent"}
    /\ t \in reg \cup visit => status[t] # "none"
    /\ ph[t] \in {"start", "hook", "loop", "blocked"} => work[t] = "alive" /\ kind[t] \in {"agent", "foreground"}
    /\ status[t] \in {"completed", "failed"} => work[t] = "over"
    /\ status[t] = "killed" /\ work[t] = "alive" => kind[t] = "agent"

\* A notification that waits although its task was evicted was overtaken by the round of
\* an agent other than the owner.
WaitingIsOvertaken ==
  \A t \in Tasks : nq[t] > 0 /\ t \notin reg /\ life # "closed" => evictor[t] \notin {None, owner[t]}

\* shutdown() still has every running task before it, but for those that came too late,
\* and the process it waits for has been killed or had ended.
ShutdownKnows ==
  /\ life = "closing" => \A t \in reg : status[t] = "running" => t \in visit \cup late
  /\ killing # None => kind[killing] \in {"shell", "monitor"} /\ work[killing] \in {"exited", "killed", "over"}

\* Only a query between its drain and its prompt holds reminders.
HandsAtHook == \A a \in Agents : ph[a] # "hook" => taken[a] = {}

\* NoticeIsOnce, task by task.
Held(t) == \E a \in Agents : t \in taken[a]

Once ==
  \A t \in Tasks :
    /\ nq[t] <= 1
    /\ nq[t] > 0 => t \notin rem \cup told /\ ~Held(t) /\ lost[t] = "no"
    /\ t \in rem => t \notin told /\ ~Held(t) /\ lost[t] = "no"
    /\ Held(t) => t \notin told /\ lost[t] = "no"
    /\ \A a, b \in Agents : t \in taken[a] /\ t \in taken[b] => a = b
    /\ t \in told => lost[t] = "no"
    /\ t \in notified <=> nq[t] > 0 \/ t \in rem \/ Held(t) \/ t \in told \/ lost[t] # "no"

Inv ==
  /\ TypeOK /\ Untouched /\ WorkAgrees /\ WaitingIsOvertaken /\ ShutdownKnows
  /\ Once /\ HandsAtHook /\ OwnNoticeKept /\ ForgottenIsStopped /\ NamesResolve

\* Task numbers, agents and None are told apart.
LEMMA TaskFacts ==
  /\ NumTasks \in Nat /\ Budget \in Nat /\ \A t : t \in Tasks <=> t \in Nat /\ 1 <= t /\ t <= NumTasks
  /\ \A t \in Tasks : t \in Agents /\ t # Root /\ t # None
  /\ Root \in Agents /\ None \notin Agents /\ None \notin Names
BY TasksAssumption DEF Tasks, Agents

\* The five places of a notification, seen from the task.
LEMMA OnceIsNotice == TypeOK => (Once <=> NoticeIsOnce)
<1> SUFFICES ASSUME TypeOK PROVE Once <=> NoticeIsOnce
  OBVIOUS
<1> DEFINE L == {t \in Tasks : lost[t] # "no"}
           places == <<InQueue, rem, InHand, told, L>>
           Apart == /\ InQueue \cap rem = {} /\ InQueue \cap InHand = {} /\ InQueue \cap told = {}
                    /\ InQueue \cap L = {} /\ rem \cap InHand = {} /\ rem \cap told = {} /\ rem \cap L = {}
                    /\ InHand \cap told = {} /\ InHand \cap L = {} /\ told \cap L = {}
<1>1. DOMAIN places = 1..5
  OBVIOUS
<1>2. (\A i, j \in DOMAIN places : i # j => places[i] \cap places[j] = {}) <=> Apart
  <2> HIDE DEF L
  <2> QED BY <1>1
<1>3. UNION {places[i] : i \in DOMAIN places} = InQueue \cup rem \cup InHand \cup told \cup L
  <2> HIDE DEF L
  <2> QED BY <1>1
<1>4. NoticeIsOnce <=>
        /\ \A t \in Tasks : nq[t] <= 1
        /\ \A a, b \in Agents : a # b => taken[a] \cap taken[b] = {}
        /\ Apart
        /\ notified = InQueue \cup rem \cup InHand \cup told \cup L
  BY <1>2, <1>3 DEF NoticeIsOnce
<1>5. rem \subseteq Tasks /\ told \subseteq Tasks /\ notified \subseteq Tasks /\ \A a \in Agents : taken[a] \subseteq Tasks
  BY DEF TypeOK
<1>6. \A t : t \in InHand <=> Held(t)
  BY DEF InHand, Held
<1>7. InHand \subseteq Tasks
  BY <1>5 DEF InHand
<1>8. Apart <=> \A t \in Tasks :
        /\ t \in InQueue => t \notin rem /\ ~Held(t) /\ t \notin told /\ lost[t] = "no"
        /\ t \in rem => ~Held(t) /\ t \notin told /\ lost[t] = "no"
        /\ Held(t) => t \notin told /\ lost[t] = "no"
        /\ t \in told => lost[t] = "no"
  <2> HIDE DEF Held, InHand
  <2> QED BY <1>5, <1>6, <1>7 DEF InQueue
<1>9. (\A a, b \in Agents : a # b => taken[a] \cap taken[b] = {})
      <=> \A t \in Tasks : \A a, b \in Agents : t \in taken[a] /\ t \in taken[b] => a = b
  BY <1>5
<1>10. notified = InQueue \cup rem \cup InHand \cup told \cup L
       <=> \A t \in Tasks : t \in notified <=> t \in InQueue \/ t \in rem \/ Held(t) \/ t \in told \/ lost[t] # "no"
  <2> HIDE DEF Held, InHand
  <2> QED BY <1>5, <1>6, <1>7 DEF InQueue
<1>11. \A t \in Tasks : t \in InQueue <=> nq[t] > 0
  BY DEF InQueue
<1> HIDE DEF Apart, L, places
<1> QED BY <1>4, <1>8, <1>9, <1>10, <1>11 DEF Once

-----------------------------------------------------------------------------
(* One lemma per action *)

\* A prompt, or a sub-agent's query, begins, is blocked or cancelled; a turn ends.
LEMMA TurnKeeps ==
  ASSUME Inv, NEW a \in Agents,
         setup_turn(a) \/ BeginTurn(a) \/ PromptBlocked(a) \/ TurnCancelled \/ EndTurn PROVE Inv'
<1> USE TaskFacts DEF Inv, setup_turn, BeginTurn, PromptBlocked, TurnCancelled, Lose, EndTurn,
   InRound, Disturb, taskVars, noteVars, closeVars
<1>0. \A t \in Tasks : t > next => ~Held(t)
  BY DEF Untouched, Once
<1>1. TypeOK'
  <2>0. TypeOK
    OBVIOUS
  <2>1. /\ UNCHANGED <<taskVars, notified, nq, reg, names, closeVars, evictor>>
        /\ left' \in 0..Budget /\ rem' \subseteq Tasks /\ told' \subseteq Tasks
    <3>1. left' \in 0..Budget
      BY <2>0 DEF TypeOK
    <3>2. rem' \subseteq rem /\ told' \subseteq told \cup UNION {taken[b] : b \in Agents}
      OBVIOUS
    <3>3. rem' \subseteq Tasks /\ told' \subseteq Tasks
      BY <2>0, <3>2 DEF TypeOK
    <3> QED BY <3>1, <3>3
  <2>2. ph' \in [Agents -> {"none", "idle", "start", "hook", "loop", "blocked", "ended"}]
    BY <2>0 DEF TypeOK
  <2>3. taken' \in [Agents -> SUBSET Tasks]
    BY <2>0 DEF TypeOK
  <2>4. lost' \in [Tasks -> {"no", "evicted", "blocked", "cancelled", "closed"}]
    BY <2>0 DEF TypeOK
  <2> QED BY <2>0, <2>1, <2>2, <2>3, <2>4 DEF TypeOK
<1>2. Untouched'
  <2>1. CASE setup_turn(a)
    BY <1>0, <2>1 DEF TypeOK, Untouched
  <2>2. CASE BeginTurn(a)
    BY <1>0, <2>2 DEF TypeOK, Untouched, Held
  <2>3. CASE PromptBlocked(a)
    BY <1>0, <2>3 DEF TypeOK, Untouched, Held
  <2>4. CASE TurnCancelled
    BY <1>0, <2>4 DEF TypeOK, Untouched, Held
  <2>5. CASE EndTurn
    BY <2>5 DEF TypeOK, Untouched
  <2> QED BY <2>1, <2>2, <2>3, <2>4, <2>5
<1>3. WorkAgrees'
  BY DEF TypeOK, Untouched, WorkAgrees, Terminal
<1>4. WaitingIsOvertaken'
  BY DEF TypeOK, Untouched, WaitingIsOvertaken
<1>5. ShutdownKnows'
  BY DEF TypeOK, Untouched, WorkAgrees, ShutdownKnows
<1>6. Once'
  <2>0. taken \in [Agents -> SUBSET Tasks] /\ ph \in [Agents -> {"none", "idle", "start", "hook", "loop", "blocked", "ended"}]
    BY DEF TypeOK
  <2>1. CASE setup_turn(a)
    <3>1. taken[a] = {} /\ taken' = [taken EXCEPT ![a] = rem] /\ rem' = {} /\ UNCHANGED <<notified, nq, told, lost>>
      BY <2>1 DEF HandsAtHook
    <3>2. \A t \in Tasks : Held(t)' <=> Held(t) \/ t \in rem
      BY <2>0, <3>1 DEF Held
    <3>3. \A t \in Tasks : \A b, c \in Agents : t \in taken'[b] /\ t \in taken'[c] => b = c
      BY <2>0, <3>1 DEF Once, Held
    <3> HIDE DEF Held
    <3> QED BY <3>1, <3>2, <3>3 DEF Once
  <2>2. CASE BeginTurn(a) \/ PromptBlocked(a) \/ TurnCancelled
    <3>1. PICK b \in Agents :
            /\ taken' = [taken EXCEPT ![b] = {}] /\ UNCHANGED <<notified, nq, rem>>
            /\ \/ told' = told \cup taken[b] /\ lost' = lost
               \/ /\ told' = told
                  /\ \A t \in Tasks : IF t \in taken[b] THEN lost'[t] # "no" ELSE lost'[t] = lost[t]
      BY <2>2
    <3>2. \A t \in Tasks : Held(t)' <=> Held(t) /\ t \notin taken[b]
      BY <2>0, <3>1 DEF Once, Held
    <3>3. \A t \in Tasks : \A c, d \in Agents : t \in taken'[c] /\ t \in taken'[d] => c = d
      BY <2>0, <3>1 DEF Once
    <3>4. \A t \in Tasks : t \in taken[b] => Held(t)
      BY DEF Held
    <3> HIDE DEF Held
    <3> QED BY <3>1, <3>2, <3>3, <3>4 DEF Once
  <2>3. CASE EndTurn
    BY <2>3 DEF Once, Held
  <2> QED BY <2>1, <2>2, <2>3
<1>7. OwnNoticeKept'
  BY DEF TypeOK, Untouched, Once, Held, WaitingIsOvertaken, OwnNoticeKept
<1>8. ForgottenIsStopped'
  BY DEF TypeOK, Untouched, WorkAgrees, ShutdownKnows, ForgottenIsStopped, Terminal
<1>9. NamesResolve'
  BY DEF TypeOK, Untouched, WorkAgrees, NamesResolve
<1>10. HandsAtHook'
  BY DEF TypeOK, Untouched, WorkAgrees, HandsAtHook
<1> QED BY <1>1, <1>2, <1>3, <1>4, <1>5, <1>6, <1>7, <1>8, <1>9, <1>10

\* The end of a tool round.
LEMMA DrainKeeps ==
  ASSUME Inv, NEW a \in Agents, drain_task_notifications(a) PROVE Inv'
<1> USE TaskFacts DEF Inv, drain_task_notifications, Remind, evict_terminal, Owned, Others,
   InQueue, taskVars, noteVars, closeVars
<1>1. TypeOK'
  BY DEF TypeOK, Terminal
<1>2. Untouched'
  BY DEF TypeOK, Untouched
<1>3. WorkAgrees'
  BY DEF TypeOK, Untouched, WorkAgrees, Terminal
<1>4. WaitingIsOvertaken'
  BY DEF TypeOK, Untouched, WaitingIsOvertaken
<1>5. ShutdownKnows'
  BY DEF TypeOK, Untouched, WorkAgrees, ShutdownKnows
<1>6. Once'
  BY DEF TypeOK, Untouched, HandsAtHook, Once, Held
<1>7. OwnNoticeKept'
  BY DEF TypeOK, Untouched, Once, Held, WaitingIsOvertaken, OwnNoticeKept
<1>8. ForgottenIsStopped'
  BY DEF TypeOK, Untouched, WorkAgrees, ShutdownKnows, ForgottenIsStopped, Terminal
<1>9. NamesResolve'
  BY DEF TypeOK, Untouched, WorkAgrees, NamesResolve
<1>10. HandsAtHook'
  BY DEF TypeOK, Untouched, WorkAgrees, HandsAtHook
<1> QED BY <1>1, <1>2, <1>3, <1>4, <1>5, <1>6, <1>7, <1>8, <1>9, <1>10

\* A task is started in the background.
LEMMA SpawnKeeps ==
  ASSUME Inv, NEW a \in Agents, NEW k \in {"shell", "monitor", "agent"},
         NEW n \in Names \cup {None}, _spawn_background(a, k, n) PROVE Inv'
<1> USE TaskFacts DEF Inv, _spawn_background, Fresh, taskVars, noteVars, closeVars
<1>1. TypeOK'
  BY SMTT(30) DEF TypeOK, Terminal
<1>2. Untouched'
  BY DEF TypeOK, Untouched
<1>3. WorkAgrees'
  BY DEF TypeOK, Untouched, WorkAgrees, Terminal
<1>4. WaitingIsOvertaken'
  BY DEF TypeOK, Untouched, WaitingIsOvertaken
<1>5. ShutdownKnows'
  BY DEF TypeOK, Untouched, WorkAgrees, ShutdownKnows
<1>6. Once'
  BY DEF TypeOK, Untouched, HandsAtHook, Once, Held
<1>7. OwnNoticeKept'
  BY DEF TypeOK, Untouched, Once, Held, WaitingIsOvertaken, OwnNoticeKept
<1>8. ForgottenIsStopped'
  BY DEF TypeOK, Untouched, WorkAgrees, ShutdownKnows, ForgottenIsStopped, Terminal
<1>9. NamesResolve'
  BY SMTT(30) DEF TypeOK, Untouched, WorkAgrees, NamesResolve
<1>10. HandsAtHook'
  BY DEF TypeOK, Untouched, WorkAgrees, HandsAtHook
<1> QED BY <1>1, <1>2, <1>3, <1>4, <1>5, <1>6, <1>7, <1>8, <1>9, <1>10

\* A sub-agent is started in the foreground.
LEMMA ForegroundKeeps ==
  ASSUME Inv, NEW a \in Agents, SpawnForeground(a) PROVE Inv'
<1> USE TaskFacts DEF Inv, SpawnForeground, Fresh, taskVars, noteVars, closeVars
<1>1. TypeOK'
  BY DEF TypeOK, Terminal
<1>2. Untouched'
  BY DEF TypeOK, Untouched
<1>3. WorkAgrees'
  BY DEF TypeOK, Untouched, WorkAgrees, Terminal
<1>4. WaitingIsOvertaken'
  BY DEF TypeOK, Untouched, WaitingIsOvertaken
<1>5. ShutdownKnows'
  BY DEF TypeOK, Untouched, WorkAgrees, ShutdownKnows
<1>6. Once'
  BY DEF TypeOK, Untouched, HandsAtHook, Once, Held
<1>7. OwnNoticeKept'
  BY DEF TypeOK, Untouched, Once, Held, WaitingIsOvertaken, OwnNoticeKept
<1>8. ForgottenIsStopped'
  BY DEF TypeOK, Untouched, WorkAgrees, ShutdownKnows, ForgottenIsStopped, Terminal
<1>9. NamesResolve'
  BY DEF TypeOK, Untouched, WorkAgrees, NamesResolve
<1>10. HandsAtHook'
  BY DEF TypeOK, Untouched, WorkAgrees, HandsAtHook
<1> QED BY <1>1, <1>2, <1>3, <1>4, <1>5, <1>6, <1>7, <1>8, <1>9, <1>10

\* An agent that has ended is resumed.
LEMMA ResumeKeeps ==
  ASSUME Inv, NEW a \in Agents, NEW t \in Tasks, _resume_agent(a, t) PROVE Inv'
<1> USE TaskFacts DEF Inv, _resume_agent, Fresh, Disturb, taskVars, noteVars, closeVars
<1>1. TypeOK'
  BY DEF TypeOK, Terminal
<1>2. Untouched'
  BY DEF TypeOK, Untouched
<1>3. WorkAgrees'
  BY DEF TypeOK, Untouched, WorkAgrees, Terminal
<1>4. WaitingIsOvertaken'
  BY DEF TypeOK, Untouched, WaitingIsOvertaken
<1>5. ShutdownKnows'
  BY DEF TypeOK, Untouched, WorkAgrees, ShutdownKnows
<1>6. Once'
  BY DEF TypeOK, Untouched, HandsAtHook, Once, Held
<1>7. OwnNoticeKept'
  BY DEF TypeOK, Untouched, Once, Held, WaitingIsOvertaken, OwnNoticeKept
<1>8. ForgottenIsStopped'
  BY DEF TypeOK, Untouched, WorkAgrees, ShutdownKnows, ForgottenIsStopped, Terminal
<1>9. NamesResolve'
  BY DEF TypeOK, Untouched, WorkAgrees, NamesResolve
<1>10. HandsAtHook'
  BY DEF TypeOK, Untouched, WorkAgrees, HandsAtHook
<1> QED BY <1>1, <1>2, <1>3, <1>4, <1>5, <1>6, <1>7, <1>8, <1>9, <1>10

\* A task is stopped.
LEMMA StopKeeps ==
  ASSUME Inv, NEW a \in Agents, NEW t \in Tasks, TaskStop(a, t) PROVE Inv'
<1> USE TaskFacts DEF Inv, TaskStop, Killed, update_status, enqueue_notification, Notify, Disturb,
   taskVars, noteVars, closeVars
<1>1. TypeOK'
  BY DEF TypeOK, Terminal
<1>2. Untouched'
  BY DEF TypeOK, Untouched
<1>3. WorkAgrees'
  BY DEF TypeOK, Untouched, WorkAgrees, Terminal
<1>4. WaitingIsOvertaken'
  BY DEF TypeOK, Untouched, WaitingIsOvertaken
<1>5. ShutdownKnows'
  BY DEF TypeOK, Untouched, WorkAgrees, ShutdownKnows
<1>6. Once'
  BY DEF TypeOK, Untouched, HandsAtHook, Once, Held
<1>7. OwnNoticeKept'
  BY DEF TypeOK, Untouched, Once, Held, WaitingIsOvertaken, OwnNoticeKept
<1>8. ForgottenIsStopped'
  BY DEF TypeOK, Untouched, WorkAgrees, ShutdownKnows, ForgottenIsStopped, Terminal
<1>9. NamesResolve'
  BY DEF TypeOK, Untouched, WorkAgrees, NamesResolve
<1>10. HandsAtHook'
  BY DEF TypeOK, Untouched, WorkAgrees, HandsAtHook
<1> QED BY <1>1, <1>2, <1>3, <1>4, <1>5, <1>6, <1>7, <1>8, <1>9, <1>10

\* A task is registered.
LEMMA RegisterKeeps ==
  ASSUME Inv, NEW t \in Tasks, register(t) PROVE Inv'
<1> USE TaskFacts DEF Inv, register, taskVars, noteVars, closeVars
<1>1. TypeOK'
  BY DEF TypeOK, Terminal
<1>2. Untouched'
  BY DEF TypeOK, Untouched
<1>3. WorkAgrees'
  BY DEF TypeOK, Untouched, WorkAgrees, Terminal
<1>4. WaitingIsOvertaken'
  BY DEF TypeOK, Untouched, WaitingIsOvertaken
<1>5. ShutdownKnows'
  BY DEF TypeOK, Untouched, WorkAgrees, ShutdownKnows
<1>6. Once'
  BY DEF TypeOK, Untouched, HandsAtHook, Once, Held
<1>7. OwnNoticeKept'
  BY DEF TypeOK, Untouched, Once, Held, WaitingIsOvertaken, OwnNoticeKept
<1>8. ForgottenIsStopped'
  BY DEF TypeOK, Untouched, WorkAgrees, ShutdownKnows, ForgottenIsStopped, Terminal
<1>9. NamesResolve'
  BY DEF TypeOK, Untouched, WorkAgrees, NamesResolve
<1>10. HandsAtHook'
  BY DEF TypeOK, Untouched, WorkAgrees, HandsAtHook
<1> QED BY <1>1, <1>2, <1>3, <1>4, <1>5, <1>6, <1>7, <1>8, <1>9, <1>10

\* The creation of a task fails, or a process exits.
LEMMA FailKeeps ==
  ASSUME Inv, NEW t \in Tasks, SpawnFails(t) \/ ProcessExits(t) PROVE Inv'
<1> USE TaskFacts DEF Inv, SpawnFails, ProcessExits, Disturb, taskVars, noteVars, closeVars
<1>1. TypeOK'
  BY DEF TypeOK, Terminal
<1>2. Untouched'
  BY DEF TypeOK, Untouched
<1>3. WorkAgrees'
  BY DEF TypeOK, Untouched, WorkAgrees, Terminal
<1>4. WaitingIsOvertaken'
  BY DEF TypeOK, Untouched, WaitingIsOvertaken
<1>5. ShutdownKnows'
  BY DEF TypeOK, Untouched, WorkAgrees, ShutdownKnows
<1>6. Once'
  BY DEF TypeOK, Untouched, HandsAtHook, Once, Held
<1>7. OwnNoticeKept'
  BY DEF TypeOK, Untouched, Once, Held, WaitingIsOvertaken, OwnNoticeKept
<1>8. ForgottenIsStopped'
  BY DEF TypeOK, Untouched, WorkAgrees, ShutdownKnows, ForgottenIsStopped, Terminal
<1>9. NamesResolve'
  BY DEF TypeOK, Untouched, WorkAgrees, NamesResolve
<1>10. HandsAtHook'
  BY DEF TypeOK, Untouched, WorkAgrees, HandsAtHook
<1> QED BY <1>1, <1>2, <1>3, <1>4, <1>5, <1>6, <1>7, <1>8, <1>9, <1>10

\* A waiter reports the end of its process.
LEMMA ReportKeeps ==
  ASSUME Inv, NEW t \in Tasks, NEW s \in {"completed", "failed"},
         kind[t] \in {"shell", "monitor"}, work[t] \in {"exited", "killed"}, Report(t, s) PROVE Inv'
<1> USE TaskFacts DEF Inv, Report, update_status, enqueue_notification, Notify, taskVars,
   noteVars, closeVars
<1>1. TypeOK'
  BY DEF TypeOK, Terminal
<1>2. Untouched'
  BY DEF TypeOK, Untouched
<1>3. WorkAgrees'
  BY DEF TypeOK, Untouched, WorkAgrees, Terminal
<1>4. WaitingIsOvertaken'
  BY DEF TypeOK, Untouched, WaitingIsOvertaken
<1>5. ShutdownKnows'
  BY DEF TypeOK, Untouched, WorkAgrees, ShutdownKnows
<1>6. Once'
  BY DEF TypeOK, Untouched, HandsAtHook, Once, Held
<1>7. OwnNoticeKept'
  BY DEF TypeOK, Untouched, Once, Held, WaitingIsOvertaken, OwnNoticeKept
<1>8. ForgottenIsStopped'
  BY DEF TypeOK, Untouched, WorkAgrees, ShutdownKnows, ForgottenIsStopped, Terminal
<1>9. NamesResolve'
  BY DEF TypeOK, Untouched, WorkAgrees, NamesResolve
<1>10. HandsAtHook'
  BY DEF TypeOK, Untouched, WorkAgrees, HandsAtHook
<1> QED BY <1>1, <1>2, <1>3, <1>4, <1>5, <1>6, <1>7, <1>8, <1>9, <1>10

\* A sub-agent ends.
LEMMA AgentEndKeeps ==
  ASSUME Inv, NEW t \in Tasks, _run_agent_background(t) PROVE Inv'
<1> USE TaskFacts DEF Inv, _run_agent_background, InRound, Remind, Owned, Others, InQueue,
   update_status, enqueue_notification, Notify, taskVars, noteVars, closeVars
<1>1. TypeOK'
  BY DEF TypeOK, Terminal
<1>2. Untouched'
  BY DEF TypeOK, Untouched
<1>3. WorkAgrees'
  BY DEF TypeOK, Untouched, WorkAgrees, Terminal
<1>4. WaitingIsOvertaken'
  BY DEF TypeOK, Untouched, WaitingIsOvertaken
<1>5. ShutdownKnows'
  BY DEF TypeOK, Untouched, WorkAgrees, ShutdownKnows
<1>6. Once'
  BY DEF TypeOK, Untouched, HandsAtHook, Once, Held
<1>7. OwnNoticeKept'
  BY DEF TypeOK, Untouched, Once, Held, WaitingIsOvertaken, OwnNoticeKept
<1>8. ForgottenIsStopped'
  BY DEF TypeOK, Untouched, WorkAgrees, ShutdownKnows, ForgottenIsStopped, Terminal
<1>9. NamesResolve'
  BY DEF TypeOK, Untouched, WorkAgrees, NamesResolve
<1>10. HandsAtHook'
  BY DEF TypeOK, Untouched, WorkAgrees, HandsAtHook
<1> QED BY <1>1, <1>2, <1>3, <1>4, <1>5, <1>6, <1>7, <1>8, <1>9, <1>10

\* A sub-agent raises.
LEMMA RaiseKeeps ==
  ASSUME Inv, NEW t \in Tasks, AgentRaises(t) PROVE Inv'
<1> USE TaskFacts DEF Inv, AgentRaises, Lose, update_status, enqueue_notification, Notify, Disturb,
   taskVars, noteVars, closeVars
<1>1. TypeOK'
  BY DEF TypeOK, Terminal
<1>2. Untouched'
  BY DEF TypeOK, Untouched, Once, Held
<1>3. WorkAgrees'
  BY DEF TypeOK, Untouched, WorkAgrees, Terminal
<1>4. WaitingIsOvertaken'
  BY DEF TypeOK, Untouched, WaitingIsOvertaken
<1>5. ShutdownKnows'
  BY DEF TypeOK, Untouched, WorkAgrees, ShutdownKnows
<1>6. Once'
  BY DEF TypeOK, Untouched, HandsAtHook, Once, Held
<1>7. OwnNoticeKept'
  BY DEF TypeOK, Untouched, Once, Held, WaitingIsOvertaken, OwnNoticeKept
<1>8. ForgottenIsStopped'
  BY DEF TypeOK, Untouched, WorkAgrees, ShutdownKnows, ForgottenIsStopped, Terminal
<1>9. NamesResolve'
  BY DEF TypeOK, Untouched, WorkAgrees, NamesResolve
<1>10. HandsAtHook'
  BY DEF TypeOK, Untouched, WorkAgrees, HandsAtHook
<1> QED BY <1>1, <1>2, <1>3, <1>4, <1>5, <1>6, <1>7, <1>8, <1>9, <1>10

\* shutdown() makes its list.
LEMMA ShutdownBeginsKeeps ==
  ASSUME Inv, ShutdownBegins PROVE Inv'
<1> USE TaskFacts DEF Inv, ShutdownBegins, Disturb, taskVars, noteVars, closeVars
<1>1. TypeOK'
  BY DEF TypeOK, Terminal
<1>2. Untouched'
  BY DEF TypeOK, Untouched
<1>3. WorkAgrees'
  BY DEF TypeOK, Untouched, WorkAgrees, Terminal
<1>4. WaitingIsOvertaken'
  BY DEF TypeOK, Untouched, WaitingIsOvertaken
<1>5. ShutdownKnows'
  BY DEF TypeOK, Untouched, WorkAgrees, ShutdownKnows
<1>6. Once'
  BY DEF TypeOK, Untouched, HandsAtHook, Once, Held
<1>7. OwnNoticeKept'
  BY DEF TypeOK, Untouched, Once, Held, WaitingIsOvertaken, OwnNoticeKept
<1>8. ForgottenIsStopped'
  BY DEF TypeOK, Untouched, WorkAgrees, ShutdownKnows, ForgottenIsStopped, Terminal
<1>9. NamesResolve'
  BY DEF TypeOK, Untouched, WorkAgrees, NamesResolve
<1>10. HandsAtHook'
  BY DEF TypeOK, Untouched, WorkAgrees, HandsAtHook
<1> QED BY <1>1, <1>2, <1>3, <1>4, <1>5, <1>6, <1>7, <1>8, <1>9, <1>10

\* shutdown() visits a task.
LEMMA VisitKeeps ==
  ASSUME Inv, NEW t \in Tasks, ShutdownVisits(t) PROVE Inv'
<1> USE TaskFacts DEF Inv, ShutdownVisits, Killed, taskVars, noteVars, closeVars
<1>1. TypeOK'
  BY DEF TypeOK, Terminal
<1>2. Untouched'
  BY DEF TypeOK, Untouched
<1>3. WorkAgrees'
  BY DEF TypeOK, Untouched, WorkAgrees, Terminal
<1>4. WaitingIsOvertaken'
  BY DEF TypeOK, Untouched, WaitingIsOvertaken
<1>5. ShutdownKnows'
  BY DEF TypeOK, Untouched, WorkAgrees, ShutdownKnows
<1>6. Once'
  BY DEF TypeOK, Untouched, HandsAtHook, Once, Held
<1>7. OwnNoticeKept'
  BY DEF TypeOK, Untouched, Once, Held, WaitingIsOvertaken, OwnNoticeKept
<1>8. ForgottenIsStopped'
  BY DEF TypeOK, Untouched, WorkAgrees, ShutdownKnows, ForgottenIsStopped, Terminal
<1>9. NamesResolve'
  BY DEF TypeOK, Untouched, WorkAgrees, NamesResolve
<1>10. HandsAtHook'
  BY DEF TypeOK, Untouched, WorkAgrees, HandsAtHook
<1> QED BY <1>1, <1>2, <1>3, <1>4, <1>5, <1>6, <1>7, <1>8, <1>9, <1>10

\* shutdown() has waited for a process.
LEMMA ShutdownReapKeeps ==
  ASSUME Inv, ShutdownReaps PROVE Inv'
<1> USE TaskFacts DEF Inv, ShutdownReaps, taskVars, noteVars, closeVars
<1>1. TypeOK'
  BY DEF TypeOK, Terminal
<1>2. Untouched'
  BY DEF TypeOK, Untouched
<1>3. WorkAgrees'
  BY DEF TypeOK, WorkAgrees, ShutdownKnows, Terminal
<1>4. WaitingIsOvertaken'
  BY DEF TypeOK, Untouched, WaitingIsOvertaken
<1>5. ShutdownKnows'
  BY DEF TypeOK, Untouched, WorkAgrees, ShutdownKnows
<1>6. Once'
  BY DEF TypeOK, Untouched, HandsAtHook, Once, Held
<1>7. OwnNoticeKept'
  BY DEF TypeOK, Untouched, Once, Held, WaitingIsOvertaken, OwnNoticeKept
<1>8. ForgottenIsStopped'
  BY DEF TypeOK, Untouched, WorkAgrees, ShutdownKnows, ForgottenIsStopped, Terminal
<1>9. NamesResolve'
  BY DEF TypeOK, Untouched, WorkAgrees, NamesResolve
<1>10. HandsAtHook'
  BY DEF TypeOK, Untouched, WorkAgrees, HandsAtHook
<1> QED BY <1>1, <1>2, <1>3, <1>4, <1>5, <1>6, <1>7, <1>8, <1>9, <1>10

\* shutdown() clears the registry.
LEMMA ShutdownEndsKeeps ==
  ASSUME Inv, ShutdownEnds PROVE Inv'
<1> USE TaskFacts DEF Inv, ShutdownEnds, taskVars, noteVars, closeVars
<1>1. TypeOK'
  BY DEF TypeOK, Terminal
<1>2. Untouched'
  BY DEF TypeOK, Untouched
<1>3. WorkAgrees'
  BY DEF TypeOK, Untouched, WorkAgrees, Terminal
<1>4. WaitingIsOvertaken'
  BY DEF TypeOK, Untouched, WaitingIsOvertaken
<1>5. ShutdownKnows'
  BY DEF TypeOK, Untouched, WorkAgrees, ShutdownKnows
<1>6. Once'
  BY DEF TypeOK, Untouched, HandsAtHook, Once, Held
<1>7. OwnNoticeKept'
  BY DEF TypeOK, Untouched, Once, Held, WaitingIsOvertaken, OwnNoticeKept
<1>8. ForgottenIsStopped'
  BY DEF TypeOK, Untouched, WorkAgrees, ShutdownKnows, ForgottenIsStopped, Terminal
<1>9. NamesResolve'
  BY DEF TypeOK, Untouched, WorkAgrees, NamesResolve
<1>10. HandsAtHook'
  BY DEF TypeOK, Untouched, WorkAgrees, HandsAtHook
<1> QED BY <1>1, <1>2, <1>3, <1>4, <1>5, <1>6, <1>7, <1>8, <1>9, <1>10
-----------------------------------------------------------------------------
(* The theorems *)

\* The invariant holds initially.
LEMMA InitInv == Init => Inv
<1> SUFFICES ASSUME Init PROVE Inv
  OBVIOUS
<1> USE TaskFacts DEF Init
<1>1. TypeOK
  BY DEF TypeOK, Terminal
<1>2. Untouched /\ WorkAgrees /\ WaitingIsOvertaken /\ ShutdownKnows
  BY DEF Untouched, WorkAgrees, WaitingIsOvertaken, ShutdownKnows, Terminal
<1>3. Once /\ OwnNoticeKept /\ ForgottenIsStopped /\ NamesResolve
  BY DEF Once, Held, OwnNoticeKept, ForgottenIsStopped, NamesResolve
<1>4. HandsAtHook
  BY DEF HandsAtHook
<1> QED BY <1>1, <1>2, <1>3, <1>4 DEF Inv

\* The two waiters report as ReportKeeps says, or a monitor that was ended leaves all as it is.
LEMMA WaiterKeeps ==
  ASSUME Inv, NEW t \in Tasks, _wait_and_notify(t) \/ _monitor_timeout(t) PROVE Inv'
<1>1. ASSUME NEW s \in ExitStatus(t), Report(t, s) PROVE Inv'
  <2>1. s \in {"completed", "failed"}
    BY <1>1 DEF ExitStatus
  <2>2. kind[t] \in {"shell", "monitor"} /\ work[t] \in {"exited", "killed"}
    BY DEF _wait_and_notify, _monitor_timeout
  <2> QED BY <1>1, <2>1, <2>2, ReportKeeps
<1>2. ASSUME _monitor_timeout(t), ~(t \in reg /\ status[t] \notin Terminal) PROVE Inv'
  <2> USE TaskFacts
  <2>0. /\ work[t] \in {"exited", "killed"} /\ work' = [work EXCEPT ![t] = "over"]
        /\ UNCHANGED <<next, kind, owner, nm, status, noteVars, reg, names, ph, closeVars, evictor, left>>
    BY <1>2 DEF _monitor_timeout
  <2>1. TypeOK'
    BY <2>0 DEF Inv, TypeOK, noteVars, closeVars
  <2>2. Untouched' /\ WorkAgrees' /\ ShutdownKnows'
    BY <2>0 DEF Inv, TypeOK, Untouched, WorkAgrees, ShutdownKnows, noteVars, closeVars
  <2>3. WaitingIsOvertaken' /\ Once' /\ HandsAtHook' /\ OwnNoticeKept'
    BY <2>0 DEF Inv, WaitingIsOvertaken, Once, Held, HandsAtHook, OwnNoticeKept, noteVars, closeVars
  <2>4. ForgottenIsStopped' /\ NamesResolve'
    BY <2>0 DEF Inv, TypeOK, ForgottenIsStopped, NamesResolve, noteVars, closeVars
  <2> QED BY <2>1, <2>2, <2>3, <2>4 DEF Inv
<1> QED BY <1>1, <1>2 DEF _wait_and_notify, _monitor_timeout

\* Every step keeps the invariant.
LEMMA NextKeeps ==
  ASSUME Inv, [Next]_vars PROVE Inv'
<1>1. CASE TurnCancelled \/ EndTurn
  BY <1>1, TaskFacts, TurnKeeps
<1>2. ASSUME NEW a \in Agents, AgentStep(a) PROVE Inv'
  BY <1>2, TurnKeeps, DrainKeeps, ForegroundKeeps, SpawnKeeps, ResumeKeeps, StopKeeps DEF AgentStep
<1>3. ASSUME NEW t \in Tasks, TaskStep(t) PROVE Inv'
  BY <1>3, RegisterKeeps, FailKeeps, WaiterKeeps, AgentEndKeeps,
     RaiseKeeps DEF TaskStep
<1>4. ASSUME NEW t \in Tasks, ShutdownVisits(t) PROVE Inv'
  BY <1>4, VisitKeeps
<1>5. CASE ShutdownBegins \/ ShutdownReaps \/ ShutdownEnds
  BY <1>5, ShutdownBeginsKeeps, ShutdownReapKeeps, ShutdownEndsKeeps
<1>6. CASE UNCHANGED vars
  BY <1>6 DEF vars, taskVars, noteVars, closeVars, Inv, TypeOK, Untouched, WorkAgrees,
     WaitingIsOvertaken,
     ShutdownKnows, Once, Held, HandsAtHook, OwnNoticeKept, ForgottenIsStopped, NamesResolve
<1> QED BY <1>1, <1>2, <1>3, <1>4, <1>5, <1>6 DEF Next

LEMMA Invariance == Spec => []Inv
<1>1. Inv /\ [Next]_vars => Inv'
  BY NextKeeps
<1> QED BY <1>1, InitInv, PTL DEF Spec

\* Variables keep their types: in particular register() leaves a task running, and no
\* method of the registry leaves a status other than running or a terminal one.
THEOREM TaskTypes == Spec => []TypeOK
<1>1. Inv => TypeOK
  BY DEF Inv
<1> QED BY <1>1, Invariance, PTL

\* The end of a task is announced at most once: enqueue_notification, the drains of any
\* number of agents, prompts that are blocked or cancelled after setup_turn has drained the
\* reminders, and shutdown() leave its notification in exactly one place.
THEOREM NoticeInOnePlace == Spec => []NoticeIsOnce
<1>1. Inv => NoticeIsOnce
  BY OnceIsNotice DEF Inv
<1> QED BY <1>1, Invariance, PTL

\* A notification is lost to an eviction only when an agent other than the owner evicted.
THEOREM OwnerMissesNothing == Spec => []OwnNoticeKept
<1>1. Inv => OwnNoticeKept
  BY DEF Inv
<1> QED BY <1>1, Invariance, PTL

\* What the registry has dropped does not run, but for stopped agents and latecomers.
THEOREM DroppedIsStopped == Spec => []ForgottenIsStopped
<1>1. Inv => ForgottenIsStopped
  BY DEF Inv
<1> QED BY <1>1, Invariance, PTL

\* A name leads to an agent of that name that was not evicted, for any number of names
\* and whoever evicts, resumes and reuses them.
THEOREM NamesLead == Spec => []NamesResolve
<1>1. Inv => NamesResolve
  BY DEF Inv
<1> QED BY <1>1, Invariance, PTL

\* What one step may do to a terminal status: only the end of a stopped shell or agent
\* overwrites it (_wait_and_notify, _run_agent_background), and shutdown() the status of
\* the process it was waiting for.
LEMMA StepSticks ==
  ASSUME Inv, [Next]_vars, NEW t \in Tasks, status[t] \in Terminal, status'[t] # status[t]
  PROVE  (status[t] = "killed" /\ kind[t] # "monitor") \/ killing = t
<1> USE TaskFacts DEF Inv, TypeOK, WorkAgrees, Terminal
<1>1. CASE UNCHANGED status
  BY <1>1
<1>2. ASSUME NEW a \in Agents, AgentStep(a) PROVE UNCHANGED status \/ \E u \in Tasks : TaskStop(a,
   u)
  BY <1>2 DEF AgentStep, setup_turn, BeginTurn, PromptBlocked, drain_task_notifications, SpawnForeground, _spawn_background,
     _resume_agent, Fresh,
     taskVars
<1>3. ASSUME NEW a \in Agents, NEW u \in Tasks, TaskStop(a, u) PROVE FALSE
  BY <1>3 DEF TaskStop, update_status
<1>4. ASSUME NEW u \in Tasks, register(u) PROVE FALSE
  BY <1>4 DEF register
<1>5. ASSUME NEW u \in Tasks,
   _wait_and_notify(u) PROVE t = u /\ status[t] = "killed" /\ kind[t] # "monitor"
  BY <1>5 DEF _wait_and_notify, Report, update_status
<1>6. ASSUME NEW u \in Tasks, _monitor_timeout(u) PROVE FALSE
  BY <1>6 DEF _monitor_timeout, Report, update_status
<1>7. ASSUME NEW u \in Tasks, _run_agent_background(u) \/ AgentRaises(u)
      PROVE  t = u /\ status[t] = "killed" /\ kind[t] # "monitor"
  BY <1>7 DEF _run_agent_background, AgentRaises, InRound, update_status
<1>8. ASSUME NEW u \in Tasks, ShutdownVisits(u) PROVE FALSE
  BY <1>8 DEF ShutdownVisits
<1>9. CASE ShutdownReaps
  BY <1>9 DEF ShutdownReaps
<1>10. ASSUME NEW u \in Tasks, TaskStep(u), ~UNCHANGED status
       PROVE  register(u) \/ _wait_and_notify(u) \/ _monitor_timeout(u)
              \/ _run_agent_background(u) \/ AgentRaises(u)
  BY <1>10 DEF TaskStep, SpawnFails, ProcessExits, taskVars
<1>11. TurnCancelled \/ EndTurn \/ ShutdownBegins \/ ShutdownEnds \/ UNCHANGED vars => UNCHANGED status
  BY DEF TurnCancelled, EndTurn, ShutdownBegins, ShutdownEnds, vars, taskVars
<1> QED BY <1>1, <1>2, <1>3, <1>4, <1>5, <1>6, <1>7, <1>8, <1>9, <1>10, <1>11 DEF Next

\* A task that has ended stays as it ended, but for the two exceptions of StepSticks.
THEOREM EndsStick == Spec => TerminalSticks
<1>1. Inv /\ [Next]_vars =>
        [\A t \in Tasks : status[t] \in Terminal /\ status'[t] # status[t] =>
           (status[t] = "killed" /\ kind[t] # "monitor") \/ killing = t]_vars
  BY StepSticks
<1> QED BY <1>1, Invariance, PTL DEF Spec, TerminalSticks
=============================================================================
