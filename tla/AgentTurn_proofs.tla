-------------------------- MODULE AgentTurn_proofs --------------------------
(***************************************************************************)
(* Proofs about an agent's turns, for every number of calls, prompts and   *)
(* disturbances, every set of tools and every verdict of the rules: first  *)
(* the tool rounds, then the requests, then what can be loaded again.      *)
(***************************************************************************)
EXTENDS AgentTurn, History_proofs, FiniteSetTheorems, TLAPS

-----------------------------------------------------------------------------
(* The inductive invariant *)

NoRepeats(s) == \A i, j \in 1..Len(s) : s[i] = s[j] => i = j

\* The calls a stream has asked for are new and different from each other.
CallsAreNew ==
  /\ {"prompts", "calls", "faults"} \subseteq DOMAIN left /\ left.calls \in 0..MaxCalls
  /\ DOMAIN turn = DOMAIN NewTurn /\ turn.calls \in Seq(Calls) /\ NoRepeats(turn.calls)

\* Only calls of the queue have a stage, and only known tools get into the pipeline.
StagesOK ==
  /\ NoRepeats(queue)
  /\ \A c \in Calls : st[c] # "none" => \E i \in 1..Len(queue) : queue[i] = c
  /\ \A c \in Calls : st[c] \in Active => tool[c] \in Known

AskedIsOne == \A c, d \in Calls : st[c] = "asked" /\ st[d] = "asked" => c = d

\* A call the user is to be asked about is one that plan mode lets through.
AskedIsPermitted ==
  \A c \in Calls : st[c] \in {"lock", "asked"} /\ proj = "plan" => tool[c] \in ReadOnly \cup PlanExempt

ToolInv ==
  /\ ToolTypeOK /\ StagesOK /\ AskedIsOne /\ AskedIsPermitted
  /\ BarrierHolds /\ EffectsAreConsented

Inv == CallsAreNew /\ ToolInv
-----------------------------------------------------------------------------
(* The steps of a tool round *)

\* A position of the queue holds a call.
LEMMA QueueFacts ==
  ASSUME ToolTypeOK
  PROVE  Len(queue) \in Nat /\ DOMAIN queue = 1..Len(queue) /\ \A i \in 1..Len(queue) : queue[i] \in Calls
BY DEF ToolTypeOK

\* A call that is under way moves on, or ends: no barrier is passed by that.
LEMMA MoveKeeps ==
  ASSUME ToolInv, NEW c \in Calls, st[c] \in Active, NEW s \in Active \cup Ended,
         st' = [st EXCEPT ![c] = s], UNCHANGED <<queue, tool>>
  PROVE  StagesOK' /\ BarrierHolds' /\ st' \in [Calls -> Stages]
<1> USE QueueFacts DEF ToolInv
<1>0. st \in [Calls -> Stages] /\ \A d \in Calls : st'[d] = IF d = c THEN s ELSE st[d]
  BY DEF ToolTypeOK
<1>1. st' \in [Calls -> Stages]
  BY <1>0 DEF Stages
<1>2. StagesOK'
  BY <1>0 DEF StagesOK, NoRepeats, Active, Ended
<1>3. BarrierHolds'
  <2> SUFFICES ASSUME NEW i \in 1..Len(queue), tool[queue[i]] \notin Safe
               PROVE  /\ st'[queue[i]] \in Active => InStage(Active)' = {queue[i]}
                      /\ st'[queue[i]] \in Active \cup {"queued"} =>
                           \A j \in (i + 1)..Len(queue) : st'[queue[j]] = "queued"
    BY DEF BarrierHolds
  <2>1. /\ st[queue[i]] \in Active => InStage(Active) = {queue[i]}
        /\ st[queue[i]] \in Active \cup {"queued"} => \A j \in (i + 1)..Len(queue) : st[queue[j]] = "queued"
    BY DEF BarrierHolds
  <2>2. "queued" \notin Active \cup Ended /\ c \in InStage(Active)
    BY DEF Active, Ended, InStage
  <2>3. PICK k \in 1..Len(queue) : queue[k] = c
    BY DEF StagesOK, Active
  <2>4. CASE queue[i] = c
    <3>1. st'[queue[i]] \in Active => InStage(Active)' = {queue[i]}
      BY <1>0, <2>1, <2>4 DEF InStage
    <3>2. \A j \in (i + 1)..Len(queue) : st'[queue[j]] = "queued"
      BY <1>0, <2>1, <2>2, <2>4
    <3> QED BY <3>1, <3>2
  <2>5. CASE queue[i] # c
    <3>1. st[queue[i]] \notin Active
      BY <2>1, <2>2, <2>5
    <3>2. \A j \in (i + 1)..Len(queue) : st[queue[i]] = "queued" => queue[j] # c
      BY <2>1, <2>2
    <3>3. st'[queue[i]] = st[queue[i]]
      BY <1>0, <2>5
    <3> QED BY <1>0, <2>1, <3>1, <3>2, <3>3
  <2> QED BY <2>4, <2>5
<1> QED BY <1>1, <1>2, <1>3

\* The next batch begins.
LEMMA StartBatchKeeps ==
  ASSUME ToolInv, StartBatch PROVE ToolInv'
<1> USE QueueFacts, ToolAssumption DEF ToolInv
<1>1. PICK i \in 1..Len(queue) :
        /\ st[queue[i]] = "queued"
        /\ \A j \in 1..(i - 1) : st[queue[j]] \in Ended
        /\ st' = [c \in Calls |-> IF c \notin {queue[j] : j \in partition_tool_calls(i)} THEN st[c]
                                  ELSE IF tool[c] \in Known THEN "started" ELSE "done"]
  BY DEF StartBatch
<1> DEFINE batch == {queue[j] : j \in partition_tool_calls(i)}
<1>2. InStage(Active) = {} /\ UNCHANGED <<queue, tool, proj, held, mode, saved, grants, consent, online>>
  BY DEF StartBatch
<1>3. \A j \in 1..Len(queue) :
        queue[j] \in batch <=> j = i \/ (j >= i /\ \A k \in i..j : tool[queue[k]] \in Safe)
  BY DEF partition_tool_calls, StagesOK, NoRepeats
<1>4. \A c \in Calls : st'[c] = IF c \notin batch THEN st[c] ELSE IF tool[c] \in Known THEN "started" ELSE "done"
  BY <1>1
<1>5. batch \subseteq {queue[j] : j \in 1..Len(queue)}
  BY DEF partition_tool_calls
<1>6. st \in [Calls -> Stages] /\ st' \in [Calls -> Stages]
  BY <1>1 DEF ToolTypeOK, Stages, Active, Ended
<1> HIDE DEF batch
<1>7. ToolTypeOK'
  <2>1. avoid' \in BOOLEAN
    BY DEF StartBatch
  <2> QED BY <1>2, <1>6, <2>1 DEF ToolTypeOK
<1>8. StagesOK'
  <2>1. NoRepeats(queue)'
    BY <1>2 DEF StagesOK, NoRepeats
  <2>2. \A c \in Calls : st'[c] # "none" => \E j \in 1..Len(queue) : queue[j] = c
    BY <1>4, <1>5 DEF StagesOK
  <2>3. \A c \in Calls : st'[c] \in Active => tool[c] \in Known
    BY <1>4 DEF StagesOK, Active
  <2> QED BY <1>2, <2>1, <2>2, <2>3 DEF StagesOK
<1>9. \A c \in Calls : st[c] \notin Active
  BY <1>2 DEF InStage
<1>10. \A c \in Calls : st'[c] \notin {"lock", "asked", "allowed", "running"}
  BY <1>4, <1>9 DEF Active
<1>11. AskedIsOne' /\ AskedIsPermitted' /\ EffectsAreConsented'
  BY <1>2, <1>10 DEF AskedIsOne, AskedIsPermitted, EffectsAreConsented, InStage
<1>12. BarrierHolds'
  <2> SUFFICES ASSUME NEW m \in 1..Len(queue), tool[queue[m]] \notin Safe
               PROVE  /\ st'[queue[m]] \in Active => InStage(Active)' = {queue[m]}
                      /\ st'[queue[m]] \in Active \cup {"queued"} =>
                           \A j \in (m + 1)..Len(queue) : st'[queue[j]] = "queued"
    BY <1>2 DEF BarrierHolds
  <2>1. st[queue[m]] = "queued" => \A j \in (m + 1)..Len(queue) : st[queue[j]] = "queued"
    BY DEF BarrierHolds
  <2>2. CASE m = i
    <3>1. \A j \in 1..Len(queue) : queue[j] \in batch => j = i
      BY <1>3, <2>2
    <3>2. batch \subseteq {queue[i]}
      BY <1>5, <3>1
    <3>3. st'[queue[m]] \in Active => InStage(Active)' = {queue[m]}
      BY <1>4, <1>9, <2>2, <3>2 DEF InStage
    <3>4. \A j \in (m + 1)..Len(queue) : st'[queue[j]] = "queued"
      BY <1>1, <1>4, <2>1, <2>2, <3>1
    <3> QED BY <3>3, <3>4
  <2>3. CASE m < i
    <3>1. queue[m] \notin batch /\ st[queue[m]] \in Ended
      BY <1>1, <1>3, <2>3
    <3> QED BY <1>4, <3>1 DEF Ended, Active
  <2>4. CASE m > i
    <3>1. \A j \in m..Len(queue) : queue[j] \notin batch
      BY <1>3, <2>4
    <3>2. st'[queue[m]] = st[queue[m]] /\ \A j \in (m + 1)..Len(queue) : st'[queue[j]] = st[queue[j]]
      BY <1>4, <3>1
    <3> QED BY <1>9, <2>1, <3>2
  <2> QED BY <2>2, <2>3, <2>4
<1> QED BY <1>7, <1>8, <1>11, <1>12
\* A call is authorized: without asking only by a grant, bypass mode or a rule, and past
\* plan mode only if that lets it through.
LEMMA AuthorizeKeeps ==
  ASSUME ToolInv, NEW c \in Calls, _authorize(c) PROVE ToolInv'
<1> USE ToolAssumption DEF ToolInv
<1>0. /\ st[c] = "started" /\ tool[c] \in Known /\ tool[c] \in Tools
      /\ UNCHANGED <<queue, tool, proj, avoid, held, mode, saved, grants, consent, online>>
  BY DEF _authorize, StagesOK, Active
<1>1. PICK s \in {"allowed", "lock", "done"} :
        /\ st' = [st EXCEPT ![c] = s]
        /\ s = "allowed" => _authorize_impl(tool[c]) = "allow"
        /\ s = "lock" => _authorize_impl(tool[c]) = "ask"
  BY DEF _authorize, Move
<1>2. StagesOK' /\ BarrierHolds' /\ st' \in [Calls -> Stages]
  BY <1>0, <1>1, MoveKeeps DEF Active, Ended
<1>3. \A d \in Calls : st'[d] = IF d = c THEN s ELSE st[d]
  BY <1>1 DEF ToolTypeOK
<1>4. ToolTypeOK' /\ AskedIsOne'
  BY <1>0, <1>2, <1>3 DEF ToolTypeOK, AskedIsOne
<1>5. AskedIsPermitted'
  BY <1>0, <1>1, <1>3 DEF AskedIsPermitted, _authorize_impl
<1>6. EffectsAreConsented'
  BY <1>0, <1>1, <1>3 DEF EffectsAreConsented, InStage, _authorize_impl
<1> QED BY <1>2, <1>4, <1>5, <1>6

\* The lock is free: nobody else is being asked.
LEMMA AskUserKeeps ==
  ASSUME ToolInv, NEW c \in Calls, AskUser(c) PROVE ToolInv'
<1> USE DEF ToolInv
<1>0. /\ st[c] = "lock" /\ InStage({"asked"}) = {}
      /\ UNCHANGED <<queue, tool, proj, avoid, held, mode, saved, grants, consent, online>>
  BY DEF AskUser
<1>1. PICK s \in {"asked", "done"} : st' = [st EXCEPT ![c] = s]
  BY TurnAssumption DEF AskUser, Move
<1>2. StagesOK' /\ BarrierHolds' /\ st' \in [Calls -> Stages]
  BY <1>0, <1>1, MoveKeeps DEF Active, Ended
<1>3. \A d \in Calls : st'[d] = IF d = c THEN s ELSE st[d]
  BY <1>1 DEF ToolTypeOK
<1>4. ToolTypeOK' /\ AskedIsOne'
  BY <1>0, <1>2, <1>3 DEF ToolTypeOK, AskedIsOne, InStage
<1>5. AskedIsPermitted' /\ EffectsAreConsented'
  BY <1>0, <1>3 DEF AskedIsPermitted, EffectsAreConsented, InStage
<1> QED BY <1>2, <1>4, <1>5

\* The user answers: what is let through has the consent.
LEMMA AnswerKeeps ==
  ASSUME ToolInv, NEW c \in Calls, NEW option \in {"allow_once", "allow_always", "reject"},
     Answer(c, option)
  PROVE  ToolInv'
<1> USE ToolAssumption DEF ToolInv
<1>0. /\ st[c] = "asked" /\ tool[c] \in Known
      /\ UNCHANGED <<queue, tool, proj, avoid, held, mode, saved, online>>
      /\ consent' = IF option = "reject" THEN consent ELSE consent \cup {c}
      /\ grants' = IF option = "allow_always" THEN grants \cup {tool[c]} ELSE grants
  BY DEF Answer, StagesOK, Active
<1>1. PICK s \in {"done", "allowed"} : st' = [st EXCEPT ![c] = s] /\ (s = "allowed" <=> option # "reject")
  BY DEF Answer, Move
<1>2. StagesOK' /\ BarrierHolds' /\ st' \in [Calls -> Stages]
  BY <1>0, <1>1, MoveKeeps DEF Active, Ended
<1>3. \A d \in Calls : st'[d] = IF d = c THEN s ELSE st[d]
  BY <1>1 DEF ToolTypeOK
<1>4. ToolTypeOK' /\ AskedIsOne'
  BY <1>0, <1>2, <1>3 DEF ToolTypeOK, AskedIsOne
<1>5. AskedIsPermitted'
  BY <1>0, <1>3 DEF AskedIsPermitted
<1>6. EffectsAreConsented'
  BY <1>0, <1>1, <1>3 DEF EffectsAreConsented, AskedIsPermitted, InStage
<1> QED BY <1>2, <1>4, <1>5, <1>6

\* A call past authorization starts, ends, is blocked or lost.
LEMMA PastAuthorizationKeeps ==
  ASSUME ToolInv, NEW c \in Calls, PreToolUse(c) \/ ToolEnds(c) \/ PipelineError(c) PROVE ToolInv'
<1> USE DEF ToolInv
<1>0. /\ st[c] \in {"allowed", "running"}
      /\ UNCHANGED <<queue, tool, proj, avoid, held, mode, saved, grants, consent, online>>
  BY DEF PreToolUse, ToolEnds, PipelineError
<1>1. PICK s \in {"running", "done", "lost"} : st' = [st EXCEPT ![c] = s]
  BY DEF PreToolUse, ToolEnds, PipelineError, Move
<1>2. StagesOK' /\ BarrierHolds' /\ st' \in [Calls -> Stages]
  BY <1>0, <1>1, MoveKeeps DEF Active, Ended
<1>3. \A d \in Calls : st'[d] = IF d = c THEN s ELSE st[d]
  BY <1>1 DEF ToolTypeOK
<1>4. ToolTypeOK' /\ AskedIsOne' /\ AskedIsPermitted'
  BY <1>0, <1>2, <1>3 DEF ToolTypeOK, AskedIsOne, AskedIsPermitted
<1>5. EffectsAreConsented'
  BY <1>0, <1>3 DEF EffectsAreConsented, InStage
<1> QED BY <1>2, <1>4, <1>5

\* The client goes away: the call it was asked about, if any, is lost.
LEMMA DisconnectKeeps ==
  ASSUME ToolInv, Disconnect PROVE ToolInv'
<1> USE DEF ToolInv
<1>0. /\ online' = FALSE /\ st' = [c \in Calls |-> IF st[c] = "asked" THEN "lost" ELSE st[c]]
      /\ UNCHANGED <<queue, tool, proj, avoid, held, mode, saved, grants, consent>>
  BY DEF Disconnect
<1>1. CASE \A c \in Calls : st[c] # "asked"
  <2>1. st' = st
    BY <1>0, <1>1 DEF ToolTypeOK
  <2>2. ToolTypeOK' /\ StagesOK' /\ AskedIsOne' /\ AskedIsPermitted'
    BY <1>0, <2>1 DEF ToolTypeOK, StagesOK, AskedIsOne, AskedIsPermitted
  <2>3. BarrierHolds' /\ EffectsAreConsented'
    BY <1>0, <2>1 DEF BarrierHolds, EffectsAreConsented, InStage
  <2> QED BY <2>2, <2>3
<1>2. ASSUME NEW c \in Calls, st[c] = "asked" PROVE ToolInv'
  <2>1. st' = [st EXCEPT ![c] = "lost"]
    BY <1>0, <1>2 DEF ToolTypeOK, AskedIsOne
  <2>2. StagesOK' /\ BarrierHolds' /\ st' \in [Calls -> Stages]
    BY <1>0, <1>2, <2>1, MoveKeeps DEF Active, Ended
  <2>3. ToolTypeOK'
    BY <1>0, <2>2 DEF ToolTypeOK
  <2>4. AskedIsOne' /\ AskedIsPermitted' /\ EffectsAreConsented'
    BY <1>0 DEF AskedIsOne, AskedIsPermitted, EffectsAreConsented, InStage
  <2> QED BY <2>2, <2>3, <2>4
<1> QED BY <1>1, <1>2

\* Connections, modes and what the consumer leaves behind touch no call.
LEMMA NoCallTouched ==
  ASSUME ToolInv, UNCHANGED <<queue, tool, st, proj, grants, consent>>,
         avoid' \in BOOLEAN, held' \in BOOLEAN, online' \in BOOLEAN,
         mode' \in Modes \cup {"default"}, saved' \in Modes \cup {"default"}
  PROVE  ToolInv'
<1>1. ToolTypeOK' /\ StagesOK' /\ AskedIsOne' /\ AskedIsPermitted'
  BY DEF ToolInv, ToolTypeOK, StagesOK, AskedIsOne, AskedIsPermitted
<1>2. BarrierHolds' /\ EffectsAreConsented'
  BY DEF ToolInv, BarrierHolds, EffectsAreConsented, InStage
<1> QED BY <1>1, <1>2 DEF ToolInv

\* A round begins with calls that are all different.
LEMMA BeginRoundKeeps ==
  ASSUME ToolInv, NEW calls \in Seq(Calls), NoRepeats(calls), BeginRound(calls) PROVE ToolInv'
<1> USE DEF ToolInv
<1> DEFINE ids == {calls[i] : i \in DOMAIN calls}
<1>0. /\ queue' = calls /\ st' = [c \in Calls |-> IF c \in ids THEN "queued" ELSE "none"]
      /\ proj' = _tool_permission_mode(mode) /\ held' = FALSE /\ consent' = {}
      /\ UNCHANGED <<avoid, mode, saved, grants, online>>
      /\ \E use \in [ids -> Tools] : tool' = [c \in Calls |-> IF c \in ids THEN use[c] ELSE "none"]
  BY TurnAssumption DEF BeginRound
<1>1. DOMAIN calls = 1..Len(calls) /\ \A i \in 1..Len(calls) : calls[i] \in Calls /\ calls[i] \in ids
  OBVIOUS
<1>2. \A c \in Calls : st'[c] \notin Active
  BY <1>0 DEF Active
<1>3. ToolTypeOK'
  <2>1. tool' \in [Calls -> Tools \cup {"none"}]
    BY <1>0
  <2>2. st' \in [Calls -> Stages]
    BY <1>0 DEF Stages
  <2>3. proj' \in {"default", "plan", "bypass"}
    BY <1>0 DEF _tool_permission_mode
  <2> QED BY <1>0, <2>1, <2>2, <2>3 DEF ToolTypeOK
<1>4. StagesOK'
  <2>1. \A c \in Calls : st'[c] # "none" => \E i \in 1..Len(calls) : calls[i] = c
    BY <1>0, <1>1
  <2>2. NoRepeats(queue)'
    BY <1>0 DEF NoRepeats
  <2> QED BY <1>0, <1>2, <2>1, <2>2 DEF StagesOK
<1>5. BarrierHolds'
  <2>1. \A i \in 1..Len(calls) : st'[calls[i]] = "queued"
    BY <1>0, <1>1
  <2> HIDE DEF ids
  <2>2. \A i \in 1..Len(calls) : \A j \in (i + 1)..Len(calls) : st'[calls[j]] = "queued"
    BY <2>1
  <2>3. "queued" \notin Active
    BY DEF Active
  <2> QED BY <1>0, <1>1, <2>1, <2>2, <2>3 DEF BarrierHolds
<1>6. AskedIsOne' /\ AskedIsPermitted' /\ EffectsAreConsented'
  BY <1>0, <1>2 DEF AskedIsOne, AskedIsPermitted, EffectsAreConsented, InStage, Active
<1> QED BY <1>3, <1>4, <1>5, <1>6

\* The executor is gone, with its turn or with the process.
LEMMA CloseKeeps ==
  ASSUME ToolInv, queue' = <<>>, tool' = NoTools, st' = [c \in Calls |-> "none"], held' = FALSE,
         consent' = {}, proj' = "default", avoid' = FALSE, grants' \in {grants, {}}, online' \in BOOLEAN,
         mode' \in Modes \cup {"default"}, saved' = saved
  PROVE  ToolInv'
<1> USE DEF ToolInv
<1>1. ToolTypeOK'
  <2>1. grants' \subseteq Known
    BY DEF ToolTypeOK
  <2>2. tool' \in [Calls -> Tools \cup {"none"}] /\ st' \in [Calls -> Stages] /\ queue' \in Seq(Calls)
    BY DEF NoTools, Stages
  <2>3. avoid' \in BOOLEAN /\ held' \in BOOLEAN
    OBVIOUS
  <2>4. saved' \in Modes \cup {"default"} /\ consent' \subseteq Calls
    BY DEF ToolTypeOK
  <2> QED BY <2>1, <2>2, <2>3, <2>4 DEF ToolTypeOK
<1>2. StagesOK' /\ BarrierHolds'
  BY DEF StagesOK, BarrierHolds, NoRepeats, Active
<1>3. AskedIsOne' /\ AskedIsPermitted'
  BY DEF AskedIsOne, AskedIsPermitted
<1>4. EffectsAreConsented'
  BY DEF EffectsAreConsented, InStage
<1> QED BY <1>1, <1>2, <1>3, <1>4
-----------------------------------------------------------------------------
(* The steps of a turn *)

\* The locals of the loop after a step that asks for no new call.
Plain ==
  /\ DOMAIN turn' = DOMAIN NewTurn /\ turn'.calls \in {turn.calls, <<>>}
  /\ {"prompts", "calls", "faults"} \subseteq DOMAIN left' /\ left'.calls = left.calls

LEMMA PlainKeeps == ASSUME CallsAreNew, Plain PROVE CallsAreNew'
<1>1. NoRepeats(<<>>) /\ <<>> \in Seq(Calls)
  BY DEF NoRepeats
<1>2. turn'.calls \in Seq(Calls) /\ NoRepeats(turn'.calls)
  BY <1>1 DEF CallsAreNew, Plain
<1>3. DOMAIN turn' = DOMAIN NewTurn /\ {"prompts", "calls", "faults"} \subseteq DOMAIN left'
      /\ left'.calls \in 0..MaxCalls
  BY DEF CallsAreNew, Plain
<1> QED BY <1>2, <1>3 DEF CallsAreNew

LEMMA TurnFacts ==
  DOMAIN NewTurn = {"index", "transient", "reactive", "protocol", "output", "compact", "then", "calls", "limit"}
  /\ NewTurn.calls = <<>>
BY DEF NewTurn

\* What the record operations of the loop do to the calls.
LEMMA TurnRecords ==
  ASSUME CallsAreNew
  PROVE  /\ DOMAIN Again = DOMAIN NewTurn /\ Again.calls = <<>>
         /\ \A t : DOMAIN t = DOMAIN NewTurn => DOMAIN Rewound(t) = DOMAIN NewTurn /\ Rewound(t).calls = t.calls
BY TurnFacts DEF CallsAreNew, Again, Rewound

\* A disturbance costs no call.
LEMMA DisturbPlain ==
  ASSUME CallsAreNew, NEW f, Disturb(f)
  PROVE  {"prompts", "calls", "faults"} \subseteq DOMAIN left' /\ left'.calls = left.calls
BY DEF CallsAreNew, Disturb

LEMMA LeftPlain ==
  ASSUME CallsAreNew, UNCHANGED left
  PROVE  {"prompts", "calls", "faults"} \subseteq DOMAIN left' /\ left'.calls = left.calls
BY DEF CallsAreNew

\* The steps of the loop between streams and rounds.
LEMMA LoopIsPlain ==
  ASSUME CallsAreNew,
         Blocked \/ SetupTurn \/ AppendPrompt \/ StopAtMaxTurns \/ PrepareHistory \/ Summarised \/ StreamText
         \/ StreamError \/ Refused \/ ProtocolError \/ HandleStop
  PROVE  Plain /\ UNCHANGED toolVars
<1> USE TurnFacts, TurnRecords, DisturbPlain, LeftPlain DEF Plain
<1>0. DOMAIN turn = DOMAIN NewTurn
  BY DEF CallsAreNew
<1>1. CASE Blocked \/ StopAtMaxTurns
  BY <1>1 DEF Blocked, StopAtMaxTurns, EndTurn, Goto
<1>2. CASE SetupTurn \/ AppendPrompt
  BY <1>0, <1>2 DEF SetupTurn, AppendPrompt, AppendUser, Goto
<1>3. CASE PrepareHistory
  BY <1>0, <1>3 DEF PrepareHistory, Goto
<1>4. CASE Summarised
  BY <1>4 DEF Summarised, Goto
<1>5. CASE StreamText
  BY <1>5 DEF StreamText, Goto
<1>6. CASE StreamError
  BY <1>0, <1>6 DEF StreamError, EndTurn, Goto
<1>7. CASE Refused
  <2> DEFINE t == Rewound([turn EXCEPT !.reactive = @ + 1])
  <2>1. DOMAIN t = DOMAIN NewTurn /\ t.calls = turn.calls
    BY <1>0
  <2>2. \/ turn' = NewTurn
        \/ turn' = [t EXCEPT !.then = "loop", !.compact = find_compaction_boundary(history)]
        \/ turn' = t
    BY <1>7 DEF Refused, EndTurn, Goto
  <2>3. Disturb("compact") /\ UNCHANGED toolVars
    BY <1>7 DEF Refused
  <2> HIDE DEF t
  <2> QED BY <2>1, <2>2, <2>3
<1>8. CASE ProtocolError
  BY <1>0, <1>8 DEF ProtocolError, EndTurn, Goto
<1>9. CASE HandleStop
  BY <1>9 DEF HandleStop, EndTurn, Goto
<1> QED BY <1>1, <1>2, <1>3, <1>4, <1>5, <1>6, <1>7, <1>8, <1>9

\* A stream asks for calls that no earlier one has used.
LEMMA StreamCallsKeeps ==
  ASSUME CallsAreNew, StreamCalls PROVE CallsAreNew' /\ UNCHANGED toolVars
<1>1. PICK n \in 1..2 :
        /\ n <= left.calls /\ left' = [left EXCEPT !.calls = @ - n]
        /\ turn' = [Again EXCEPT !.calls = [i \in 1..n |-> Fresh + i]]
  BY DEF StreamCalls, Goto
<1> DEFINE calls == [i \in 1..n |-> Fresh + i]
<1>2. left.calls \in 0..MaxCalls /\ MaxCalls \in Nat /\ Calls = 1..MaxCalls
  BY TurnAssumption DEF CallsAreNew
<1>3. \A i \in 1..n : calls[i] \in Calls
  BY <1>1, <1>2 DEF Fresh
<1>4. calls \in Seq(Calls) /\ Len(calls) = n
  BY <1>3
<1>5. NoRepeats(calls)
  BY <1>2, <1>4 DEF NoRepeats, Fresh
<1>6. DOMAIN turn' = DOMAIN NewTurn /\ turn'.calls = calls
  BY <1>1, TurnFacts, TurnRecords
<1>7. {"prompts", "calls", "faults"} \subseteq DOMAIN left' /\ left'.calls \in 0..MaxCalls
  BY <1>1, <1>2 DEF CallsAreNew
<1> HIDE DEF calls
<1> QED BY <1>4, <1>5, <1>6, <1>7 DEF CallsAreNew, StreamCalls

\* Nothing of the tool round changes.
LEMMA ToolSame == ASSUME ToolInv, UNCHANGED toolVars PROVE ToolInv'
BY NoCallTouched DEF ToolInv, ToolTypeOK, toolVars
\* Every step keeps the invariant.
LEMMA NextKeeps ==
  ASSUME Inv, [Next]_vars PROVE Inv'
<1> USE DEF Inv
<1>1. CASE BeginTurn
  <2>1. Plain
    BY <1>1, TurnFacts DEF BeginTurn, Goto, Plain, CallsAreNew
  <2>2. ToolInv'
    BY <1>1, NoCallTouched DEF BeginTurn, ToolInv, ToolTypeOK
  <2> QED BY <2>1, <2>2, PlainKeeps
<1>2. CASE LoopStep
  <2>1. CASE StreamCalls
    BY <2>1, StreamCallsKeeps, ToolSame
  <2>2. CASE StartRound
    <3>1. turn.calls \in Seq(Calls) /\ NoRepeats(turn.calls) /\ BeginRound(turn.calls)
      BY <2>2 DEF StartRound, CallsAreNew
    <3>2. Plain
      BY <2>2, TurnFacts, TurnRecords, LeftPlain DEF StartRound, Goto, Plain
    <3> QED BY <3>1, <3>2, BeginRoundKeeps, PlainKeeps
  <2>3. CASE AppendResults
    <3>1. Plain
      BY <2>3, TurnFacts, TurnRecords, LeftPlain DEF AppendResults, Goto, Plain
    <3>2. ToolInv'
      BY <2>3, CloseKeeps DEF AppendResults, CloseRound, ToolInv, ToolTypeOK
    <3> QED BY <3>1, <3>2, PlainKeeps
  <2>4. CASE ~(StreamCalls \/ StartRound \/ AppendResults)
    <3>1. Plain /\ UNCHANGED toolVars
      BY <1>2, <2>4, LoopIsPlain DEF LoopStep
    <3> QED BY <3>1, PlainKeeps, ToolSame
  <2> QED BY <2>1, <2>2, <2>3, <2>4
<1>3. CASE RunTools
  <2>1. ToolInv'
    BY <1>3, StartBatchKeeps, AuthorizeKeeps, AskUserKeeps, PastAuthorizationKeeps DEF RunTools,
       ToolStep
  <2>2. CallsAreNew'
    BY <1>3 DEF RunTools, CallsAreNew
  <2> QED BY <2>1, <2>2
<1>4. CASE ClientActs
  <2>1. ASSUME Connect PROVE ToolInv'
    BY <2>1, NoCallTouched DEF Connect, ToolInv, ToolTypeOK
  <2>2. ToolInv'
    BY <1>4, <2>1, AnswerKeeps DEF ClientActs, ClientStep
  <2>3. CallsAreNew'
    BY <1>4 DEF ClientActs, turnVars, CallsAreNew
  <2> QED BY <2>2, <2>3
<1>5. CASE ToolFaults
  <2>1. ASSUME NEW m \in Modes, SetMode(m) \/ \E c \in Calls : ToolSetsMode(c, m) PROVE ToolInv'
    BY <2>1, NoCallTouched DEF SetMode, ToolSetsMode, ToolInv, ToolTypeOK
  <2>2. ToolInv'
    BY <1>5, <2>1, DisconnectKeeps, PastAuthorizationKeeps DEF ToolFaults, ToolFault
  <2>3. CallsAreNew'
    BY <1>5 DEF ToolFaults, CallsAreNew
  <2> QED BY <2>2, <2>3
<1>6. CASE Commit \/ WriteFails \/ UserContext
  <2>1. UNCHANGED toolVars /\ UNCHANGED turn /\ (UNCHANGED left \/ \E f \in {"storeError", "context"} : Disturb(f))
    BY <1>6 DEF Commit, WriteFails, UserContext
  <2>2. CallsAreNew'
    BY <2>1 DEF CallsAreNew, Disturb
  <2> QED BY <2>1, <2>2, ToolSame
<1>7. CASE CancelInQuery
  <2>1. Plain
    BY <1>7, TurnFacts, DisturbPlain DEF CancelInQuery, EndTurn, Goto, Plain
  <2>2. CloseRound \/ UNCHANGED toolVars
    BY <1>7 DEF CancelInQuery
  <2>3. ToolInv'
    BY <2>2, CloseKeeps, ToolSame DEF CloseRound, ToolInv, ToolTypeOK
  <2> QED BY <2>1, <2>3, PlainKeeps
<1>8. CASE CancelInConsumer
  <2>1. Plain
    BY <1>8, TurnFacts, DisturbPlain DEF CancelInConsumer, EndTurn, Goto, Plain
  <2>2. held' \in BOOLEAN
    BY <1>8 DEF CancelInConsumer
  <2>3. ToolInv'
    BY <1>8, <2>2, NoCallTouched DEF CancelInConsumer, ToolInv, ToolTypeOK
  <2> QED BY <2>1, <2>3, PlainKeeps
<1>9. CASE Collect
  <2>1. ToolInv'
    BY <1>9, CloseKeeps DEF Collect, CloseRound, ToolInv, ToolTypeOK
  <2>2. CallsAreNew'
    BY <1>9 DEF Collect, turnVars, CallsAreNew
  <2> QED BY <2>1, <2>2
<1>10. CASE Crash
  <2>1. Plain
    BY <1>10, TurnFacts, DisturbPlain DEF Crash, EndTurn, Goto, Plain
  <2>2. ToolInv'
    BY <1>10, CloseKeeps DEF Crash, ToolInv, ToolTypeOK
  <2> QED BY <2>1, <2>2, PlainKeeps
<1>11. CASE UNCHANGED vars
  BY <1>11, ToolSame DEF vars, toolVars, CallsAreNew
<1> QED BY <1>1, <1>2, <1>3, <1>4, <1>5, <1>6, <1>7, <1>8, <1>9, <1>10, <1>11 DEF Next

\* The invariant holds initially.
LEMMA InitInv == Init => Inv
<1> SUFFICES ASSUME Init PROVE Inv
  OBVIOUS
<1> USE DEF Init, ToolInit
<1>1. CallsAreNew
  BY TurnFacts, TurnAssumption DEF CallsAreNew, NoRepeats
<1>2. ToolTypeOK
  <2>1. avoid \in BOOLEAN /\ held \in BOOLEAN /\ online \in BOOLEAN
    OBVIOUS
  <2>2. tool \in [Calls -> Tools \cup {"none"}] /\ st \in [Calls -> Stages] /\ queue \in Seq(Calls)
    BY DEF NoTools, Stages
  <2> QED BY <2>1, <2>2 DEF ToolTypeOK
<1>3. StagesOK /\ AskedIsOne /\ AskedIsPermitted
  BY DEF StagesOK, NoRepeats, AskedIsOne, AskedIsPermitted, Active
<1>4. BarrierHolds /\ EffectsAreConsented
  BY DEF BarrierHolds, EffectsAreConsented, InStage
<1> QED BY <1>1, <1>2, <1>3, <1>4 DEF Inv, ToolInv

LEMMA Invariance == Spec => []Inv
<1>1. Inv /\ [Next]_vars => Inv'
  BY NextKeeps
<1> QED BY <1>1, InitInv, PTL DEF Spec

\* Executor, authorizer and connection keep their types.
LEMMA ToolTypes == Spec => []ToolTypeOK
<1>1. Inv => ToolTypeOK
  BY DEF Inv, ToolInv
<1> QED BY <1>1, Invariance, PTL

\* partition_tool_calls and results() make a call that is not concurrency-safe a barrier:
\* it runs alone and after everything before it, in any round of any length, whichever
\* calls are rejected, blocked, lost or abandoned by a cancelled turn.
THEOREM UnsafeCallsRunAlone == Spec => []BarrierHolds
<1>1. Inv => BarrierHolds
  BY DEF Inv, ToolInv
<1> QED BY <1>1, Invariance, PTL

\* However many calls share a batch, the user is asked about one at a time.
THEOREM PromptsAreSerial == Spec => []OnePromptAtATime
<1>1. Inv => OnePromptAtATime
  <2> SUFFICES ASSUME Inv PROVE OnePromptAtATime
    OBVIOUS
  <2>1. CASE InStage({"asked"}) = {}
    BY <2>1, FS_EmptySet DEF OnePromptAtATime
  <2>2. ASSUME NEW c \in InStage({"asked"}) PROVE OnePromptAtATime
    <3>1. InStage({"asked"}) = {c}
      BY DEF InStage, Inv, ToolInv, AskedIsOne
    <3>2. Cardinality({c}) = 1
      BY FS_Singleton
    <3> QED BY <3>1, <3>2 DEF OnePromptAtATime
  <2> QED BY <2>1, <2>2
<1> QED BY <1>1, Invariance, PTL

\* No call passes authorization without a consent, whatever the rules, the mode and the
\* disturbances: what got past it holds a grant, was let through by mode or rules, or was
\* allowed in answer to its own prompt.
THEOREM NoEffectWithoutConsent == Spec => []EffectsAreConsented
<1>1. Inv => EffectsAreConsented
  BY DEF Inv, ToolInv
<1> QED BY <1>1, Invariance, PTL
-----------------------------------------------------------------------------
(* The history and its requests: the inductive invariant *)

\* The calls streams have asked for so far.
Asked == 1..Fresh

Entries(C) == [by : {"turn", "user", "cut"}, snap : BOOLEAN, msgs : Seq(Sound(C))]

\* Only calls that have been asked for are in the history, in the log and in what is
\* being written to it; an event that is no snapshot has a message.
Stored ==
  /\ history \in Seq(Sound(Asked)) /\ disk \in Seq(Sound(Asked)) /\ pend \in Seq(Entries(Asked))
  /\ \A i \in 1..Len(pend) : ~pend[i].snap => pend[i].msgs # <<>>
  /\ kinds \subseteq Calls /\ lost \subseteq Calls /\ torn \in BOOLEAN /\ pc \in Pcs

\* The retry counters, and the boundary a summary is awaited for.
LocalsOK ==
  /\ turn.then \in {"send", "loop"} /\ turn.compact \in 0..Len(history)
  /\ pc # "summarise" => turn.compact = 0
  /\ turn.transient \in 0..MaxTransient /\ turn.reactive \in 0..MaxReactive
  /\ turn.protocol \in 0..1 /\ turn.output \in 0..MaxOutput

\* Where the next request is prepared or sent.
Sending == {"prompt", "loop", "summarise", "send", "stop"}

\* A round is under way exactly for the tool uses that are not answered.
RoundIsOpen ==
  /\ (queue # <<>> /\ ~held) <=> pc = "tools"
  /\ pc = "round" => /\ turn.calls # <<>>
                     /\ \E a : Open(history, a, {turn.calls[i] : i \in DOMAIN turn.calls})
  /\ pc = "tools" => \E a : Open(history, a, Round)
  /\ pc \in {"round", "tools"} => Settled(history, Calls \ lost)

\* What can be sent is closed; results follow their uses once the history is set up; and
\* a call with a recorded kind is answered by one message next to it, so that
\* microcompaction removes both.
Requests ==
  /\ pc \in Sending => Closed(history, lost)
  /\ pc \notin {"idle", "setup"} => Follow(history, lost)
  /\ First(history, kinds \ lost) /\ Settled(history, kinds \ lost)

RequestInv == Stored /\ LocalsOK /\ RoundIsOpen /\ Requests

LEMMA AskedFacts ==
  ASSUME CallsAreNew
  PROVE  /\ Fresh \in 0..MaxCalls /\ Asked \subseteq Calls
         /\ Asked \in SUBSET Calls
BY TurnAssumption DEF CallsAreNew, Fresh, Asked

\* A history's messages as the lemmas on histories want them.
LEMMA StoredFacts ==
  ASSUME CallsAreNew, Stored
  PROVE  /\ history \in Seq(Messages(Asked)) /\ disk \in Seq(Messages(Asked))
         /\ Len(history) \in Nat /\ \A i \in 1..Len(history) : history[i].ids \subseteq Asked
<1>1. history \in Seq(Messages(Asked)) /\ disk \in Seq(Messages(Asked))
  BY SeqMonotonic DEF Stored, Sound
<1>2. Len(history) \in Nat /\ \A i \in 1..Len(history) : history[i] \in Messages(Asked)
  BY <1>1
<1>3. \A i \in 1..Len(history) : history[i].ids \subseteq Asked
  BY <1>2, MessageFacts
<1> QED BY <1>1, <1>2, <1>3

\* A step that asks for nothing.
LEMMA StoredStep ==
  ASSUME Stored, left'.calls = left.calls, history' \in Seq(Sound(Asked)),
         \/ pend' = pend
         \/ \E e \in Entries(Asked) : (~e.snap => e.msgs # <<>>) /\ pend' = Append(pend, e),
         UNCHANGED disk, kinds' \subseteq Calls, lost' \subseteq Calls, torn' \in BOOLEAN, pc' \in Pcs
  PROVE  Stored'
<1>1. Asked' = Asked
  BY DEF Asked, Fresh
<1>2. pend \in Seq(Entries(Asked)) /\ \A i \in 1..Len(pend) : ~pend[i].snap => pend[i].msgs # <<>>
  BY DEF Stored
<1>3. pend' \in Seq(Entries(Asked)) /\ \A i \in 1..Len(pend') : ~pend'[i].snap => pend'[i].msgs # <<>>
  <2>1. CASE pend' = pend
    BY <1>2, <2>1
  <2>2. ASSUME NEW e \in Entries(Asked), ~e.snap => e.msgs # <<>>, pend' = Append(pend, e)
        PROVE  pend' \in Seq(Entries(Asked)) /\ \A i \in 1..Len(pend') : ~pend'[i].snap => pend'[i].msgs # <<>>
    BY <1>2, <2>2
  <2> QED BY <2>1, <2>2
<1> QED BY <1>1, <1>3 DEF Stored

\* What the loop yields.
LEMMA YieldFacts ==
  ASSUME Stored
  PROVE  /\ \A m \in Sound(Asked) : Entry("turn", FALSE, <<m>>) \in Entries(Asked) /\ <<m>> # <<>>
         /\ \A h \in Seq(Sound(Asked)) : Entry("turn", TRUE, h) \in Entries(Asked)
         /\ \A w, s, h : Entry(w, s, h).by = w /\ Entry(w, s, h).snap = s /\ Entry(w, s, h).msgs = h
<1>1. \A m \in Sound(Asked) : <<m>> \in Seq(Sound(Asked)) /\ <<m>> # <<>>
  OBVIOUS
<1> QED BY <1>1 DEF Entry, Entries

LEMMA AppendStored ==
  ASSUME Stored, left'.calls = left.calls, NEW m \in Sound(Asked), history' = Append(history, m),
         YieldAppend(m) \/ pend' = pend, UNCHANGED <<disk, torn>>, kinds' \subseteq Calls, lost' \subseteq Calls, pc' \in Pcs
  PROVE  Stored'
<1>1. history' \in Seq(Sound(Asked)) /\ torn' \in BOOLEAN
  BY DEF Stored
<1>2. pend' = pend \/ \E e \in Entries(Asked) : (~e.snap => e.msgs # <<>>) /\ pend' = Append(pend, e)
  <2>1. CASE YieldAppend(m)
    <3>1. PICK e : e = Entry("turn", FALSE, <<m>>)
      OBVIOUS
    <3>2. e \in Entries(Asked) /\ <<m>> # <<>>
      BY <3>1, YieldFacts
    <3>3. e.msgs = <<m>>
      BY <3>1 DEF Entry
    <3> QED BY <2>1, <3>1, <3>2, <3>3 DEF YieldAppend
  <2> QED BY <2>1
<1> QED BY <1>1, <1>2, StoredStep

LEMMA SnapStored ==
  ASSUME Stored, left'.calls = left.calls, history' \in Seq(Sound(Asked)),
         YieldSnapshot(history') \/ pend' = pend, UNCHANGED <<disk, torn>>, kinds' \subseteq Calls, lost' \subseteq Calls, pc' \in Pcs
  PROVE  Stored'
<1>1. torn' \in BOOLEAN
  BY DEF Stored
<1>2. pend' = pend \/ \E e \in Entries(Asked) : (~e.snap => e.msgs # <<>>) /\ pend' = Append(pend, e)
  <2>1. CASE YieldSnapshot(history')
    <3>1. PICK e : e = Entry("turn", TRUE, history')
      OBVIOUS
    <3>2. e \in Entries(Asked) /\ e.snap
      BY <3>1, YieldFacts
    <3> QED BY <2>1, <3>1, <3>2 DEF YieldSnapshot
  <2> QED BY <2>1
<1> QED BY <1>1, <1>2, StoredStep

\* A step that leaves the history as it is and does not go from elsewhere to a request.
LEMMA QuietRequests ==
  ASSUME Requests, UNCHANGED <<history, kinds, lost>>,
         \/ pc' \in {"idle", "setup"}
         \/ pc \in Sending /\ pc' \in Sending
         \/ pc' = pc
  PROVE  Requests'
<1>1. \A p \in Sending : p \notin {"idle", "setup"}
  BY DEF Sending
<1>2. \A p \in {"idle", "setup"} : p \notin Sending
  BY DEF Sending
<1> QED BY <1>1, <1>2 DEF Requests

\* A step that brings a history that can be sent.
LEMMA SendingRequests ==
  ASSUME Requests, UNCHANGED <<kinds, lost>>, pc' \in Sending,
         Closed(history', lost), Follow(history', lost), First(history', kinds \ lost)
  PROVE  Requests'
<1>1. Settled(history', kinds \ lost)
  BY ClosedSettled
<1> QED BY <1>1 DEF Requests

\* No round is open where requests are prepared, nor between turns.
LEMMA NoRoundOpen ==
  ASSUME RoundIsOpen, pc # "tools", pc' \notin {"round", "tools"}, UNCHANGED <<queue, held>>
  PROVE  RoundIsOpen'
BY DEF RoundIsOpen

LEMMA NewLocals ==
  ASSUME turn' = NewTurn, Len(history') \in Nat
  PROVE  LocalsOK'
<1>1. /\ NewTurn.then = "send" /\ NewTurn.compact = 0 /\ NewTurn.transient = 0 /\ NewTurn.reactive = 0
      /\ NewTurn.protocol = 0 /\ NewTurn.output = 0
  BY DEF NewTurn
<1> QED BY <1>1, TurnAssumption DEF LocalsOK

LEMMA SameLocals ==
  ASSUME LocalsOK, pc # "summarise", Len(history) \in Nat, Len(history') \in Nat,
         pc' # "summarise", turn'.compact \in {0, turn.compact}, turn'.then = turn.then,
         turn'.transient = turn.transient, turn'.reactive = turn.reactive,
         turn'.protocol = turn.protocol, turn'.output = turn.output
  PROVE  LocalsOK'
BY DEF LocalsOK
-----------------------------------------------------------------------------
(* Setting up a turn and preparing a request *)

\* Records of the loop.
LEMMA LocalFacts ==
  ASSUME CallsAreNew
  PROVE  /\ DOMAIN turn = DOMAIN NewTurn
         /\ Again.compact = 0 /\ Again.then = turn.then /\ Again.transient = turn.transient
         /\ Again.reactive = turn.reactive /\ Again.protocol = turn.protocol /\ Again.output = turn.output
         /\ DOMAIN Again = DOMAIN NewTurn
         /\ \A t : DOMAIN t = DOMAIN NewTurn =>
              /\ Rewound(t).compact = t.compact /\ Rewound(t).then = t.then /\ Rewound(t).transient = t.transient
              /\ Rewound(t).reactive = t.reactive /\ Rewound(t).protocol = t.protocol
              /\ Rewound(t).output = t.output /\ DOMAIN Rewound(t) = DOMAIN NewTurn
BY TurnFacts DEF CallsAreNew, Again, Rewound

\* The prompt is appended to a closed history.
LEMMA AppendUserKeeps ==
  ASSUME Inv, RequestInv, pc \in {"setup", "prompt"}, Closed(history, lost), Follow(history, lost),
         AppendUser, UNCHANGED <<toolVars, kinds, disk, torn, lost, left>>
  PROVE  RequestInv'
<1> USE DEF RequestInv
<1>1. history' = Append(history, Prompt) /\ YieldAppend(Prompt) /\ pc' = "loop" /\ turn' = turn
  BY DEF AppendUser, Goto
<1>2. Prompt \in Sound(Asked) /\ ~IsResult(Prompt) /\ Uses(Prompt) = {}
  BY MessageFacts, RoleFacts DEF IsResult, Uses, IsAssistant
<1>3. Stored'
  BY <1>1, <1>2, AppendStored DEF Stored, Pcs
<1>4. Grown(history', history, Prompt)
  BY <1>1, <1>2, AppendGrown DEF Stored
<1>5. LocalsOK'
  <2>1. Len(history') \in Nat /\ Len(history) \in Nat
    BY <1>4 DEF Grown
  <2> QED BY <1>1, <2>1, SameLocals
<1>6. RoundIsOpen'
  BY <1>1, NoRoundOpen DEF toolVars
<1>7. Requests'
  <2>1. Closed(history', lost) /\ Follow(history', lost) /\ First(history', kinds \ lost)
    BY <1>2, <1>4, GrownClosed, GrownFollow DEF Requests
  <2> QED BY <1>1, <2>1, SendingRequests DEF Sending
<1> QED BY <1>3, <1>5, <1>6, <1>7

\* What repairing does to requests.
LEMMA RepairedFacts ==
  ASSUME Inv, RequestInv
  PROVE  LET h == repair_orphan_tool_results(history)
         IN /\ h \in Seq(Sound(Asked)) /\ Len(h) \in Nat /\ Closed(h, lost) /\ Follow(h, lost) /\ First(h, kinds \ lost)
<1> USE DEF RequestInv
<1>1. PICK h : h = repair_orphan_tool_results(history)
  OBVIOUS
<1>2. h \in Seq(Sound(Asked)) /\ Paired(h)
  BY <1>1, RepairCorrect DEF Stored
<1>3. h \in Seq(Messages(Asked)) /\ Len(h) \in Nat
  BY <1>2, SeqMonotonic DEF Sound
<1>4. Closed(h, lost) /\ Follow(h, lost)
  BY <1>2, <1>3, PairedCloses
<1>5. First(h, kinds \ lost)
  BY <1>1, RepairFirst DEF Requests, Stored
<1> QED BY <1>1, <1>2, <1>3, <1>4, <1>5

LEMMA SetupTurnKeeps ==
  ASSUME Inv, RequestInv, SetupTurn PROVE RequestInv'
<1> USE DEF RequestInv
<1>1. PICK h : h = repair_orphan_tool_results(history)
  OBVIOUS
<1>2. /\ h \in Seq(Sound(Asked)) /\ Len(h) \in Nat /\ Closed(h, lost) /\ Follow(h, lost) /\ First(h, kinds \ lost)
  BY <1>1, RepairedFacts
<1>3. pc = "setup" /\ UNCHANGED <<toolVars, kinds, disk, torn, lost, left>>
  BY DEF SetupTurn, At
<1>4. CASE h = history
  <2>1. AppendUser
    BY <1>1, <1>4 DEF SetupTurn
  <2> QED BY <1>2, <1>3, <1>4, <2>1, AppendUserKeeps
<1>5. CASE h # history
  <2>1. history' = h /\ YieldSnapshot(history') /\ pc' = "prompt" /\ turn' = turn
    BY <1>1, <1>5 DEF SetupTurn, Goto
  <2>2. Stored'
    BY <1>2, <1>3, <2>1, SnapStored DEF Stored, Pcs
  <2>3. LocalsOK'
    <3>1. Len(history) \in Nat
      BY DEF Stored
    <3> QED BY <1>2, <1>3, <2>1, <3>1, SameLocals
  <2>4. RoundIsOpen'
    BY <1>3, <2>1, NoRoundOpen DEF toolVars
  <2>5. Requests'
    BY <1>2, <1>3, <2>1, SendingRequests DEF Sending
  <2> QED BY <2>2, <2>3, <2>4, <2>5
<1> QED BY <1>4, <1>5

LEMMA AppendPromptKeeps ==
  ASSUME Inv, RequestInv, AppendPrompt PROVE RequestInv'
<1>1. pc = "prompt" /\ AppendUser /\ UNCHANGED <<toolVars, kinds, disk, torn, lost, left>>
  BY DEF AppendPrompt, At
<1>2. Closed(history, lost) /\ Follow(history, lost)
  BY <1>1 DEF RequestInv, Requests, Sending
<1> QED BY <1>1, <1>2, AppendUserKeeps

\* Steps that only end the turn, or go back to the loop.
LEMMA EndTurnKeeps ==
  ASSUME Inv, RequestInv, EndTurn, pc # "tools", UNCHANGED <<toolVars, history, kinds, pend, disk, torn, lost>>,
         left'.calls = left.calls
  PROVE  RequestInv'
<1> USE DEF RequestInv
<1>1. pc' = "idle" /\ turn' = NewTurn
  BY DEF EndTurn, Goto
<1>2. Stored'
  BY <1>1, StoredStep DEF Stored, Pcs
<1>3. Len(history') \in Nat
  BY DEF Stored
<1>4. LocalsOK'
  BY <1>1, <1>3, NewLocals
<1>5. RoundIsOpen'
  BY <1>1, NoRoundOpen DEF toolVars
<1>6. Requests'
  BY <1>1, QuietRequests
<1> QED BY <1>2, <1>4, <1>5, <1>6

\* Steps between places where requests are prepared.
LEMMA SendingKeeps ==
  ASSUME Inv, RequestInv, pc \in Sending, pc' \in Sending, LocalsOK',
         UNCHANGED <<toolVars, kinds, disk, torn, lost>>, left'.calls = left.calls,
         history' \in Seq(Sound(Asked)), YieldSnapshot(history') \/ pend' = pend,
         history' = history \/ (Closed(history', lost) /\ Follow(history', lost) /\ First(history', kinds \ lost))
  PROVE  RequestInv'
<1> USE DEF RequestInv
<1>1. Stored'
  BY SnapStored DEF Stored, Sending, Pcs
<1>2. RoundIsOpen'
  BY NoRoundOpen DEF toolVars, Sending
<1>3. Requests'
  <2>1. Closed(history, lost) /\ Follow(history, lost) /\ First(history, kinds \ lost)
    BY DEF Requests, Sending
  <2> QED BY <2>1, SendingRequests
<1> QED BY <1>1, <1>2, <1>3

LEMMA ProtocolErrorKeeps ==
  ASSUME Inv, RequestInv, ProtocolError PROVE RequestInv'
<1> USE DEF RequestInv
<1>1. PICK h : h = repair_orphan_tool_results(history)
  OBVIOUS
<1>2. pc = "send" /\ UNCHANGED <<toolVars, kinds, disk, torn, lost, left>>
  BY DEF ProtocolError, At
<1>3. CASE EndTurn /\ UNCHANGED <<history, pend>>
  BY <1>2, <1>3, EndTurnKeeps
<1>4. CASE ~(EndTurn /\ UNCHANGED <<history, pend>>)
  <2>1. PICK t : t = [turn EXCEPT !.protocol = @ + 1]
    OBVIOUS
  <2>2. /\ turn.protocol < 1 /\ history' = h /\ YieldSnapshot(history') /\ pc' = "loop" /\ turn' = Rewound(t)
    BY <1>1, <1>4, <2>1 DEF ProtocolError, Goto
  <2>3. /\ h \in Seq(Sound(Asked)) /\ Len(h) \in Nat /\ Closed(h, lost) /\ Follow(h, lost) /\ First(h, kinds \ lost)
    BY <1>1, RepairedFacts
  <2>4. LocalsOK'
    <3>0. CallsAreNew
      BY DEF Inv
    <3>1. /\ DOMAIN t = DOMAIN NewTurn /\ t.then = turn.then /\ t.compact = turn.compact /\ t.transient = turn.transient
          /\ t.reactive = turn.reactive /\ t.protocol = turn.protocol + 1 /\ t.output = turn.output
      BY <2>1, <3>0, TurnFacts, LocalFacts
    <3>2. /\ turn'.then = turn.then /\ turn'.compact = turn.compact /\ turn'.transient = turn.transient
          /\ turn'.reactive = turn.reactive /\ turn'.protocol = turn.protocol + 1 /\ turn'.output = turn.output
      BY <2>2, <3>0, <3>1, LocalFacts
    <3>3. turn.compact = 0
      BY <1>2 DEF LocalsOK
    <3> QED BY <2>2, <2>3, <3>2, <3>3 DEF LocalsOK
  <2> QED BY <1>2, <2>2, <2>3, <2>4, SendingKeeps DEF Sending
<1> QED BY <1>3, <1>4

LEMMA PrepareHistoryKeeps ==
  ASSUME Inv, RequestInv, PrepareHistory PROVE RequestInv'
<1> USE DEF RequestInv
<1>0. CallsAreNew
  BY DEF Inv
<1>1. PICK t : t = [turn EXCEPT !.index = IF MaxTurns > 0 THEN @ + 1 ELSE @]
  OBVIOUS
<1>2. PICK g : g = remove_read_only_pairs(history, kinds)
  OBVIOUS
<1>3. /\ pc = "loop" /\ UNCHANGED <<toolVars, kinds, pend, disk, torn, lost>>
      /\ \/ Goto("send", t) /\ UNCHANGED <<history, left>>
         \/ Disturb("compact") /\ history' = g /\ Goto("send", t)
         \/ /\ Disturb("compact") /\ history' = g
            /\ Goto("summarise", [t EXCEPT !.compact = find_compaction_boundary(g), !.then = "send"])
  BY <1>1, <1>2 DEF PrepareHistory, At
<1>4. left'.calls = left.calls
  BY <1>0, <1>3, DisturbPlain, LeftPlain
<1>5. /\ DOMAIN t = DOMAIN NewTurn /\ t.then = turn.then /\ t.compact = 0 /\ t.transient = turn.transient
      /\ t.reactive = turn.reactive /\ t.protocol = turn.protocol /\ t.output = turn.output
  BY <1>0, <1>1, <1>3, TurnFacts, LocalFacts DEF LocalsOK
<1>6. g \in Seq(Sound(Asked)) /\ \E p : Thins(g, history, ReadOnlyPairs(history, kinds), p)
  BY <1>2, RemovedType DEF Stored
<1>7. Closed(g, lost) /\ Follow(g, lost) /\ First(g, kinds \ lost)
  <2>1. PICK p : Thins(g, history, ReadOnlyPairs(history, kinds), p)
    BY <1>6
  <2>2. \A k \in ReadOnlyPairs(history, kinds) : history[k].ids \subseteq kinds
    BY DEF ReadOnlyPairs
  <2>3. Closed(history, lost) /\ Follow(history, lost) /\ First(history, kinds \ lost)
    BY <1>3 DEF Requests, Sending
  <2> QED BY <2>1, <2>2, <2>3, RemovedKeeps
<1>8. find_compaction_boundary(g) \in 0..Len(g)
  BY <1>6, BoundaryFacts
<1>9. history' \in Seq(Sound(Asked)) /\ pc' \in Sending /\ pc \in Sending
  BY <1>3, <1>6 DEF Stored, Sending, Goto
<1>10. LocalsOK'
  <2>1. CASE turn' = t
    <3>1. Len(history') \in Nat
      BY <1>9
    <3> QED BY <1>5, <2>1, <3>1 DEF LocalsOK
  <2>2. CASE history' = g /\ pc' = "summarise" /\ turn' = [t EXCEPT !.compact = find_compaction_boundary(g), !.then = "send"]
    <3>1. /\ turn'.then = "send" /\ turn'.compact = find_compaction_boundary(g) /\ turn'.transient = turn.transient
          /\ turn'.reactive = turn.reactive /\ turn'.protocol = turn.protocol /\ turn'.output = turn.output
      BY <1>5, <2>2, TurnFacts
    <3> QED BY <1>8, <2>2, <3>1 DEF LocalsOK
  <2> QED BY <1>3, <2>1, <2>2 DEF Goto
<1> QED BY <1>3, <1>4, <1>7, <1>9, <1>10, SendingKeeps

LEMMA SummarisedKeeps ==
  ASSUME Inv, RequestInv, Summarised PROVE RequestInv'
<1> USE DEF RequestInv
<1>0. CallsAreNew
  BY DEF Inv
<1>1. /\ pc = "summarise" /\ pc' = turn.then /\ turn' = Again
      /\ UNCHANGED <<toolVars, kinds, disk, torn, lost, left>> /\ (YieldSnapshot(history') \/ pend' = pend)
      /\ history' = IF turn.compact = 0 THEN history ELSE replace_with_compacted(history, turn.compact)
  BY DEF Summarised, At, Goto
<1>3. turn.compact # 0 => /\ history' \in Seq(Sound(Asked))
                          /\ Closed(history', lost) /\ Follow(history', lost) /\ First(history', kinds \ lost)
  <2> SUFFICES ASSUME turn.compact # 0
               PROVE  /\ history' \in Seq(Sound(Asked))
                      /\ Closed(history', lost) /\ Follow(history', lost) /\ First(history', kinds \ lost)
    OBVIOUS
  <2>1. turn.compact \in 1..Len(history) /\ history \in Seq(Sound(Asked))
    BY DEF LocalsOK, Stored
  <2>2. history' \in Seq(Sound(Asked)) /\ Compacts(history', history, turn.compact)
    BY <1>1, <2>1, CompactedType
  <2>3. Closed(history, lost) /\ Follow(history, lost) /\ First(history, kinds \ lost)
    BY <1>1 DEF Requests, Sending
  <2> QED BY <2>2, <2>3, CompactedKeeps
<1>4. history' \in Seq(Sound(Asked))
  BY <1>1, <1>3 DEF Stored
<1>5. LocalsOK'
  <2>1. Len(history') \in Nat
    BY <1>4
  <2> QED BY <1>0, <1>1, <2>1, LocalFacts DEF LocalsOK
<1>6. pc \in Sending /\ pc' \in Sending /\ left'.calls = left.calls
  BY <1>1 DEF Sending, LocalsOK
<1>7. history' = history \/ (Closed(history', lost) /\ Follow(history', lost) /\ First(history', kinds \ lost))
  BY <1>1, <1>3
<1> QED BY <1>1, <1>4, <1>5, <1>6, <1>7, SendingKeeps
-----------------------------------------------------------------------------
(* The provider's stream *)

\* A retry or a refusal: the loop starts again, or a summary is awaited.
LEMMA StreamErrorKeeps ==
  ASSUME Inv, RequestInv, StreamError PROVE RequestInv'
<1> USE DEF RequestInv
<1>0. CallsAreNew
  BY DEF Inv
<1>1. PICK t : t = [turn EXCEPT !.transient = @ + 1]
  OBVIOUS
<1>2. /\ pc = "send" /\ Disturb("retry") /\ UNCHANGED <<toolVars, history, kinds, pend, disk, torn, lost>>
      /\ EndTurn \/ (turn.transient < MaxTransient /\ pc' = "loop" /\ turn' = Rewound(t))
  BY <1>1 DEF StreamError, At, Goto
<1>3. left'.calls = left.calls
  BY <1>0, <1>2, DisturbPlain
<1>4. CASE EndTurn
  BY <1>2, <1>3, <1>4, EndTurnKeeps
<1>5. CASE turn.transient < MaxTransient /\ pc' = "loop" /\ turn' = Rewound(t)
  <2>1. /\ DOMAIN t = DOMAIN NewTurn /\ t.then = turn.then /\ t.compact = turn.compact
        /\ t.transient = turn.transient + 1
        /\ t.reactive = turn.reactive /\ t.protocol = turn.protocol /\ t.output = turn.output
    BY <1>0, <1>1, TurnFacts, LocalFacts
  <2>2. /\ turn'.then = turn.then /\ turn'.compact = turn.compact /\ turn'.transient = turn.transient + 1
        /\ turn'.reactive = turn.reactive /\ turn'.protocol = turn.protocol /\ turn'.output = turn.output
    BY <1>0, <1>5, <2>1, LocalFacts
  <2>3. LocalsOK'
    BY <1>2, <1>5, <2>2, TurnAssumption DEF LocalsOK
  <2>4. history' \in Seq(Sound(Asked)) /\ pc \in Sending /\ pc' \in Sending
    BY <1>2, <1>5 DEF Stored, Sending
  <2> QED BY <1>2, <1>3, <2>3, <2>4, SendingKeeps
<1> QED BY <1>2, <1>4, <1>5

LEMMA RefusedKeeps ==
  ASSUME Inv, RequestInv, Refused PROVE RequestInv'
<1> USE DEF RequestInv
<1>0. CallsAreNew
  BY DEF Inv
<1>1. PICK u : u = [turn EXCEPT !.reactive = @ + 1]
  OBVIOUS
<1>2. PICK t : t = Rewound(u)
  OBVIOUS
<1>3. /\ pc = "send" /\ Disturb("compact") /\ UNCHANGED <<toolVars, history, kinds, pend, disk, torn, lost>>
      /\ \/ EndTurn
         \/ /\ ~(turn.reactive >= MaxReactive)
            /\ \/ Goto("summarise", [t EXCEPT !.then = "loop", !.compact = find_compaction_boundary(history)])
               \/ Goto("loop", t)
  BY <1>1, <1>2 DEF Refused, At
<1>4. left'.calls = left.calls
  BY <1>0, <1>3, DisturbPlain
<1>5. CASE EndTurn
  BY <1>3, <1>4, <1>5, EndTurnKeeps
<1>6. CASE ~EndTurn
  <2>1. /\ DOMAIN u = DOMAIN NewTurn /\ u.then = turn.then /\ u.compact = turn.compact
        /\ u.transient = turn.transient /\ u.reactive = turn.reactive + 1
        /\ u.protocol = turn.protocol /\ u.output = turn.output
    BY <1>0, <1>1, TurnFacts, LocalFacts
  <2>2. /\ DOMAIN t = DOMAIN NewTurn /\ t.then = turn.then /\ t.compact = turn.compact
        /\ t.transient = turn.transient /\ t.reactive = turn.reactive + 1
        /\ t.protocol = turn.protocol /\ t.output = turn.output
    BY <1>0, <1>2, <2>1, LocalFacts
  <2>3. turn.reactive + 1 \in 0..MaxReactive
    BY <1>3, <1>6, TurnAssumption DEF LocalsOK
  <2>4. find_compaction_boundary(history) \in 0..Len(history)
    BY BoundaryFacts DEF Stored
  <2>5. LocalsOK'
    <3>1. CASE Goto("loop", t)
      BY <1>3, <2>2, <2>3, <3>1 DEF LocalsOK, Goto
    <3>2. CASE Goto("summarise", [t EXCEPT !.then = "loop", !.compact = find_compaction_boundary(history)])
      <4>1. /\ turn'.then = "loop" /\ turn'.compact = find_compaction_boundary(history)
            /\ turn'.transient = turn.transient /\ turn'.reactive = turn.reactive + 1
            /\ turn'.protocol = turn.protocol /\ turn'.output = turn.output /\ pc' = "summarise"
        BY <2>2, <3>2, TurnFacts DEF Goto
      <4> QED BY <1>3, <2>3, <2>4, <4>1 DEF LocalsOK
    <3> QED BY <1>3, <1>6, <3>1, <3>2
  <2>6. history' \in Seq(Sound(Asked)) /\ pc \in Sending /\ pc' \in Sending
    BY <1>3, <1>6 DEF Stored, Sending, Goto
  <2> QED BY <1>3, <1>4, <2>5, <2>6, SendingKeeps
<1> QED BY <1>5, <1>6

LEMMA HandleStopKeeps ==
  ASSUME Inv, RequestInv, HandleStop PROVE RequestInv'
<1> USE DEF RequestInv
<1>0. CallsAreNew
  BY DEF Inv
<1>1. /\ pc = "stop" /\ UNCHANGED <<toolVars, kinds, pend, disk, torn, lost, left>>
      /\ \/ EndTurn /\ UNCHANGED history
         \/ /\ turn.output < MaxOutput /\ history' = pop_last_assistant(history)
            /\ pc' = "loop" /\ turn' = [Again EXCEPT !.output = @ + 1]
  BY DEF HandleStop, At, Goto
<1>2. CASE EndTurn /\ UNCHANGED history
  BY <1>1, <1>2, EndTurnKeeps
<1>3. CASE ~(EndTurn /\ UNCHANGED history)
  <2>1. history' \in Seq(Sound(Asked)) /\ Len(history') \in Nat
    <3>1. history' \in Seq(Sound(Asked))
      BY <1>1, <1>3, PopType DEF Stored
    <3> QED BY <3>1
  <2>2. Closed(history', lost) /\ Follow(history', lost) /\ First(history', kinds \ lost)
    <3>1. Closed(history, lost) /\ Follow(history, lost) /\ First(history, kinds \ lost)
      BY <1>1 DEF Requests, Sending
    <3>2. history \in Seq(Messages(Asked))
      BY <1>0, StoredFacts
    <3> QED BY <1>1, <1>3, <3>1, <3>2, PoppedKeeps
  <2>3. LocalsOK'
    <3>1. /\ turn'.then = turn.then /\ turn'.compact = 0 /\ turn'.transient = turn.transient
          /\ turn'.reactive = turn.reactive /\ turn'.protocol = turn.protocol /\ turn'.output = turn.output + 1
      BY <1>0, <1>1, <1>3, TurnFacts, LocalFacts
    <3>2. turn.output + 1 \in 0..MaxOutput
      BY <1>1, <1>3, TurnAssumption DEF LocalsOK
    <3> QED BY <1>1, <1>3, <2>1, <3>1, <3>2 DEF LocalsOK
  <2>4. pc \in Sending /\ pc' \in Sending
    BY <1>1, <1>3 DEF Sending
  <2> QED BY <1>1, <2>1, <2>2, <2>3, <2>4, SendingKeeps
<1> QED BY <1>2, <1>3

LEMMA StreamTextKeeps ==
  ASSUME Inv, RequestInv, StreamText PROVE RequestInv'
<1> USE DEF RequestInv
<1>0. CallsAreNew
  BY DEF Inv
<1>1. PICK limit \in BOOLEAN, empty \in BOOLEAN :
        /\ IF limit \/ empty THEN Disturb("retry") ELSE UNCHANGED left
        /\ Goto("stop", [Again EXCEPT !.limit = limit])
        /\ IF empty THEN UNCHANGED <<history, pend>>
           ELSE history' = Append(history, Assistant({})) /\ YieldAppend(Assistant({}))
  BY DEF StreamText
<1>2. pc = "send" /\ pc' = "stop" /\ UNCHANGED <<toolVars, kinds, disk, torn, lost>>
  BY <1>1 DEF StreamText, At, Goto
<1>3. left'.calls = left.calls
  BY <1>0, <1>1, DisturbPlain
<1>4. LocalsOK' /\ Stored' /\ Requests'
  <2>1. /\ turn'.then = turn.then /\ turn'.compact = 0 /\ turn'.transient = turn.transient
        /\ turn'.reactive = turn.reactive /\ turn'.protocol = turn.protocol /\ turn'.output = turn.output
    BY <1>0, <1>1, TurnFacts, LocalFacts DEF Goto
  <2>2. pc \in Sending /\ pc' \in Sending /\ pc' \in Pcs /\ history \in Seq(Sound(Asked)) /\ Len(history) \in Nat
        /\ kinds' \subseteq Calls /\ lost' \subseteq Calls
    BY <1>2 DEF Sending, Pcs, Stored
  <2>3. CASE UNCHANGED <<history, pend>>
    <3>1. Stored'
      BY <1>2, <1>3, <2>2, <2>3, SnapStored
    <3>2. Requests'
      BY <1>2, <2>2, <2>3, QuietRequests
    <3>3. LocalsOK'
      BY <1>2, <2>1, <2>2, <2>3, SameLocals
    <3> QED BY <3>1, <3>2, <3>3
  <2>4. CASE history' = Append(history, Assistant({})) /\ YieldAppend(Assistant({}))
    <3>1. PICK m : m = Assistant({})
      OBVIOUS
    <3>2. m \in Sound(Asked) /\ ~IsResult(m) /\ Uses(m) = {}
      BY <3>1, MessageFacts, RoleFacts DEF IsResult, Uses
    <3>3. Stored'
      BY <1>2, <1>3, <2>2, <2>4, <3>1, <3>2, AppendStored
    <3>4. Grown(history', history, m)
      BY <2>2, <2>4, <3>1, <3>2, AppendGrown
    <3>5. Closed(history, lost) /\ Follow(history, lost) /\ First(history, kinds \ lost)
      BY <1>2 DEF Requests, Sending
    <3>6. Closed(history', lost) /\ Follow(history', lost) /\ First(history', kinds \ lost)
      BY <3>2, <3>4, <3>5, GrownClosed, GrownFollow
    <3>7. Requests'
      BY <1>2, <2>2, <3>6, SendingRequests
    <3>8. LocalsOK'
      <4>1. Len(history') \in Nat
        BY <3>4 DEF Grown
      <4> QED BY <1>2, <2>1, <2>2, <4>1, SameLocals
    <3> QED BY <3>3, <3>7, <3>8
  <2> QED BY <1>1, <2>3, <2>4
<1>5. RoundIsOpen'
  BY <1>2, NoRoundOpen DEF toolVars
<1> QED BY <1>4, <1>5

\* New calls are asked for: they are in no message yet.
LEMMA StreamCallsOpens ==
  ASSUME Inv, RequestInv, StreamCalls PROVE RequestInv'
<1> USE DEF RequestInv
<1>0. CallsAreNew
  BY DEF Inv
<1>1. PICK n \in 1..2 :
        /\ n <= left.calls /\ left' = [left EXCEPT !.calls = @ - n]
        /\ LET calls == [i \in 1..n |-> Fresh + i]
               m == Assistant({calls[i] : i \in 1..n})
           IN history' = Append(history, m) /\ YieldAppend(m) /\ Goto("round", [Again EXCEPT !.calls = calls])
  BY DEF StreamCalls
<1>2. PICK calls : calls = [i \in 1..n |-> Fresh + i]
  OBVIOUS
<1>3. PICK ids : ids = {calls[i] : i \in 1..n}
  OBVIOUS
<1>4. PICK m : m = Assistant(ids)
  OBVIOUS
<1>5. /\ history' = Append(history, m) /\ YieldAppend(m) /\ pc' = "round" /\ turn' = [Again EXCEPT !.calls = calls]
      /\ pc = "send" /\ UNCHANGED <<toolVars, kinds, disk, torn, lost>>
  <2>1. m = Assistant({[k \in 1..n |-> Fresh + k][i] : i \in 1..n})
    BY <1>2, <1>3, <1>4
  <2>2. history' = Append(history, m) /\ YieldAppend(m)
    BY <1>1, <2>1
  <2>3. pc' = "round" /\ turn' = [Again EXCEPT !.calls = calls]
    BY <1>1, <1>2 DEF Goto
  <2>4. pc = "send" /\ UNCHANGED <<toolVars, kinds, disk, torn, lost>>
    BY DEF StreamCalls, At
  <2> QED BY <2>2, <2>3, <2>4
<1>6. Fresh \in 0..MaxCalls /\ left.calls \in 0..MaxCalls /\ MaxCalls \in Nat /\ Fresh' = Fresh + n
  <2>1. left.calls \in 0..MaxCalls /\ MaxCalls \in Nat /\ "calls" \in DOMAIN left
    BY <1>0, TurnAssumption DEF CallsAreNew
  <2> QED BY <1>1, <2>1 DEF Fresh
<1>7. \A i \in 1..n : calls[i] = Fresh + i /\ calls[i] \in Asked' /\ calls[i] \notin Asked
  BY <1>2, <1>6 DEF Asked
<1>8. Asked \subseteq Asked' /\ ids \subseteq Asked' /\ ids \cap Asked = {}
  <2>1. Asked \subseteq Asked'
    BY <1>6 DEF Asked
  <2> QED BY <1>3, <1>7, <2>1
<1>9. m \in Sound(Asked') /\ IsAssistant(m) /\ ~IsResult(m) /\ m.ids = ids
  BY <1>4, <1>8, MessageFacts, RoleFacts DEF IsAssistant, IsResult
<1>10. Sound(Asked) \subseteq Sound(Asked')
  BY <1>8 DEF Sound, Messages
<1>11. Seq(Sound(Asked)) \subseteq Seq(Sound(Asked'))
  BY <1>10, SeqMonotonic
<1>12. history' \in Seq(Sound(Asked')) /\ Grown(history', history, m)
  <2>1. history \in Seq(Sound(Asked'))
    BY <1>11 DEF Stored
  <2> QED BY <1>5, <1>9, <2>1, AppendGrown
<1>13. Stored'
  <2>1. Entries(Asked) \subseteq Entries(Asked')
    BY <1>11 DEF Entries
  <2>2. pend \in Seq(Entries(Asked'))
    BY <2>1, SeqMonotonic DEF Stored
  <2>3. PICK e : e = Entry("turn", FALSE, <<m>>)
    OBVIOUS
  <2>4. e \in Entries(Asked') /\ e.msgs # <<>> /\ pend' = Append(pend, e)
    <3>1. e = [by |-> "turn", snap |-> FALSE, msgs |-> <<m>>] /\ <<m>> \in Seq(Sound(Asked')) /\ <<m>> # <<>>
      BY <1>9, <2>3 DEF Entry
    <3>2. e \in Entries(Asked')
      BY <3>1 DEF Entries
    <3>3. e.msgs = <<m>>
      BY <3>1
    <3> QED BY <1>5, <2>3, <3>1, <3>2, <3>3 DEF YieldAppend
  <2>5. pend' \in Seq(Entries(Asked')) /\ \A i \in 1..Len(pend') : ~pend'[i].snap => pend'[i].msgs # <<>>
    <3>1. \A i \in 1..Len(pend) : ~pend[i].snap => pend[i].msgs # <<>>
      BY DEF Stored
    <3> QED BY <2>2, <2>4, <3>1
  <2>6. disk' \in Seq(Sound(Asked')) /\ kinds' \subseteq Calls /\ lost' \subseteq Calls /\ torn' \in BOOLEAN /\ pc' \in Pcs
    BY <1>5, <1>11 DEF Stored, Pcs
  <2> QED BY <1>12, <2>5, <2>6 DEF Stored
<1>14. LocalsOK'
  <2>1. /\ turn'.then = turn.then /\ turn'.compact = 0 /\ turn'.transient = turn.transient
        /\ turn'.reactive = turn.reactive /\ turn'.protocol = turn.protocol /\ turn'.output = turn.output
    BY <1>0, <1>5, TurnFacts, LocalFacts
  <2>2. Len(history') \in Nat /\ Len(history) \in Nat
    BY <1>12 DEF Grown
  <2> QED BY <1>5, <2>1, <2>2, SameLocals
<1>15. Closed(history, lost) /\ Follow(history, lost) /\ First(history, kinds \ lost)
  BY <1>5 DEF Requests, Sending
<1>16. \A i \in 1..Len(history) : history[i].ids \cap m.ids = {}
  BY <1>0, <1>8, <1>9, StoredFacts
<1>17. /\ Settled(history', Calls \ lost) /\ Settled(history', kinds \ lost)
       /\ Open(history', Len(history'), ids) /\ Follow(history', lost) /\ First(history', kinds \ lost)
  <2>1. Settled(history', Calls \ lost) /\ Settled(history', kinds \ lost) /\ Open(history', Len(history'), ids)
    BY <1>9, <1>12, <1>15, <1>16, GrownUses
  <2> QED BY <1>9, <1>12, <1>15, <2>1, GrownFollow
<1>18. RoundIsOpen'
  <2>1. turn'.calls = calls /\ DOMAIN calls = 1..n /\ calls # <<>>
    BY <1>0, <1>1, <1>2, <1>5, TurnFacts, LocalFacts
  <2>2. {turn'.calls[i] : i \in DOMAIN turn'.calls} = ids
    BY <1>3, <2>1
  <2>3. ~((queue # <<>> /\ ~held)')
    BY <1>5 DEF RoundIsOpen, toolVars
  <2> QED BY <1>5, <1>17, <2>1, <2>2, <2>3 DEF RoundIsOpen
<1>19. Requests'
  BY <1>5, <1>17 DEF Requests, Sending
<1> QED BY <1>13, <1>14, <1>18, <1>19
-----------------------------------------------------------------------------
(* Tool rounds and the history *)

\* More calls get a recorded kind, all of the round under way.
LEMMA OpenMore ==
  ASSUME NEW h, NEW a, NEW ids, Open(h, a, ids), NEW D, First(h, D), Settled(h, D), NEW E, E \subseteq D \cup ids
  PROVE  First(h, E) /\ Settled(h, E)
<1>1. /\ a \in 1..Len(h) /\ IsAssistant(h[a]) /\ \A j \in (a + 1)..Len(h) : h[j].role = "context"
      /\ \A i \in 1..Len(h) \ {a} : h[i].ids \cap ids = {}
  BY DEF Open
<1>2. First(h, E)
  <2> SUFFICES ASSUME NEW i \in 1..Len(h), IsResult(h[i]), h[i].ids \cap E # {}
               PROVE  \/ \E b \in 1..(i - 1) : Own(h, i, b) /\ \A j \in (b + 1)..(i - 1) : h[j].role = "context"
                      \/ AtHead(h, i)
    BY DEF First
  <2>1. i # a
    BY <1>1 DEF IsAssistant, IsResult
  <2>2. h[i].ids \cap D # {}
    BY <1>1, <2>1
  <2> QED BY <2>2 DEF First
<1>3. Settled(h, E)
  <2> SUFFICES ASSUME NEW b \in 1..Len(h), IsAssistant(h[b]), NEW c \in h[b].ids \cap E
               PROVE  Answered(h, b, c) \/ \A j \in (b + 1)..Len(h) : h[j].role = "context"
    BY DEF Settled
  <2>1. b # a => c \in D
    BY <1>1
  <2> QED BY <1>1, <2>1 DEF Settled
<1> QED BY <1>2, <1>3

LEMMA StartRoundKeeps ==
  ASSUME Inv, RequestInv, StartRound PROVE RequestInv'
<1> USE DEF RequestInv
<1>0. CallsAreNew
  BY DEF Inv
<1>1. /\ pc = "round" /\ pc' = "tools" /\ turn' = Again /\ queue' = turn.calls /\ held' = FALSE
      /\ UNCHANGED <<history, kinds, pend, disk, torn, lost, left>>
  BY DEF StartRound, At, Goto, BeginRound
<1>2. Stored'
  BY <1>1, StoredStep DEF Stored, Pcs
<1>3. LocalsOK'
  <2>1. Len(history) \in Nat
    BY DEF Stored
  <2> QED BY <1>0, <1>1, <2>1, SameLocals, LocalFacts
<1>4. RoundIsOpen'
  <2>1. turn.calls # <<>> /\ (\E a : Open(history, a, {turn.calls[i] : i \in DOMAIN turn.calls}))
        /\ Settled(history, Calls \ lost)
    BY <1>1 DEF RoundIsOpen
  <2>2. Round' = {turn.calls[i] : i \in DOMAIN turn.calls}
    BY <1>1 DEF Round
  <2> QED BY <1>1, <2>1, <2>2 DEF RoundIsOpen
<1>5. Requests'
  BY <1>1 DEF Requests, Sending
<1> QED BY <1>2, <1>3, <1>4, <1>5

LEMMA AppendResultsKeeps ==
  ASSUME Inv, RequestInv, AppendResults PROVE RequestInv'
<1> USE DEF RequestInv
<1>0. CallsAreNew /\ ToolTypeOK
  BY DEF Inv, ToolInv
<1>1. PICK ids : ids = {c \in Round : st[c] # "lost"}
  OBVIOUS
<1>2. PICK gone : gone = {c \in Round : st[c] = "lost"}
  OBVIOUS
<1>3. /\ pc = "tools" /\ pc' = "loop" /\ turn' = Again /\ lost' = lost \cup gone /\ UNCHANGED <<kinds, disk, torn, left>>
      /\ history' = append_tool_results(history, ids) /\ queue' = <<>>
      /\ IF ids = {} THEN UNCHANGED pend ELSE YieldAppend(Results(ids))
  BY <1>1, <1>2 DEF AppendResults, At, Goto, CloseRound
<1>4. PICK a : Open(history, a, Round)
  BY <1>3 DEF RoundIsOpen
<1>5. /\ history \in Seq(Messages(Asked)) /\ Len(history) \in Nat /\ Asked \subseteq Calls
      /\ \A i \in 1..Len(history) : history[i].ids \subseteq Asked /\ history[i].ids \subseteq Calls
  BY <1>0, StoredFacts, AskedFacts
<1>6. /\ a \in 1..Len(history) /\ IsAssistant(history[a]) /\ history[a].ids = Round
      /\ \A j \in (a + 1)..Len(history) : history[j].role = "context"
  BY <1>4 DEF Open
<1>7. ids \subseteq Asked /\ ids \subseteq Round /\ Round \ ids \subseteq gone /\ gone \subseteq Calls
  BY <1>1, <1>2, <1>5, <1>6
<1>8. Settled(history, Calls \ lost) /\ Follow(history, lost) /\ First(history, kinds \ lost)
  BY <1>3 DEF RoundIsOpen, Requests
<1>9. lost \subseteq lost' /\ Round \ ids \subseteq lost' /\ lost' \subseteq Calls
  BY <1>3, <1>7 DEF Stored
<1>10. Follow(history, lost') /\ First(history, kinds \ lost')
  <2>1. kinds \ lost' \subseteq kinds \ lost
    BY <1>9
  <2> QED BY <1>8, <1>9, <2>1, RequestMonotone
<1>11. Stored' /\ Closed(history', lost') /\ Follow(history', lost') /\ First(history', kinds \ lost') /\ Len(history') \in Nat
  <2>1. CASE ids = {}
    <3>1. history' = history /\ pend' = pend
      BY <1>3, <2>1 DEF append_tool_results
    <3>2. Stored'
      BY <1>3, <1>9, <3>1, StoredStep DEF Stored, Pcs
    <3>3. Round \subseteq lost'
      BY <1>9, <2>1
    <3>4. Closed(history, lost')
      BY <1>4, <1>5, <1>8, <1>9, <3>3, NoResults
    <3> QED BY <1>5, <1>10, <3>1, <3>2, <3>4
  <2>2. CASE ids # {}
    <3>1. PICK m : m = Results(ids)
      OBVIOUS
    <3>2. m \in Sound(Asked) /\ IsResult(m) /\ m.ids = ids /\ Uses(m) = {}
      BY <1>7, <2>2, <3>1, MessageFacts, RoleFacts DEF IsResult, Uses, IsAssistant
    <3>3. history' = Append(history, m) /\ YieldAppend(m)
      BY <1>3, <2>2, <3>1 DEF append_tool_results
    <3>4. Stored'
      BY <1>3, <1>9, <3>2, <3>3, AppendStored DEF Stored, Pcs
    <3>5. Grown(history', history, m)
      BY <3>2, <3>3, AppendGrown DEF Stored
    <3>6. Closed(history', lost')
      <4>1. Round \ m.ids \subseteq lost'
        BY <1>9, <3>2
      <4> QED BY <1>4, <1>5, <1>8, <1>9, <3>2, <3>5, <4>1, GrownResults
    <3>7. Follow(history', lost') /\ First(history', kinds \ lost')
      <4>1. m.ids \subseteq history[a].ids
        BY <1>6, <1>7, <3>2
      <4> QED BY <1>6, <1>10, <3>5, <4>1, GrownFollow
    <3>8. Len(history') \in Nat
      BY <3>5 DEF Grown
    <3> QED BY <3>4, <3>6, <3>7, <3>8
  <2> QED BY <2>1, <2>2
<1>12. LocalsOK'
  BY <1>0, <1>3, <1>5, <1>11, SameLocals, LocalFacts
<1>13. RoundIsOpen'
  BY <1>3 DEF RoundIsOpen
<1>14. Requests'
  <2>1. Settled(history', kinds \ lost')
    BY <1>11, ClosedSettled
  <2> QED BY <1>3, <1>11, <2>1 DEF Requests
<1> QED BY <1>11, <1>12, <1>13, <1>14

LEMMA RunToolsKeeps ==
  ASSUME Inv, RequestInv, RunTools PROVE RequestInv'
<1> USE DEF RequestInv
<1>1. PICK new : new = {c \in Calls : st[c] = "allowed" /\ st'[c] = "running" /\ tool[c] \in ReadOnlyKind /\ ~held}
  OBVIOUS
<1>2. kinds' = kinds \cup new /\ UNCHANGED <<history, pc, turn, pend, disk, torn, lost, left>>
  BY <1>1 DEF RunTools
<1>3. UNCHANGED <<queue, held>>
  BY DEF RunTools, ToolStep, StartBatch, _authorize, AskUser, PreToolUse, ToolEnds
<1>4. Stored'
  <2>1. kinds' \subseteq Calls
    BY <1>1, <1>2 DEF Stored
  <2> QED BY <1>2, <2>1, StoredStep DEF Stored
<1>5. LocalsOK'
  BY <1>2 DEF LocalsOK
<1>6. RoundIsOpen'
  BY <1>2, <1>3 DEF RoundIsOpen, Round
<1>7. First(history, kinds' \ lost) /\ Settled(history, kinds' \ lost)
  <2>1. CASE new = {}
    BY <1>2, <2>1 DEF Requests
  <2>2. ASSUME NEW c \in new PROVE First(history, kinds' \ lost) /\ Settled(history, kinds' \ lost)
    <3>1. new \subseteq Round /\ queue # <<>> /\ ~held
      <4>1. \A d \in new : \E i \in 1..Len(queue) : queue[i] = d
        BY <1>1 DEF Inv, ToolInv, StagesOK
      <4>2. DOMAIN queue = 1..Len(queue) /\ queue \in Seq(Calls)
        BY QueueFacts DEF Inv, ToolInv, ToolTypeOK
      <4>3. queue # <<>>
        BY <4>1, <4>2
      <4> QED BY <1>1, <4>1, <4>2, <4>3 DEF Round
    <3>2. PICK a : Open(history, a, Round)
      BY <3>1 DEF RoundIsOpen
    <3>3. kinds' \ lost \subseteq (kinds \ lost) \cup Round
      BY <1>2, <3>1
    <3>4. First(history, kinds \ lost) /\ Settled(history, kinds \ lost)
      BY DEF Requests
    <3> QED BY <3>2, <3>3, <3>4, OpenMore
  <2> QED BY <2>1, <2>2
<1>8. Requests'
  BY <1>2, <1>7 DEF Requests
<1> QED BY <1>4, <1>5, <1>6, <1>8

\* A step of which history and loop see nothing.
LEMMA UnseenKeeps ==
  ASSUME RequestInv, UNCHANGED <<history, kinds, pc, turn, pend, disk, torn, lost, queue, held>>, left'.calls = left.calls
  PROVE  RequestInv'
<1> USE DEF RequestInv
<1>1. Stored'
  BY StoredStep DEF Stored
<1>2. LocalsOK'
  BY DEF LocalsOK
<1>3. RoundIsOpen'
  BY DEF RoundIsOpen, Round
<1>4. Requests'
  BY DEF Requests
<1> QED BY <1>1, <1>2, <1>3, <1>4

LEMMA OutsideKeeps ==
  ASSUME Inv, RequestInv, ClientActs \/ ToolFaults PROVE RequestInv'
<1>0. CallsAreNew
  BY DEF Inv
<1>1. CASE ClientActs
  <2>1. UNCHANGED <<queue, held>>
    BY <1>1 DEF ClientActs, ClientStep, Connect, Answer
  <2> QED BY <1>1, <2>1, UnseenKeeps DEF ClientActs, turnVars
<1>2. CASE ToolFaults
  <2>1. UNCHANGED <<queue, held>>
    BY <1>2 DEF ToolFaults, ToolFault, Disconnect, PipelineError, SetMode, ToolSetsMode
  <2>2. left'.calls = left.calls
    BY <1>0, <1>2 DEF ToolFaults, CallsAreNew
  <2> QED BY <1>2, <2>1, <2>2, UnseenKeeps DEF ToolFaults
<1> QED BY <1>1, <1>2

LEMMA CollectKeeps ==
  ASSUME Inv, RequestInv, Collect PROVE RequestInv'
<1> USE DEF RequestInv
<1>1. /\ held /\ queue' = <<>> /\ UNCHANGED <<history, kinds, pc, turn, pend, disk, torn, lost, left>>
  BY DEF Collect, CloseRound, turnVars
<1>2. Stored'
  BY <1>1, StoredStep DEF Stored
<1>3. LocalsOK' /\ Requests'
  BY <1>1 DEF LocalsOK, Requests
<1>4. RoundIsOpen'
  BY <1>1 DEF RoundIsOpen
<1> QED BY <1>2, <1>3, <1>4

\* A turn begins, or ends before it has.
LEMMA BeginTurnKeeps ==
  ASSUME Inv, RequestInv, BeginTurn PROVE RequestInv'
<1> USE DEF RequestInv
<1>0. CallsAreNew
  BY DEF Inv
<1>1. /\ pc = "idle" /\ pc' = "setup" /\ turn' = NewTurn
      /\ UNCHANGED <<queue, held, history, kinds, pend, disk, torn, lost>>
  BY DEF BeginTurn, At, Goto
<1>2. left'.calls = left.calls
  BY <1>0 DEF BeginTurn, CallsAreNew
<1>3. Stored'
  BY <1>1, <1>2, StoredStep DEF Stored, Pcs
<1>4. Len(history') \in Nat
  BY <1>1 DEF Stored
<1>5. LocalsOK'
  BY <1>1, <1>4, NewLocals
<1>6. RoundIsOpen'
  BY <1>1, NoRoundOpen
<1>7. Requests'
  BY <1>1, QuietRequests
<1> QED BY <1>3, <1>5, <1>6, <1>7

LEMMA EndsKeep ==
  ASSUME Inv, RequestInv, Blocked \/ StopAtMaxTurns PROVE RequestInv'
<1>1. CallsAreNew
  BY DEF Inv
<1>2. left'.calls = left.calls
  BY <1>1, DisturbPlain DEF Blocked, StopAtMaxTurns
<1>3. EndTurn /\ pc # "tools" /\ UNCHANGED <<toolVars, history, kinds, pend, disk, torn, lost>>
  BY DEF Blocked, StopAtMaxTurns, At
<1> QED BY <1>2, <1>3, EndTurnKeeps
-----------------------------------------------------------------------------
(* Cancellation, user executions, crashes and the log *)

LEMMA CancelInQueryKeeps ==
  ASSUME Inv, RequestInv, CancelInQuery PROVE RequestInv'
<1> USE DEF RequestInv
<1>0. CallsAreNew
  BY DEF Inv
<1>1. PICK ids : ids = pending_tool_use_ids(history)
  OBVIOUS
<1>2. /\ Disturb("cancel") /\ pc' = "idle" /\ turn' = NewTurn /\ UNCHANGED <<kinds, disk, torn, lost>>
      /\ history' = append_interrupted_tool_results(history)
      /\ IF ids = {} THEN UNCHANGED pend ELSE YieldAppend(Results(ids))
      /\ IF pc = "tools" THEN CloseRound ELSE UNCHANGED toolVars
  BY <1>1 DEF CancelInQuery, EndTurn, Goto
<1>3. left'.calls = left.calls
  BY <1>0, <1>2, DisturbPlain
<1>4. history \in Seq(Messages(Asked)) /\ history \in Seq(Sound(Asked))
  BY <1>0, StoredFacts DEF Stored
<1>5. ids \in SUBSET Asked
  BY <1>1, <1>4, PendingType
<1>6. Stored' /\ Len(history') \in Nat
  <2>1. history' = append_tool_results(history, ids)
    BY <1>1, <1>2 DEF append_interrupted_tool_results
  <2>2. history' \in Seq(Sound(Asked))
    BY <1>4, <1>5, <2>1, AppendResultsFacts
  <2>3. CASE ids = {}
    <3>1. Stored'
      BY <1>2, <1>3, <2>2, <2>3, StoredStep DEF Stored, Pcs
    <3> QED BY <2>2, <3>1
  <2>4. CASE ids # {}
    <3>1. Results(ids) \in Sound(Asked)
      BY <1>5, <2>4, MessageFacts
    <3>2. history' = Append(history, Results(ids)) /\ YieldAppend(Results(ids))
      BY <1>2, <2>1, <2>4 DEF append_tool_results
    <3>3. Stored'
      BY <1>2, <1>3, <3>1, <3>2, AppendStored DEF Stored, Pcs
    <3> QED BY <2>2, <3>3
  <2> QED BY <2>3, <2>4
<1>7. LocalsOK'
  BY <1>2, <1>6, NewLocals
<1>8. RoundIsOpen'
  <2>1. ~((queue # <<>> /\ ~held)')
    BY <1>2 DEF RoundIsOpen, CloseRound, toolVars
  <2> QED BY <1>2, <2>1 DEF RoundIsOpen
<1>9. Requests'
  <2>1. First(history', kinds \ lost) /\ Settled(history', kinds \ lost)
    BY <1>2, <1>4, SealedKeeps DEF Requests
  <2> QED BY <1>2, <2>1 DEF Requests, Sending
<1> QED BY <1>6, <1>7, <1>8, <1>9

LEMMA CancelInConsumerKeeps ==
  ASSUME Inv, RequestInv, CancelInConsumer PROVE RequestInv'
<1> USE DEF RequestInv
<1>0. CallsAreNew
  BY DEF Inv
<1>1. /\ Disturb("cancel") /\ pc' = "idle" /\ turn' = NewTurn /\ UNCHANGED <<queue, history, kinds, disk, torn, lost>>
      /\ held' = (pc = "tools" \/ held)
      /\ pend' = [i \in DOMAIN pend |-> IF pend[i].by = "turn" THEN [pend[i] EXCEPT !.by = "cut"] ELSE pend[i]]
  BY DEF CancelInConsumer, EndTurn, Goto
<1>2. Asked' = Asked
  BY <1>0, <1>1, DisturbPlain DEF Asked, Fresh
<1>3. /\ DOMAIN pend = 1..Len(pend) /\ Len(pend) \in Nat
      /\ \A i \in 1..Len(pend) : pend[i] \in Entries(Asked) /\ (~pend[i].snap => pend[i].msgs # <<>>)
  BY DEF Stored
<1>4. \A i \in 1..Len(pend) : pend'[i] \in Entries(Asked) /\ (~pend'[i].snap => pend'[i].msgs # <<>>)
  <2> SUFFICES ASSUME NEW i \in 1..Len(pend)
               PROVE  pend'[i] \in Entries(Asked) /\ (~pend'[i].snap => pend'[i].msgs # <<>>)
    OBVIOUS
  <2>1. PICK e : e = pend[i]
    OBVIOUS
  <2>2. e \in Entries(Asked) /\ (~e.snap => e.msgs # <<>>)
    BY <1>3, <2>1
  <2>3. pend'[i] = e \/ pend'[i] = [e EXCEPT !.by = "cut"]
    BY <1>1, <1>3, <2>1
  <2>4. /\ [e EXCEPT !.by = "cut"] \in Entries(Asked) /\ [e EXCEPT !.by = "cut"].snap = e.snap
        /\ [e EXCEPT !.by = "cut"].msgs = e.msgs
    BY <2>2 DEF Entries
  <2> QED BY <2>2, <2>3, <2>4
<1>5. pend' \in Seq(Entries(Asked)) /\ Len(pend') = Len(pend)
  BY <1>1, <1>3, <1>4
<1>6. Stored'
  BY <1>1, <1>2, <1>4, <1>5 DEF Stored, Pcs
<1>7. Len(history') \in Nat
  BY <1>1 DEF Stored
<1>8. LocalsOK'
  BY <1>1, <1>7, NewLocals
<1>9. RoundIsOpen'
  BY <1>1 DEF RoundIsOpen
<1>10. Requests'
  BY <1>1, QuietRequests
<1> QED BY <1>6, <1>8, <1>9, <1>10

LEMMA UserContextKeeps ==
  ASSUME Inv, RequestInv, UserContext PROVE RequestInv'
<1> USE DEF RequestInv
<1>0. CallsAreNew
  BY DEF Inv
<1>1. /\ Disturb("context") /\ history' = Append(history, Context)
      /\ pend' = Append(pend, Entry("user", FALSE, <<Context>>))
      /\ UNCHANGED <<toolVars, kinds, pc, turn, disk, torn, lost>>
  BY DEF UserContext
<1>2. left'.calls = left.calls
  BY <1>0, <1>1, DisturbPlain
<1>3. Context \in Sound(Asked) /\ Context.role = "context" /\ Context.ids = {} /\ ~IsResult(Context) /\ Uses(Context) = {}
  BY MessageFacts, RoleFacts DEF IsResult, Uses, IsAssistant
<1>4. Grown(history', history, Context) /\ history' \in Seq(Sound(Asked))
  BY <1>1, <1>3, AppendGrown DEF Stored
<1>5. Stored'
  <2>1. PICK e : e = Entry("user", FALSE, <<Context>>)
    OBVIOUS
  <2>2. e = [by |-> "user", snap |-> FALSE, msgs |-> <<Context>>] /\ <<Context>> \in Seq(Sound(Asked)) /\ <<Context>> # <<>>
    BY <1>3, <2>1 DEF Entry
  <2>3. e \in Entries(Asked)
    BY <2>2 DEF Entries
  <2>4. e.msgs = <<Context>>
    BY <2>2
  <2> QED BY <1>1, <1>2, <1>4, <2>1, <2>2, <2>3, <2>4, StoredStep DEF Stored
<1>6. LocalsOK'
  <2>1. Len(history) \in Nat /\ Len(history') = Len(history) + 1
    BY <1>4 DEF Grown
  <2> QED BY <1>1, <2>1 DEF LocalsOK
<1>7. RoundIsOpen'
  <2>1. Round' = Round /\ queue' = queue /\ held' = held
    BY <1>1 DEF Round, toolVars
  <2>2. \A ids : (\E a : Open(history, a, ids)) => \E a : Open(history', a, ids)
    BY <1>3, <1>4, GrownContext
  <2>3. Settled(history, Calls \ lost) => Settled(history', Calls \ lost)
    BY <1>3, <1>4, GrownContext
  <2> QED BY <1>1, <2>1, <2>2, <2>3 DEF RoundIsOpen
<1>8. Requests'
  <2>1. Closed(history, lost) => Closed(history', lost)
    BY <1>3, <1>4, GrownClosed
  <2>2. Follow(history, lost) => Follow(history', lost)
    BY <1>3, <1>4, GrownFollow
  <2>3. First(history, kinds \ lost) => First(history', kinds \ lost)
    BY <1>3, <1>4, GrownFollow
  <2>4. Settled(history, kinds \ lost) => Settled(history', kinds \ lost)
    BY <1>3, <1>4, GrownContext
  <2> QED BY <1>1, <2>1, <2>2, <2>3, <2>4 DEF Requests
<1> QED BY <1>5, <1>6, <1>7, <1>8

\* With no recorded kinds nothing is asked of the history.
LEMMA CrashKeeps ==
  ASSUME Inv, RequestInv, Crash PROVE RequestInv'
<1> USE DEF RequestInv
<1>0. CallsAreNew
  BY DEF Inv
<1>1. /\ Disturb("crash") /\ history' = disk /\ kinds' = {} /\ pend' = <<>> /\ torn' = FALSE
      /\ pc' = "idle" /\ turn' = NewTurn /\ queue' = <<>> /\ UNCHANGED <<disk, lost>>
  BY DEF Crash, EndTurn, Goto
<1>2. Asked' = Asked
  BY <1>0, <1>1, DisturbPlain DEF Asked, Fresh
<1>3. <<>> \in Seq(Entries(Asked)) /\ Len(<<>>) = 0
  OBVIOUS
<1>4. Stored'
  <2>1. history' \in Seq(Sound(Asked)) /\ disk' \in Seq(Sound(Asked)) /\ lost' \subseteq Calls
    BY <1>1 DEF Stored
  <2>2. pend' \in Seq(Entries(Asked)) /\ \A i \in 1..Len(pend') : ~pend'[i].snap => pend'[i].msgs # <<>>
    BY <1>1, <1>3
  <2>3. kinds' \subseteq Calls /\ torn' \in BOOLEAN /\ pc' \in Pcs
    BY <1>1 DEF Pcs
  <2> QED BY <1>2, <2>1, <2>2, <2>3 DEF Stored
<1>5. Len(history') \in Nat
  BY <1>1 DEF Stored
<1>6. LocalsOK'
  BY <1>1, <1>5, NewLocals
<1>7. RoundIsOpen'
  BY <1>1 DEF RoundIsOpen
<1>8. First(disk, {}) /\ Settled(disk, {})
  BY DEF First, Settled
<1>9. {} \ lost = {}
  OBVIOUS
<1>10. Requests'
  BY <1>1, <1>8, <1>9 DEF Requests, Sending
<1> QED BY <1>4, <1>6, <1>7, <1>10

LEMMA WriteKeeps ==
  ASSUME Inv, RequestInv, Commit \/ WriteFails PROVE RequestInv'
<1> USE DEF RequestInv
<1>0. CallsAreNew
  BY DEF Inv
<1>1. /\ pend # <<>> /\ pend' = Tail(pend) /\ UNCHANGED <<toolVars, history, kinds, pc, turn, lost>>
      /\ torn' \in BOOLEAN /\ (UNCHANGED left \/ Disturb("storeError"))
      /\ UNCHANGED disk \/ disk' = apply(disk, Head(pend))
  BY DEF Commit, WriteFails, Stored
<1>2. Asked' = Asked
  BY <1>0, <1>1, DisturbPlain DEF Asked, Fresh
<1>3. PICK e : e = Head(pend)
  OBVIOUS
<1>4. /\ Len(pend) \in Nat /\ Len(pend) > 0 /\ e = pend[1]
      /\ \A i \in 1..Len(pend) : pend[i] \in Entries(Asked) /\ (~pend[i].snap => pend[i].msgs # <<>>)
  BY <1>1, <1>3 DEF Stored
<1>5. e \in Entries(Asked) /\ (~e.snap => e.msgs # <<>>)
  BY <1>4
<1>6. apply(disk, e) \in Seq(Sound(Asked))
  <2>1. e.msgs \in Seq(Sound(Asked)) /\ disk \in Seq(Sound(Asked))
    BY <1>5 DEF Entries, Stored
  <2>2. ~e.snap => e.msgs[1] \in Sound(Asked)
    BY <1>5, <2>1
  <2> QED BY <2>1, <2>2, ReplayedType DEF apply
<1>7. pend' \in Seq(Entries(Asked)) /\ \A i \in 1..Len(pend') : ~pend'[i].snap => pend'[i].msgs # <<>>
  <2>1. pend \in Seq(Entries(Asked))
    BY DEF Stored
  <2>2. pend' \in Seq(Entries(Asked)) /\ Len(pend') = Len(pend) - 1 /\ \A i \in 1..Len(pend') : pend'[i] = pend[i + 1]
    BY <1>1, <2>1
  <2>3. \A i \in 1..Len(pend') : i + 1 \in 1..Len(pend)
    BY <1>4, <2>2
  <2> QED BY <1>4, <2>2, <2>3
<1>8. Stored'
  BY <1>1, <1>2, <1>3, <1>6, <1>7 DEF Stored
<1>9. LocalsOK' /\ Requests'
  BY <1>1 DEF LocalsOK, Requests
<1>10. RoundIsOpen'
  BY <1>1 DEF RoundIsOpen, Round, toolVars
<1> QED BY <1>8, <1>9, <1>10

\* The inductive invariant holds at first.
LEMMA RequestInit == Init => RequestInv
<1> SUFFICES ASSUME Init PROVE RequestInv
  OBVIOUS
<1> USE DEF Init, ToolInit
<1>1. Stored
  <2>1. <<>> \in Seq(Sound(Asked)) /\ <<>> \in Seq(Entries(Asked)) /\ Len(<<>>) = 0
    OBVIOUS
  <2>2. pend \in Seq(Entries(Asked)) /\ \A i \in 1..Len(pend) : ~pend[i].snap => pend[i].msgs # <<>>
    BY <2>1
  <2>3. kinds \subseteq Calls /\ lost \subseteq Calls /\ torn \in BOOLEAN /\ pc \in Pcs
    BY DEF Pcs
  <2> QED BY <2>1, <2>2, <2>3 DEF Stored
<1>2. LocalsOK
  <2>1. /\ NewTurn.then = "send" /\ NewTurn.compact = 0 /\ NewTurn.transient = 0 /\ NewTurn.reactive = 0
        /\ NewTurn.protocol = 0 /\ NewTurn.output = 0
    BY DEF NewTurn
  <2> QED BY <2>1, TurnAssumption DEF LocalsOK
<1>3. RoundIsOpen
  BY DEF RoundIsOpen
<1>4. Requests
  BY DEF Requests, Sending, First, Settled
<1> QED BY <1>1, <1>2, <1>3, <1>4 DEF RequestInv

\* The inductive invariant survives every step.
LEMMA RequestStep ==
  ASSUME Inv, RequestInv, [Next]_vars PROVE RequestInv'
<1>1. CASE BeginTurn
  BY <1>1, BeginTurnKeeps
<1>2. CASE LoopStep
  BY <1>2, EndsKeep, SetupTurnKeeps, AppendPromptKeeps, PrepareHistoryKeeps, SummarisedKeeps, StreamCallsOpens,
     StreamTextKeeps, StreamErrorKeeps, RefusedKeeps, ProtocolErrorKeeps, HandleStopKeeps, StartRoundKeeps,
     AppendResultsKeeps DEF LoopStep
<1>3. CASE RunTools \/ ClientActs \/ ToolFaults \/ Collect
  BY <1>3, RunToolsKeeps, OutsideKeeps, CollectKeeps
<1>4. CASE Commit \/ WriteFails
  BY <1>4, WriteKeeps
<1>5. CASE CancelInQuery \/ CancelInConsumer \/ UserContext \/ Crash
  BY <1>5, CancelInQueryKeeps, CancelInConsumerKeeps, UserContextKeeps, CrashKeeps
<1>6. CASE UNCHANGED vars
  BY <1>6, UnseenKeeps DEF vars
<1> QED BY <1>1, <1>2, <1>3, <1>4, <1>5, <1>6 DEF Next

\* So it holds of every behaviour.
LEMMA RequestInvariance == Spec => [](Inv /\ RequestInv)
<1>1. Init => Inv /\ RequestInv
  BY InitInv, RequestInit
<1>2. (Inv /\ RequestInv) /\ [Next]_vars => (Inv /\ RequestInv)'
  BY NextKeeps, RequestStep
<1> QED BY <1>1, <1>2, PTL DEF Spec

\* History, log, the writes under way and the locals of the loop keep their types: no
\* retry counter passes its limit (MAX_TRANSIENT_STREAM_RETRIES and its siblings), and
\* the boundary compact() computed before it awaited the summary is still inside the
\* history when it is used, whatever ran in between.
THEOREM TypesHold == Spec => []TypeOK
<1>1. Inv /\ RequestInv => TypeOK
  <2> SUFFICES ASSUME Inv, RequestInv PROVE TypeOK
    OBVIOUS
  <2> USE DEF Inv, RequestInv
  <2>1. Messages(Asked) \subseteq Messages(Calls)
    BY AskedFacts DEF Messages
  <2>2. Seq(Messages(Asked)) \subseteq Seq(Messages(Calls))
    BY <2>1, SeqMonotonic
  <2>3. history \in Seq(Messages(Calls)) /\ disk \in Seq(Messages(Calls))
    BY <2>2, StoredFacts
  <2>4. \A i \in DOMAIN pend : pend[i].by \in {"turn", "user", "cut"} /\ pend[i].msgs \in Seq(Messages(Calls))
    <3>1. Seq(Sound(Asked)) \subseteq Seq(Messages(Calls))
      BY <2>1, SeqMonotonic DEF Sound
    <3>2. \A i \in DOMAIN pend : pend[i] \in Entries(Asked)
      BY DEF Stored
    <3> QED BY <3>1, <3>2 DEF Entries
  <2>5. ToolTypeOK /\ turn.calls \in Seq(Calls)
    BY DEF ToolInv, CallsAreNew
  <2>6. /\ turn.reactive <= MaxReactive /\ turn.transient <= MaxTransient
        /\ turn.protocol <= 1 /\ turn.output <= MaxOutput /\ turn.compact \in 0..Len(history)
    BY TurnAssumption DEF LocalsOK
  <2> QED BY <2>3, <2>4, <2>5, <2>6 DEF TypeOK, Stored
<1> QED BY <1>1, RequestInvariance, PTL

\* repair_orphan_tool_results pairs every history and every log the program can reach,
\* of any length, keeps everything but results in its order, and leaves alone what is
\* paired already.
THEOREM RepairAlwaysPairs == Spec => []RepairPairs
<1>1. Inv /\ RequestInv => RepairPairs
  <2> SUFFICES ASSUME Inv, RequestInv, NEW h \in {history, disk}
               PROVE  LET r == repair_orphan_tool_results(h)
                      IN Paired(r) /\ Rest(r) = Rest(h) /\ (Paired(h) => r = h)
    BY DEF RepairPairs, Rest
  <2>1. h \in Seq(Sound(Asked))
    BY DEF RequestInv, Stored
  <2> QED BY <2>1, RepairCorrect, RepairIdle
<1> QED BY <1>1, RequestInvariance, PTL

\* Whatever cancellations, crashes, failed writes, retries and compactions came before,
\* a request carries no tool use without a result before the next assistant message,
\* except of a call its round lost.
THEOREM RequestsAreAnswered == Spec => []RequestsAnswerUses
<1>1. Inv /\ RequestInv => RequestsAnswerUses
  <2> SUFFICES ASSUME Inv, RequestInv, pc = "send", NEW i \in DOMAIN history
               PROVE  LET later == {j \in (i + 1)..Len(history) : IsAssistant(history[j])}
                          upto == IF later = {} THEN Len(history)
                                  ELSE (CHOOSE j \in later : \A k \in later : j <= k) - 1
                      IN Uses(history[i]) \ AnsweredIn(history, i + 1, upto) \subseteq lost
    BY DEF RequestsAnswerUses
  <2> DEFINE later == {j \in (i + 1)..Len(history) : IsAssistant(history[j])}
             upto == IF later = {} THEN Len(history) ELSE (CHOOSE j \in later : \A k \in later : j <= k) - 1
  <2>0. Len(history) \in Nat /\ DOMAIN history = 1..Len(history)
    BY DEF RequestInv, Stored
  <2>1. \A j \in (i + 1)..Len(history) : (\A k \in (i + 1)..j : ~IsAssistant(history[k])) => j \in (i + 1)..upto
    <3>1. CASE later = {}
      BY <3>1
    <3>2. CASE later # {}
      <4>1. PICK n : n = CHOOSE j \in later : \A k \in later : j <= k
        OBVIOUS
      <4>2. later \in SUBSET Nat
        BY <2>0
      <4>3. \E j \in later : \A k \in later : j <= k
        BY <3>2, <4>2, LeastMember
      <4>4. n \in later
        BY <4>1, <4>3
      <4>5. upto = n - 1
        BY <3>2, <4>1
      <4>6. ASSUME NEW j \in (i + 1)..Len(history), \A k \in (i + 1)..j : ~IsAssistant(history[k])
            PROVE  j \in (i + 1)..(n - 1)
        <5>1. ~(n \in (i + 1)..j) /\ n \in (i + 1)..Len(history)
          BY <4>4, <4>6
        <5> QED BY <2>0, <5>1
      <4> HIDE DEF upto
      <4> QED BY <4>5, <4>6
    <3> QED BY <3>1, <3>2
  <2> HIDE DEF later, upto
  <2>2. ASSUME NEW c \in Uses(history[i]), c \notin lost PROVE c \in AnsweredIn(history, i + 1, upto)
    <3>1. Answered(history, i, c)
      BY <2>0, <2>2 DEF RequestInv, Requests, Closed, Sending
    <3>2. PICK j \in (i + 1)..Len(history) :
            IsResult(history[j]) /\ c \in history[j].ids /\ \A k \in (i + 1)..j : ~IsAssistant(history[k])
      BY <3>1 DEF Answered
    <3>3. j \in (i + 1)..upto
      BY <2>1, <3>2
    <3> QED BY <3>2, <3>3, AnsweredMember DEF IsResult
  <2>3. Uses(history[i]) \ AnsweredIn(history, i + 1, upto) \subseteq lost
    BY <2>2
  <2> QED BY <2>3 DEF later, upto
<1> QED BY <1>1, RequestInvariance, PTL

\* A result in a request follows its own tool use with nothing but results and user
\* executions between, except at the head of a compacted history and except for lost
\* calls: neither microcompaction nor a boundary nor a cancelled round separates others.
THEOREM ResultsFollowTheirUses == Spec => []RequestResultsFollowUses
<1>1. Inv /\ RequestInv => RequestResultsFollowUses
  <2> SUFFICES ASSUME Inv, RequestInv, pc = "send", NEW i \in DOMAIN history, history[i].role = "results"
               PROVE  LET a == AssistantBefore(history, i)
                      IN \/ a # 0 /\ history[i].ids \subseteq history[a].ids
                            /\ \A j \in (a + 1)..i : history[j].role \in {"results", "context"}
                         \/ history[1] = Note /\ \A j \in 2..i : history[j].role \in {"results", "context"}
                         \/ history[i].ids \subseteq lost
    BY DEF RequestResultsFollowUses
  <2>1. i \in 1..Len(history) /\ i \in Nat
    BY DEF RequestInv, Stored
  <2>2. \/ \E a \in 1..(i - 1) : Own(history, i, a) /\ \A j \in (a + 1)..i : ResultOrContext(history[j])
        \/ AtHead(history, i)
        \/ history[i].ids \subseteq lost
    <3>1. Follow(history, lost)
      BY DEF RequestInv, Requests
    <3> QED BY <2>1, <3>1 DEF Follow, IsResult
  <2>3. ASSUME NEW a \in 1..(i - 1), Own(history, i, a), \A j \in (a + 1)..i : ResultOrContext(history[j])
        PROVE  AssistantBefore(history, i) = a
    <3>1. \A j \in (a + 1)..(i - 1) : ~IsAssistant(history[j])
      BY <2>1, <2>3 DEF ResultOrContext, IsAssistant
    <3> QED BY <2>1, <2>3, <3>1, AssistantBeforeFacts DEF Own
  <2> QED BY <2>1, <2>2, <2>3 DEF Own, AtHead, ResultOrContext
<1> QED BY <1>1, RequestInvariance, PTL
-----------------------------------------------------------------------------
(* Replaying the log *)

\* Replay: one more write is applied to what was there before it.
LEMMA ReplayDef ==
  ASSUME NEW d, NEW w, Len(w) \in Nat
  PROVE  Replay(d, w) = [n \in 0..Len(w) |-> IF n = 0 THEN d ELSE apply(Replay(d, w)[n - 1], w[n])]
<1> DEFINE Eq(f, N) == f = [n \in 0..N |-> IF n = 0 THEN d ELSE apply(f[n - 1], w[n])]
           S == {n \in Nat : \E f : Eq(f, n)}
<1>1. 0 \in S
  <2>1. Eq([n \in 0..0 |-> d], 0)
    OBVIOUS
  <2> QED BY <2>1
<1>2. ASSUME NEW k \in 0..(Len(w) - 1), k \in S PROVE k + 1 \in S
  <2>1. PICK f : Eq(f, k)
    BY <1>2
  <2>2. \A n \in 0..k : f[n] = IF n = 0 THEN d ELSE apply(f[n - 1], w[n])
    BY <2>1
  <2>3. PICK g : g = [n \in 0..(k + 1) |-> IF n = k + 1 THEN apply(f[k], w[k + 1]) ELSE f[n]]
    OBVIOUS
  <2>4. g[k + 1] = apply(f[k], w[k + 1]) /\ \A n \in 0..k : g[n] = f[n]
    BY <2>3
  <2>5. \A n \in 0..(k + 1) : g[n] = IF n = 0 THEN d ELSE apply(g[n - 1], w[n])
    BY <2>2, <2>4
  <2>6. Eq(g, k + 1)
    BY <2>3, <2>5
  <2> HIDE DEF Eq
  <2> QED BY <2>6
<1>3. Len(w) \in S
  <2>1. \A k \in 0..(Len(w) - 1) : k \in S => k + 1 \in S
    BY <1>2
  <2> HIDE DEF S
  <2>2. 0..Len(w) \subseteq S
    BY <1>1, <2>1, Positions
  <2> QED BY <2>2
<1>4. \E f : Eq(f, Len(w))
  BY <1>3
<1> QED BY <1>4 DEF Replay

LEMMA ReplaySteps ==
  ASSUME NEW d, NEW w, Len(w) \in Nat
  PROVE  /\ Replay(d, w)[0] = d
         /\ \A n \in 0..(Len(w) - 1) : Replay(d, w)[n + 1] = apply(Replay(d, w)[n], w[n + 1])
<1>1. PICK f : f = Replay(d, w)
  OBVIOUS
<1> DEFINE e(n) == IF n = 0 THEN d ELSE apply(f[n - 1], w[n])
<1>2. f = [n \in 0..Len(w) |-> e(n)]
  BY <1>1, ReplayDef
<1> HIDE DEF e
<1>3. \A n \in 0..Len(w) : f[n] = e(n)
  BY <1>2
<1>4. f[0] = d
  BY <1>3 DEF e
<1>5. ASSUME NEW n \in 0..(Len(w) - 1) PROVE f[n + 1] = apply(f[n], w[n + 1])
  <2>1. n + 1 \in 0..Len(w) /\ n + 1 # 0 /\ n + 1 - 1 = n
    OBVIOUS
  <2> QED BY <1>3, <2>1 DEF e
<1> QED BY <1>1, <1>4, <1>5

\* w has the writes of v from the b-th on, a positions further.
SameFrom(w, v, a, b) ==
  /\ Len(w) \in Nat /\ Len(v) \in Nat /\ a \in Nat /\ b \in 0..Len(v) /\ Len(v) + a <= Len(w)
  /\ \A i \in (b + 1)..Len(v) : w[i + a].snap = v[i].snap /\ w[i + a].msgs = v[i].msgs

\* The logs agree where those writes begin.
Joined(d, w, c, v, a, b) == SameFrom(w, v, a, b) /\ Replay(d, w)[b + a] = Replay(c, v)[b]

\* Two logs that agree once agree as long as the same writes follow.
LEMMA ReplayAgrees ==
  ASSUME NEW d, NEW w, NEW c, NEW v, NEW a, NEW b, Joined(d, w, c, v, a, b)
  PROVE  Replay(d, w)[Len(v) + a] = Replay(c, v)[Len(v)]
<1>0. /\ Len(w) \in Nat /\ Len(v) \in Nat /\ a \in Nat /\ b \in 0..Len(v) /\ Len(v) + a <= Len(w)
      /\ \A i \in (b + 1)..Len(v) : w[i + a].snap = v[i].snap /\ w[i + a].msgs = v[i].msgs
  BY DEF Joined, SameFrom
<1>1. PICK f : f = Replay(d, w)
  OBVIOUS
<1>2. PICK g : g = Replay(c, v)
  OBVIOUS
<1>3. \A n \in 0..(Len(w) - 1) : f[n + 1] = apply(f[n], w[n + 1])
  BY <1>0, <1>1, ReplaySteps
<1>4. \A n \in 0..(Len(v) - 1) : g[n + 1] = apply(g[n], v[n + 1])
  BY <1>0, <1>2, ReplaySteps
<1> DEFINE S == {n \in Nat : n < b \/ f[n + a] = g[n]}
<1>5. 0 \in S
  <2>1. b = 0 => f[0 + a] = g[0]
    BY <1>1, <1>2 DEF Joined
  <2> QED BY <1>0, <2>1
<1>6. ASSUME NEW n \in 0..(Len(v) - 1), n \in S PROVE n + 1 \in S
  <2>1. CASE n + 1 < b
    BY <2>1
  <2>2. CASE n + 1 = b
    BY <1>1, <1>2, <2>2 DEF Joined
  <2>3. CASE b <= n
    <3>1. f[n + a] = g[n]
      BY <1>0, <1>6, <2>3
    <3>2. n + a \in 0..(Len(w) - 1) /\ n + a + 1 = (n + 1) + a /\ n + 1 \in (b + 1)..Len(v)
      BY <1>0, <2>3
    <3>3. f[(n + 1) + a] = apply(f[n + a], w[(n + 1) + a])
      BY <1>3, <3>2
    <3>4. w[(n + 1) + a].snap = v[n + 1].snap /\ w[(n + 1) + a].msgs = v[n + 1].msgs
      BY <1>0, <3>2
    <3>5. g[n + 1] = apply(g[n], v[n + 1])
      BY <1>4
    <3>6. f[(n + 1) + a] = g[n + 1]
      BY <3>1, <3>3, <3>4, <3>5 DEF apply
    <3> QED BY <3>6
  <2> QED BY <1>0, <2>1, <2>2, <2>3
<1>7. Len(v) \in S
  <2>1. \A n \in 0..(Len(v) - 1) : n \in S => n + 1 \in S
    BY <1>6
  <2> HIDE DEF S
  <2>2. 0..Len(v) \subseteq S
    BY <1>0, <1>5, <2>1, Positions
  <2> QED BY <1>0, <2>2
<1>8. f[Len(v) + a] = g[Len(v)]
  BY <1>0, <1>7
<1> QED BY <1>1, <1>2, <1>8

\* One more write is issued.
LEMMA ReplayAppend ==
  ASSUME NEW d, NEW M, NEW w \in Seq(M), NEW e \in M
  PROVE  Replay(d, Append(w, e))[Len(Append(w, e))] = apply(Replay(d, w)[Len(w)], e)
<1>1. PICK v : v = Append(w, e)
  OBVIOUS
<1>2. Len(w) \in Nat /\ Len(v) = Len(w) + 1 /\ v[Len(w) + 1] = e /\ \A i \in 1..Len(w) : v[i] = w[i]
  BY <1>1
<1>3. PICK z : z = 0
  OBVIOUS
<1>4. SameFrom(v, w, z, z) /\ z + z = 0 /\ Len(w) + z = Len(w)
  <2>1. \A i \in (z + 1)..Len(w) : i + z = i /\ v[i] = w[i]
    BY <1>2, <1>3
  <2> QED BY <1>2, <1>3, <2>1 DEF SameFrom
<1>5. Replay(d, v)[Len(w)] = Replay(d, w)[Len(w)]
  <2>1. Replay(d, v)[z + z] = Replay(d, w)[z]
    BY <1>2, <1>3, <1>4, ReplaySteps
  <2>2. Joined(d, v, d, w, z, z)
    BY <1>4, <2>1 DEF Joined
  <2>3. Replay(d, v)[Len(w) + z] = Replay(d, w)[Len(w)]
    BY <2>2, ReplayAgrees
  <2> QED BY <1>4, <2>3
<1>6. Len(w) \in 0..(Len(v) - 1) /\ Len(v) \in Nat
  BY <1>2
<1>7. Replay(d, v)[Len(w) + 1] = apply(Replay(d, v)[Len(w)], v[Len(w) + 1])
  BY <1>6, ReplaySteps
<1> QED BY <1>1, <1>2, <1>5, <1>6, <1>7

\* The log is a history.
LEMMA LoggedType ==
  ASSUME CallsAreNew, Stored
  PROVE  Logged \in Seq(Sound(Asked))
<1>1. /\ disk \in Seq(Sound(Asked)) /\ Len(pend) \in Nat
      /\ \A i \in 1..Len(pend) : pend[i] \in Entries(Asked) /\ (~pend[i].snap => pend[i].msgs # <<>>)
  BY DEF Stored
<1>2. PICK f : f = Replay(disk, pend)
  OBVIOUS
<1>3. f[0] = disk /\ \A n \in 0..(Len(pend) - 1) : f[n + 1] = apply(f[n], pend[n + 1])
  BY <1>1, <1>2, ReplaySteps
<1> DEFINE S == {n \in Nat : f[n] \in Seq(Sound(Asked))}
<1>4. 0 \in S
  BY <1>1, <1>3
<1>5. ASSUME NEW n \in 0..(Len(pend) - 1), n \in S PROVE n + 1 \in S
  <2>1. PICK e : e = pend[n + 1]
    OBVIOUS
  <2>2. n + 1 \in 1..Len(pend)
    BY <1>1
  <2>3. e \in Entries(Asked) /\ (~e.snap => e.msgs # <<>>)
    BY <1>1, <2>1, <2>2
  <2>4. e.msgs \in Seq(Sound(Asked)) /\ f[n] \in Seq(Sound(Asked))
    BY <1>5, <2>3 DEF Entries
  <2>5. ~e.snap => e.msgs[1] \in Sound(Asked)
    BY <2>3, <2>4
  <2>6. apply(f[n], e) \in Seq(Sound(Asked))
    BY <2>4, <2>5, ReplayedType DEF apply
  <2> QED BY <1>3, <2>1, <2>6
<1>6. Len(pend) \in S
  <2>1. \A n \in 0..(Len(pend) - 1) : n \in S => n + 1 \in S
    BY <1>5
  <2> HIDE DEF S
  <2>2. 0..Len(pend) \subseteq S
    BY <1>1, <1>4, <2>1, Positions
  <2> QED BY <1>1, <2>2
<1> QED BY <1>2, <1>6 DEF Logged
-----------------------------------------------------------------------------
(* The history in the log: the inductive invariant and its kinds of steps *)

\* Where the next assistant message is prepared, awaited or judged.
Answering == {"loop", "summarise", "send", "stop"}

\* The writes under way bring the log back in step even if one was lost.
Reloadable == ~torn \/ \E i \in 1..Len(pend) : pend[i].snap

\* No assistant message is last when another one is asked for.
LastAsked ==
  /\ pc \in Answering \ {"stop"} => ~Ends(history)
  /\ pc = "stop" => ~Ends(pop_last_assistant(history))

\* The log holds the history, and holds it still when the next assistant message has
\* taken the place of one that was dropped for a retry.
InLog ==
  /\ Part(history, Logged)
  /\ pc \in Answering => Part(pop_last_assistant(history), pop_last_assistant(Logged))

ReloadInv == lost = {} => LastAsked /\ (Reloadable => InLog)

\* History and log as sequences of one type.
LEMMA LogFacts ==
  ASSUME CallsAreNew, Stored
  PROVE  /\ history \in Seq(Sound(Calls)) /\ Logged \in Seq(Sound(Calls)) /\ pend \in Seq(Entries(Calls))
         /\ Sound(Asked) \subseteq Sound(Calls) /\ Seq(Sound(Asked)) \subseteq Seq(Sound(Calls))
<1>1. Sound(Asked) \subseteq Sound(Calls)
  BY AskedFacts DEF Sound, Messages
<1>2. Seq(Sound(Asked)) \subseteq Seq(Sound(Calls))
  BY <1>1, SeqMonotonic
<1>3. Entries(Asked) \subseteq Entries(Calls)
  BY <1>2 DEF Entries
<1>4. Seq(Entries(Asked)) \subseteq Seq(Entries(Calls))
  BY <1>3, SeqMonotonic
<1>5. history \in Seq(Sound(Asked)) /\ pend \in Seq(Entries(Asked))
  BY DEF Stored
<1> QED BY <1>1, <1>2, <1>4, <1>5, LoggedType

\* A step that neither history nor log sees, or only the order of writes.
LEMMA QuietReload ==
  ASSUME CallsAreNew, Stored, ReloadInv, UNCHANGED <<history, lost>>, Logged' = Logged, Reloadable' => Reloadable,
         \/ pc' \notin Answering
         \/ pc' = pc
         \/ pc \in Answering \ {"stop"} /\ pc' \in Answering
  PROVE  ReloadInv'
<1> SUFFICES ASSUME lost' = {} PROVE LastAsked' /\ (Reloadable' => InLog')
  BY DEF ReloadInv
<1>1. lost = {} /\ history' = history
  OBVIOUS
<1>2. LastAsked /\ (Reloadable => InLog)
  BY <1>1 DEF ReloadInv
<1>3. ~Ends(history) => pop_last_assistant(history) = history
  BY LogFacts, PoppedFacts
<1>4. LastAsked'
  BY <1>1, <1>2, <1>3 DEF LastAsked, Answering
<1>5. Reloadable' => InLog'
  BY <1>1, <1>2 DEF InLog
<1> QED BY <1>4, <1>5

LEMMA SameLog ==
  ASSUME UNCHANGED <<pend, disk, torn>> PROVE Logged' = Logged /\ (Reloadable' => Reloadable)
BY DEF Logged, Reloadable

\* What a write under way does to the log.
LEMMA LogAppend ==
  ASSUME CallsAreNew, Stored, NEW m \in Sound(Calls), NEW who \in {"turn", "user", "cut"},
         pend' = Append(pend, Entry(who, FALSE, <<m>>)), UNCHANGED <<disk, torn>>
  PROVE  /\ IsAssistant(m) => Logged' = Append(pop_last_assistant(Logged), m)
         /\ ~IsAssistant(m) => Logged' = Append(Logged, m)
         /\ Reloadable' => Reloadable
<1>1. PICK e : e = Entry(who, FALSE, <<m>>)
  OBVIOUS
<1>2. e = [by |-> who, snap |-> FALSE, msgs |-> <<m>>] /\ <<m>> \in Seq(Sound(Calls))
  BY <1>1 DEF Entry
<1>3. e \in Entries(Calls)
  BY <1>2 DEF Entries
<1>4. e.snap = FALSE /\ e.msgs = <<m>> /\ <<m>>[1] = m
  BY <1>2
<1>5. pend' = Append(pend, e) /\ disk' = disk
  BY <1>1
<1>6. Replay(disk, Append(pend, e))[Len(Append(pend, e))] = apply(Replay(disk, pend)[Len(pend)], e)
  BY <1>3, LogFacts, ReplayAppend
<1>7. Logged' = apply(Logged, e)
  BY <1>5, <1>6 DEF Logged
<1>8. apply(Logged, e) = _append_history_message(Logged, m)
  BY <1>4 DEF apply
<1>9. Reloadable' => Reloadable
  <2>1. Len(pend) \in Nat /\ Len(pend') = Len(pend) + 1 /\ pend'[Len(pend) + 1] = e /\ \A i \in 1..Len(pend) : pend'[i] = pend[i]
    <3>1. Grown(Append(pend, e), pend, e)
      BY <1>3, LogFacts, AppendGrown
    <3> QED BY <1>5, <3>1 DEF Grown
  <2>2. \A i \in 1..Len(pend') : i \in 1..Len(pend) \/ i = Len(pend) + 1
    BY <2>1
  <2> QED BY <1>4, <2>1, <2>2 DEF Reloadable
<1> QED BY <1>7, <1>8, <1>9, LogFacts, PoppedFacts

LEMMA LogSnapshot ==
  ASSUME CallsAreNew, Stored, NEW h \in Seq(Sound(Calls)),
         pend' = Append(pend, Entry("turn", TRUE, h)), UNCHANGED disk
  PROVE  Logged' = h
<1>1. PICK e : e = Entry("turn", TRUE, h)
  OBVIOUS
<1>2. e = [by |-> "turn", snap |-> TRUE, msgs |-> h]
  BY <1>1 DEF Entry
<1>3. e \in Entries(Calls)
  BY <1>2 DEF Entries
<1>4. e.snap = TRUE /\ e.msgs = h
  BY <1>2
<1>5. pend' = Append(pend, e) /\ disk' = disk
  BY <1>1
<1>6. Replay(disk, Append(pend, e))[Len(Append(pend, e))] = apply(Replay(disk, pend)[Len(pend)], e)
  BY <1>3, LogFacts, ReplayAppend
<1>7. Logged' = apply(Logged, e)
  BY <1>5, <1>6 DEF Logged
<1> QED BY <1>4, <1>7 DEF apply

\* A message that is no assistant's is appended to the history and to the log.
LEMMA AppendReload ==
  ASSUME CallsAreNew, Stored, ReloadInv, NEW m \in Sound(Calls), ~IsAssistant(m), NEW who \in {"turn", "user", "cut"},
         pend' = Append(pend, Entry(who, FALSE, <<m>>)), history' = Append(history, m),
         UNCHANGED <<disk, torn>>, lost' = {} => lost = {}
  PROVE  ReloadInv'
<1> SUFFICES ASSUME lost' = {} PROVE LastAsked' /\ (Reloadable' => InLog')
  BY DEF ReloadInv
<1>1. PICK h : h = history
  OBVIOUS
<1>2. PICK g : g = Logged
  OBVIOUS
<1>3. h \in Seq(Sound(Calls)) /\ g \in Seq(Sound(Calls))
  BY <1>1, <1>2, LogFacts
<1>4. history' = Append(h, m) /\ Logged' = Append(g, m) /\ (Reloadable' => Reloadable)
  BY <1>1, <1>2, LogAppend
<1>5. ~Ends(Append(h, m)) /\ pop_last_assistant(Append(h, m)) = Append(h, m) /\ pop_last_assistant(Append(g, m)) = Append(g, m)
  BY <1>3, PoppedFacts
<1>6. LastAsked'
  BY <1>4, <1>5 DEF LastAsked
<1>7. ASSUME Reloadable' PROVE InLog'
  <2>1. Part(h, g)
    BY <1>1, <1>2, <1>4, <1>7 DEF ReloadInv, InLog
  <2>2. Grown(Append(h, m), h, m) /\ Grown(Append(g, m), g, m)
    BY <1>3, AppendGrown
  <2>3. Part(Append(h, m), Append(g, m))
    BY <2>1, <2>2, PartGrown
  <2> QED BY <1>4, <1>5, <2>3 DEF InLog
<1> QED BY <1>6, <1>7

\* An assistant message is: it takes the place of one that was dropped.
LEMMA AnswerReload ==
  ASSUME CallsAreNew, Stored, ReloadInv, NEW m \in Sound(Calls), IsAssistant(m),
         pend' = Append(pend, Entry("turn", FALSE, <<m>>)), history' = Append(history, m),
         pc = "send", pc' \in {"stop", "round"}, UNCHANGED <<disk, torn, lost>>
  PROVE  ReloadInv'
<1> SUFFICES ASSUME lost' = {} PROVE LastAsked' /\ (Reloadable' => InLog')
  BY DEF ReloadInv
<1>1. PICK h : h = history
  OBVIOUS
<1>2. PICK g : g = Logged
  OBVIOUS
<1>3. PICK k : k = pop_last_assistant(g)
  OBVIOUS
<1>4. h \in Seq(Sound(Calls)) /\ g \in Seq(Sound(Calls)) /\ k \in Seq(Sound(Calls))
  BY <1>1, <1>2, <1>3, LogFacts, PopType
<1>5. history' = Append(h, m) /\ Logged' = Append(k, m) /\ (Reloadable' => Reloadable)
  BY <1>1, <1>2, <1>3, LogAppend
<1>6. ~Ends(h)
  BY <1>1 DEF ReloadInv, LastAsked, Answering
<1>7. pop_last_assistant(h) = h /\ pop_last_assistant(Append(h, m)) = h /\ pop_last_assistant(Append(k, m)) = k
  BY <1>4, <1>6, PoppedFacts
<1>8. LastAsked'
  BY <1>5, <1>6, <1>7 DEF LastAsked, Answering
<1>9. ASSUME Reloadable' PROVE InLog'
  <2>1. Part(h, k)
    BY <1>1, <1>2, <1>3, <1>5, <1>7, <1>9 DEF ReloadInv, InLog, Answering
  <2>2. Grown(Append(h, m), h, m) /\ Grown(Append(k, m), k, m)
    BY <1>4, AppendGrown
  <2>3. Part(Append(h, m), Append(k, m))
    BY <2>1, <2>2, PartGrown
  <2> QED BY <1>5, <1>7, <2>1, <2>3 DEF InLog
<1> QED BY <1>8, <1>9

\* The history is written as a whole.
LEMMA SnapshotReload ==
  ASSUME CallsAreNew, Stored, NEW h \in Seq(Sound(Calls)), history' = h,
         pend' = Append(pend, Entry("turn", TRUE, h)), UNCHANGED disk, pc' # "stop",
         lost' = {} /\ pc' \in Answering => ~Ends(h)
  PROVE  ReloadInv'
<1> SUFFICES ASSUME lost' = {} PROVE LastAsked' /\ InLog'
  BY DEF ReloadInv
<1>1. Logged' = h
  BY LogSnapshot
<1>2. Part(h, h)
  BY PartPrefix
<1>3. ~Ends(h) => pop_last_assistant(h) = h
  BY PoppedFacts
<1>4. LastAsked'
  BY DEF LastAsked
<1> QED BY <1>1, <1>2, <1>3, <1>4 DEF InLog

\* The history shrinks and the log is not told.
LEMMA ShrinkReload ==
  ASSUME CallsAreNew, Stored, ReloadInv, pc \in Answering, pc' \in Answering \ {"stop"},
         NEW h \in Seq(Sound(Calls)), history' = h,
         lost = {} => ~Ends(h) /\ Part(h, pop_last_assistant(history)), UNCHANGED <<pend, disk, torn, lost>>
  PROVE  ReloadInv'
<1> SUFFICES ASSUME lost' = {} PROVE LastAsked' /\ (Reloadable' => InLog')
  BY DEF ReloadInv
<1>1. lost = {} /\ ~Ends(h) /\ pop_last_assistant(h) = h
  BY PoppedFacts
<1>2. PICK g : g = Logged
  OBVIOUS
<1>3. g \in Seq(Sound(Calls)) /\ Logged' = g /\ (Reloadable' => Reloadable)
  BY <1>2, LogFacts, SameLog
<1>4. LastAsked'
  BY <1>1 DEF LastAsked
<1>5. ASSUME Reloadable' PROVE InLog'
  <2>1. Part(pop_last_assistant(history), pop_last_assistant(g))
    BY <1>1, <1>2, <1>3, <1>5 DEF ReloadInv, InLog
  <2>2. Part(h, pop_last_assistant(g))
    BY <1>1, <2>1, PartTrans
  <2>3. Part(pop_last_assistant(g), g)
    BY <1>3, PoppedFacts
  <2>4. Part(h, g)
    BY <2>2, <2>3, PartTrans
  <2> QED BY <1>1, <1>3, <2>2, <2>4 DEF InLog
<1> QED BY <1>4, <1>5
-----------------------------------------------------------------------------
(* The steps of the loop *)

\* Messages the loop and the user append.
LEMMA AppendedSound ==
  ASSUME CallsAreNew, Stored
  PROVE  /\ Prompt \in Sound(Calls) /\ ~IsAssistant(Prompt)
         /\ Context \in Sound(Calls) /\ ~IsAssistant(Context)
         /\ \A ids \in SUBSET Calls : ids # {} => Results(ids) \in Sound(Calls) /\ ~IsAssistant(Results(ids))
         /\ \A ids \in SUBSET Calls : Assistant(ids) \in Sound(Calls) /\ IsAssistant(Assistant(ids))
<1>1. \A ids : Assistant(ids) # Results({})
  BY RoleFacts
<1>2. \A ids \in SUBSET Calls : Assistant(ids) \in Messages(Calls)
  BY DEF Assistant, Messages
<1> QED BY <1>1, <1>2, MessageFacts, RoleFacts DEF IsAssistant, Sound

LEMMA PlainReload ==
  ASSUME CallsAreNew, Stored, ReloadInv, UNCHANGED <<history, pend, disk, torn, lost>>,
         \/ pc' \notin Answering
         \/ pc' = pc
         \/ pc \in Answering \ {"stop"} /\ pc' \in Answering
  PROVE  ReloadInv'
BY SameLog, QuietReload

LEMMA SetupReload ==
  ASSUME Inv, RequestInv, ReloadInv, SetupTurn \/ AppendPrompt PROVE ReloadInv'
<1>0. CallsAreNew /\ Stored
  BY DEF Inv, RequestInv
<1>1. PICK h : h = repair_orphan_tool_results(history)
  OBVIOUS
<1>2. /\ AppendUser \/ (history' = h /\ YieldSnapshot(h) /\ Goto("prompt", turn))
      /\ UNCHANGED <<disk, torn, lost>>
  BY <1>1 DEF SetupTurn, AppendPrompt
<1>3. CASE AppendUser
  BY <1>0, <1>2, <1>3, AppendedSound, AppendReload DEF AppendUser, YieldAppend
<1>4. CASE history' = h /\ YieldSnapshot(h) /\ Goto("prompt", turn)
  <2>1. history \in Seq(Sound(Asked))
    BY <1>0 DEF Stored
  <2>2. h \in Seq(Sound(Asked))
    BY <1>1, <2>1, RepairCorrect
  <2>3. h \in Seq(Sound(Calls))
    BY <1>0, <2>2, LogFacts
  <2>4. history' = h /\ pend' = Append(pend, Entry("turn", TRUE, h)) /\ UNCHANGED disk /\ pc' # "stop" /\ pc' \notin Answering
    BY <1>2, <1>4 DEF YieldSnapshot, Goto, Answering
  <2> QED BY <1>0, <2>3, <2>4, SnapshotReload
<1> QED BY <1>2, <1>3, <1>4

LEMMA PrepareReload ==
  ASSUME Inv, RequestInv, ReloadInv, PrepareHistory PROVE ReloadInv'
<1>0. CallsAreNew /\ Stored
  BY DEF Inv, RequestInv
<1>1. PICK g : g = remove_read_only_pairs(history, kinds)
  OBVIOUS
<1>2. /\ pc = "loop" /\ pc' \in {"send", "summarise"} /\ UNCHANGED <<pend, disk, torn, lost>>
      /\ history' = history \/ history' = g
  BY <1>1 DEF PrepareHistory, At, Goto
<1>3. pc \in Answering \ {"stop"} /\ pc' \in Answering \ {"stop"}
  BY <1>2 DEF Answering
<1>4. CASE history' = history
  BY <1>0, <1>2, <1>3, <1>4, PlainReload
<1>5. CASE history' = g
  <2>1. history \in Seq(Sound(Asked))
    BY <1>0 DEF Stored
  <2>2. g \in Seq(Sound(Asked)) /\ Part(g, history) /\ (Ends(g) => Ends(history))
    BY <1>1, <2>1, RemovedType, RemovedPart
  <2>3. g \in Seq(Sound(Calls)) /\ history \in Seq(Sound(Calls))
    BY <1>0, <2>2, LogFacts
  <2>4. lost = {} => ~Ends(history) /\ pop_last_assistant(history) = history
    BY <1>3, <2>3, PoppedFacts DEF ReloadInv, LastAsked
  <2> QED BY <1>0, <1>2, <1>3, <1>5, <2>2, <2>3, <2>4, ShrinkReload
<1> QED BY <1>2, <1>4, <1>5

LEMMA SummarisedReload ==
  ASSUME Inv, RequestInv, ReloadInv, Summarised PROVE ReloadInv'
<1>0. CallsAreNew /\ Stored /\ turn.then \in {"send", "loop"} /\ turn.compact \in 0..Len(history)
  BY DEF Inv, RequestInv, LocalsOK
<1>1. PICK h : h = IF turn.compact = 0 THEN history ELSE replace_with_compacted(history, turn.compact)
  OBVIOUS
<1>2. /\ pc = "summarise" /\ pc' = turn.then /\ UNCHANGED <<disk, torn, lost>> /\ history' = h
      /\ pend' = pend \/ YieldSnapshot(h)
  BY <1>1 DEF Summarised, At, Goto
<1>3. pc \in Answering \ {"stop"} /\ pc' \in Answering \ {"stop"} /\ pc' # "stop"
  BY <1>0, <1>2 DEF Answering
<1>4. history \in Seq(Sound(Asked)) /\ Len(history) \in Nat
  BY <1>0 DEF Stored
<1>5. h \in Seq(Sound(Asked)) /\ Part(h, history) /\ (Ends(h) => Ends(history))
  <2>1. CASE turn.compact = 0
    <3>1. Part(history, history)
      BY <1>4, PartPrefix
    <3> QED BY <1>1, <1>4, <2>1, <3>1
  <2>2. CASE turn.compact # 0
    <3>1. turn.compact \in 1..Len(history)
      BY <1>0, <1>4, <2>2
    <3>2. h \in Seq(Sound(Asked)) /\ Compacts(h, history, turn.compact)
      BY <1>1, <1>4, <2>2, <3>1, CompactedType
    <3> QED BY <3>2, CompactedPart
  <2> QED BY <2>1, <2>2
<1>6. h \in Seq(Sound(Calls)) /\ history \in Seq(Sound(Calls))
  BY <1>0, <1>5, LogFacts
<1>7. lost = {} => ~Ends(history) /\ pop_last_assistant(history) = history
  BY <1>3, <1>6, PoppedFacts DEF ReloadInv, LastAsked
<1>8. CASE pend' = pend
  BY <1>0, <1>2, <1>3, <1>5, <1>6, <1>7, <1>8, ShrinkReload
<1>9. CASE YieldSnapshot(h)
  <2>1. pend' = Append(pend, Entry("turn", TRUE, h))
    BY <1>9 DEF YieldSnapshot
  <2>2. lost' = {} => ~Ends(h)
    BY <1>2, <1>5, <1>7
  <2> QED BY <1>0, <1>2, <1>3, <1>6, <2>1, <2>2, SnapshotReload
<1> QED BY <1>2, <1>8, <1>9

LEMMA StreamReload ==
  ASSUME Inv, RequestInv, ReloadInv, StreamCalls \/ StreamText PROVE ReloadInv'
<1>0. CallsAreNew /\ Stored
  BY DEF Inv, RequestInv
<1>1. CASE StreamCalls
  <2>1. PICK n \in 1..2 :
          /\ n <= left.calls
          /\ LET calls == [i \in 1..n |-> Fresh + i]
                 m == Assistant({calls[i] : i \in 1..n})
             IN history' = Append(history, m) /\ YieldAppend(m) /\ Goto("round", [Again EXCEPT !.calls = calls])
    BY <1>1 DEF StreamCalls
  <2>2. PICK ids : ids = {[k \in 1..n |-> Fresh + k][i] : i \in 1..n}
    OBVIOUS
  <2>3. ids \subseteq Calls
    <3>1. left.calls \in Nat /\ MaxCalls \in Nat /\ left.calls <= MaxCalls /\ Calls = 1..MaxCalls
      BY <1>0, TurnAssumption DEF CallsAreNew
    <3>2. \A i \in 1..n : MaxCalls - left.calls + i \in 1..MaxCalls
      BY <2>1, <3>1
    <3> QED BY <2>2, <3>1, <3>2 DEF Fresh
  <2>4. PICK m : m = Assistant(ids)
    OBVIOUS
  <2>5. m \in Sound(Calls) /\ IsAssistant(m)
    BY <1>0, <2>3, <2>4, AppendedSound
  <2>6. history' = Append(history, m) /\ pend' = Append(pend, Entry("turn", FALSE, <<m>>)) /\ pc' = "round"
    BY <2>1, <2>2, <2>4 DEF YieldAppend, Goto
  <2>7. pc = "send" /\ UNCHANGED <<disk, torn, lost>>
    BY <1>1 DEF StreamCalls, At
  <2> QED BY <1>0, <2>5, <2>6, <2>7, AnswerReload
<1>2. CASE StreamText
  <2>1. /\ pc = "send" /\ pc' = "stop" /\ UNCHANGED <<disk, torn, lost>>
        /\ \/ UNCHANGED <<history, pend>>
           \/ history' = Append(history, Assistant({})) /\ YieldAppend(Assistant({}))
    BY <1>2 DEF StreamText, At, Goto
  <2>2. CASE UNCHANGED <<history, pend>>
    BY <1>0, <2>1, <2>2, PlainReload DEF Answering
  <2>3. CASE history' = Append(history, Assistant({})) /\ YieldAppend(Assistant({}))
    <3>1. Assistant({}) \in Sound(Calls) /\ IsAssistant(Assistant({}))
      BY <1>0, AppendedSound
    <3> QED BY <1>0, <2>1, <2>3, <3>1, AnswerReload DEF YieldAppend
  <2> QED BY <2>1, <2>2, <2>3
<1> QED BY <1>1, <1>2

LEMMA ProtocolErrorReload ==
  ASSUME Inv, RequestInv, ReloadInv, ProtocolError PROVE ReloadInv'
<1>0. CallsAreNew /\ Stored
  BY DEF Inv, RequestInv
<1>1. PICK h : h = repair_orphan_tool_results(history)
  OBVIOUS
<1>2. /\ pc = "send" /\ UNCHANGED <<disk, torn, lost>>
      /\ \/ history' = h /\ YieldSnapshot(h) /\ pc' = "loop"
         \/ pc' = "idle" /\ UNCHANGED <<history, pend>>
  BY <1>1 DEF ProtocolError, At, Goto, EndTurn
<1>3. CASE pc' = "idle" /\ UNCHANGED <<history, pend>>
  BY <1>0, <1>2, <1>3, PlainReload DEF Answering
<1>4. CASE history' = h /\ YieldSnapshot(h) /\ pc' = "loop"
  <2>1. history \in Seq(Sound(Asked))
    BY <1>0 DEF Stored
  <2>2. h \in Seq(Sound(Asked))
    BY <1>1, <2>1, RepairCorrect
  <2>3. h \in Seq(Sound(Calls))
    BY <1>0, <2>2, LogFacts
  <2>4. lost = {} => ~Ends(h)
    <3>1. Follow(history, lost) /\ (lost = {} => ~Ends(history))
      BY <1>2 DEF RequestInv, Requests, ReloadInv, LastAsked, Answering
    <3> QED BY <1>1, <2>1, <3>1, RepairedEnds
  <2>5. pend' = Append(pend, Entry("turn", TRUE, h))
    BY <1>4 DEF YieldSnapshot
  <2> QED BY <1>0, <1>2, <1>4, <2>3, <2>4, <2>5, SnapshotReload
<1> QED BY <1>2, <1>3, <1>4

LEMMA HandleStopReload ==
  ASSUME Inv, RequestInv, ReloadInv, HandleStop PROVE ReloadInv'
<1>0. CallsAreNew /\ Stored
  BY DEF Inv, RequestInv
<1>1. PICK h : h = pop_last_assistant(history)
  OBVIOUS
<1>2. /\ pc = "stop" /\ UNCHANGED <<pend, disk, torn, lost>>
      /\ (history' = h /\ pc' = "loop") \/ (history' = history /\ pc' = "idle")
  BY <1>1 DEF HandleStop, At, Goto, EndTurn
<1>3. CASE history' = history /\ pc' = "idle"
  BY <1>0, <1>2, <1>3, PlainReload DEF Answering
<1>4. CASE history' = h /\ pc' = "loop"
  <2>1. h \in Seq(Sound(Calls))
    BY <1>0, <1>1, LogFacts, PopType
  <2>2. Part(h, h)
    BY <2>1, PartPrefix
  <2>3. lost = {} => ~Ends(h) /\ Part(h, pop_last_assistant(history))
    BY <1>1, <1>2, <2>2 DEF ReloadInv, LastAsked
  <2>4. pc \in Answering /\ pc' \in Answering \ {"stop"}
    BY <1>2, <1>4 DEF Answering
  <2> QED BY <1>0, <1>2, <1>4, <2>1, <2>3, <2>4, ShrinkReload
<1> QED BY <1>2, <1>3, <1>4
-----------------------------------------------------------------------------
(* Rounds, cancellations, crashes and writes *)

\* A round that lost no result has one for every call, and there is at least one call.
LEMMA AppendResultsReload ==
  ASSUME Inv, RequestInv, ReloadInv, AppendResults PROVE ReloadInv'
<1>0. CallsAreNew /\ Stored /\ ToolTypeOK
  BY DEF Inv, RequestInv, ToolInv
<1>1. PICK ids : ids = {c \in Round : st[c] # "lost"}
  OBVIOUS
<1>2. /\ pc = "tools" /\ lost' = lost \cup {c \in Round : st[c] = "lost"} /\ UNCHANGED <<disk, torn>>
      /\ history' = append_tool_results(history, ids)
      /\ IF ids = {} THEN UNCHANGED pend ELSE YieldAppend(Results(ids))
  BY <1>1 DEF AppendResults, At, Goto
<1>3. PICK a : Open(history, a, Round)
  BY <1>2 DEF RequestInv, RoundIsOpen
<1>4. Round \subseteq Calls /\ Round # {}
  <2>1. queue # <<>> /\ queue \in Seq(Calls)
    BY <1>0, <1>2 DEF RequestInv, RoundIsOpen, ToolTypeOK
  <2>2. 1 \in DOMAIN queue /\ \A i \in DOMAIN queue : queue[i] \in Calls
    BY <2>1
  <2> QED BY <2>2 DEF Round
<1>5. CASE ids = {}
  <2>1. lost' # {}
    BY <1>1, <1>2, <1>4, <1>5
  <2> QED BY <2>1 DEF ReloadInv
<1>6. CASE ids # {}
  <2>1. PICK m : m = Results(ids)
    OBVIOUS
  <2>2. m \in Sound(Calls) /\ ~IsAssistant(m)
    BY <1>0, <1>1, <1>4, <1>6, <2>1, AppendedSound
  <2>3. history' = Append(history, m) /\ pend' = Append(pend, Entry("turn", FALSE, <<m>>))
    BY <1>2, <1>6, <2>1 DEF append_tool_results, YieldAppend
  <2>4. lost' = {} => lost = {}
    BY <1>2
  <2> QED BY <1>0, <1>2, <2>2, <2>3, <2>4, AppendReload
<1> QED BY <1>5, <1>6

LEMMA CancelInQueryReload ==
  ASSUME Inv, RequestInv, ReloadInv, CancelInQuery PROVE ReloadInv'
<1>0. CallsAreNew /\ Stored
  BY DEF Inv, RequestInv
<1>1. PICK ids : ids = pending_tool_use_ids(history)
  OBVIOUS
<1>2. /\ pc' = "idle" /\ UNCHANGED <<disk, torn, lost>>
      /\ history' = append_tool_results(history, ids)
      /\ IF ids = {} THEN UNCHANGED pend ELSE YieldAppend(Results(ids))
  BY <1>1 DEF CancelInQuery, EndTurn, Goto, append_interrupted_tool_results
<1>3. ids \in SUBSET Calls
  <2>1. history \in Seq(Messages(Asked)) /\ Asked \subseteq Calls
    BY <1>0, StoredFacts, AskedFacts
  <2>2. ids \in SUBSET Asked
    BY <1>1, <2>1, PendingType
  <2> QED BY <2>1, <2>2
<1>4. CASE ids = {}
  BY <1>0, <1>2, <1>4, PlainReload DEF append_tool_results, Answering
<1>5. CASE ids # {}
  <2>1. PICK m : m = Results(ids)
    OBVIOUS
  <2>2. m \in Sound(Calls) /\ ~IsAssistant(m)
    BY <1>0, <1>3, <1>5, <2>1, AppendedSound
  <2>3. history' = Append(history, m) /\ pend' = Append(pend, Entry("turn", FALSE, <<m>>))
    BY <1>2, <1>5, <2>1 DEF append_tool_results, YieldAppend
  <2> QED BY <1>0, <1>2, <2>2, <2>3, AppendReload
<1> QED BY <1>4, <1>5

\* Whose write it is makes no difference to the log.
LEMMA CancelInConsumerReload ==
  ASSUME Inv, RequestInv, ReloadInv, CancelInConsumer PROVE ReloadInv'
<1>0. CallsAreNew /\ Stored
  BY DEF Inv, RequestInv
<1>1. /\ pc' = "idle" /\ UNCHANGED <<history, disk, torn, lost>>
      /\ pend' = [i \in DOMAIN pend |-> IF pend[i].by = "turn" THEN [pend[i] EXCEPT !.by = "cut"] ELSE pend[i]]
  BY DEF CancelInConsumer, EndTurn, Goto
<1>2. /\ Len(pend) \in Nat /\ DOMAIN pend = 1..Len(pend)
      /\ \A i \in 1..Len(pend) : pend[i] \in [by : {"turn", "user", "cut"}, snap : BOOLEAN, msgs : Seq(Sound(Asked))]
  <2>1. pend \in Seq(Entries(Asked))
    BY <1>0 DEF Stored
  <2>2. Len(pend) \in Nat /\ DOMAIN pend = 1..Len(pend) /\ \A i \in 1..Len(pend) : pend[i] \in Entries(Asked)
    BY <2>1
  <2> QED BY <2>2 DEF Entries
<1>3. Len(pend') = Len(pend) /\ \A i \in 1..Len(pend) :
        pend'[i] = IF pend[i].by = "turn" THEN [pend[i] EXCEPT !.by = "cut"] ELSE pend[i]
  BY <1>1, <1>2
<1>4. \A i \in 1..Len(pend) : pend'[i].snap = pend[i].snap /\ pend'[i].msgs = pend[i].msgs
  BY <1>2, <1>3
<1>5. Reloadable' => Reloadable
  BY <1>1, <1>3, <1>4 DEF Reloadable
<1>6. Logged' = Logged
  <2>1. PICK z : z = 0
    OBVIOUS
  <2>2. PICK w : w = pend'
    OBVIOUS
  <2>3. SameFrom(w, pend, z, z) /\ z + z = 0 /\ Len(pend) + z = Len(pend)
    <3>1. \A i \in (z + 1)..Len(pend) : i + z = i /\ w[i].snap = pend[i].snap /\ w[i].msgs = pend[i].msgs
      BY <1>2, <1>4, <2>1, <2>2
    <3> QED BY <1>2, <1>3, <2>1, <2>2, <3>1 DEF SameFrom
  <2>4. Replay(disk, w)[z + z] = Replay(disk, pend)[z]
    BY <1>2, <1>3, <2>1, <2>2, <2>3, ReplaySteps
  <2>5. Joined(disk, w, disk, pend, z, z)
    BY <2>3, <2>4 DEF Joined
  <2>6. Replay(disk, w)[Len(pend) + z] = Replay(disk, pend)[Len(pend)]
    BY <2>5, ReplayAgrees
  <2> QED BY <1>1, <1>3, <2>2, <2>3, <2>6 DEF Logged
<1> QED BY <1>0, <1>1, <1>5, <1>6, QuietReload DEF Answering

LEMMA UserContextReload ==
  ASSUME Inv, RequestInv, ReloadInv, UserContext PROVE ReloadInv'
<1>0. CallsAreNew /\ Stored
  BY DEF Inv, RequestInv
<1>1. /\ history' = Append(history, Context) /\ pend' = Append(pend, Entry("user", FALSE, <<Context>>))
      /\ UNCHANGED <<disk, torn, lost>>
  BY DEF UserContext
<1> QED BY <1>0, <1>1, AppendedSound, AppendReload

LEMMA CrashReload ==
  ASSUME Inv, RequestInv, ReloadInv, Crash PROVE ReloadInv'
<1>0. CallsAreNew /\ Stored
  BY DEF Inv, RequestInv
<1>1. history' = disk /\ pend' = <<>> /\ pc' = "idle" /\ UNCHANGED disk
  BY DEF Crash, EndTurn, Goto
<1>2. Len(disk) \in Nat
  BY <1>0 DEF Stored
<1>3. PICK w : w = pend' /\ Len(w) = 0
  BY <1>1
<1>4. Replay(disk, w)[0] = disk
  BY <1>3, ReplaySteps
<1>5. Logged' = disk
  BY <1>1, <1>3, <1>4 DEF Logged
<1>6. Part(disk, disk)
  BY <1>2, PartPrefix
<1> QED BY <1>1, <1>5, <1>6 DEF ReloadInv, LastAsked, InLog, Answering

\* What a write leaves in the log was in it when the write was under way; a write that
\* fails makes no difference if a snapshot follows it.
LEMMA WriteReload ==
  ASSUME Inv, RequestInv, ReloadInv, Commit \/ WriteFails PROVE ReloadInv'
<1>0. CallsAreNew /\ Stored
  BY DEF Inv, RequestInv
<1>1. pend # <<>> /\ pend' = Tail(pend) /\ UNCHANGED <<history, pc, lost>>
  BY DEF Commit, WriteFails
<1>2. PICK v : v = pend'
  OBVIOUS
<1>3. /\ Len(pend) \in Nat /\ Len(pend) > 0 /\ pend[1] = Head(pend)
      /\ Len(v) = Len(pend) - 1 /\ Len(v) \in Nat /\ \A i \in 1..Len(v) : v[i] = pend[i + 1]
  BY <1>0, <1>1, <1>2 DEF Stored
<1>4. PICK one : one = 1
  OBVIOUS
<1>5. PICK e : e = pend[1]
  OBVIOUS
<1>6. \A i \in 1..Len(v) : pend[i + one] = v[i]
  BY <1>3, <1>4
<1>7. /\ Replay(disk, pend)[0] = disk /\ Replay(disk', v)[0] = disk'
      /\ \A n \in 0..(Len(pend) - 1) : Replay(disk, pend)[n + 1] = apply(Replay(disk, pend)[n], pend[n + 1])
      /\ \A n \in 0..(Len(v) - 1) : Replay(disk', v)[n + 1] = apply(Replay(disk', v)[n], v[n + 1])
  BY <1>3, ReplaySteps
<1>8. ASSUME NEW b \in 0..Len(v), Replay(disk, pend)[b + one] = Replay(disk', v)[b] PROVE Logged' = Logged
  <2>1. SameFrom(pend, v, one, b)
    <3>1. \A i \in (b + 1)..Len(v) : i \in 1..Len(v)
      BY <1>3
    <3> QED BY <1>3, <1>4, <1>6, <3>1 DEF SameFrom
  <2>2. Joined(disk, pend, disk', v, one, b)
    BY <1>8, <2>1 DEF Joined
  <2>3. Replay(disk, pend)[Len(v) + one] = Replay(disk', v)[Len(v)]
    BY <2>2, ReplayAgrees
  <2>4. Len(v) + one = Len(pend)
    BY <1>3, <1>4
  <2> QED BY <1>2, <2>3, <2>4 DEF Logged
<1>9. Reloadable' => Reloadable /\ Logged' = Logged
  <2>1. CASE Commit
    <3>1. disk' = apply(disk, e) /\ torn' = (torn /\ ~e.snap)
      BY <1>3, <1>5, <2>1 DEF Commit
    <3>2. 0 \in 0..(Len(pend) - 1) /\ 0 \in 0..Len(v) /\ 0 + one = 1 /\ 0 + 1 = 1
      BY <1>3, <1>4
    <3>3. Replay(disk, pend)[1] = apply(disk, e)
      BY <1>5, <1>7, <3>2
    <3>4. Logged' = Logged
      BY <1>7, <1>8, <3>1, <3>2, <3>3
    <3>5. \A i \in 1..Len(v) : i + 1 \in 1..Len(pend)
      BY <1>3
    <3>6. 1 \in 1..Len(pend)
      BY <1>3
    <3>7. Reloadable' => Reloadable
      BY <1>2, <1>3, <1>5, <3>1, <3>5, <3>6 DEF Reloadable
    <3> QED BY <3>4, <3>7
  <2>2. CASE WriteFails
    <3> SUFFICES ASSUME Reloadable' PROVE Reloadable /\ Logged' = Logged
      OBVIOUS
    <3>1. torn' = TRUE
      BY <2>2 DEF WriteFails
    <3>2. PICK b \in 1..Len(v) : v[b].snap
      BY <1>2, <3>1 DEF Reloadable
    <3>3. b + 1 \in 1..Len(pend) /\ b \in 0..(Len(pend) - 1) /\ b - 1 \in 0..(Len(v) - 1) /\ b - 1 + 1 = b /\ b \in 0..Len(v)
      BY <1>3
    <3>4. pend[b + 1] = v[b]
      BY <1>3
    <3>5. Replay(disk, pend)[b + 1] = apply(Replay(disk, pend)[b], pend[b + 1])
      BY <1>7, <3>3
    <3>6. Replay(disk', v)[b] = apply(Replay(disk', v)[b - 1], v[b])
      BY <1>7, <3>3
    <3>7. Replay(disk, pend)[b + 1] = v[b].msgs /\ Replay(disk', v)[b] = v[b].msgs
      BY <3>2, <3>4, <3>5, <3>6 DEF apply
    <3>8. Logged' = Logged
      BY <1>4, <1>8, <3>3, <3>7
    <3> QED BY <3>2, <3>3, <3>4, <3>8 DEF Reloadable
  <2> QED BY <2>1, <2>2
<1>10. CASE Reloadable'
  BY <1>0, <1>1, <1>9, <1>10, QuietReload
<1>11. CASE ~Reloadable'
  <2>1. LastAsked => LastAsked'
    BY <1>1 DEF LastAsked
  <2> QED BY <1>1, <1>11, <2>1 DEF ReloadInv
<1> QED BY <1>10, <1>11

LEMMA OtherReload ==
  ASSUME Inv, RequestInv, ReloadInv,
         \/ BeginTurn \/ Blocked \/ StopAtMaxTurns \/ StreamError \/ Refused \/ StartRound
         \/ RunTools \/ ClientActs \/ ToolFaults \/ Collect \/ UNCHANGED vars
  PROVE  ReloadInv'
<1>0. CallsAreNew /\ Stored
  BY DEF Inv, RequestInv
<1>1. CASE BeginTurn \/ Blocked \/ StopAtMaxTurns \/ StartRound
  <2>1. UNCHANGED <<history, pend, disk, torn, lost>> /\ pc' \in {"setup", "idle", "tools"}
    BY <1>1 DEF BeginTurn, Blocked, StopAtMaxTurns, StartRound, Goto, EndTurn
  <2> QED BY <1>0, <2>1, PlainReload DEF Answering
<1>2. CASE StreamError \/ Refused
  <2>1. UNCHANGED <<history, pend, disk, torn, lost>> /\ pc = "send" /\ pc' \in {"loop", "summarise", "idle"}
    BY <1>2 DEF StreamError, Refused, At, Goto, EndTurn
  <2> QED BY <1>0, <2>1, PlainReload DEF Answering
<1>3. CASE RunTools \/ ClientActs \/ ToolFaults \/ Collect \/ UNCHANGED vars
  <2>1. UNCHANGED <<history, pend, disk, torn, lost, pc>>
    BY <1>3 DEF RunTools, ClientActs, ToolFaults, Collect, turnVars, vars
  <2> QED BY <1>0, <2>1, PlainReload
<1> QED BY <1>1, <1>2, <1>3

LEMMA ReloadInit == Init => ReloadInv
<1> SUFFICES ASSUME Init PROVE ReloadInv
  OBVIOUS
<1>1. history = <<>> /\ disk = <<>> /\ pend = <<>> /\ pc = "idle" /\ Len(<<>>) = 0
  BY DEF Init
<1>2. PICK w : w = pend /\ Len(w) = 0
  BY <1>1
<1>3. Replay(disk, w)[0] = disk
  BY <1>2, ReplaySteps
<1>4. Logged = disk
  BY <1>2, <1>3 DEF Logged
<1>5. Part(disk, disk)
  BY <1>1, PartPrefix
<1> QED BY <1>1, <1>4, <1>5 DEF ReloadInv, LastAsked, InLog, Answering

LEMMA ReloadStep ==
  ASSUME Inv, RequestInv, ReloadInv, [Next]_vars PROVE ReloadInv'
BY SetupReload, PrepareReload, SummarisedReload, StreamReload, ProtocolErrorReload, HandleStopReload,
   AppendResultsReload, CancelInQueryReload, CancelInConsumerReload, UserContextReload, CrashReload,
   WriteReload, OtherReload DEF Next, LoopStep

\* Leaving out summaries and markers, the history is part of what the log replays to,
\* for any number of turns, retries, compactions, failed writes and crashes, unless a
\* write was lost that no snapshot replaced or a round lost a result.
THEOREM HistoryCanBeReloaded == Spec => []HistoryReloads
<1>1. Init => Inv /\ RequestInv /\ ReloadInv
  BY InitInv, RequestInit, ReloadInit
<1>2. (Inv /\ RequestInv /\ ReloadInv) /\ [Next]_vars => (Inv /\ RequestInv /\ ReloadInv)'
  BY NextKeeps, RequestStep, ReloadStep
<1>3. Inv /\ RequestInv /\ ReloadInv => HistoryReloads
  <2> SUFFICES ASSUME Inv, RequestInv, ReloadInv, ~torn, lost = {}
               PROVE  IsSubsequence(KeepAt(history, {i \in DOMAIN history : history[i] # Note}), Logged)
    BY DEF HistoryReloads
  <2>1. CallsAreNew /\ Stored
    BY DEF Inv, RequestInv
  <2>2. Part(history, Logged)
    BY DEF ReloadInv, Reloadable, InLog
  <2> QED BY <2>1, <2>2, LogFacts, PartIsSubsequence
<1> QED BY <1>1, <1>2, <1>3, PTL DEF Spec
=============================================================================
