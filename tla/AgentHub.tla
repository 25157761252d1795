------------------------------ MODULE AgentHub ------------------------------
(***************************************************************************)
(* The three processes of a DeepCLI runtime and the way of a prompt        *)
(* through them: the Access Agent sends it to the Agent Hub, the hub looks *)
(* the Primary Agent up and forwards it, the runtime service of the        *)
(* Primary Agent queues it in its session, and what the turn streams goes  *)
(* back over the connection of the prompt.  One session is modelled.       *)
(***************************************************************************)
EXTENDS Naturals, Sequences, FiniteSets

CONSTANTS
  NumPrompts,  \* how many prompts clients send, all to one session
  None

ASSUME HubAssumption == NumPrompts \in Nat /\ None \notin 1..NumPrompts

\* Prompts are numbered in the order in which they are sent.
Prompts == 1..NumPrompts

VARIABLES
  child,    \* child[c]: the process of c - none, boot, up, term (signalled), dead
  file,     \* the runtime files on disk, named by the process that writes them
  record,   \* the hub holds a runtime record of the Primary Agent
  req,      \* req[p]: the Access Agent's request - new, runtime, answered (or an error)
  runq,     \* prompts in the session manager of the Primary Agent, the first runs
  bound,    \* the session in the Primary Agent: absent, bound (has a sender), dropped
  peer,     \* sender.client_peer: the prompt whose connection the sender streams to
  mine,     \* prompts of runq that hold the session's current sender
  clean     \* prompts that had the session's sender to themselves so far

hubVars == <<child, file, record, req, runq, bound, peer, mine, clean>>
pathVars == <<req, runq, bound, peer, mine, clean>>

Children == {"hub", "access", "primary"}

Live(c) == child[c] \in {"boot", "up", "term"}

\* A forwarded call reaches the Primary Agent.
Reachable == child["access"] = "up" /\ child["hub"] = "up" /\ record /\ child["primary"] = "up"

HubInit ==
  /\ child = [c \in Children |-> "none"]
  /\ file = {}
  /\ record = FALSE
  /\ req = [p \in Prompts |-> "new"]
  /\ runq = <<>>
  /\ bound = "absent"
  /\ peer = None
  /\ mine = {}
  /\ clean = {}

InService == {runq[i] : i \in DOMAIN runq}

-----------------------------------------------------------------------------
(* Processes *)

\* agent_hub/__main__: serve, then write the runtime file.
HubBoots ==
  /\ child["hub"] = "boot"
  /\ child' = [child EXCEPT !["hub"] = "up"]
  /\ file' = file \cup {"hub"}
  /\ UNCHANGED <<record, pathVars>>

AccessBoots ==
  /\ child["access"] = "boot"
  /\ child' = [child EXCEPT !["access"] = "up"]
  /\ UNCHANGED <<file, record, pathVars>>

\* The Primary Agent serves, registers with the hub and then writes its runtime
\* file; it exits when the hub does not take the registration.
_register_agent ==
  /\ child["primary"] = "boot"
  /\ IF child["hub"] = "up"
     THEN /\ child' = [child EXCEPT !["primary"] = "up"]
          /\ record' = TRUE
          /\ file' = file \cup {"primary"}
     ELSE /\ child' = [child EXCEPT !["primary"] = "dead"]
          /\ UNCHANGED <<record, file>>
  /\ UNCHANGED pathVars

Mutant_GonePrimaryOnly(c) ==
  /\ child' = [child EXCEPT ![c] = "dead"]
  /\ req' = [p \in Prompts |-> IF req[p] = "runtime" /\ c # "primary" THEN "answered" ELSE req[p]]
  /\ clean' = {}
  /\ IF c = "primary"
     THEN runq' = <<>> /\ bound' = "absent" /\ peer' = None /\ mine' = {}
     ELSE UNCHANGED <<runq, bound, peer, mine>>
  /\ UNCHANGED <<file, record>>

\* What the end of a process does: every prompt in service has a connection through it,
\* and the sessions of the Primary Agent are gone with it.
Gone(c) ==
  /\ child' = [child EXCEPT ![c] = "dead"]
  /\ req' = [p \in Prompts |-> IF req[p] = "runtime" THEN "answered" ELSE req[p]]
  /\ clean' = {}
  /\ IF c = "primary"
     THEN runq' = <<>> /\ bound' = "absent" /\ peer' = None /\ mine' = {}
     ELSE UNCHANGED <<runq, bound, peer, mine>>
  /\ UNCHANGED <<file, record>>

-----------------------------------------------------------------------------
(* The path of a prompt *)

Mutant_PeerSetOnce(p) ==
  /\ runq' = Append(runq, p)
  /\ peer' = peer
  /\ mine' = mine \cup {p}
  /\ clean' = IF runq = <<>> /\ bound = "bound" THEN {p} ELSE {}

\* AgentSessionRuntimeService.prompt: the call points the session's sender at its
\* own connection and joins the turn queue of the session.
EnterService(p) ==
  /\ runq' = Append(runq, p)
  /\ peer' = p
  /\ mine' = mine \cup {p}
  /\ clean' = IF runq = <<>> /\ bound = "bound" THEN {p} ELSE {}

\* The hub resolves the default route and the record and connects to the Primary
\* Agent, whose session manager knows the session or not.
_forward_agent_contract == child["hub"] = "up" /\ record /\ child["primary"] = "up" /\ bound # "absent"

Mutant_SendAgain(p) ==
  /\ (req[p] = "new" \/ (req[p] = "answered" /\ p \in InService)) /\ \A q \in 1..(p - 1) : req[q] # "new"
  /\ child["access"] = "up"
  /\ IF _forward_agent_contract
     THEN EnterService(p) /\ req' = [req EXCEPT ![p] = "runtime"]
     ELSE req' = [req EXCEPT ![p] = "answered"] /\ UNCHANGED <<runq, peer, mine, clean>>
  /\ UNCHANGED <<child, file, record, bound>>

\* The Access Agent sends the prompt to the hub, once; every failure on the way to the
\* session manager is an error response.
_route_agent_prompt_through_hub(p) ==
  /\ req[p] = "new" /\ \A q \in 1..(p - 1) : req[q] # "new"
  /\ child["access"] = "up"
  /\ IF _forward_agent_contract
     THEN EnterService(p) /\ req' = [req EXCEPT ![p] = "runtime"]
     ELSE req' = [req EXCEPT ![p] = "answered"] /\ UNCHANGED <<runq, peer, mine, clean>>
  /\ UNCHANGED <<child, file, record, bound>>

\* An update or a question of the running turn reaches a client: the sender is the
\* session's, has a peer, and the peer's connection is open.
Arrives == bound = "bound" /\ peer # None /\ req[peer] = "runtime"

\* _broadcast of the running turn: a sender without peer only collects the update; one
\* whose peer's connection has closed raises and is dropped from the session.
_broadcast ==
  /\ runq # <<>>
  /\ bound = "bound" /\ peer # None /\ ~Arrives
  /\ bound' = "dropped"
  /\ clean' = {}
  /\ UNCHANGED <<child, file, record, req, runq, peer, mine>>

\* The turn ends and its call returns: `finally: sender.client_peer = None`.
PromptReturns ==
  /\ runq # <<>>
  /\ LET p == Head(runq)
     IN /\ runq' = Tail(runq)
        /\ peer' = IF p \in mine THEN None ELSE peer
        /\ mine' = mine \ {p}
        /\ clean' = clean \ {p}
        /\ req' = [req EXCEPT ![p] = IF req[p] = "runtime" THEN "answered" ELSE req[p]]
  /\ UNCHANGED <<child, file, record, bound>>

\* session/new, load and resume through _route_agent_contract_through_hub: the
\* session gets a new sender, which no prompt has pointed at its connection yet.
\* The retry while the runtime is not registered ends in this step or in none.
load_session ==
  /\ Reachable
  /\ bound' = "bound"
  /\ peer' = None
  /\ mine' = {}
  /\ clean' = {}
  /\ UNCHANGED <<child, file, record, req, runq>>

\* $/cancel_request or a client that disconnects: the Access Agent's handler ends and
\* closes its connection to the hub; the turn goes on.
_cancel_incoming_request(p) ==
  /\ req[p] = "runtime"
  /\ req' = [req EXCEPT ![p] = "answered"]
  /\ clean' = clean \ {p}
  /\ UNCHANGED <<child, file, record, runq, bound, peer, mine>>

HubTypeOK ==
  /\ child \in [Children -> {"none", "boot", "up", "term", "dead"}]
  /\ file \subseteq {"hub", "primary"}
  /\ record \in BOOLEAN
  /\ req \in [Prompts -> {"new", "runtime", "answered"}]
  /\ InService \subseteq Prompts /\ Len(runq) = Cardinality(InService)
  /\ bound \in {"absent", "bound", "dropped"}
  /\ peer \in Prompts \cup {None}
  /\ mine \subseteq InService
  /\ clean \subseteq InService

-----------------------------------------------------------------------------
(* Properties *)

\* While a prompt has its session's sender to itself - no other prompt of the session
\* overlaps it, the session is not loaded again meanwhile, its client keeps waiting and no
\* earlier broken stream has dropped the sender - what its turn sends goes to its own
\* client ("must reach the client during execution, not after").
CleanPromptStreams == \A p \in clean : p = Head(runq) /\ peer = p /\ Arrives

\* Every prompt that reached the Primary Agent is answered, by its turn or by an error,
\* whichever process ends meanwhile: in the end no request is left waiting.
RequestsEnd == <>[](\A p \in Prompts : req[p] # "runtime")
=============================================================================
