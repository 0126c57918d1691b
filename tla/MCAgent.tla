------------------------------ MODULE MCAgent ------------------------------
(***************************************************************************)
(* Small instances of AgentLoop, one per question:                         *)
(*   catalog  one operation, one tool, an administrator who changes the    *)
(*            connection, the schema and the availability under it         *)
(*   retries  one operation run again and again over one ledger with a     *)
(*            fixed catalog of two tools, two calls a leg, crashes         *)
(*   rivals   two runners of one operation, one call a leg                 *)
(*   evidence one operation of every mode whose trace and dispatch row are *)
(*            written to a disk that may fail, and that may be cancelled   *)
(*   adapter  no operation, but one call of the main runtime (RuntimeCall) *)
(***************************************************************************)
EXTENDS AgentLoop, MCRuntimeCall, TLC

CONSTANTS s1, s2, t1, t2, r1, r2, k1, k2, x1, x2, op

VARIABLE world

mcVars == <<agentVars, call, world>>

MCServerOf == (t1 :> s1) @@ (t2 :> s2)
MCCalls == (0 .. MaxLegs - 1) \X (1 .. MaxIndex)
MCParentOf == [c \in MCCalls |-> op]
MCBindings == [tool : {t1, t2}, schema : {x1, x2}, args : {"complete", "malformed"}]

Worlds == {"catalog", "retries", "rivals", "evidence", "adapter"}

\* add_server, then install_bound_tools of both tools.
Installed ==
  /\ servers = [s \in Servers |-> [connection |-> k1, enabled |-> TRUE]]
  /\ tools = [t \in Tools |-> [schema |-> x1, available |-> TRUE, profile |-> "read_only_low_v0"]]
  /\ bound = Servers
  /\ sessions = [s \in Servers |-> Nil]
  /\ reviewed = {<<t, x1, k1>> : t \in Tools}

MCInit ==
  /\ world \in Worlds
  /\ LedgerInit /\ RuntimeInit
  /\ acted = [c \in Calls |-> {}]
  /\ reply = [r \in Runners |-> FALSE]
  /\ run \in [Runners -> {Idle(m) : m \in Modes}]
  /\ IF world = "catalog" THEN BrokerInit ELSE Installed
  /\ world # "evidence" => \A r \in Runners : run[r].mode = "free"
  /\ run[r2].mode = "free"

Used ==
  [catalog |-> {r1}, retries |-> {r1}, rivals |-> {r1, r2},
   evidence |-> {r1}, adapter |-> {}][world]

AskedFor == {run[r].asked[c] : r \in Runners, c \in Calls} \ {None}

\* What an instance leaves out: calls the model could make, catalogs, and
\* outside "evidence" a vault that works, a dispatch row and cancellation.
Small ==
  /\ world # "retries" => \A r \in Runners : \A c \in Calls : c[2] = 2 => run[r].asked[c] = None
  /\ world = "catalog" =>
       /\ servers[s2] = Nil
       /\ \A b \in AskedFor : b.args = "complete"
       /\ \A t \in Tools : tools[t] # Nil => tools[t].profile = "unclassified"
  /\ world = "evidence" => \A b \in AskedFor : b.tool = t1 /\ b.args = "complete"
  /\ world # "evidence" => \A r \in Runners :
       /\ run[r].pc = "send" => run[r].trace.failed
       /\ run[r].observed = NoObservation
       /\ ~run[r].cancel

Within(A) == A /\ UNCHANGED <<call, world>> /\ Small'

MCNext ==
  \/ \E r \in Used : Within(Operate(r))
  \/ world = "catalog" /\ Within(Administers)
  \/ world # "adapter" /\ Within(ServiceRestarts)
  \/ world = "adapter" /\ RuntimeNext /\ UNCHANGED <<agentVars, world>>

MCSpec == MCInit /\ [][MCNext]_mcVars
=============================================================================
