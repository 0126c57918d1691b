----------------------------- MODULE ToolBroker -----------------------------
(***************************************************************************)
(* The MCP tool broker (house_mcp_tool_broker_v0.py) and the provider tool *)
(* surface built from it (house_provider_tool_surface_v0.py).  The broker  *)
(* keeps a catalog file of servers and discovered tools and a table of     *)
(* open sessions in memory.  Every public method runs under one re-entrant *)
(* lock, call_tool included, so each is one atomic action; a restart loses *)
(* the sessions and keeps the file.                                        *)
(*                                                                         *)
(* A server's four connection fields are one value of Connections, and a   *)
(* tool's input schema is one value of Schemas: schema identities are      *)
(* hashes of the schema, so equal identity is equal schema.                *)
(***************************************************************************)
EXTENDS Naturals, FiniteSets

CONSTANTS
  Servers,      \* server_id values
  Tools,        \* tool_identity values
  ServerOf,     \* the server each tool identity names
  Connections,  \* (transport, endpoint, target, credential) of a server record
  Schemas,      \* tool_schema_identity values
  ReviewedServers, \* keys of DEFAULT_REVIEWED_READ_ONLY_CAPABILITIES
  Nil           \* an absent record, session or schema

ASSUME ServerOfAssumption == ServerOf \in [Tools -> Servers]

ASSUME ReviewedAssumption == ReviewedServers \subseteq Servers

VARIABLES
  servers,   \* catalog "servers": id -> record, or Nil
  tools,     \* catalog "tools": identity -> record, or Nil
  bound,     \* catalog "source_bindings": servers with an installed source
  sessions,  \* _sessions: id -> the connection it was opened with, or Nil
  reviewed   \* history: <<tool, schema, connection>> somebody made available

brokerVars == <<servers, tools, bound, sessions, reviewed>>

\* provider_capability_profile: the default profile is read by nobody, the
\* other one puts a tool of an unlisted server on the surface.
Profiles == {"unclassified", "read_only_low_v0"}

\* The catalog's records.
ServerRecords == [connection : Connections, enabled : BOOLEAN]
ToolRecords == [schema : Schemas, available : BOOLEAN, profile : Profiles]

ASSUME NilAssumption == Nil \notin Connections \cup Schemas \cup ServerRecords \cup ToolRecords

\* What a server lists, or a reviewed source contains: some of its tools.
Listings(s) == [{t \in Tools : ServerOf[t] = s} -> Schemas \cup {Nil}]

BrokerInit ==
  /\ servers = [s \in Servers |-> Nil]
  /\ tools = [t \in Tools |-> Nil]
  /\ bound = {}
  /\ sessions = [s \in Servers |-> Nil]
  /\ reviewed = {}

AddServer(s, connection, enabled) ==
  /\ servers[s] = Nil
  /\ servers' = [servers EXCEPT ![s] =
       [connection |-> connection, enabled |-> enabled]]
  /\ UNCHANGED <<tools, bound, sessions, reviewed>>

\* update_server's filter: a changed connection field drops the server's tools.
ToolsAfterUpdate(s, connection) ==
  IF servers[s].connection = connection THEN tools
  ELSE [t \in Tools |-> IF ServerOf[t] = s THEN Nil ELSE tools[t]]

\* Fault: the session opened with the old record stays in use.
SeededDisconnected(s) == sessions

\* disconnect: the session is forgotten whether or not it closes cleanly.
Disconnected(s) == [sessions EXCEPT ![s] = Nil]

(***************************************************************************)
(* update_server and disable_server: any change disconnects, also one of   *)
(* the name only.  The installed sources stay recorded.                    *)
(***************************************************************************)
UpdateServer(s, connection, enabled) ==
  /\ servers[s] # Nil
  /\ servers' = [servers EXCEPT ![s] = [connection |-> connection, enabled |-> enabled]]
  /\ tools' = ToolsAfterUpdate(s, connection)
  /\ sessions' = Disconnected(s)
  /\ UNCHANGED <<bound, reviewed>>

Disconnect(s) ==
  /\ sessions[s] # Nil
  /\ sessions' = Disconnected(s)
  /\ UNCHANGED <<servers, tools, bound, reviewed>>

-----------------------------------------------------------------------------
(***************************************************************************)
(* connect, called by reconnect, test_connection, discover_tools and       *)
(* call_tool.  A cached session is used as it is.                          *)
(***************************************************************************)
Enabled(s) == servers[s] # Nil /\ servers[s].enabled

ConnectedTo(s) ==
  IF sessions[s] # Nil THEN sessions[s] ELSE servers[s].connection

WithSession(s) == [sessions EXCEPT ![s] = ConnectedTo(s)]

Connect(s) ==
  /\ Enabled(s)
  /\ sessions' = WithSession(s)
  /\ UNCHANGED <<servers, tools, bound, reviewed>>

\* reconnect; when the connector fails the old session is gone (Disconnect).
Reconnect(s) ==
  /\ Enabled(s)
  /\ sessions' = [Disconnected(s) EXCEPT ![s] = servers[s].connection]
  /\ UNCHANGED <<servers, tools, bound, reviewed>>

-----------------------------------------------------------------------------
SameSchema(t, schema) == tools[t] # Nil /\ tools[t].schema = schema

\* A rediscovered tool keeps its availability and profile with its schema only.
DiscoveredRecord(t, schema) ==
  [schema |-> schema,
   available |-> SameSchema(t, schema) /\ tools[t].available,
   profile |-> IF SameSchema(t, schema) THEN tools[t].profile ELSE "unclassified"]

\* discover_tools replaces every tool of the server by what it lists now; when
\* the listing fails or is malformed only the session remains (Connect).
DiscoverTools(s, listing) ==
  /\ Enabled(s)
  /\ sessions' = WithSession(s)
  /\ tools' = [t \in Tools |->
       IF ServerOf[t] # s THEN tools[t]
       ELSE IF listing[t] = Nil THEN Nil ELSE DiscoveredRecord(t, listing[t])]
  /\ UNCHANGED <<servers, bound, reviewed>>

\* The three parts of a review: what was looked at, and where it leads.
Review(t, schema) == <<t, schema, servers[ServerOf[t]].connection>>

(***************************************************************************)
(* install_bound_tools: a reviewed source replaces the server's tools and  *)
(* its binding in one write; no session is needed.                         *)
(***************************************************************************)
InstallBoundTools(s, source, available, profile) ==
  /\ servers[s] # Nil
  /\ \E t \in DOMAIN source : source[t] # Nil
  /\ tools' = [t \in Tools |->
       IF ServerOf[t] # s THEN tools[t]
       ELSE IF source[t] = Nil THEN Nil
       ELSE [schema |-> source[t], available |-> available, profile |-> profile]]
  /\ bound' = bound \cup {s}
  /\ reviewed' = {r \in reviewed : ServerOf[r[1]] # s} \cup
       {Review(t, source[t]) : t \in {u \in DOMAIN source : available /\ source[u] # Nil}}
  /\ UNCHANGED <<servers, sessions>>

\* toggle_tool acts on the record in the catalog at that moment.
ToggleTool(t, available, profile) ==
  /\ tools[t] # Nil
  /\ tools' = [tools EXCEPT ![t].available = available, ![t].profile = profile]
  /\ reviewed' = {r \in reviewed : r[1] # t} \cup
       (IF available THEN {Review(t, tools[t].schema)} ELSE {})
  /\ UNCHANGED <<servers, bound, sessions>>

BrokerRestart ==
  /\ sessions' = [s \in Servers |-> Nil]
  /\ UNCHANGED <<servers, tools, bound, reviewed>>

-----------------------------------------------------------------------------
\* search_tools and load_tool(require_available)
Offered(t) == tools[t] # Nil /\ tools[t].available /\ Enabled(ServerOf[t])

(***************************************************************************)
(* build_provider_tool_surface.  Servers of the reviewed list come with a  *)
(* capability of their own, other tools need the read-only profile.  Two   *)
(* broker calls per tool, so the catalog can change in between; a tool     *)
(* that did change makes the build fail (SurfaceFails).                    *)
(***************************************************************************)
OnSurface(t) ==
  /\ Offered(t)
  /\ ServerOf[t] \in ReviewedServers \/ tools[t].profile = "read_only_low_v0"

Surface == [t \in Tools |-> IF OnSurface(t) THEN tools[t].schema ELSE Nil]

\* call_tool's checks before the session: load_tool, then the schema identity.
Callable(t, schema) == Offered(t) /\ tools[t].schema = schema

\* call_tool once they pass: connect, and the session takes the call.
CallTool(t, schema) ==
  /\ Callable(t, schema)
  /\ sessions' = WithSession(ServerOf[t])
  /\ UNCHANGED <<servers, tools, bound, reviewed>>

\* call_tool when they do not pass, or when the connection cannot be opened.
CallToolRefused(t, schema) ==
  /\ Callable(t, schema) => sessions[ServerOf[t]] = Nil
  /\ UNCHANGED brokerVars

Administer ==
  \/ \E s \in Servers, c \in Connections, e \in BOOLEAN :
       AddServer(s, c, e) \/ UpdateServer(s, c, e)
  \/ \E s \in Servers :
       \/ Disconnect(s) \/ Connect(s) \/ Reconnect(s)
       \/ \E l \in Listings(s) : DiscoverTools(s, l)
       \/ \E l \in Listings(s), a \in BOOLEAN, p \in Profiles :
            InstallBoundTools(s, l, a, p)
  \/ \E t \in Tools, a \in BOOLEAN, p \in Profiles : ToggleTool(t, a, p)
=============================================================================
