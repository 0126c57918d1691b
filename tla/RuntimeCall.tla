------------------------------ MODULE RuntimeCall ------------------------------
(***************************************************************************)
(* One call of the main runtime (main_runtime_provider_adapter_v0.py): the *)
(* request and the configuration are checked, a local provider answers by  *)
(* itself, a live one over the traced transport, and whatever happens is   *)
(* turned into one response.  The trace is written on the way (see         *)
(* ProviderTrace) and the process may end at any step.                     *)
(*                                                                         *)
(* A reply stands for what the provider sent: its status, what its bytes   *)
(* are, the kind of object, and which parts its content has.               *)
(***************************************************************************)
EXTENDS ProviderTrace

CONSTANTS
  Configs,    \* configurations, as load_main_model_config reads them
  Requests,
  Replies     \* what a provider may send back

\* Whether there is a text at the top of an object.
ASSUME RepliesAssumption == \A reply \in Replies : reply.top \in BOOLEAN

VARIABLE call

LiveProviders == {"openai_compatible", "anthropic_compatible"}
LocalProviders == {"fake", "mock_provider"}

\* Named in the configuration, and without an adapter.
NamedProviders == {"local", "openai", "openai_responses", "deepseek"}

\* The anthropic adapter has no fixture.
Live(c) ==
  \/ c.provider = "anthropic_compatible"
  \/ c.provider = "openai_compatible" /\ c.transport = "live_http"

Silent == [status |-> "none", form |-> "none"]

RuntimeIdle ==
  [at |-> "idle", config |-> [provider |-> "none"], sent |-> 0, rehearsed |-> FALSE, observed |-> FALSE, reply |-> Silent,
   governed |-> FALSE, trace |-> [files |-> {}, claims |-> {}, failed |-> FALSE],
   said |-> FALSE, errors |-> {}, called |-> FALSE, facts |-> FALSE]

RuntimeInit == call = RuntimeIdle

(***************************************************************************)
(* What is refused before anything is done                                 *)
(***************************************************************************)

\* preflight_provider_config: the first thing that is missing.
ConfigErrors(c) ==
  IF c.provider = "disabled" THEN {"provider_disabled"}
  ELSE IF c.provider \notin LiveProviders \cup LocalProviders \cup NamedProviders
         THEN {"unsupported_provider"}
  ELSE IF c.provider \notin {"fake", "local"} /\ "key" \in c.missing THEN {"missing_api_key"}
  ELSE IF c.provider \in LiveProviders /\ "base_url" \in c.missing THEN {"missing_base_url"}
  ELSE IF Live(c) /\ "approval" \in c.missing THEN {"live_http_disabled"}
  ELSE IF Live(c) /\ "model" \in c.missing THEN {"missing_model"}
  ELSE IF /\ c.provider = "openai_compatible" /\ Live(c)
          /\ c.endpoint \notin {"responses", "chat_completions"}
         THEN {"unsupported_endpoint_family"}
  ELSE {}

\* preflight_request_against_config: a projection needs its own route and
\* model, tools are never offered to an openai provider, and a live one gets no
\* packet of context.
RouteErrors(c, r) ==
  (IF r.projection = "none" THEN {}
   ELSE IF c.provider # "openai_compatible" \/ c.endpoint # "chat_completions"
          THEN {"chat_projection_route_mismatch"}
   ELSE IF r.projection # "same_model" THEN {"chat_projection_model_mismatch"} ELSE {})
  \cup (IF r.tools /\ (~c.tools \/ c.provider = "openai_compatible")
          THEN {"unsupported_tools"} ELSE {})
  \cup (IF r.packet /\ c.provider = "openai_compatible" /\ Live(c)
          THEN {"context_packet_not_allowed"} ELSE {})

\* validate_runtime_request.
RequestErrors(r) == IF r.valid THEN {} ELSE {"invalid_request"}

Refusals(c, r) ==
  LET E == RequestErrors(r) \cup ConfigErrors(c) \cup RouteErrors(c, r) IN
  IF E = {} /\ c.provider \in NamedProviders THEN {"real_provider_not_implemented"} ELSE E

\* _provider_trace_bridge: without a root there is no bridge, and with the
\* bridge goes the transport policy of the gates.
Bridges(c) == IF c.root THEN NewTraces ELSE {RuntimeIdle.trace}

Begin(c, r) ==
  /\ call.at = "idle"
  /\ \E t \in Bridges(c) :
       call' = [call EXCEPT !.trace = t, !.governed = c.root, !.errors = Refusals(c, r),
                            !.called = Refusals(c, r) = {} /\ Live(c),
                            !.at = IF Refusals(c, r) # {} THEN "returned"
                                   ELSE IF Live(c) THEN "boundary" ELSE "local",
                            !.config = c]

Returns(errors, at) == call' = [call EXCEPT !.errors = errors, !.at = at]

(***************************************************************************)
(* Local providers                                                         *)
(***************************************************************************)

\* run_fake_provider: by the configured mode; the other modes succeed.
FakeErrors(c) ==
  IF c.mode \in {"timeout", "provider_error"} THEN {c.mode}
  ELSE IF c.mode = "malformed_response" THEN {"malformed_provider_response"} ELSE {}

\* run_mock_provider_client, and the normaliser of its replies.
MockErrors(c) == IF c.mode = "rate_limit" THEN {"rate_limit"} ELSE FakeErrors(c)

AnswerLocally ==
  /\ call.at = "local" /\ call.config.provider \in LocalProviders
  /\ LET E == IF call.config.provider = "fake" THEN FakeErrors(call.config)
                                              ELSE MockErrors(call.config) IN
     call' = [call EXCEPT !.errors = E, !.said = E = {}, !.at = "returned"]

\* run_openai_compatible_fixture_client: a reply without a request.
FixtureReply(c) ==
  [status |-> "2xx", form |-> "object", top |-> FALSE,
   object |-> IF c.mode = "unsupported_response_shape" THEN "unknown"
              ELSE IF c.endpoint = "chat_completions" /\ c.mode # "malformed_response"
                     THEN "chat.completion" ELSE "response",
   id |-> c.mode # "malformed_response",
   holder |-> IF c.endpoint = "chat_completions" THEN "choices" ELSE "output",
   parts |-> IF c.mode = "missing_text" THEN {"blank"} ELSE {"text"}]

AnswerFromFixture ==
  /\ call.at = "local" /\ call.config.provider = "openai_compatible"
  /\ CASE call.config.mode \in {"timeout", "rate_limit", "auth_error", "provider_error"} ->
            Returns({call.config.mode}, "returned")
       [] OTHER -> call' = [call EXCEPT !.reply = FixtureReply(call.config), !.at = "parsed"]

(***************************************************************************)
(* The traced transport                                                    *)
(***************************************************************************)

\* The boundary of the rehearsal or the policy of a gate refuses: nothing has
\* been captured and nothing leaves.
RefusedAtBoundary ==
  /\ call.at = "boundary" /\ call.governed
  /\ Returns({"provider_error"}, "settled")

CaptureBody ==
  /\ call.at = "boundary"
  /\ \E t \in IF call.governed THEN BeginAttempt(call.trace) ELSE {call.trace} :
       call' = [call EXCEPT !.trace = t, !.at = "send"]

\* The exact bytes arrive, from the provider or from the rehearsal.
Arrives(reply, sent) ==
  \E t \in RecordResponse(call.trace) :
    call' = [call EXCEPT !.trace = t, !.reply = reply, !.at = "arrived",
                         !.sent = @ + sent, !.rehearsed = sent = 0]

\* intercept_final_transport: the rehearsal answers in the provider's place.
Intercepted(reply) ==
  /\ call.at = "send" /\ call.governed
  /\ Arrives(reply, 0)

TransportReplies(reply) ==
  /\ call.at = "send"
  /\ Arrives(reply, 1)

\* Also when the interception itself raises, before anything has left.
TransportRaises(error, sent) ==
  /\ call.at = "send"
  /\ sent = 0 => call.governed /\ error = "provider_error"
  /\ \E t \in RecordTransportError(call.trace) :
       call' = [call EXCEPT !.trace = t, !.sent = @ + sent, !.errors = {error}, !.at = "settled"]

\* Fault: the status is looked at when the body cannot be read.
SeededPayloadErrors(reply) ==
  IF reply.form = "object" THEN {}
  ELSE IF reply.status # "2xx" THEN {"provider_4xx"} ELSE {"malformed_provider_response"}

\* parse_openai_compatible_http_payload: the status first, then the bytes.
PayloadErrors(reply) ==
  CASE reply.status = "auth" -> {"auth_error"}
    [] reply.status = "limit" -> {"rate_limit"}
    [] reply.status = "4xx" -> {"provider_4xx"}
    [] reply.status = "5xx" -> {"provider_5xx"}
    [] reply.status = "2xx" ->
         CASE reply.form = "stream" -> {"unexpected_streaming_response"}
           [] reply.form = "text" -> {"malformed_json"}
           [] reply.form = "object" -> {}
           [] OTHER -> {"malformed_provider_response"}
    [] OTHER -> {"provider_non_2xx"}

\* run_validated_client, and what an exception becomes.
ParsePayload ==
  /\ call.at = "arrived"
  /\ LET E == PayloadErrors(call.reply) IN
     \E t \in RecordVerdict(call.trace, IF E = {} THEN "accepted" ELSE "rejected") :
       call' = [call EXCEPT !.trace = t, !.errors = E, !.observed = E = {},
                            !.at = IF E = {} THEN "parsed" ELSE "settled"]

(***************************************************************************)
(* The normalisers                                                         *)
(***************************************************************************)

\* extract_openai_compatible_output_text: a text at the top is taken before
\* anything else is looked at.
OpenAITextErrors(reply) ==
  CASE reply.top -> {}
    [] ~reply.top /\ reply.holder \notin {"output", "choices"} -> {"unsupported_response_shape"}
    [] ~reply.top /\ reply.holder \in {"output", "choices"} ->
         IF "tool" \in reply.parts THEN {"provider_tool_request"}
         ELSE IF "text" \in reply.parts THEN {}
         ELSE IF reply.holder = "choices" /\ reply.parts = {} THEN {"unsupported_response_shape"}
         ELSE {"missing_output_text"}

OpenAIErrors(reply) ==
  CASE reply.object = "unknown" -> {"unsupported_response_shape"}
    [] reply.object = "response" /\ ~reply.id -> {"malformed_provider_response"}
    [] OTHER -> OpenAITextErrors(reply)

\* normalize_anthropic_compatible_response: the texts of the content, whatever
\* else is in it.
AnthropicErrors(reply) ==
  IF reply.holder = "content" /\ "text" \in reply.parts THEN {} ELSE {"missing_output_text"}

NormaliserErrors ==
  IF call.config.provider = "openai_compatible" THEN OpenAIErrors(call.reply)
                                                ELSE AnthropicErrors(call.reply)

Received(t) == "response" \in t.claims

\* record_stage: a label in the manifest.
Stage(t, label) == IF HasReceipt(t) THEN Capture(t, {}, {label}) ELSE {t}

NormalisePayload ==
  /\ call.at = "parsed"
  /\ LET E == NormaliserErrors IN
     \E t \in IF Received(call.trace)
                THEN Stage(call.trace, IF E = {} THEN "normalised" ELSE "not_normalised")
                ELSE {call.trace} :
       call' = [call EXCEPT !.trace = t, !.errors = E, !.said = E = {},
                            !.at = IF Live(call.config) THEN "settled" ELSE "returned"]

(***************************************************************************)
(* The response                                                            *)
(***************************************************************************)

\* The dispatch facts are of a live chat completion that is compared with its
\* shadow, and need the digest that only a parsed payload carries.
HasFacts ==
  /\ call.config.provider = "openai_compatible" /\ Live(call.config)
  /\ call.config.endpoint = "chat_completions" /\ call.config.compared
  /\ call.observed

\* validate_runtime_response accepts what build_response built.
ValidateResponse ==
  /\ call.at = "settled"
  /\ \E t \in Stage(call.trace, "response_valid") :
       call' = [call EXCEPT !.trace = t, !.facts = HasFacts, !.at = "validated"]

FinishCall ==
  /\ call.at = "validated"
  /\ \E t \in Stage(call.trace, IF call.errors = {} THEN "final_ok" ELSE "final_failed") :
       call' = [call EXCEPT !.trace = t, !.at = "returned"]

CallDies ==
  /\ call.at \notin {"idle", "returned", "dead"}
  /\ call' = [call EXCEPT !.at = "dead"]

\* Every call starts afresh; nothing is kept between two but the vault.
NextCall ==
  /\ call.at \in {"returned", "dead"}
  /\ call' = RuntimeIdle

RuntimeNext ==
  \/ \E c \in Configs, r \in Requests : Begin(c, r)
  \/ AnswerLocally \/ AnswerFromFixture
  \/ RefusedAtBoundary \/ CaptureBody
  \/ \E reply \in Replies : Intercepted(reply) \/ TransportReplies(reply)
  \/ \E error \in {"timeout", "network_error", "provider_error"}, sent \in {0, 1} :
       TransportRaises(error, sent)
  \/ ParsePayload \/ NormalisePayload
  \/ ValidateResponse \/ FinishCall
  \/ CallDies \/ NextCall

RuntimeSpec == RuntimeInit /\ [][RuntimeNext]_call

(***************************************************************************)
(* Properties                                                              *)
(***************************************************************************)

\* The reply that a live call may answer from: a readable success with a text,
\* and no request for a tool that the normaliser looks at.
Answers(reply) ==
  /\ reply.status = "2xx" /\ reply.form = "object"
  /\ reply.top \/ "text" \in reply.parts
  /\ "tool" \in reply.parts => reply.top \/ call.config.provider = "anthropic_compatible"

\* A live call says something only when its one request was answered by such a
\* reply, it never denies a request that left, and its dispatch facts are those
\* of a reply that was read.  What the trace says of its end is what the caller
\* was told, after every stage before it, wherever the vault or the process
\* stopped (call_main_runtime, parse_openai_compatible_http_payload, the
\* normalisers, run_validated_client, record_stage).
AnswersAreEarned ==
  LET Told == call.trace.claims IN
  /\ call.sent = 1 => call.called /\ ~call.rehearsed
  /\ call.said /\ call.called =>
       Answers(call.reply) /\ (call.sent = 1 \/ call.rehearsed)
  /\ call.facts => call.called /\ call.reply.status = "2xx" /\ call.reply.form = "object"
  /\ ClaimsHold(call.trace)
  /\ "final_ok" \in Told =>
       call.said /\ {"response", "accepted", "normalised", "response_valid"} \subseteq Told
  /\ "final_failed" \in Told => ~call.said
  /\ call.at = "returned" =>
       /\ call.said <=> call.errors = {}
       /\ HasReceipt(call.trace) =>
            IF call.said THEN "final_ok" \in Told ELSE "final_failed" \in Told
================================================================================
