----------------------------- MODULE MCRuntimeCall -----------------------------
(* Small instances of RuntimeCall: every provider and mode, at most one thing *)
(* missing or wrong, and replies that differ in one respect from a good one.  *)
EXTENDS RuntimeCall, TLC

Config(provider, transport, endpoint, mode) ==
  [provider |-> provider, transport |-> transport, endpoint |-> endpoint, mode |-> mode,
   missing |-> {}, tools |-> FALSE, root |-> TRUE, compared |-> TRUE]

LiveConfigs ==
  {Config("openai_compatible", "live_http", e, "success") : e \in {"responses", "chat_completions"}}
  \cup {Config("anthropic_compatible", "fixture", "responses", "success")}

MCConfigs ==
  LiveConfigs
  \cup {[c EXCEPT !.root = FALSE] : c \in LiveConfigs}
  \cup {[c EXCEPT !.compared = FALSE] : c \in LiveConfigs}
  \cup {[c EXCEPT !.missing = {m}] : c \in LiveConfigs, m \in {"key", "base_url", "approval", "model"}}
  \cup {Config("openai_compatible", "live_http", "messages", "success")}
  \cup {Config("openai_compatible", "fixture", e, m) :
          e \in {"responses", "chat_completions"},
          m \in {"success", "timeout", "malformed_response", "rate_limit", "provider_error",
                 "auth_error", "unsupported_response_shape", "missing_text"}}
  \cup {Config(p, "fixture", "responses", m) :
          p \in LocalProviders, m \in {"success", "timeout", "malformed_response", "provider_error"}}
  \cup {Config("mock_provider", "fixture", "responses", "rate_limit")}
  \cup {Config(p, "fixture", "responses", "success") : p \in {"disabled", "local", "other"}}

Plain == [valid |-> TRUE, projection |-> "none", tools |-> FALSE, packet |-> FALSE]

MCRequests ==
  {Plain, [Plain EXCEPT !.valid = FALSE], [Plain EXCEPT !.projection = "same_model"],
   [Plain EXCEPT !.projection = "other_model"], [Plain EXCEPT !.tools = TRUE],
   [Plain EXCEPT !.packet = TRUE]}

Reply(holder, parts) ==
  [status |-> "2xx", form |-> "object", object |-> "response", id |-> TRUE, top |-> FALSE,
   holder |-> holder, parts |-> parts]

Good == Reply("output", {"text"})

MCReplies ==
  {Reply(h, p) : h \in {"output", "choices", "content", "nothing"},
                 p \in SUBSET {"text", "blank", "tool"}}
  \cup {[Reply("output", {"tool"}) EXCEPT !.top = TRUE], [Good EXCEPT !.id = FALSE],
        [Good EXCEPT !.object = "unknown"], [Good EXCEPT !.object = "chat.completion"]}
  \cup {[Good EXCEPT !.status = x] : x \in {"auth", "limit", "4xx", "5xx", "other"}}
  \cup {[Good EXCEPT !.form = x] : x \in {"stream", "text", "list", "bytes"}}
================================================================================
