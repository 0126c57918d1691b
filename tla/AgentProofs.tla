----------------------------- MODULE AgentProofs -----------------------------
(***************************************************************************)
(* Proofs about the provider agent loop with its broker, its tool-call     *)
(* ledger and its leg traces (AgentLoop), and about one call of the main   *)
(* runtime (RuntimeCall), which writes the same trace.                     *)
(*                                                                         *)
(* The runtime's call (CInv): what the trace claims is in its files, and a *)
(* reply is read only past the gate of the step before.                    *)
(*                                                                         *)
(* The agent (AInv) is four invariants that lean on each other:            *)
(*   BInv      every session is on its server's connection, and what the   *)
(*             catalog offers was reviewed for that connection             *)
(*   LInv      a stored result is of its row's state, and a row says a     *)
(*             call succeeded only when its binding took effect            *)
(*   Faithful  a runner's answers are to what it asked, the calls of       *)
(*             earlier legs are all answered, and what it is about to      *)
(*             store as a success took effect                              *)
(*   Evident   what the trace and the dispatch row may say at each step    *)
(* Several runners, and those before and after a restart, share broker and *)
(* ledger; a runner keeps its part because effects are never taken back.   *)
(***************************************************************************)
EXTENDS AgentLoop, RuntimeCall, TLAPS

Labels == Claims \cup {"normalised", "not_normalised", "response_valid", "final_ok", "final_failed"}

Traces == [files : SUBSET Files, claims : SUBSET Labels, failed : BOOLEAN]

\* What a vault call leaves: all of it when the bridge goes on; after a failure
\* nothing, the file alone, or both.
LEMMA CaptureIs ==
  ASSUME NEW t \in Traces, NEW file \in SUBSET Files, NEW claim \in SUBSET Labels,
         NEW u \in Capture(t, file, claim)
  PROVE  /\ u \in Traces
         /\ t.files \subseteq u.files
         /\ \/ u.claims = t.claims
            \/ u.claims = t.claims \cup claim /\ file \subseteq u.files
         /\ u.failed \/ (~t.failed /\ u.claims = t.claims \cup claim)
<1>1. CASE t.failed
  BY <1>1 DEF Capture
<1>2. CASE ~t.failed
  <2>1. PICK w : w = Written(t, file, claim)
    OBVIOUS
  <2>2. PICK v : v = Written(t, file, {})
    OBVIOUS
  <2>3. /\ w \in Traces /\ w.files = t.files \cup file /\ w.claims = t.claims \cup claim
        /\ v \in Traces /\ v.files = t.files \cup file /\ v.claims = t.claims
    BY <2>1, <2>2 DEF Written, Traces
  <2>4. u = w \/ \E x \in {t, v, w} : u = [x EXCEPT !.failed = TRUE]
    BY <1>2, <2>1, <2>2 DEF Capture, PartlyWritten
  <2>5. CASE u = w
    BY <1>2, <2>5, <2>3 DEF Traces
  <2>6. ASSUME NEW x \in {t, v, w}, u = [x EXCEPT !.failed = TRUE] 
        PROVE  u \in Traces /\ u.failed /\ u.files = x.files /\ u.claims = x.claims
    BY <2>6, <2>3 DEF Traces
  <2> QED BY <2>3, <2>4, <2>5, <2>6
<1> QED BY <1>1, <1>2

LEMMA BeginAttemptIs ==
  ASSUME NEW t \in Traces, NEW u \in BeginAttempt(t)
  PROVE  /\ u \in Traces /\ t.files \subseteq u.files
         /\ \/ u.claims = t.claims
            \/ u.claims = t.claims \cup {"request"} /\ "request" \in u.files
<1>1. PICK f : f = {"request"}
  OBVIOUS
<1>2. f \in SUBSET Files /\ f \in SUBSET Labels /\ "request" \in f
  BY <1>1 DEF Files, Labels, Claims
<1>3. u \in Capture(t, f, f)
  BY <1>1 DEF BeginAttempt
<1>4. /\ u \in Traces /\ t.files \subseteq u.files
      /\ u.claims = t.claims \/ (u.claims = t.claims \cup f /\ f \subseteq u.files)
  BY <1>2, <1>3, CaptureIs
<1> QED BY <1>1, <1>2, <1>4

\* A label without a file.
LEMMA LabelledIs ==
  ASSUME NEW t \in Traces, NEW label \in Labels, NEW u \in Capture(t, {}, {label})
  PROVE  /\ u \in Traces /\ t.files \subseteq u.files
         /\ u.claims = t.claims \/ u.claims = t.claims \cup {label}
         /\ ~u.failed => ~t.failed /\ label \in u.claims
<1>1. PICK c : c = {label}
  OBVIOUS
<1>2. PICK f : f = {}
  OBVIOUS
<1>3. f \in SUBSET Files /\ c \in SUBSET Labels
  BY <1>1, <1>2
<1>4. u \in Capture(t, f, c)
  BY <1>1, <1>2
<1>5. /\ u \in Traces /\ t.files \subseteq u.files
      /\ u.claims = t.claims \/ u.claims = t.claims \cup c
  BY <1>3, <1>4, CaptureIs
<1>6. u.failed \/ (~t.failed /\ u.claims = t.claims \cup c)
  BY <1>3, <1>4, CaptureIs
<1> QED BY <1>1, <1>5, <1>6

LEMMA RecordTransportErrorIs ==
  ASSUME NEW t \in Traces, NEW u \in RecordTransportError(t)
  PROVE  /\ u \in Traces /\ t.files \subseteq u.files
         /\ \/ u.claims = t.claims
            \/ u.claims = t.claims \cup {"transport_error"} /\ "request" \in t.claims
<1>1. "transport_error" \in Labels
  BY DEF Labels, Claims
<1> QED BY <1>1, LabelledIs DEF RecordTransportError, HasReceipt

LEMMA RecordResponseIs ==
  ASSUME NEW t \in Traces, NEW u \in RecordResponse(t)
  PROVE  /\ u \in Traces /\ t.files \subseteq u.files
         /\ \/ u.claims = t.claims
            \/ /\ u.claims = t.claims \cup {"response"}
               /\ "request" \in t.claims /\ "response" \in u.files
         /\ HasReceipt(u) => "response" \in u.claims
<1>1. PICK c : c = {"response"}
  OBVIOUS
<1>2. c \in SUBSET Files /\ c \in SUBSET Labels /\ "response" \in c
  BY <1>1 DEF Labels, Claims, Files
<1>3. CASE ~HasReceipt(t)
  BY <1>3 DEF RecordResponse
<1>4. CASE HasReceipt(t) /\ "response" \in t.claims
  <2>1. u = [t EXCEPT !.failed = TRUE]
    BY <1>4 DEF RecordResponse
  <2>2. u \in Traces /\ u.files = t.files /\ u.claims = t.claims
    BY <2>1 DEF Traces
  <2> QED BY <2>2, <1>4
<1>5. CASE HasReceipt(t) /\ "response" \notin t.claims
  <2>1. u \in Capture(t, c, c)
    BY <1>1, <1>5 DEF RecordResponse
  <2>2. /\ u \in Traces /\ t.files \subseteq u.files
        /\ u.claims = t.claims \/ (u.claims = t.claims \cup c /\ c \subseteq u.files)
        /\ ~u.failed => u.claims = t.claims \cup c
    BY <1>2, <2>1, CaptureIs
  <2>3. HasReceipt(u) => "response" \in u.claims
    BY <2>2, <1>2 DEF HasReceipt
  <2> QED BY <1>1, <1>2, <1>5, <2>2, <2>3 DEF HasReceipt
<1> QED BY <1>3, <1>4, <1>5

LEMMA RecordVerdictIs ==
  ASSUME NEW t \in Traces, NEW verdict \in Claims, NEW u \in RecordVerdict(t, verdict)
  PROVE  /\ u \in Traces /\ t.files \subseteq u.files
         /\ \/ u.claims = t.claims
            \/ u.claims = t.claims \cup {verdict} /\ {"request", "response"} \subseteq t.claims
         /\ HasReceipt(u) =>
              HasReceipt(t) /\ ("response" \in t.claims => verdict \in u.claims)
<1>1. verdict \in Labels
  BY DEF Labels
<1>2. CASE u = t /\ ~(HasReceipt(t) /\ "response" \in t.claims)
  BY <1>2
<1>3. CASE HasReceipt(t) /\ "response" \in t.claims /\ u \in Capture(t, {}, {verdict})
  <2>1. /\ u \in Traces /\ t.files \subseteq u.files
        /\ u.claims = t.claims \/ u.claims = t.claims \cup {verdict}
        /\ ~u.failed => ~t.failed /\ verdict \in u.claims
    BY <1>1, <1>3, LabelledIs
  <2> QED BY <1>3, <2>1 DEF HasReceipt
<1> QED BY <1>2, <1>3 DEF RecordVerdict

\* The label of a stage is in the manifest, or the bridge has failed.
LEMMA StageIs ==
  ASSUME NEW t \in Traces, NEW label \in Labels, NEW u \in Stage(t, label)
  PROVE  /\ u \in Traces /\ t.files \subseteq u.files
         /\ u.claims = t.claims \/ (u.claims = t.claims \cup {label} /\ HasReceipt(t))
         /\ HasReceipt(u) => HasReceipt(t) /\ label \in u.claims
<1>1. CASE u = t /\ ~HasReceipt(t)
  BY <1>1
<1>2. CASE HasReceipt(t) /\ u \in Capture(t, {}, {label})
  <2>1. /\ u \in Traces /\ t.files \subseteq u.files
        /\ u.claims = t.claims \/ u.claims = t.claims \cup {label}
        /\ ~u.failed => ~t.failed /\ label \in u.claims
    BY <1>2, LabelledIs
  <2> QED BY <1>2, <2>1 DEF HasReceipt
<1> QED BY <1>1, <1>2 DEF Stage

-----------------------------------------------------------------------------
Steps == {"idle", "local", "boundary", "send", "arrived", "parsed", "settled",
          "validated", "returned", "dead"}

\* The fields of a call; what it was given and what came back are of any kind.
CallShape(k) ==
  k \in [at : Steps, config : {k.config}, sent : {0, 1}, rehearsed : BOOLEAN, observed : BOOLEAN,
         reply : {k.reply}, governed : {k.governed}, trace : Traces, said : BOOLEAN,
         errors : {k.errors}, called : BOOLEAN, facts : BOOLEAN]

\* Answers, for a reply that was read.
Speaks(k) ==
  /\ k.reply.top \/ "text" \in k.reply.parts
  /\ "tool" \in k.reply.parts => k.reply.top \/ k.config.provider = "anthropic_compatible"

\* What is so at every moment of a call.
Throughout(k) ==
  /\ ClaimsHold(k.trace)
  /\ k.called => Live(k.config) /\ k.reply \in Replies \cup {Silent}
  /\ ~k.called => k.trace.claims = {} /\ k.sent = 0
  /\ k.sent = 1 => ~k.rehearsed
  /\ k.observed => k.called /\ k.reply.status = "2xx" /\ k.reply.form = "object"
  /\ k.facts => k.observed
  /\ k.said /\ k.called => k.observed /\ (k.sent = 1 \/ k.rehearsed) /\ Speaks(k)
  /\ "final_ok" \in k.trace.claims =>
       k.said /\ {"response", "accepted", "normalised", "response_valid"} \subseteq k.trace.claims
  /\ "final_failed" \in k.trace.claims => ~k.said

\* How far it has come.
SoFar(k) ==
  /\ k.at = "idle" => k = RuntimeIdle
  /\ k.at \in {"idle", "local"} => ~k.called
  /\ k.at \in {"idle", "local", "boundary", "send", "arrived"} => ~k.observed
  /\ k.at \in {"idle", "local", "boundary", "send", "arrived", "parsed", "settled"} => ~k.facts
  /\ k.at = "local" => ~Live(k.config)
  /\ k.at \in {"boundary", "send"} => k.called /\ k.sent = 0 /\ ~k.rehearsed
  /\ k.at = "parsed" => (k.called <=> Live(k.config))
  /\ k.at \in {"arrived", "settled", "validated"} => k.called
  /\ k.at \in {"arrived", "parsed"} /\ k.called => k.sent = 1 \/ k.rehearsed
  /\ k.at = "parsed" /\ k.called => k.observed
  /\ k.at \in {"idle", "local", "boundary", "send", "arrived", "parsed"} => ~k.said
  /\ k.at \in {"settled", "validated", "returned"} => (k.said <=> k.errors = {})

\* What the manifest may claim by then, and what it does when the vault works.
ToldSoFar(k) ==
  LET Told == k.trace.claims IN
  /\ k.at \in {"idle", "boundary"} => Told = {}
  /\ k.at = "send" => Told \subseteq {"request"}
  /\ k.at = "arrived" => Told \subseteq {"request", "response"}
  /\ k.at = "parsed" => Told \subseteq {"request", "response", "accepted"}
  /\ HasReceipt(k.trace) =>
       /\ k.at = "arrived" => "response" \in Told
       /\ k.at = "parsed" => {"response", "accepted"} \subseteq Told
       /\ k.at \in {"settled", "validated"} /\ k.said =>
            {"response", "accepted", "normalised"} \subseteq Told
       /\ k.at = "validated" /\ k.said => "response_valid" \in Told
       /\ k.at = "returned" => IF k.said THEN "final_ok" \in Told ELSE "final_failed" \in Told

CallHolds(k) == CallShape(k) /\ Throughout(k) /\ SoFar(k) /\ ToldSoFar(k)

CInv == CallHolds(call)

LEMMA CInvInit == CallHolds(RuntimeIdle)
<1> PICK k : k = RuntimeIdle
  OBVIOUS
<1>0. CallShape(k)
  BY DEF RuntimeIdle, CallShape, Steps, Traces
<1>1. /\ k.at = "idle" /\ k.sent = 0 /\ ~k.observed /\ ~k.said /\ ~k.called /\ ~k.facts
      /\ k.trace.claims = {} /\ k.trace.files = {}
  BY DEF RuntimeIdle
<1>2. Throughout(k)
  BY <1>1 DEF Throughout, ClaimsHold
<1>3. SoFar(k) /\ ToldSoFar(k)
  BY <1>1 DEF SoFar, ToldSoFar, HasReceipt
<1> QED BY <1>0, <1>2, <1>3 DEF CallHolds

\* The facts of a new trace.
LEMMA BridgesAre ==
  ASSUME NEW c, NEW t \in Bridges(c)
  PROVE  t \in Traces /\ t.claims = {} /\ t.files = {}
<1>1. RuntimeIdle.trace \in NewTraces
  BY DEF RuntimeIdle, NewTraces
<1>2. t \in NewTraces
  BY <1>1 DEF Bridges
<1> QED BY <1>2 DEF NewTraces, Traces

LEMMA BeginStep ==
  ASSUME CInv, NEW c \in Configs, NEW r \in Requests, Begin(c, r)
  PROVE  CInv'
<1> PICK k : k = call
  OBVIOUS
<1> PICK t \in Bridges(c) :
       call' = [k EXCEPT !.trace = t, !.governed = c.root, !.errors = Refusals(c, r),
                            !.called = Refusals(c, r) = {} /\ Live(c),
                            !.at = IF Refusals(c, r) # {} THEN "returned"
                                   ELSE IF Live(c) THEN "boundary" ELSE "local",
                            !.config = c]
  BY DEF Begin
<1>0. k.at = "idle" /\ CallShape(k) /\ Throughout(k) /\ SoFar(k) /\ ToldSoFar(k)
  BY DEF Begin, CInv, CallHolds
<1>1. PICK E : E = Refusals(c, r)
  OBVIOUS
<1>3. PICK live \in BOOLEAN : live <=> (E = {} /\ Live(c))
  OBVIOUS
<1>4. PICK a : a = IF E # {} THEN "returned" ELSE IF Live(c) THEN "boundary" ELSE "local"
  OBVIOUS
<1>5. PICK n : n = [k EXCEPT !.trace = t, !.governed = c.root, !.errors = E, !.called = live,
                             !.at = a, !.config = c]
  OBVIOUS
<1>6. call' = n
  BY <1>1, <1>3, <1>4, <1>5
<1>7. a \in Steps /\ t \in Traces /\ t.claims = {} /\ t.files = {}
  BY <1>4, BridgesAre DEF Steps
<1>8. CallShape(n)
  BY <1>0, <1>5, <1>7 DEF CallShape
<1>9. /\ n.trace = t /\ n.errors = E /\ n.called = live /\ n.at = a /\ n.config = c
      /\ n.sent = k.sent /\ n.rehearsed = k.rehearsed /\ n.observed = k.observed
      /\ n.said = k.said /\ n.facts = k.facts /\ n.reply = k.reply
  BY <1>0, <1>5 DEF CallShape
<1>10. /\ n.sent = 0 /\ ~n.rehearsed /\ ~n.observed /\ ~n.said /\ ~n.facts /\ n.reply = Silent
  BY <1>0, <1>9 DEF SoFar, RuntimeIdle
<1>11. Throughout(n)
  BY <1>3, <1>7, <1>9, <1>10 DEF Throughout, ClaimsHold
<1>12. SoFar(n)
  <2>1. CASE E # {}
    <3>1. a = "returned"
      BY <1>4, <2>1
    <3> QED BY <3>1, <2>1, <1>9, <1>10 DEF SoFar
  <2>2. CASE E = {} /\ Live(c)
    <3>1. a = "boundary" /\ live
      BY <1>3, <1>4, <2>2
    <3> QED BY <3>1, <1>9, <1>10 DEF SoFar
  <2>3. CASE E = {} /\ ~Live(c)
    <3>1. a = "local" /\ ~live
      BY <1>3, <1>4, <2>3
    <3> QED BY <3>1, <2>3, <1>9, <1>10 DEF SoFar
  <2> QED BY <2>1, <2>2, <2>3
<1>13. ToldSoFar(n)
  BY <1>4, <1>7, <1>9 DEF ToldSoFar, HasReceipt
<1> QED BY <1>6, <1>8, <1>11, <1>12, <1>13 DEF CInv, CallHolds

LEMMA AnswerLocallyStep ==
  ASSUME CInv, AnswerLocally
  PROVE  CInv'
<1> PICK k : k = call
  OBVIOUS
<1>0. k.at = "local" /\ CallShape(k) /\ Throughout(k) /\ SoFar(k) /\ ToldSoFar(k)
  BY DEF AnswerLocally, CInv, CallHolds
<1>1. PICK E : call' = [k EXCEPT !.errors = E, !.said = E = {}, !.at = "returned"]
  BY DEF AnswerLocally
<1>2. PICK none \in BOOLEAN : none <=> E = {}
  OBVIOUS
<1>3. PICK n : n = [k EXCEPT !.errors = E, !.said = none, !.at = "returned"]
  OBVIOUS
<1>4. call' = n
  BY <1>1, <1>2, <1>3
<1>5. CallShape(n)
  BY <1>0, <1>3 DEF CallShape, Steps
<1>6. n = [k EXCEPT !.errors = n.errors, !.said = n.said, !.at = n.at] 
  BY <1>0, <1>3 DEF CallShape
<1>7. /\ n.errors = E /\ n.said = none /\ n.at = "returned" /\ n.trace = k.trace
      /\ n.called = k.called /\ n.sent = k.sent /\ n.rehearsed = k.rehearsed
      /\ n.observed = k.observed /\ n.facts = k.facts /\ n.reply = k.reply /\ n.config = k.config
  BY <1>0, <1>3 DEF CallShape
<1>8. ~n.called /\ n.trace.claims = {} /\ ~n.facts /\ ~n.observed /\ n.sent = 0
  BY <1>0, <1>7 DEF SoFar, Throughout
<1>9. Throughout(n)
  BY <1>0, <1>7, <1>8 DEF Throughout, ClaimsHold
<1>10. SoFar(n) /\ ToldSoFar(n)
  BY <1>2, <1>7, <1>8 DEF SoFar, ToldSoFar, HasReceipt
<1> QED BY <1>4, <1>5, <1>9, <1>10 DEF CInv, CallHolds

LEMMA AnswerFromFixtureStep ==
  ASSUME CInv, AnswerFromFixture
  PROVE  CInv'
<1> PICK k : k = call
  OBVIOUS
<1>0. k.at = "local" /\ CallShape(k) /\ Throughout(k) /\ SoFar(k) /\ ToldSoFar(k)
  BY DEF AnswerFromFixture, CInv, CallHolds
<1>1. CASE call' = [k EXCEPT !.errors = {k.config.mode}, !.at = "returned"]
  <2>1. PICK n : n = [k EXCEPT !.errors = {k.config.mode}, !.at = "returned"]
    OBVIOUS
  <2>2. CallShape(n)
    BY <1>0, <2>1 DEF CallShape, Steps
  <2>3. /\ n.errors # {} /\ n.said = k.said /\ n.at = "returned" /\ n.trace = k.trace
        /\ n.called = k.called /\ n.sent = k.sent /\ n.rehearsed = k.rehearsed
        /\ n.observed = k.observed /\ n.facts = k.facts /\ n.reply = k.reply /\ n.config = k.config
    BY <1>0, <2>1 DEF CallShape
  <2>4. ~n.called /\ n.trace.claims = {} /\ ~n.facts /\ ~n.observed /\ n.sent = 0 /\ ~n.said
    BY <1>0, <2>3 DEF SoFar, Throughout
  <2>5. Throughout(n) /\ SoFar(n) /\ ToldSoFar(n)
    BY <1>0, <2>3, <2>4 DEF Throughout, ClaimsHold, SoFar, ToldSoFar, HasReceipt
  <2> QED BY <1>1, <2>1, <2>2, <2>5 DEF CInv, CallHolds
<1>2. CASE call' = [k EXCEPT !.reply = FixtureReply(k.config), !.at = "parsed"]
  <2>1. PICK n : n = [k EXCEPT !.reply = FixtureReply(k.config), !.at = "parsed"]
    OBVIOUS
  <2>2. CallShape(n)
    BY <1>0, <2>1 DEF CallShape, Steps
  <2>3. /\ n.said = k.said /\ n.at = "parsed" /\ n.trace = k.trace
        /\ n.called = k.called /\ n.sent = k.sent /\ n.rehearsed = k.rehearsed
        /\ n.observed = k.observed /\ n.facts = k.facts /\ n.config = k.config
    BY <1>0, <2>1 DEF CallShape
  <2>4. ~n.called /\ n.trace.claims = {} /\ ~n.facts /\ ~n.observed /\ n.sent = 0 /\ ~n.said
    BY <1>0, <2>3 DEF SoFar, Throughout
  <2>5. ~Live(n.config)
    BY <1>0, <2>3 DEF SoFar
  <2>6. Throughout(n) /\ SoFar(n) /\ ToldSoFar(n)
    BY <1>0, <2>3, <2>4, <2>5 DEF Throughout, ClaimsHold, SoFar, ToldSoFar, HasReceipt
  <2> QED BY <1>2, <2>1, <2>2, <2>6 DEF CInv, CallHolds
<1> QED BY <1>1, <1>2 DEF AnswerFromFixture, Returns

LEMMA RefusedAtBoundaryStep ==
  ASSUME CInv, RefusedAtBoundary
  PROVE  CInv'
<1> PICK k : k = call
  OBVIOUS
<1>0. k.at = "boundary" /\ CallShape(k) /\ Throughout(k) /\ SoFar(k) /\ ToldSoFar(k)
  BY DEF RefusedAtBoundary, CInv, CallHolds
<1>1. PICK n : n = [k EXCEPT !.errors = {"provider_error"}, !.at = "settled"]
  OBVIOUS
<1>2. call' = n
  BY <1>1 DEF RefusedAtBoundary, Returns
<1>3. CallShape(n)
  BY <1>0, <1>1 DEF CallShape, Steps
<1>4. /\ n.errors # {} /\ n.said = k.said /\ n.at = "settled" /\ n.trace = k.trace
      /\ n.called = k.called /\ n.sent = k.sent /\ n.rehearsed = k.rehearsed
      /\ n.observed = k.observed /\ n.facts = k.facts /\ n.reply = k.reply /\ n.config = k.config
  BY <1>0, <1>1 DEF CallShape
<1>5. Throughout(n) /\ SoFar(n) /\ ToldSoFar(n)
  BY <1>0, <1>4 DEF Throughout, Speaks, SoFar, ToldSoFar, HasReceipt
<1> QED BY <1>2, <1>3, <1>5 DEF CInv, CallHolds

LEMMA CaptureBodyStep ==
  ASSUME CInv, CaptureBody
  PROVE  CInv'
<1> PICK k : k = call
  OBVIOUS
<1>0. k.at = "boundary" /\ CallShape(k) /\ Throughout(k) /\ SoFar(k) /\ ToldSoFar(k)
  BY DEF CaptureBody, CInv, CallHolds
<1>1. PICK t \in IF k.governed THEN BeginAttempt(k.trace) ELSE {k.trace} :
        call' = [k EXCEPT !.trace = t, !.at = "send"]
  BY DEF CaptureBody
<1>2. PICK n : n = [k EXCEPT !.trace = t, !.at = "send"]
  OBVIOUS
<1>3. k.trace \in Traces /\ k.trace.claims = {}
  BY <1>0 DEF CallShape, ToldSoFar
<1>4. t \in Traces /\ t.claims \subseteq {"request"} /\ ClaimsHold(t)
  <2>1. CASE t = k.trace
    BY <2>1, <1>3 DEF ClaimsHold
  <2>2. CASE t \in BeginAttempt(k.trace)
    <3>1. /\ t \in Traces /\ k.trace.files \subseteq t.files
          /\ \/ t.claims = k.trace.claims
             \/ t.claims = k.trace.claims \cup {"request"} /\ "request" \in t.files
      BY <2>2, <1>3, BeginAttemptIs
    <3> QED BY <3>1, <1>3 DEF ClaimsHold, Files
  <2> QED BY <1>1, <2>1, <2>2
<1>5. CallShape(n)
  BY <1>0, <1>2, <1>4 DEF CallShape, Steps
<1>6. /\ n.said = k.said /\ n.at = "send" /\ n.trace = t /\ n.errors = k.errors
      /\ n.called = k.called /\ n.sent = k.sent /\ n.rehearsed = k.rehearsed
      /\ n.observed = k.observed /\ n.facts = k.facts /\ n.reply = k.reply /\ n.config = k.config
  BY <1>0, <1>2 DEF CallShape
<1>7. n.called /\ ~n.said /\ n.sent = 0
  BY <1>0, <1>6 DEF SoFar
<1>8. Throughout(n) /\ SoFar(n) /\ ToldSoFar(n)
  BY <1>0, <1>4, <1>6, <1>7 DEF Throughout, SoFar, ToldSoFar, HasReceipt
<1> QED BY <1>1, <1>2, <1>5, <1>8 DEF CInv, CallHolds

\* A reply arrives, from outside (sent = 1) or from the rehearsal (sent = 0).
LEMMA ArrivesStep ==
  ASSUME CInv, call.at = "send", NEW reply1 \in Replies, NEW sent \in {0, 1},
         Arrives(reply1, sent)
  PROVE  CInv'
<1> PICK k : k = call
  OBVIOUS
<1>0. k.at = "send" /\ CallShape(k) /\ Throughout(k) /\ SoFar(k) /\ ToldSoFar(k)
  BY DEF CInv, CallHolds
<1>1. PICK t \in RecordResponse(k.trace) :
        call' = [k EXCEPT !.trace = t, !.reply = reply1, !.at = "arrived",
                          !.sent = k.sent + sent, !.rehearsed = sent = 0]
  BY DEF Arrives
<1>2. k.called /\ k.sent = 0 /\ ~k.rehearsed /\ ~k.said /\ k.trace.claims \subseteq {"request"}
      /\ k.trace \in Traces
  BY <1>0 DEF SoFar, ToldSoFar, CallShape
<1>3. PICK acts \in BOOLEAN : acts <=> sent = 0
  OBVIOUS
<1>4. PICK n : n = [k EXCEPT !.trace = t, !.reply = reply1, !.at = "arrived",
                             !.sent = sent, !.rehearsed = acts]
  OBVIOUS
<1>5. call' = n
  <2>1. k.sent + sent = sent
    BY <1>2
  <2> QED BY <1>1, <1>3, <1>4, <2>1
<1>6. /\ t \in Traces /\ k.trace.files \subseteq t.files
      /\ \/ t.claims = k.trace.claims
         \/ /\ t.claims = k.trace.claims \cup {"response"}
            /\ "request" \in k.trace.claims /\ "response" \in t.files
      /\ HasReceipt(t) => "response" \in t.claims
  BY <1>1, <1>2, RecordResponseIs
<1>7. CallShape(n)
  <2>1. CallShape(k) /\ "arrived" \in Steps /\ t \in Traces /\ sent \in {0, 1}
    BY <1>0, <1>6 DEF Steps
  <2> QED BY <1>4, <2>1 DEF CallShape
<1>8. /\ n.said = k.said /\ n.at = "arrived" /\ n.trace = t /\ n.errors = k.errors
      /\ n.called = k.called /\ n.sent = sent /\ n.rehearsed = acts
      /\ n.observed = k.observed /\ n.facts = k.facts /\ n.reply = reply1 /\ n.config = k.config
  BY <1>0, <1>4 DEF CallShape
<1>9. t.claims \subseteq {"request", "response"} /\ ClaimsHold(t)
  BY <1>0, <1>2, <1>6 DEF Throughout, ClaimsHold, Files
<1>10. ~n.observed /\ ~n.facts
  BY <1>0, <1>8 DEF SoFar, Throughout
<1>11. Throughout(n)
  BY <1>0, <1>2, <1>3, <1>8, <1>9, <1>10 DEF Throughout
<1>12. SoFar(n) /\ ToldSoFar(n)
  BY <1>2, <1>3, <1>6, <1>8, <1>9, <1>10 DEF SoFar, ToldSoFar
<1> QED BY <1>5, <1>7, <1>11, <1>12 DEF CInv, CallHolds

LEMMA TransportRaisesStep ==
  ASSUME CInv, NEW error, NEW sent \in {0, 1}, TransportRaises(error, sent)
  PROVE  CInv'
<1> PICK k : k = call
  OBVIOUS
<1>0. k.at = "send" /\ CallShape(k) /\ Throughout(k) /\ SoFar(k) /\ ToldSoFar(k)
  BY DEF TransportRaises, CInv, CallHolds
<1>1. PICK t \in RecordTransportError(k.trace) :
        call' = [k EXCEPT !.trace = t, !.sent = k.sent + sent, !.errors = {error}, !.at = "settled"]
  BY DEF TransportRaises
<1>2. k.called /\ k.sent = 0 /\ ~k.rehearsed /\ ~k.said /\ k.trace.claims \subseteq {"request"}
      /\ k.trace \in Traces
  BY <1>0 DEF SoFar, ToldSoFar, CallShape
<1>3. PICK E : E = {error}
  OBVIOUS
<1>4. PICK n : n = [k EXCEPT !.trace = t, !.sent = sent, !.errors = E, !.at = "settled"]
  OBVIOUS
<1>5. call' = n
  <2>1. k.sent + sent = sent
    BY <1>2
  <2> QED BY <1>1, <1>3, <1>4, <2>1
<1>6. /\ t \in Traces /\ k.trace.files \subseteq t.files
      /\ \/ t.claims = k.trace.claims
         \/ t.claims = k.trace.claims \cup {"transport_error"} /\ "request" \in k.trace.claims
  BY <1>1, <1>2, RecordTransportErrorIs
<1>7. CallShape(n)
  BY <1>0, <1>4, <1>6 DEF CallShape, Steps
<1>8. /\ n.said = k.said /\ n.at = "settled" /\ n.trace = t /\ n.errors # {}
      /\ n.called = k.called /\ n.sent = sent /\ n.rehearsed = k.rehearsed
      /\ n.observed = k.observed /\ n.facts = k.facts /\ n.reply = k.reply /\ n.config = k.config
  BY <1>0, <1>3, <1>4 DEF CallShape
<1>9. t.claims \subseteq {"request", "transport_error"} /\ ClaimsHold(t)
  BY <1>0, <1>2, <1>6 DEF Throughout, ClaimsHold, Files
<1>11. Throughout(n)
  BY <1>0, <1>2, <1>8, <1>9 DEF Throughout
<1>10. ~n.facts
  BY <1>0, <1>8 DEF SoFar
<1>12. SoFar(n) /\ ToldSoFar(n)
  BY <1>2, <1>8, <1>9, <1>10 DEF SoFar, ToldSoFar
<1> QED BY <1>5, <1>7, <1>11, <1>12 DEF CInv, CallHolds

\* What the parser lets through was read.
LEMMA PayloadIsRead ==
  ASSUME NEW reply1, PayloadErrors(reply1) = {}
  PROVE  reply1.status = "2xx" /\ reply1.form = "object"
BY DEF PayloadErrors

LEMMA ParsePayloadStep ==
  ASSUME CInv, ParsePayload
  PROVE  CInv'
<1> PICK k : k = call
  OBVIOUS
<1>0. k.at = "arrived" /\ CallShape(k) /\ Throughout(k) /\ SoFar(k) /\ ToldSoFar(k)
  BY DEF ParsePayload, CInv, CallHolds
<1>1. PICK E : E = PayloadErrors(k.reply)
  OBVIOUS
<1>2. PICK t \in RecordVerdict(k.trace, IF E = {} THEN "accepted" ELSE "rejected") :
        call' = [k EXCEPT !.trace = t, !.errors = E, !.observed = E = {},
                          !.at = IF E = {} THEN "parsed" ELSE "settled"]
  BY <1>1 DEF ParsePayload
<1>3. k.called /\ ~k.said /\ k.trace.claims \subseteq {"request", "response"} /\ k.trace \in Traces
      /\ (HasReceipt(k.trace) => "response" \in k.trace.claims)
      /\ (k.sent = 1 \/ k.rehearsed) /\ Live(k.config) /\ ~k.facts
  <2>1. ~k.facts
    BY <1>0 DEF SoFar
  <2> QED BY <1>0, <2>1 DEF SoFar, ToldSoFar, CallShape, Throughout
<1>4. CASE E = {}
  <2>1. PICK n : n = [k EXCEPT !.trace = t, !.errors = E, !.observed = TRUE, !.at = "parsed"]
    OBVIOUS
  <2>2. call' = n
    BY <1>2, <1>4, <2>1
  <2>3. "accepted" \in Claims /\ t \in RecordVerdict(k.trace, "accepted")
    BY <1>2, <1>4 DEF Claims
  <2>4. /\ t \in Traces /\ k.trace.files \subseteq t.files
        /\ \/ t.claims = k.trace.claims
           \/ t.claims = k.trace.claims \cup {"accepted"} /\ {"request", "response"} \subseteq k.trace.claims
        /\ HasReceipt(t) => HasReceipt(k.trace) /\ ("response" \in k.trace.claims => "accepted" \in t.claims)
    BY <1>3, <2>3, RecordVerdictIs
  <2>5. CallShape(n)
    BY <1>0, <2>1, <2>4 DEF CallShape, Steps
  <2>6. /\ n.said = k.said /\ n.at = "parsed" /\ n.trace = t /\ n.errors = E
        /\ n.called = k.called /\ n.sent = k.sent /\ n.rehearsed = k.rehearsed
        /\ n.observed = TRUE /\ n.facts = k.facts /\ n.reply = k.reply /\ n.config = k.config
    BY <1>0, <2>1 DEF CallShape
  <2>7. t.claims \subseteq {"request", "response", "accepted"} /\ ClaimsHold(t)
    BY <1>0, <1>3, <2>4 DEF Throughout, ClaimsHold, Files
  <2>8. n.reply.status = "2xx" /\ n.reply.form = "object"
    BY <1>1, <1>4, <2>6, PayloadIsRead
  <2>9. Throughout(n)
    BY <1>0, <1>3, <2>6, <2>7, <2>8 DEF Throughout
  <2>10. HasReceipt(t) => {"response", "accepted"} \subseteq t.claims
    BY <1>3, <2>4
  <2>11. SoFar(n) /\ ToldSoFar(n)
    BY <1>3, <2>6, <2>7, <2>10 DEF SoFar, ToldSoFar
  <2> QED BY <2>2, <2>5, <2>9, <2>11 DEF CInv, CallHolds
<1>5. CASE E # {}
  <2>1. PICK n : n = [k EXCEPT !.trace = t, !.errors = E, !.observed = FALSE, !.at = "settled"]
    OBVIOUS
  <2>2. call' = n
    BY <1>2, <1>5, <2>1
  <2>3. "rejected" \in Claims /\ t \in RecordVerdict(k.trace, "rejected")
    BY <1>2, <1>5 DEF Claims
  <2>4. /\ t \in Traces /\ k.trace.files \subseteq t.files
        /\ \/ t.claims = k.trace.claims
           \/ t.claims = k.trace.claims \cup {"rejected"} /\ {"request", "response"} \subseteq k.trace.claims
    BY <1>3, <2>3, RecordVerdictIs
  <2>5. CallShape(n)
    BY <1>0, <2>1, <2>4 DEF CallShape, Steps
  <2>6. /\ n.said = k.said /\ n.at = "settled" /\ n.trace = t /\ n.errors = E
        /\ n.called = k.called /\ n.sent = k.sent /\ n.rehearsed = k.rehearsed
        /\ n.observed = FALSE /\ n.facts = k.facts /\ n.reply = k.reply /\ n.config = k.config
    BY <1>0, <2>1 DEF CallShape
  <2>7. t.claims \subseteq {"request", "response", "rejected"} /\ ClaimsHold(t)
    BY <1>0, <1>3, <2>4 DEF Throughout, ClaimsHold, Files
  <2>9. Throughout(n)
    BY <1>0, <1>3, <2>6, <2>7 DEF Throughout
  <2>11. SoFar(n) /\ ToldSoFar(n)
    BY <1>3, <1>5, <2>6, <2>7 DEF SoFar, ToldSoFar
  <2> QED BY <2>2, <2>5, <2>9, <2>11 DEF CInv, CallHolds
<1> QED BY <1>4, <1>5

\* What the normalisers let through has a text, and no request for a tool.
LEMMA NormalisedSpeaks ==
  ASSUME NEW k, k = call, Live(k.config), k.reply.top \in BOOLEAN, NormaliserErrors = {}
  PROVE  Speaks(k)
<1>1. CASE k.config.provider = "openai_compatible"
  <2>1. OpenAIErrors(k.reply) = {}
    BY <1>1 DEF NormaliserErrors
  <2>2. OpenAITextErrors(k.reply) = {}
    BY <2>1 DEF OpenAIErrors
  <2>3. CASE k.reply.top
    BY <2>3 DEF Speaks
  <2>4. CASE ~k.reply.top
    <3>1. k.reply.holder \in {"output", "choices"}
      BY <2>2, <2>4 DEF OpenAITextErrors
    <3>2. "tool" \notin k.reply.parts /\ "text" \in k.reply.parts
      BY <2>2, <2>4, <3>1 DEF OpenAITextErrors
    <3> QED BY <3>2 DEF Speaks
  <2> QED BY <2>3, <2>4
<1>2. CASE k.config.provider # "openai_compatible"
  <2>1. k.config.provider = "anthropic_compatible"
    BY <1>2 DEF Live
  <2>2. AnthropicErrors(k.reply) = {}
    BY <1>2 DEF NormaliserErrors
  <2> QED BY <2>1, <2>2 DEF AnthropicErrors, Speaks
<1> QED BY <1>1, <1>2

LEMMA NormalisePayloadStep ==
  ASSUME CInv, NormalisePayload
  PROVE  CInv'
<1> PICK k : k = call
  OBVIOUS
<1>0. k.at = "parsed" /\ CallShape(k) /\ Throughout(k) /\ SoFar(k) /\ ToldSoFar(k)
  BY DEF NormalisePayload, CInv, CallHolds
<1>1. PICK E : E = NormaliserErrors
  OBVIOUS
<1>2. PICK label : label = IF E = {} THEN "normalised" ELSE "not_normalised"
  OBVIOUS
<1>3. PICK t \in IF Received(k.trace) THEN Stage(k.trace, label) ELSE {k.trace} :
        call' = [k EXCEPT !.trace = t, !.errors = E, !.said = E = {},
                          !.at = IF Live(k.config) THEN "settled" ELSE "returned"]
  BY <1>1, <1>2 DEF NormalisePayload
<1>4. /\ ~k.said /\ ~k.facts /\ k.trace \in Traces
      /\ k.trace.claims \subseteq {"request", "response", "accepted"}
      /\ ClaimsHold(k.trace)
  BY <1>0 DEF SoFar, ToldSoFar, CallShape, Throughout
<1>5. PICK none \in BOOLEAN : none <=> E = {}
  OBVIOUS
<1>6. CASE k.called
  <2>1. /\ Live(k.config) /\ k.observed /\ (k.sent = 1 \/ k.rehearsed)
        /\ k.reply.status = "2xx" /\ k.reply.form = "object" /\ k.reply.top \in BOOLEAN
    <3>1. Live(k.config) /\ k.observed /\ (k.sent = 1 \/ k.rehearsed)
      BY <1>0, <1>6 DEF SoFar
    <3>2. k.reply.status = "2xx" /\ k.reply.form = "object" /\ k.reply \in Replies \cup {Silent}
      BY <1>0, <1>6, <3>1 DEF Throughout
    <3>3. k.reply \in Replies
      BY <3>2 DEF Silent
    <3> QED BY <3>1, <3>2, <3>3, RepliesAssumption
  <2>2. PICK n : n = [k EXCEPT !.trace = t, !.errors = E, !.said = none, !.at = "settled"]
    OBVIOUS
  <2>3. call' = n
    BY <1>3, <1>5, <2>1, <2>2
  <2>4. label \in Labels /\ label \in {"normalised", "not_normalised"} /\ (none => label = "normalised")
    BY <1>2, <1>5 DEF Labels
  <2>5. /\ t \in Traces /\ k.trace.files \subseteq t.files
        /\ t.claims = k.trace.claims \/ (t.claims = k.trace.claims \cup {label} /\ HasReceipt(k.trace))
        /\ HasReceipt(t) =>
             HasReceipt(k.trace) /\ ("response" \in k.trace.claims => label \in t.claims)
    <3>1. CASE t \in Stage(k.trace, label)
      BY <1>4, <2>4, <3>1, StageIs
    <3>2. CASE t = k.trace /\ "response" \notin k.trace.claims
      BY <1>4, <3>2
    <3> QED BY <1>3, <3>1, <3>2 DEF Received
  <2>6. CallShape(n)
    BY <1>0, <2>2, <2>5 DEF CallShape, Steps
  <2>7. /\ n.said = none /\ n.at = "settled" /\ n.trace = t /\ n.errors = E
        /\ n.called = k.called /\ n.sent = k.sent /\ n.rehearsed = k.rehearsed
        /\ n.observed = k.observed /\ n.facts = k.facts /\ n.reply = k.reply /\ n.config = k.config
    BY <1>0, <2>2 DEF CallShape
  <2>8. /\ t.claims \subseteq {"request", "response", "accepted", "normalised", "not_normalised"}
        /\ ClaimsHold(t)
    BY <1>4, <2>4, <2>5 DEF ClaimsHold, Files, HasReceipt
  <2>9. none => Speaks(n)
    <3>1. none => Speaks(k)
      BY <1>1, <1>5, <2>1, NormalisedSpeaks
    <3> QED BY <3>1, <2>7 DEF Speaks
  <2>10. Throughout(n)
    BY <1>0, <1>6, <2>1, <2>7, <2>8, <2>9 DEF Throughout
  <2>11. HasReceipt(t) /\ none => {"response", "accepted", "normalised"} \subseteq t.claims
    <3>1. HasReceipt(k.trace) => {"response", "accepted"} \subseteq k.trace.claims
      BY <1>0, <1>6 DEF ToldSoFar
    <3> QED BY <3>1, <2>4, <2>5
  <2>12. SoFar(n)
    BY <1>4, <1>5, <1>6, <2>1, <2>7 DEF SoFar
  <2>13. ToldSoFar(n)
    BY <2>7, <2>11 DEF ToldSoFar
  <2> QED BY <2>3, <2>6, <2>10, <2>12, <2>13 DEF CInv, CallHolds
<1>7. CASE ~k.called
  <2>1. ~Live(k.config) /\ ~k.observed /\ k.sent = 0 /\ k.trace.claims = {} /\ t = k.trace
    <3>1. ~Live(k.config) /\ ~k.observed /\ k.sent = 0 /\ k.trace.claims = {}
      BY <1>0, <1>7 DEF SoFar, Throughout
    <3> QED BY <1>3, <3>1 DEF Received
  <2>2. PICK n : n = [k EXCEPT !.trace = t, !.errors = E, !.said = none, !.at = "returned"]
    OBVIOUS
  <2>3. call' = n
    BY <1>3, <1>5, <2>1, <2>2
  <2>4. CallShape(n)
    <3>1. CallShape(k) /\ "returned" \in Steps /\ t = k.trace /\ none \in BOOLEAN
      BY <1>0, <1>4, <2>1 DEF Steps
    <3> QED BY <2>2, <3>1 DEF CallShape
  <2>5. /\ n.said = none /\ n.at = "returned" /\ n.trace = k.trace /\ n.errors = E
        /\ n.called = k.called /\ n.sent = k.sent /\ n.rehearsed = k.rehearsed
        /\ n.observed = k.observed /\ n.facts = k.facts /\ n.reply = k.reply /\ n.config = k.config
    BY <1>0, <2>1, <2>2 DEF CallShape
  <2>6. Throughout(n)
    BY <1>4, <1>7, <2>1, <2>5 DEF Throughout
  <2>7. SoFar(n) /\ ToldSoFar(n)
    BY <1>5, <2>1, <2>5 DEF SoFar, ToldSoFar, HasReceipt
  <2> QED BY <2>3, <2>4, <2>6, <2>7 DEF CInv, CallHolds
<1> QED BY <1>6, <1>7

\* A stage of a settled call puts its label into the manifest.
LEMMA ValidateResponseStep ==
  ASSUME CInv, ValidateResponse
  PROVE  CInv'
<1> PICK k : k = call
  OBVIOUS
<1>0. k.at = "settled" /\ CallShape(k) /\ Throughout(k) /\ SoFar(k) /\ ToldSoFar(k)
  BY DEF ValidateResponse, CInv, CallHolds
<1>1. PICK t \in Stage(k.trace, "response_valid") :
        call' = [k EXCEPT !.trace = t, !.facts = HasFacts, !.at = "validated"]
  BY DEF ValidateResponse
<1>2. PICK facts \in BOOLEAN : facts <=> HasFacts
  OBVIOUS
<1>3. PICK n : n = [k EXCEPT !.trace = t, !.facts = facts, !.at = "validated"]
  OBVIOUS
<1>4. call' = n
  <2>1. HasFacts = facts
    BY <1>2 DEF HasFacts
  <2> QED BY <1>1, <1>3, <2>1
<1>5. facts => k.observed
  BY <1>2 DEF HasFacts
<1>6. k.trace \in Traces /\ "response_valid" \in Labels
  BY <1>0 DEF CallShape, Labels
<1>7. /\ t \in Traces /\ k.trace.files \subseteq t.files
      /\ t.claims = k.trace.claims \/ (t.claims = k.trace.claims \cup {"response_valid"} /\ HasReceipt(k.trace))
      /\ HasReceipt(t) => HasReceipt(k.trace) /\ "response_valid" \in t.claims
  BY <1>6, StageIs
<1>8. CallShape(n)
  BY <1>0, <1>3, <1>7 DEF CallShape, Steps
<1>9. /\ n.said = k.said /\ n.at = "validated" /\ n.trace = t /\ n.errors = k.errors
      /\ n.called = k.called /\ n.sent = k.sent /\ n.rehearsed = k.rehearsed
      /\ n.observed = k.observed /\ n.facts = facts /\ n.reply = k.reply /\ n.config = k.config
  BY <1>0, <1>3 DEF CallShape
<1>10. ClaimsHold(t)
  BY <1>0, <1>7 DEF Throughout, ClaimsHold, Files, HasReceipt
<1>11. Throughout(n)
  <2>1. k.called
    BY <1>0 DEF SoFar
  <2>2. Speaks(k) => Speaks(n)
    BY <1>9 DEF Speaks
  <2>3. /\ "final_ok" \in t.claims => "final_ok" \in k.trace.claims
        /\ "final_failed" \in t.claims => "final_failed" \in k.trace.claims
        /\ k.trace.claims \subseteq t.claims
    BY <1>7
  <2> QED BY <1>0, <1>5, <1>9, <1>10, <2>1, <2>2, <2>3 DEF Throughout
<1>12. SoFar(n)
  BY <1>0, <1>9 DEF SoFar
<1>13. ToldSoFar(n)
  BY <1>0, <1>7, <1>9 DEF ToldSoFar
<1> QED BY <1>4, <1>8, <1>11, <1>12, <1>13 DEF CInv, CallHolds

LEMMA FinishCallStep ==
  ASSUME CInv, FinishCall
  PROVE  CInv'
<1> PICK k : k = call
  OBVIOUS
<1>0. k.at = "validated" /\ CallShape(k) /\ Throughout(k) /\ SoFar(k) /\ ToldSoFar(k)
  BY DEF FinishCall, CInv, CallHolds
<1>1. PICK label : label = IF k.errors = {} THEN "final_ok" ELSE "final_failed"
  OBVIOUS
<1>2. PICK t \in Stage(k.trace, label) : call' = [k EXCEPT !.trace = t, !.at = "returned"]
  BY <1>1 DEF FinishCall
<1>3. PICK n : n = [k EXCEPT !.trace = t, !.at = "returned"]
  OBVIOUS
<1>4. k.trace \in Traces /\ label \in Labels /\ k.called
      /\ label \in {"final_ok", "final_failed"}
      /\ (label = "final_ok" <=> k.said)
  BY <1>0, <1>1 DEF CallShape, Labels, SoFar
<1>5. /\ t \in Traces /\ k.trace.files \subseteq t.files
      /\ t.claims = k.trace.claims \/ (t.claims = k.trace.claims \cup {label} /\ HasReceipt(k.trace))
      /\ HasReceipt(t) => HasReceipt(k.trace) /\ label \in t.claims
  BY <1>4, StageIs
<1>8. CallShape(n)
  BY <1>0, <1>3, <1>5 DEF CallShape, Steps
<1>9. /\ n.said = k.said /\ n.at = "returned" /\ n.trace = t /\ n.errors = k.errors
      /\ n.called = k.called /\ n.sent = k.sent /\ n.rehearsed = k.rehearsed
      /\ n.observed = k.observed /\ n.facts = k.facts /\ n.reply = k.reply /\ n.config = k.config
  BY <1>0, <1>3 DEF CallShape
<1>10. ClaimsHold(t)
  BY <1>0, <1>4, <1>5 DEF Throughout, ClaimsHold, Files, HasReceipt
<1>11. "final_ok" \in t.claims =>
         k.said /\ {"response", "accepted", "normalised", "response_valid"} \subseteq t.claims
  <2>1. CASE "final_ok" \in k.trace.claims
    BY <1>0, <1>5, <2>1 DEF Throughout
  <2>2. CASE "final_ok" \notin k.trace.claims /\ "final_ok" \in t.claims
    <3>1. label = "final_ok" /\ HasReceipt(k.trace) /\ k.trace.claims \subseteq t.claims
      BY <1>4, <1>5, <2>2
    <3> QED BY <1>0, <1>4, <3>1 DEF ToldSoFar
  <2> QED BY <2>1, <2>2
<1>12. "final_failed" \in t.claims => ~k.said
  BY <1>0, <1>4, <1>5 DEF Throughout
<1>13. Throughout(n)
  <2>1. Speaks(k) => Speaks(n)
    BY <1>9 DEF Speaks
  <2> QED BY <1>0, <1>4, <1>9, <1>10, <1>11, <1>12, <2>1 DEF Throughout
<1>14. SoFar(n)
  BY <1>0, <1>9 DEF SoFar
<1>15. ToldSoFar(n)
  BY <1>4, <1>5, <1>9 DEF ToldSoFar
<1> QED BY <1>2, <1>3, <1>8, <1>13, <1>14, <1>15 DEF CInv, CallHolds

LEMMA CallDiesStep ==
  ASSUME CInv, CallDies
  PROVE  CInv'
<1> PICK k : k = call
  OBVIOUS
<1>0. CallShape(k) /\ Throughout(k)
  BY DEF CInv, CallHolds
<1>1. PICK n : n = [k EXCEPT !.at = "dead"]
  OBVIOUS
<1>2. CallShape(n)
  BY <1>0, <1>1 DEF CallShape, Steps
<1>3. /\ n.said = k.said /\ n.at = "dead" /\ n.trace = k.trace /\ n.errors = k.errors
      /\ n.called = k.called /\ n.sent = k.sent /\ n.rehearsed = k.rehearsed
      /\ n.observed = k.observed /\ n.facts = k.facts /\ n.reply = k.reply /\ n.config = k.config
  BY <1>0, <1>1 DEF CallShape
<1>4. Throughout(n) /\ SoFar(n) /\ ToldSoFar(n)
  BY <1>0, <1>3 DEF Throughout, Speaks, SoFar, ToldSoFar
<1> QED BY <1>1, <1>2, <1>4 DEF CInv, CallHolds, CallDies

LEMMA CInvNext == CInv /\ [RuntimeNext]_call => CInv'
<1> SUFFICES ASSUME CInv, [RuntimeNext]_call PROVE CInv'
  OBVIOUS
<1>1. CASE UNCHANGED call
  BY <1>1 DEF CInv
<1>2. ASSUME NEW c \in Configs, NEW r \in Requests, Begin(c, r) PROVE CInv'
  BY <1>2, BeginStep
<1>3. ASSUME NEW reply1 \in Replies, Intercepted(reply1) \/ TransportReplies(reply1) PROVE CInv'
  <2>1. call.at = "send" /\ \E sent \in {0, 1} : Arrives(reply1, sent)
    BY <1>3 DEF Intercepted, TransportReplies
  <2> QED BY <2>1, ArrivesStep
<1>4. ASSUME NEW error, NEW sent \in {0, 1}, TransportRaises(error, sent) PROVE CInv'
  BY <1>4, TransportRaisesStep
<1>5. CASE NextCall
  BY <1>5, CInvInit DEF NextCall, CInv
<1> QED BY <1>1, <1>2, <1>3, <1>4, <1>5, AnswerLocallyStep, AnswerFromFixtureStep,
           RefusedAtBoundaryStep, CaptureBodyStep, ParsePayloadStep, NormalisePayloadStep,
           ValidateResponseStep, FinishCallStep, CallDiesStep DEF RuntimeNext

\* For all configurations, requests and replies, every call keeps what CInv
\* says of each of its steps (call_main_runtime and what it calls).
THEOREM CallInvariant == RuntimeSpec => []CInv
<1>1. RuntimeInit => CInv
  BY CInvInit DEF RuntimeInit, CInv
<1> QED BY <1>1, CInvNext, PTL DEF RuntimeSpec

\* A live call says only what its one reply earns, and its trace ends as the
\* caller was told.
THEOREM CallsAreEarned == RuntimeSpec => []AnswersAreEarned
<1>1. CInv => AnswersAreEarned
  <2> SUFFICES ASSUME CInv PROVE AnswersAreEarned
    OBVIOUS
  <2> PICK k : k = call
    OBVIOUS
  <2>1. CallShape(k) /\ Throughout(k) /\ SoFar(k) /\ ToldSoFar(k)
    BY DEF CInv, CallHolds
  <2>2. Speaks(k) /\ k.reply.status = "2xx" /\ k.reply.form = "object" => Answers(k.reply)
    BY DEF Speaks, Answers
  <2>3. k.sent = 1 => k.called /\ ~k.rehearsed
    BY <2>1 DEF Throughout
  <2>4. k.said /\ k.called => Answers(k.reply) /\ (k.sent = 1 \/ k.rehearsed)
    BY <2>1, <2>2 DEF Throughout
  <2> QED BY <2>1, <2>3, <2>4 DEF Throughout, SoFar, ToldSoFar, AnswersAreEarned
<1> QED BY <1>1, CallInvariant, PTL

-----------------------------------------------------------------------------
\* The broker: a session is on the connection its server has now, a tool's
\* server is on record, and what is available has been reviewed as it is.
BrokerTypes ==
  /\ servers \in [Servers -> ServerRecords \cup {Nil}]
  /\ tools \in [Tools -> ToolRecords \cup {Nil}]
  /\ sessions \in [Servers -> Connections \cup {Nil}]

SessionsAreCurrent ==
  \A s \in Servers : sessions[s] # Nil => servers[s] # Nil /\ sessions[s] = servers[s].connection

AvailableIsReviewed ==
  \A t \in Tools : tools[t] # Nil =>
    /\ servers[ServerOf[t]] # Nil
    /\ tools[t].available => Review(t, tools[t].schema) \in reviewed

BInv == BrokerTypes /\ SessionsAreCurrent /\ AvailableIsReviewed

LEMMA BInvInit == BrokerInit => BInv
BY ServerOfAssumption DEF BrokerInit, BInv, BrokerTypes, SessionsAreCurrent, AvailableIsReviewed

LEMMA AddServerStep ==
  ASSUME BInv, NEW s \in Servers, NEW c \in Connections, NEW e \in BOOLEAN, AddServer(s, c, e)
  PROVE  BInv'
<1>1. PICK r : r = [connection |-> c, enabled |-> e]
  OBVIOUS
<1>2. r \in ServerRecords /\ r # Nil
  BY <1>1, NilAssumption DEF ServerRecords
<1>3. /\ servers[s] = Nil /\ servers' = [servers EXCEPT ![s] = r]
      /\ UNCHANGED <<tools, bound, sessions, reviewed>>
  BY <1>1 DEF AddServer
<1>4. BrokerTypes'
  BY <1>2, <1>3 DEF BInv, BrokerTypes
<1>5. SessionsAreCurrent'
  BY <1>3 DEF BInv, BrokerTypes, SessionsAreCurrent
<1>6. AvailableIsReviewed'
  BY <1>3, ServerOfAssumption DEF BInv, BrokerTypes, AvailableIsReviewed, Review
<1> QED BY <1>4, <1>5, <1>6 DEF BInv

LEMMA UpdateServerStep ==
  ASSUME BInv, NEW s \in Servers, NEW c \in Connections, NEW e \in BOOLEAN, UpdateServer(s, c, e)
  PROVE  BInv'
<1>1. PICK r : r = [connection |-> c, enabled |-> e]
  OBVIOUS
<1>2. r \in ServerRecords /\ r # Nil /\ r.connection = c
  BY <1>1, NilAssumption DEF ServerRecords
<1>3. /\ servers[s] # Nil /\ servers' = [servers EXCEPT ![s] = r]
      /\ tools' = ToolsAfterUpdate(s, c) /\ sessions' = [sessions EXCEPT ![s] = Nil]
      /\ UNCHANGED <<bound, reviewed>>
  BY <1>1 DEF UpdateServer, Disconnected
<1>4. BrokerTypes'
  <2>1. tools' \in [Tools -> ToolRecords \cup {Nil}]
    BY <1>3 DEF ToolsAfterUpdate, BInv, BrokerTypes
  <2> QED BY <1>2, <1>3, <2>1 DEF BInv, BrokerTypes
<1>5. SessionsAreCurrent'
  BY <1>3 DEF BInv, BrokerTypes, SessionsAreCurrent
<1>6. AvailableIsReviewed'
  <2> SUFFICES ASSUME NEW t \in Tools, tools'[t] # Nil
               PROVE  /\ servers'[ServerOf[t]] # Nil
                      /\ tools'[t].available => Review(t, tools[t].schema)' \in reviewed'
    BY DEF AvailableIsReviewed, Review
  <2>1. tools'[t] = tools[t] /\ ServerOf[t] \in Servers
    BY <1>3, ServerOfAssumption DEF ToolsAfterUpdate, BInv, BrokerTypes
  <2>2. ServerOf[t] = s => c = servers[s].connection
    BY <1>3 DEF ToolsAfterUpdate, BInv, BrokerTypes
  <2>3. servers'[ServerOf[t]] # Nil /\ servers'[ServerOf[t]].connection = servers[ServerOf[t]].connection
    BY <1>2, <1>3, <2>1, <2>2 DEF BInv, BrokerTypes, AvailableIsReviewed
  <2> QED BY <1>3, <2>1, <2>3 DEF BInv, AvailableIsReviewed, Review
<1> QED BY <1>4, <1>5, <1>6 DEF BInv

\* Only the sessions change, each to none or to what its server has.
LEMMA SessionsStep ==
  ASSUME BInv, UNCHANGED <<servers, tools, bound, reviewed>>, NEW s \in Servers,
         NEW x \in Connections \cup {Nil}, x # Nil => servers[s] # Nil /\ x = servers[s].connection,
         sessions' = [sessions EXCEPT ![s] = x]
  PROVE  BInv'
<1>1. BrokerTypes' /\ SessionsAreCurrent'
  BY DEF BInv, BrokerTypes, SessionsAreCurrent
<1>2. AvailableIsReviewed'
  BY DEF BInv, AvailableIsReviewed, Review
<1> QED BY <1>1, <1>2 DEF BInv

\* connect leaves a session on the connection of its server.
LEMMA ConnectedIsCurrent ==
  ASSUME BInv, NEW s \in Servers, Enabled(s)
  PROVE  /\ ConnectedTo(s) \in Connections /\ ConnectedTo(s) = servers[s].connection
         /\ servers[s] # Nil
<1>1. servers[s] \in ServerRecords
  BY DEF Enabled, BInv, BrokerTypes
<1>2. servers[s].connection \in Connections
  BY <1>1 DEF ServerRecords
<1> QED BY <1>2 DEF ConnectedTo, Enabled, BInv, SessionsAreCurrent

LEMMA ConnectStep ==
  ASSUME BInv, NEW s \in Servers, Enabled(s), sessions' = WithSession(s),
         UNCHANGED <<servers, tools, bound, reviewed>>
  PROVE  BInv'
BY ConnectedIsCurrent, SessionsStep DEF WithSession

LEMMA ReconnectStep ==
  ASSUME BInv, NEW s \in Servers, Reconnect(s)
  PROVE  BInv'
<1>1. servers[s] \in ServerRecords /\ servers[s] # Nil
  BY DEF Reconnect, Enabled, BInv, BrokerTypes
<1>2. servers[s].connection \in Connections
  BY <1>1 DEF ServerRecords
<1>3. sessions' = [sessions EXCEPT ![s] = servers[s].connection]
  BY DEF Reconnect, Disconnected, BInv, BrokerTypes
<1> QED BY <1>1, <1>2, <1>3, SessionsStep DEF Reconnect

LEMMA DisconnectStep ==
  ASSUME BInv, NEW s \in Servers, Disconnect(s)
  PROVE  BInv'
BY SessionsStep DEF Disconnect, Disconnected

\* The tools of one server are replaced, and what is available of them is
\* among what was reviewed.
LEMMA ToolsStep ==
  ASSUME BInv, NEW s \in Servers, servers[s] # Nil, UNCHANGED servers,
         tools' \in [Tools -> ToolRecords \cup {Nil}],
         \A t \in Tools : ServerOf[t] # s => tools'[t] = tools[t],
         \A t \in Tools : ServerOf[t] = s /\ tools'[t] # Nil /\ tools'[t].available =>
           Review(t, tools'[t].schema) \in reviewed',
         \A t \in Tools : ServerOf[t] # s =>
           \A x, y : <<t, x, y>> \in reviewed => <<t, x, y>> \in reviewed'
  PROVE  AvailableIsReviewed'
<1> SUFFICES ASSUME NEW t \in Tools, tools'[t] # Nil
             PROVE  /\ servers'[ServerOf[t]] # Nil
                    /\ tools'[t].available =>
                         <<t, tools'[t].schema, servers'[ServerOf[t]].connection>> \in reviewed'
  BY DEF AvailableIsReviewed, Review
<1>1. CASE ServerOf[t] = s
  BY <1>1 DEF Review
<1>2. CASE ServerOf[t] # s
  <2>1. tools'[t] = tools[t]
    BY <1>2
  <2>2. /\ servers[ServerOf[t]] # Nil
        /\ tools[t].available =>
             <<t, tools[t].schema, servers[ServerOf[t]].connection>> \in reviewed
    BY <2>1 DEF BInv, AvailableIsReviewed, Review
  <2> QED BY <1>2, <2>1, <2>2
<1> QED BY <1>1, <1>2

\* What a server lists of a tool is a schema or nothing.
LEMMA ListedIs ==
  ASSUME NEW s \in Servers, NEW l \in Listings(s), NEW t \in Tools, ServerOf[t] = s
  PROVE  t \in DOMAIN l /\ l[t] \in Schemas \cup {Nil}
BY DEF Listings

LEMMA DiscoverStep ==
  ASSUME BInv, NEW s \in Servers, NEW l \in Listings(s), DiscoverTools(s, l)
  PROVE  BInv'
<1>1. /\ servers[s] # Nil /\ sessions' = WithSession(s) /\ UNCHANGED <<servers, bound, reviewed>>
      /\ Enabled(s)
      /\ tools' = [t \in Tools |->
           IF ServerOf[t] # s THEN tools[t]
           ELSE IF l[t] = Nil THEN Nil ELSE DiscoveredRecord(t, l[t])]
  BY DEF DiscoverTools, Enabled
<1>2. ASSUME NEW t \in Tools, ServerOf[t] = s, tools'[t] # Nil
      PROVE  /\ tools'[t] \in ToolRecords
             /\ tools'[t].available => SameSchema(t, tools'[t].schema) /\ tools[t].available
  <2>1. tools'[t] = DiscoveredRecord(t, l[t]) /\ l[t] \in Schemas
    BY <1>1, <1>2, ListedIs
  <2>2. PICK d : d = DiscoveredRecord(t, l[t])
    OBVIOUS
  <2>3. PICK a \in BOOLEAN : a <=> (SameSchema(t, l[t]) /\ tools[t].available)
    OBVIOUS
  <2>4. PICK p : p = IF SameSchema(t, l[t]) THEN tools[t].profile ELSE "unclassified"
    OBVIOUS
  <2>5. d = [schema |-> l[t], available |-> a, profile |-> p]
    BY <2>2, <2>3, <2>4 DEF DiscoveredRecord
  <2>6. p \in Profiles
    <3>1. SameSchema(t, l[t]) => tools[t] \in ToolRecords
      BY DEF SameSchema, BInv, BrokerTypes
    <3> QED BY <2>4, <3>1 DEF ToolRecords, Profiles
  <2>7. d \in ToolRecords /\ d.schema = l[t] /\ d.available = a
    BY <2>1, <2>5, <2>6 DEF ToolRecords
  <2> QED BY <2>1, <2>2, <2>3, <2>7
<1>3. tools' \in [Tools -> ToolRecords \cup {Nil}]
  <2>1. ASSUME NEW t \in Tools PROVE tools'[t] \in ToolRecords \cup {Nil}
    BY <1>1, <1>2 DEF BInv, BrokerTypes
  <2> QED BY <1>1, <2>1
<1>4. AvailableIsReviewed'
  <2>1. ASSUME NEW t \in Tools, ServerOf[t] = s, tools'[t] # Nil, tools'[t].available
        PROVE  Review(t, tools'[t].schema) \in reviewed'
    <3>1. tools[t] # Nil /\ tools[t].available /\ tools[t].schema = tools'[t].schema
      BY <1>2, <2>1 DEF SameSchema
    <3> QED BY <3>1, <1>1 DEF BInv, AvailableIsReviewed
  <2> QED BY <1>1, <1>3, <2>1, ToolsStep
<1>5. BrokerTypes' /\ SessionsAreCurrent'
  <2>1. ConnectedTo(s) \in Connections /\ ConnectedTo(s) = servers[s].connection
    BY <1>1, ConnectedIsCurrent
  <2>2. sessions' = [sessions EXCEPT ![s] = servers[s].connection] /\ servers[s].connection \in Connections
    BY <1>1, <2>1 DEF WithSession
  <2> QED BY <1>1, <1>3, <2>2 DEF BInv, BrokerTypes, SessionsAreCurrent
<1> QED BY <1>4, <1>5 DEF BInv

LEMMA InstallStep ==
  ASSUME BInv, NEW s \in Servers, NEW l \in Listings(s), NEW a \in BOOLEAN, NEW p \in Profiles,
         InstallBoundTools(s, l, a, p)
  PROVE  BInv'
<1>1. /\ servers[s] # Nil /\ UNCHANGED <<servers, sessions>>
      /\ tools' = [t \in Tools |->
           IF ServerOf[t] # s THEN tools[t]
           ELSE IF l[t] = Nil THEN Nil
           ELSE [schema |-> l[t], available |-> a, profile |-> p]]
      /\ reviewed' = {r \in reviewed : ServerOf[r[1]] # s} \cup
           {Review(t, l[t]) : t \in {u \in DOMAIN l : a /\ l[u] # Nil}}
  BY DEF InstallBoundTools
<1>2. ASSUME NEW t \in Tools, ServerOf[t] = s, tools'[t] # Nil
      PROVE  tools'[t] \in ToolRecords /\ tools'[t].schema = l[t] /\ tools'[t].available = a
             /\ l[t] # Nil
  <2>1. tools'[t] = [schema |-> l[t], available |-> a, profile |-> p] /\ l[t] \in Schemas /\ l[t] # Nil
    BY <1>1, <1>2, ListedIs
  <2> QED BY <2>1 DEF ToolRecords
<1>3. tools' \in [Tools -> ToolRecords \cup {Nil}]
  <2>1. ASSUME NEW t \in Tools PROVE tools'[t] \in ToolRecords \cup {Nil}
    BY <1>1, <1>2 DEF BInv, BrokerTypes
  <2> QED BY <1>1, <2>1
<1>4. AvailableIsReviewed'
  <2>1. ASSUME NEW t \in Tools, ServerOf[t] = s, tools'[t] # Nil, tools'[t].available
        PROVE  Review(t, tools'[t].schema) \in reviewed'
    <3>1. tools'[t].schema = l[t] /\ a /\ l[t] # Nil /\ t \in DOMAIN l
      BY <1>2, <2>1, ListedIs
    <3> QED BY <3>1, <1>1
  <2>2. ASSUME NEW t \in Tools, ServerOf[t] # s, NEW x, NEW y, <<t, x, y>> \in reviewed
        PROVE  <<t, x, y>> \in reviewed'
    BY <1>1, <2>2
  <2>3. \A t \in Tools : ServerOf[t] # s => tools'[t] = tools[t]
    BY <1>1
  <2> QED BY <1>1, <1>3, <2>1, <2>2, <2>3, ToolsStep
<1>5. BrokerTypes' /\ SessionsAreCurrent'
  BY <1>1, <1>3 DEF BInv, BrokerTypes, SessionsAreCurrent
<1> QED BY <1>4, <1>5 DEF BInv

LEMMA ToggleStep ==
  ASSUME BInv, NEW t \in Tools, NEW a \in BOOLEAN, NEW p \in Profiles, ToggleTool(t, a, p)
  PROVE  BInv'
<1>1. /\ tools[t] # Nil /\ UNCHANGED <<servers, bound, sessions>>
      /\ tools' = [tools EXCEPT ![t].available = a, ![t].profile = p]
      /\ reviewed' = {r \in reviewed : r[1] # t} \cup
           (IF a THEN {Review(t, tools[t].schema)} ELSE {})
  BY DEF ToggleTool
<1>2. tools[t] \in ToolRecords
  BY <1>1 DEF BInv, BrokerTypes
<1>3. PICK d : d = [tools[t] EXCEPT !.available = a, !.profile = p]
  OBVIOUS
<1>4. d \in ToolRecords /\ d.schema = tools[t].schema /\ d.available = a
  BY <1>2, <1>3 DEF ToolRecords
<1>5. tools' = [tools EXCEPT ![t] = d]
  BY <1>1, <1>3 DEF BInv, BrokerTypes
<1>6. BrokerTypes' /\ SessionsAreCurrent'
  <2>1. tools' \in [Tools -> ToolRecords \cup {Nil}]
    BY <1>1, <1>4, <1>5 DEF BInv, BrokerTypes
  <2>2. BrokerTypes'
    BY <1>1, <2>1 DEF BInv, BrokerTypes
  <2>3. SessionsAreCurrent'
    BY <1>1 DEF BInv, SessionsAreCurrent
  <2> QED BY <2>2, <2>3
<1>7. AvailableIsReviewed'
  <2> SUFFICES ASSUME NEW u \in Tools, tools'[u] # Nil
               PROVE  /\ servers'[ServerOf[u]] # Nil
                      /\ tools'[u].available =>
                           <<u, tools'[u].schema, servers'[ServerOf[u]].connection>> \in reviewed'
    BY DEF AvailableIsReviewed, Review
  <2>1. CASE u = t
    <3>1. tools'[u] = d /\ servers[ServerOf[t]] # Nil
      BY <1>1, <1>5, <2>1 DEF BInv, BrokerTypes, AvailableIsReviewed
    <3>2. PICK e : e = <<t, tools[t].schema, servers[ServerOf[t]].connection>>
      OBVIOUS
    <3>3. a => e \in reviewed'
      BY <1>1, <3>2 DEF Review
    <3> QED BY <1>1, <1>4, <2>1, <3>1, <3>2, <3>3
  <2>2. CASE u # t
    <3>1. tools'[u] = tools[u]
      BY <1>5, <2>2 DEF BInv, BrokerTypes
    <3>2. /\ servers[ServerOf[u]] # Nil
          /\ tools[u].available => <<u, tools[u].schema, servers[ServerOf[u]].connection>> \in reviewed
      BY <3>1 DEF BInv, AvailableIsReviewed, Review
    <3>3. PICK e : e = <<u, tools[u].schema, servers[ServerOf[u]].connection>>
      OBVIOUS
    <3>4. e \in reviewed => e \in reviewed'
      BY <1>1, <2>2, <3>3
    <3> QED BY <1>1, <3>1, <3>2, <3>3, <3>4
  <2> QED BY <2>1, <2>2
<1> QED BY <1>6, <1>7 DEF BInv

LEMMA AdministerStep ==
  ASSUME BInv, Administer
  PROVE  BInv'
<1>1. ASSUME NEW s \in Servers, Connect(s) PROVE BInv'
  BY <1>1, ConnectStep DEF Connect
<1> QED BY <1>1, AddServerStep, UpdateServerStep, DisconnectStep, ReconnectStep, DiscoverStep,
           InstallStep, ToggleStep DEF Administer

LEMMA RestartStep ==
  ASSUME BInv, BrokerRestart
  PROVE  BInv'
<1>1. BrokerTypes' /\ SessionsAreCurrent'
  BY DEF BrokerRestart, BInv, BrokerTypes, SessionsAreCurrent
<1>2. AvailableIsReviewed'
  BY DEF BrokerRestart, BInv, AvailableIsReviewed, Review
<1> QED BY <1>1, <1>2 DEF BInv

LEMMA CallToolStep ==
  ASSUME BInv, NEW t \in Tools, NEW x, CallTool(t, x)
  PROVE  BInv' /\ <<t, x, sessions'[ServerOf[t]]>> \in reviewed
<1>1. PICK s \in Servers : s = ServerOf[t]
  BY ServerOfAssumption
<1>2. Enabled(s) /\ sessions' = WithSession(s) /\ UNCHANGED <<servers, tools, bound, reviewed>>
  BY <1>1 DEF CallTool, Callable, Offered
<1>3. BInv'
  BY <1>2, ConnectStep
<1>4. sessions'[s] = servers[s].connection
  BY <1>2, ConnectedIsCurrent DEF WithSession, BInv, BrokerTypes
<1>5. tools[t] # Nil /\ tools[t].available /\ tools[t].schema = x
  BY DEF CallTool, Callable, Offered
<1>6. Review(t, x) \in reviewed
  BY <1>5 DEF BInv, AvailableIsReviewed
<1> QED BY <1>1, <1>3, <1>4, <1>6 DEF Review

-----------------------------------------------------------------------------
\* The ledger: a stored result is the one of its state, and success is recorded
\* only of a call that took effect.
RowHolds(row, done) ==
  /\ row \in Rows
  /\ row.state \in {"succeeded", "failed"} => row.replay \in Results /\ row.replay.state = row.state
  /\ row.state = "succeeded" => row.binding \in done

LInv ==
  /\ calls \in [Calls -> Rows]
  /\ \A c \in Calls : RowHolds(calls[c], acted[c])

\* What took effect stays so.
Growing ==
  /\ acted \in [Calls -> SUBSET Bindings] /\ acted' \in [Calls -> SUBSET Bindings]
  /\ \A c \in Calls : acted[c] \subseteq acted'[c]

LEMMA NoRowHolds == NoRow \in Rows /\ \A done : RowHolds(NoRow, done)
<1>1. PICK row : row = NoRow
  OBVIOUS
<1>2. row \in Rows /\ row.state = None
  BY <1>1 DEF NoRow, Rows
<1>3. None \notin {"succeeded", "failed"}
  BY NullAssumption DEF ToolCallStates
<1> QED BY <1>1, <1>2, <1>3 DEF RowHolds

\* One row is written.
LEMMA RowWritten ==
  ASSUME LInv, Growing, NEW c \in Calls, NEW row, RowHolds(row, acted'[c]),
         calls' = [calls EXCEPT ![c] = row]
  PROVE  LInv'
<1>1. row \in Rows
  BY DEF RowHolds
<1>2. calls' \in [Calls -> Rows]
  BY <1>1 DEF LInv
<1>3. ASSUME NEW d \in Calls PROVE RowHolds(calls'[d], acted'[d])
  <2>1. CASE d = c
    BY <2>1 DEF LInv
  <2>2. CASE d # c
    BY <2>2 DEF LInv, RowHolds, Growing
  <2> QED BY <2>1, <2>2
<1> QED BY <1>2, <1>3 DEF LInv

LEMMA RowsKept ==
  ASSUME LInv, Growing, UNCHANGED calls
  PROVE  LInv'
BY DEF LInv, RowHolds, Growing

LEMMA RegisterNewStep ==
  ASSUME LInv, Growing, NEW c \in Calls, NEW b \in Bindings, RegisterNew(c, b)
  PROVE  LInv'
<1>1. PICK row : row = NewRow(b)
  OBVIOUS
<1>2. row \in Rows /\ row.state = "proposed"
  BY <1>1 DEF NewRow, Rows, ToolCallStates, NoRow
<1>3. RowHolds(row, acted'[c])
  BY <1>2 DEF RowHolds
<1> QED BY <1>1, <1>3, RowWritten DEF RegisterNew

LEMMA MarkRunningStep ==
  ASSUME LInv, Growing, NEW c \in Calls, MarkRunning(c)
  PROVE  LInv'
<1>1. PICK row : row = [calls[c] EXCEPT !.state = "running"]
  OBVIOUS
<1>2. row \in Rows /\ row.state = "running"
  BY <1>1 DEF LInv, Rows, ToolCallStates
<1>3. RowHolds(row, acted'[c])
  BY <1>2 DEF RowHolds
<1>4. calls' = [calls EXCEPT ![c] = row]
  BY <1>1 DEF MarkRunning, LInv
<1> QED BY <1>3, <1>4, RowWritten

LEMMA RecordResultStep ==
  ASSUME LInv, Growing, NEW c \in Calls, NEW result \in Results, RecordResult(c, result),
         result.state = "succeeded" => result.binding \in acted'[c]
  PROVE  LInv'
<1>1. PICK old \in Rows : old = calls[c]
  BY DEF LInv
<1>2. PICK kept : kept = ReplayPayload(result)
  OBVIOUS
<1>3. /\ kept \in Results \cup {None}
      /\ result.state \in {"succeeded", "failed"} => kept = result
  BY <1>2 DEF ReplayPayload, HasReplayPayload
<1>4. PICK row : row = [old EXCEPT !.state = result.state, !.receipt = result, !.replay = kept]
  OBVIOUS
<1>5. result.state \in ToolCallStates
  BY DEF Results, ToolResultStates, ToolCallStates
<1>6. /\ row \in Rows /\ row.state = result.state /\ row.replay = kept /\ row.binding = old.binding
  BY <1>3, <1>4, <1>5 DEF Rows
<1>7. old.binding = result.binding
  BY <1>1 DEF RecordResult
<1>8. RowHolds(row, acted'[c])
  BY <1>3, <1>6, <1>7 DEF RowHolds
<1>9. calls' = [calls EXCEPT ![c] = row]
  BY <1>1, <1>2, <1>4 DEF RecordResult, LInv
<1> QED BY <1>8, <1>9, RowWritten

-----------------------------------------------------------------------------
\* A runner: asking the provider, or serving the calls it asked for.
Asking == {"leg", "send", "wire", "read"}
Serving == {"register", "mark", "owned", "acted", "record"}

Observations == [state : {"none", "begun", "answered", "attempt_failed"}, count : Nat]

RunShape(d) ==
  d \in [pc : Asking \cup Serving \cup {"idle", "tools"}, mode : {d.mode}, leg : Nat,
         surface : {d.surface}, asked : [Calls -> Bindings \cup {None}],
         answers : [Calls -> Results \cup {None}], call : Calls \cup {None},
         result : Results \cup {None}, sameIds : {d.sameIds}, cancel : {d.cancel},
         outcome : {d.outcome}, trace : Traces, observed : Observations]

\* An answer is to what was asked, and a success took effect.
AnswerHolds(d, did, c) ==
  d.answers[c] # None =>
    /\ d.asked[c] # None /\ d.answers[c].binding = d.asked[c]
    /\ d.answers[c].state = "succeeded" => d.asked[c] \in did[c]

\* Before a leg every call of every earlier one is answered; within one, those
\* of the earlier ones.
Faithful(d, did) ==
  /\ \A c \in Calls : AnswerHolds(d, did, c)
  /\ d.pc \in Asking =>
       \A c \in Calls : d.asked[c] # None => c[1] < d.leg /\ d.answers[c] # None
  /\ d.pc \in Serving \cup {"tools"} =>
       \A c \in Calls : d.asked[c] # None => c[1] <= d.leg /\ (d.answers[c] # None \/ c[1] = d.leg)
  /\ d.pc \in Serving => d.call \in Calls /\ d.asked[d.call] # None
  /\ d.pc = "acted" => d.asked[d.call] \in did[d.call]
  /\ d.pc = "record" =>
       /\ d.result \in Results /\ d.result.binding = d.asked[d.call]
       /\ d.result.state = "succeeded" => d.asked[d.call] \in did[d.call]

\* The trace of the leg, and the dispatch row of the first one.
Evident(d, got) ==
  LET Told == d.trace.claims IN
  /\ ClaimsHold(d.trace)
  /\ "response" \in Told => got
  /\ d.pc # "idle" => "rejected" \notin Told
  /\ d.pc = "send" => Told = {}
  /\ d.pc = "wire" => Told \subseteq {"request"}
  /\ d.pc = "read" => Told \subseteq {"request", "response"}
  /\ d.pc \in Asking /\ d.leg = 0 => d.observed.state \in {"none", "begun"}
  /\ "rejected" \in Told /\ d.leg = 0 => d.observed.state # "answered"

RunHolds(d, did, got) == RunShape(d) /\ Faithful(d, did) /\ Evident(d, got)

AInv ==
  /\ BInv /\ LInv
  /\ acted \in [Calls -> SUBSET Bindings]
  /\ reply \in [Runners -> BOOLEAN]
  /\ DOMAIN run = Runners /\ \A r \in Runners : RunHolds(run[r], acted, reply[r])

LEMMA CallsAre ==
  ASSUME NEW c \in Calls
  PROVE  c[1] \in Nat /\ c[2] \in Nat /\ c = <<c[1], c[2]>>
BY CallsAreDerived, LimitsAssumption

\* What took effect meanwhile takes nothing from a runner.
LEMMA RunKept ==
  ASSUME NEW d, NEW got, RunHolds(d, acted, got), Growing
  PROVE  RunHolds(d, acted', got)
<1>1. Faithful(d, acted')
  <2>1. ASSUME NEW c \in Calls, AnswerHolds(d, acted, c) PROVE AnswerHolds(d, acted', c)
    BY <2>1 DEF AnswerHolds, Growing
  <2>2. d.pc \in {"acted", "record"} => d.call \in Calls
    BY DEF RunHolds, Faithful, Serving
  <2> QED BY <2>1, <2>2 DEF RunHolds, Faithful, Growing
<1> QED BY <1>1 DEF RunHolds

\* One runner takes a step, and the others have what they had.
LEMMA RunnerMoves ==
  ASSUME AInv, Growing, BInv', LInv', NEW r \in Runners, NEW d,
         run' = [run EXCEPT ![r] = d], RunHolds(d, acted', reply'[r]),
         reply' \in [Runners -> BOOLEAN], \A q \in Runners \ {r} : reply'[q] = reply[q]
  PROVE  AInv'
<1>1. DOMAIN run' = Runners /\ run'[r] = d /\ \A q \in Runners \ {r} : run'[q] = run[q]
  BY DEF AInv
<1>2. ASSUME NEW q \in Runners PROVE RunHolds(run'[q], acted', reply'[q])
  <2>1. CASE q = r
    BY <2>1, <1>1
  <2>2. CASE q # r
    BY <2>2, <1>1, RunKept DEF AInv
  <2> QED BY <2>1, <2>2
<1> QED BY <1>1, <1>2 DEF AInv, Growing

LEMMA NothingActs ==
  ASSUME AInv, UNCHANGED acted
  PROVE  Growing
BY DEF AInv, Growing

LEMMA BrokerKept ==
  ASSUME BInv, UNCHANGED brokerVars
  PROVE  BInv'
BY DEF BInv, brokerVars, BrokerTypes, SessionsAreCurrent, AvailableIsReviewed, Review

LEMMA LocalStep ==
  ASSUME AInv, NEW r \in Runners, NEW d, Local(r, d), RunHolds(d, acted, reply[r])
  PROVE  AInv'
<1>1. Growing /\ UNCHANGED <<calls, acted, reply>>
  BY NothingActs DEF Local, ledgerVars
<1>2. BInv' /\ LInv'
  BY <1>1, BrokerKept, RowsKept DEF AInv, Local
<1> QED BY <1>1, <1>2, RunnerMoves DEF AInv, Local

\* No more is asked and nothing more is answered.
LEMMA FaithfulSame ==
  ASSUME NEW d, NEW e, NEW did, Faithful(d, did), e.asked = d.asked, e.answers = d.answers,
         e.leg = d.leg, e.pc = "idle" \/ (d.pc \in Asking /\ e.pc \in Asking)
  PROVE  Faithful(e, did)
<1>1. ASSUME NEW c \in Calls, AnswerHolds(d, did, c) PROVE AnswerHolds(e, did, c)
  BY <1>1 DEF AnswerHolds
<1>2. e.pc \notin Serving \cup {"tools", "acted", "record"}
  BY DEF Asking, Serving
<1>3. e.pc \in Asking => d.pc \in Asking
  BY DEF Asking
<1> QED BY <1>1, <1>2, <1>3 DEF Faithful

\* Between the provider's answer and the next leg the evidence stays.
LEMMA EvidentSame ==
  ASSUME NEW d, NEW e, NEW got, Evident(d, got), d.pc # "idle", e.pc \notin Asking,
         e.trace = d.trace, e.leg = d.leg, e.observed.state = d.observed.state
  PROVE  Evident(e, got)
BY DEF Evident, Asking

\* The last update of the dispatch row changes its count only.
LEMMA CountedIs ==
  ASSUME NEW o \in Observations, NEW legs \in Nat, NEW p \in UpdateDispatchCount(o, legs)
  PROVE  p \in Observations /\ p.state = o.state
<1>1. CASE p = o
  BY <1>1
<1>2. CASE p = [o EXCEPT !.count = legs]
  BY <1>2 DEF Observations
<1> QED BY <1>1, <1>2 DEF UpdateDispatchCount

LEMMA CompletedIs ==
  ASSUME NEW o \in Observations, NEW verdict \in {"answered", "attempt_failed"},
         NEW p \in CompleteDispatch(o, verdict)
  PROVE  p \in Observations /\ p.state \in {o.state, verdict}
<1>1. CASE p = o
  BY <1>1
<1>2. CASE p = [state |-> verdict, count |-> 1]
  BY <1>2 DEF Observations
<1> QED BY <1>1, <1>2 DEF CompleteDispatch

LEMMA IdleHolds ==
  ASSUME NEW mode, NEW did, NEW got
  PROVE  RunHolds(Idle(mode), did, got)
<1>1. PICK d : d = Idle(mode)
  OBVIOUS
<1>2. /\ d.pc = "idle" /\ d.leg = 0 /\ d.asked = NoAnswers /\ d.answers = NoAnswers
      /\ d.trace.claims = {} /\ d.trace.files = {}
  BY <1>1 DEF Idle
<1>3. RunShape(d)
  BY <1>1 DEF Idle, RunShape, NoAnswers, Traces, Observations, NoObservation
<1>4. Faithful(d, did)
  BY <1>2 DEF Faithful, AnswerHolds, NoAnswers, Asking, Serving
<1>5. Evident(d, got)
  BY <1>2 DEF Evident, ClaimsHold, Asking
<1> QED BY <1>1, <1>3, <1>4, <1>5 DEF RunHolds

LEMMA StartOperationStep ==
  ASSUME AInv, NEW r \in Runners, StartOperation(r)
  PROVE  AInv'
<1>1. PICK i : i = Idle(run[r].mode)
  OBVIOUS
<1>2. RunHolds(i, acted, reply[r]) /\ i.leg = 0 /\ i.asked = NoAnswers /\ i.answers = NoAnswers
      /\ i.trace.claims = {} /\ i.observed = NoObservation
  BY <1>1, IdleHolds DEF Idle
<1>3. PICK d : d = [i EXCEPT !.pc = "leg", !.surface = Surface]
  OBVIOUS
<1>4. RunShape(d) /\ d.pc = "leg" /\ d.leg = 0 /\ d.asked = NoAnswers /\ d.answers = NoAnswers
      /\ d.trace = i.trace /\ d.observed = NoObservation
  BY <1>2, <1>3 DEF RunHolds, RunShape, Asking
<1>5. Faithful(d, acted)
  BY <1>4 DEF Faithful, AnswerHolds, NoAnswers, Asking, Serving
<1>6. Evident(d, reply[r])
  BY <1>2, <1>4 DEF RunHolds, Evident, Asking, NoObservation
<1>7. Local(r, d)
  BY <1>1, <1>3 DEF StartOperation
<1> QED BY <1>4, <1>5, <1>6, <1>7, LocalStep DEF RunHolds

LEMMA RequestCancelStep ==
  ASSUME AInv, NEW r \in Runners, RequestCancel(r)
  PROVE  AInv'
<1>1. PICK o : o = run[r]
  OBVIOUS
<1>2. RunHolds(o, acted, reply[r])
  BY <1>1 DEF AInv
<1>3. PICK d : d = [o EXCEPT !.cancel = TRUE]
  OBVIOUS
<1>4. /\ RunShape(d) /\ d.pc = o.pc /\ d.leg = o.leg /\ d.asked = o.asked /\ d.answers = o.answers
      /\ d.trace = o.trace /\ d.observed = o.observed /\ d.call = o.call /\ d.result = o.result
  BY <1>2, <1>3 DEF RunHolds, RunShape
<1>5. Faithful(d, acted)
  <2>1. ASSUME NEW c \in Calls, AnswerHolds(o, acted, c) PROVE AnswerHolds(d, acted, c)
    BY <1>4, <2>1 DEF AnswerHolds
  <2> QED BY <1>2, <1>4, <2>1 DEF RunHolds, Faithful
<1>6. Evident(d, reply[r])
  BY <1>2, <1>4 DEF RunHolds, Evident
<1>7. Local(r, d)
  BY <1>1, <1>3 DEF RequestCancel
<1> QED BY <1>4, <1>5, <1>6, <1>7, LocalStep DEF RunHolds

\* The loop ends, from a runner that holds.
LEMMA EndStep ==
  ASSUME AInv, NEW r \in Runners, NEW o, RunHolds(o, acted, reply[r]), o.pc # "idle",
         NEW p \in Observations, p.state = o.observed.state, NEW outcome,
         Local(r, [o EXCEPT !.pc = "idle", !.outcome = outcome, !.observed = p])
  PROVE  AInv'
<1>1. PICK d : d = [o EXCEPT !.pc = "idle", !.outcome = outcome, !.observed = p]
  OBVIOUS
<1>2. /\ RunShape(d) /\ d.pc = "idle" /\ d.leg = o.leg /\ d.asked = o.asked
      /\ d.answers = o.answers /\ d.trace = o.trace /\ d.observed = p
  BY <1>1 DEF RunHolds, RunShape
<1>3. Faithful(d, acted)
  BY <1>2, FaithfulSame DEF RunHolds
<1>4. Evident(d, reply[r])
  BY <1>2, EvidentSame DEF RunHolds, Asking
<1> QED BY <1>1, <1>2, <1>3, <1>4, LocalStep DEF RunHolds

LEMMA EndIsStep ==
  ASSUME AInv, NEW r \in Runners, NEW outcome, NEW legs \in Nat, run[r].pc # "idle",
         EndIs(r, outcome, legs)
  PROVE  AInv'
<1>1. PICK o : o = run[r]
  OBVIOUS
<1>2. RunHolds(o, acted, reply[r]) /\ o.observed \in Observations
  BY <1>1 DEF AInv, RunHolds, RunShape
<1>3. PICK p \in UpdateDispatchCount(o.observed, legs) :
        Local(r, [o EXCEPT !.pc = "idle", !.outcome = outcome, !.observed = p])
  BY <1>1 DEF EndIs, Ended
<1>4. p \in Observations /\ p.state = o.observed.state
  BY <1>2, CountedIs
<1> QED BY <1>1, <1>2, <1>3, <1>4, EndStep

LEMMA LegIsNat ==
  ASSUME AInv, NEW r \in Runners
  PROVE  run[r].leg \in Nat /\ run[r].leg + 1 \in Nat
<1>1. RunShape(run[r])
  BY DEF AInv, RunHolds
<1>2. run[r].leg \in Nat
  BY <1>1 DEF RunShape
<1> QED BY <1>2

LEMMA PrepareLegStep ==
  ASSUME AInv, NEW r \in Runners, PrepareLeg(r)
  PROVE  AInv'
<1>1. PICK o : o = run[r]
  OBVIOUS
<1>2. RunHolds(o, acted, reply[r]) /\ o.observed \in Observations /\ o.pc = "leg"
  BY <1>1 DEF AInv, RunHolds, RunShape, PrepareLeg
<1>3. PICK t \in NewTraces, p \in (IF o.leg = 0 THEN BeginDispatch ELSE {o.observed}) :
        run' = [run EXCEPT ![r] = [o EXCEPT !.pc = "send", !.trace = t, !.observed = p]]
  BY <1>1 DEF PrepareLeg, Goto
<1>4. t \in Traces /\ t.claims = {} /\ t.files = {}
  BY DEF NewTraces, Traces
<1>5. p \in Observations /\ (o.leg = 0 => p.state \in {"none", "begun"})
  BY <1>2, <1>3 DEF BeginDispatch, NoObservation, Observations
<1>6. PICK d : d = [o EXCEPT !.pc = "send", !.trace = t, !.observed = p]
  OBVIOUS
<1>7. /\ RunShape(d) /\ d.pc = "send" /\ d.leg = o.leg /\ d.asked = o.asked
      /\ d.answers = o.answers /\ d.trace = t /\ d.observed = p
  BY <1>2, <1>4, <1>5, <1>6 DEF RunHolds, RunShape, Asking
<1>8. Faithful(d, acted)
  BY <1>2, <1>7, FaithfulSame DEF RunHolds, Asking
<1>9. Evident(d, FALSE)
  BY <1>4, <1>5, <1>7 DEF Evident, ClaimsHold
<1>10. /\ reply' = [reply EXCEPT ![r] = FALSE]
       /\ UNCHANGED <<brokerVars, calls, acted>>
  BY DEF PrepareLeg, ledgerVars
<1>11. Growing /\ BInv' /\ LInv'
  BY <1>10, NothingActs, BrokerKept, RowsKept DEF AInv
<1>12. RunHolds(d, acted', reply'[r])
  BY <1>7, <1>8, <1>9, <1>10 DEF RunHolds, AInv
<1> QED BY <1>3, <1>6, <1>10, <1>11, <1>12, RunnerMoves DEF AInv

\* A leg has failed, and what is left of its trace is true.
LEMMA LegFailsStep ==
  ASSUME AInv, NEW r \in Runners, run[r].pc \in {"send", "wire", "read"}, NEW t \in Traces,
         ClaimsHold(t), "response" \in t.claims => reply[r], LegFails(r, t)
  PROVE  AInv'
<1>1. PICK o : o = run[r]
  OBVIOUS
<1>2. RunHolds(o, acted, reply[r]) /\ o.observed \in Observations /\ o.leg \in Nat
      /\ o.pc \in Asking
  BY <1>1 DEF AInv, RunHolds, RunShape, Asking
<1>3. PICK q, p :
        /\ q \in IF o.leg = 0 THEN CompleteDispatch(o.observed, "attempt_failed") ELSE {o.observed}
        /\ p \in UpdateDispatchCount(q, o.leg + 1)
        /\ Local(r, [o EXCEPT !.pc = "idle", !.outcome = "failed", !.trace = t, !.observed = p])
  BY <1>1 DEF LegFails
<1>4. q \in Observations /\ (o.leg = 0 => q.state # "answered")
  <2>1. CASE o.leg = 0
    <3>1. o.observed.state \in {"none", "begun"}
      BY <1>2, <2>1 DEF RunHolds, Evident
    <3> QED BY <1>2, <1>3, <2>1, <3>1, CompletedIs
  <2>2. CASE o.leg # 0
    BY <1>2, <1>3, <2>2
  <2> QED BY <2>1, <2>2
<1>5. p \in Observations /\ p.state = q.state
  BY <1>2, <1>3, <1>4, CountedIs
<1>6. PICK d : d = [o EXCEPT !.pc = "idle", !.outcome = "failed", !.trace = t, !.observed = p]
  OBVIOUS
<1>7. /\ RunShape(d) /\ d.pc = "idle" /\ d.leg = o.leg /\ d.asked = o.asked
      /\ d.answers = o.answers /\ d.trace = t /\ d.observed = p
  BY <1>2, <1>5, <1>6 DEF RunHolds, RunShape
<1>8. Faithful(d, acted)
  BY <1>2, <1>7, FaithfulSame DEF RunHolds
<1>9. Evident(d, reply[r])
  BY <1>4, <1>5, <1>7 DEF Evident, Asking
<1> QED BY <1>3, <1>6, <1>7, <1>8, <1>9, LocalStep DEF RunHolds

LEMMA PolicyRefusesStep ==
  ASSUME AInv, NEW r \in Runners, PolicyRefuses(r)
  PROVE  AInv'
<1>1. RunHolds(run[r], acted, reply[r])
  BY DEF AInv
<1>2. run[r].trace \in Traces
  BY <1>1 DEF RunHolds, RunShape
<1>3. ClaimsHold(run[r].trace) /\ ("response" \in run[r].trace.claims => reply[r])
  BY <1>1 DEF RunHolds, Evident
<1> QED BY <1>2, <1>3, LegFailsStep DEF PolicyRefuses

LEMMA CaptureRequestStep ==
  ASSUME AInv, NEW r \in Runners, CaptureRequest(r)
  PROVE  AInv'
<1>1. PICK o : o = run[r]
  OBVIOUS
<1>2. RunHolds(o, acted, reply[r]) /\ o.pc = "send" /\ o.trace \in Traces /\ o.trace.claims = {}
  BY <1>1 DEF AInv, RunHolds, RunShape, Evident, CaptureRequest
<1>3. PICK t \in BeginAttempt(o.trace) : Local(r, [o EXCEPT !.pc = "wire", !.trace = t])
  BY <1>1 DEF CaptureRequest, Goto
<1>4. /\ t \in Traces
      /\ t.claims = {} \/ (t.claims = {"request"} /\ "request" \in t.files)
  <2>1. /\ t \in Traces /\ o.trace.files \subseteq t.files
        /\ \/ t.claims = o.trace.claims
           \/ t.claims = o.trace.claims \cup {"request"} /\ "request" \in t.files
    BY <1>2, <1>3, BeginAttemptIs
  <2> QED BY <2>1, <1>2
<1>5. PICK d : d = [o EXCEPT !.pc = "wire", !.trace = t]
  OBVIOUS
<1>6. /\ RunShape(d) /\ d.pc = "wire" /\ d.leg = o.leg /\ d.asked = o.asked
      /\ d.answers = o.answers /\ d.trace = t /\ d.observed = o.observed
  BY <1>2, <1>4, <1>5 DEF RunHolds, RunShape, Asking
<1>7. Faithful(d, acted)
  BY <1>2, <1>6, FaithfulSame DEF RunHolds, Asking
<1>8. ClaimsHold(t)
  BY <1>4 DEF ClaimsHold, Files
<1>9. Evident(d, reply[r])
  BY <1>2, <1>4, <1>6, <1>8 DEF RunHolds, Evident, Asking
<1> QED BY <1>3, <1>5, <1>6, <1>7, <1>9, LocalStep DEF RunHolds

LEMMA TransportFailsStep ==
  ASSUME AInv, NEW r \in Runners, TransportFails(r)
  PROVE  AInv'
<1>1. PICK o : o = run[r]
  OBVIOUS
<1>2. RunHolds(o, acted, reply[r]) /\ o.pc = "wire" /\ o.trace \in Traces
      /\ o.trace.claims \subseteq {"request"} /\ ClaimsHold(o.trace)
  BY <1>1 DEF AInv, RunHolds, RunShape, Evident, TransportFails
<1>3. PICK t \in RecordTransportError(o.trace) : LegFails(r, t)
  BY <1>1 DEF TransportFails
<1>4. /\ t \in Traces /\ o.trace.files \subseteq t.files
      /\ \/ t.claims = o.trace.claims
         \/ t.claims = o.trace.claims \cup {"transport_error"} /\ "request" \in o.trace.claims
  BY <1>2, <1>3, RecordTransportErrorIs
<1>5. ClaimsHold(t) /\ "response" \notin t.claims
  BY <1>2, <1>4 DEF ClaimsHold, Files
<1> QED BY <1>1, <1>2, <1>3, <1>4, <1>5, LegFailsStep

LEMMA TransportAnswersStep ==
  ASSUME AInv, NEW r \in Runners, TransportAnswers(r)
  PROVE  AInv'
<1>1. PICK o : o = run[r]
  OBVIOUS
<1>2. RunHolds(o, acted, reply[r]) /\ o.pc = "wire" /\ o.trace \in Traces
      /\ o.trace.claims \subseteq {"request"} /\ ClaimsHold(o.trace)
  BY <1>1 DEF AInv, RunHolds, RunShape, Evident, TransportAnswers
<1>3. PICK t \in RecordResponse(o.trace) :
        run' = [run EXCEPT ![r] = [o EXCEPT !.pc = "read", !.trace = t]]
  BY <1>1 DEF TransportAnswers, Goto
<1>4. /\ t \in Traces /\ o.trace.files \subseteq t.files
      /\ \/ t.claims = o.trace.claims
         \/ /\ t.claims = o.trace.claims \cup {"response"}
            /\ "request" \in o.trace.claims /\ "response" \in t.files
  BY <1>2, <1>3, RecordResponseIs
<1>5. ClaimsHold(t) /\ t.claims \subseteq {"request", "response"}
  BY <1>2, <1>4 DEF ClaimsHold, Files
<1>6. PICK d : d = [o EXCEPT !.pc = "read", !.trace = t]
  OBVIOUS
<1>7. /\ RunShape(d) /\ d.pc = "read" /\ d.leg = o.leg /\ d.asked = o.asked
      /\ d.answers = o.answers /\ d.trace = t /\ d.observed = o.observed
  BY <1>2, <1>4, <1>6 DEF RunHolds, RunShape, Asking
<1>8. Faithful(d, acted)
  BY <1>2, <1>7, FaithfulSame DEF RunHolds, Asking
<1>9. Evident(d, TRUE)
  BY <1>2, <1>5, <1>7 DEF RunHolds, Evident, Asking
<1>10. /\ reply' = [reply EXCEPT ![r] = TRUE]
       /\ UNCHANGED <<brokerVars, calls, acted>>
  BY DEF TransportAnswers, ledgerVars
<1>11. Growing /\ BInv' /\ LInv'
  BY <1>10, NothingActs, BrokerKept, RowsKept DEF AInv
<1>12. RunHolds(d, acted', reply'[r])
  BY <1>7, <1>8, <1>9, <1>10 DEF RunHolds, AInv
<1> QED BY <1>3, <1>6, <1>10, <1>11, <1>12, RunnerMoves DEF AInv

\* What a verdict leaves of the trace of an answered leg.
LEMMA VerdictHolds ==
  ASSUME AInv, NEW r \in Runners, run[r].pc = "read", NEW verdict \in {"accepted", "rejected"},
         NEW t \in RecordVerdict(run[r].trace, verdict)
  PROVE  /\ t \in Traces /\ ClaimsHold(t) /\ ("response" \in t.claims => reply[r])
         /\ t.claims \subseteq {"request", "response", verdict}
<1>1. PICK o : o = run[r]
  OBVIOUS
<1>2. o.trace \in Traces /\ ClaimsHold(o.trace) /\ ("response" \in o.trace.claims => reply[r])
      /\ o.trace.claims \subseteq {"request", "response"}
  BY <1>1 DEF AInv, RunHolds, RunShape, Evident
<1>3. verdict \in Claims
  BY DEF Claims
<1>4. /\ t \in Traces /\ o.trace.files \subseteq t.files
      /\ \/ t.claims = o.trace.claims
         \/ t.claims = o.trace.claims \cup {verdict} /\ {"request", "response"} \subseteq o.trace.claims
  BY <1>1, <1>2, <1>3, RecordVerdictIs
<1>5. t.claims \subseteq {"request", "response", verdict}
      /\ ("response" \in t.claims => "response" \in o.trace.claims)
  BY <1>2, <1>4
<1>6. ClaimsHold(t)
  BY <1>2, <1>4 DEF ClaimsHold, Files
<1> QED BY <1>2, <1>4, <1>5, <1>6

LEMMA PayloadRejectedStep ==
  ASSUME AInv, NEW r \in Runners, PayloadRejected(r)
  PROVE  AInv'
<1>1. PICK t \in RecordVerdict(run[r].trace, "rejected") : LegFails(r, t)
  BY DEF PayloadRejected
<1>2. t \in Traces /\ ClaimsHold(t) /\ ("response" \in t.claims => reply[r])
  BY <1>1, VerdictHolds DEF PayloadRejected
<1> QED BY <1>1, <1>2, LegFailsStep DEF PayloadRejected

\* The runner whose payload was accepted, about to leave "read".
LEMMA AcceptedIs ==
  ASSUME AInv, NEW r \in Runners, run[r].pc = "read", NEW a \in Accepted(r)
  PROVE  /\ RunShape(a) /\ a.pc = "read" /\ a.leg = run[r].leg /\ a.asked = run[r].asked
         /\ a.answers = run[r].answers
         /\ ClaimsHold(a.trace) /\ ("response" \in a.trace.claims => reply[r])
         /\ "rejected" \notin a.trace.claims
         /\ a.mode = run[r].mode /\ a.surface = run[r].surface
<1>1. PICK o : o = run[r]
  OBVIOUS
<1>2. RunShape(o)
  BY <1>1 DEF AInv, RunHolds
<1>3. PICK t \in RecordVerdict(run[r].trace, "accepted"),
           q \in (IF run[r].leg = 0 THEN CompleteDispatch(run[r].observed, "answered")
                                    ELSE {run[r].observed}) :
        a = Evidenced(r, t, q)
  BY DEF Accepted
<1>4. /\ t \in Traces /\ ClaimsHold(t) /\ ("response" \in t.claims => reply[r])
      /\ t.claims \subseteq {"request", "response", "accepted"}
  BY <1>1, <1>3, VerdictHolds
<1>5. q \in Observations
  BY <1>1, <1>2, <1>3, CompletedIs DEF RunShape
<1>6. /\ RunShape(a) /\ a.pc = o.pc /\ a.leg = o.leg /\ a.asked = o.asked
      /\ a.answers = o.answers /\ a.trace = t /\ a.mode = o.mode /\ a.surface = o.surface
  BY <1>1, <1>2, <1>3, <1>4, <1>5 DEF RunShape, Evidenced
<1> QED BY <1>1, <1>4, <1>6

LEMMA EndAcceptedStep ==
  ASSUME AInv, NEW r \in Runners, NEW outcome, EndAccepted(r, outcome)
  PROVE  AInv'
<1>1. PICK o : o = run[r]
  OBVIOUS
<1>2. RunHolds(o, acted, reply[r]) /\ o.pc = "read" /\ o.leg \in Nat
  BY <1>1 DEF AInv, RunHolds, RunShape, EndAccepted
<1>3. PICK a \in Accepted(r) : \E p \in UpdateDispatchCount(a.observed, o.leg + 1) :
        Local(r, [a EXCEPT !.pc = "idle", !.outcome = outcome, !.observed = p])
  BY <1>1 DEF EndAccepted
<1>4. PICK p \in UpdateDispatchCount(a.observed, o.leg + 1) :
        Local(r, [a EXCEPT !.pc = "idle", !.outcome = outcome, !.observed = p])
  BY <1>3
<1>5. /\ RunShape(a) /\ a.leg = o.leg /\ a.asked = o.asked /\ a.answers = o.answers
      /\ ClaimsHold(a.trace) /\ ("response" \in a.trace.claims => reply[r])
      /\ "rejected" \notin a.trace.claims
  BY <1>1, <1>2, AcceptedIs
<1>6. p \in Observations
  BY <1>2, <1>5, CountedIs DEF RunShape
<1>7. PICK d : d = [a EXCEPT !.pc = "idle", !.outcome = outcome, !.observed = p]
  OBVIOUS
<1>8. /\ RunShape(d) /\ d.pc = "idle" /\ d.leg = o.leg /\ d.asked = o.asked
      /\ d.answers = o.answers /\ d.trace = a.trace /\ d.observed = p
  BY <1>5, <1>6, <1>7 DEF RunShape
<1>9. Faithful(d, acted)
  BY <1>2, <1>8, FaithfulSame DEF RunHolds
<1>10. Evident(d, reply[r])
  BY <1>5, <1>8 DEF Evident, Asking
<1> QED BY <1>4, <1>7, <1>8, <1>9, <1>10, LocalStep DEF RunHolds

LEMMA ToolCallsArriveStep ==
  ASSUME AInv, NEW r \in Runners, ToolCallsArrive(r)
  PROVE  AInv'
<1>1. PICK o : o = run[r]
  OBVIOUS
<1>2. RunHolds(o, acted, reply[r]) /\ o.pc = "read" /\ o.leg \in Nat
      /\ o.asked \in [Calls -> Bindings \cup {None}]
  BY <1>1 DEF AInv, RunHolds, RunShape, ToolCallsArrive
<1>3. PICK n \in 1 .. MaxIndex, a \in Accepted(r) :
        \E ask \in [1 .. n -> {b \in Bindings : o.surface[b.tool] = b.schema}],
           same \in IF n > 1 THEN BOOLEAN ELSE {FALSE} :
          Local(r, Asks(a, ask, same))
  BY <1>1 DEF ToolCallsArrive
<1>4. PICK ask, same : /\ ask \in [1 .. n -> {b \in Bindings : o.surface[b.tool] = b.schema}]
                       /\ Local(r, Asks(a, ask, same))
  BY <1>3
<1>5. /\ RunShape(a) /\ a.leg = o.leg /\ a.asked = o.asked /\ a.answers = o.answers
      /\ ClaimsHold(a.trace) /\ ("response" \in a.trace.claims => reply[r])
      /\ "rejected" \notin a.trace.claims
  BY <1>1, <1>2, AcceptedIs
<1>6. PICK asked : asked = [c \in Calls |-> IF c[1] = o.leg /\ c[2] \in 1 .. n
                                              THEN ask[c[2]] ELSE o.asked[c]]
  OBVIOUS
<1>7. asked \in [Calls -> Bindings \cup {None}]
  <2>1. \A i \in 1 .. n : ask[i] \in Bindings
    BY <1>4
  <2>2. ASSUME NEW c \in Calls PROVE asked[c] \in Bindings \cup {None}
    BY <1>2, <1>6, <2>1
  <2> QED BY <1>6, <2>2
<1>8. PICK d : d = [a EXCEPT !.pc = "tools", !.sameIds = same, !.asked = asked]
  OBVIOUS
<1>9. Local(r, d)
  BY <1>4, <1>5, <1>6, <1>8 DEF Asks
<1>10. /\ RunShape(d) /\ d.pc = "tools" /\ d.leg = o.leg /\ d.asked = asked
       /\ d.answers = o.answers /\ d.trace = a.trace
  BY <1>5, <1>7, <1>8 DEF RunShape
<1>11. ASSUME NEW c \in Calls
       PROVE  /\ o.asked[c] # None => c[1] < o.leg /\ o.answers[c] # None /\ asked[c] = o.asked[c]
              /\ c[1] # o.leg => asked[c] = o.asked[c]
  <2>1. o.asked[c] # None => c[1] < o.leg /\ o.answers[c] # None
    BY <1>2 DEF RunHolds, Faithful, Asking
  <2>2. c[1] # o.leg => asked[c] = o.asked[c]
    BY <1>6
  <2> QED BY <1>2, <2>1, <2>2, CallsAre
<1>12. Faithful(d, acted)
  <2>1. ASSUME NEW c \in Calls PROVE AnswerHolds(d, acted, c)
    <3>1. AnswerHolds(o, acted, c)
      BY <1>2 DEF RunHolds, Faithful
    <3> QED BY <3>1, <1>10, <1>11 DEF AnswerHolds
  <2>2. ASSUME NEW c \in Calls, d.asked[c] # None
        PROVE  c[1] <= d.leg /\ (d.answers[c] # None \/ c[1] = d.leg)
    <3>1. CASE c[1] = o.leg
      BY <1>2, <1>10, <3>1
    <3>2. CASE c[1] # o.leg
      <4>1. o.asked[c] # None
        BY <1>10, <1>11, <2>2, <3>2
      <4> QED BY <1>2, <1>10, <1>11, <4>1, CallsAre
    <3> QED BY <3>1, <3>2
  <2> QED BY <1>10, <2>1, <2>2 DEF Faithful, Asking, Serving
<1>13. Evident(d, reply[r])
  BY <1>5, <1>10 DEF Evident, Asking
<1> QED BY <1>9, <1>10, <1>12, <1>13, LocalStep DEF RunHolds

-----------------------------------------------------------------------------
\* A call is answered: with what it asked for, and with success only when it
\* took effect.
LEMMA AnsweredHolds ==
  ASSUME AInv, NEW r \in Runners, NEW did, NEW got, RunHolds(run[r], did, got),
         run[r].pc \in Serving \cup {"tools"}, NEW c \in Calls, run[r].asked[c] # None,
         NEW result \in Results, result.binding = run[r].asked[c],
         result.state = "succeeded" => result.binding \in did[c]
  PROVE  RunHolds(Answered(r, c, result), did, got)
<1>1. PICK o : o = run[r]
  OBVIOUS
<1>2. PICK d : d = Answered(r, c, result)
  OBVIOUS
<1>3. PICK answers : answers = [o.answers EXCEPT ![c] = result]
  OBVIOUS
<1>4. answers \in [Calls -> Results \cup {None}] /\ answers[c] = result
      /\ \A e \in Calls \ {c} : answers[e] = o.answers[e]
  BY <1>1, <1>3 DEF RunHolds, RunShape
<1>5. d = [o EXCEPT !.pc = "tools", !.call = None, !.result = None, !.answers = answers]
  BY <1>1, <1>2, <1>3 DEF Answered
<1>6. /\ RunShape(d) /\ d.pc = "tools" /\ d.leg = o.leg /\ d.asked = o.asked
      /\ d.answers = answers /\ d.trace = o.trace /\ d.observed = o.observed
  BY <1>1, <1>4, <1>5 DEF RunHolds, RunShape
<1>7. Faithful(d, did)
  <2>1. ASSUME NEW e \in Calls PROVE AnswerHolds(d, did, e)
    <3>1. CASE e = c
      BY <1>1, <1>4, <1>6, <3>1 DEF AnswerHolds
    <3>2. CASE e # c
      <4>1. AnswerHolds(o, did, e)
        BY <1>1 DEF RunHolds, Faithful
      <4> QED BY <1>4, <1>6, <3>2, <4>1 DEF AnswerHolds
    <3> QED BY <3>1, <3>2
  <2>2. ASSUME NEW e \in Calls, d.asked[e] # None
        PROVE  e[1] <= d.leg /\ (d.answers[e] # None \/ e[1] = d.leg)
    <3>1. e[1] <= o.leg /\ (o.answers[e] # None \/ e[1] = o.leg)
      BY <1>1, <1>6, <2>2 DEF RunHolds, Faithful
    <3>2. o.answers[e] # None => answers[e] # None
      BY <1>4, NullAssumption
    <3> QED BY <1>6, <3>1, <3>2
  <2> QED BY <1>6, <2>1, <2>2 DEF Faithful, Asking, Serving
<1>8. Evident(d, got)
  <2>1. o.pc # "idle"
    BY <1>1 DEF Serving
  <2> QED BY <1>1, <1>6, <2>1, EvidentSame DEF RunHolds, Asking
<1> QED BY <1>2, <1>6, <1>7, <1>8 DEF RunHolds

\* A call goes one step further through the dispatcher.
LEMMA ServingHolds ==
  ASSUME NEW did, NEW got, NEW o, RunHolds(o, did, got), o.pc \in Serving \cup {"tools"},
         NEW d, RunShape(d), d.pc \in Serving, d.leg = o.leg, d.asked = o.asked,
         d.answers = o.answers, d.trace = o.trace, d.observed = o.observed,
         d.call \in Calls, d.asked[d.call] # None,
         d.pc = "acted" => d.asked[d.call] \in did[d.call],
         d.pc = "record" =>
           /\ d.result \in Results /\ d.result.binding = d.asked[d.call]
           /\ d.result.state = "succeeded" => d.asked[d.call] \in did[d.call]
  PROVE  RunHolds(d, did, got)
<1>1. Faithful(d, did)
  <2>1. ASSUME NEW c \in Calls PROVE AnswerHolds(d, did, c)
    <3>1. AnswerHolds(o, did, c)
      BY DEF RunHolds, Faithful
    <3> QED BY <3>1 DEF AnswerHolds
  <2>2. \A c \in Calls : d.asked[c] # None => c[1] <= d.leg /\ (d.answers[c] # None \/ c[1] = d.leg)
    BY DEF RunHolds, Faithful
  <2>3. d.pc \notin Asking
    BY DEF Asking, Serving
  <2> QED BY <2>1, <2>2, <2>3 DEF Faithful
<1>2. Evident(d, got)
  <2>1. o.pc # "idle" /\ d.pc \notin Asking
    BY DEF Serving, Asking
  <2> QED BY <2>1, EvidentSame DEF RunHolds
<1> QED BY <1>1, <1>2 DEF RunHolds

\* The call a runner serves, and what it asked for.
LEMMA ServedIs ==
  ASSUME AInv, NEW r \in Runners, run[r].pc \in Serving
  PROVE  /\ run[r].call \in Calls /\ Asked(r) \in Bindings /\ Asked(r) # None
         /\ RunHolds(run[r], acted, reply[r])
<1>1. PICK o : o = run[r]
  OBVIOUS
<1>2. RunHolds(o, acted, reply[r])
  BY <1>1 DEF AInv
<1>3. o.call \in Calls /\ o.asked[o.call] # None /\ o.asked \in [Calls -> Bindings \cup {None}]
  BY <1>1, <1>2 DEF RunHolds, RunShape, Faithful
<1> QED BY <1>1, <1>2, <1>3 DEF Asked

LEMMA FailureIs ==
  ASSUME NEW b \in Bindings, NEW state \in {"succeeded", "failed"}, NEW body \in {"answer", "unavailable"}
  PROVE  /\ [binding |-> b, state |-> state, body |-> body] \in Results
         /\ [binding |-> b, state |-> state, body |-> body].binding = b
         /\ [binding |-> b, state |-> state, body |-> body].state = state
BY BodiesAreAnswers DEF Results, ToolResultStates

\* What dispatch raises answers the call.
LEMMA RaisedHolds ==
  ASSUME AInv, NEW r \in Runners, run[r].pc \in Serving
  PROVE  RunHolds(Answered(r, run[r].call, Failure(r)), acted, reply[r])
<1>1. PICK result : result = Failure(r)
  OBVIOUS
<1>2. result \in Results /\ result.binding = Asked(r) /\ result.state = "failed"
  BY <1>1, ServedIs, FailureIs DEF Failure, Answer
<1> QED BY <1>1, <1>2, ServedIs, AnsweredHolds DEF Asked

LEMMA RefuseArgumentsStep ==
  ASSUME AInv, NEW r \in Runners, NEW c \in Calls, RefuseArguments(r, c)
  PROVE  AInv'
<1>1. RunHolds(run[r], acted, reply[r]) /\ run[r].pc = "tools" /\ run[r].asked[c] # None
  BY DEF AInv, RefuseArguments, LegCalls
<1>2. run[r].asked[c] \in Bindings
  BY <1>1 DEF RunHolds, RunShape
<1>3. PICK result : result = [binding |-> run[r].asked[c], state |-> "failed", body |-> "unavailable"]
  OBVIOUS
<1>4. result \in Results /\ result.binding = run[r].asked[c] /\ result.state = "failed"
  BY <1>2, <1>3, FailureIs
<1>5. RunHolds(Answered(r, c, result), acted, reply[r])
  BY <1>1, <1>4, AnsweredHolds
<1> QED BY <1>3, <1>5, LocalStep DEF RefuseArguments

LEMMA DispatchCallStep ==
  ASSUME AInv, NEW r \in Runners, NEW c \in Calls, DispatchCall(r, c)
  PROVE  AInv'
<1>1. PICK o : o = run[r]
  OBVIOUS
<1>2. RunHolds(o, acted, reply[r]) /\ o.pc = "tools" /\ o.asked[c] # None
  BY <1>1 DEF AInv, DispatchCall, LegCalls
<1>3. PICK d : d = [o EXCEPT !.pc = "register", !.call = c]
  OBVIOUS
<1>4. /\ RunShape(d) /\ d.pc = "register" /\ d.leg = o.leg /\ d.asked = o.asked
      /\ d.answers = o.answers /\ d.trace = o.trace /\ d.observed = o.observed /\ d.call = c
  BY <1>2, <1>3 DEF RunHolds, RunShape, Serving
<1>5. RunHolds(d, acted, reply[r])
  BY <1>2, <1>4, ServingHolds DEF Serving
<1>6. Local(r, d)
  BY <1>1, <1>3 DEF DispatchCall, Goto
<1> QED BY <1>5, <1>6, LocalStep

\* On to the next step of the dispatcher, the call and its result as they are.
LEMMA GotoHolds ==
  ASSUME NEW r \in Runners, NEW did, NEW got, RunHolds(run[r], did, got), run[r].pc \in Serving,
         NEW l \in Serving \ {"record"}, l = "acted" => Asked(r) \in did[run[r].call]
  PROVE  RunHolds(Goto(r, l), did, got)
<1>1. PICK o : o = run[r]
  OBVIOUS
<1>2. PICK d : d = [o EXCEPT !.pc = l]
  OBVIOUS
<1>3. /\ RunShape(d) /\ d.pc = l /\ d.leg = o.leg /\ d.asked = o.asked
      /\ d.answers = o.answers /\ d.trace = o.trace /\ d.observed = o.observed /\ d.call = o.call
  BY <1>1, <1>2 DEF RunHolds, RunShape
<1>4. d.call \in Calls /\ d.asked[d.call] # None
  BY <1>1, <1>3 DEF RunHolds, Faithful
<1>5. RunHolds(d, did, got)
  BY <1>1, <1>3, <1>4, ServingHolds DEF Asked
<1> QED BY <1>1, <1>2, <1>5 DEF Goto

LEMMA RegisterCallStep ==
  ASSUME AInv, NEW r \in Runners, RegisterCall(r)
  PROVE  AInv'
<1>1. PICK c \in Calls : c = run[r].call
  BY ServedIs DEF RegisterCall, Serving
<1>2. /\ run[r].pc = "register" /\ run[r].pc \in Serving /\ Asked(r) \in Bindings
      /\ RunHolds(run[r], acted, reply[r])
  BY ServedIs DEF RegisterCall, Serving
<1>3. Growing /\ BInv' /\ UNCHANGED <<acted, reply>>
  BY NothingActs, BrokerKept DEF RegisterCall, AInv
<1>4. ASSUME NEW d, run' = [run EXCEPT ![r] = d], RunHolds(d, acted, reply[r]), LInv'
      PROVE  AInv'
  BY <1>3, <1>4, RunnerMoves DEF AInv
<1>5. ASSUME run' = [run EXCEPT ![r] = Goto(r, "mark")], LInv' PROVE AInv'
  BY <1>2, <1>4, <1>5, GotoHolds DEF Serving
<1>6. ASSUME DispatchRaises(r), LInv' PROVE AInv'
  BY <1>2, <1>4, <1>6, RaisedHolds DEF DispatchRaises
<1>7. CASE RegisterNew(c, Asked(r)) /\ run' = [run EXCEPT ![r] = Goto(r, "mark")]
  BY <1>2, <1>3, <1>5, <1>7, RegisterNewStep DEF AInv
<1>8. ASSUME Replays(r), UNCHANGED calls, calls[c].state \in {"succeeded", "failed"},
             run' = [run EXCEPT ![r] = Answered(r, c, [calls[c].replay EXCEPT !.binding = Asked(r)])]
      PROVE  AInv'
  <2>1. PICK row : row = calls[c]
    OBVIOUS
  <2>2. /\ row.replay \in Results /\ row.replay.state = row.state
        /\ row.state = "succeeded" => row.binding \in acted[c]
    BY <1>8, <2>1 DEF AInv, LInv, RowHolds
  <2>3. row.binding = Asked(r)
    BY <1>1, <1>8, <2>1 DEF Replays
  <2>4. PICK result : result = [row.replay EXCEPT !.binding = Asked(r)]
    OBVIOUS
  <2>5. result \in Results /\ result.binding = Asked(r) /\ result.state = row.state
    BY <1>2, <2>2, <2>4 DEF Results
  <2>6. Asked(r) = run[r].asked[c] /\ run[r].asked[c] # None
    BY <1>1, <1>2, ServedIs DEF Asked
  <2>7. RunHolds(Answered(r, c, result), acted, reply[r])
    BY <1>2, <2>2, <2>3, <2>5, <2>6, AnsweredHolds
  <2>8. LInv'
    BY <1>3, <1>8, RowsKept DEF AInv
  <2> QED BY <1>4, <1>8, <2>1, <2>4, <2>7, <2>8
<1>9. CASE Replays(r) /\ UNCHANGED calls /\
             CASE calls[c].state = "proposed" -> run' = [run EXCEPT ![r] = Goto(r, "mark")]
               [] calls[c].state \in {"succeeded", "failed"} ->
                    run' = [run EXCEPT ![r] = Answered(r, c, [calls[c].replay EXCEPT !.binding = Asked(r)])]
               [] OTHER -> DispatchRaises(r)
  <2>1. LInv'
    BY <1>3, <1>9, RowsKept DEF AInv
  <2>2. \/ run' = [run EXCEPT ![r] = Goto(r, "mark")]
        \/ /\ calls[c].state \in {"succeeded", "failed"}
           /\ run' = [run EXCEPT ![r] = Answered(r, c, [calls[c].replay EXCEPT !.binding = Asked(r)])]
        \/ DispatchRaises(r)
    BY <1>9
  <2> QED BY <1>5, <1>6, <1>8, <1>9, <2>1, <2>2
<1>10. CASE DispatchRaises(r) /\ UNCHANGED ledgerVars
  <2>1. LInv'
    BY <1>3, <1>10, RowsKept DEF AInv, ledgerVars
  <2> QED BY <1>6, <1>10, <2>1
<1> QED BY <1>1, <1>7, <1>9, <1>10 DEF RegisterCall

\* A step of a runner that leaves the broker and what took effect alone.
LEMMA RunnerServes ==
  ASSUME AInv, NEW r \in Runners, NEW d, run' = [run EXCEPT ![r] = d],
         RunHolds(d, acted, reply[r]), LInv', UNCHANGED <<brokerVars, acted, reply>>
  PROVE  AInv'
<1>1. Growing /\ BInv'
  BY NothingActs, BrokerKept DEF AInv
<1> QED BY <1>1, RunnerMoves DEF AInv

LEMMA StartRunningStep ==
  ASSUME AInv, NEW r \in Runners, StartRunning(r)
  PROVE  AInv'
<1>1. PICK c \in Calls : c = run[r].call
  BY ServedIs DEF StartRunning, Serving
<1>2. /\ run[r].pc = "mark" /\ run[r].pc \in Serving
      /\ RunHolds(run[r], acted, reply[r])
  BY ServedIs DEF StartRunning, Serving
<1>3. Growing /\ UNCHANGED <<brokerVars, acted, reply>>
  BY NothingActs DEF StartRunning
<1>4. CASE MarkRunning(c) /\ run' = [run EXCEPT ![r] = Goto(r, "owned")]
  <2>1. LInv'
    BY <1>3, <1>4, MarkRunningStep DEF AInv
  <2>2. RunHolds(Goto(r, "owned"), acted, reply[r])
    BY <1>2, GotoHolds DEF Serving
  <2> QED BY <1>3, <1>4, <2>1, <2>2, RunnerServes
<1>5. CASE MarkRunningRefused(c) /\ DispatchRaises(r)
  <2>1. LInv'
    BY <1>3, <1>5, RowsKept DEF AInv, MarkRunningRefused, ledgerVars
  <2> QED BY <1>2, <1>3, <1>5, <2>1, RaisedHolds, RunnerServes DEF DispatchRaises
<1> QED BY <1>1, <1>4, <1>5 DEF StartRunning

\* The tool a call asked for, and that it acts: reviewed as it is asked for.
LEMMA ActsReviewed ==
  ASSUME AInv, NEW r \in Runners, run[r].pc = "owned", CallTool(Asked(r).tool, Asked(r).schema)
  PROVE  /\ BInv'
         /\ <<Asked(r).tool, Asked(r).schema, sessions'[ServerOf[Asked(r).tool]]>> \in reviewed
<1>1. Asked(r).tool \in Tools
  BY ServedIs, BindingsAreRecords DEF Serving
<1> QED BY <1>1, CallToolStep DEF AInv

LEMMA ToolActsStep ==
  ASSUME AInv, NEW r \in Runners, ToolActs(r)
  PROVE  AInv'
<1>1. PICK c \in Calls : c = run[r].call
  BY ServedIs DEF ToolActs, Serving
<1>2. PICK b \in Bindings : b = Asked(r)
  BY ServedIs DEF ToolActs, Serving
<1>3. /\ run[r].pc = "owned" /\ run[r].pc \in Serving /\ RunHolds(run[r], acted, reply[r])
  BY ServedIs DEF ToolActs, Serving
<1>4. /\ acted' = [acted EXCEPT ![c] = @ \cup {b}] /\ UNCHANGED <<calls, reply>>
      /\ run' = [run EXCEPT ![r] = Goto(r, "acted")]
  BY <1>1, <1>2 DEF ToolActs, ledgerVars
<1>5. Growing /\ b \in acted'[c]
  BY <1>4 DEF AInv, Growing
<1>6. BInv' /\ LInv'
  BY <1>3, <1>4, <1>5, ActsReviewed, RowsKept DEF ToolActs, AInv
<1>7. RunHolds(run[r], acted', reply[r])
  BY <1>3, <1>5, RunKept
<1>8. RunHolds(Goto(r, "acted"), acted', reply[r])
  BY <1>1, <1>2, <1>3, <1>5, <1>7, GotoHolds DEF Serving
<1> QED BY <1>4, <1>5, <1>6, <1>8, RunnerMoves DEF AInv

\* A result is on its way to the ledger.
LEMMA ResultHolds ==
  ASSUME AInv, NEW r \in Runners, run[r].pc \in {"owned", "acted"}, NEW result \in Results,
         result.binding = Asked(r),
         result.state = "succeeded" => Asked(r) \in acted[run[r].call]
  PROVE  RunHolds([Goto(r, "record") EXCEPT !.result = result], acted, reply[r])
<1>1. PICK o : o = run[r]
  OBVIOUS
<1>2. RunHolds(o, acted, reply[r]) /\ o.pc \in Serving /\ o.call \in Calls /\ o.asked[o.call] # None
      /\ Asked(r) = o.asked[o.call]
  BY <1>1, ServedIs DEF Serving, Asked
<1>3. PICK d : d = [o EXCEPT !.pc = "record", !.result = result]
  OBVIOUS
<1>4. /\ RunShape(d) /\ d.pc = "record" /\ d.leg = o.leg /\ d.asked = o.asked
      /\ d.answers = o.answers /\ d.trace = o.trace /\ d.observed = o.observed /\ d.call = o.call
      /\ d.result = result
  BY <1>2, <1>3 DEF RunHolds, RunShape, Serving
<1>5. RunHolds(d, acted, reply[r])
  BY <1>1, <1>2, <1>4, ServingHolds DEF Serving
<1>6. d = [Goto(r, "record") EXCEPT !.result = result]
  BY <1>1, <1>3 DEF Goto
<1> QED BY <1>5, <1>6

LEMMA BrokerRefusesStep ==
  ASSUME AInv, NEW r \in Runners, BrokerRefuses(r)
  PROVE  AInv'
<1>1. run[r].pc = "owned" /\ Asked(r) \in Bindings /\ UNCHANGED <<calls, acted, reply>>
  BY ServedIs DEF BrokerRefuses, Serving, ledgerVars
<1>2. Growing
  BY <1>1, NothingActs
<1>3. BInv'
  <2>1. CASE CallToolRefused(Asked(r).tool, Asked(r).schema)
    BY <2>1, BrokerKept DEF CallToolRefused, AInv
  <2>2. CASE CallTool(Asked(r).tool, Asked(r).schema)
    BY <1>1, <2>2, ActsReviewed
  <2> QED BY <2>1, <2>2 DEF BrokerRefuses
<1>4. LInv'
  BY <1>1, <1>2, RowsKept DEF AInv
<1>5. PICK result : result = Failure(r)
  OBVIOUS
<1>6. result \in Results /\ result.binding = Asked(r) /\ result.state = "failed"
  BY <1>1, <1>5, FailureIs DEF Failure, Answer
<1>7. PICK d : d = [Goto(r, "record") EXCEPT !.result = result]
  OBVIOUS
<1>8. RunHolds(d, acted, reply[r])
  BY <1>1, <1>6, <1>7, ResultHolds
<1>9. run' = [run EXCEPT ![r] = d]
  BY <1>5, <1>7 DEF BrokerRefuses
<1> QED BY <1>1, <1>2, <1>3, <1>4, <1>8, <1>9, RunnerMoves DEF AInv

LEMMA ToolAnswersStep ==
  ASSUME AInv, NEW r \in Runners, ToolAnswers(r)
  PROVE  AInv'
<1>1. run[r].pc = "acted" /\ Asked(r) \in Bindings /\ Asked(r) \in acted[run[r].call]
  <2>1. run[r].pc = "acted" /\ Asked(r) \in Bindings /\ RunHolds(run[r], acted, reply[r])
    BY ServedIs DEF ToolAnswers, Serving
  <2> QED BY <2>1 DEF RunHolds, Faithful, Asked
<1>2. PICK result \in {Answer(r, "succeeded", "answer"), Failure(r)} :
        Local(r, [Goto(r, "record") EXCEPT !.result = result])
  BY DEF ToolAnswers
<1>3. result \in Results /\ result.binding = Asked(r)
  <2>1. CASE result = Answer(r, "succeeded", "answer")
    BY <1>1, <2>1, FailureIs DEF Answer
  <2>2. CASE result = Failure(r)
    BY <1>1, <2>2, FailureIs DEF Failure, Answer
  <2> QED BY <2>1, <2>2
<1>4. RunHolds([Goto(r, "record") EXCEPT !.result = result], acted, reply[r])
  BY <1>1, <1>3, ResultHolds
<1> QED BY <1>2, <1>4, LocalStep

LEMMA NormalizationEscapesStep ==
  ASSUME AInv, NEW r \in Runners, NormalizationEscapes(r)
  PROVE  AInv'
<1>1. /\ run' = [run EXCEPT ![r] = Answered(r, run[r].call, Failure(r))]
      /\ UNCHANGED <<brokerVars, calls, acted, reply>>
  BY DEF NormalizationEscapes, DispatchRaises, ledgerVars
<1>2. RunHolds(Answered(r, run[r].call, Failure(r)), acted, reply[r])
  BY RaisedHolds DEF NormalizationEscapes, Serving
<1>3. LInv'
  BY <1>1, NothingActs, RowsKept DEF AInv
<1> QED BY <1>1, <1>2, <1>3, RunnerServes

LEMMA StoreResultStep ==
  ASSUME AInv, NEW r \in Runners, StoreResult(r)
  PROVE  AInv'
<1>1. PICK c \in Calls : c = run[r].call
  BY ServedIs DEF StoreResult, Serving
<1>2. PICK result : result = run[r].result
  OBVIOUS
<1>3. /\ run[r].pc = "record" /\ RunHolds(run[r], acted, reply[r])
      /\ run[r].asked[c] # None
  BY <1>1, ServedIs DEF StoreResult, Serving, Asked
<1>4. /\ result \in Results /\ result.binding = run[r].asked[c]
      /\ result.state = "succeeded" => run[r].asked[c] \in acted[c]
  BY <1>1, <1>2, <1>3 DEF RunHolds, Faithful
<1>5. /\ RecordResult(c, result) /\ run' = [run EXCEPT ![r] = Answered(r, c, result)]
      /\ UNCHANGED <<brokerVars, acted, reply>>
  BY <1>1, <1>2 DEF StoreResult
<1>6. LInv'
  BY <1>4, <1>5, NothingActs, RecordResultStep DEF AInv
<1>7. RunHolds(Answered(r, c, result), acted, reply[r])
  BY <1>3, <1>4, AnsweredHolds DEF Serving
<1> QED BY <1>5, <1>6, <1>7, RunnerServes

LEMMA ResultsReadyStep ==
  ASSUME AInv, NEW r \in Runners, ResultsReady(r)
  PROVE  AInv'
<1>1. PICK o : o = run[r]
  OBVIOUS
<1>2. RunHolds(o, acted, reply[r]) /\ o.pc = "tools" /\ o.leg \in Nat
  BY <1>1 DEF AInv, RunHolds, RunShape, ResultsReady
<1>3. PICK d : d = [o EXCEPT !.pc = "leg", !.leg = @ + 1]
  OBVIOUS
<1>4. /\ RunShape(d) /\ d.pc = "leg" /\ d.leg = o.leg + 1 /\ d.asked = o.asked
      /\ d.answers = o.answers /\ d.trace = o.trace /\ d.observed = o.observed
  <2>1. PICK next \in Nat : next = o.leg + 1
    BY <1>2
  <2>2. PICK e : e = [o EXCEPT !.pc = "leg", !.leg = next]
    OBVIOUS
  <2>3. d = e
    BY <1>3, <2>1, <2>2
  <2>4. /\ RunShape(e) /\ e.pc = "leg" /\ e.leg = next /\ e.asked = o.asked
        /\ e.answers = o.answers /\ e.trace = o.trace /\ e.observed = o.observed
    BY <1>2, <2>2 DEF RunHolds, RunShape, Asking
  <2> QED BY <2>1, <2>3, <2>4
<1>5. ASSUME NEW c \in Calls, o.asked[c] # None
      PROVE  c[1] < o.leg + 1 /\ o.answers[c] # None
  <2>1. c[1] <= o.leg /\ (o.answers[c] # None \/ c[1] = o.leg)
    BY <1>2, <1>5 DEF RunHolds, Faithful
  <2>2. c[1] = o.leg => o.answers[c] # None
    BY <1>1, <1>5 DEF ResultsReady, BatchReady, LegCalls
  <2> QED BY <1>2, <2>1, <2>2, CallsAre
<1>6. Faithful(d, acted)
  <2>1. ASSUME NEW c \in Calls PROVE AnswerHolds(d, acted, c)
    <3>1. AnswerHolds(o, acted, c)
      BY <1>2 DEF RunHolds, Faithful
    <3> QED BY <1>4, <3>1 DEF AnswerHolds
  <2> QED BY <1>4, <1>5, <2>1 DEF Faithful, Asking, Serving
<1>7. Evident(d, reply[r])
  <2>1. d.leg # 0
    BY <1>2, <1>4
  <2> QED BY <1>2, <1>4, <2>1 DEF RunHolds, Evident, Asking
<1>8. Local(r, d)
  BY <1>1, <1>3 DEF ResultsReady, Goto
<1> QED BY <1>4, <1>6, <1>7, <1>8, LocalStep DEF RunHolds

LEMMA BatchRaisesStep ==
  ASSUME AInv, NEW r \in Runners, BatchRaises(r)
  PROVE  AInv'
<1>1. PICK o : o = run[r]
  OBVIOUS
<1>2. RunHolds(o, acted, reply[r]) /\ o.pc = "tools"
  BY <1>1 DEF AInv, BatchRaises
<1>3. PICK d : d = [o EXCEPT !.pc = "idle", !.outcome = "raised"]
  OBVIOUS
<1>4. /\ RunShape(d) /\ d.pc = "idle" /\ d.leg = o.leg /\ d.asked = o.asked
      /\ d.answers = o.answers /\ d.trace = o.trace /\ d.observed = o.observed
  BY <1>2, <1>3 DEF RunHolds, RunShape
<1>5. Faithful(d, acted) /\ Evident(d, reply[r])
  BY <1>2, <1>4, FaithfulSame, EvidentSame DEF RunHolds, Asking
<1>6. Local(r, d)
  BY <1>1, <1>3 DEF BatchRaises
<1> QED BY <1>4, <1>5, <1>6, LocalStep DEF RunHolds

-----------------------------------------------------------------------------
LEMMA ServiceRestartsStep ==
  ASSUME AInv, ServiceRestarts
  PROVE  AInv'
<1>1. BInv' /\ UNCHANGED <<calls, acted, reply>>
  BY RestartStep DEF ServiceRestarts, AInv, ledgerVars
<1>2. LInv'
  BY <1>1, NothingActs, RowsKept DEF AInv
<1>3. \A r \in Runners : RunHolds(run'[r], acted, reply[r])
  BY IdleHolds DEF ServiceRestarts
<1> QED BY <1>1, <1>2, <1>3 DEF AInv, ServiceRestarts

LEMMA AdministersStep ==
  ASSUME AInv, Administers
  PROVE  AInv'
<1>1. BInv' /\ UNCHANGED <<calls, acted, reply, run>>
  BY AdministerStep DEF Administers, AInv, ledgerVars
<1>2. LInv'
  BY <1>1, NothingActs, RowsKept DEF AInv
<1> QED BY <1>1, <1>2 DEF AInv

LEMMA OperateStep ==
  ASSUME AInv, NEW r \in Runners, Operate(r)
  PROVE  AInv'
<1>1. CASE RunnerDies(r)
  <2>1. RunHolds(Idle(run[r].mode), acted, reply[r])
    BY IdleHolds
  <2> QED BY <1>1, <2>1, LocalStep DEF RunnerDies
<1>2. CASE CancelBeforeLeg(r)
  BY <1>2, LegIsNat, EndIsStep DEF CancelBeforeLeg
<1>3. CASE CancelBeforeTools(r)
  BY <1>3, LegIsNat, EndIsStep DEF CancelBeforeTools
<1>4. CASE FinalAnswer(r) \/ AnswerRefused(r)
  BY <1>4, EndAcceptedStep DEF FinalAnswer, AnswerRefused
<1>5. CASE StartOperation(r) \/ RequestCancel(r)
  BY <1>5, StartOperationStep, RequestCancelStep
<1>6. CASE PrepareLeg(r) \/ PolicyRefuses(r) \/ CaptureRequest(r) \/ TransportFails(r)
  BY <1>6, PrepareLegStep, PolicyRefusesStep, CaptureRequestStep, TransportFailsStep
<1>7. CASE TransportAnswers(r) \/ PayloadRejected(r) \/ ToolCallsArrive(r)
  BY <1>7, TransportAnswersStep, PayloadRejectedStep, ToolCallsArriveStep
<1>8. CASE \E c \in Calls : RefuseArguments(r, c) \/ DispatchCall(r, c)
  BY <1>8, RefuseArgumentsStep, DispatchCallStep
<1>9. CASE RegisterCall(r) \/ StartRunning(r) \/ ToolActs(r) \/ BrokerRefuses(r)
  BY <1>9, RegisterCallStep, StartRunningStep, ToolActsStep, BrokerRefusesStep
<1>10. CASE ToolAnswers(r) \/ NormalizationEscapes(r) \/ StoreResult(r)
  BY <1>10, ToolAnswersStep, NormalizationEscapesStep, StoreResultStep
<1>11. CASE ResultsReady(r) \/ BatchRaises(r)
  BY <1>11, ResultsReadyStep, BatchRaisesStep
<1> QED BY <1>1, <1>2, <1>3, <1>4, <1>5, <1>6, <1>7, <1>8, <1>9, <1>10, <1>11 DEF Operate, Step

LEMMA AgentInitHolds ==
  ASSUME AgentInit(Modes)
  PROVE  AInv
<1>1. BInv
  BY BInvInit DEF AgentInit
<1>2. LInv
  BY NoRowHolds DEF AgentInit, LedgerInit, LInv
<1>3. ASSUME NEW r \in Runners PROVE RunHolds(run[r], acted, reply[r])
  <2>1. PICK m \in Modes : run[r] = Idle(m)
    BY DEF AgentInit
  <2> QED BY <2>1, IdleHolds
<1> QED BY <1>1, <1>2, <1>3 DEF AgentInit, AInv

\* Broker, ledger and runners keep what they need of each other.
THEOREM AgentInvariant == AgentSpec => []AInv
<1>1. AInv /\ [AgentNext]_agentVars => AInv'
  <2> SUFFICES ASSUME AInv, [AgentNext]_agentVars PROVE AInv'
    OBVIOUS
  <2>1. CASE UNCHANGED agentVars
    <3>1. BInv' /\ UNCHANGED <<calls, acted, reply, run>>
      BY <2>1, BrokerKept DEF agentVars, ledgerVars, AInv
    <3>2. LInv'
      BY <3>1, NothingActs, RowsKept DEF AInv
    <3> QED BY <3>1, <3>2 DEF AInv
  <2> QED BY <2>1, OperateStep, AdministersStep, ServiceRestartsStep DEF AgentNext
<1> QED BY <1>1, AgentInitHolds, PTL DEF AgentSpec

\* The next leg's request answers every call of the earlier ones, and no answer
\* calls a tool successful that did not take effect as it was asked for.
THEOREM TranscriptFaithful == AgentSpec => []TranscriptIsFaithful
<1>1. AInv => TranscriptIsFaithful
  <2> SUFFICES ASSUME AInv, NEW r \in Runners, NEW c \in Calls
               PROVE  /\ run[r].pc = "send" /\ run[r].asked[c] # None => run[r].answers[c] # None
                      /\ run[r].answers[c] # None =>
                           /\ run[r].answers[c].binding = run[r].asked[c]
                           /\ run[r].answers[c].state = "succeeded" => run[r].asked[c] \in acted[c]
    BY DEF TranscriptIsFaithful
  <2>1. Faithful(run[r], acted)
    BY DEF AInv, RunHolds
  <2> QED BY <2>1 DEF Faithful, AnswerHolds, Asking
<1> QED BY <1>1, AgentInvariant, PTL

\* Whatever the disk refused, the trace claims only what it holds and what
\* happened, and the row of a first leg with a rejected payload is not answered.
THEOREM EvidenceTrue == AgentSpec => []EvidenceIsTrue
<1>1. AInv => EvidenceIsTrue
  <2> SUFFICES ASSUME AInv, NEW r \in Runners
               PROVE  /\ ClaimsHold(run[r].trace)
                      /\ "response" \in run[r].trace.claims => reply[r]
                      /\ "rejected" \in run[r].trace.claims /\ run[r].leg = 0
                           => run[r].observed.state # "answered"
    BY DEF EvidenceIsTrue
  <2>1. Evident(run[r], reply[r])
    BY DEF AInv, RunHolds
  <2> QED BY <2>1 DEF Evident
<1> QED BY <1>1, AgentInvariant, PTL

\* A tool acts as it was reviewed, over the connection it was reviewed for.
THEOREM ReviewedEffects == AgentSpec => EffectsAreReviewed
<1>1. AInv => [\A r \in Runners : ToolActs(r) =>
                 <<Asked(r).tool, Asked(r).schema, sessions'[ServerOf[Asked(r).tool]]>>
                   \in reviewed]_agentVars
  BY ActsReviewed DEF ToolActs
<1> QED BY <1>1, AgentInvariant, PTL DEF EffectsAreReviewed, AgentSpec
=============================================================================
