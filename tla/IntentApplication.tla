------------------------- MODULE IntentApplication -------------------------
(***************************************************************************)
(* From the command context a turn is given to what its answer does to the *)
(* working set: resolve_operation_binding offers the items of the room,    *)
(* the model answers with one operation, validate_intent_against_context   *)
(* accepts it, refuses it or turns it into a no-delta decision, and        *)
(* Gate1AtomicOutboxApplicationAdapter applies what was accepted when the  *)
(* turn is settled; meanwhile others write.                                *)
(*                                                                         *)
(* Gate 12 passes the context's own snapshot as the current one, so only   *)
(* the adapter notices a concurrent change.  A summary is told apart by    *)
(* its length, 0 when empty.  Three item kinds stand for all that Solen    *)
(* may create: the others differ in the names of their fields.  One room   *)
(* without a project: no context offers supersessions or binding choices.  *)
(***************************************************************************)
EXTENDS Integers, Sequences, FiniteSets, TLC

CONSTANTS
  Topic, Fact,   \* the items of the room at the start
  Clients,       \* client turns; the item that a turn creates is named for it
  Relations,     \* what the client says of its request
  Lengths,       \* lengths of summaries
  Days,          \* the days on which something happens
  MaxForeign,    \* bound: writes and marks by others
  Nothing

ASSUME IntentAssumption ==
  /\ Lengths \subseteq Nat \ {0}
  /\ Days \subseteq Nat /\ 0 \in Days

VARIABLES
  history,  \* item -> its versions, oldest first
  cut,      \* item -> its first version marked non-authoritative, or 0
  today,
  given,    \* turn -> its command context
  outcome,  \* turn -> what became of its answer
  foreign   \* writes and marks by others so far

intentVars == <<history, cut, today, given, outcome, foreign>>

SummaryMax == 700    \* SUMMARY_MAX_CHARS of the contract
CandidateMax == 640  \* of validate_semantic_candidate
Never == 1000000

ItemIds == {Topic, Fact} \cup Clients
Scopes == {"global", "room"}

(***************************************************************************)
(* Items.                                                                  *)
(***************************************************************************)
\* A scope conflict cites items; the other references are left out.
Payloads ==
  [active_topic |-> [topic_state : {"current", "paused"}],
   temporary_fact |-> [fact_state : {"observed", "uncertain"}],
   pending_review |-> [review_kind : {"scope_conflict", "contradiction"},
                       conflicting : {{}, {Topic}, {Topic, Fact}}]]

NoPatch == << >>

Patches(kind) ==
  {NoPatch} \cup
  (IF kind = "pending_review" THEN [review_kind : {"scope_conflict", "contradiction"}]
                              ELSE Payloads[kind])

Content(v) == [kind |-> v.kind, scope |-> v.scope, summary |-> v.summary, payload |-> v.payload]

\* _new_item
NewItem(c, day) ==
  LET expiring == c.kind = "temporary_fact" IN
  [kind |-> c.kind, scope |-> c.scope, summary |-> c.summary, payload |-> c.payload,
   life |-> "active",
   aging |-> day + (IF expiring THEN 7 ELSE 30),
   dormant |-> day + (IF expiring THEN 14 ELSE 90),
   expires |-> IF expiring THEN day + 30 ELSE Never]

\* validate_working_set_item: the part that a legal operation could break.
ValidItem(v) ==
  /\ v.summary \in 1 .. SummaryMax
  /\ v.expires >= v.dormant
  /\ v.kind = "temporary_fact" <=> v.expires # Never

Exists(i) == history[i] # << >>
Versions(i) == Len(history[i])
Now(i) == history[i][Versions(i)]

\* read_projection: a marked version and those after it are not shown.
ShownVersion(i) == IF cut[i] = 0 THEN Versions(i) ELSE cut[i] - 1
Shown(i) == history[i][ShownVersion(i)]
Visible(i) == ShownVersion(i) > 0 /\ Shown(i).life = "active"

\* _selection_freshness
ExpiryDue(i) == Visible(i) /\ today >= Shown(i).expires

Selected(i) ==
  /\ Visible(i) /\ ~ExpiryDue(i)
  /\ Shown(i).scope = "global" => today <= Shown(i).aging

(***************************************************************************)
(* The context.                                                            *)
(***************************************************************************)
\* _command_item of an active item; only active ones are selected.
OfferedOperations == {"confirm", "revise", "resolve"}

CommandItem(i) ==
  [rev |-> ShownVersion(i), kind |-> Shown(i).kind, scope |-> Shown(i).scope,
   summary |-> Shown(i).summary, payload |-> Shown(i).payload]

NoContext == [relation |-> Nothing, structured |-> FALSE, items |-> << >>, versions |-> << >>]

\* The context_body of resolve_operation_binding, as validate_command_context
\* returns it.  The versions are history: how far each offered item had come.
ContextOf(relation, structured) ==
  LET S == {i \in ItemIds : Selected(i)} IN
  [relation |-> relation, structured |-> structured,
   items |-> [i \in S |-> CommandItem(i)], versions |-> [i \in S |-> Versions(i)]]

\* An expired item of the room denies the whole projection.
ReadContext(t, relation, structured) ==
  /\ given[t] = NoContext
  /\ \A i \in ItemIds : ~ExpiryDue(i)
  /\ given' = [given EXCEPT ![t] = ContextOf(relation, structured)]
  /\ UNCHANGED <<history, cut, today, outcome, foreign>>

(***************************************************************************)
(* The answer.                                                             *)
(***************************************************************************)
Comparisons == {"contextual_restatement", "genuine_revision"}

\* authority: names the offered item and its content; digest: of the summary.
Evidence == [comparison : Comparisons, authority : BOOLEAN, digest : BOOLEAN]

Creations ==
  UNION {[op : {"create"}, id : {Nothing}, rev : {0}, kind : {k}, scope : Scopes,
          summary : Lengths, patch : Payloads[k], reason : {FALSE}, evidence : {Nothing}]
         : k \in DOMAIN Payloads}

Changes(c) ==
  UNION {[op : {"confirm", "resolve", "reopen"}, id : {i}, kind : {c.items[i].kind},
          rev : {c.items[i].rev, c.items[i].rev + 1}, scope : {c.items[i].scope},
          summary : {0} \cup Lengths, patch : {NoPatch}, reason : BOOLEAN,
          evidence : {Nothing}]
         \cup
         [op : {"revise"}, id : {i}, kind : {c.items[i].kind}, rev : {c.items[i].rev},
          scope : Scopes, summary : {0} \cup Lengths, patch : Patches(c.items[i].kind),
          reason : BOOLEAN, evidence : {Nothing} \cup Evidence]
         : i \in DOMAIN c.items}

\* provider_operation_schema: only a resolution has a variant without a payload,
\* the other variants take the complete payload of some kind.
Sayable(a) ==
  IF a.op = "resolve" THEN a.summary = 0 /\ a.patch = NoPatch /\ a.evidence = Nothing
  ELSE \E k \in DOMAIN Payloads : a.patch \in Payloads[k]

\* _semantic_operation
WellFormed(a) ==
  /\ a.summary <= SummaryMax
  /\ CASE a.op = "create" -> a.summary > 0 /\ a.patch \in Payloads[a.kind]
       [] a.op = "revise" -> a.summary > 0 \/ a.patch # NoPatch
       [] OTHER -> a.summary = 0 /\ a.patch = NoPatch

\* validate_intent_against_context
Bound(a, c) ==
  a.op # "create" =>
    /\ a.id \in DOMAIN c.items
    /\ a.rev = c.items[a.id].rev
    /\ a.op \in OfferedOperations
    /\ a.kind = c.items[a.id].kind /\ a.scope = c.items[a.id].scope

\* What the contract takes the item to be after the operation: an empty summary
\* and a missing field keep what was offered.
Reading(a, c) ==
  IF a.op = "create"
  THEN [kind |-> a.kind, scope |-> a.scope, summary |-> a.summary, payload |-> a.patch]
  ELSE [kind |-> a.kind, scope |-> a.scope,
        summary |-> IF a.summary = 0 THEN c.items[a.id].summary ELSE a.summary,
        payload |-> a.patch @@ c.items[a.id].payload]

SamePayload(a, c) == Reading(a, c).payload = c.items[a.id].payload
SameSummary(a, c) == Reading(a, c).summary = c.items[a.id].summary
Same(a, c) == SamePayload(a, c) /\ SameSummary(a, c)
Restates(a) == a.evidence # Nothing /\ a.evidence.comparison = "contextual_restatement"
Returning(c) == c.relation = "contextual_return"

\* _canonicalize_false_scope_conflict
FalseScopeConflict(a, c) ==
  /\ a.op = "create" /\ a.kind = "pending_review"
  /\ a.patch.review_kind = "scope_conflict"
  /\ a.patch.conflicting # {}
  /\ a.patch.conflicting \subseteq DOMAIN c.items

\* _canonicalize_contextual_restatement: what it refuses, and what it drops.
RestatementRefused(a, c) ==
  /\ a.op = "revise"
  /\ IF a.evidence = Nothing THEN SamePayload(a, c) /\ ~SameSummary(a, c)
     ELSE \/ ~a.evidence.authority
          \/ ~a.evidence.digest /\ (Restates(a) \/ Returning(c))
          \/ Restates(a) /\ (~SamePayload(a, c) \/ a.reason)

\* Fault: any evidence drops a revision that changes only the summary.
SeededRestatementDropped(a, c) ==
  a.op = "revise" /\ a.evidence # Nothing /\ SamePayload(a, c)

RestatementDropped(a, c) ==
  /\ a.op = "revise" /\ a.evidence # Nothing
  /\ SamePayload(a, c)
  /\ SameSummary(a, c) \/ Restates(a)

\* _canonicalize_authoritative_reaffirmation, in a contextual return without an
\* open review.
Reaffirmed(a, c) ==
  /\ Returning(c)
  /\ \A i \in DOMAIN c.items : c.items[i].kind # "pending_review"
  /\ CASE a.op = "create" -> \E i \in DOMAIN c.items : Content(c.items[i]) = Reading(a, c)
       [] a.op = "revise" -> ~a.reason /\ Same(a, c)
       [] a.op = "resolve" -> ~a.reason /\ a.kind # "pending_review"
       [] OTHER -> FALSE

Dropped(a, c) ==
  FalseScopeConflict(a, c) \/ RestatementDropped(a, c) \/ Reaffirmed(a, c)

Refused(a, c) == ~WellFormed(a) \/ ~Bound(a, c) \/ RestatementRefused(a, c)

NoOutcome == [state |-> "waiting", answer |-> Nothing, reading |-> Nothing, found |-> 0]

\* The answer is validated as soon as it is there.  An operation that was
\* refused is gone; one that was dropped or accepted is kept with the bundle.
Answer(t, a) ==
  LET c == given[t] IN
  /\ c # NoContext /\ outcome[t] = NoOutcome
  /\ c.structured => Sayable(a)
  /\ outcome' = [outcome EXCEPT ![t] =
       IF Refused(a, c) THEN [NoOutcome EXCEPT !.state = "refused"]
       ELSE [NoOutcome EXCEPT !.state = IF Dropped(a, c) THEN "dropped" ELSE "accepted",
                              !.answer = a, !.reading = Reading(a, c)]]
  /\ UNCHANGED <<history, cut, today, given, foreign>>

(***************************************************************************)
(* The application.                                                        *)
(***************************************************************************)
\* Fault: the revision is compared, the content is not.
SeededPreflight(t) ==
  LET a == outcome[t].answer IN
  a.op # "create" => Exists(a.id) /\ Content(Now(a.id)) = Content(given[t].items[a.id])

\* apply_bundle_atomic compares the target with what the turn was offered.
Preflight(t) ==
  LET a == outcome[t].answer IN
  a.op # "create" =>
    LET offered == given[t].items[a.id] IN
    /\ Versions(a.id) = a.rev
    /\ Content(Now(a.id)) = Content(offered)
    /\ Now(a.id).life = "active"

\* Fault: a patch replaces the payload.
SeededCandidate(a, c) ==
  IF a.op = "revise" THEN [Reading(a, c) EXCEPT !.payload = a.patch] ELSE Reading(a, c)

\* _semantic_candidate.  An empty summary is a summary here: a revision takes it
\* as it is.
Candidate(a, c) ==
  IF a.op = "revise" THEN [Reading(a, c) EXCEPT !.summary = a.summary] ELSE Reading(a, c)

\* validate_semantic_candidate
ValidCandidate(x) == x.summary \in 1 .. CandidateMax

\* _refresh
Refresh(v) == [v EXCEPT !.aging = today + 30, !.dormant = today + 90]

\* _prepare_item_application
NextVersion(a, x) ==
  IF a.op = "create" THEN NewItem(x, today)
  ELSE LET v == [Now(a.id) EXCEPT !.summary = x.summary, !.payload = x.payload] IN
       CASE a.op = "confirm" -> Refresh(v)
         [] a.op = "resolve" -> [v EXCEPT !.life = "resolved"]
         [] OTHER -> v

Target(t) == IF outcome[t].answer.op = "create" THEN t ELSE outcome[t].answer.id

\* An exception leaves the bundle in applying; a later attempt starts again.
Apply(t) ==
  LET a == outcome[t].answer
      x == Candidate(a, given[t])
      applicable == ValidCandidate(x) /\ ValidItem(NextVersion(a, x)) IN
  /\ outcome[t].state \in {"accepted", "applying"}
  /\ outcome' = [outcome EXCEPT ![t] =
       [@ EXCEPT !.state = IF ~Preflight(t) THEN "conflict"
                           ELSE IF applicable THEN "applied" ELSE "applying",
                 !.found = Versions(Target(t))]]
  /\ IF Preflight(t) /\ applicable
     THEN history' = [history EXCEPT ![Target(t)] = Append(@, NextVersion(a, x))]
     ELSE UNCHANGED history
  /\ UNCHANGED <<cut, today, given, foreign>>

(***************************************************************************)
(* Others.                                                                 *)
(***************************************************************************)
\* Astel, a client event or another window writes the item; the lifecycle job,
\* which is no part of this code, closes what has expired.
OtherWrite(i) ==
  /\ foreign < MaxForeign /\ Exists(i) /\ Now(i).life = "active"
  /\ \E v \in {[Now(i) EXCEPT !.life = l] : l \in {"resolved", "abandoned"}}
              \cup {[Now(i) EXCEPT !.summary = n] : n \in Lengths}
              \cup {[Now(i) EXCEPT !.life = "expired"] : n \in {d \in {today} : d >= Now(i).expires}} :
       history' = [history EXCEPT ![i] = Append(@, v)]
  /\ foreign' = foreign + 1
  /\ UNCHANGED <<cut, today, given, outcome>>

\* finalize_projection_lineage: a version was not authoritative.
Mark(i, n) ==
  /\ foreign < MaxForeign
  /\ n \in 1 .. Versions(i)
  /\ cut[i] = 0 \/ n < cut[i]
  /\ cut' = [cut EXCEPT ![i] = n]
  /\ foreign' = foreign + 1
  /\ UNCHANGED <<history, today, given, outcome>>

DayPasses ==
  /\ \E d \in Days : d > today /\ (\A e \in Days : e > today => d <= e) /\ today' = d
  /\ UNCHANGED <<history, cut, given, outcome, foreign>>

IntentInit ==
  /\ history = [i \in ItemIds |->
       IF i = Topic
       THEN <<NewItem([kind |-> "active_topic", scope |-> "room", summary |-> 100,
                       payload |-> [topic_state |-> "current"]], 0)>>
       ELSE IF i = Fact
       THEN <<NewItem([kind |-> "temporary_fact", scope |-> "global", summary |-> 100,
                       payload |-> [fact_state |-> "observed"]], 0)>>
       ELSE << >>]
  /\ cut = [i \in ItemIds |-> 0]
  /\ today = 0
  /\ given = [t \in Clients |-> NoContext]
  /\ outcome = [t \in Clients |-> NoOutcome]
  /\ foreign = 0

IntentNext ==
  \/ \E t \in Clients :
       \/ \E r \in Relations, s \in BOOLEAN : ReadContext(t, r, s)
       \/ given[t] # NoContext /\ outcome[t] = NoOutcome
          /\ \E a \in Creations \cup Changes(given[t]) : Answer(t, a)
       \/ Apply(t)
  \/ \E i \in ItemIds : OtherWrite(i) \/ \E n \in 1 .. Versions(i) : Mark(i, n)
  \/ DayPasses

IntentSpec == IntentInit /\ [][IntentNext]_intentVars

(***************************************************************************)
(* Properties.                                                             *)
(***************************************************************************)
\* A bundle conflicts because somebody wrote its target after the turn was given
\* its context, or because the turn was shown a version that was not the last
\* one; and one that is applied was written over nobody.
ConflictsAreReal ==
  \A t \in Clients :
    LET a == outcome[t].answer IN
    /\ outcome[t].state = "conflict" =>
         outcome[t].found > a.rev
    /\ outcome[t].state = "applied" /\ a.op # "create" =>
         outcome[t].found = a.rev /\ a.rev = given[t].versions[a.id]

\* What is applied is what was accepted: the item has the content that the
\* contract evaluated (validate_intent_against_context, _semantic_candidate).
AppliedAsRead ==
  [][\A t \in Clients :
       outcome[t].state # "applied" /\ outcome'[t].state = "applied" =>
         LET v == history'[Target(t)] IN
         Content(v[Len(v)]) = outcome[t].reading]_intentVars

\* No meaning is lost when an operation is dropped: the items would have stayed
\* as they are, except for a summary that the answer itself declares to be a
\* restatement without a reason, for a resolution in a contextual return, and
\* for a review of a conflict between items that were offered.
DroppedChangesNothing ==
  \A t \in Clients :
    LET a == outcome[t].answer
        c == given[t] IN
    outcome[t].state = "dropped" =>
      CASE a.op = "create" ->
             \/ a.kind = "pending_review" /\ a.patch.conflicting \subseteq DOMAIN c.items
             \/ \E i \in DOMAIN c.items : Content(c.items[i]) = outcome[t].reading
        [] a.op = "revise" ->
             \/ outcome[t].reading = Content(c.items[a.id])
             \/ Restates(a) /\ ~a.reason /\ outcome[t].reading.payload = c.items[a.id].payload
        [] a.op = "resolve" -> Returning(c)
        [] OTHER -> FALSE

\* The meaning of an accepted answer is kept on both ways: what is applied is
\* what the contract evaluated, and what is dropped would have said nothing new
\* (three canonicalisations, and a second computation of the content).
MeaningIsKept == []DroppedChangesNothing /\ AppliedAsRead

\* What was accepted can be applied: no bundle stays in applying.
AcceptedApplies == \A t \in Clients : outcome[t].state # "applying"

=============================================================================
