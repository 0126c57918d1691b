-------------------------- MODULE SectionAdmission --------------------------
(***************************************************************************)
(* Which sections of memory and continuity a provider request carries      *)
(* (house_continuity_v1_2_milestone4_memory_integration_local.py): the     *)
(* offered sections lose the paragraphs another section already shows, the *)
(* required ones must fit the budget, and the others are admitted by       *)
(* priority until the first that does not fit.                             *)
(*                                                                         *)
(* A section is [exactness, paragraphs]; a paragraph is a name and counts  *)
(* one against the budget.                                                 *)
(***************************************************************************)
EXTENDS Naturals, FiniteSets, Sequences, SequencesExt, FiniteSetsExt

(* OUTPUT_SECTION_ORDER: where a section stands in the request. *)
RenderOrder == <<"memory_g", "vault_recall", "exact_recall", "working_set", "conflict_notice",
                 "cold", "warm", "hot", "recent_turns", "sources">>

SectionIds == Range(RenderOrder)

Place(id) == CHOOSE i \in DOMAIN RenderOrder : RenderOrder[i] = id

MandatoryIntent == {"exact_recall", "cold"}

(* OPTIONAL_ADMISSION_PRIORITY. *)
Priority == <<"hot", "recent_turns", "warm", "sources", "memory_g", "vault_recall">>

Required == {"working_set", "conflict_notice"}

Continuity == {"cold", "warm", "hot"}

(* A memory attachment one of whose claims the working set contradicts is   *)
(* withheld, and a notice says so.                                          *)
Suppresses(contradicted, offered) == contradicted /\ "memory_g" \in DOMAIN offered

NoticeSection == [exactness |-> "derived", paragraphs |-> <<"notice">>]

Candidates(contradicted, offered) ==
    IF Suppresses(contradicted, offered)
    THEN [id \in (DOMAIN offered \ {"memory_g"}) \cup {"conflict_notice"} |->
            IF id = "conflict_notice" THEN NoticeSection ELSE offered[id]]
    ELSE offered

Entries(sections) ==
    {e \in (DOMAIN sections) \X (1..5) : e[2] \in DOMAIN sections[e[1]].paragraphs}

Text(sections, e) == sections[e[1]].paragraphs[e[2]]

Rank(sections, id) ==
    IF id \in Required THEN 3
    ELSE CASE sections[id].exactness = "exact" -> 2
           [] sections[id].exactness = "mixed" -> 1
           [] OTHER -> 0

Earlier(e, f) ==
    \/ Place(e[1]) < Place(f[1])
    \/ e[1] = f[1] /\ e[2] < f[2]

(* Fault: of equal paragraphs the first one wins, whatever its exactness. *)
SeededBeats(sections, e, f) == Earlier(e, f)

(* Of equal paragraphs the more exact section's wins, then the first. *)
Beats(sections, e, f) ==
    \/ Rank(sections, e[1]) > Rank(sections, f[1])
    \/ Rank(sections, e[1]) = Rank(sections, f[1]) /\ Earlier(e, f)

Winner(sections, text) ==
    CHOOSE e \in Entries(sections) :
        /\ Text(sections, e) = text
        /\ \A f \in Entries(sections) \ {e} :
              Text(sections, f) = text => Beats(sections, e, f)

Losers(sections) ==
    {e \in Entries(sections) : Winner(sections, Text(sections, e)) # e}

LostOf(sections, id) == {e \in Losers(sections) : e[1] = id}

WhollyLost(sections, id) == Cardinality(LostOf(sections, id)) = Len(sections[id].paragraphs)

(* m4_exact_m2_duplicate_conflict, m4_required_section_duplicate and       *)
(* m4_partial_dedup_unsafe: the whole request is refused.                  *)
DedupRefused(sections) ==
    \/ \E e \in Losers(sections) :
          LET w == Winner(sections, Text(sections, e)) IN
          \/ /\ "working_set" \in {e[1], w[1]}
             /\ "exact" \in {sections[e[1]].exactness, sections[w[1]].exactness}
          \/ e[1] \in Required
    \/ \E id \in DOMAIN sections :
          /\ LostOf(sections, id) # {} /\ ~WhollyLost(sections, id)
          /\ sections[id].exactness = "exact" \/ id \in Continuity

Deduplicated(sections) ==
    LET Places(id) == {i \in DOMAIN sections[id].paragraphs : <<id, i>> \notin Losers(sections)}
        Kept(id) == LET order == SetToSortSeq(Places(id), <)
                    IN [n \in DOMAIN order |-> sections[id].paragraphs[order[n]]]
    IN [id \in {s \in DOMAIN sections : ~WhollyLost(sections, s)} |->
          [sections[id] EXCEPT !.paragraphs = Kept(id)]]

Mandatory(sections) ==
    DOMAIN sections \cap (Required \cup MandatoryIntent)

Size(sections, ids) == MapThenSumSet(LAMBDA id : Len(sections[id].paragraphs), ids)

BudgetRefused(sections, budget) == Size(sections, Mandatory(sections)) > budget

(* The optional sections in order of priority, up to the first that does    *)
(* not fit: none is admitted past one that was left out.                    *)
Admitted(sections, budget) ==
    LET Present == SelectSeq(Priority, LAMBDA id : id \in DOMAIN sections \ Mandatory(sections))
        First(k) == Mandatory(sections) \cup {Present[i] : i \in 1..k}
        Fitting == {k \in 0..Len(Present) : Size(sections, First(k)) <= budget}
    IN First(Max(Fitting))

(* What the request carries, or that it is refused. *)
Admission(contradicted, offered, budget) ==
    LET Sections == Candidates(contradicted, offered)
        Kept == Deduplicated(Sections)
        Nothing == [id \in {} |-> <<>>]
    IN IF DedupRefused(Sections) THEN [state |-> "refused", sections |-> Nothing]
       ELSE IF BudgetRefused(Kept, budget)
       THEN [state |-> "failed_closed", sections |-> Nothing]
       ELSE [state |-> "selected",
             sections |-> [id \in Admitted(Kept, budget) |-> Kept[id]]]

-----------------------------------------------------------------------------
(* What an admission owes the request, stated from what was offered and     *)
(* what came out of it.  Every required section is carried whole.  No text  *)
(* is carried twice, and a text carried by several was taken from the most  *)
(* exact of them.  Only sections left out for the budget lose text, and     *)
(* they are the last by priority: nothing is admitted past them.            *)
AdmissionOwes(contradicted, offered, budget, carried) ==
    LET Sections == Candidates(contradicted, offered)
        Texts(id) == Range(Sections[id].paragraphs)
        Carried(id) == id \in DOMAIN carried
        Carries(id, text) == Carried(id) /\ text \in Range(carried[id].paragraphs)
        Holders(text) == {id \in DOMAIN Sections : text \in Texts(id)}
        Lost == {text \in UNION {Texts(id) : id \in DOMAIN Sections} :
                    \A id \in DOMAIN Sections : ~Carries(id, text)}
    IN /\ \A id \in DOMAIN Sections \cap Required : carried[id] = Sections[id]
       /\ \A id \in DOMAIN carried :
             Cardinality(Range(carried[id].paragraphs)) = Len(carried[id].paragraphs)
       /\ \A id, other \in DOMAIN carried :
             id # other => Range(carried[id].paragraphs) \cap Range(carried[other].paragraphs) = {}
       /\ \A id \in DOMAIN carried : \A text \in Range(carried[id].paragraphs) :
             \A holder \in Holders(text) : Rank(Sections, holder) <= Rank(Sections, id)
       /\ Size(carried, DOMAIN carried) <= budget
       /\ \A text \in Lost : \E id \in Holders(text) : ~Carried(id) /\ id \in Range(Priority)
       /\ \A i, j \in DOMAIN Priority :
             i < j /\ Carried(Priority[j]) /\ Priority[i] \in DOMAIN Sections =>
                \/ Carried(Priority[i])
                \/ \A text \in Texts(Priority[i]) : \E id \in Holders(text) \ {Priority[i]} :
                      Rank(Sections, id) >= Rank(Sections, Priority[i])
=============================================================================
