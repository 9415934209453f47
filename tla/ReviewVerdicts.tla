---------------------------- MODULE ReviewVerdicts -----------------------------
(***************************************************************************)
(* The claims of one lecture or practice guide and what two review models  *)
(* make of them (agents/review_agent.py, review_claim_manifest.py).        *)
(*                                                                         *)
(* A draft is [kind, text, cites], each a function of the Sites, the       *)
(* fields of the resource that hold one factual statement:                 *)
(*   "concept"        core_concepts[i].explanation                         *)
(*   "misconception"  misconceptions[i], two fields reviewed as one        *)
(*   "instruction"    steps[i].instruction                                 *)
(*   "code"           steps[i].code_or_command, and troubleshooting        *)
(* A text is an abstract wording, "filler" the neutral prose that replaces *)
(* a removed statement, "none" an optional field left out.  A wording is   *)
(* taken to share words with the chunks it cites.                          *)
(***************************************************************************)
EXTENDS EvidenceSelection

CONSTANTS
    Sites,
    Place,     \* the place of a site in the order of the manifest
    Roles,     \* primary_review_model, secondary_review_model
    QuotedIn,  \* chunks that contain a wording literally
    Targets    \* knowledge points the resource must cover

ASSUME SitesAssumption == IsFiniteSet(Sites)
ASSUME PlaceAssumption ==
  Place \in [Sites -> Nat] /\ \A s, t \in Sites : Place[s] = Place[t] => s = t
ASSUME RolesAssumption == Roles # {}
ASSUME TargetsAssumption == IsFiniteSet(Targets)

Declared(draft) == UNION {draft.cites[s] : s \in Sites}

\* build_review_claims: teaching prose is no claim, but the filler of a concept
\* is reviewed like any explanation.
IsClaim(draft, s) ==
  /\ draft.text[s] # "none"
  /\ draft.text[s] = "filler" => draft.kind[s] \in {"concept", "misconception"}

Claims(draft) == {s \in Sites : IsClaim(draft, s)}

\* extract_atomic_claims: the knowledge points of a claim are those of its
\* cited chunks that are still evidence.
Knowledge(draft, evidence, s) ==
  {KnowledgeOf[c] : c \in draft.cites[s] \cap Range(evidence)}

HighRisk(kind) == kind = "code"

\* How many of some claims come before s in the manifest: their order in a
\* batch is always that of the manifest, so that a batch is a set.
Before(s, claims) == Cardinality({t \in claims : Place[t] < Place[s]})

\* A map and, where it says nothing, another
Overriding(f, g) ==
  [x \in DOMAIN f \cup DOMAIN g |-> IF x \in DOMAIN f THEN f[x] ELSE g[x]]

\* _plan_review_batches: consecutive claims, as many as fit
Batches(claims, most) ==
  [i \in 1..((Cardinality(claims) + most - 1) \div most) |->
     {s \in claims : Before(s, claims) \div most = i - 1}]

\* _split_review_batch
Halves(batch) ==
  LET first == {s \in batch : Before(s, batch) < Cardinality(batch) \div 2} IN
  <<first, batch \ first>>

\* _build_review_payload: the evidence shown for a batch.  A recheck adds chunks
\* of the claims' knowledge points that no claim of the batch cites.
Packet(draft, evidence, batch, recheck) ==
  LET cited == UNION {draft.cites[s] : s \in batch}
      about == UNION {Knowledge(draft, evidence, s) : s \in batch}
  IN [declared |-> Range(evidence) \cap cited,
      supplemental |-> IF recheck
                       THEN {c \in Range(evidence) \ cited : KnowledgeOf[c] \in about} ELSE {}]

-----------------------------------------------------------------------------
(* One channel.  A check is [verdict, sources, text, packet]; the last two *)
(* record what the model was shown, for the properties.                    *)

\* What a model may say of a claim, before it is validated: sources may be
\* missing, and need not be the ones the claim declares.
Replies(draft, evidence, s) ==
  [verdict : {"supported"},
   sources : {draft.cites[s], {}, Range(evidence) \ Declared(draft)}] \cup
  [verdict : {"contradicted", "insufficient"}, sources : {{}}]

\* _deterministic_review
Grounded(draft, evidence, s) ==
  draft.cites[s] # {} /\ draft.cites[s] \subseteq Range(evidence)

\* _direct_literal_evidence_source_ids
LiteralSources(draft, evidence, s) ==
  IF draft.kind[s] = "code" /\ Grounded(draft, evidence, s)
  THEN draft.cites[s] \cap QuotedIn[draft.text[s]] ELSE {}

\* _cross_validate: code found literally in its evidence is supported; support
\* without sources falls back to the declared ones, or is no support.
CrossValidated(check, draft, evidence, s) ==
  LET named    == check.sources \cap Range(evidence)
      literal  == LiteralSources(draft, evidence, s)
      fallback == IF Grounded(draft, evidence, s) THEN draft.cites[s] ELSE {}
  IN IF literal # {} THEN [check EXCEPT !.verdict = "supported", !.sources = literal]
     ELSE IF check.verdict # "supported" THEN [check EXCEPT !.sources = named]
     ELSE IF named # {} THEN [check EXCEPT !.sources = named]
     ELSE IF fallback # {} THEN [check EXCEPT !.sources = fallback]
     ELSE [check EXCEPT !.verdict = "insufficient", !.sources = {}]

-----------------------------------------------------------------------------
(* Both channels: a pair is [Roles -> [claims -> check]]                   *)

Disputed(pair, claims) ==
  {s \in claims : \E r, q \in Roles : pair[r][s].verdict # pair[q][s].verdict}

\* Variant of Resolved: any source of the evidence will do.
ResolvedAnySource(pair, draft, s) ==
  LET r == CHOOSE r \in Roles : TRUE IN
  IF s \in Disputed(pair, {s}) THEN "unresolved" ELSE pair[r][s].verdict

\* _resolved_claim_statuses: support counts only on sources the resource
\* declares itself.
Resolved(pair, draft, s) ==
  LET r       == CHOOSE r \in Roles : TRUE
      sources == UNION {pair[q][s].sources : q \in Roles}
  IN IF s \in Disputed(pair, {s}) THEN "unresolved"
     ELSE IF pair[r][s].verdict = "supported"
             /\ (sources = {} \/ ~(sources \subseteq Declared(draft)))
     THEN "insufficient" ELSE pair[r][s].verdict

WithStatus(pair, draft, statuses) ==
  {s \in Claims(draft) : Resolved(pair, draft, s) \in statuses}

\* _deterministic_coverage
Covered(pair, draft, evidence) ==
  Targets \cap UNION {Knowledge(draft, evidence, s) :
                        s \in WithStatus(pair, draft, {"supported"})}

\* _review_resource: the claims whose evidence is looked for again.  A target
\* without any claim makes all of them suspect.
ToRefresh(pair, draft, evidence) ==
  LET missing == Targets \ Covered(pair, draft, evidence)
      named   == WithStatus(pair, draft, {"unresolved", "contradicted", "insufficient"})
                 \cup {s \in Claims(draft) :
                         Knowledge(draft, evidence, s) \cap missing # {}}
  IN IF named = {} /\ missing # {} THEN Claims(draft) ELSE named

\* _merge_recheck
Rechecked(original, recheck) ==
  [r \in Roles |-> [s \in DOMAIN original[r] |->
     IF s \in DOMAIN recheck[r] THEN recheck[r][s] ELSE original[r][s]]]

\* The metrics that decide: less than 5 % of the claims unsupported, at least
\* 90 % of the targets covered.  The difficulty is taken to match.
MetricsPass(pair, draft, evidence) ==
  LET claims == Claims(draft)
      bad    == WithStatus(pair, draft, {"unresolved", "contradicted", "insufficient"})
  IN /\ claims # {} /\ 100 * Cardinality(bad) < 5 * Cardinality(claims)
     /\ Targets # {}
     /\ 100 * Cardinality(Covered(pair, draft, evidence)) >= 90 * Cardinality(Targets)
=============================================================================
