--------------------------- MODULE ResourceRevision ----------------------------
(***************************************************************************)
(* How a draft changes between two reviews (agents/generation_agent.py,    *)
(* agents/nodes.py): the model's patches are confined to the rejected      *)
(* fields, what it left of a rejected statement is removed, and a draft    *)
(* without a claim is written anew.                                        *)
(***************************************************************************)
EXTENDS ReviewVerdicts

\* _normalize_revision_path: misconceptions[i] names no editable field.
Editable(kind) == kind # "misconception"

\* _audited_revision_claims: the rejected statements, at their sites
Audited(report) ==
  [s \in WithStatus(report.pair, report.draft, {"unresolved", "contradicted", "insufficient"})
     |-> report.draft.text[s]]

\* _build_revision_plan: the fields a patch may touch
Allowed(report) ==
  {s \in DOMAIN Audited(report) : Editable(report.draft.kind[s])}

\* _sanitize_revision_patches, _apply_revision_patches
Patched(draft, patches) ==
  [draft EXCEPT !.text = [s \in Sites |-> IF s \in DOMAIN patches THEN patches[s] ELSE @[s]]]

\* _revision_fallback_text
Blank(kind) == IF kind = "code" THEN "none" ELSE "filler"

\* _remove_residual_audited_claims
Removed(draft, audited) ==
  [draft EXCEPT !.text = [s \in Sites |->
     IF s \in DOMAIN audited /\ Editable(draft.kind[s]) /\ @[s] = audited[s]
     THEN Blank(draft.kind[s]) ELSE @[s]]]

\* Variant of Stripped: a rewritten draft is taken as it is.
StrippedNothing(draft, audited) == draft

\* _strip_audited_claims_after_repairs
Stripped(draft, audited) == Removed(draft, audited)

\* _finalize_task: what the deterministic convergence is offered for
Convergent(report) ==
  /\ WithStatus(report.pair, report.draft, {"contradicted"}) = {}
  /\ Targets \subseteq Covered(report.pair, report.draft, report.evidence)
  /\ WithStatus(report.pair, report.draft, {"unresolved", "insufficient"}) # {}

\* _safe_convergence_claims: open statements without risk, and none that is the
\* only one about a target.
Removable(report, evidence) ==
  LET draft == report.draft
      Sharing(k) == {s \in Claims(draft) : k \in Knowledge(draft, evidence, s)}
      safe == {s \in DOMAIN Audited(report) :
                 /\ ~HighRisk(draft.kind[s])
                 /\ \A k \in Knowledge(draft, evidence, s) \cap Targets :
                      Cardinality(Sharing(k)) > 1}
  IN IF Convergent(report) THEN [s \in safe |-> draft.text[s]] ELSE << >>

\* The whitelist of a resource: the chunks about its targets, or all of them.
Whitelist(evidence) ==
  LET own == {c \in Range(evidence) : KnowledgeOf[c] \in Targets} IN
  IF own = {} THEN Range(evidence) ELSE own

\* Code may be left out.
Wordings(kind, texts) == IF kind = "code" THEN texts \cup {"none"} ELSE texts

\* What a model may write from a whitelist: each field cites one chunk.
Written(kind, texts, whitelist) ==
  {[kind |-> kind, text |-> t, cites |-> [s \in Sites |-> {c[s]}]] :
     t \in {f \in [Sites -> texts \cup {"none"}] :
              \A s \in Sites : f[s] \in Wordings(kind[s], texts)},
     c \in [Sites -> whitelist]}
=============================================================================
