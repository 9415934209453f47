---------------------------- MODULE KnowledgeGraph ----------------------------
(***************************************************************************)
(* The relations an imported document brings into the knowledge graph:     *)
(* stated by the document, planned as a curriculum, read out of its text   *)
(* by the models, pruned of cycles and repaired where the graph is of no   *)
(* use for learning.  What the models answer and how the relations score   *)
(* is open: an operator gives the set of all outcomes.                     *)
(*                                                                         *)
(* A document is a record                                                  *)
(*   order     its knowledge points by difficulty, role and name           *)
(*   topic     the category of each                                        *)
(*   tags      the tags of each                                            *)
(*   stated    prerequisite pairs of its structured fields                 *)
(*   cues      pairs <<k, x>>: the text of k names x in a sentence with a  *)
(*             dependency cue                                              *)
(*   models    whether the import may use models                           *)
(* of few knowledge points: no category is large enough to be split into   *)
(* several learning directions, and none has to be merged.                 *)
(***************************************************************************)
EXTENDS Naturals, Sequences, FiniteSets, SequencesExt, FiniteSetsExt

CONSTANTS
  Branches,   \* 4 in the code: successors a knowledge point is given at most
  Depth,      \* 7 in the code: the depth of a curriculum tree
  Anchors,    \* 4 in the code: nodes of a direction a repair links in a row
  LinkCap     \* 3 in the code: links of one knowledge point to the catalog

ASSUME GraphBounds == {Branches, Depth, Anchors, LinkCap} \subseteq Nat \ {0}

\* by: "document", "model" or "rule" (generation_method)
Relation(from, to, type, by) == [from |-> from, to |-> to, type |-> type, by |-> by]

\* The edges of the directional relations: what depends comes last.
Edges(R) ==
  {IF r.type = "depends_on" THEN <<r.to, r.from>> ELSE <<r.from, r.to>> :
     r \in {x \in R : x.type # "related_to"}}

Ends(E) == {{e[1], e[2]} : e \in E}

\* What can be reached from k is in every set with k that no edge leaves.
Reached(k, E) ==
  LET nodes  == {k} \cup UNION Ends(E)
      closed == {S \in SUBSET nodes : k \in S /\ \A e \in E : e[1] \in S => e[2] \in S}
  IN {x \in nodes : \A S \in closed : x \in S}

\* Every set of nodes has one that no edge from the set leads to.
Acyclic(E) ==
  \A S \in SUBSET UNION Ends(E) :
    S # {} => \E x \in S : \A e \in E : e[2] = x => e[1] \notin S

Items(doc) == ToSet(doc.order)

Stated(doc) == {Relation(p[1], p[2], "prerequisite", "document") : p \in doc.stated}

-----------------------------------------------------------------------------
(* The plan and the models                                                 *)

\* build_relation_plan, first part: every knowledge point but the first of
\* its category follows the earlier one that scores best among those with
\* room for it.
Curricula(doc) ==
  LET Room(E, k) ==
        /\ Cardinality({e \in E : e[1] = k}) < Branches
        /\ Cardinality({x \in Items(doc) : x # k /\ k \in Reached(x, E)}) < Depth
      Sources(E, S) == LET free == {k \in S : Room(E, k)} IN
                       IF free = {} THEN S ELSE free
      Earlier(n) == {doc.order[i] : i \in {j \in 1..(n - 1) :
                       doc.topic[doc.order[j]] = doc.topic[doc.order[n]]}}
      grown[n \in 0..Len(doc.order)] ==
        IF n = 0 THEN {{}}
        ELSE IF Earlier(n) = {} THEN grown[n - 1]
        ELSE UNION {{E \cup {<<k, doc.order[n]>>} : k \in Sources(E, Earlier(n))} :
                      E \in grown[n - 1]}
  IN grown[Len(doc.order)]

\* build_relation_plan, second part: the pairs the model is asked about.
Asked(doc, E) ==
  {{c[1], c[2]} : c \in {x \in doc.cues : /\ x[1] # x[2]
                                          /\ {x[1], x[2]} \subseteq Items(doc)}}
    \ Ends(E)

\* generate_model_relations: of each pair the model accepts one relation, in
\* either direction, or none.
Decided(pairs) ==
  LET Answers(pair) == {{}} \cup
        {{Relation(k, x, type, "model")} : k \in pair, x \in pair,
           type \in {"prerequisite", "depends_on", "next_step", "related_to"}}
      all == UNION {Answers(pair) : pair \in pairs}
  IN {UNION {f[pair] : pair \in pairs} :
        f \in {g \in [pairs -> all] : \A pair \in pairs : g[pair] \in Answers(pair)}}

\* validate_model_candidates: the reviewer accepts any of them; a batch that
\* fails is dropped.
Reviewed(R) == SUBSET R

\* _persist_relation_records: no relation twice, none of a node to itself.
Persisted(R, new) ==
  R \cup {r \in new : /\ r.from # r.to
                      /\ ~\E x \in R : /\ x.from = r.from /\ x.to = r.to
                                       /\ x.type = r.type}

\* _remove_cycle_forming_relations: by falling confidence, a relation that
\* closes a cycle with those kept goes.  A stated one (1.0) comes before any
\* of a rule (at most 0.95), the model's come anywhere.
Pruned(R) ==
  LET Ahead(r, K) == IF r.by = "document" THEN {x \in K : x.by # "rule"} ELSE K
  IN {K \in SUBSET R :
        /\ Acyclic(Edges(K))
        /\ \A r \in R \ K : ~Acyclic(Edges(Ahead(r, K) \cup {r}))}

-----------------------------------------------------------------------------
(* Quality of the graph, and its repair                                    *)

\* _suggest_learning_directions: one for each category, of all knowledge
\* points that share a tag with it.
Directions(doc) ==
  {{k \in Items(doc) :
      \E x \in Items(doc) : doc.topic[x] = c /\ doc.tags[k] \cap doc.tags[x] # {}} :
     c \in {doc.topic[x] : x \in Items(doc)}} \ {{}}

\* Four fifths of a direction lie on paths, one of three nodes if it has four.
Served(d, E) ==
  /\ 5 * Cardinality(d \cap UNION Ends(E)) >= 4 * Cardinality(d)
  /\ Cardinality(d) >= 4 =>
       \E e, f \in E : /\ e[2] = f[1] /\ e[1] # f[2]
                       /\ {e[1], e[2], f[2]} \subseteq d

\* evaluate_graph_quality: "quality_gate_passed".  At most 15 in 100 nodes
\* are isolated, every node has a direction, every direction is served.
Sound(items, directions, E) ==
  /\ items # {}
  /\ 100 * Cardinality(items \ UNION Ends(E)) <= 15 * Cardinality(items)
  /\ items = UNION directions
  /\ \A d \in directions : Served(d, E)
  /\ Acyclic(E)

\* The nodes a repair is for: isolated, without a direction, or in one that
\* is not served.
Deficient(items, directions, E) ==
  (items \ UNION Ends(E)) \cup (items \ UNION directions)
    \cup UNION {d \in directions : ~Served(d, E)}

\* repair_curriculum_relations: in each direction with a deficient node the
\* first nodes follow one another and the others follow one of those.
Repairs(doc, R) ==
  LET wanted == Deficient(Items(doc), Directions(doc), Edges(R))
      Proposed(d) ==
        LET nodes    == SelectSeq(doc.order, LAMBDA k : k \in d)
            anchors  == SubSeq(nodes, 1, Min({Anchors, Len(nodes)}))
            targeted == SelectSeq(nodes, LAMBDA k : k \in wanted)
            others   == {i \in DOMAIN targeted : targeted[i] \notin ToSet(anchors)}
        IN IF targeted = <<>> THEN {}
           ELSE {<<anchors[i], anchors[i + 1]>> : i \in 1..(Len(anchors) - 1)} \cup
                {<<anchors[((i - 1) % Len(anchors)) + 1], targeted[i]>> : i \in others}
      linked == {{r.from, r.to} : r \in R}
  IN {Relation(p[1], p[2], "next_step", "rule") :
        p \in {q \in UNION {Proposed(d) : d \in Directions(doc)} :
                 {q[1], q[2]} \notin linked}}

\* One round of the repair loop of run_import, which ends when the graph is
\* sound or nothing is left to repair.
Repaired(doc, R) ==
  IF \/ Sound(Items(doc), Directions(doc), Edges(R))
     \/ Repairs(doc, R) = {}
  THEN {R}
  ELSE Pruned(Persisted(R, Repairs(doc, R)))

\* The relations between the knowledge points of a document, after at most
\* two rounds.
Drafts(doc) ==
  IF ~doc.models THEN {Stated(doc)}
  ELSE LET planned == {{Relation(e[1], e[2], "next_step", "rule") : e \in E} : E \in Curricula(doc)}
           read(P)   == UNION {Reviewed(F) : F \in Decided(Asked(doc, Edges(P)))}
           first     == UNION {UNION {Pruned(Persisted(Persisted(Stated(doc), P), F)) : F \in read(P)} : P \in planned}
           second    == UNION {Repaired(doc, R) : R \in first}
       IN UNION {Repaired(doc, R) : R \in second}

-----------------------------------------------------------------------------
(* Links to the catalog, validation and projection                         *)

\* generate_cross_document_relations: a knowledge point links to at most
\* LinkCap of the published ones; it depends on those its text names as
\* dependencies, and is related to those it shares a tag with.
Links(doc, catalog, tagsOf) ==
  LET Type(k, x) == IF <<k, x>> \in doc.cues THEN "depends_on" ELSE "related_to"
      Suggested(k) == {Relation(k, x, Type(k, x), "rule") :
                         x \in {y \in catalog : \/ <<k, y>> \in doc.cues
                                                \/ doc.tags[k] \cap tagsOf[y] # {}}}
      Chosen(k) == {S \in SUBSET Suggested(k) :
                      Cardinality(S) = Min({LinkCap, Cardinality(Suggested(k))})}
  IN FoldSet(LAMBDA k, acc : {L \cup S : L \in acc, S \in Chosen(k)},
             {{}}, Items(doc))

\* validate_import: no relation of a node to itself, and a cycle is refused
\* at its prerequisites, if it has any.
Valid(R) ==
  /\ \A r \in R : r.from # r.to
  /\ (\E r \in R : r.type = "prerequisite") => Acyclic(Edges(R))

\* What the import of a document may propose: its prerequisites, and all its
\* edges with the links to the catalog.  A draft that depends on what a link
\* says already is a duplicate in the projected graph.
Proposals(doc, catalog, tagsOf) ==
  LET Repeats(R, L) == \E r \in R, l \in L : /\ r.type = "depends_on" /\ l.type = r.type
                                             /\ r.from = l.from /\ r.to = l.to
  IN {[edges |-> Edges(c[1] \cup c[2]),
       pairs |-> {<<r.from, r.to>> : r \in {x \in c[1] : x.type = "prerequisite"}}] :
        c \in {x \in {R \in Drafts(doc) : Valid(R)} \X Links(doc, catalog, tagsOf) :
                 ~Repeats(x[1], x[2])}}

\* Variant of Projectable: a cycle through the catalog is not noticed.
ProjectedAlone(proposal, rel) ==
  /\ proposal.pairs \cap rel = {}
  /\ Acyclic(proposal.edges)

\* _projected_readiness beside the relations of the catalog: no relation
\* twice and no cycle.
Projectable(proposal, rel) ==
  /\ proposal.pairs \cap rel = {}
  /\ Acyclic(proposal.edges \cup rel)
=============================================================================
