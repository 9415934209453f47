------------------------------ MODULE ReviewAgent ------------------------------
(***************************************************************************)
(* One resource of a generation task on its way through retrieval,         *)
(* generation, review and revision (agents/nodes.py, review_agent.py,      *)
(* generation_agent.py, orchestrator_agent.py), with the batches and calls *)
(* of a review, its answer cache, and failures and crashes in between.     *)
(*                                                                         *)
(* A review splits the claims into batches that run in parallel, each with *)
(* one call per model.  A batch whose calls fail is halved and asked again *)
(* if that can help.  The main thread collects the batches in order and    *)
(* saves the cache after each.  Disputed, unsupported or uncovered claims  *)
(* are reviewed once more on refreshed evidence.                           *)
(***************************************************************************)
EXTENDS ResourceRevision

CONSTANTS
    Kinds,        \* the kinds of the sites, one function per kind of resource
    Texts,        \* wordings a model comes up with
    FirstTexts,   \* those of the first draft
    Voices,       \* bound: verdicts the models give
    Collections,  \* the active collection at one time or another
    Explicit,     \* priority and prerequisite knowledge points of the plan
    Practice,     \* whether the plan asks for a practice guide
    NResults,
    BatchSizes,   \* claims that fit into one batch
    MaxRounds,    \* 2: counted revision rounds
    MaxFaults,    \* bound: failures, deadlines and crashes together
    MaxDissents,  \* bound: answers other than support on the declared sources
    NoReport

ASSUME NResultsAssumption == NResults \in 1..Capacity
ASSUME MaxRoundsAssumption == MaxRounds \in Nat
ASSUME BatchSizesAssumption == BatchSizes \subseteq Nat \ {0}
ASSUME CollectionsAssumption == Collections \subseteq SUBSET Chunks
ASSUME ExplicitAssumption == Explicit \in Seq(Range(Explicit))

VARIABLES
    draft,     \* the resource
    evidence,  \* the chunks of the task
    node,      \* "retrieve", "generate", "review", "finalize", "passed", "withheld"
    review,    \* the review node, see Idle and Reviewing
    cache,     \* ReviewBatchCache: what the models answered, by key
    saved,     \* the snapshot in the latest review run's row
    report,    \* the latest report
    round,     \* revision rounds so far; MaxRounds + 1 is the convergence
    most,      \* claims per batch, fixed by the settings
    faults,
    dissents

vars == <<draft, evidence, node, review, cache, saved, report, round, most, faults, dissents>>

Idle == [phase |-> "idle"]

\* A batch is asked segment by segment; halving replaces a segment by two.
Asked(batch) == [todo |-> <<batch>>, said |-> [r \in Roles |-> [is |-> "open"]],
                 done |-> [r \in Roles |-> << >>], at |-> "running"]

\* phase: "initial" or "recheck"; pair: the initial pair, once there is one
Reviewing(phase, claims, shown, pair) ==
  LET batches == Batches(claims, most) IN
  [phase |-> phase, shown |-> shown, pair |-> pair, late |-> FALSE, collected |-> 0,
   batches |-> [i \in DOMAIN batches |-> Asked(batches[i])]]

Init ==
  /\ \E kind \in Kinds :
       draft = [kind |-> kind, text |-> [s \in Sites |-> "none"],
                cites |-> [s \in Sites |-> {}]]
  /\ evidence = <<>> /\ node = "retrieve" /\ review = Idle
  /\ cache = << >> /\ saved = << >> /\ report = NoReport
  /\ round = 0 /\ most \in BatchSizes /\ faults = 0 /\ dissents = 0

Faulty == faults < MaxFaults /\ faults' = faults + 1

-----------------------------------------------------------------------------
(* Retrieval and generation                                                *)

Fresh(n) == UNION {Retrievals(c, Explicit, Practice, <<>>, n) : c \in Collections}

Retrieve ==
  /\ node = "retrieve"
  /\ \E fresh \in Fresh(NResults) :
       evidence' = IF round = 0 THEN fresh
                   ELSE Merged(evidence, fresh, <<>>, Declared(draft))
  /\ evidence' # <<>>
  /\ node' = "generate"
  /\ UNCHANGED <<draft, review, cache, saved, report, round, most, faults, dissents>>

Generated(new) ==
  /\ draft' = new /\ node' = "review"
  /\ UNCHANGED <<evidence, review, cache, saved, report, round, most, faults, dissents>>

Generate ==
  /\ node = "generate" /\ round = 0
  /\ \E new \in Written(draft.kind, FirstTexts, Whitelist(evidence)) :
       Claims(new) # {} /\ Generated(new)

\* The statements a round removes: all rejected ones, or in the convergence
\* only those that are safe to lose.
ToRemove == IF round > MaxRounds THEN Removable(report, evidence) ELSE Audited(report)

\* The fields a model may propose a new wording for; none in the convergence.
Patches ==
  LET allowed == IF round > MaxRounds THEN {} ELSE Allowed(report) IN
  UNION {{p \in [fields -> Texts \cup {"none"}] :
            \A s \in fields : p[s] \in Wordings(draft.kind[s], Texts)} :
           fields \in SUBSET allowed}

\* generate_one on a previous candidate.  A draft that cites a chunk the
\* evidence has lost is no candidate (revision_candidate_source_missing).
Revise ==
  /\ node = "generate" /\ round > 0
  /\ Declared(draft) \subseteq Whitelist(evidence)
  /\ \E patches \in Patches :
       LET revised == Removed(Patched(draft, patches), ToRemove) IN
       IF Claims(revised) # {} THEN Generated(revised)
       ELSE \E anew \in Written(draft.kind, Texts, Whitelist(evidence)) :
              LET rewritten == Stripped(anew, ToRemove) IN
              Claims(rewritten) # {} /\ Generated(rewritten)

-----------------------------------------------------------------------------
(* The review                                                              *)

StartReview ==
  /\ node = "review" /\ review.phase = "idle"
  /\ review' = Reviewing("initial", Claims(draft), evidence, NoReport)
  /\ saved' = cache
  /\ UNCHANGED <<draft, evidence, node, cache, report, round, most, faults, dissents>>

Segment(j) == Head(review.batches[j].todo)

Shown(batch) == Packet(draft, review.shown, batch, review.phase = "recheck")

\* Variant of Key: the wording of a claim is left out.
KeyBySite(batch, role) ==
  [claims |-> batch, packet |-> Shown(batch), role |-> role,
   recheck |-> review.phase = "recheck"]

\* ReviewBatchCache._key; a claim id covers the site and the wording.
Key(batch, role) ==
  [claims |-> {<<s, draft.text[s]>> : s \in batch},
   packet |-> Shown(batch), role |-> role, recheck |-> review.phase = "recheck"]

Valid(checks) ==
  [s \in DOMAIN checks |-> CrossValidated(checks[s], draft, review.shown, s)]

\* The answers of one call to a model
Answers(batch) ==
  LET Check(s, reply) == [verdict |-> reply.verdict, sources |-> reply.sources,
                          text |-> draft.text[s], packet |-> Shown(batch)]
      replies == [s \in batch |-> {reply \in Replies(draft, review.shown, s) :
                                            reply.verdict \in Voices}]
  IN {[s \in batch |-> Check(s, given[s])] :
        given \in {g \in [batch -> UNION Range(replies)] :
                     \A s \in batch : g[s] \in replies[s]}}

Dissents(answer) ==
  Cardinality({s \in DOMAIN answer :
    answer[s].verdict # "supported" \/ answer[s].sources # draft.cites[s]})

\* _review_batch_pair, once both calls of a segment have ended: join them, halve
\* the segment, or give the batch up.
Settled(b, said) ==
  LET failed == {said[r].is : r \in Roles} \ {"said"}
      rest   == Tail(b.todo)
      asked  == [b EXCEPT !.said = [r \in Roles |-> [is |-> "open"]]]
  IN IF "open" \in failed THEN [b EXCEPT !.said = said]
     ELSE IF failed = {}
     THEN [asked EXCEPT !.todo = rest, !.done = [r \in Roles |-> Overriding(b.done[r], said[r].checks)],
                        !.at = IF rest = <<>> THEN "done" ELSE "running"]
     ELSE IF failed = {"splittable"} /\ Cardinality(Head(b.todo)) > 1
     THEN [asked EXCEPT !.todo = Halves(Head(b.todo)) \o rest]
     ELSE [asked EXCEPT !.at = "error"]

Said(j, role, answer) ==
  review' = [review EXCEPT !.batches[j] =
               Settled(@, [@.said EXCEPT ![role] = answer])]

Checked(checks) == [is |-> "said", checks |-> Valid(checks)]

Pending(j, role) ==
  /\ review.phase # "idle"
  /\ review.batches[j].at = "running" /\ review.batches[j].said[role].is = "open"

\* _review_batch_role, answered from the cache ...
Replay(j, role) ==
  /\ Pending(j, role)
  /\ Key(Segment(j), role) \in DOMAIN cache
  /\ Said(j, role, Checked(cache[Key(Segment(j), role)]))
  /\ UNCHANGED <<draft, evidence, node, cache, saved, report, round, most, faults, dissents>>

\* ... by the model or its fallback ...
Call(j, role) ==
  LET key == Key(Segment(j), role) IN
  /\ Pending(j, role) /\ ~review.late
  /\ key \notin DOMAIN cache
  /\ \E answer \in Answers(Segment(j)) :
       /\ Said(j, role, Checked(answer))
       /\ cache' = Overriding([k \in {key} |-> Valid(answer)], cache)
       /\ dissents' = dissents + Dissents(answer)
  /\ dissents' <= MaxDissents
  /\ UNCHANGED <<draft, evidence, node, saved, report, round, most, faults>>

\* ... or not: truncated, failed or mismatched answers can be asked for in
\* smaller batches, others cannot.
CallFails(j, role, how) ==
  /\ Pending(j, role) /\ Key(Segment(j), role) \notin DOMAIN cache
  /\ IF review.late THEN how = "fatal" /\ UNCHANGED faults ELSE Faulty
  /\ Said(j, role, [is |-> how])
  /\ UNCHANGED <<draft, evidence, node, cache, saved, report, round, most, dissents>>

\* The node's time is up: no further call is made.
Deadline ==
  /\ review.phase # "idle" /\ ~review.late
  /\ Faulty
  /\ review' = [review EXCEPT !.late = TRUE]
  /\ UNCHANGED <<draft, evidence, node, cache, saved, report, round, most, dissents>>

\* The main thread takes the next batch and saves the cache.
Collect ==
  /\ review.phase # "idle" /\ review.collected < Len(review.batches)
  /\ review.batches[review.collected + 1].at # "running"
  /\ review' = [review EXCEPT !.collected = @ + 1]
  /\ saved' = cache
  /\ UNCHANGED <<draft, evidence, node, cache, report, round, most, faults, dissents>>

Collected == review.phase # "idle" /\ review.collected = Len(review.batches)

\* _review_pair: every batch counts, or none.
Abort ==
  /\ Collected
  /\ \E j \in DOMAIN review.batches : review.batches[j].at = "error"
  /\ review' = Idle
  /\ saved' = cache
  /\ UNCHANGED <<draft, evidence, node, cache, report, round, most, faults, dissents>>

\* _merge_batch_reviews: each claim is in one batch.
Answered ==
  [r \in Roles |->
     LET of(s) == {j \in DOMAIN review.batches : s \in DOMAIN review.batches[j].done[r]}
     IN [s \in UNION {DOMAIN review.batches[j].done[r] : j \in DOMAIN review.batches} |->
           review.batches[CHOOSE j \in of(s) : TRUE].done[r][s]]]

\* The report judges a draft on the evidence its claims were bound to.
Reported(pair, second) ==
  /\ report' = [pair |-> pair, draft |-> draft, evidence |-> evidence,
                shown |-> Range(evidence) \cup Range(review.shown), second |-> second,
                passed |-> MetricsPass(pair, draft, evidence)]
  /\ review' = Idle /\ node' = "finalize" /\ saved' = cache
  /\ UNCHANGED <<draft, evidence, cache, round, most, faults, dissents>>

\* _review_resource after the first pair: report it, or refresh the evidence of
\* the claims in doubt and review these again.
Conclude ==
  /\ Collected /\ review.phase = "initial"
  /\ \A j \in DOMAIN review.batches : review.batches[j].at = "done"
  /\ LET doubtful == ToRefresh(Answered, draft, evidence)
         n == VerificationBudget(NResults, {KnowledgeOf[c] : c \in Declared(draft)})
     IN IF doubtful = {} THEN Reported(Answered, [r \in Roles |-> << >>])
        ELSE /\ \E fresh \in Fresh(n) :
                  review' = Reviewing("recheck", doubtful,
                                      WithRefreshed(evidence, fresh), Answered)
             /\ UNCHANGED <<draft, evidence, node, cache, saved, report, round, most, faults, dissents>>

ConcludeRecheck ==
  /\ Collected /\ review.phase = "recheck"
  /\ \A j \in DOMAIN review.batches : review.batches[j].at = "done"
  /\ Reported(Rechecked(review.pair, Answered), Answered)

\* The process stops during a review; the next one loads the saved answers.
Crash ==
  /\ review.phase # "idle"
  /\ Faulty
  /\ review' = Idle /\ cache' = saved
  /\ UNCHANGED <<draft, evidence, node, saved, report, round, most, dissents>>

\* finalize_task, for the one resource
Finalize ==
  /\ node = "finalize"
  /\ \/ report.passed /\ node' = "passed" /\ UNCHANGED round
     \/ ~report.passed /\ round < MaxRounds /\ node' = "retrieve" /\ round' = round + 1
     \/ /\ ~report.passed /\ round = MaxRounds /\ Convergent(report)
        /\ node' = "retrieve" /\ round' = round + 1
     \/ /\ ~report.passed /\ round >= MaxRounds
        /\ round > MaxRounds \/ ~Convergent(report)
        /\ node' = "withheld" /\ UNCHANGED round
  /\ UNCHANGED <<draft, evidence, review, cache, saved, report, most, faults, dissents>>

Next ==
  \/ Retrieve \/ Generate \/ Revise
  \/ StartReview \/ Deadline \/ Collect \/ Abort \/ Conclude \/ ConcludeRecheck
  \/ \E j \in 1..Cardinality(Sites), role \in Roles :
       /\ review.phase # "idle" /\ j \in DOMAIN review.batches
       /\ \/ Replay(j, role) \/ Call(j, role)
          \/ \E how \in {"splittable", "fatal"} : CallFails(j, role, how)
  \/ Crash \/ Finalize

Spec == Init /\ [][Next]_vars

-----------------------------------------------------------------------------
(* Properties                                                              *)

\* Every verdict of a report was given for the wording the claim has now, and
\* on chunks that were evidence of this review: answers replayed from the cache
\* of an earlier round, attempt or process never speak of another text, nor of
\* evidence that has left the task since.
VerdictsCurrent ==
  node = "finalize" =>
    \A r \in Roles, s \in Claims(draft) :
      LET check == report.pair[r][s] IN
      /\ check.text = draft.text[s]
      /\ check.packet.declared \cup check.packet.supplemental \subseteq report.shown
      /\ draft.cites[s] \cap Range(evidence) \subseteq check.packet.declared

\* Both models support the claim, on sources the resource declares.
Agreed(s) ==
  LET sources == UNION {report.pair[r][s].sources : r \in Roles} IN
  /\ \A r \in Roles : report.pair[r][s].verdict = "supported"
  /\ sources # {} /\ sources \subseteq Declared(draft) \cap Range(evidence)

Consensus ==
  LET agreed  == {s \in Claims(draft) : Agreed(s)}
      covered == {KnowledgeOf[c] : c \in UNION {draft.cites[s] : s \in agreed}}
  IN /\ 100 * Cardinality(Claims(draft) \ agreed) < 5 * Cardinality(Claims(draft))
     /\ 100 * Cardinality(Targets \cap covered) >= 90 * Cardinality(Targets)
     /\ \A r \in Roles, s \in Claims(draft) :
          s \in DOMAIN report.second[r] => report.pair[r][s] = report.second[r][s]

\* A resource passes only if all but less than a twentieth of its claims (none of
\* twenty) are supported by both models on sources the resource declares and the
\* task has, and nine tenths of the targets are covered by such claims, however
\* the review was split, repeated, interrupted or rechecked; where a claim was
\* rechecked, the second answers are the ones that count.
PassIsConsensus == node = "passed" => Consensus

\* A rejected statement never returns to its field in the revision that answers
\* the report: patches may repeat it and a rewrite may write it again, but it is
\* removed.  Misconceptions are the exception, as no revision path reaches them,
\* and the filler: an explanation that was removed already is "removed" again.
RejectedGone ==
  node = "review" /\ report # NoReport /\ round <= MaxRounds =>
    \A s \in Allowed(report) :
      report.draft.text[s] = "filler" \/ draft.text[s] # report.draft.text[s]
=============================================================================
